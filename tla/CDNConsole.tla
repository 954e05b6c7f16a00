----------------------------- MODULE CDNConsole -----------------------------
(***************************************************************************)
(* The page of CDN operations (CDNPage): the selection of a project, a CDN *)
(* and a bucket, the three operations with an input each behind one form,  *)
(* and the query for directories.                                          *)
(***************************************************************************)
EXTENDS ConsolePage

CONSTANTS
  ContextOf,     \* ContextOf[p]: what /projects/:id/context answers for a project one may read
  Links,         \* the projects of links to the page, None for no link
  Visitors       \* whether a visitor is a platform administrator

Operations == {"url", "directory", "sync"}

ASSUME ContextAssumption == DOMAIN ContextOf \subseteq Projects
ASSUME VisitAssumption == Links \subseteq Projects \cup {None} /\ Visitors \subseteq BOOLEAN

-----------------------------------------------------------------------------
(* Values of the form.                                                     *)

\* A line as each input asks for: an URL, a path with and one without a leading slash.
LineFor == [url |-> "https://x", directory |-> "/dir/", sync |-> "file"]

\* A directory the server found; composeDirectoryPath puts no slash before it.
Candidate == "dir/"

Texts == (SUBSET {LineFor[op] : op \in Operations}) \cup {{LineFor["directory"], Candidate}, {Candidate}}

\* The rules of the operation's field, for the lines splitByLines leaves.
Accepted(op, entries) ==
  /\ entries # {}
  /\ op = "url" => entries \subseteq {LineFor["url"]}
  /\ op = "directory" => entries \subseteq {LineFor["directory"]}
  /\ op = "sync" => LineFor["directory"] \notin entries

Names(bound) == {bound[k].name : k \in DOMAIN bound}

-----------------------------------------------------------------------------
VARIABLES
  queried,             \* the project of the page's link, which selects it
  cdnAdmin,            \* isPlatformAdmin
  cdnProjects,         \* projectOptions
  cdnSelected,         \* the form's projectId
  contextOf,           \* whose role, CDNs and buckets are loaded, None for none
  cdnForm,             \* cdnEndpoint and bucketName of the form
  activeOperation,
  operationInputs,
  formInput,           \* operationInput of the form
  directoryOptions,    \* whether there are directories to choose from
  selectedDirectory,
  optionsLoading, bindingsLoading, operationSubmitting, directoryLoading,
  cdnCalls

cdnVars == <<queried, cdnAdmin, cdnProjects, cdnSelected, contextOf, cdnForm, activeOperation,
             operationInputs, formInput, directoryOptions, selectedDirectory,
             optionsLoading, bindingsLoading, operationSubmitting, directoryLoading, cdnCalls>>

CdnCalls ==
  [op : {"options", "bootstrap", "context", "directories"} \cup Operations,
   of : Projects \cup {None}]
ASSUME CdnCallsAssumption == Idle \notin CdnCalls

CDNTypeOK ==
  /\ queried \in Projects \cup {None} /\ cdnAdmin \in BOOLEAN
  /\ cdnProjects \in SUBSET Projects
  /\ {cdnSelected, contextOf} \subseteq Projects \cup {None}
  /\ DOMAIN cdnForm = {"cdn", "bucket"}
  /\ activeOperation \in Operations
  /\ operationInputs \in [Operations -> Texts] /\ formInput \in Texts
  /\ {directoryOptions, selectedDirectory, optionsLoading, bindingsLoading, operationSubmitting, directoryLoading}
       \subseteq BOOLEAN
  /\ cdnCalls \in [CallIds -> CdnCalls \cup {Idle}]

CdnCall(op, p) == [op |-> op, of |-> p]
CdnAsked(ops) == {c \in CallIds : cdnCalls[c] # Idle /\ cdnCalls[c].op \in ops}

NoBindings == [cdn |-> "", bucket |-> ""]

\* The page asks for the projects; for a link to a project it asks once more, as
\* it has none yet (bootstrapProjectFromQuery).
CDNInit ==
  /\ queried \in Links /\ cdnAdmin \in Visitors
  /\ cdnProjects = {} /\ cdnSelected = None /\ contextOf = None /\ cdnForm = NoBindings
  /\ activeOperation = "url" /\ operationInputs = [op \in Operations |-> {}] /\ formInput = {}
  /\ directoryOptions = FALSE /\ selectedDirectory = FALSE
  /\ optionsLoading = TRUE
  /\ bindingsLoading = FALSE /\ operationSubmitting = FALSE /\ directoryLoading = FALSE
  /\ \E c, d \in CallIds :
       /\ c # d
       /\ LET first == Started(NoCalls, c, CdnCall("options", None))
          IN cdnCalls = IF queried = None THEN first
                        ELSE Started(first, d, CdnCall("bootstrap", queried))

InputsUnchanged == UNCHANGED <<activeOperation, operationInputs, formInput>>
TasksUnchanged == UNCHANGED operationSubmitting
CandidatesUnchanged == UNCHANGED <<directoryOptions, selectedDirectory, directoryLoading>>
SelectionUnchanged ==
  UNCHANGED <<cdnProjects, cdnSelected, contextOf, cdnForm, optionsLoading, bindingsLoading>>
CdnFixed == UNCHANGED <<queried, cdnAdmin>>

-----------------------------------------------------------------------------
(* The selection.                                                          *)

\* loadBindingsByProject up to its request; only the role is cleared, and what was
\* loaded before keeps its place in the form.
LoadBindings(c, p, calls) ==
  /\ cdnSelected' = p
  /\ contextOf' = contextOf /\ bindingsLoading' = TRUE
  /\ cdnCalls' = Started(calls, c, CdnCall("context", p))
  /\ UNCHANGED cdnForm

\* loadProjectOptions after its request, for the page and for a link: a link to a
\* project that is in the list selects it.
OptionsAnswer(c) ==
  /\ c \in CdnAsked({"options", "bootstrap"})
  /\ \E items \in {{}, DOMAIN ContextOf} :
       /\ cdnProjects' = items
       /\ IF cdnCalls[c].op = "bootstrap" /\ cdnCalls[c].of \in items
            THEN LoadBindings(c, cdnCalls[c].of, cdnCalls)
            ELSE /\ cdnCalls' = Ended(cdnCalls, c)
                 /\ UNCHANGED <<cdnSelected, contextOf, cdnForm, bindingsLoading>>
  /\ optionsLoading' = FALSE
  /\ CdnFixed /\ InputsUnchanged /\ TasksUnchanged /\ CandidatesUnchanged

SelectCdnProject(c) ==
  /\ cdnCalls[c] = Idle
  /\ \E p \in cdnProjects \ {cdnSelected} : LoadBindings(c, p, cdnCalls)
  /\ CdnFixed /\ InputsUnchanged /\ TasksUnchanged /\ CandidatesUnchanged
  /\ UNCHANGED <<cdnProjects, optionsLoading>>

\* loadBindingsByProject after its request.
CdnContextAnswer(c) ==
  /\ c \in CdnAsked({"context"})
  /\ LET p == cdnCalls[c].of
     IN \/ /\ contextOf' = p
           /\ cdnForm' = [cdn |-> PickPrimaryOrFirst(ContextOf[p].cdns, ""),
                          bucket |-> PickPrimaryOrFirst(ContextOf[p].buckets, "")]
        \/ contextOf' = None /\ cdnForm' = NoBindings
  /\ directoryOptions' = FALSE /\ selectedDirectory' = FALSE
  /\ bindingsLoading' = FALSE
  /\ cdnCalls' = Ended(cdnCalls, c)
  /\ CdnFixed /\ InputsUnchanged /\ TasksUnchanged
  /\ UNCHANGED <<cdnProjects, cdnSelected, optionsLoading, directoryLoading>>

Cdns == IF contextOf = None THEN {} ELSE Names(ContextOf[contextOf].cdns)
BucketsBound == IF contextOf = None THEN {} ELSE Names(ContextOf[contextOf].buckets)

\* The two other lists of the form; both can be cleared.
SelectBinding ==
  /\ \/ \E cdn \in (Cdns \cup {""}) \ {cdnForm.cdn} : cdnForm' = [cdnForm EXCEPT !.cdn = cdn]
     \/ \E bucket \in (BucketsBound \cup {""}) \ {cdnForm.bucket} :
          cdnForm' = [cdnForm EXCEPT !.bucket = bucket]
  /\ CdnFixed /\ InputsUnchanged /\ TasksUnchanged /\ CandidatesUnchanged
  /\ UNCHANGED <<cdnProjects, cdnSelected, contextOf, optionsLoading, bindingsLoading, cdnCalls>>

\* The role is cleared as soon as another project is chosen.
CdnRole == IF bindingsLoading \/ contextOf = None THEN "" ELSE ContextOf[contextOf].role
CanOperate == cdnAdmin \/ CdnRole = "project_admin"

\* getBasePayload: the rules of the form.
BaseValid ==
  /\ cdnSelected # None
  /\ Cdns # {} /\ cdnForm.cdn # ""
  /\ activeOperation = "sync" => BucketsBound # {} /\ cdnForm.bucket # ""

-----------------------------------------------------------------------------
(* The operations.                                                         *)

\* Mutant of ShowInput: the form keeps what it shows.
ShowInputAsItWas(op, inputs) == formInput' = formInput

\* The effect that shows the input of an operation in the form.
ShowInput(op, inputs) == formInput' = inputs[op]

SwitchOperation ==
  /\ activeOperation' \in Operations \ {activeOperation}
  /\ ShowInput(activeOperation', operationInputs)
  /\ CdnFixed /\ SelectionUnchanged /\ TasksUnchanged /\ CandidatesUnchanged
  /\ UNCHANGED <<operationInputs, cdnCalls>>

\* The text area writes what is sent to the form and to the input of its operation.
TypeInput ==
  /\ \E typed \in {{}, {LineFor[activeOperation]}} :
       /\ formInput' = typed
       /\ operationInputs' = [operationInputs EXCEPT ![activeOperation] = typed]
       /\ operationInputs' # operationInputs
  /\ CdnFixed /\ SelectionUnchanged /\ TasksUnchanged /\ CandidatesUnchanged
  /\ UNCHANGED <<activeOperation, cdnCalls>>

\* submitActiveOperation up to its request.
SubmitOperation(c) ==
  /\ CanOperate /\ ~operationSubmitting /\ cdnCalls[c] = Idle
  /\ cdnSelected # None => IF activeOperation = "sync" THEN BucketsBound # {} ELSE Cdns # {}
  /\ BaseValid /\ Accepted(activeOperation, formInput)
  /\ cdnCalls' = Started(cdnCalls, c, CdnCall(activeOperation, cdnSelected))
  /\ operationSubmitting' = TRUE
  /\ CdnFixed /\ SelectionUnchanged /\ InputsUnchanged /\ CandidatesUnchanged

\* The task it answers with is shown and not used again.
OperationAnswer(c) ==
  /\ c \in CdnAsked(Operations)
  /\ operationSubmitting' = FALSE
  /\ cdnCalls' = Ended(cdnCalls, c)
  /\ CdnFixed /\ SelectionUnchanged /\ InputsUnchanged /\ CandidatesUnchanged

-----------------------------------------------------------------------------
(* Directories.                                                            *)

\* queryDirectoryCandidates up to its request.
QueryDirectories(c) ==
  /\ activeOperation = "directory" /\ ~directoryLoading /\ cdnCalls[c] = Idle
  /\ BaseValid /\ cdnForm.bucket # ""
  /\ cdnCalls' = Started(cdnCalls, c, CdnCall("directories", cdnSelected))
  /\ directoryLoading' = TRUE
  /\ CdnFixed /\ SelectionUnchanged /\ InputsUnchanged /\ TasksUnchanged
  /\ UNCHANGED <<directoryOptions, selectedDirectory>>

DirectoriesAnswer(c) ==
  /\ c \in CdnAsked({"directories"})
  /\ directoryOptions' \in BOOLEAN
  /\ selectedDirectory' = FALSE /\ directoryLoading' = FALSE
  /\ cdnCalls' = Ended(cdnCalls, c)
  /\ CdnFixed /\ SelectionUnchanged /\ InputsUnchanged /\ TasksUnchanged

ChooseDirectory ==
  /\ activeOperation = "directory" /\ directoryOptions
  /\ selectedDirectory' = ~selectedDirectory
  /\ CdnFixed /\ SelectionUnchanged /\ InputsUnchanged /\ TasksUnchanged
  /\ UNCHANGED <<directoryOptions, directoryLoading, cdnCalls>>

\* appendSelectedDirectory
AppendSelectedDirectory ==
  /\ activeOperation = "directory" /\ selectedDirectory
  /\ LET next == operationInputs["directory"] \cup {Candidate}
     IN /\ operationInputs' = [operationInputs EXCEPT !["directory"] = next]
        /\ formInput' = next
  /\ CdnFixed /\ SelectionUnchanged /\ TasksUnchanged /\ CandidatesUnchanged
  /\ UNCHANGED <<activeOperation, cdnCalls>>

-----------------------------------------------------------------------------
CDNNext ==
  \/ SelectBinding \/ SwitchOperation \/ TypeInput \/ ChooseDirectory \/ AppendSelectedDirectory
  \/ \E c \in CallIds :
       \/ OptionsAnswer(c) \/ SelectCdnProject(c) \/ CdnContextAnswer(c)
       \/ SubmitOperation(c) \/ OperationAnswer(c) \/ QueryDirectories(c) \/ DirectoriesAnswer(c)

CDNSpec == CDNInit /\ [][CDNNext]_cdnVars

-----------------------------------------------------------------------------
(* Properties.                                                             *)

\* Three operations share one form and one button: what is sent for an operation
\* is what its own tab holds, whatever was typed and appended under the others
\* (the effect on operationInput).
OperationsKeptApart == formInput = operationInputs[activeOperation]

\* A spinner has a request under way that ends it.
CDNNeverStuck ==
  /\ optionsLoading => CdnAsked({"options", "bootstrap"}) # {}
  /\ bindingsLoading => CdnAsked({"context"}) # {}
  /\ operationSubmitting => CdnAsked(Operations) # {}
  /\ directoryLoading => CdnAsked({"directories"}) # {}
=============================================================================
