----------------------------- MODULE CreatorWizard -----------------------------
(***************************************************************************)
(* The wizard that asks for a new cluster, on the page with the list of    *)
(* clusters: its five steps share one flag that disables Next, which each  *)
(* step sets when it is mounted and when its form changes, and the step of *)
(* nodes by a mobx autorun that nobody disposes of.  The proposal of the   *)
(* server comes while the user may already type, the list of clusters that *)
(* says which names are taken is read again and again, and a request may   *)
(* be answered when its wizard has gone and another one is open.           *)
(*                                                                         *)
(* The fields of a form are one value: settings are there or missing, and  *)
(* a cluster's name stands for all fields of its step.  ClusterCreator has *)
(* the ids of nodes; here a node has a type and all it needs, or not.      *)
(***************************************************************************)
EXTENDS Naturals, Sequences, FiniteSets

CONSTANTS Names,      \* names of clusters
          Creators,   \* bound: how often the wizard is opened
          Visits,     \* bound: how often the page is opened
          MaxNodes,   \* bound: nodes of a cluster
          None        \* no name, no request

ASSUME WizardAssumption ==
    /\ None \notin Names \cup {"sent", "created", "failed"}
    /\ Creators \in Nat /\ Visits \in Nat \ {0} /\ MaxNodes \in Nat \ {0}

VARIABLES server,        \* names of the clusters that exist
          list,          \* clustersListStore: the names of those last read
          page,          \* which visit of the page it is
          creator,       \* which wizard is open, or 0
          opened,        \* how many were, and in which visit each
          generating,    \* the wizards whose proposal is under way
          isGenerating,  \* the processing indicator of proposals
          step, form, isValid, nextDisabled,
          store,         \* ClusterCreatorStore of the wizard
          watched,       \* whether an autorun looks at its nodes
          confirm, inProgress,
          request        \* what became of the request of each wizard

VARIABLES sent,          \* history: the requests, in their order
          overtaken,     \* history: the proposal came after the first step
          taken,         \* history: the name was taken between typing and Next
          known          \* history: the names that clusters have or have had

listVars   == <<server, list, page, known>>
wizardVars == <<step, form, isValid, nextDisabled, store, watched, confirm, inProgress>>
vars       == <<listVars, creator, opened, generating, isGenerating, wizardVars, request,
                sent, overtaken, taken>>

Steps == 0..4           \* Settings, Cluster, Nodes, Apps, Workloads

\* type: master, worker, or none when there was no proposal to derive it from;
\* filled: storagePool and ipAddress are not empty
Node(type, filled) == [type |-> type, filled |-> filled]
Nodes == [type : {"master", "worker", "none"}, filled : BOOLEAN]

\* initialProjectData, and the proposal: without a name, and one node without
\* an address
NoCluster == [settings |-> FALSE, name |-> None, nodes |-> <<>>, default |-> FALSE]
Proposal  == [settings |-> TRUE, name |-> None, nodes |-> <<Node("master", FALSE)>>, default |-> TRUE]

MasterNodes(nodes) == {i \in DOMAIN nodes : nodes[i].type = "master"}

NodesComplete(nodes) == /\ MasterNodes(nodes) # {}
                        /\ \A i \in DOMAIN nodes : nodes[i].filled

TypeOK ==
    /\ known \subseteq Names \cup {None} /\ server \subseteq known /\ list \subseteq known
    /\ page \in 1..Visits /\ creator \in 0..Len(opened)
    /\ Len(opened) <= Creators /\ \A n \in DOMAIN opened : opened[n] \in 1..page
    /\ generating \subseteq DOMAIN opened /\ isGenerating \in BOOLEAN
    /\ step \in Steps /\ form \in Names \cup {None} \cup BOOLEAN /\ isValid \in BOOLEAN
    /\ nextDisabled \in BOOLEAN /\ watched \in BOOLEAN
    /\ store.settings \in BOOLEAN /\ store.default \in BOOLEAN
    /\ store.name \in Names \cup {None}
    /\ store.nodes \in Seq(Nodes) /\ Len(store.nodes) <= MaxNodes
    /\ confirm \in BOOLEAN /\ inProgress \in BOOLEAN /\ overtaken \in BOOLEAN
    /\ taken \in BOOLEAN
    /\ confirm => creator # 0 /\ step = 4
    /\ request \in [1..Creators -> {None, "sent", "created", "failed"}]
    /\ inProgress => creator # 0 /\ request[creator] # None

\* Both forms with their rules; the name must not be one of the list.
Valid(s, f) == /\ s = 0 => f = TRUE
               /\ s = 1 => f # None /\ f \notin list

Stored(s, st) == CASE s = 0 -> st.settings [] s = 1 -> st.name [] OTHER -> None

(* A step is mounted: its form has what the store has, and its effects set  *)
(* the flag.                                                                *)
Mount_KeepsFlag(s, st) ==                                 \* mutant: no effect in Cluster
    /\ step' = s
    /\ form' = Stored(s, st)
    /\ isValid' = Valid(s, Stored(s, st))
    /\ nextDisabled' = CASE s = 2 -> ~NodesComplete(st.nodes)
                         [] s = 1 -> nextDisabled
                         [] OTHER -> ~isValid'
    /\ watched' = (watched \/ s = 2)
Mount(s, st) ==
    /\ step' = s
    /\ form' = Stored(s, st)
    /\ isValid' = Valid(s, Stored(s, st))
    /\ nextDisabled' = IF s = 2 THEN ~NodesComplete(st.nodes) ELSE ~isValid'
    /\ watched' = (watched \/ s = 2)

\* The effect on formik.isValid runs when that changes.
Revalidate(f, disabled) ==
    /\ form' = f
    /\ isValid' = Valid(step, f)
    /\ nextDisabled' = IF isValid' # isValid THEN ~isValid' ELSE disabled

Init ==
    /\ server \in SUBSET Names /\ known = server /\ list = {} /\ page = 1
    /\ creator = 0 /\ opened = <<>> /\ generating = {} /\ isGenerating = FALSE
    /\ step = 0 /\ form = FALSE /\ isValid = FALSE /\ nextDisabled = TRUE
    /\ store = NoCluster /\ watched = FALSE
    /\ confirm = FALSE /\ inProgress = FALSE
    /\ request = [n \in 1..Creators |-> None]
    /\ sent = <<>> /\ overtaken = FALSE /\ taken = FALSE
-----------------------------------------------------------------------------
(* The page *)
loadClusters ==
    /\ list' = server
    /\ UNCHANGED <<server, page, known, creator, opened, generating, isGenerating, wizardVars, request,
                   sent, overtaken, taken>>

OthersCreate ==
    /\ \E x \in Names \ server : server' = server \cup {x} /\ known' = known \cup {x}
    /\ UNCHANGED <<list, page, creator, opened, generating, isGenerating, wizardVars, request,
                   sent, overtaken, taken>>

\* The deletion of a cluster ends with its record.
OthersDelete ==
    /\ \E x \in server : server' = server \ {x}
    /\ UNCHANGED <<list, page, known, creator, opened, generating, isGenerating, wizardVars, request,
                   sent, overtaken, taken>>

\* The state of a wizard starts anew, and goes with it.
Blank == /\ step' = 0 /\ form' = FALSE /\ isValid' = FALSE /\ nextDisabled' = TRUE
         /\ store' = NoCluster /\ watched' = FALSE
         /\ confirm' = FALSE /\ inProgress' = FALSE /\ overtaken' = FALSE /\ taken' = FALSE

OpenCreator ==
    /\ creator = 0 /\ Len(opened) < Creators
    /\ opened' = Append(opened, page)
    /\ creator' = Len(opened) + 1
    /\ generating' = generating \cup {Len(opened) + 1}
    /\ isGenerating' = TRUE
    /\ Blank
    /\ UNCHANGED <<listVars, request, sent>>

Gone == creator' = 0 /\ Blank /\ UNCHANGED opened

CloseCreator ==
    /\ creator # 0 /\ ~isGenerating
    /\ Gone
    /\ UNCHANGED <<listVars, generating, isGenerating, request, sent>>

\* Back and forth in the browser, or a lost session
LeavePage ==
    /\ page < Visits
    /\ page' = page + 1
    /\ Gone
    /\ UNCHANGED <<server, list, known, generating, isGenerating, request, sent>>
-----------------------------------------------------------------------------
(* The proposal: the store gets it, and the mounted form starts from it.    *)
(* First the autorun, which is still there when the user has gone back.     *)
generateDefaultCluster(n) ==
    /\ n \in generating
    /\ generating' = generating \ {n}
    /\ isGenerating' = FALSE
    /\ IF n = creator
       THEN /\ store' = Proposal
            /\ Revalidate(Stored(step, Proposal), nextDisabled \/ watched)
            /\ overtaken' = (step > 0 \/ watched)
       ELSE UNCHANGED <<store, form, isValid, nextDisabled, overtaken>>
    /\ UNCHANGED <<listVars, creator, opened, step, watched, confirm, inProgress, request, sent, taken>>

GenerateFails(n) ==
    /\ n \in generating
    /\ generating' = generating \ {n}
    /\ isGenerating' = FALSE
    /\ UNCHANGED <<listVars, creator, opened, wizardVars, request, sent, overtaken, taken>>
-----------------------------------------------------------------------------
(* The steps *)
Editing(s) == creator # 0 /\ step = s /\ ~confirm

FillSettings ==
    /\ Editing(0)
    /\ Revalidate(TRUE, nextDisabled)
    /\ UNCHANGED <<listVars, creator, opened, generating, isGenerating, step, store, watched,
                   confirm, inProgress, request, sent, overtaken, taken>>

\* A field of the step is changed, or left: all are looked at again.
TypeName ==
    /\ Editing(1)
    /\ \E x \in Names \cup {None} : Revalidate(x, nextDisabled)
    /\ UNCHANGED <<listVars, creator, opened, generating, isGenerating, step, store, watched,
                   confirm, inProgress, request, sent, overtaken, taken>>

\* updateSettings and updateClusterSettings
Submitted(s) == CASE s = 0 -> [store EXCEPT !.settings = form]
                  [] s = 1 -> [store EXCEPT !.name = form]
                  [] OTHER -> store

(* submitForm() looks at the fields again and returns like any other when   *)
(* they are not valid by now: the wizard goes on with what the store has.   *)
NextStep ==
    /\ creator # 0 /\ ~confirm /\ ~nextDisabled
    /\ store' = IF Valid(step, form) THEN Submitted(step) ELSE store
    /\ taken' = IF step = 1 THEN form # None /\ ~Valid(step, form) ELSE taken
    /\ IF step = 4
       THEN confirm' = TRUE /\ UNCHANGED <<step, form, isValid, nextDisabled, watched>>
       ELSE Mount(step + 1, store') /\ UNCHANGED confirm
    /\ UNCHANGED <<listVars, creator, opened, generating, isGenerating, inProgress, request,
                   sent, overtaken>>

PreviousStep ==
    /\ creator # 0 /\ ~confirm /\ step > 0
    /\ Mount(step - 1, store)
    /\ UNCHANGED <<listVars, creator, opened, generating, isGenerating, store, confirm,
                   inProgress, request, sent, overtaken, taken>>

\* The autorun of the step of nodes
Autorun_AnyMaster(nodes) == nextDisabled' = (MasterNodes(nodes) = {})   \* mutant: masters only
Autorun(nodes) == nextDisabled' = ~NodesComplete(nodes)

SetNodes(nodes) ==
    /\ store' = [store EXCEPT !.nodes = nodes]
    /\ Autorun(nodes)
    /\ UNCHANGED <<listVars, creator, opened, generating, isGenerating, step, form, isValid,
                   watched, confirm, inProgress, request, sent, overtaken, taken>>

\* generateNode: the first one is the proposal's master, whatever was asked
\* for, and an empty object without a proposal; others are derived from one
\* that has a name, and have some address.
addNode ==
    /\ Editing(2) /\ Len(store.nodes) < MaxNodes
    /\ IF store.nodes = <<>>
       THEN SetNodes(<<Node(IF store.default THEN "master" ELSE "none", FALSE)>>)
       ELSE /\ \A i \in DOMAIN store.nodes : store.nodes[i].type # "none"
            /\ \E type \in {"master", "worker"} : SetNodes(Append(store.nodes, Node(type, TRUE)))

Shown(i) == store.nodes[i].type # "none"

\* "Save", which the form allows with all fields only
updateNode ==
    /\ Editing(2)
    /\ \E i \in DOMAIN store.nodes : Shown(i) /\ SetNodes([store.nodes EXCEPT ![i].filled = TRUE])

canBeDeleted(i) == store.nodes[i].type = "master" => Cardinality(MasterNodes(store.nodes)) > 1

deleteNode ==
    /\ Editing(2)
    /\ \E i \in DOMAIN store.nodes :
          /\ Shown(i) /\ canBeDeleted(i)
          /\ SetNodes([j \in 1..(Len(store.nodes) - 1) |-> store.nodes[IF j < i THEN j ELSE j + 1]])
-----------------------------------------------------------------------------
(* The confirmation.  "No" waits for the request, the cross does not.       *)
Dismiss ==
    /\ confirm
    /\ confirm' = FALSE
    /\ UNCHANGED <<listVars, creator, opened, generating, isGenerating, step, form, isValid,
                   nextDisabled, store, watched, inProgress, request, sent, overtaken, taken>>

YesEnabled_Always == TRUE                                 \* mutant: not disabled
YesEnabled == ~inProgress

startClusterProvisioning ==
    /\ confirm /\ YesEnabled
    /\ Len(sent) <= Creators
    /\ inProgress' = TRUE
    /\ request' = [request EXCEPT ![creator] = "sent"]
    /\ sent' = Append(sent, [by |-> creator, what |-> store, excused |-> overtaken \/ taken])
    /\ UNCHANGED <<listVars, creator, opened, generating, isGenerating, step, form, isValid,
                   nextDisabled, store, watched, confirm, overtaken, taken>>

Request(n) == LET i == CHOOSE i \in DOMAIN sent : sent[i].by = n IN sent[i].what

\* create_cluster; ClusterLifecycle has the rest.
ServerCreates(n) ==
    /\ request[n] = "sent"
    /\ IF Request(n).name \in server
       THEN request' = [request EXCEPT ![n] = "failed"] /\ UNCHANGED <<server, known>>
       ELSE /\ request' = [request EXCEPT ![n] = "created"]
            /\ server' = server \cup {Request(n).name}
            /\ known' = known \cup {Request(n).name}
    /\ UNCHANGED <<list, page, creator, opened, generating, isGenerating, wizardVars, sent, overtaken, taken>>

(* The answer hides the wizard of the page that its own was on, whichever   *)
(* is open there now.  After a failure nothing happens: the flag stays up.  *)
Provisioned(n) ==
    /\ request[n] = "created"
    /\ request' = [request EXCEPT ![n] = None]
    /\ opened[n] = page /\ creator # 0
    /\ Gone
    /\ UNCHANGED <<listVars, generating, isGenerating, sent>>

Next ==
    \/ loadClusters \/ OthersCreate \/ OthersDelete
    \/ OpenCreator \/ CloseCreator \/ LeavePage
    \/ \E n \in generating : generateDefaultCluster(n) \/ GenerateFails(n)
    \/ FillSettings \/ TypeName \/ NextStep \/ PreviousStep
    \/ addNode \/ updateNode \/ deleteNode
    \/ Dismiss \/ startClusterProvisioning
    \/ \E n \in DOMAIN opened : ServerCreates(n) \/ Provisioned(n)

Spec == Init /\ [][Next]_vars
-----------------------------------------------------------------------------
(* What is sent has settings, a master, and storage and an address for each *)
(* node, in whatever order the proposal, the edits and the steps came.      *)
SentIsComplete ==
    \A i \in DOMAIN sent : sent[i].what.settings /\ NodesComplete(sent[i].what.nodes)

(* A wizard makes at most one request, although "Yes" can be pressed again  *)
(* when the confirmation was dismissed while the request was under way.     *)
OneRequest == \A i, j \in DOMAIN sent : sent[i].by = sent[j].by => i = j

(* The flag that all steps share says what the step on the screen needs;    *)
(* unless the proposal came late.  A name may have been taken since it was  *)
(* looked at, or become free: Next stays disabled for the name of a cluster *)
(* that there was, until the form is looked at again.                       *)
NextFitsStep ==
    creator # 0 /\ ~overtaken =>
        CASE step = 0 -> nextDisabled <=> form # TRUE
          [] step = 1 -> /\ form = None => nextDisabled
                         /\ nextDisabled => form = None \/ form \in known
          [] step = 2 -> nextDisabled <=> ~NodesComplete(store.nodes)
          [] OTHER    -> ~nextDisabled

(* "Cluster name is required": every request has one, unless the proposal   *)
(* came late and replaced the store, or the name that was typed was in the  *)
(* list by the time of Next, which then goes on without it.                 *)
SentIsNamed == \A i \in DOMAIN sent : sent[i].excused \/ sent[i].what.name # None

(* The way from step to step: Next is open when its step is complete, and   *)
(* what was named stays so.                                                 *)
StepsInv == TypeOK /\ NextFitsStep /\ SentIsNamed
=============================================================================
