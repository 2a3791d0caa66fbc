---------------------------- MODULE BrowserProofs ----------------------------
(***************************************************************************)
(* Two parts of the browser.  What a wizard sends, for any names, wizards, *)
(* visits and nodes; then the Helm apps of a cluster, for any definitions, *)
(* visits, clicks and failures.                                            *)
(***************************************************************************)
EXTENDS CreatorWizard, ManagedApps, PositionsProofs, SequenceTheorems, TLAPS

Stores == [settings : BOOLEAN, name : Names \cup {None}, nodes : Seq(Nodes), default : BOOLEAN]
Sents  == [by : Nat, what : Stores, excused : BOOLEAN]

WizardTypes ==
    /\ page \in Nat /\ opened \in Seq(Nat)
    /\ creator \in 0..Len(opened) /\ generating \subseteq 1..Len(opened)
    /\ store \in Stores /\ sent \in Seq(Sents)
    /\ step \in Steps
    /\ step = 0 => form \in BOOLEAN
    /\ step = 1 => form \in Names \cup {None}

(* Each step stands for what Next asked for before it.                      *)
Passed ==
    creator # 0 =>
        /\ step >= 1 => store.settings = TRUE
        /\ step >= 3 => NodesComplete(store.nodes)
        /\ step = 0 /\ ~nextDisabled => form = TRUE
        /\ step = 2 /\ ~nextDisabled => NodesComplete(store.nodes)
        /\ step = 2 => watched /\ isValid
        /\ confirm => step = 4

(* Without the proposal there is no master, nor can there be one: this is   *)
(* why it never comes after the step of nodes.                              *)
NoProposal ==
    creator # 0 =>
        /\ creator \in generating => ~store.default
        /\ ~store.default => \A i \in DOMAIN store.nodes : store.nodes[i].type = "none"

Asked ==
    /\ confirm => creator # 0
    /\ \A i \in DOMAIN sent : sent[i].by \in 1..Len(opened)
    /\ creator # 0 => \A i \in DOMAIN sent : sent[i].by = creator => inProgress

WizardInv == WizardTypes /\ Passed /\ NoProposal /\ Asked /\ SentIsComplete /\ OneRequest
-----------------------------------------------------------------------------
LEMMA IsSeq ==
    ASSUME NEW S, NEW n \in Nat, NEW f \in [1..n -> S]
    PROVE  f \in Seq(S)
  BY SeqDef, Zenon

LEMMA OneElement ==
    ASSUME NEW S, NEW x \in S
    PROVE  <<x>> \in Seq(S)
  <1>1. <<x>> \in [1..1 -> S]
    OBVIOUS
  <1>2. QED
    BY <1>1, IsSeq

\* What the steps make of their forms, one by one
LEMMA Forms ==
    ASSUME NEW f, NEW st
    PROVE  /\ Valid(0, f) <=> f = TRUE
           /\ Valid(2, f)
           /\ Stored(0, st) = st.settings /\ Stored(1, st) = st.name
           /\ \A s \in 2..4 : Stored(s, st) = None
  <1>1. Valid(0, f) <=> f = TRUE
    BY DEF Valid
  <1>2. Valid(2, f)
    BY DEF Valid
  <1>3. Stored(0, st) = st.settings /\ Stored(1, st) = st.name
    BY DEF Stored
  <1>4. \A s \in 2..4 : Stored(s, st) = None
    BY DEF Stored
  <1>5. QED
    BY <1>1, <1>2, <1>3, <1>4

LEMMA SubmittedForms ==
    /\ Submitted(0) = [store EXCEPT !.settings = form]
    /\ Submitted(1) = [store EXCEPT !.name = form]
    /\ \A s \in 2..4 : Submitted(s) = store
  BY DEF Submitted

LEMMA ProposalTypes == NoCluster \in Stores /\ Proposal \in Stores
  <1>1. Node("master", FALSE) \in Nodes
    BY DEF Node, Nodes
  <1>2. <<Node("master", FALSE)>> \in Seq(Nodes) /\ <<>> \in Seq(Nodes)
    BY <1>1, OneElement, EmptySeq
  <1>3. QED
    BY <1>2 DEF NoCluster, Proposal, Stores

(* A complete list of nodes has a master, and so came from the proposal.    *)
LEMMA CompleteMeansProposed ==
    ASSUME WizardTypes, NoProposal, creator # 0, NodesComplete(store.nodes)
    PROVE  creator \notin generating
  <1>1. PICK i \in DOMAIN store.nodes : store.nodes[i].type = "master"
    BY DEF NodesComplete, MasterNodes
  <1>2. store.default
    BY <1>1 DEF NoProposal
  <1>3. QED
    BY <1>2 DEF NoProposal

(* Steps that change nothing the invariant looks at, but perhaps the form,  *)
(* the request and the list.                                                *)
LEMMA QuietStep ==
    ASSUME WizardInv,
           \/ loadClusters \/ OthersCreate \/ OthersDelete \/ Dismiss
           \/ \E n \in generating : GenerateFails(n)
           \/ \E n \in DOMAIN opened : ServerCreates(n)
    PROVE  WizardInv'
  <1>1. UNCHANGED <<page, opened, creator, store, sent, step, form, nextDisabled, watched, isValid, inProgress>>
    BY DEF loadClusters, OthersCreate, OthersDelete, Dismiss, GenerateFails, ServerCreates, listVars, wizardVars
  <1>2. generating' \subseteq generating /\ (confirm' => confirm)
    BY DEF loadClusters, OthersCreate, OthersDelete, Dismiss, GenerateFails, ServerCreates, listVars, wizardVars
  <1>3. WizardTypes'
    BY <1>1, <1>2 DEF WizardInv, WizardTypes
  <1>4. Passed' /\ NoProposal' /\ Asked'
    BY <1>1, <1>2 DEF WizardInv, Passed, NoProposal, Asked
  <1>5. SentIsComplete' /\ OneRequest'
    BY <1>1 DEF WizardInv, SentIsComplete, OneRequest
  <1>6. QED
    BY <1>3, <1>4, <1>5 DEF WizardInv

(* A wizard that goes.                                                      *)
LEMMA GoneStep ==
    ASSUME WizardInv,
           CloseCreator \/ LeavePage \/ \E n \in DOMAIN opened : Provisioned(n)
    PROVE  WizardInv'
  <1>1. /\ creator' = 0 /\ ~confirm' /\ store' = NoCluster /\ step' = 0 /\ form' = FALSE
        /\ UNCHANGED <<opened, sent, generating>>
    BY DEF CloseCreator, LeavePage, Provisioned, Gone, Blank
  <1>2. page' \in Nat
    BY DEF WizardInv, WizardTypes, CloseCreator, LeavePage, Provisioned, listVars
  <1>3. Len(opened) \in Nat
    BY DEF WizardInv, WizardTypes
  <1>4. WizardTypes'
    <2>1. store' \in Stores /\ step' \in Steps /\ step' = 0
      BY <1>1, ProposalTypes DEF Steps
    <2>2. form' \in BOOLEAN
      BY <1>1, Zenon
    <2>3. QED
      BY <1>1, <1>2, <1>3, <2>1, <2>2 DEF WizardInv, WizardTypes
  <1>5. Passed' /\ NoProposal' /\ Asked'
    BY <1>1 DEF WizardInv, Passed, NoProposal, Asked
  <1>6. SentIsComplete' /\ OneRequest'
    BY <1>1 DEF WizardInv, SentIsComplete, OneRequest
  <1>7. QED
    BY <1>4, <1>5, <1>6 DEF WizardInv

LEMMA OpenStep ==
    ASSUME WizardInv, OpenCreator
    PROVE  WizardInv'
  <1>1. /\ opened' = Append(opened, page) /\ creator' = Len(opened) + 1
        /\ generating' = generating \cup {Len(opened) + 1}
        /\ step' = 0 /\ form' = FALSE /\ nextDisabled' = TRUE /\ store' = NoCluster
        /\ confirm' = FALSE /\ UNCHANGED <<sent, page>>
    BY DEF OpenCreator, Blank, listVars
  <1>2. opened' \in Seq(Nat) /\ Len(opened') = Len(opened) + 1 /\ Len(opened) \in Nat
    BY <1>1 DEF WizardInv, WizardTypes
  <1>3. WizardTypes'
    <2>1. generating' \subseteq 1..Len(opened')
      <3>1. generating \subseteq 1..Len(opened)
        BY DEF WizardInv, WizardTypes
      <3>2. 1..Len(opened) \subseteq 1..Len(opened') /\ Len(opened) + 1 \in 1..Len(opened')
        BY <1>2
      <3>3. QED
        BY <1>1, <3>1, <3>2, Zenon
    <2>2. creator' \in 0..Len(opened')
      BY <1>1, <1>2
    <2>3. page' \in Nat /\ sent' \in Seq(Sents) /\ store' \in Stores
      BY <1>1, ProposalTypes DEF WizardInv, WizardTypes
    <2>4. step' = 0 /\ step' \in Steps /\ form' \in BOOLEAN
      <3>1. form' \in BOOLEAN
        BY <1>1, Zenon
      <3>2. QED
        BY <1>1, <3>1 DEF Steps
    <2>5. QED
      BY <1>2, <2>1, <2>2, <2>3, <2>4 DEF WizardTypes
  <1>4. Passed'
    BY <1>1 DEF Passed
  <1>5. NoProposal'
    BY <1>1 DEF NoProposal, NoCluster
  <1>6. Asked'
    <2>1. \A i \in DOMAIN sent : sent[i].by \in 1..Len(opened)
      BY DEF WizardInv, Asked
    <2>2. QED
      BY <1>1, <1>2, <2>1 DEF Asked
  <1>7. SentIsComplete' /\ OneRequest'
    BY <1>1 DEF WizardInv, SentIsComplete, OneRequest
  <1>8. QED
    BY <1>3, <1>4, <1>5, <1>6, <1>7 DEF WizardInv

(* The proposal comes at one of the first three steps, and at the third it  *)
(* disables Next.                                                           *)
LEMMA ProposalStep ==
    ASSUME WizardInv, NEW n \in generating, generateDefaultCluster(n)
    PROVE  WizardInv'
  <1>1. UNCHANGED <<page, opened, creator, sent, step, watched, confirm, inProgress>>
        /\ generating' = generating \ {n}
    BY DEF generateDefaultCluster, listVars
  <1>2. SentIsComplete' /\ OneRequest' /\ Asked'
    BY <1>1 DEF WizardInv, SentIsComplete, OneRequest, Asked
  <1>3. CASE n # creator
    <2>1. UNCHANGED <<store, form, isValid, nextDisabled>>
      BY <1>3 DEF generateDefaultCluster
    <2>2. WizardTypes' /\ Passed' /\ NoProposal'
      BY <1>1, <2>1 DEF WizardInv, WizardTypes, Passed, NoProposal
    <2>3. QED
      BY <1>2, <2>2 DEF WizardInv
  <1>4. CASE n = creator
    <2>1. store' = Proposal /\ Revalidate(Stored(step, Proposal), nextDisabled \/ watched)
      BY <1>4 DEF generateDefaultCluster
    <2>2. ~NodesComplete(store.nodes) /\ creator # 0
      BY <1>4, CompleteMeansProposed DEF WizardInv, WizardTypes
    <2>3. step \in 0..2
      BY <2>2 DEF WizardInv, WizardTypes, Passed, Steps
    <2>4. /\ form' = Stored(step, Proposal)
          /\ isValid' = Valid(step, Stored(step, Proposal))
          /\ nextDisabled' = IF isValid' # isValid THEN ~isValid' ELSE nextDisabled \/ watched
      BY <2>1 DEF Revalidate
    <2>5. (step = 0 => form' = TRUE) /\ (step = 1 => form' = None)
      <3>1. Proposal.settings = TRUE /\ Proposal.name = None
        BY DEF Proposal
      <3>2. Stored(0, Proposal) = Proposal.settings /\ Stored(1, Proposal) = Proposal.name
        BY Forms
      <3>3. QED
        BY <2>4, <3>1, <3>2
    <2>6. WizardTypes'
      <3>1. (step' = 0 => form' \in BOOLEAN) /\ (step' = 1 => form' \in Names \cup {None})
        BY <1>1, <2>5
      <3>2. QED
        BY <1>1, <2>1, <3>1, ProposalTypes DEF WizardInv, WizardTypes
    <2>7. step = 0 => form' = TRUE
      BY <2>5
    <2>8. step = 2 => watched /\ isValid /\ isValid'
      <3>1. step = 2 => watched /\ isValid
        BY <2>2 DEF WizardInv, Passed
      <3>2. step = 2 => isValid'
        BY <2>4, Forms
      <3>3. QED
        BY <3>1, <3>2
    <2>9. step = 2 => nextDisabled'
      BY <2>4, <2>8
    <2>10. Passed'
      <3>1. store'.settings = TRUE
        BY <2>1 DEF Proposal
      <3>2. confirm' => step' = 4
        BY <1>1, <2>2 DEF WizardInv, Passed
      <3>3. step' = step /\ watched' = watched
        BY <1>1
      <3>4. QED
        BY <2>3, <2>7, <2>8, <2>9, <3>1, <3>2, <3>3 DEF Passed
    <2>11. NoProposal'
      <3>1. creator' \notin generating'
        BY <1>1, <1>4
      <3>2. store'.default
        BY <2>1 DEF Proposal
      <3>3. QED
        BY <3>1, <3>2 DEF NoProposal
    <2>12. QED
      BY <1>2, <2>6, <2>10, <2>11 DEF WizardInv
  <1>5. QED
    BY <1>3, <1>4

(* Typing into a form.                                                      *)
LEMMA TypingStep ==
    ASSUME WizardInv, FillSettings \/ TypeName
    PROVE  WizardInv'
  <1>1. UNCHANGED <<page, opened, creator, generating, step, store, watched, confirm, inProgress, sent>>
    BY DEF FillSettings, TypeName, listVars
  <1>2. \/ step = 0 /\ form' = TRUE /\ form' \in BOOLEAN
        \/ step = 1 /\ form' \in Names \cup {None}
    BY DEF FillSettings, TypeName, Editing, Revalidate
  <1>3. WizardTypes'
    BY <1>1, <1>2 DEF WizardInv, WizardTypes
  <1>4. Passed'
    BY <1>1, <1>2 DEF WizardInv, Passed
  <1>5. NoProposal' /\ Asked' /\ SentIsComplete' /\ OneRequest'
    BY <1>1 DEF WizardInv, NoProposal, Asked, SentIsComplete, OneRequest
  <1>6. QED
    BY <1>3, <1>4, <1>5 DEF WizardInv

(* A step that is mounted with a store that has passed what lies before it. *)
LEMMA MountStep ==
    ASSUME WizardInv, creator # 0, ~confirm,
           NEW s \in Steps, NEW st \in Stores,
           st.nodes = store.nodes, st.default = store.default,
           s >= 1 => st.settings = TRUE,
           s >= 3 => NodesComplete(st.nodes),
           Mount(s, st), store' = st,
           UNCHANGED <<page, opened, creator, generating, confirm, inProgress, sent>>
    PROVE  WizardInv'
  <1>1. /\ step' = s /\ form' = Stored(s, st)
        /\ isValid' = Valid(s, Stored(s, st))
        /\ nextDisabled' = IF s = 2 THEN ~NodesComplete(st.nodes) ELSE ~isValid'
        /\ watched' = (watched \/ s = 2)
    BY DEF Mount
  <1>2. (s = 0 => form' \in BOOLEAN) /\ (s = 1 => form' \in Names \cup {None})
    <2>1. st.settings \in BOOLEAN /\ st.name \in Names \cup {None}
      BY DEF Stores
    <2>2. QED
      BY <1>1, <2>1, Forms
  <1>3. WizardTypes'
    BY <1>1, <1>2 DEF WizardInv, WizardTypes
  <1>4. s = 0 => (isValid' <=> form' = TRUE)
    BY <1>1, Forms
  <1>5. s = 2 => isValid'
    BY <1>1, Forms
  <1>6. Passed'
    BY <1>1, <1>4, <1>5 DEF Passed
  <1>7. NoProposal' /\ Asked' /\ SentIsComplete' /\ OneRequest'
    BY DEF WizardInv, NoProposal, Asked, SentIsComplete, OneRequest
  <1>8. QED
    BY <1>3, <1>6, <1>7 DEF WizardInv

LEMMA NextStepStep ==
    ASSUME WizardInv, NextStep
    PROVE  WizardInv'
  <1>1. /\ creator # 0 /\ ~confirm /\ ~nextDisabled
        /\ UNCHANGED <<page, opened, creator, generating, inProgress, sent>>
    BY DEF NextStep, listVars
  <1>2. (step # 0 /\ store' = store) \/ (step = 0 /\ form = TRUE /\ store' = [store EXCEPT !.settings = form])
                       \/ (step = 1 /\ form \in Names \cup {None} /\ store' = [store EXCEPT !.name = form])
    <2>1. store' = IF Valid(step, form) THEN Submitted(step) ELSE store
      BY DEF NextStep
    <2>2. step = 0 => form = TRUE
      BY <1>1 DEF WizardInv, Passed
    <2>3. CASE step = 0
      BY <2>1, <2>2, <2>3, Forms, SubmittedForms
    <2>4. CASE step = 1
      <3>1. Valid(1, form) => form \in Names \cup {None}
        BY <2>4 DEF WizardInv, WizardTypes
      <3>2. QED
        BY <2>1, <2>4, <3>1, SubmittedForms
    <2>5. CASE step \in 2..4
      BY <2>1, <2>5, SubmittedForms
    <2>6. step \in 0..4
      BY DEF WizardInv, WizardTypes, Steps
    <2>7. step = 0 \/ step = 1 \/ step \in 2..4
      BY <2>6
    <2>8. QED
      BY <2>3, <2>4, <2>5, <2>7, Zenon
  <1>3. store' \in Stores /\ store'.nodes = store.nodes /\ store'.default = store.default
    BY <1>2 DEF WizardInv, WizardTypes, Stores
  <1>4. store'.settings = TRUE
    <2>1. CASE step = 0
      <3>1. form = TRUE
        BY <1>1, <2>1 DEF WizardInv, Passed
      <3>2. store' = [store EXCEPT !.settings = form]
        <4>1. step # 1
          BY <2>1
        <4>2. QED
          BY <1>2, <2>1, <4>1, Zenon
      <3>3. "settings" \in DOMAIN store
        BY DEF WizardInv, WizardTypes, Stores
      <3>4. QED
        BY <3>1, <3>2, <3>3
    <2>2. CASE step # 0
      BY <1>1, <1>2, <2>2 DEF WizardInv, WizardTypes, Passed, Steps, Stores
    <2>3. QED
      BY <2>1, <2>2
  <1>5. step >= 2 => NodesComplete(store.nodes)
    BY <1>1 DEF WizardInv, WizardTypes, Passed, Steps
  <1>6. CASE step # 4
    <2>1. Mount(step + 1, store') /\ UNCHANGED confirm
      BY <1>6 DEF NextStep
    <2>2. step + 1 \in Steps /\ (step + 1 >= 3 => step >= 2)
      BY <1>6 DEF WizardInv, WizardTypes, Steps
    <2>3. step + 1 >= 3 => NodesComplete(store'.nodes)
      BY <1>3, <1>5, <2>2
    <2>4. QED
      BY <1>1, <1>3, <1>4, <2>1, <2>2, <2>3, MountStep
  <1>7. CASE step = 4
    <2>1. confirm' /\ UNCHANGED <<step, form, isValid, nextDisabled, watched>>
      BY <1>7 DEF NextStep
    <2>2. WizardTypes'
      BY <1>1, <1>3, <2>1 DEF WizardInv, WizardTypes
    <2>3. Passed'
      BY <1>1, <1>3, <1>4, <1>7, <2>1 DEF WizardInv, Passed
    <2>4. NoProposal' /\ Asked' /\ SentIsComplete' /\ OneRequest'
      BY <1>1, <1>3, <2>1 DEF WizardInv, NoProposal, Asked, SentIsComplete, OneRequest
    <2>5. QED
      BY <2>2, <2>3, <2>4 DEF WizardInv
  <1>8. QED
    BY <1>6, <1>7

LEMMA PreviousStepStep ==
    ASSUME WizardInv, PreviousStep
    PROVE  WizardInv'
  <1>1. /\ creator # 0 /\ ~confirm /\ step > 0
        /\ Mount(step - 1, store)
        /\ UNCHANGED <<page, opened, creator, generating, store, confirm, inProgress, sent>>
    BY DEF PreviousStep, listVars
  <1>2. step - 1 \in Steps /\ store \in Stores
    BY <1>1 DEF WizardInv, WizardTypes, Steps
  <1>3. store.settings = TRUE /\ (step - 1 >= 3 => NodesComplete(store.nodes))
    BY <1>1 DEF WizardInv, WizardTypes, Passed, Steps
  <1>4. QED
    BY <1>1, <1>2, <1>3, MountStep

(* An edit of the nodes, at the step of nodes: the autorun sets the flag.   *)
LEMMA NodesStep ==
    ASSUME WizardInv, Editing(2), NEW nodes \in Seq(Nodes), SetNodes(nodes),
           ~store.default => \A i \in DOMAIN nodes : nodes[i].type = "none"
    PROVE  WizardInv'
  <1>1. /\ store' = [store EXCEPT !.nodes = nodes]
        /\ nextDisabled' = ~NodesComplete(nodes)
        /\ UNCHANGED <<page, opened, creator, generating, step, form, isValid, watched, confirm, inProgress, sent>>
    BY DEF SetNodes, Autorun, listVars
  <1>2. /\ store' \in Stores /\ store'.nodes = nodes
        /\ store'.settings = store.settings /\ store'.default = store.default
    BY <1>1 DEF WizardInv, WizardTypes, Stores
  <1>3. creator # 0 /\ step = 2 /\ ~confirm
    BY DEF Editing
  <1>4. WizardTypes'
    BY <1>1, <1>2 DEF WizardInv, WizardTypes
  <1>5. Passed'
    <2>1. ~nextDisabled' => NodesComplete(nodes)
      BY <1>1, Zenon
    <2>2. store.settings = TRUE /\ watched /\ isValid
      BY <1>3 DEF WizardInv, Passed
    <2>3. step' = 2 /\ ~confirm' /\ watched' /\ isValid' /\ store'.settings = TRUE
      BY <1>1, <1>2, <1>3, <2>2
    <2>4. ~nextDisabled' => NodesComplete(store'.nodes)
      BY <1>2, <2>1, Zenon
    <2>5. QED
      BY <2>3, <2>4 DEF Passed
  <1>6. NoProposal'
    BY <1>1, <1>2 DEF WizardInv, NoProposal
  <1>7. Asked' /\ SentIsComplete' /\ OneRequest'
    BY <1>1 DEF WizardInv, Asked, SentIsComplete, OneRequest
  <1>8. QED
    BY <1>4, <1>5, <1>6, <1>7 DEF WizardInv

LEMMA EditNodesStep ==
    ASSUME WizardInv, addNode \/ updateNode \/ deleteNode
    PROVE  WizardInv'
  <1>1. Editing(2) /\ creator # 0
    BY DEF addNode, updateNode, deleteNode, Editing
  <1>2. store.nodes \in Seq(Nodes)
    BY DEF WizardInv, WizardTypes, Stores
  <1>3. ~store.default => \A i \in DOMAIN store.nodes : store.nodes[i].type = "none"
    BY <1>1 DEF WizardInv, NoProposal
  <1>4. ASSUME NEW i \in DOMAIN store.nodes, Shown(i)
        PROVE  store.default
    BY <1>3, <1>4 DEF Shown
  <1>5. \A type \in {"master", "worker", "none"}, filled \in BOOLEAN :
            Node(type, filled) \in Nodes /\ Node(type, filled).type = type
    BY DEF Node, Nodes
  <1>6. CASE addNode /\ store.nodes = <<>>
    <2> DEFINE first == Node(IF store.default THEN "master" ELSE "none", FALSE)
    <2>1. SetNodes(<<first>>)
      BY <1>6 DEF addNode
    <2>2. first \in Nodes /\ (~store.default => first.type = "none")
      BY <1>5
    <2> HIDE DEF first
    <2>3. <<first>> \in Seq(Nodes) /\ \A i \in DOMAIN <<first>> : <<first>>[i] = first
      BY <2>2
    <2>4. QED
      BY <1>1, <2>1, <2>2, <2>3, NodesStep
  <1>7. CASE addNode /\ store.nodes # <<>>
    <2>1. PICK type \in {"master", "worker"} : SetNodes(Append(store.nodes, Node(type, TRUE)))
      BY <1>7 DEF addNode
    <2>2. 1 \in DOMAIN store.nodes
      BY <1>2, <1>7
    <2>3. store.nodes[1].type # "none"
      BY <1>7, <2>2 DEF addNode
    <2>4. store.default
      BY <1>3, <2>2, <2>3
    <2>5. Append(store.nodes, Node(type, TRUE)) \in Seq(Nodes)
      <3>1. Node(type, TRUE) \in Nodes
        BY <1>5
      <3>2. QED
        BY <1>2, <3>1, AppendProperties
    <2>6. QED
      BY <1>1, <2>1, <2>4, <2>5, NodesStep
  <1>8. CASE updateNode
    <2>1. PICK i \in DOMAIN store.nodes : Shown(i) /\ SetNodes([store.nodes EXCEPT ![i].filled = TRUE])
      BY <1>8 DEF updateNode
    <2>2. [store.nodes EXCEPT ![i].filled = TRUE] \in Seq(Nodes)
      <3>1. store.nodes[i] \in Nodes
        BY <1>2
      <3>2. [store.nodes[i] EXCEPT !.filled = TRUE] \in Nodes
        BY <3>1 DEF Nodes
      <3>3. QED
        BY <1>2, <3>2
    <2>3. QED
      BY <1>1, <1>4, <2>1, <2>2, NodesStep
  <1>9. CASE deleteNode
    <2>1. PICK i \in DOMAIN store.nodes :
              /\ Shown(i)
              /\ SetNodes([j \in 1..(Len(store.nodes) - 1) |-> store.nodes[IF j < i THEN j ELSE j + 1]])
      BY <1>9 DEF deleteNode
    <2> DEFINE rest == [j \in 1..(Len(store.nodes) - 1) |-> store.nodes[IF j < i THEN j ELSE j + 1]]
    <2>2. Len(store.nodes) \in Nat /\ DOMAIN store.nodes = 1..Len(store.nodes)
      BY <1>2
    <2>3. Len(store.nodes) - 1 \in Nat
      BY <2>1, <2>2
    <2>4. \A j \in 1..(Len(store.nodes) - 1) : rest[j] \in Nodes
      BY <1>2, <2>1, <2>2
    <2>5. rest \in Seq(Nodes)
      <3>1. rest \in [1..(Len(store.nodes) - 1) -> Nodes]
        BY <2>4
      <3>2. QED
        BY <2>3, <3>1, IsSeq, Zenon
    <2> HIDE DEF rest
    <2>6. SetNodes(rest)
      BY <2>1 DEF rest
    <2>7. QED
      BY <1>1, <1>4, <2>1, <2>5, <2>6, NodesStep
  <1>10. QED
    BY <1>6, <1>7, <1>8, <1>9

(* "Yes": step 4 has passed all checks, and the wizard has not asked yet.   *)
LEMMA SendStep ==
    ASSUME WizardInv, startClusterProvisioning
    PROVE  WizardInv'
  <1> DEFINE new == [by |-> creator, what |-> store, excused |-> overtaken \/ taken]
  <1>1. /\ confirm /\ ~inProgress /\ inProgress' = TRUE
        /\ sent' = Append(sent, new)
        /\ UNCHANGED <<page, opened, creator, generating, step, form, isValid, nextDisabled,
                       store, watched, confirm>>
    BY DEF startClusterProvisioning, YesEnabled, listVars
  <1>2. creator # 0 /\ step = 4
    BY <1>1 DEF WizardInv, Asked, Passed
  <1>3. store.settings /\ NodesComplete(store.nodes)
    BY <1>2 DEF WizardInv, Passed
  <1>4. new \in Sents /\ creator \in 1..Len(opened)
    BY <1>2 DEF WizardInv, WizardTypes, Sents
  <1>5. sent \in Seq(Sents)
    BY DEF WizardInv, WizardTypes
  <1> HIDE DEF new
  <1>6. /\ sent' \in Seq(Sents)
        /\ DOMAIN sent' = 1..(Len(sent) + 1) /\ DOMAIN sent = 1..Len(sent) /\ Len(sent) \in Nat
        /\ sent'[Len(sent) + 1] = new
        /\ \A i \in DOMAIN sent : sent'[i] = sent[i]
    BY <1>1, <1>4, <1>5
  <1>7. \A i \in DOMAIN sent' : i = Len(sent) + 1 \/ (i \in DOMAIN sent /\ sent'[i] = sent[i])
    BY <1>6
  <1>8. new.by = creator /\ new.what = store
    BY DEF new
  <1>9. WizardTypes'
    BY <1>1, <1>6 DEF WizardInv, WizardTypes
  <1>10. Passed' /\ NoProposal'
    BY <1>1 DEF WizardInv, Passed, NoProposal
  <1>11. Asked'
    BY <1>1, <1>2, <1>4, <1>6, <1>7, <1>8 DEF WizardInv, Asked
  <1>12. SentIsComplete'
    BY <1>3, <1>6, <1>7, <1>8 DEF WizardInv, SentIsComplete
  <1>13. OneRequest'
    <2>1. \A i \in DOMAIN sent : sent[i].by # creator
      BY <1>1, <1>2 DEF WizardInv, Asked
    <2>2. \A i \in DOMAIN sent : sent'[i].by # sent'[Len(sent) + 1].by
      BY <1>6, <1>8, <2>1
    <2>3. QED
      BY <1>6, <1>7, <2>2 DEF WizardInv, OneRequest
  <1>14. QED
    BY <1>9, <1>10, <1>11, <1>12, <1>13 DEF WizardInv

LEMMA WizardStep == WizardInv /\ [Next]_vars => WizardInv'
  <1> SUFFICES ASSUME WizardInv, [Next]_vars
               PROVE  WizardInv'
    OBVIOUS
  <1>1. CASE UNCHANGED vars
    <2>1. WizardTypes' /\ Passed' /\ NoProposal' /\ Asked'
      BY <1>1 DEF vars, listVars, wizardVars, WizardInv, WizardTypes, Passed, NoProposal, Asked
    <2>2. SentIsComplete' /\ OneRequest'
      BY <1>1 DEF vars, WizardInv, SentIsComplete, OneRequest
    <2>3. QED
      BY <2>1, <2>2 DEF WizardInv
  <1>2. CASE Next
    BY <1>2, QuietStep, GoneStep, OpenStep, ProposalStep, TypingStep, NextStepStep, PreviousStepStep,
       EditNodesStep, SendStep DEF Next
  <1>3. QED
    BY <1>1, <1>2

LEMMA WizardStart == Init => WizardInv
  <1> SUFFICES ASSUME Init
               PROVE  WizardInv
    OBVIOUS
  <1>1. creator = 0 /\ sent = <<>> /\ opened = <<>> /\ DOMAIN sent = {}
    BY DEF Init
  <1>2. WizardTypes
    <2>1. opened \in Seq(Nat) /\ sent \in Seq(Sents) /\ Len(opened) = 0
      BY <1>1, EmptySeq
    <2>2. page \in Nat /\ store \in Stores /\ generating = {} /\ step \in Steps
      BY ProposalTypes DEF Init, Steps
    <2>3. form \in BOOLEAN /\ step = 0
      BY Zenon DEF Init
    <2>4. QED
      BY <1>1, <2>1, <2>2, <2>3 DEF WizardTypes
  <1>3. Passed /\ NoProposal /\ Asked /\ SentIsComplete /\ OneRequest
    BY <1>1 DEF Init, Passed, NoProposal, Asked, SentIsComplete, OneRequest
  <1>4. QED
    BY <1>2, <1>3 DEF WizardInv

(* Whatever is sent has settings, a master, and storage and an address for  *)
(* every node, in whatever order proposals, edits and steps come.           *)
THEOREM WizardSendsComplete == Spec => []SentIsComplete
  <1>1. WizardInv => SentIsComplete
    BY DEF WizardInv
  <1>2. QED
    BY <1>1, WizardStart, WizardStep, PTL DEF Spec

(* No wizard asks twice for its cluster.                                    *)
THEOREM WizardAsksOnce == Spec => []OneRequest
  <1>1. WizardInv => OneRequest
    BY DEF WizardInv
  <1>2. QED
    BY <1>1, WizardStart, WizardStep, PTL DEF Spec
-----------------------------------------------------------------------------
(* The flag and isValid agree while the proposal is not late, and isValid   *)
(* is what the form was worth when it was last looked at: a name that is    *)
(* not valid is missing, or was in a list of names that all exist.          *)
Flagged ==
    creator # 0 /\ ~overtaken =>
        /\ step = 2 => (nextDisabled <=> ~NodesComplete(store.nodes))
        /\ step # 2 => (nextDisabled <=> ~isValid)
        /\ step = 0 => (isValid <=> form = TRUE)
        /\ step = 1 => /\ isValid => form # None
                       /\ ~isValid => form = None \/ form \in known
        /\ step \in {3, 4} => isValid

(* Behind the step of the name there is one, or it was taken by then.       *)
Named == creator # 0 /\ ~overtaken /\ step >= 2 => taken \/ store.name # None

(* A request that is on its way was sent. *)
OnItsWay == \A n \in 1..Creators : request[n] # None => \E i \in DOMAIN sent : sent[i].by = n

(* There is one proposal for each wizard. *)
Once == creator # 0 /\ creator \in generating => ~overtaken

StepsIInv == TypeOK /\ Flagged /\ Named /\ Once /\ OnItsWay /\ SentIsNamed

\* What the types say of the variables apart from sequences
LEMMA Bounded ==
    ASSUME WizardInv, TypeOK
    PROVE  /\ Len(opened) \in Nat /\ DOMAIN opened = 1..Len(opened)
           /\ creator # 0 => creator \in 1..Creators
           /\ page \in Nat /\ DOMAIN opened \subseteq 1..Creators
           /\ sent \in Seq(Sents) /\ store \in Stores
  <1>1. /\ opened \in Seq(Nat) /\ page \in Nat /\ creator \in 0..Len(opened)
        /\ sent \in Seq(Sents) /\ store \in Stores
    BY DEF WizardInv, WizardTypes
  <1>2. Len(opened) \in Nat /\ DOMAIN opened = 1..Len(opened)
    BY <1>1
  <1>3. Len(opened) <= Creators /\ Creators \in Nat
    BY WizardAssumption DEF TypeOK
  <1>4. 1..Len(opened) \subseteq 1..Creators /\ (creator # 0 => creator \in 1..Creators)
    BY <1>1, <1>2, <1>3
  <1> QED
    BY <1>1, <1>2, <1>4

LEMMA ValidForms ==
    ASSUME NEW f
    PROVE  /\ Valid(0, f) <=> f = TRUE
           /\ Valid(1, f) <=> f # None /\ f \notin list
           /\ \A s \in 2..4 : Valid(s, f)
           /\ \A s : Valid(s, f) \in BOOLEAN
  <1>1. Valid(0, f) <=> f = TRUE
    BY DEF Valid
  <1>2. Valid(1, f) <=> f # None /\ f \notin list
    BY DEF Valid
  <1>3. \A s \in 2..4 : Valid(s, f)
    BY DEF Valid
  <1>4. \A s : Valid(s, f) \in BOOLEAN
    BY Zenon DEF Valid
  <1> QED
    BY <1>1, <1>2, <1>3, <1>4

(* Who reads the list, who asks, and who is answered.                       *)
LEMMA StepsQuiet ==
    ASSUME WizardInv, StepsIInv,
           loadClusters \/ OthersCreate \/ OthersDelete \/ Dismiss \/ \E n \in generating : GenerateFails(n)
    PROVE  StepsIInv'
  <1>1. UNCHANGED <<page, opened, creator, store, sent, step, form, nextDisabled, watched, isValid,
                    inProgress, request, overtaken, taken>>
    BY DEF loadClusters, OthersCreate, OthersDelete, Dismiss, GenerateFails, listVars, wizardVars
  <1>2. /\ known \subseteq known' /\ known' \subseteq known \cup Names
        /\ server' \subseteq known' /\ list' \subseteq known'
        /\ generating' \subseteq generating /\ isGenerating' \in BOOLEAN
        /\ (confirm' => confirm) /\ confirm' \in BOOLEAN
    <2>1. CASE loadClusters
      BY <2>1 DEF StepsIInv, TypeOK, loadClusters, wizardVars
    <2>2. CASE OthersCreate
      BY <2>2 DEF StepsIInv, TypeOK, OthersCreate, wizardVars
    <2>5. CASE OthersDelete
      BY <2>5 DEF StepsIInv, TypeOK, OthersDelete, wizardVars
    <2>3. CASE Dismiss
      BY <2>3 DEF StepsIInv, TypeOK, Dismiss, listVars
    <2>4. CASE \E n \in generating : GenerateFails(n)
      <3>1. /\ isGenerating' = FALSE /\ generating' \subseteq generating
            /\ UNCHANGED <<server, list, known, confirm>>
        BY <2>4 DEF GenerateFails, listVars, wizardVars
      <3> QED
        BY <3>1, Zenon DEF StepsIInv, TypeOK
    <2> QED
      BY <2>1, <2>2, <2>3, <2>4, <2>5
  <1>3. TypeOK'
    BY <1>1, <1>2 DEF StepsIInv, TypeOK
  <1>4. Flagged' /\ Named' /\ Once'
    BY <1>1, <1>2 DEF StepsIInv, Flagged, Named, Once
  <1>5. OnItsWay' /\ SentIsNamed'
    BY <1>1 DEF StepsIInv, OnItsWay, SentIsNamed
  <1> QED
    BY <1>3, <1>4, <1>5 DEF StepsIInv

LEMMA StepsServed ==
    ASSUME WizardInv, StepsIInv, NEW n \in DOMAIN opened, ServerCreates(n)
    PROVE  StepsIInv'
  <1>1. UNCHANGED <<list, page, creator, opened, generating, isGenerating, step, form, isValid,
                    nextDisabled, store, watched, confirm, inProgress, sent, overtaken, taken>>
    BY DEF ServerCreates, wizardVars
  <1>2. n \in 1..Creators /\ sent \in Seq(Sents) /\ request[n] = "sent"
    BY Bounded DEF ServerCreates, StepsIInv
  <1>3. \E i \in DOMAIN sent : sent[i].by = n
    BY <1>2, WizardAssumption DEF StepsIInv, OnItsWay
  <1>4. Request(n).name \in Names \cup {None}
    <2> DEFINE i == CHOOSE i \in DOMAIN sent : sent[i].by = n
    <2>1. i \in DOMAIN sent
      BY <1>3
    <2>2. sent[i] \in Sents /\ Request(n) = sent[i].what
      BY <1>2, <2>1 DEF Request
    <2> QED
      BY <2>2 DEF Sents, Stores
  <1>5. /\ known \subseteq known' /\ known' \subseteq known \cup {Request(n).name}
        /\ server' \subseteq server \cup known'
        /\ \E r \in {"created", "failed"} : request' = [request EXCEPT ![n] = r]
    BY DEF ServerCreates
  <1>6. TypeOK'
    <2>1. known' \subseteq Names \cup {None} /\ server' \subseteq known' /\ list' \subseteq known'
      BY <1>1, <1>4, <1>5 DEF StepsIInv, TypeOK
    <2>2. request' \in [1..Creators -> {None, "sent", "created", "failed"}]
      BY <1>5 DEF StepsIInv, TypeOK
    <2>3. inProgress' => creator' # 0 /\ request'[creator'] # None
      BY <1>1, <1>2, <1>5, Bounded, WizardAssumption DEF StepsIInv, TypeOK
    <2> QED
      BY <1>1, <2>1, <2>2, <2>3 DEF StepsIInv, TypeOK
  <1>7. Flagged' /\ Named' /\ Once'
    BY <1>1, <1>5 DEF StepsIInv, Flagged, Named, Once
  <1>8. OnItsWay' /\ SentIsNamed'
    BY <1>1, <1>3, <1>5 DEF StepsIInv, OnItsWay, SentIsNamed, TypeOK
  <1> QED
    BY <1>6, <1>7, <1>8 DEF StepsIInv

LEMMA StepsGone ==
    ASSUME WizardInv, StepsIInv,
           CloseCreator \/ LeavePage \/ \E n \in DOMAIN opened : Provisioned(n)
    PROVE  StepsIInv'
  <1>1. /\ creator' = 0 /\ confirm' = FALSE /\ inProgress' = FALSE
        /\ step' = 0 /\ form' = FALSE /\ isValid' = FALSE /\ nextDisabled' = TRUE
        /\ store' = NoCluster /\ watched' = FALSE /\ overtaken' = FALSE /\ taken' = FALSE
        /\ UNCHANGED <<server, list, known, opened, generating, isGenerating, sent>>
    BY DEF CloseCreator, LeavePage, Provisioned, Gone, Blank, listVars
  <1>2. page' \in 1..Visits /\ page <= page' /\ page \in Nat /\ page' \in Nat
    BY WizardAssumption DEF StepsIInv, TypeOK, CloseCreator, LeavePage, Provisioned, listVars
  <1>3. /\ request' \in [1..Creators -> {None, "sent", "created", "failed"}]
        /\ \A k \in 1..Creators : request'[k] # None => request[k] # None
    BY DEF StepsIInv, TypeOK, CloseCreator, LeavePage, Provisioned
  <1>4. TypeOK'
    <2>1. \A k \in DOMAIN opened' : opened'[k] \in 1..page'
      BY <1>1, <1>2 DEF StepsIInv, TypeOK
    <2>2. creator' \in 0..Len(opened')
      BY <1>1, Bounded DEF StepsIInv
    <2>3. step' \in Steps /\ form' \in Names \cup {None} \cup BOOLEAN
      <3>1. form' \in BOOLEAN
        BY <1>1, Zenon
      <3> QED
        BY <1>1, <3>1 DEF Steps
    <2>4. /\ isValid' \in BOOLEAN /\ nextDisabled' \in BOOLEAN /\ watched' \in BOOLEAN
          /\ overtaken' \in BOOLEAN /\ taken' \in BOOLEAN /\ confirm' \in BOOLEAN
          /\ inProgress' \in BOOLEAN
      BY <1>1, Zenon
    <2>5. /\ store'.settings = FALSE /\ store'.default = FALSE /\ store'.name = None
          /\ store'.nodes = <<>>
      BY <1>1 DEF NoCluster
    <2>6. /\ store'.settings \in BOOLEAN /\ store'.default \in BOOLEAN
          /\ store'.name \in Names \cup {None}
          /\ store'.nodes \in Seq(Nodes) /\ Len(store'.nodes) <= MaxNodes
      <3>1. store'.nodes \in Seq(Nodes) /\ Len(store'.nodes) <= MaxNodes
        BY <2>5, EmptySeq, WizardAssumption
      <3> QED
        BY <2>5, <3>1
    <2>7. /\ known' \subseteq Names \cup {None} /\ server' \subseteq known' /\ list' \subseteq known'
          /\ Len(opened') <= Creators /\ generating' \subseteq DOMAIN opened'
          /\ isGenerating' \in BOOLEAN
      BY <1>1 DEF StepsIInv, TypeOK
    <2>8. ~confirm' /\ ~inProgress'
      BY <1>1
    <2> QED
      BY <1>2, <1>3, <2>1, <2>2, <2>3, <2>4, <2>6, <2>7, <2>8 DEF TypeOK
  <1>5. Flagged' /\ Named' /\ Once'
    BY <1>1 DEF Flagged, Named, Once
  <1>6. OnItsWay' /\ SentIsNamed'
    BY <1>1, <1>3 DEF StepsIInv, OnItsWay, SentIsNamed
  <1> QED
    BY <1>4, <1>5, <1>6 DEF StepsIInv

LEMMA StepsOpened ==
    ASSUME WizardInv, StepsIInv, OpenCreator
    PROVE  StepsIInv'
  <1>1. /\ creator = 0 /\ Len(opened) < Creators
        /\ opened' = Append(opened, page) /\ creator' = Len(opened) + 1
        /\ generating' = generating \cup {Len(opened) + 1}
        /\ isGenerating' = TRUE /\ step' = 0 /\ form' = FALSE /\ isValid' = FALSE
        /\ nextDisabled' = TRUE /\ store' = NoCluster /\ watched' = FALSE
        /\ confirm' = FALSE /\ inProgress' = FALSE /\ overtaken' = FALSE /\ taken' = FALSE
        /\ UNCHANGED <<server, list, known, page, request, sent>>
    BY DEF OpenCreator, Blank, listVars
  <1>2. Len(opened) \in Nat /\ DOMAIN opened = 1..Len(opened) /\ opened \in Seq(Nat) /\ page \in Nat
    BY Bounded DEF StepsIInv, WizardInv, WizardTypes
  <1>3. /\ Len(opened') = Len(opened) + 1 /\ DOMAIN opened' = 1..(Len(opened) + 1)
        /\ \A k \in DOMAIN opened : opened'[k] = opened[k]
        /\ opened'[Len(opened) + 1] = page
    BY <1>1, <1>2
  <1>4. \A k \in DOMAIN opened' : opened'[k] \in 1..page'
    <2>1. page \in 1..page
      BY DEF StepsIInv, TypeOK
    <2>2. \A k \in DOMAIN opened' : k = Len(opened) + 1 \/ k \in DOMAIN opened
      BY <1>2, <1>3
    <2> QED
      BY <1>1, <1>3, <2>1, <2>2 DEF StepsIInv, TypeOK
  <1>5. store'.nodes = <<>> /\ store'.settings = FALSE /\ store'.default = FALSE /\ store'.name = None
    BY <1>1 DEF NoCluster
  <1>6. store'.nodes \in Seq(Nodes) /\ Len(store'.nodes) <= MaxNodes
    BY <1>5, EmptySeq, WizardAssumption
  <1>7. form' \in Names \cup {None} \cup BOOLEAN
    BY <1>1, Zenon
  <1>8. generating' \subseteq DOMAIN opened' /\ creator' \in 0..Len(opened') /\ Len(opened') <= Creators
    <2>1. generating \subseteq DOMAIN opened
      BY DEF StepsIInv, TypeOK
    <2>2. Creators \in Nat
      BY WizardAssumption
    <2> QED
      BY <1>1, <1>2, <1>3, <2>1, <2>2
  <1>9. TypeOK'
    <2>1. known' \subseteq Names \cup {None} /\ server' \subseteq known' /\ list' \subseteq known' /\ page' \in 1..Visits
      BY <1>1 DEF StepsIInv, TypeOK
    <2>2. request' \in [1..Creators -> {None, "sent", "created", "failed"}]
      BY <1>1 DEF StepsIInv, TypeOK
    <2>3. step' \in Steps
      BY <1>1 DEF Steps
    <2>4. /\ isGenerating' \in BOOLEAN /\ isValid' \in BOOLEAN /\ nextDisabled' \in BOOLEAN
          /\ watched' \in BOOLEAN /\ confirm' \in BOOLEAN /\ inProgress' \in BOOLEAN
          /\ overtaken' \in BOOLEAN /\ taken' \in BOOLEAN
      BY <1>1, Zenon
    <2>5. store'.settings \in BOOLEAN /\ store'.default \in BOOLEAN /\ store'.name \in Names \cup {None}
      BY <1>5
    <2>6. ~confirm' /\ ~inProgress'
      BY <1>1
    <2> QED
      BY <1>4, <1>6, <1>7, <1>8, <2>1, <2>2, <2>3, <2>4, <2>5, <2>6 DEF TypeOK
  <1>10. Flagged' /\ Named' /\ Once'
    BY <1>1 DEF Flagged, Named, Once
  <1>11. OnItsWay' /\ SentIsNamed'
    BY <1>1 DEF StepsIInv, OnItsWay, SentIsNamed
  <1> QED
    BY <1>9, <1>10, <1>11 DEF StepsIInv

(* A proposal that is not late finds the first step, and nobody behind it.  *)
LEMMA StepsProposed ==
    ASSUME WizardInv, StepsIInv, NEW n \in generating, generateDefaultCluster(n)
    PROVE  StepsIInv'
  <1>1. /\ UNCHANGED <<server, list, known, page, opened, creator, sent, step, watched, confirm, inProgress,
                       request, taken>>
        /\ generating' = generating \ {n} /\ isGenerating' = FALSE
    BY DEF generateDefaultCluster, listVars
  <1>2. OnItsWay' /\ SentIsNamed'
    BY <1>1 DEF StepsIInv, OnItsWay, SentIsNamed
  <1>3. CASE n # creator
    <2>1. UNCHANGED <<store, form, isValid, nextDisabled, overtaken>>
      BY <1>3 DEF generateDefaultCluster
    <2>2. TypeOK'
      <3>1. generating' \subseteq DOMAIN opened'
        BY <1>1 DEF StepsIInv, TypeOK
      <3>2. isGenerating' \in BOOLEAN
        BY <1>1
      <3> QED
        BY <1>1, <2>1, <3>1, <3>2 DEF StepsIInv, TypeOK
    <2>3. Flagged' /\ Named' /\ Once'
      BY <1>1, <2>1 DEF StepsIInv, Flagged, Named, Once
    <2> QED
      BY <1>2, <2>2, <2>3 DEF StepsIInv
  <1>4. CASE n = creator
    <2>1. /\ store' = Proposal /\ overtaken' = (step > 0 \/ watched)
          /\ form' = Stored(step, Proposal) /\ isValid' = Valid(step, Stored(step, Proposal))
          /\ nextDisabled' = IF isValid' # isValid THEN ~isValid' ELSE nextDisabled \/ watched
      BY <1>4 DEF generateDefaultCluster, Revalidate
    <2>2. /\ store'.settings = TRUE /\ store'.default = TRUE /\ store'.name = None
          /\ store'.nodes = <<Node("master", FALSE)>>
      BY <2>1 DEF Proposal
    <2>3. /\ Proposal.settings = TRUE /\ Proposal.name = None
          /\ Stored(0, Proposal) = Proposal.settings /\ Stored(1, Proposal) = Proposal.name
          /\ \A s \in 2..4 : Stored(s, Proposal) = None
      BY Forms DEF Proposal
    <2>4. step \in 0..4 /\ (step = 0 \/ step = 1 \/ step \in 2..4)
      BY DEF StepsIInv, TypeOK, Steps
    <2>5. form' \in Names \cup {None} \cup BOOLEAN
      <3>1. form' = TRUE \/ form' = None
        BY <2>1, <2>3, <2>4
      <3> QED
        BY <3>1
    <2>6. isValid' \in BOOLEAN /\ nextDisabled' \in BOOLEAN /\ overtaken' \in BOOLEAN
      <3>1. isValid' \in BOOLEAN
        BY <2>1, ValidForms
      <3>2. nextDisabled \in BOOLEAN /\ watched \in BOOLEAN
        BY DEF StepsIInv, TypeOK
      <3> QED
        BY <2>1, <3>1, <3>2, Zenon
    <2>7. store'.nodes \in Seq(Nodes) /\ Len(store'.nodes) <= MaxNodes
      <3>1. Proposal \in Stores
        BY ProposalTypes
      <3>2. Len(<<Node("master", FALSE)>>) = 1
        OBVIOUS
      <3>3. Len(store'.nodes) = 1 /\ 1 <= MaxNodes
        BY <2>2, <3>2, WizardAssumption
      <3>4. store'.nodes \in Seq(Nodes)
        BY <2>1, <3>1 DEF Stores
      <3> QED
        BY <3>3, <3>4
    <2>8. TypeOK'
      <3>1. /\ known' \subseteq Names \cup {None} /\ server' \subseteq known' /\ list' \subseteq known' /\ page' \in 1..Visits
            /\ creator' \in 0..Len(opened') /\ Len(opened') <= Creators
            /\ \A k \in DOMAIN opened' : opened'[k] \in 1..page'
            /\ generating' \subseteq DOMAIN opened' /\ step' \in Steps
            /\ confirm' => creator' # 0 /\ step' = 4
            /\ request' \in [1..Creators -> {None, "sent", "created", "failed"}]
            /\ inProgress' => creator' # 0 /\ request'[creator'] # None
        BY <1>1 DEF StepsIInv, TypeOK
      <3>2. /\ isGenerating' \in BOOLEAN /\ watched' \in BOOLEAN /\ confirm' \in BOOLEAN
            /\ inProgress' \in BOOLEAN /\ taken' \in BOOLEAN
        BY <1>1, Zenon DEF StepsIInv, TypeOK
      <3>3. store'.settings \in BOOLEAN /\ store'.default \in BOOLEAN /\ store'.name \in Names \cup {None}
        BY <2>2
      <3> QED
        BY <2>5, <2>6, <2>7, <3>1, <3>2, <3>3 DEF TypeOK
    <2>9. CASE overtaken'
      <3>1. Flagged' /\ Named' /\ Once'
        BY <1>1, <1>4, <2>9 DEF Flagged, Named, Once
      <3> QED
        BY <1>2, <2>8, <3>1 DEF StepsIInv
    <2>10. CASE ~overtaken'
      <3>0. creator # 0 /\ creator \in generating
        <4>1. Len(opened) \in Nat /\ generating \subseteq 1..Len(opened)
          BY DEF WizardInv, WizardTypes
        <4> QED
          BY <1>4, <4>1
      <3>1. step = 0 /\ ~watched /\ step' = 0
        <4>1. watched \in BOOLEAN
          BY DEF StepsIInv, TypeOK
        <4>2. ~(step > 0 \/ watched)
          BY <2>1, <2>10, Zenon
        <4> QED
          BY <1>1, <2>4, <4>1, <4>2
      <3>2. form' = TRUE /\ isValid'
        BY <2>1, <2>3, <3>1, ValidForms
      <3>3. ~nextDisabled'
        <4>1. ~overtaken
          BY <1>4, <3>0 DEF StepsIInv, Once
        <4>2. nextDisabled \in BOOLEAN /\ isValid \in BOOLEAN
          BY DEF StepsIInv, TypeOK
        <4>3. nextDisabled <=> ~isValid
          BY <3>0, <3>1, <4>1, <4>2 DEF StepsIInv, Flagged
        <4> QED
          BY <2>1, <2>6, <3>1, <3>2, <4>2, <4>3
      <3>4. Flagged' /\ Named' /\ Once'
        BY <2>10, <3>1, <3>2, <3>3 DEF Flagged, Named, Once
      <3> QED
        BY <1>2, <2>8, <3>4 DEF StepsIInv
    <2> QED
      BY <2>9, <2>10
  <1> QED
    BY <1>3, <1>4

(* What is typed is looked at.                                              *)
LEMMA StepsTyped ==
    ASSUME WizardInv, StepsIInv, FillSettings \/ TypeName
    PROVE  StepsIInv'
  <1>1. UNCHANGED <<server, list, known, page, creator, opened, generating, isGenerating, step, store, watched,
                    confirm, inProgress, request, sent, overtaken, taken>>
    BY DEF FillSettings, TypeName, listVars
  <1>2. /\ creator # 0
        /\ \/ step = 0 /\ form' = TRUE
           \/ step = 1 /\ form' \in Names \cup {None}
    BY DEF FillSettings, TypeName, Editing, Revalidate
  <1>3. /\ isValid' = Valid(step, form')
        /\ nextDisabled' = IF isValid' # isValid THEN ~isValid' ELSE nextDisabled
    BY DEF FillSettings, TypeName, Revalidate
  <1>4. isValid' \in BOOLEAN /\ isValid \in BOOLEAN /\ nextDisabled \in BOOLEAN
    BY <1>3, ValidForms DEF StepsIInv, TypeOK
  <1>5. nextDisabled' \in BOOLEAN
    BY <1>3, <1>4, Zenon
  <1>6. form' \in Names \cup {None} \cup BOOLEAN
    BY <1>2
  <1>7. TypeOK'
    BY <1>1, <1>4, <1>5, <1>6 DEF StepsIInv, TypeOK
  <1>8. Named' /\ Once' /\ OnItsWay' /\ SentIsNamed'
    BY <1>1 DEF StepsIInv, Named, Once, OnItsWay, SentIsNamed
  <1>9. Flagged'
    <2> SUFFICES ASSUME ~overtaken PROVE Flagged'
      BY <1>1 DEF Flagged
    <2>1. nextDisabled <=> ~isValid
      BY <1>2, <1>4 DEF StepsIInv, Flagged
    <2>2. nextDisabled' <=> ~isValid'
      BY <1>3, <1>4, <1>5, <2>1
    <2>3. list \subseteq known
      BY DEF StepsIInv, TypeOK
    <2>4. step = 0 => (isValid' <=> form' = TRUE)
      BY <1>3, ValidForms
    <2>5. step = 1 => (isValid' <=> form' # None /\ form' \notin list)
      BY <1>3, ValidForms
    <2> QED
      BY <1>1, <1>2, <2>2, <2>3, <2>4, <2>5 DEF Flagged
  <1> QED
    BY <1>7, <1>8, <1>9 DEF StepsIInv

(* A step that is mounted: all is looked at, and the flag says it.          *)
LEMMA StepsMounted ==
    ASSUME WizardInv, StepsIInv, creator # 0, ~confirm,
           NEW s \in Steps, NEW st \in Stores, NEW t \in BOOLEAN,
           st.nodes = store.nodes, s >= 2 /\ ~overtaken => t \/ st.name # None,
           Mount(s, st), store' = st, taken' = t,
           UNCHANGED <<server, list, known, page, creator, opened, generating, isGenerating, confirm,
                       inProgress, request, sent, overtaken>>,
           s >= 3 => NodesComplete(st.nodes)
    PROVE  StepsIInv'
  <1>1. /\ step' = s /\ form' = Stored(s, st)
        /\ isValid' = Valid(s, form')
        /\ nextDisabled' = IF s = 2 THEN ~NodesComplete(st.nodes) ELSE ~isValid'
        /\ watched' = (watched \/ s = 2)
    BY DEF Mount
  <1>2. /\ st.settings \in BOOLEAN /\ st.name \in Names \cup {None} /\ st.default \in BOOLEAN
        /\ st.nodes \in Seq(Nodes)
    BY DEF Stores
  <1>3. s = 0 \/ s = 1 \/ s \in 2..4
    BY DEF Steps
  <1>4. form' \in Names \cup {None} \cup BOOLEAN
    BY <1>1, <1>2, <1>3, Forms
  <1>5. isValid' \in BOOLEAN
    BY <1>1, ValidForms
  <1>6. nextDisabled' \in BOOLEAN
    <2>1. NodesComplete(st.nodes) \in BOOLEAN
      BY Zenon DEF NodesComplete
    <2> QED
      BY <1>1, <1>5, <2>1, Zenon
  <1>7. watched' \in BOOLEAN /\ taken' \in BOOLEAN
    BY <1>1, Zenon
  <1>8. TypeOK'
    <2>1. /\ Len(store'.nodes) <= MaxNodes /\ step' \in Steps
          /\ confirm' => creator' # 0 /\ step' = 4
      BY <1>1 DEF StepsIInv, TypeOK
    <2> QED
      BY <1>2, <1>4, <1>5, <1>6, <1>7, <2>1 DEF StepsIInv, TypeOK
  <1>9. Named' /\ Once' /\ OnItsWay' /\ SentIsNamed'
    BY <1>1 DEF StepsIInv, Named, Once, OnItsWay, SentIsNamed
  <1>10. Flagged'
    <2>1. list \subseteq known
      BY DEF StepsIInv, TypeOK
    <2>2. s = 0 => (isValid' <=> form' = TRUE)
      BY <1>1, ValidForms
    <2>3. s = 1 => (isValid' <=> form' # None /\ form' \notin list)
      BY <1>1, ValidForms
    <2>4. s \in {3, 4} => isValid'
      <3>1. s \in {3, 4} => s \in 2..4
        OBVIOUS
      <3> QED
        BY <1>1, <3>1, ValidForms
    <2>5. s = 2 => (nextDisabled' <=> ~NodesComplete(st.nodes))
      BY <1>1, Zenon
    <2>6. s # 2 => (nextDisabled' <=> ~isValid')
      BY <1>1, <1>5, Zenon
    <2> QED
      BY <1>1, <2>1, <2>2, <2>3, <2>4, <2>5, <2>6 DEF Flagged
  <1> QED
    BY <1>8, <1>9, <1>10 DEF StepsIInv

LEMMA StepsNext ==
    ASSUME WizardInv, StepsIInv, NextStep
    PROVE  StepsIInv'
  <1>1. /\ creator # 0 /\ ~confirm /\ ~nextDisabled
        /\ UNCHANGED <<server, list, known, page, creator, opened, generating, isGenerating, inProgress,
                       request, sent, overtaken>>
        /\ store' = IF Valid(step, form) THEN Submitted(step) ELSE store
        /\ taken' = IF step = 1 THEN form # None /\ ~Valid(step, form) ELSE taken
    BY DEF NextStep, listVars
  <1>2. store \in Stores /\ step \in 0..4
    BY DEF WizardInv, WizardTypes, Steps
  <1>3. taken' \in BOOLEAN
    <2>1. taken \in BOOLEAN
      BY DEF StepsIInv, TypeOK
    <2> QED
      BY <1>1, <2>1, Zenon
  <1>4. /\ store' \in Stores /\ store'.nodes = store.nodes
        /\ step # 1 => store'.name = store.name
        /\ step = 1 => store'.name = IF Valid(step, form) THEN form ELSE store.name
    <2>1. step = 0 => form \in BOOLEAN
      BY DEF WizardInv, WizardTypes
    <2>2. step = 1 => form \in Names \cup {None}
      BY DEF WizardInv, WizardTypes
    <2>3. CASE step = 0
      BY <1>1, <1>2, <2>1, <2>3, SubmittedForms DEF Stores
    <2>4. CASE step = 1
      BY <1>1, <1>2, <2>2, <2>4, SubmittedForms DEF Stores
    <2>5. CASE step \in 2..4
      BY <1>1, <1>2, <2>5, SubmittedForms
    <2> QED
      BY <1>2, <2>3, <2>4, <2>5
  <1>5. step >= 1 /\ ~overtaken => taken' \/ store'.name # None
    <2>1. CASE step = 1 /\ ~overtaken
      <3>1. isValid
        BY <1>1, <2>1 DEF StepsIInv, TypeOK, Flagged
      <3>2. form # None
        BY <1>1, <2>1, <3>1 DEF StepsIInv, Flagged
      <3> QED
        BY <1>1, <1>4, <2>1, <3>2
    <2>2. CASE step # 1 /\ step >= 1 /\ ~overtaken
      BY <1>1, <1>2, <1>4, <2>2 DEF StepsIInv, Named
    <2> QED
      BY <2>1, <2>2
  <1>6. step >= 2 => NodesComplete(store.nodes)
    BY <1>1 DEF WizardInv, WizardTypes, Passed, Steps
  <1>7. CASE step # 4
    <2>1. Mount(step + 1, store') /\ UNCHANGED confirm
      BY <1>7 DEF NextStep
    <2>2. step + 1 \in Steps /\ (step + 1 >= 2 => step >= 1) /\ (step + 1 >= 3 => step >= 2)
      BY <1>2, <1>7 DEF Steps
    <2>3. step + 1 >= 3 => NodesComplete(store'.nodes)
      BY <1>4, <1>6, <2>2
    <2> QED
      BY <1>1, <1>3, <1>4, <1>5, <2>1, <2>2, <2>3, StepsMounted
  <1>8. CASE step = 4
    <2>1. confirm' = TRUE /\ UNCHANGED <<step, form, isValid, nextDisabled, watched>>
      BY <1>8 DEF NextStep
    <2>2. TypeOK'
      BY <1>1, <1>3, <1>4, <1>8, <2>1 DEF StepsIInv, TypeOK, Stores
    <2>3. Flagged' /\ Named' /\ Once'
      BY <1>1, <1>4, <1>5, <1>8, <2>1 DEF StepsIInv, Flagged, Named, Once
    <2>4. OnItsWay' /\ SentIsNamed'
      BY <1>1 DEF StepsIInv, OnItsWay, SentIsNamed
    <2> QED
      BY <2>2, <2>3, <2>4 DEF StepsIInv
  <1> QED
    BY <1>7, <1>8

LEMMA StepsBack ==
    ASSUME WizardInv, StepsIInv, PreviousStep
    PROVE  StepsIInv'
  <1>1. /\ creator # 0 /\ ~confirm /\ step > 0 /\ Mount(step - 1, store)
        /\ UNCHANGED <<server, list, known, page, creator, opened, generating, isGenerating, store, confirm,
                       inProgress, request, sent, overtaken, taken>>
    BY DEF PreviousStep, listVars
  <1>2. step - 1 \in Steps /\ store \in Stores /\ taken \in BOOLEAN
    BY <1>1 DEF WizardInv, WizardTypes, Steps, StepsIInv, TypeOK
  <1>3. step - 1 >= 2 => step >= 2 /\ step >= 3
    BY <1>2 DEF Steps
  <1>4. step - 1 >= 3 => NodesComplete(store.nodes)
    BY <1>1, <1>2 DEF WizardInv, WizardTypes, Passed, Steps
  <1>5. step - 1 >= 2 /\ ~overtaken => taken \/ store.name # None
    BY <1>1, <1>3 DEF StepsIInv, Named
  <1> QED
    BY <1>1, <1>2, <1>4, <1>5, StepsMounted

(* The nodes are edited in their step, and the autorun looks at them.       *)
LEMMA StepsEdited ==
    ASSUME WizardInv, WizardInv', StepsIInv, Editing(2), NEW nodes, SetNodes(nodes),
           nodes \in Seq(Nodes), Len(nodes) <= MaxNodes
    PROVE  StepsIInv'
  <1>1. /\ store' = [store EXCEPT !.nodes = nodes]
        /\ nextDisabled' = ~NodesComplete(nodes)
        /\ UNCHANGED <<server, list, known, page, creator, opened, generating, isGenerating, step, form, isValid,
                       watched, confirm, inProgress, request, sent, overtaken, taken>>
    BY DEF SetNodes, Autorun, listVars
  <1>2. /\ store'.nodes = nodes /\ store'.name = store.name
        /\ store'.settings = store.settings /\ store'.default = store.default
    BY <1>1 DEF WizardInv, WizardTypes, Stores
  <1>3. nextDisabled' \in BOOLEAN /\ step = 2
    <2>1. NodesComplete(nodes) \in BOOLEAN
      BY Zenon DEF NodesComplete
    <2>2. nextDisabled' \in BOOLEAN
      BY <1>1, <2>1, Zenon
    <2> QED
      BY <2>2 DEF Editing
  <1>4. TypeOK'
    BY <1>1, <1>2, <1>3 DEF StepsIInv, TypeOK
  <1>5. nextDisabled' <=> ~NodesComplete(store'.nodes)
    BY <1>1, <1>2, Zenon
  <1>6. Flagged'
    BY <1>1, <1>3, <1>5 DEF Flagged
  <1>7. Named' /\ Once' /\ OnItsWay' /\ SentIsNamed'
    BY <1>1, <1>2 DEF StepsIInv, Named, Once, OnItsWay, SentIsNamed
  <1> QED
    BY <1>4, <1>6, <1>7 DEF StepsIInv

LEMMA StepsNodes ==
    ASSUME WizardInv, WizardInv', StepsIInv, addNode \/ updateNode \/ deleteNode
    PROVE  StepsIInv'
  <1>1. Editing(2)
    BY DEF addNode, updateNode, deleteNode
  <1>2. /\ store.nodes \in Seq(Nodes) /\ Len(store.nodes) <= MaxNodes /\ Len(store.nodes) \in Nat
        /\ MaxNodes \in Nat \ {0}
    BY WizardAssumption DEF StepsIInv, TypeOK
  <1>3. PICK nodes : /\ SetNodes(nodes)
                     /\ \/ \E x : nodes = <<x>>
                        \/ Len(store.nodes) < MaxNodes /\ \E x : nodes = Append(store.nodes, x)
                        \/ \E i \in DOMAIN store.nodes : \E x : nodes = [store.nodes EXCEPT ![i].filled = x]
                        \/ \E f : nodes = [j \in 1..(Len(store.nodes) - 1) |-> f[j]]
    <2>1. CASE addNode
      BY <2>1, Zenon DEF addNode
    <2>2. CASE updateNode
      BY <2>2, Zenon DEF updateNode
    <2>3. CASE deleteNode
      <3>1. PICK i \in DOMAIN store.nodes :
                SetNodes([j \in 1..(Len(store.nodes) - 1) |-> store.nodes[IF j < i THEN j ELSE j + 1]])
        BY <2>3 DEF deleteNode
      <3> DEFINE f == [j \in 1..(Len(store.nodes) - 1) |-> store.nodes[IF j < i THEN j ELSE j + 1]]
      <3>2. f = [j \in 1..(Len(store.nodes) - 1) |-> f[j]]
        OBVIOUS
      <3> QED
        BY <3>1, <3>2, Zenon
    <2> QED
      BY <2>1, <2>2, <2>3
  <1>4. store'.nodes = nodes /\ nodes \in Seq(Nodes)
    <2>1. store' = [store EXCEPT !.nodes = nodes]
      BY <1>3 DEF SetNodes
    <2>2. store \in Stores /\ store' \in Stores
      BY DEF WizardInv, WizardTypes
    <2> QED
      BY <2>1, <2>2 DEF Stores
  <1>5. Len(nodes) <= MaxNodes
    <2>1. ASSUME NEW x, nodes = <<x>>
          PROVE  Len(nodes) <= MaxNodes
      BY <1>2, <2>1
    <2>2. ASSUME Len(store.nodes) < MaxNodes, NEW x, nodes = Append(store.nodes, x)
          PROVE  Len(nodes) <= MaxNodes
      <3>1. Len(nodes) = Len(store.nodes) + 1
        BY <1>2, <2>2
      <3> QED
        BY <1>2, <2>2, <3>1
    <2>3. ASSUME NEW i \in DOMAIN store.nodes, NEW x, nodes = [store.nodes EXCEPT ![i].filled = x]
          PROVE  Len(nodes) <= MaxNodes
      <3>1. DOMAIN nodes = DOMAIN store.nodes
        BY <2>3
      <3>2. Len(nodes) = Len(store.nodes)
        BY <1>2, <1>4, <3>1
      <3> QED
        BY <1>2, <3>2
    <2>4. ASSUME NEW f, nodes = [j \in 1..(Len(store.nodes) - 1) |-> f[j]]
          PROVE  Len(nodes) <= MaxNodes
      <3>0. DOMAIN nodes = 1..(Len(store.nodes) - 1)
        BY <2>4, Zenon
      <3>1. DOMAIN nodes = 1..(Len(store.nodes) - 1) /\ DOMAIN nodes = 1..Len(nodes) /\ Len(nodes) \in Nat
        BY <1>4, <3>0, LenProperties
      <3>2. Len(nodes) <= Len(store.nodes)
        BY <1>2, <3>1
      <3> QED
        BY <1>2, <3>1, <3>2
    <2> QED
      BY <1>3, <2>1, <2>2, <2>3, <2>4
  <1> QED
    BY <1>1, <1>3, <1>4, <1>5, StepsEdited

LEMMA StepsSent ==
    ASSUME WizardInv, StepsIInv, startClusterProvisioning
    PROVE  StepsIInv'
  <1> DEFINE new == [by |-> creator, what |-> store, excused |-> overtaken \/ taken]
  <1>1. /\ confirm /\ inProgress' = TRUE /\ sent' = Append(sent, new)
        /\ request' = [request EXCEPT ![creator] = "sent"]
        /\ UNCHANGED <<server, list, known, page, creator, opened, generating, isGenerating, step, form, isValid,
                       nextDisabled, store, watched, confirm, overtaken, taken>>
    BY DEF startClusterProvisioning, listVars
  <1>2. creator # 0 /\ step = 4
    BY <1>1 DEF StepsIInv, TypeOK
  <1>3. /\ creator \in 1..Creators /\ sent \in Seq(Sents) /\ store \in Stores
    BY <1>2, Bounded DEF StepsIInv
  <1>4. overtaken \/ taken \/ store.name # None
    BY <1>2 DEF StepsIInv, Named
  <1>5. new.by = creator /\ new.what = store /\ (new.excused <=> overtaken \/ taken)
    OBVIOUS
  <1> HIDE DEF new
  <1>6. /\ DOMAIN sent' = 1..(Len(sent) + 1) /\ DOMAIN sent = 1..Len(sent) /\ Len(sent) \in Nat
        /\ sent'[Len(sent) + 1] = new
        /\ \A i \in DOMAIN sent : sent'[i] = sent[i]
    BY <1>1, <1>3
  <1>7. \A i \in DOMAIN sent' : i = Len(sent) + 1 \/ i \in DOMAIN sent
    BY <1>6
  <1>8. SentIsNamed'
    BY <1>4, <1>5, <1>6, <1>7 DEF StepsIInv, SentIsNamed
  <1>9. OnItsWay'
    <2> SUFFICES ASSUME NEW n \in 1..Creators, request'[n] # None
                 PROVE  \E i \in DOMAIN sent' : sent'[i].by = n
      BY DEF OnItsWay
    <2>1. CASE n = creator
      BY <1>5, <1>6, <2>1
    <2>2. CASE n # creator
      <3>1. request'[n] = request[n]
        BY <1>1, <2>2 DEF StepsIInv, TypeOK
      <3>2. PICK i \in DOMAIN sent : sent[i].by = n
        BY <3>1 DEF StepsIInv, OnItsWay
      <3> QED
        BY <1>6, <3>2
    <2> QED
      BY <2>1, <2>2
  <1>10. TypeOK'
    <2>1. request' \in [1..Creators -> {None, "sent", "created", "failed"}] /\ request'[creator] = "sent"
      BY <1>1, <1>3 DEF StepsIInv, TypeOK
    <2> QED
      BY <1>1, <1>2, <2>1, WizardAssumption DEF StepsIInv, TypeOK
  <1>11. Flagged' /\ Named' /\ Once'
    BY <1>1 DEF StepsIInv, Flagged, Named, Once
  <1> QED
    BY <1>8, <1>9, <1>10, <1>11 DEF StepsIInv

LEMMA StepsStep == WizardInv /\ WizardInv' /\ StepsIInv /\ [Next]_vars => StepsIInv'
  <1> SUFFICES ASSUME WizardInv, WizardInv', StepsIInv, [Next]_vars
               PROVE  StepsIInv'
    OBVIOUS
  <1>1. CASE UNCHANGED vars
    BY <1>1 DEF vars, listVars, wizardVars, StepsIInv, TypeOK, Flagged, Named, Once, OnItsWay, SentIsNamed
  <1>2. CASE Next
    BY <1>2, StepsQuiet, StepsServed, StepsGone, StepsOpened, StepsProposed, StepsTyped, StepsNext,
       StepsBack, StepsNodes, StepsSent DEF Next
  <1> QED
    BY <1>1, <1>2

LEMMA StepsStart == Init => StepsIInv
  <1> SUFFICES ASSUME Init PROVE StepsIInv
    OBVIOUS
  <1>1. /\ creator = 0 /\ sent = <<>> /\ opened = <<>> /\ DOMAIN sent = {} /\ DOMAIN opened = {}
        /\ Len(opened) = 0 /\ list = {} /\ page = 1 /\ generating = {} /\ step = 0
        /\ server \subseteq Names /\ known = server
    BY DEF Init
  <1>2. /\ store.settings = FALSE /\ store.default = FALSE /\ store.name = None /\ store.nodes = <<>>
    BY DEF Init, NoCluster
  <1>3. store.nodes \in Seq(Nodes) /\ Len(store.nodes) <= MaxNodes
    BY <1>2, EmptySeq, WizardAssumption
  <1>4. /\ form \in Names \cup {None} \cup BOOLEAN /\ isGenerating \in BOOLEAN /\ isValid \in BOOLEAN
        /\ nextDisabled \in BOOLEAN /\ watched \in BOOLEAN /\ confirm \in BOOLEAN
        /\ inProgress \in BOOLEAN /\ overtaken \in BOOLEAN /\ taken \in BOOLEAN
    BY Zenon DEF Init
  <1>5. /\ request = [n \in 1..Creators |-> None] /\ ~confirm /\ ~inProgress
    BY DEF Init
  <1>6. page \in 1..Visits /\ creator \in 0..Len(opened) /\ Len(opened) <= Creators
    BY <1>1, WizardAssumption
  <1>7. TypeOK
    <2>1. request \in [1..Creators -> {None, "sent", "created", "failed"}]
      BY <1>5
    <2>2. /\ known \subseteq Names \cup {None} /\ server \subseteq known /\ list \subseteq known
          /\ step \in Steps
          /\ \A k \in DOMAIN opened : opened[k] \in 1..page
          /\ generating \subseteq DOMAIN opened
      BY <1>1 DEF Steps
    <2>3. store.settings \in BOOLEAN /\ store.default \in BOOLEAN /\ store.name \in Names \cup {None}
      BY <1>2
    <2>4. ~confirm /\ ~inProgress
      BY <1>5
    <2> QED
      BY <1>3, <1>4, <1>6, <2>1, <2>2, <2>3, <2>4 DEF TypeOK
  <1>8. Flagged /\ Named /\ Once /\ OnItsWay /\ SentIsNamed
    BY <1>1, <1>5 DEF Flagged, Named, Once, OnItsWay, SentIsNamed
  <1> QED
    BY <1>7, <1>8 DEF StepsIInv

(* The button Next says what the step on the screen needs, and a request    *)
(* has a name; unless the proposal came late, or the name was taken between *)
(* typing and Next.                                                         *)
THEOREM WizardSteps == Spec => []StepsInv
  <1>1. StepsIInv => NextFitsStep
    <2> SUFFICES ASSUME StepsIInv, creator # 0, ~overtaken
                 PROVE  NextFitsStep
      BY DEF NextFitsStep
    <2>1. Flagged /\ nextDisabled \in BOOLEAN /\ isValid \in BOOLEAN /\ step \in 0..4
      BY DEF StepsIInv, TypeOK, Steps
    <2>2. CASE step = 0
      <3>1. nextDisabled <=> form # TRUE
        <4>1. isValid <=> form = TRUE
          BY <2>1, <2>2, Zenon DEF Flagged
        <4>2. nextDisabled <=> ~isValid
          BY <2>1, <2>2 DEF Flagged
        <4> QED
          BY <4>1, <4>2, Zenon
      <3>2. step # 1 /\ step # 2
        BY <2>2
      <3> QED
        BY <2>2, <3>1, <3>2, Zenon DEF NextFitsStep
    <2>3. CASE step = 1
      BY <2>1, <2>3 DEF Flagged, NextFitsStep
    <2>4. CASE step = 2
      BY <2>1, <2>4 DEF Flagged, NextFitsStep
    <2>5. CASE step \in {3, 4}
      <3>1. ~nextDisabled /\ step # 0 /\ step # 1 /\ step # 2
        BY <2>1, <2>5 DEF Flagged
      <3> QED
        BY <3>1, Zenon DEF NextFitsStep
    <2> QED
      BY <2>1, <2>2, <2>3, <2>4, <2>5
  <1>2. StepsIInv => StepsInv
    BY <1>1 DEF StepsIInv, StepsInv
  <1> QED
    BY <1>2, WizardStart, WizardStep, StepsStart, StepsStep, PTL DEF Spec
-----------------------------------------------------------------------------
(* The Helm apps: an indicator and the one removal that it is for, what a    *)
(* slot holds, and where an edit is between the list and the record.        *)

RemovalOps   == {"uninstall", "delete"}
ListEdits    == {"add", "update", "delete"}
StatusList   == [AppIds -> Statuses \cup {Nothing}]
InRemoval(t) == task[t].op \in RemovalOps

(* An indicator is up exactly while the one removal that it is for is       *)
(* under way.                                                               *)
RemovalInv ==
    /\ DOMAIN task = Slots
    /\ indicator \in [RemovalOps -> BOOLEAN]
    /\ \A t, u \in Slots : InRemoval(t) /\ InRemoval(u) => t = u
    /\ \A o \in RemovalOps : indicator[o] <=> \E t \in Slots : task[t].op = o

(* What the task of a load is, of a poll, and of a click.                   *)
LoadTask(k) ==
    /\ DOMAIN k = {"op", "phase", "answer", "rest", "clean"}
    /\ k.op = "load" /\ k.phase \in {"sent", "answered"} /\ k.clean \in BOOLEAN /\ k.rest = <<>>
    /\ k.phase = "answered" => k.answer \in Seq(Apps) /\ DistinctIds(k.answer)

PollTask(k) ==
    /\ DOMAIN k = {"op", "phase", "answer", "rest", "clean"}
    /\ k.op = "status" /\ k.phase \in {"sent", "answered"} /\ k.rest = <<>>
    /\ k.phase = "answered" => k.answer \in StatusList

ClickTask(k, n) ==
    /\ DOMAIN k = {"op", "id", "def", "by", "rest", "submit", "phase", "answer"}
    /\ k.op \in {"add", "update", "install", "uninstall", "delete", "status"}
    /\ k.phase \in {"sent", "running", "answered", "failed"}
    /\ k.phase = "running" => k.op \in {"install", "uninstall"}
    /\ k.op \in {"add", "delete", "status"} => k.phase # "failed" /\ k.rest = <<>>
    /\ k.op \in {"install", "uninstall"} => k.rest = <<"status">>
    /\ k.op = "update" => k.rest \in {<<>>, <<"install", "status">>}
    /\ k.op \in {"add", "update"} => k.def \in Defs
    /\ k.op # "add" => k.id \in AppIds
    /\ k.op = "add" => k.id = Nothing /\ (k.phase = "answered" => k.answer = n)
    /\ k.op = "status" /\ k.phase = "answered" => k.answer \in StatusList

TaskOK(t) ==
    \/ task[t] = Idle
    \/ task[t] = Dead
    \/ t[1] = "load" /\ LoadTask(task[t])
    \/ t[1] = "poll" /\ PollTask(task[t])
    \/ t[1] = "click" /\ ClickTask(task[t], t[2])

TypesOK ==
    /\ apps \in Seq(Apps) /\ shown \in Seq(Apps) /\ DistinctIds(apps)
    /\ release \in [Releases -> Defs \cup {Nothing}]
    /\ DOMAIN helm = 1..Ops
    /\ \A n \in 1..Ops : helm[n] # Nothing => helm[n].op \in {"install", "uninstall"} /\ helm[n].def \in Defs
    /\ statuses \in StatusList
    /\ loaded \in BOOLEAN /\ mounted \in BOOLEAN /\ raced \in BOOLEAN /\ inDoubt \in BOOLEAN
    /\ dialog \in [open : BOOLEAN, id : AppIds \cup {Nothing}] /\ (dialog.open => mounted)
    /\ bound \in Bounds /\ visit \in 0..bound.visits /\ clicks \in 0..Ops /\ fails \in 0..bound.fails
    /\ mounted => visit # 0
    /\ clicks # 0 => loaded

Shapes == RemovalInv /\ TypesOK /\ \A t \in Slots : TaskOK(t)

(* The app whose place in the list a call is about.                         *)
Subject(t) == IF task[t].op = "add" THEN t[2]
              ELSE IF task[t].op \in ListEdits THEN task[t].id ELSE Nothing

(* Nobody has an id before its click.                                       *)
Unused(i) ==
    /\ RowsOf(apps, i) = {} /\ RowsOf(shown, i) = {} /\ dialog.id # i
    /\ \A t \in Slots : /\ Subject(t) # i
                        /\ task[t].op = "load" /\ task[t].phase = "answered" => RowsOf(task[t].answer, i) = {}

Fresh ==
    /\ \A n \in 1..Ops : n > clicks => task[<<"click", n>>] = Idle
    /\ \A i \in AppIds : i > clicks => Unused(i)
    /\ \A t \in Slots : task[t].op = "add" /\ task[t].phase = "sent" => RowsOf(apps, t[2]) = {}

(* No edit is under way while a load is clean, and its answer stays right.  *)
CleanLoads ==
    \A t \in Slots : task[t].op = "load" /\ task[t].clean =>
        ~EditUnderWay /\ (task[t].phase = "answered" => task[t].answer = apps)

(* Where an edit is between the list in the store and the record: an update *)
(* is in the list first, an addition and a deletion are in the record first.*)
EditState(t) ==
    LET k == task[t]
        i == Subject(t)
    IN  /\ k.op = "add" =>
              /\ dialog.id # i /\ RowsOf(shown, i) = {}
              /\ k.phase = "answered" => RowsOf(apps, i) = {Row(i, k.def)}
        /\ k.op = "update" =>
              RowsOf(shown, i) = IF k.phase = "answered" THEN RowsOf(apps, i)
                                 ELSE IF RowsOf(apps, i) = {} THEN {} ELSE {Row(i, k.def)}
        /\ k.op = "delete" =>
              IF k.phase = "answered" THEN RowsOf(apps, i) = {} ELSE RowsOf(shown, i) = RowsOf(apps, i)

Sync ==
    /\ DistinctIds(shown)
    /\ \A t, u \in Slots : Subject(t) = Subject(u) /\ Subject(t) # Nothing => t = u
    /\ \A t \in Slots : Subject(t) # Nothing => EditState(t)
    /\ \A i \in AppIds : (\A t \in Slots : Subject(t) # i) => RowsOf(shown, i) = RowsOf(apps, i)

AppListInv ==
    /\ Shapes /\ Fresh /\ CleanLoads
    /\ loaded /\ ~inDoubt => Sync

LEMMA SlotForm ==
    ASSUME NEW t \in Slots
    PROVE  \/ t = <<"load", t[2]>> /\ t[1] = "load" /\ t[2] \in AllVisits
           \/ t = <<"poll", t[2]>> /\ t[1] = "poll" /\ t[2] \in AllVisits
           \/ t = <<"click", t[2]>> /\ t[1] = "click" /\ t[2] \in 1..Ops
  BY DEF Slots

LEMMA AppBounds ==
    /\ Ops \in Nat /\ First \in Defs
    /\ AppIds = 0..Ops /\ Nothing \notin Nat /\ Nothing \notin AppIds /\ Nothing \notin Defs
    /\ Nothing # "Installed" /\ Nothing # "NotInstalled"
    /\ \A b \in Bounds : b.visits \in Nat /\ b.fails \in Nat /\ b.typed \subseteq Defs
  BY AppsAssumption DEF AppIds, Bound

LEMMA IdleForm ==
    /\ Idle.op = "idle" /\ Dead.op = "dead" /\ Idle # Dead
  <1>1. Idle.op = "idle" /\ Dead.op = "dead"
    BY DEF Idle, Dead
  <1> QED
    BY <1>1

(* The operation of a task says what it is.                                 *)
LEMMA TaskForm ==
    ASSUME NEW t \in Slots, TaskOK(t)
    PROVE  /\ task[t] = Idle <=> task[t].op = "idle"
           /\ task[t] = Dead <=> task[t].op = "dead"
           /\ Running(t) <=> task[t].op \notin {"idle", "dead"}
           /\ task[t].op \in {"idle", "dead", "load", "status", "add", "update", "delete", "install", "uninstall"}
           /\ task[t].op = "load" => LoadTask(task[t]) /\ t = <<"load", t[2]>> /\ t[1] = "load"
           /\ task[t].op = "status" =>
                 \/ PollTask(task[t]) /\ t = <<"poll", t[2]>> /\ t[1] = "poll"
                 \/ ClickTask(task[t], t[2]) /\ t = <<"click", t[2]>> /\ t[1] = "click"
           /\ task[t].op \in Edits =>
                 ClickTask(task[t], t[2]) /\ t = <<"click", t[2]>> /\ t[1] = "click" /\ t[2] \in 1..Ops
           /\ t[1] = "click" /\ task[t].op \notin {"idle", "dead"} =>
                 ClickTask(task[t], t[2]) /\ t = <<"click", t[2]>> /\ t[2] \in 1..Ops
           /\ t[1] = "load" => task[t].op \in {"idle", "dead", "load"}
           /\ t[1] = "poll" => task[t].op \in {"idle", "dead", "status"}
  <1>1. CASE task[t] = Idle
    BY <1>1, IdleForm DEF Running, Edits
  <1>2. CASE task[t] = Dead
    BY <1>2, IdleForm DEF Running, Edits
  <1>3. CASE t[1] = "load" /\ LoadTask(task[t])
    BY <1>3, IdleForm, SlotForm DEF Running, Edits, LoadTask
  <1>4. CASE t[1] = "poll" /\ PollTask(task[t])
    BY <1>4, IdleForm, SlotForm DEF Running, Edits, PollTask
  <1>5. CASE t[1] = "click" /\ ClickTask(task[t], t[2])
    <2>1. task[t].op \in {"add", "update", "delete", "install", "uninstall", "status"}
      BY <1>5 DEF ClickTask
    <2> QED
      BY <1>5, <2>1, IdleForm, SlotForm DEF Running, Edits
  <1> QED
    BY <1>1, <1>2, <1>3, <1>4, <1>5 DEF TaskOK

LEMMA SubjectForm ==
    ASSUME NEW t \in Slots, TaskOK(t)
    PROVE  /\ Subject(t) \in AppIds \cup {Nothing}
           /\ task[t].op \in ListEdits <=> Subject(t) # Nothing
           /\ task[t].op \in ListEdits => Subject(t) \in AppIds /\ task[t].op \in Edits
           /\ task[t].op = "add" => Subject(t) = t[2]
           /\ task[t].op \in {"update", "delete"} => Subject(t) = task[t].id
  <1>1. CASE task[t].op = "add"
    <2>1. t[2] \in 1..Ops
      BY <1>1, TaskForm DEF Edits
    <2> QED
      BY <1>1, <2>1, AppBounds DEF Subject, ListEdits, Edits
  <1>2. CASE task[t].op \in {"update", "delete"}
    <2>1. task[t].id \in AppIds
      BY <1>2, TaskForm DEF ClickTask, Edits
    <2> QED
      BY <1>2, <2>1, AppBounds DEF Subject, ListEdits, Edits
  <1>3. CASE task[t].op \notin {"add", "update", "delete"}
    BY <1>3 DEF Subject, ListEdits
  <1> QED
    BY <1>1, <1>2, <1>3

(* One task changes, and nothing but the app that it is about.              *)
LEMMA SyncOne ==
    ASSUME Shapes, Sync, DistinctIds(shown'),
           NEW t, NEW s \in AppIds \cup {Nothing},
           \A u \in Slots : u # t => /\ task'[u].op = task[u].op
                                     /\ task[u].op \in ListEdits => task'[u] = task[u],
           \A i \in AppIds : i # s => /\ RowsOf(apps', i) = RowsOf(apps, i)
                                      /\ RowsOf(shown', i) = RowsOf(shown, i),
           t \in Slots => /\ Subject(t)' \in {s, Nothing}
                          /\ Subject(t)' # Nothing => EditState(t)'
                          /\ Subject(t) \in {s, Nothing},
           \A u \in Slots : u # t /\ s # Nothing => Subject(u) # s,
           \A u \in Slots : u # t /\ task[u].op = "add" => dialog'.id # u[2],
           s # Nothing /\ (t \in Slots => Subject(t)' = Nothing) => RowsOf(shown', s) = RowsOf(apps', s)
    PROVE  Sync'
  <1>0. \A u \in Slots : TaskOK(u)
    BY DEF Shapes
  <1>1. \A u \in Slots : u # t => Subject(u)' = Subject(u)
    BY DEF Subject, ListEdits
  <1>2. ASSUME NEW u \in Slots, NEW v \in Slots, Subject(u)' = Subject(v)', Subject(u)' # Nothing
        PROVE  u = v
    <2>1. CASE u # t /\ v # t
      BY <1>1, <1>2, <2>1 DEF Sync
    <2>2. CASE u = t /\ v # t
      BY <1>1, <1>2, <2>2
    <2>3. CASE u # t /\ v = t
      BY <1>1, <1>2, <2>3
    <2> QED
      BY <2>1, <2>2, <2>3
  <1>3. ASSUME NEW u \in Slots, Subject(u)' # Nothing
        PROVE  EditState(u)'
    <2>1. CASE u = t
      BY <1>3, <2>1
    <2>2. CASE u # t
      <3>1. Subject(u)' = Subject(u) /\ Subject(u) # Nothing /\ TaskOK(u)
        BY <1>0, <1>1, <1>3, <2>2
      <3>2. Subject(u) \in AppIds /\ task[u].op \in ListEdits /\ (task[u].op = "add" => Subject(u) = u[2])
        BY <3>1, SubjectForm
      <3>3. task'[u] = task[u] /\ EditState(u) /\ Subject(u) # s
        BY <2>2, <3>1, <3>2 DEF Sync
      <3>4. RowsOf(apps', Subject(u)) = RowsOf(apps, Subject(u)) /\ RowsOf(shown', Subject(u)) = RowsOf(shown, Subject(u))
        BY <3>2, <3>3
      <3>5. RowsOf(apps, Subject(u))' = RowsOf(apps', Subject(u)) /\ RowsOf(shown, Subject(u))' = RowsOf(shown', Subject(u))
        BY <3>1 DEF RowsOf
      <3>6. task[u].op = "add" => dialog'.id # Subject(u)
        BY <2>2, <3>2
      <3> QED
        BY <3>1, <3>3, <3>4, <3>5, <3>6 DEF EditState
    <2> QED
      BY <2>1, <2>2
  <1>4. ASSUME NEW i \in AppIds, \A u \in Slots : Subject(u)' # i
        PROVE  RowsOf(shown, i)' = RowsOf(apps, i)'
    <2>1. CASE i = s
      <3>1. s # Nothing
        BY <2>1, AppBounds
      <3>2. t \in Slots => Subject(t)' = Nothing
        BY <1>4, <2>1
      <3> QED
        BY <2>1, <3>1, <3>2 DEF RowsOf
    <2>2. CASE i # s
      <3>1. \A u \in Slots : Subject(u) # i
        BY <1>1, <1>4, <2>2, AppBounds
      <3>2. RowsOf(shown, i) = RowsOf(apps, i)
        BY <3>1 DEF Sync
      <3> QED
        BY <2>2, <3>2 DEF RowsOf
    <2> QED
      BY <2>1, <2>2
  <1>5. DistinctIds(shown)'
    BY DEF DistinctIds
  <1> QED
    BY <1>2, <1>3, <1>4, <1>5 DEF Sync

(* Every task but one stays what it is.                                     *)
Moves(t) == /\ DOMAIN task' = Slots
            /\ \A u \in Slots : u # t => task'[u] = task[u]

LEMMA EditsShrink ==
    ASSUME \A u \in Slots : TaskOK(u), NEW t, Moves(t),
           t \in Slots => (task'[t].op \in Edits => task[t].op \in Edits),
           EditUnderWay'
    PROVE  EditUnderWay
  <1>1. PICK u \in Slots : Running(u)' /\ task'[u].op \in Edits
    BY DEF EditUnderWay
  <1>2. task[u].op \in Edits
    BY <1>1 DEF Moves
  <1>3. Running(u)
    BY <1>2, TaskForm DEF Edits
  <1> QED
    BY <1>2, <1>3 DEF EditUnderWay

(* Any step but a click: at most one task moves.                            *)
LEMMA TaskMoves ==
    ASSUME AppListInv, NEW t, Moves(t), RemovalInv', TypesOK', clicks' = clicks, visit' \in Nat,
           t \in Slots => /\ TaskOK(t)'
                          /\ t[1] = "click" => task[t] # Idle
                          /\ Subject(t)' \in {Subject(t), Nothing}
                          /\ task'[t].op = "add" => task'[t].phase # "sent"
                          /\ task'[t].op \in Edits => task[t].op \in Edits
                          /\ task'[t].op = "load" /\ task'[t].phase = "answered" => task'[t].answer = apps
                          /\ task'[t].op = "load" /\ task'[t].clean => ~EditUnderWay,
           apps' # apps => t \in Slots /\ task[t].op \in Edits,
           \A i \in AppIds : RowsOf(apps, i) = {} =>
                 RowsOf(apps', i) = {} \/ (t \in Slots /\ task[t].op = "add" /\ i = t[2]),
           \A i \in AppIds : i > clicks => RowsOf(shown', i) = {} /\ dialog'.id # i,
           loaded' /\ ~inDoubt' => Sync'
    PROVE  AppListInv'
  <1> USE DEF AppListInv
  <1>1. \A u \in Slots : TaskOK(u)
    BY DEF Shapes
  <1>2. \A u \in Slots : u # t => task'[u] = task[u] /\ Subject(u)' = Subject(u)
    BY DEF Moves, Subject
  <1>3. ASSUME NEW u \in Slots
        PROVE  TaskOK(u)'
    <2>1. CASE u = t
      BY <2>1
    <2>2. CASE u # t
      <3>1. TaskOK(u) /\ task'[u] = task[u]
        BY <1>1, <1>2, <2>2
      <3>2. LoadTask(task[u]) /\ task[u] # Idle => LoadTask(task'[u])
        BY <3>1
      <3> QED
        BY <3>1 DEF TaskOK, LoadTask, PollTask, ClickTask, DistinctIds
    <2> QED
      BY <2>1, <2>2
  <1>4. Shapes'
    BY <1>3 DEF Shapes
  <1>5. ASSUME NEW n \in 1..Ops, n > clicks
        PROVE  task'[<<"click", n>>] = Idle
    <2>1. <<"click", n>> \in Slots /\ task[<<"click", n>>] = Idle
      BY <1>5 DEF Fresh, Slots
    <2>2. <<"click", n>> # t
      BY <2>1
    <2> QED
      BY <1>2, <2>1, <2>2
  <1>6. ASSUME NEW i \in AppIds, i > clicks
        PROVE  Unused(i)'
    <2>1. Unused(i) /\ i # Nothing
      BY <1>6, AppBounds DEF Fresh
    <2>2. \A u \in Slots : Subject(u)' # i
      BY <1>2, <2>1 DEF Unused
    <2>3. ASSUME NEW u \in Slots, task'[u].op = "load", task'[u].phase = "answered"
          PROVE  RowsOf(task'[u].answer, i) = {}
      <3>1. CASE u = t
        BY <2>1, <2>3, <3>1 DEF Unused
      <3>2. CASE u # t
        BY <1>2, <2>1, <2>3, <3>2 DEF Unused
      <3> QED
        BY <3>1, <3>2
    <2>4. RowsOf(apps', i) = {}
      <3>1. t \in Slots /\ task[t].op = "add" => i # t[2]
        BY <1>1, <2>1, SubjectForm DEF Unused
      <3> QED
        BY <2>1, <3>1 DEF Unused
    <2>5. RowsOf(shown', i) = {} /\ dialog'.id # i
      BY <1>6
    <2> QED
      BY <2>2, <2>3, <2>4, <2>5 DEF Unused, RowsOf
  <1>7. ASSUME NEW u \in Slots, task'[u].op = "add", task'[u].phase = "sent"
        PROVE  RowsOf(apps', u[2]) = {}
    <2>1. u # t /\ task[u].op = "add" /\ task[u].phase = "sent"
      BY <1>2, <1>7
    <2>2. RowsOf(apps, u[2]) = {}
      BY <2>1 DEF Fresh
    <2>3. u = <<"click", u[2]>> /\ u[2] \in AppIds
      BY <1>1, <2>1, TaskForm, AppBounds DEF Edits
    <2>4. t \in Slots /\ task[t].op = "add" => t = <<"click", t[2]>>
      BY <1>1, TaskForm DEF Edits
    <2> QED
      BY <2>1, <2>2, <2>3, <2>4
  <1>8. Fresh'
    BY <1>5, <1>6, <1>7 DEF Fresh, RowsOf
  <1>9. EditUnderWay' => EditUnderWay
    BY <1>1, EditsShrink
  <1>10. ASSUME NEW u \in Slots, task'[u].op = "load", task'[u].clean
         PROVE  ~EditUnderWay' /\ (task'[u].phase = "answered" => task'[u].answer = apps')
    <2>1. ~EditUnderWay /\ (task'[u].phase = "answered" => task'[u].answer = apps)
      BY <1>2, <1>10 DEF CleanLoads
    <2>2. apps' = apps
      <3>1. t \in Slots /\ task[t].op \in Edits => Running(t)
        BY <1>1, TaskForm DEF Edits
      <3> QED
        BY <2>1, <3>1 DEF EditUnderWay
    <2> QED
      BY <1>9, <2>1, <2>2
  <1>11. CleanLoads'
    BY <1>10 DEF CleanLoads
  <1> QED
    BY <1>4, <1>8, <1>11

(* Sync when one task moves whose subject does not change hands.            *)
LEMMA SyncMoves ==
    ASSUME AppListInv, Sync, NEW t, Moves(t), DistinctIds(shown'),
           t \in Slots => Subject(t)' \in {Subject(t), Nothing} /\ (Subject(t)' # Nothing => EditState(t)'),
           \A i \in AppIds : (t \in Slots => i # Subject(t)) =>
                 RowsOf(apps', i) = RowsOf(apps, i) /\ RowsOf(shown', i) = RowsOf(shown, i),
           \/ dialog'.id \in {Nothing, dialog.id}
           \/ dialog'.id \in AppIds /\ RowsOf(shown, dialog'.id) # {}
           \/ t \in Slots /\ task[t].op = "add" /\ dialog'.id = t[2],
           t \in Slots /\ Subject(t)' = Nothing /\ Subject(t) # Nothing =>
                 RowsOf(shown', Subject(t)) = RowsOf(apps', Subject(t))
    PROVE  Sync'
  <1> USE DEF AppListInv
  <1>1. \A u \in Slots : TaskOK(u)
    BY DEF Shapes
  <1>2. PICK s : s = IF t \in Slots THEN Subject(t) ELSE Nothing
    OBVIOUS
  <1>3. s \in AppIds \cup {Nothing}
    BY <1>1, <1>2, SubjectForm
  <1>4. \A u \in Slots : u # t => /\ task'[u].op = task[u].op
                                  /\ task[u].op \in ListEdits => task'[u] = task[u]
    BY DEF Moves
  <1>5. \A i \in AppIds : i # s => /\ RowsOf(apps', i) = RowsOf(apps, i)
                                   /\ RowsOf(shown', i) = RowsOf(shown, i)
    BY <1>2
  <1>6. t \in Slots => /\ Subject(t)' \in {s, Nothing}
                       /\ Subject(t)' # Nothing => EditState(t)'
                       /\ Subject(t) \in {s, Nothing}
    BY <1>2
  <1>7. \A u \in Slots : u # t /\ s # Nothing => Subject(u) # s
    BY <1>2 DEF Sync
  <1>8. ASSUME NEW u \in Slots, u # t, task[u].op = "add"
        PROVE  dialog'.id # u[2]
    <2>1. Subject(u) = u[2] /\ Subject(u) # Nothing /\ u[2] \in AppIds /\ u = <<"click", u[2]>>
      BY <1>1, <1>8, SubjectForm, TaskForm DEF ListEdits, Edits
    <2>2. dialog.id # u[2] /\ RowsOf(shown, u[2]) = {}
      BY <1>8, <2>1 DEF Sync, EditState
    <2>3. t \in Slots /\ task[t].op = "add" => t = <<"click", t[2]>>
      BY <1>1, TaskForm DEF Edits
    <2> QED
      BY <1>8, <2>1, <2>2, <2>3, AppBounds
  <1>9. s # Nothing /\ (t \in Slots => Subject(t)' = Nothing) => RowsOf(shown', s) = RowsOf(apps', s)
    BY <1>2
  <1> QED
    BY <1>3, <1>4, <1>5, <1>6, <1>7, <1>8, <1>9, SyncOne

LEMMA RemovalSame ==
    ASSUME RemovalInv, NEW t, Moves(t), indicator' = indicator,
           t \in Slots => \/ task'[t].op = task[t].op
                          \/ task[t].op \notin RemovalOps /\ task'[t].op \notin RemovalOps
    PROVE  RemovalInv'
  <1>1. \A u \in Slots : InRemoval(u)' <=> InRemoval(u)
    BY DEF Moves, InRemoval
  <1>2. \A u \in Slots : InRemoval(u) => task'[u].op = task[u].op
    BY DEF Moves, InRemoval
  <1>3. ASSUME NEW o \in RemovalOps
        PROVE  indicator'[o] <=> \E u \in Slots : task'[u].op = o
    <2>1. \A u \in Slots : task'[u].op = o <=> task[u].op = o
      BY <1>1, <1>2 DEF InRemoval
    <2> QED
      BY <2>1 DEF RemovalInv
  <1>4. \A u, v \in Slots : InRemoval(u)' /\ InRemoval(v)' => u = v
    BY <1>1 DEF RemovalInv
  <1> QED
    BY <1>3, <1>4 DEF RemovalInv, Moves

(* The end of a call lowers the indicator that it may have raised.          *)
LEMMA RemovalEnds ==
    ASSUME RemovalInv, NEW t \in Slots, Moves(t), task'[t].op \notin RemovalOps,
           indicator' = Lowered(task[t].op)
    PROVE  RemovalInv'
  <1>1. /\ indicator' \in [RemovalOps -> BOOLEAN]
        /\ \A o \in RemovalOps : indicator'[o] <=> indicator[o] /\ o # task[t].op
    BY DEF RemovalInv, Lowered
  <1>2. \A u \in Slots : InRemoval(u)' <=> InRemoval(u) /\ u # t
    BY DEF Moves, InRemoval
  <1>3. \A u, v \in Slots : InRemoval(u)' /\ InRemoval(v)' => u = v
    BY <1>2 DEF RemovalInv
  <1>4. ASSUME NEW o \in RemovalOps
        PROVE  indicator'[o] <=> \E u \in Slots : task'[u].op = o
    <2>1. ASSUME indicator'[o]
          PROVE  \E u \in Slots : task'[u].op = o
      <3>1. indicator[o] /\ o # task[t].op
        BY <1>1, <2>1
      <3>2. PICK u \in Slots : task[u].op = o
        BY <3>1 DEF RemovalInv
      <3>3. task'[u].op = o
        BY <3>1, <3>2 DEF Moves
      <3> QED
        BY <3>3
    <2>2. ASSUME NEW u \in Slots, task'[u].op = o
          PROVE  indicator'[o]
      <3>1. u # t /\ task[u].op = o
        BY <2>2 DEF Moves
      <3>2. indicator[o]
        BY <3>1 DEF RemovalInv
      <3>3. task[t].op # o
        BY <3>1 DEF RemovalInv, InRemoval
      <3> QED
        BY <1>1, <3>2, <3>3
    <2> QED
      BY <2>1, <2>2
  <1> QED
    BY <1>1, <1>3, <1>4 DEF RemovalInv, Moves

LEMMA AppRows == \A r \in Apps : r.id \in AppIds /\ r.def \in Defs
  BY DEF Apps

LEMMA AppReplaced ==
    ASSUME NEW rows \in Seq(Apps), NEW id, NEW d \in Defs, HasRow(rows, id)
    PROVE  /\ WithDef(rows, id, d) \in Seq(Apps)
           /\ \A i : HasRow(WithDef(rows, id, d), i) <=> HasRow(rows, i)
           /\ DistinctIds(rows) => DistinctIds(WithDef(rows, id, d))
           /\ DistinctIds(rows) =>
                 \A i : RowsOf(WithDef(rows, id, d), i) = IF i = id THEN {Row(id, d)} ELSE RowsOf(rows, i)
  <1>1. Redefinable(Apps, d)
    BY DEF Redefinable, Apps, Row
  <1>2. /\ WithDef(rows, id, d) \in Seq(Apps)
        /\ \A i : HasRow(WithDef(rows, id, d), i) <=> HasRow(rows, i)
        /\ DistinctIds(rows) => DistinctIds(WithDef(rows, id, d))
    BY <1>1, RowReplaced
  <1>3. ASSUME DistinctIds(rows), NEW i
        PROVE  RowsOf(WithDef(rows, id, d), i) = IF i = id THEN {Row(id, d)} ELSE RowsOf(rows, i)
    BY <1>1, <1>3, RowsReplaced
  <1> QED
    BY <1>2, <1>3

LEMMA StatusKinds ==
    ASSUME NEW id
    PROVE  StatusNow(id) \subseteq Statuses
  BY DEF StatusNow, Statuses

(* The server answers a task, begins with Helm, or has not found the app.   *)
LEMMA ServeIs ==
    ASSUME Shapes, NEW t \in Slots, Serve(t)
    PROVE  /\ UNCHANGED <<release, pageVars, fails, raced, inDoubt>>
           /\ task[t].phase = "sent" /\ Running(t) /\ Moves(t)
           /\ task'[t].op = task[t].op /\ task'[t].phase # "sent"
           /\ TaskOK(t)'
           /\ task[t].op = "load" =>
                 task'[t].answer = apps /\ task'[t].clean = task[t].clean
           /\ task[t].op \in Edits => task'[t].id = task[t].id /\ task'[t].def = task[t].def
           /\ task[t].op = "add" =>
                 /\ task'[t].phase = "answered"
                 /\ apps' = Append(apps, Row(t[2], task[t].def))
           /\ task[t].op = "update" =>
                 IF HasRow(apps, task[t].id)
                 THEN apps' = WithDef(apps, task[t].id, task[t].def) /\ task'[t].phase = "answered"
                 ELSE apps' = apps /\ task'[t].phase = "failed"
           /\ task[t].op = "delete" =>
                 apps' = WithoutRow(apps, task[t].id) /\ task'[t].phase = "answered"
           /\ task[t].op \notin ListEdits => apps' = apps
           /\ \/ helm' = helm
              \/ /\ task[t].op \in {"install", "uninstall"} /\ HasRow(apps, task[t].id)
                 /\ helm' = [helm EXCEPT ![t[2]] =
                                [op |-> task[t].op, def |-> apps[FindRow(apps, task[t].id)].def]]
  <1>1. /\ UNCHANGED <<release, pageVars, fails, raced, inDoubt>>
        /\ task[t].phase = "sent" /\ Running(t)
    BY DEF Serve
  <1>2. DOMAIN task = Slots /\ TaskOK(t) /\ DistinctIds(apps) /\ apps \in Seq(Apps)
    BY DEF Shapes, RemovalInv, TypesOK
  <1>3. ASSUME NEW k, task' = [task EXCEPT ![t] = k]
        PROVE  Moves(t) /\ task'[t] = k
    BY <1>2, <1>3 DEF Moves
  <1>4. CASE ServeRead(t)
    <2>1. apps' = apps /\ helm' = helm /\ task[t].op \in {"load", "status"}
      BY <1>4 DEF ServeRead
    <2>2. CASE task[t].op = "load"
      <3>1. task' = [task EXCEPT ![t] = [task[t] EXCEPT !.phase = "answered", !.answer = apps]]
        BY <1>2, <1>4, <2>2 DEF ServeRead, Answered
      <3>2. Moves(t) /\ task'[t] = [task[t] EXCEPT !.phase = "answered", !.answer = apps]
        BY <1>3, <3>1
      <3>3. LoadTask(task[t]) /\ t[1] = "load"
        BY <1>2, <2>2, TaskForm
      <3>4. LoadTask(task'[t])
        BY <1>2, <3>2, <3>3 DEF LoadTask
      <3>5. TaskOK(t)'
        BY <3>3, <3>4 DEF TaskOK, LoadTask, DistinctIds
      <3> QED
        BY <1>1, <2>1, <2>2, <3>2, <3>3, <3>5 DEF LoadTask, ListEdits, Edits
    <2>3. CASE task[t].op = "status"
      <3>1. PICK s \in Snapshots : task' = [task EXCEPT ![t] = [task[t] EXCEPT !.phase = "answered", !.answer = s]]
        BY <1>2, <1>4, <2>3 DEF ServeRead, Answered
      <3>2. Moves(t) /\ task'[t] = [task[t] EXCEPT !.phase = "answered", !.answer = s]
        BY <1>3, <3>1
      <3>3. s \in StatusList
        <4> DEFINE now == [id \in AppIds |-> IF HasRow(apps, id) THEN StatusNow(id) ELSE {Nothing}]
        <4>1. \A id \in AppIds : now[id] \subseteq Statuses \cup {Nothing}
          BY DEF StatusNow, Statuses
        <4>2. \/ s \in [AppIds -> UNION {now[id] : id \in AppIds}] /\ \A id \in AppIds : s[id] \in now[id]
              \/ s = [id \in AppIds |-> IF HasRow(apps, id) THEN "Other" ELSE Nothing]
          BY DEF Snapshots
        <4> HIDE DEF now
        <4>3. CASE s = [id \in AppIds |-> IF HasRow(apps, id) THEN "Other" ELSE Nothing]
          BY <4>3 DEF StatusList, Statuses
        <4> QED
          BY <4>1, <4>2, <4>3 DEF StatusList
      <3>4. \/ PollTask(task[t]) /\ t[1] = "poll"
            \/ ClickTask(task[t], t[2]) /\ t[1] = "click"
        BY <1>2, <2>3, TaskForm
      <3>5. CASE PollTask(task[t]) /\ t[1] = "poll"
        <4>1. PollTask(task'[t]) /\ task'[t].op = "status" /\ task'[t].phase = "answered"
          BY <3>2, <3>3, <3>5 DEF PollTask
        <4>2. TaskOK(t)'
          BY <3>5, <4>1 DEF TaskOK, PollTask
        <4> QED
          BY <1>1, <2>1, <2>3, <3>2, <4>1, <4>2 DEF ListEdits, Edits
      <3>6. CASE ClickTask(task[t], t[2]) /\ t[1] = "click"
        <4>1. ClickTask(task'[t], t[2]) /\ task'[t].op = "status" /\ task'[t].phase = "answered"
          BY <2>3, <3>2, <3>3, <3>6 DEF ClickTask
        <4>2. TaskOK(t)'
          BY <3>6, <4>1 DEF TaskOK, ClickTask
        <4> QED
          BY <1>1, <2>1, <2>3, <3>2, <4>1, <4>2 DEF ListEdits, Edits
      <3> QED
        BY <3>4, <3>5, <3>6
    <2> QED
      BY <2>1, <2>2, <2>3
  <1>5. ASSUME task[t].op \in Edits
        PROVE  ClickTask(task[t], t[2]) /\ t[1] = "click" /\ t[2] \in 1..Ops
    BY <1>2, <1>5, TaskForm
  <1>6. ASSUME task[t].op \in Edits, NEW a, task' = Answered(t, a), task[t].op = "add" => a = t[2]
        PROVE  /\ Moves(t) /\ TaskOK(t)' /\ task'[t].phase = "answered" /\ task'[t].op = task[t].op
               /\ task'[t].id = task[t].id /\ task'[t].def = task[t].def
    <2>1. task' = [task EXCEPT ![t] = [task[t] EXCEPT !.phase = "answered", !.answer = a]]
      BY <1>2, <1>6 DEF Answered
    <2>2. Moves(t) /\ task'[t] = [task[t] EXCEPT !.phase = "answered", !.answer = a]
      BY <1>3, <2>1
    <2>3. ClickTask(task'[t], t[2])
      BY <1>5, <1>6, <2>2 DEF ClickTask, Edits
    <2>4. TaskOK(t)'
      BY <1>5, <1>6, <2>3 DEF TaskOK, ClickTask
    <2> QED
      BY <1>5, <1>6, <2>2, <2>4 DEF ClickTask
  <1>7. ASSUME task[t].op \in {"update", "install", "uninstall"}, NEW p \in {"failed", "running"},
               task' = [task EXCEPT ![t].phase = p], p = "running" => task[t].op # "update"
        PROVE  /\ Moves(t) /\ TaskOK(t)' /\ task'[t].phase = p /\ task'[t].op = task[t].op
               /\ task'[t].id = task[t].id /\ task'[t].def = task[t].def
    <2>1. task' = [task EXCEPT ![t] = [task[t] EXCEPT !.phase = p]]
      BY <1>2, <1>7
    <2>2. Moves(t) /\ task'[t] = [task[t] EXCEPT !.phase = p]
      BY <1>3, <2>1
    <2>3. ClickTask(task[t], t[2]) /\ t[1] = "click"
      BY <1>5, <1>7 DEF Edits
    <2>4. ClickTask(task'[t], t[2])
      BY <1>7, <2>2, <2>3 DEF ClickTask
    <2>5. TaskOK(t)'
      BY <2>3, <2>4 DEF TaskOK, ClickTask
    <2> QED
      BY <2>2, <2>3, <2>5 DEF ClickTask
  <1>8. CASE saveHelmApp(t)
    <2>1. /\ task[t].op = "add" /\ helm' = helm /\ task' = Answered(t, t[2])
          /\ apps' = Append(apps, Row(t[2], task[t].def))
      BY <1>8 DEF saveHelmApp, Row
    <2> QED
      BY <1>1, <1>6, <2>1 DEF ListEdits, Edits
  <1>9. CASE updateHelmApp(t)
    <2>1. /\ task[t].op = "update" /\ helm' = helm
          /\ IF HasRow(apps, task[t].id)
             THEN apps' = WithDef(apps, task[t].id, task[t].def) /\ task' = Answered(t, Nothing)
             ELSE task' = [task EXCEPT ![t].phase = "failed"] /\ apps' = apps
      BY <1>9 DEF updateHelmApp, WithDef, Failed
    <2>2. CASE HasRow(apps, task[t].id)
      BY <1>1, <1>6, <2>1, <2>2 DEF ListEdits, Edits
    <2>3. CASE ~HasRow(apps, task[t].id)
      BY <1>1, <1>7, <2>1, <2>3 DEF ListEdits, Edits
    <2> QED
      BY <2>2, <2>3
  <1>10. CASE deleteHelmApp(t)
    <2>1. /\ task[t].op = "delete" /\ helm' = helm /\ task' = Answered(t, Nothing)
          /\ apps' = WithoutRow(apps, task[t].id)
      BY <1>10 DEF deleteHelmApp
    <2> QED
      BY <1>1, <1>6, <2>1 DEF ListEdits, Edits
  <1>11. CASE StartHelm(t)
    <2>1. /\ task[t].op \in {"install", "uninstall"} /\ apps' = apps
          /\ IF HasRow(apps, task[t].id)
             THEN /\ helm' = [helm EXCEPT ![t[2]] =
                                [op |-> task[t].op, def |-> apps[FindRow(apps, task[t].id)].def]]
                  /\ task' = [task EXCEPT ![t].phase = "running"]
             ELSE task' = [task EXCEPT ![t].phase = "failed"] /\ helm' = helm
      BY <1>11 DEF StartHelm, Failed
    <2>2. CASE HasRow(apps, task[t].id)
      BY <1>1, <1>7, <2>1, <2>2 DEF ListEdits, Edits
    <2>3. CASE ~HasRow(apps, task[t].id)
      BY <1>1, <1>7, <2>1, <2>3 DEF ListEdits, Edits
    <2> QED
      BY <2>2, <2>3
  <1> QED
    BY <1>4, <1>8, <1>9, <1>10, <1>11 DEF Serve

(* What a call that is served does to the rows of the record.               *)
LEMMA ServeRecord ==
    ASSUME AppListInv, NEW t \in Slots, Serve(t)
    PROVE  /\ apps' \in Seq(Apps) /\ DistinctIds(apps')
           /\ \A i \in AppIds : i # Subject(t) => RowsOf(apps', i) = RowsOf(apps, i)
           /\ task[t].op = "add" => RowsOf(apps', Subject(t)) = {Row(Subject(t), task[t].def)}
           /\ task[t].op = "update" =>
                 /\ RowsOf(apps', Subject(t)) = IF RowsOf(apps, Subject(t)) = {} THEN {}
                                                ELSE {Row(Subject(t), task[t].def)}
                 /\ task'[t].phase = "answered" <=> RowsOf(apps, Subject(t)) # {}
           /\ task[t].op = "delete" => RowsOf(apps', Subject(t)) = {}
  <1> USE DEF AppListInv
  <1>1. apps \in Seq(Apps) /\ DistinctIds(apps) /\ TaskOK(t) /\ Shapes
    BY DEF Shapes, TypesOK
  <1>2. CASE task[t].op \notin ListEdits
    <2>1. apps' = apps
      BY <1>1, <1>2, ServeIs
    <2> QED
      BY <1>1, <1>2, <2>1 DEF ListEdits
  <1>3. CASE task[t].op = "add"
    <2>1. apps' = Append(apps, Row(t[2], task[t].def)) /\ task[t].phase = "sent"
      BY <1>1, <1>3, ServeIs
    <2>2. Subject(t) = t[2] /\ Subject(t) \in AppIds
      BY <1>1, <1>3, SubjectForm DEF ListEdits
    <2>3. task[t].def \in Defs
      BY <1>1, <1>3, TaskForm DEF ClickTask, Edits
    <2>4. PICK r \in Apps : r = Row(t[2], task[t].def) /\ r.id = t[2]
      <3>1. Row(t[2], task[t].def) \in Apps /\ Row(t[2], task[t].def).id = t[2]
        BY <2>2, <2>3 DEF Apps, Row
      <3> QED
        BY <3>1
    <2>5. RowsOf(apps, t[2]) = {}
      BY <1>3, <2>1 DEF Fresh
    <2>6. ~HasRow(apps, r.id)
      BY <1>1, <2>4, <2>5, InRowsOf
    <2>7. /\ apps' \in Seq(Apps) /\ DistinctIds(apps')
          /\ \A i : RowsOf(apps', i) = IF i = r.id THEN RowsOf(apps, i) \cup {r} ELSE RowsOf(apps, i)
      <3>1. apps' = Append(apps, r)
        BY <2>1, <2>4
      <3>2. apps \in Seq(Apps) /\ DistinctIds(apps) /\ ~HasRow(apps, r.id)
        BY <1>1, <2>6
      <3>3. Append(apps, r) \in Seq(Apps) /\ DistinctIds(Append(apps, r))
        BY <3>2, RowAppended
      <3>4. \A i : RowsOf(Append(apps, r), i) = IF i = r.id THEN RowsOf(apps, i) \cup {r} ELSE RowsOf(apps, i)
        BY <3>2, RowAppended
      <3> QED
        BY <3>1, <3>3, <3>4
    <2>8. RowsOf(apps', Subject(t)) = {r}
      BY <2>2, <2>4, <2>5, <2>7
    <2> QED
      BY <1>3, <2>2, <2>4, <2>7, <2>8
  <1>4. CASE task[t].op = "delete"
    <2>1. apps' = WithoutRow(apps, task[t].id)
      BY <1>1, <1>4, ServeIs
    <2>2. Subject(t) = task[t].id
      BY <1>1, <1>4, SubjectForm
    <2> QED
      BY <1>1, <1>4, <2>1, <2>2, RowRemoved
  <1>5. CASE task[t].op = "update"
    <2>1. Subject(t) = task[t].id /\ task[t].def \in Defs
      BY <1>1, <1>5, SubjectForm, TaskForm DEF ClickTask, Edits
    <2>2. HasRow(apps, task[t].id) <=> RowsOf(apps, Subject(t)) # {}
      BY <1>1, <2>1, InRowsOf
    <2>3. CASE HasRow(apps, task[t].id)
      <3>1. apps' = WithDef(apps, task[t].id, task[t].def) /\ task'[t].phase = "answered"
        BY <1>1, <1>5, <2>3, ServeIs
      <3>2. WithDef(apps, task[t].id, task[t].def) \in Seq(Apps)
        BY <1>1, <2>1, <2>3, AppReplaced
      <3>3. DistinctIds(WithDef(apps, task[t].id, task[t].def))
        BY <1>1, <2>1, <2>3, AppReplaced
      <3>4. \A i : RowsOf(WithDef(apps, task[t].id, task[t].def), i) =
                     IF i = task[t].id THEN {Row(task[t].id, task[t].def)} ELSE RowsOf(apps, i)
        BY <1>1, <2>1, <2>3, AppReplaced
      <3> QED
        BY <1>5, <2>1, <2>2, <2>3, <3>1, <3>2, <3>3, <3>4
    <2>4. CASE ~HasRow(apps, task[t].id)
      <3>1. apps' = apps /\ task'[t].phase = "failed"
        BY <1>1, <1>5, <2>4, ServeIs
      <3> QED
        BY <1>1, <1>5, <2>2, <2>4, <3>1
    <2> QED
      BY <2>3, <2>4
  <1> QED
    BY <1>2, <1>3, <1>4, <1>5 DEF ListEdits

LEMMA ServeKeepsList ==
    ASSUME AppListInv, NEW t \in Slots, Serve(t), bound' = bound
    PROVE  AppListInv'
  <1> USE DEF AppListInv
  <1>1. /\ UNCHANGED <<release, pageVars, fails, raced, inDoubt>>
        /\ task[t].phase = "sent" /\ Running(t) /\ Moves(t)
        /\ task'[t].op = task[t].op /\ task'[t].phase # "sent"
        /\ TaskOK(t)' /\ TaskOK(t) /\ Shapes
    BY ServeIs DEF Shapes
  <1>2. UNCHANGED <<loaded, shown, statuses, indicator, visit, mounted, dialog, clicks>>
    BY <1>1 DEF pageVars
  <1>3. /\ apps' \in Seq(Apps) /\ DistinctIds(apps')
        /\ \A i \in AppIds : i # Subject(t) => RowsOf(apps', i) = RowsOf(apps, i)
    BY ServeRecord
  <1>4. Subject(t)' = Subject(t)
    <2>1. task[t].op \in ListEdits => task'[t].id = task[t].id
      BY <1>1, ServeIs DEF Edits, ListEdits
    <2> QED
      BY <1>1, <2>1 DEF Subject
  <1>5. RemovalInv'
    <2>1. RemovalInv
      BY <1>1 DEF Shapes
    <2> QED
      BY <1>1, <1>2, <2>1, RemovalSame
  <1>6. TypesOK'
    <2>1. DOMAIN helm' = 1..Ops
      BY <1>1, ServeIs DEF Shapes, TypesOK
    <2>2. ASSUME NEW n \in 1..Ops, helm'[n] # Nothing
          PROVE  helm'[n].op \in {"install", "uninstall"} /\ helm'[n].def \in Defs
      <3>1. CASE helm' = helm
        BY <1>1, <2>2, <3>1 DEF Shapes, TypesOK
      <3>2. CASE /\ task[t].op \in {"install", "uninstall"} /\ HasRow(apps, task[t].id)
                 /\ helm' = [helm EXCEPT ![t[2]] =
                                [op |-> task[t].op, def |-> apps[FindRow(apps, task[t].id)].def]]
        <4>1. apps \in Seq(Apps)
          BY <1>1 DEF Shapes, TypesOK
        <4>2. apps[FindRow(apps, task[t].id)] \in Apps
          BY <3>2, <4>1, RowFound, InRowsOf
        <4>3. PICK d : d = apps[FindRow(apps, task[t].id)].def
          OBVIOUS
        <4>4. d \in Defs
          BY <4>2, <4>3, AppRows
        <4>5. helm' = [helm EXCEPT ![t[2]] = [op |-> task[t].op, def |-> d]]
          BY <3>2, <4>3
        <4>6. DOMAIN helm = 1..Ops
          BY <1>1 DEF Shapes, TypesOK
        <4>7. CASE n = t[2]
          <5>1. helm'[n] = [op |-> task[t].op, def |-> d]
            BY <4>5, <4>6, <4>7
          <5> QED
            BY <3>2, <4>4, <5>1
        <4>8. CASE n # t[2]
          <5>1. helm'[n] = helm[n]
            BY <4>5, <4>6, <4>8
          <5> QED
            BY <1>1, <2>2, <5>1 DEF Shapes, TypesOK
        <4> QED
          BY <4>7, <4>8
      <3> QED
        BY <1>1, <3>1, <3>2, ServeIs
    <2> QED
      BY <1>1, <1>2, <1>3, <2>1, <2>2 DEF Shapes, TypesOK, DistinctIds
  <1>7. ASSUME loaded', ~inDoubt'
        PROVE  Sync'
    <2>1. Sync
      BY <1>1, <1>2, <1>7
    <2>2. DistinctIds(shown')
      BY <1>2, <2>1 DEF Sync
    <2>3. ASSUME Subject(t)' # Nothing
          PROVE  EditState(t)'
      <3>1. PICK s : s = Subject(t)
        OBVIOUS
      <3>2. task[t].op \in ListEdits /\ task[t].op \in Edits /\ s \in AppIds /\ EditState(t)
        BY <1>1, <1>4, <2>1, <2>3, <3>1, SubjectForm DEF Sync
      <3>3. /\ RowsOf(apps, Subject(t))' = RowsOf(apps', s) /\ RowsOf(shown, Subject(t))' = RowsOf(shown, s)
            /\ Subject(t)' = s /\ dialog'.id = dialog.id
        BY <1>2, <1>4, <3>1 DEF RowsOf
      <3>4. task'[t].def = task[t].def
        BY <1>1, <3>2, ServeIs
      <3>5. CASE task[t].op = "add"
        <4>1. RowsOf(apps', s) = {Row(s, task[t].def)}
          BY <3>1, <3>5, ServeRecord
        <4>2. dialog.id # s /\ RowsOf(shown, s) = {}
          BY <3>1, <3>2, <3>5 DEF EditState
        <4> QED
          BY <1>1, <3>3, <3>4, <3>5, <4>1, <4>2 DEF EditState
      <3>6. CASE task[t].op = "update"
        <4>1. /\ RowsOf(apps', s) = IF RowsOf(apps, s) = {} THEN {} ELSE {Row(s, task[t].def)}
              /\ task'[t].phase = "answered" <=> RowsOf(apps, s) # {}
          BY <3>1, <3>6, ServeRecord
        <4>2. RowsOf(shown, s) = IF RowsOf(apps, s) = {} THEN {} ELSE {Row(s, task[t].def)}
          BY <1>1, <3>1, <3>2, <3>6 DEF EditState
        <4>3. RowsOf(shown, s) = IF task'[t].phase = "answered" THEN RowsOf(apps', s)
                             ELSE IF RowsOf(apps', s) = {} THEN {} ELSE {Row(s, task'[t].def)}
          BY <3>4, <4>1, <4>2
        <4> QED
          BY <1>1, <3>3, <3>6, <4>3 DEF EditState
      <3>7. CASE task[t].op = "delete"
        <4>1. RowsOf(apps', s) = {} /\ task'[t].phase = "answered"
          BY <1>1, <3>1, <3>7, ServeRecord, ServeIs
        <4> QED
          BY <1>1, <3>3, <3>7, <4>1 DEF EditState
      <3> QED
        BY <3>2, <3>5, <3>6, <3>7 DEF ListEdits
    <2>4. \A i \in AppIds : i # Subject(t) =>
              RowsOf(apps', i) = RowsOf(apps, i) /\ RowsOf(shown', i) = RowsOf(shown, i)
      BY <1>2, <1>3
    <2>5. dialog'.id \in {Nothing, dialog.id}
      BY <1>2
    <2> QED
      BY <1>1, <1>4, <2>1, <2>2, <2>3, <2>4, <2>5, SyncMoves
  <1>8. apps' # apps => task[t].op \in Edits
    BY <1>1, ServeIs DEF Edits, ListEdits
  <1>9. ASSUME NEW i \in AppIds, RowsOf(apps, i) = {}
        PROVE  RowsOf(apps', i) = {} \/ (task[t].op = "add" /\ i = t[2])
    <2>1. CASE i # Subject(t)
      BY <1>3, <1>9, <2>1
    <2>2. CASE i = Subject(t)
      <3>1. task[t].op \in ListEdits
        BY <1>1, <2>2, AppBounds, SubjectForm
      <3> QED
        BY <1>1, <1>9, <2>2, <3>1, ServeRecord, SubjectForm DEF ListEdits
    <2> QED
      BY <2>1, <2>2
  <1>10. \A i \in AppIds : i > clicks => RowsOf(shown', i) = {} /\ dialog'.id # i
    BY <1>2 DEF Fresh, Unused
  <1>11. visit' \in Nat /\ clicks' = clicks
    BY <1>1, <1>2, AppBounds DEF Shapes, TypesOK
  <1>12. /\ t[1] = "click" => task[t] # Idle
         /\ task'[t].op = "add" => task'[t].phase # "sent"
         /\ task'[t].op \in Edits => task[t].op \in Edits
         /\ task'[t].op = "load" /\ task'[t].phase = "answered" => task'[t].answer = apps
    BY <1>1, ServeIs DEF Running
  <1>13. task'[t].op = "load" /\ task'[t].clean => ~EditUnderWay
    <2>1. task[t].op = "load" => task'[t].clean = task[t].clean
      BY <1>1, ServeIs
    <2> QED
      BY <1>1, <2>1 DEF CleanLoads
  <1> HIDE DEF AppListInv
  <1> QED
    BY <1>1, <1>4, <1>5, <1>6, <1>7, <1>8, <1>9, <1>10, <1>11, <1>12, <1>13, TaskMoves

(* The step of a page: it may begin to read, and the lists stay.            *)
LEMMA PageKeepsList ==
    ASSUME AppListInv, NEW t, Moves(t), TypesOK', visit' \in Nat,
           UNCHANGED <<apps, shown, loaded, indicator, clicks, inDoubt>>,
           t \in Slots => /\ t[1] # "click" /\ TaskOK(t)'
                          /\ task'[t].op \in {"load", "status"} /\ task'[t].phase = "sent"
                          /\ task'[t].op = "load" /\ task'[t].clean => ~EditUnderWay,
           \/ dialog'.id \in {Nothing, dialog.id}
           \/ dialog'.id \in AppIds /\ RowsOf(shown, dialog'.id) # {}
    PROVE  AppListInv'
  <1> USE DEF AppListInv
  <1>1. \A u \in Slots : TaskOK(u)
    BY DEF Shapes
  <1>2. t \in Slots => task[t].op \in {"idle", "dead", "load", "status"}
    BY <1>1, TaskForm, SlotForm
  <1>3. t \in Slots => Subject(t) = Nothing /\ Subject(t)' = Nothing
    BY <1>2 DEF Subject, ListEdits
  <1>4. RemovalInv'
    <2>1. RemovalInv
      BY DEF Shapes
    <2>2. t \in Slots => task[t].op \notin RemovalOps /\ task'[t].op \notin RemovalOps
      BY <1>2 DEF RemovalOps
    <2> QED
      BY <2>1, <2>2, RemovalSame
  <1>5. ASSUME NEW i \in AppIds, i > clicks
        PROVE  RowsOf(shown', i) = {} /\ dialog'.id # i
    <2>1. RowsOf(shown, i) = {} /\ dialog.id # i
      BY <1>5 DEF Fresh, Unused
    <2> QED
      BY <1>5, <2>1, AppBounds
  <1>6. ASSUME loaded', ~inDoubt'
        PROVE  Sync'
    <2>1. Sync
      BY <1>6
    <2>2. DistinctIds(shown')
      BY <2>1 DEF Sync
    <2>3. \A i \in AppIds : RowsOf(apps', i) = RowsOf(apps, i) /\ RowsOf(shown', i) = RowsOf(shown, i)
      OBVIOUS
    <2> QED
      BY <1>3, <2>1, <2>2, <2>3, SyncMoves
  <1>7. \A i \in AppIds : RowsOf(apps, i) = {} => RowsOf(apps', i) = {}
    OBVIOUS
  <1>8. t \in Slots => task'[t].op # "add" /\ task'[t].op \notin Edits /\ task'[t].phase # "answered"
    BY DEF Edits
  <1> HIDE DEF AppListInv
  <1> QED
    BY <1>3, <1>4, <1>5, <1>6, <1>7, <1>8, TaskMoves

(* A slot for the steps that move no task                                   *)
LEMMA NoSlot == <<"click", 0>> \notin Slots
  BY DEF Slots

LEMMA ReadIs ==
    /\ LoadTask(Read("load")) /\ Read("load").op = "load" /\ Read("load").phase = "sent"
    /\ Read("load").clean => ~EditUnderWay
    /\ PollTask(Read("status")) /\ Read("status").op = "status" /\ Read("status").phase = "sent"
  <1>1. EditUnderWay \in BOOLEAN
    BY DEF EditUnderWay
  <1> QED
    BY <1>1 DEF Read, LoadTask, PollTask

LEMMA OpenKeepsList ==
    ASSUME AppListInv, Open, bound' = bound
    PROVE  AppListInv'
  <1>1. /\ mounted' = TRUE /\ visit < bound.visits /\ visit' = visit + 1
        /\ task' = [task EXCEPT ![<<"load", visit + 1>>] = Read("load")]
        /\ UNCHANGED <<apps, release, helm, loaded, shown, statuses, indicator, dialog, clicks,
                       fails, raced, inDoubt>>
    BY DEF Open
  <1>2. Shapes /\ TypesOK /\ DOMAIN task = Slots
    BY DEF AppListInv, Shapes, RemovalInv
  <1>3. /\ visit \in Nat /\ bound.visits \in Nat /\ bound \in Bounds
        /\ visit + 1 \in 1..bound.visits /\ visit + 1 # 0
    BY <1>1, <1>2, AppBounds DEF TypesOK
  <1>4. PICK t \in Slots : t = <<"load", visit + 1>>
    BY <1>3 DEF Slots, AllVisits
  <1>5. Moves(t) /\ task'[t] = Read("load") /\ t[1] = "load"
    BY <1>1, <1>2, <1>4 DEF Moves
  <1>6. TaskOK(t)'
    <2>1. LoadTask(task'[t])
      BY <1>5, ReadIs
    <2> QED
      BY <1>5, <2>1 DEF TaskOK, LoadTask, DistinctIds
  <1>7. TypesOK'
    BY <1>1, <1>2, <1>3 DEF TypesOK, DistinctIds
  <1>8. task'[t].op = "load" /\ task'[t].phase = "sent" /\ (task'[t].clean => ~EditUnderWay)
    BY <1>5, ReadIs
  <1> QED
    BY <1>1, <1>3, <1>5, <1>6, <1>7, <1>8, PageKeepsList

LEMMA TickKeepsList ==
    ASSUME AppListInv, Tick, bound' = bound
    PROVE  AppListInv'
  <1>1. /\ mounted /\ task' = [task EXCEPT ![<<"poll", visit>>] = Read("status")]
        /\ UNCHANGED <<apps, release, helm, loaded, shown, statuses, indicator, visit, mounted, dialog, clicks,
                       fails, raced, inDoubt>>
    BY DEF Tick, pageVars
  <1>2. Shapes /\ TypesOK /\ DOMAIN task = Slots
    BY DEF AppListInv, Shapes, RemovalInv
  <1>3. visit \in Nat /\ visit \in 1..bound.visits /\ bound \in Bounds
    BY <1>1, <1>2, AppBounds DEF TypesOK
  <1>4. PICK t \in Slots : t = <<"poll", visit>>
    BY <1>3 DEF Slots, AllVisits
  <1>5. Moves(t) /\ task'[t] = Read("status") /\ t[1] = "poll"
    BY <1>1, <1>2, <1>4 DEF Moves
  <1>6. TaskOK(t)'
    <2>1. PollTask(task'[t])
      BY <1>5, ReadIs
    <2> QED
      BY <1>5, <2>1 DEF TaskOK, PollTask
  <1>7. TypesOK'
    BY <1>1, <1>2 DEF TypesOK, DistinctIds
  <1>8. task'[t].op = "status" /\ task'[t].phase = "sent"
    BY <1>5, ReadIs
  <1> QED
    BY <1>1, <1>3, <1>5, <1>6, <1>7, <1>8, PageKeepsList

(* The dialog opens and closes, the page is left, or nothing happens.       *)
LEMMA DialogKeepsList ==
    ASSUME AppListInv,
           UNCHANGED <<apps, release, helm, loaded, shown, statuses, indicator, visit, clicks, task,
                       fails, raced, inDoubt, bound>>,
           dialog' \in [open : BOOLEAN, id : AppIds \cup {Nothing}], mounted' \in BOOLEAN,
           dialog'.open => mounted', mounted' => mounted,
           \/ dialog'.id \in {Nothing, dialog.id}
           \/ dialog'.id \in AppIds /\ RowsOf(shown, dialog'.id) # {}
    PROVE  AppListInv'
  <1>1. Shapes /\ TypesOK /\ DOMAIN task = Slots
    BY DEF AppListInv, Shapes, RemovalInv
  <1>2. PICK t : t = <<"click", 0>>
    OBVIOUS
  <1>3. t \notin Slots /\ Moves(t)
    BY <1>1, <1>2, NoSlot DEF Moves
  <1>4. TypesOK'
    BY <1>1 DEF TypesOK, DistinctIds
  <1>5. visit' \in Nat
    BY <1>1, AppBounds DEF TypesOK
  <1> QED
    BY <1>3, <1>4, <1>5, PageKeepsList

LEMMA DialogForm ==
    /\ NoDialog \in [open : BOOLEAN, id : AppIds \cup {Nothing}] /\ NoDialog.open = FALSE /\ NoDialog.id = Nothing
  BY DEF NoDialog

LEMMA DialogStepKeepsList ==
    ASSUME AppListInv, bound' = bound, Leave \/ AddApp \/ SelectApp \/ Close \/ UNCHANGED appsVars
    PROVE  AppListInv'
  <1>1. /\ dialog \in [open : BOOLEAN, id : AppIds \cup {Nothing}] /\ mounted \in BOOLEAN
        /\ (dialog.open => mounted) /\ shown \in Seq(Apps)
    BY DEF AppListInv, Shapes, TypesOK
  <1>2. CASE Leave
    <2>1. /\ UNCHANGED <<apps, release, helm, loaded, shown, statuses, indicator, visit, clicks, task,
                         fails, raced, inDoubt, bound>>
          /\ mounted' = FALSE /\ mounted /\ dialog' = NoDialog
      BY <1>2 DEF Leave
    <2> QED
      BY <2>1, DialogForm, DialogKeepsList
  <1>3. ASSUME NEW d, SetDialog(d)
        PROVE  /\ UNCHANGED <<apps, release, helm, loaded, shown, statuses, indicator, visit, clicks, task,
                              fails, raced, inDoubt, bound>>
               /\ mounted' = mounted /\ dialog' = d
    BY <1>3 DEF SetDialog
  <1>4. CASE AddApp
    <2>1. PICK d : d = [open |-> TRUE, id |-> Nothing]
      OBVIOUS
    <2>2. SetDialog(d) /\ mounted
      BY <1>4, <2>1 DEF AddApp
    <2>3. d.id = Nothing /\ d.open = TRUE /\ d \in [open : BOOLEAN, id : AppIds \cup {Nothing}]
      BY <2>1
    <2> QED
      BY <1>1, <1>3, <2>2, <2>3, DialogKeepsList
  <1>5. CASE SelectApp
    <2>1. mounted /\ \E i \in DOMAIN shown : SetDialog([open |-> TRUE, id |-> shown[i].id])
      BY <1>5 DEF SelectApp
    <2>2. PICK i \in DOMAIN shown : SetDialog([open |-> TRUE, id |-> shown[i].id])
      BY <2>1
    <2>3. PICK d : d = [open |-> TRUE, id |-> shown[i].id]
      OBVIOUS
    <2>4. shown[i] \in Apps /\ shown[i].id \in AppIds
      BY <1>1, <2>2, InRowsOf, AppRows
    <2>5. d.id = shown[i].id /\ d.open = TRUE /\ d \in [open : BOOLEAN, id : AppIds \cup {Nothing}]
      BY <2>3, <2>4
    <2>6. RowsOf(shown, d.id) # {}
      <3>1. shown[i] \in RowsOf(shown, d.id)
        BY <2>2, <2>5 DEF RowsOf, RowsIn
      <3> QED
        BY <3>1
    <2> QED
      BY <1>1, <1>3, <2>1, <2>2, <2>3, <2>4, <2>5, <2>6, DialogKeepsList
  <1>6. CASE Close
    <2>1. SetDialog(NoDialog)
      BY <1>6 DEF Close
    <2> QED
      BY <1>1, <1>3, <2>1, DialogForm, DialogKeepsList
  <1>7. CASE UNCHANGED appsVars
    <2>1. UNCHANGED <<apps, release, helm, loaded, shown, statuses, indicator, visit, clicks, task,
                      fails, raced, inDoubt, bound, mounted, dialog>>
      BY <1>7 DEF appsVars, pageVars
    <2> QED
      BY <1>1, <2>1, DialogKeepsList
  <1> QED
    BY <1>2, <1>4, <1>5, <1>6, <1>7

(* What a call that ends leaves in its slot.                                *)
LEMMA Next1Is ==
    ASSUME NEW t \in Slots, TaskOK(t), Running(t), NEW k, k = Next1(task[t])
    PROVE  /\ k = Idle \/ (t[1] = "click" /\ ClickTask(k, t[2]) /\ k.phase = "sent" /\ k.id = task[t].id)
           /\ k.op \in {"idle", "install", "status"}
           /\ k.op = "install" => task[t].op = "update" /\ task[t].rest = <<"install", "status">>
           /\ task[t].rest = <<>> => k = Idle
  <1>1. CASE task[t].rest = <<>>
    <2>1. k = Idle
      BY <1>1 DEF Next1
    <2> QED
      BY <2>1, IdleForm
  <1>2. CASE task[t].rest # <<>>
    <2>1. t[1] = "click" /\ ClickTask(task[t], t[2])
      <3>1. task[t].op \notin {"idle", "dead"}
        BY TaskForm
      <3>2. t[1] = "click"
        BY <1>2, <3>1, SlotForm, TaskForm DEF LoadTask, PollTask
      <3> QED
        BY <3>1, <3>2, TaskForm
    <2>2. task[t].rest \in {<<"status">>, <<"install", "status">>}
      BY <1>2, <2>1 DEF ClickTask
    <2>3. task[t].op \in {"update", "install", "uninstall"}
      BY <1>2, <2>1 DEF ClickTask
    <2>4. k = [task[t] EXCEPT !.op = Head(task[t].rest), !.rest = Tail(task[t].rest), !.phase = "sent",
                              !.def = Nothing, !.answer = Nothing]
      BY <1>2 DEF Next1
    <2>5. task[t].id \in AppIds
      BY <2>1, <2>3 DEF ClickTask
    <2>6. CASE task[t].rest = <<"status">>
      <3>1. Head(task[t].rest) = "status" /\ Tail(task[t].rest) = <<>>
        BY <2>6
      <3>2. k = [task[t] EXCEPT !.op = "status", !.rest = <<>>, !.phase = "sent",
                                !.def = Nothing, !.answer = Nothing]
        BY <2>4, <3>1
      <3>3. ClickTask(k, t[2]) /\ k.phase = "sent" /\ k.id = task[t].id /\ k.op = "status"
        BY <2>1, <2>5, <3>2 DEF ClickTask
      <3> QED
        BY <1>2, <2>1, <3>3
    <2>7. CASE task[t].rest = <<"install", "status">>
      <3>1. Head(task[t].rest) = "install" /\ Tail(task[t].rest) = <<"status">>
        BY <2>7
      <3>2. k = [task[t] EXCEPT !.op = "install", !.rest = <<"status">>, !.phase = "sent",
                                !.def = Nothing, !.answer = Nothing]
        BY <2>4, <3>1
      <3>3. ClickTask(k, t[2]) /\ k.phase = "sent" /\ k.id = task[t].id /\ k.op = "install"
        BY <2>1, <2>5, <3>2 DEF ClickTask
      <3>4. task[t].op = "update"
        BY <2>1, <2>3, <2>7 DEF ClickTask
      <3> QED
        BY <1>2, <2>1, <2>7, <3>3, <3>4
    <2> QED
      BY <2>2, <2>6, <2>7
  <1> QED
    BY <1>1, <1>2

(* A call ends, and another may follow it.                                  *)
LEMMA EndKeepsList ==
    ASSUME AppListInv, NEW t \in Slots, Running(t), Moves(t), TypesOK',
           task'[t] = Next1(task[t]) \/ task'[t] \in {Idle, Dead},
           indicator' = Lowered(task[t].op),
           UNCHANGED <<apps, visit, clicks>>,
           \A i \in AppIds : i > clicks => RowsOf(shown', i) = {} /\ dialog'.id # i,
           loaded' /\ ~inDoubt' => Sync'
    PROVE  AppListInv'
  <1>1. Shapes /\ TaskOK(t)
    BY DEF AppListInv, Shapes
  <1>2. /\ task'[t].op \in {"idle", "dead", "install", "status"}
        /\ task'[t].op = "install" => task[t].op = "update"
        /\ TaskOK(t)'
    <2>1. CASE task'[t] \in {Idle, Dead}
      <3>1. TaskOK(t)'
        BY <2>1 DEF TaskOK, Idle, Dead
      <3> QED
        BY <2>1, <3>1, IdleForm
    <2>2. CASE task'[t] = Next1(task[t])
      <3>1. PICK k : k = Next1(task[t])
        OBVIOUS
      <3>2. /\ k = Idle \/ (t[1] = "click" /\ ClickTask(k, t[2]))
            /\ k.op \in {"idle", "install", "status"}
            /\ k.op = "install" => task[t].op = "update"
        BY <1>1, <3>1, Next1Is
      <3>3. task'[t] = k
        BY <2>2, <3>1
      <3>4. CASE k = Idle
        <4>1. TaskOK(t)'
          BY <3>3, <3>4 DEF TaskOK, Idle
        <4> QED
          BY <3>2, <3>3, <4>1
      <3>5. CASE t[1] = "click" /\ ClickTask(k, t[2])
        <4>1. TaskOK(t)'
          BY <3>3, <3>5 DEF TaskOK, ClickTask
        <4> QED
          BY <3>2, <3>3, <4>1
      <3> QED
        BY <3>2, <3>4, <3>5
    <2> QED
      BY <2>1, <2>2
  <1>3. Subject(t)' = Nothing
    BY <1>2 DEF Subject, ListEdits
  <1>4. RemovalInv'
    <2>1. RemovalInv /\ task'[t].op \notin RemovalOps
      BY <1>1, <1>2 DEF Shapes, RemovalOps
    <2> QED
      BY <2>1, RemovalEnds
  <1>5. visit' \in Nat
    BY <1>1, AppBounds DEF Shapes, TypesOK
  <1>6. \A i \in AppIds : RowsOf(apps, i) = {} => RowsOf(apps', i) = {}
    OBVIOUS
  <1>7. task'[t].op \in Edits => task[t].op \in Edits
    BY <1>2 DEF Edits
  <1>8. task[t] # Idle /\ task'[t].op # "add" /\ task'[t].op # "load"
    BY <1>2 DEF Running
  <1> QED
    BY <1>2, <1>3, <1>4, <1>5, <1>6, <1>7, <1>8, TaskMoves

LEMMA RejectKeepsList ==
    ASSUME AppListInv, NEW t \in Slots, Reject(t), bound' = bound
    PROVE  AppListInv'
  <1> DEFINE k == task[t]
  <1>1. /\ Running(t)
        /\ task' = [task EXCEPT ![t] = IF k.op = "install" THEN Next1(k)
                                       ELSE IF t[1] = "poll" THEN Dead ELSE Idle]
        /\ indicator' = Lowered(task[t].op)
        /\ UNCHANGED <<apps, release, helm, loaded, shown, statuses, visit, clicks, raced>>
        /\ fails' = fails \/ (fails < bound.fails /\ fails' = fails + 1)
        /\ \/ mounted' = FALSE /\ dialog' = NoDialog
           \/ UNCHANGED <<mounted, dialog>>
        /\ inDoubt' = \/ inDoubt
                      \/ k.op = "update" /\ k.phase # "answered"
                      \/ k.op \in {"add", "delete"} /\ k.phase = "answered"
    BY DEF Reject
  <1>2. Shapes /\ TaskOK(t) /\ DOMAIN task = Slots /\ TypesOK
    BY DEF AppListInv, Shapes, RemovalInv
  <1>3. Moves(t) /\ (task'[t] = Next1(task[t]) \/ task'[t] \in {Idle, Dead})
    BY <1>1, <1>2 DEF Moves
  <1>4. /\ dialog' \in [open : BOOLEAN, id : AppIds \cup {Nothing}] /\ mounted' \in BOOLEAN
        /\ (dialog'.open => mounted') /\ (mounted' => mounted)
        /\ dialog'.id \in {Nothing, dialog.id}
    <2>1. CASE mounted' = FALSE /\ dialog' = NoDialog
      BY <2>1, DialogForm
    <2>2. CASE UNCHANGED <<mounted, dialog>>
      BY <1>2, <2>2 DEF TypesOK
    <2> QED
      BY <1>1, <2>1, <2>2
  <1>5. TypesOK'
    <2>1. fails' \in 0..bound.fails
      BY <1>1, <1>2, AppBounds DEF TypesOK
    <2>2. inDoubt' \in BOOLEAN
      BY <1>1, <1>2 DEF TypesOK
    <2>3. /\ apps \in Seq(Apps) /\ shown \in Seq(Apps) /\ DistinctIds(apps)
          /\ release \in [Releases -> Defs \cup {Nothing}]
          /\ DOMAIN helm = 1..Ops
          /\ \A n \in 1..Ops : helm[n] # Nothing => helm[n].op \in {"install", "uninstall"} /\ helm[n].def \in Defs
          /\ statuses \in StatusList
          /\ loaded \in BOOLEAN /\ raced \in BOOLEAN
          /\ bound \in Bounds /\ visit \in 0..bound.visits /\ clicks \in 0..Ops
          /\ mounted => visit # 0
          /\ clicks # 0 => loaded
      BY <1>2 DEF TypesOK
    <2>4. DistinctIds(apps)'
      BY <1>1, <2>3 DEF DistinctIds
    <2> HIDE DEF k
    <2> QED
      BY <1>1, <1>4, <2>1, <2>2, <2>3, <2>4 DEF TypesOK
  <1>6. \A i \in AppIds : i > clicks => RowsOf(shown', i) = {} /\ dialog'.id # i
    <2>1. \A i \in AppIds : i > clicks => RowsOf(shown, i) = {} /\ dialog.id # i
      BY DEF AppListInv, Fresh, Unused
    <2> QED
      BY <1>1, <1>4, <2>1, AppBounds
  <1>7. ASSUME loaded', ~inDoubt'
        PROVE  Sync'
    <2>1. Sync
      BY <1>1, <1>7 DEF AppListInv
    <2>2. Subject(t)' = Nothing
      <3>1. task'[t].op \in {"idle", "dead", "install", "status"}
        <4>1. PICK c : c = Next1(task[t])
          OBVIOUS
        <4>2. c.op \in {"idle", "install", "status"}
          BY <1>1, <1>2, <4>1, Next1Is
        <4> QED
          BY <1>3, <4>1, <4>2, IdleForm
      <3> QED
        BY <3>1 DEF Subject, ListEdits
    <2>3. DistinctIds(shown')
      BY <1>1, <2>1 DEF Sync
    <2>4. ASSUME Subject(t) # Nothing
          PROVE  RowsOf(shown', Subject(t)) = RowsOf(apps', Subject(t))
      <3>1. k.op \in ListEdits /\ EditState(t) /\ ClickTask(k, t[2])
        BY <1>2, <2>1, <2>4, SubjectForm, TaskForm DEF Sync
      <3>2. CASE k.op = "add"
        <4>1. k.phase = "sent"
          BY <1>1, <1>7, <3>1, <3>2 DEF ClickTask
        <4>2. RowsOf(apps, t[2]) = {} /\ Subject(t) = t[2]
          BY <1>2, <3>2, <4>1, SubjectForm DEF AppListInv, Fresh
        <4> QED
          BY <1>1, <3>1, <3>2, <4>2 DEF EditState
      <3>3. CASE k.op = "update"
        BY <1>1, <1>7, <3>1, <3>3 DEF EditState
      <3>4. CASE k.op = "delete"
        BY <1>1, <1>7, <3>1, <3>4 DEF EditState
      <3> QED
        BY <3>1, <3>2, <3>3, <3>4 DEF ListEdits
    <2>5. \A i \in AppIds : RowsOf(apps', i) = RowsOf(apps, i) /\ RowsOf(shown', i) = RowsOf(shown, i)
      BY <1>1
    <2> QED
      BY <1>3, <1>4, <2>1, <2>2, <2>3, <2>4, <2>5, SyncMoves
  <1> QED
    BY <1>1, <1>3, <1>5, <1>6, <1>7, EndKeepsList

(* What each answer does to the page.                                       *)
LEMMA AnswerIs ==
    ASSUME NEW t, Answer(t)
    PROVE  /\ Running(t) /\ task[t].phase = "answered"
           /\ task' = [task EXCEPT ![t] = Next1(task[t])]
           /\ indicator' = Lowered(task[t].op)
           /\ UNCHANGED <<apps, release, helm, visit, mounted, clicks, fails, raced>>
           /\ task[t].op = "load" => loadProject(task[t])
           /\ task[t].op = "status" => updateAppsStatus(task[t])
           /\ task[t].op = "add" => addHelmChart(task[t])
           /\ task[t].op = "delete" => deleteHelmChart(task[t])
           /\ task[t].op \notin {"load", "status", "add", "delete"} =>
                 UNCHANGED <<loaded, shown, statuses, dialog, inDoubt>>
  BY DEF Answer

(* The rows that are shown afterwards                                       *)
LEMMA AnswerShows ==
    ASSUME AppListInv, NEW t \in Slots, Answer(t)
    PROVE  /\ shown' \in Seq(Apps) /\ statuses' \in StatusList
           /\ loaded' \in BOOLEAN /\ (loaded => loaded') /\ inDoubt' \in BOOLEAN
           /\ dialog' \in [open : BOOLEAN, id : AppIds \cup {Nothing}] /\ (dialog'.open => dialog.open)
           /\ task[t].op = "load" => shown' = task[t].answer /\ loaded' /\ inDoubt' = ~task[t].clean
           /\ task[t].op # "load" => loaded' = loaded /\ inDoubt' = inDoubt
           /\ task[t].op = "add" =>
                 /\ RowsOf(shown', t[2]) = RowsOf(shown, t[2]) \cup {Row(t[2], task[t].def)}
                 /\ \A i \in AppIds : i # t[2] => RowsOf(shown', i) = RowsOf(shown, i)
                 /\ DistinctIds(shown) /\ RowsOf(shown, t[2]) = {} => DistinctIds(shown')
           /\ task[t].op = "delete" =>
                 /\ RowsOf(shown', task[t].id) = {}
                 /\ \A i \in AppIds : i # task[t].id => RowsOf(shown', i) = RowsOf(shown, i)
                 /\ DistinctIds(shown) => DistinctIds(shown')
           /\ task[t].op \notin {"load", "add", "delete"} => shown' = shown
           /\ \/ dialog'.id \in {Nothing, dialog.id}
              \/ task[t].op = "add" /\ dialog'.id = t[2]
  <1> DEFINE k == task[t]
  <1>1. TaskOK(t) /\ TypesOK
    BY DEF AppListInv, Shapes
  <1>2. /\ shown \in Seq(Apps) /\ statuses \in StatusList /\ loaded \in BOOLEAN /\ inDoubt \in BOOLEAN
        /\ dialog \in [open : BOOLEAN, id : AppIds \cup {Nothing}]
    BY <1>1 DEF TypesOK
  <1>3. k.phase = "answered"
    BY AnswerIs
  <1>4. CASE k.op = "load"
    <2>1. loadProject(k) /\ LoadTask(k)
      BY <1>1, <1>4, AnswerIs, TaskForm
    <2> QED
      BY <1>2, <1>3, <1>4, <2>1 DEF loadProject, LoadTask
  <1>5. CASE k.op = "status"
    <2>1. updateAppsStatus(k) /\ k.answer \in StatusList
      BY <1>1, <1>3, <1>5, AnswerIs, TaskForm DEF PollTask, ClickTask
    <2> QED
      BY <1>2, <1>5, <2>1 DEF updateAppsStatus
  <1>6. CASE k.op = "add"
    <2>1. addHelmChart(k) /\ ClickTask(k, t[2]) /\ t[2] \in 1..Ops
      BY <1>1, <1>6, AnswerIs, TaskForm DEF Edits
    <2>2. k.answer = t[2] /\ k.def \in Defs /\ t[2] \in AppIds
      BY <1>3, <1>6, <2>1, AppBounds DEF ClickTask
    <2>3. PICK r \in Apps : r = Row(t[2], k.def) /\ r.id = t[2]
      <3>1. Row(t[2], k.def) \in Apps /\ Row(t[2], k.def).id = t[2]
        BY <2>2 DEF Apps, Row
      <3> QED
        BY <3>1
    <2>4. shown' = Append(shown, r)
      BY <2>1, <2>2, <2>3 DEF addHelmChart, Row
    <2>5. Append(shown, r) \in Seq(Apps)
      BY <1>2, RowAppended
    <2>6. \A i : RowsOf(Append(shown, r), i) = IF i = r.id THEN RowsOf(shown, i) \cup {r} ELSE RowsOf(shown, i)
      BY <1>2, RowAppended
    <2>7. DistinctIds(shown) /\ ~HasRow(shown, r.id) => DistinctIds(Append(shown, r))
      BY <1>2, RowAppended
    <2>8. HasRow(shown, r.id) <=> RowsOf(shown, r.id) # {}
      BY <1>2, InRowsOf
    <2>9. /\ dialog' \in [open : BOOLEAN, id : AppIds \cup {Nothing}] /\ (dialog'.open => dialog.open)
          /\ dialog'.id = dialog.id \/ dialog'.id = t[2]
      <3>1. dialog' = dialog \/ dialog' = [dialog EXCEPT !.id = t[2]]
        BY <2>1, <2>2 DEF addHelmChart
      <3> QED
        BY <1>2, <2>2, <3>1
    <2>10. UNCHANGED <<loaded, statuses, inDoubt>>
      BY <2>1 DEF addHelmChart
    <2> QED
      BY <1>2, <1>6, <2>3, <2>4, <2>5, <2>6, <2>7, <2>8, <2>9, <2>10
  <1>7. CASE k.op = "delete"
    <2>1. deleteHelmChart(k)
      BY <1>7, AnswerIs
    <2>2. shown' = WithoutRow(shown, k.id) /\ UNCHANGED <<loaded, statuses, inDoubt>>
      BY <2>1 DEF deleteHelmChart
    <2>3. dialog' = NoDialog \/ dialog' = dialog
      BY <2>1 DEF deleteHelmChart
    <2>4. /\ dialog' \in [open : BOOLEAN, id : AppIds \cup {Nothing}] /\ (dialog'.open => dialog.open)
          /\ dialog'.id \in {Nothing, dialog.id}
      BY <1>2, <2>3, DialogForm
    <2>5. PICK id : id = k.id
      OBVIOUS
    <2>6. /\ WithoutRow(shown, id) \in Seq(Apps)
          /\ \A i : RowsOf(WithoutRow(shown, id), i) = IF i = id THEN {} ELSE RowsOf(shown, i)
          /\ DistinctIds(shown) => DistinctIds(WithoutRow(shown, id))
      BY <1>2, RowRemoved
    <2> QED
      BY <1>2, <1>7, <2>2, <2>4, <2>5, <2>6
  <1>8. CASE k.op \notin {"load", "status", "add", "delete"}
    BY <1>2, <1>8, AnswerIs
  <1> QED
    BY <1>4, <1>5, <1>6, <1>7, <1>8

LEMMA AnswerKeepsList ==
    ASSUME AppListInv, NEW t \in Slots, Answer(t), bound' = bound
    PROVE  AppListInv'
  <1> DEFINE k == task[t]
  <1>1. /\ Running(t) /\ k.phase = "answered"
        /\ task' = [task EXCEPT ![t] = Next1(task[t])]
        /\ indicator' = Lowered(task[t].op)
        /\ UNCHANGED <<apps, release, helm, visit, mounted, clicks, fails, raced>>
    BY AnswerIs
  <1>2. Shapes /\ TaskOK(t) /\ DOMAIN task = Slots /\ TypesOK
    BY DEF AppListInv, Shapes, RemovalInv
  <1>3. Moves(t) /\ task'[t] = Next1(task[t])
    BY <1>1, <1>2 DEF Moves
  <1>4. TypesOK'
    <2>1. /\ shown' \in Seq(Apps) /\ statuses' \in StatusList
          /\ loaded' \in BOOLEAN /\ (loaded => loaded') /\ inDoubt' \in BOOLEAN
          /\ dialog' \in [open : BOOLEAN, id : AppIds \cup {Nothing}] /\ (dialog'.open => dialog.open)
      BY AnswerShows
    <2> QED
      BY <1>1, <1>2, <2>1 DEF TypesOK, DistinctIds
  <1>5. ASSUME NEW i \in AppIds, i > clicks
        PROVE  RowsOf(shown', i) = {} /\ dialog'.id # i
    <2>1. Unused(i)
      BY <1>5 DEF AppListInv, Fresh
    <2>2. RowsOf(shown, i) = {} /\ dialog.id # i /\ Subject(t) # i
      BY <2>1 DEF Unused
    <2>3. k.op = "add" => i # t[2]
      BY <1>2, <2>2, SubjectForm
    <2>4. dialog'.id # i
      <3>1. \/ dialog'.id \in {Nothing, dialog.id}
            \/ k.op = "add" /\ dialog'.id = t[2]
        BY AnswerShows
      <3> QED
        BY <1>5, <2>2, <2>3, <3>1, AppBounds
    <2>5. RowsOf(shown', i) = {}
      <3>1. CASE k.op = "load"
        BY <1>1, <2>1, <3>1, AnswerShows DEF Unused
      <3>2. CASE k.op = "add"
        BY <1>5, <2>2, <2>3, <3>2, AnswerShows
      <3>3. CASE k.op = "delete"
        <4>1. /\ RowsOf(shown', k.id) = {}
              /\ \A j \in AppIds : j # k.id => RowsOf(shown', j) = RowsOf(shown, j)
          BY <3>3, AnswerShows
        <4> QED
          BY <1>5, <2>2, <4>1
      <3>4. CASE k.op \notin {"load", "add", "delete"}
        BY <2>2, <3>4, AnswerShows
      <3> QED
        BY <3>1, <3>2, <3>3, <3>4
    <2> QED
      BY <2>4, <2>5
  <1>6. Subject(t)' = Nothing
    <2>1. PICK c : c = Next1(task[t])
      OBVIOUS
    <2>2. c.op \in {"idle", "install", "status"}
      BY <1>1, <1>2, <2>1, Next1Is
    <2> QED
      BY <1>3, <2>1, <2>2 DEF Subject, ListEdits
  <1>7. ASSUME k.op = "load", loaded', ~inDoubt'
        PROVE  Sync'
    <2>1. shown' = k.answer /\ k.clean
      <3>1. LoadTask(k)
        BY <1>2, <1>7, TaskForm
      <3> QED
        BY <1>7, <3>1, AnswerShows DEF LoadTask
    <2>2. ~EditUnderWay /\ k.answer = apps
      BY <1>1, <1>7, <2>1 DEF AppListInv, CleanLoads
    <2>3. shown' = apps /\ apps' = apps /\ DistinctIds(apps)
      BY <1>1, <1>2, <2>1, <2>2 DEF TypesOK
    <2>4. ASSUME NEW u \in Slots
          PROVE  Subject(u)' = Nothing
      <3>1. CASE u = t
        BY <1>6, <3>1
      <3>2. CASE u # t
        <4>1. TaskOK(u) /\ task'[u] = task[u]
          BY <1>2, <1>3, <3>2 DEF Shapes, Moves
        <4>2. task[u].op \notin Edits
          <5>1. task[u].op \in Edits => Running(u)
            BY <4>1, TaskForm DEF Edits
          <5> QED
            BY <2>2, <5>1 DEF EditUnderWay
        <4> QED
          BY <4>1, <4>2 DEF Subject, ListEdits, Edits
      <3> QED
        BY <3>1, <3>2
    <2>5. DistinctIds(shown)' /\ \A i \in AppIds : RowsOf(shown, i)' = RowsOf(apps, i)'
      BY <2>3 DEF DistinctIds, RowsOf, RowsIn
    <2> QED
      BY <2>4, <2>5 DEF Sync
  <1>8. ASSUME k.op # "load", loaded', ~inDoubt'
        PROVE  Sync'
    <2>1. Sync
      BY <1>8, AnswerShows DEF AppListInv
    <2>2. \/ dialog'.id \in {Nothing, dialog.id}
          \/ k.op = "add" /\ dialog'.id = t[2]
      BY AnswerShows
    <2>3. PICK s : s = Subject(t)
      OBVIOUS
    <2>4. s # Nothing => k.op \in ListEdits /\ EditState(t) /\ s \in AppIds
      BY <1>2, <2>1, <2>3, SubjectForm DEF Sync
    <2>5. /\ DistinctIds(shown')
          /\ \A i \in AppIds : i # s => RowsOf(shown', i) = RowsOf(shown, i)
          /\ s # Nothing => RowsOf(shown', s) = RowsOf(apps, s)
      <3>1. CASE k.op = "add"
        <4>1. s = t[2] /\ s # Nothing
          BY <1>2, <2>3, <3>1, SubjectForm DEF ListEdits
        <4>2. RowsOf(shown, s) = {} /\ RowsOf(apps, s) = {Row(s, k.def)}
          BY <1>1, <2>3, <2>4, <3>1, <4>1 DEF EditState
        <4>3. RowsOf(shown', s) = {} \cup {Row(s, k.def)}
          BY <3>1, <4>1, <4>2, AnswerShows
        <4>4. DistinctIds(shown)
          BY <2>1 DEF Sync
        <4> QED
          BY <3>1, <4>1, <4>2, <4>3, <4>4, AnswerShows
      <3>2. CASE k.op = "delete"
        <4>1. s = k.id /\ s # Nothing
          BY <1>2, <2>3, <3>2, SubjectForm DEF ListEdits
        <4>2. RowsOf(apps, s) = {}
          BY <1>1, <2>3, <2>4, <3>2, <4>1 DEF EditState
        <4>3. DistinctIds(shown)
          BY <2>1 DEF Sync
        <4> QED
          BY <3>2, <4>1, <4>2, <4>3, AnswerShows
      <3>3. CASE k.op \notin {"add", "delete"}
        <4>1. shown' = shown
          BY <1>8, <3>3, AnswerShows
        <4>2. s # Nothing => RowsOf(shown, s) = RowsOf(apps, s)
          BY <1>1, <2>3, <2>4, <3>3 DEF EditState, ListEdits
        <4> QED
          BY <2>1, <4>1, <4>2 DEF Sync
      <3> QED
        BY <3>1, <3>2, <3>3
    <2> HIDE DEF k
    <2>6. \A i \in AppIds : i # Subject(t) =>
              RowsOf(apps', i) = RowsOf(apps, i) /\ RowsOf(shown', i) = RowsOf(shown, i)
      BY <1>1, <2>3, <2>5
    <2>7. Subject(t) # Nothing => RowsOf(shown', Subject(t)) = RowsOf(apps', Subject(t))
      BY <1>1, <2>3, <2>5
    <2>8. \/ dialog'.id \in {Nothing, dialog.id}
          \/ task[t].op = "add" /\ dialog'.id = t[2]
      BY <2>2 DEF k
    <2> QED
      BY <1>3, <1>6, <2>1, <2>5, <2>6, <2>7, <2>8, SyncMoves
  <1> QED
    BY <1>1, <1>3, <1>4, <1>5, <1>7, <1>8, EndKeepsList

(* A Helm command ends; the browser may wait for it.                        *)
LEMMA HelmKeepsList ==
    ASSUME AppListInv, NEW n \in 1..Ops, HelmEnds(n), bound' = bound
    PROVE  AppListInv'
  <1>1. PICK t \in Slots : t = <<"click", n>>
    BY DEF Slots
  <1>2. /\ helm[n] # Nothing /\ helm' = [helm EXCEPT ![n] = Nothing]
        /\ UNCHANGED <<apps, loaded, shown, statuses, indicator, visit, mounted, dialog, clicks, raced, inDoubt>>
    BY DEF HelmEnds, pageVars
  <1>3. /\ release' \in {release} \cup {[release EXCEPT ![Release(helm[n].def)] = d] : d \in {helm[n].def, Nothing}}
        /\ fails' = fails \/ (fails < bound.fails /\ fails' = fails + 1)
        /\ \/ task' = task
           \/ \E p \in {"answered", "failed"} :
                 /\ task[t].op = helm[n].op /\ task[t].phase = "running"
                 /\ task' = [task EXCEPT ![t].phase = p]
    BY <1>1 DEF HelmEnds
  <1>4. Shapes /\ TaskOK(t) /\ DOMAIN task = Slots /\ TypesOK
    BY DEF AppListInv, Shapes, RemovalInv
  <1>5. TypesOK'
    <2>1. release' \in [Releases -> Defs \cup {Nothing}]
      <3>1. PICK d : d = helm[n].def
        OBVIOUS
      <3>2. d \in Defs
        BY <1>2, <1>4, <3>1 DEF TypesOK
      <3>3. release' \in {release} \cup {[release EXCEPT ![Release(d)] = e] : e \in {d, Nothing}}
        BY <1>3, <3>1
      <3>4. Release(d) \in Releases /\ release \in [Releases -> Defs \cup {Nothing}]
        BY <1>4, <3>2 DEF TypesOK, Releases
      <3> QED
        BY <3>2, <3>3, <3>4
    <2>2. fails' \in 0..bound.fails
      BY <1>3, <1>4, AppBounds DEF TypesOK
    <2>3. DOMAIN helm' = 1..Ops /\ \A m \in 1..Ops : helm'[m] # Nothing => helm'[m] = helm[m]
      BY <1>2, <1>4 DEF TypesOK
    <2> QED
      BY <1>2, <1>4, <2>1, <2>2, <2>3 DEF TypesOK, DistinctIds
  <1>6. visit' \in Nat
    BY <1>2, <1>4, AppBounds DEF TypesOK
  <1>7. \A i \in AppIds : RowsOf(apps', i) = RowsOf(apps, i) /\ RowsOf(shown', i) = RowsOf(shown, i)
    BY <1>2
  <1>8. \A i \in AppIds : i > clicks => RowsOf(shown', i) = {} /\ dialog'.id # i
    BY <1>2 DEF AppListInv, Fresh, Unused
  <1>9. CASE task' = task
    <2>1. PICK u : u = <<"click", 0>>
      OBVIOUS
    <2>2. u \notin Slots /\ Moves(u)
      BY <1>4, <1>9, <2>1, NoSlot DEF Moves
    <2> QED
      BY <1>2, <1>5, <1>6, <2>2, PageKeepsList
  <1>10. ASSUME NEW p \in {"answered", "failed"}, task[t].op = helm[n].op, task[t].phase = "running",
                task' = [task EXCEPT ![t].phase = p]
         PROVE  AppListInv'
    <2>1. task[t].op \in {"install", "uninstall"}
      BY <1>2, <1>4, <1>10 DEF TypesOK
    <2>2. ClickTask(task[t], t[2]) /\ t[1] = "click"
      BY <1>4, <2>1, TaskForm DEF Edits
    <2>3. Moves(t) /\ task'[t] = [task[t] EXCEPT !.phase = p]
      BY <1>4, <1>10 DEF Moves
    <2>4. ClickTask(task'[t], t[2]) /\ task'[t].op = task[t].op
      BY <2>1, <2>2, <2>3 DEF ClickTask
    <2>5. TaskOK(t)'
      BY <2>2, <2>4 DEF TaskOK, ClickTask
    <2>6. Subject(t) = Nothing /\ Subject(t)' = Nothing
      BY <2>1, <2>4 DEF Subject, ListEdits
    <2>7. RemovalInv'
      <3>1. RemovalInv
        BY <1>4 DEF Shapes
      <3> QED
        BY <1>2, <2>3, <2>4, <3>1, RemovalSame
    <2>8. ASSUME loaded', ~inDoubt'
          PROVE  Sync'
      <3>1. Sync
        BY <1>2, <2>8 DEF AppListInv
      <3>2. DistinctIds(shown') /\ dialog'.id = dialog.id
        BY <1>2, <3>1 DEF Sync
      <3> QED
        BY <1>7, <2>3, <2>6, <3>1, <3>2, SyncMoves
    <2>9. /\ task[t] # Idle /\ task'[t].op # "add" /\ task'[t].op # "load"
          /\ task'[t].op \in Edits => task[t].op \in Edits
      BY <2>1, <2>4, IdleForm DEF Edits
    <2>10. \A i \in AppIds : RowsOf(apps, i) = {} => RowsOf(apps', i) = {}
      BY <1>7
    <2> QED
      BY <1>2, <1>5, <1>6, <1>8, <2>3, <2>5, <2>6, <2>7, <2>8, <2>9, <2>10, TaskMoves
  <1> QED
    BY <1>3, <1>9, <1>10

(* What a button of the dialog asks for                                     *)
ClickForm(op, d, rest) ==
    /\ op = "add" <=> dialog.id = Nothing
    /\ op \in {"add", "update"} => d \in Defs
    /\ op \in {"add", "delete"} => rest = <<>>
    /\ op = "uninstall" => rest = <<"status">>
    /\ op = "update" => rest \in {<<>>, <<"install", "status">>}

(* What a click changes: its own slot, and that loads are no longer clean.  *)
Taken(op, d, s) ==
    /\ s \in Slots /\ s[1] = "click" /\ s[2] = clicks + 1 /\ s[2] \in AppIds
    /\ clicks' = clicks + 1 /\ clicks' \in 0..Ops
    /\ loaded /\ ~anyOperationInProgress
    /\ UNCHANGED <<apps, release, helm, loaded, statuses, visit, mounted, dialog, fails>>
    /\ task[s] = Idle /\ TaskOK(s)' /\ DOMAIN task' = Slots
    /\ task'[s].op = op /\ task'[s].id = dialog.id /\ task'[s].def = d /\ task'[s].phase = "sent"
    /\ \A u \in Slots : u # s =>
          /\ task'[u].op = task[u].op /\ TaskOK(u)'
          /\ task[u].op # "load" => task'[u] = task[u]
          /\ task[u].op = "load" =>
                /\ task'[u].phase = task[u].phase /\ task'[u].answer = task[u].answer
                /\ task'[u].clean = FALSE
    /\ ~inDoubt' => ~inDoubt /\ ~Overlaps(dialog.id)
    /\ inDoubt' \in BOOLEAN

LEMMA ClickTaken ==
    ASSUME AppListInv, NEW op \in {"add", "update", "uninstall", "delete"}, NEW d, NEW rest, NEW submit,
           Click(op, d, rest, submit), ClickForm(op, d, rest),
           NEW s, s = <<"click", clicks + 1>>
    PROVE  Taken(op, d, s)
  <1>1. /\ dialog.open /\ ~anyOperationInProgress /\ clicks < Ops /\ clicks' = clicks + 1
        /\ UNCHANGED <<apps, release, helm, loaded, statuses, visit, mounted, dialog, fails>>
        /\ inDoubt' = (inDoubt \/ Overlaps(dialog.id))
        /\ task' = [t \in Slots |->
                  IF t = <<"click", clicks + 1>> THEN Call(op, dialog.id, d, rest, submit)
                  ELSE IF Running(t) /\ task[t].op = "load" THEN [task[t] EXCEPT !.clean = FALSE]
                  ELSE task[t]]
    BY DEF Click
  <1>2. /\ clicks \in 0..Ops /\ dialog.id \in AppIds \cup {Nothing} /\ inDoubt \in BOOLEAN
        /\ \A u \in Slots : TaskOK(u)
    BY DEF AppListInv, Shapes, TypesOK
  <1>3. s \in Slots /\ s[1] = "click" /\ s[2] = clicks + 1 /\ s[2] \in 1..Ops /\ s[2] \in AppIds /\ clicks' \in 0..Ops
    BY <1>1, <1>2, AppBounds DEF Slots
  <1>4. loaded
    BY <1>1 DEF anyOperationInProgress
  <1>5. task[s] = Idle
    BY <1>2, <1>3, AppBounds DEF AppListInv, Fresh
  <1>6. /\ task'[s] = Call(op, dialog.id, d, rest, submit)
        /\ \A u \in Slots : u # s =>
              task'[u] = IF Running(u) /\ task[u].op = "load" THEN [task[u] EXCEPT !.clean = FALSE] ELSE task[u]
    BY <1>1, <1>3
  <1>7. ClickTask(task'[s], s[2])
    BY <1>2, <1>6 DEF ClickForm, ClickTask, Call
  <1>8. TaskOK(s)'
    BY <1>3, <1>7 DEF TaskOK, ClickTask
  <1>9. task'[s].op = op /\ task'[s].id = dialog.id /\ task'[s].def = d /\ task'[s].phase = "sent"
    BY <1>6 DEF Call
  <1>10. ASSUME NEW u \in Slots, u # s
         PROVE  /\ task'[u].op = task[u].op /\ TaskOK(u)'
                /\ task[u].op # "load" => task'[u] = task[u]
                /\ task[u].op = "load" =>
                      /\ task'[u].phase = task[u].phase /\ task'[u].answer = task[u].answer
                      /\ task'[u].clean = FALSE
    <2>1. TaskOK(u)
      BY <1>2
    <2>2. CASE task[u].op = "load"
      <3>1. LoadTask(task[u]) /\ u[1] = "load" /\ Running(u)
        BY <2>1, <2>2, TaskForm
      <3>2. task'[u] = [task[u] EXCEPT !.clean = FALSE]
        BY <1>6, <1>10, <2>2, <3>1
      <3>3. LoadTask(task'[u])
        BY <3>1, <3>2 DEF LoadTask
      <3>4. TaskOK(u)'
        BY <3>1, <3>3 DEF TaskOK, LoadTask, DistinctIds
      <3> QED
        BY <2>2, <3>1, <3>2, <3>4 DEF LoadTask
    <2>3. CASE task[u].op # "load"
      <3>1. task'[u] = task[u]
        BY <1>6, <1>10, <2>3
      <3>2. TaskOK(u)'
        BY <2>1, <3>1 DEF TaskOK, LoadTask, PollTask, ClickTask, DistinctIds
      <3> QED
        BY <2>3, <3>1, <3>2
    <2> QED
      BY <2>2, <2>3
  <1>11. DOMAIN task' = Slots
    BY <1>1
  <1>12. inDoubt' \in BOOLEAN /\ (~inDoubt' => ~inDoubt /\ ~Overlaps(dialog.id))
    BY <1>1, <1>2 DEF Overlaps
  <1> QED
    BY <1>1, <1>3, <1>4, <1>5, <1>8, <1>9, <1>10, <1>11, <1>12 DEF Taken

(* The indicator of a removal is raised when no other is up.                *)
LEMMA ClickRaises ==
    ASSUME RemovalInv, ~anyOperationInProgress, NEW s \in Slots, task[s] = Idle, DOMAIN task' = Slots,
           \A u \in Slots : u # s => task'[u].op = task[u].op,
           indicator' = IF task'[s].op \in RemovalOps THEN [indicator EXCEPT ![task'[s].op] = TRUE] ELSE indicator
    PROVE  RemovalInv'
  <1>1. /\ indicator \in [RemovalOps -> BOOLEAN] /\ RemovalOps = {"uninstall", "delete"}
        /\ \A o \in RemovalOps : ~indicator[o]
    BY DEF RemovalInv, RemovalOps, anyOperationInProgress
  <1>2. \A u \in Slots : ~InRemoval(u)
    BY <1>1 DEF RemovalInv, InRemoval
  <1>3. \A u \in Slots : InRemoval(u)' => u = s
    BY <1>2 DEF InRemoval
  <1>4. indicator' \in [RemovalOps -> BOOLEAN] /\ \A o \in RemovalOps : indicator'[o] <=> task'[s].op = o
    BY <1>1
  <1>5. \A o \in RemovalOps : (\E u \in Slots : task'[u].op = o) <=> task'[s].op = o
    BY <1>3 DEF InRemoval
  <1> QED
    BY <1>3, <1>4, <1>5 DEF RemovalInv

LEMMA ClickKeepsList ==
    ASSUME AppListInv, bound' = bound,
           NEW op \in {"add", "update", "uninstall", "delete"}, NEW d, NEW rest, NEW submit,
           Click(op, d, rest, submit), ClickForm(op, d, rest),
           indicator' = IF op \in RemovalOps THEN [indicator EXCEPT ![op] = TRUE] ELSE indicator,
           raced' \in BOOLEAN,
           shown' \in Seq(Apps), DistinctIds(shown) => DistinctIds(shown'),
           \A i \in AppIds : RowsOf(shown, i) = {} => RowsOf(shown', i) = {},
           op # "update" => shown' = shown,
           op = "update" /\ DistinctIds(shown) =>
              \A i \in AppIds : RowsOf(shown', i) =
                 IF i = dialog.id /\ RowsOf(shown, i) # {} THEN {Row(i, d)} ELSE RowsOf(shown, i)
    PROVE  AppListInv'
  <1>1. PICK s : s = <<"click", clicks + 1>>
    OBVIOUS
  <1>0. Taken(op, d, s)
    BY <1>1, ClickTaken
  <1>2. /\ s \in Slots /\ s[1] = "click" /\ s[2] = clicks + 1 /\ s[2] \in AppIds
        /\ clicks' = clicks + 1 /\ clicks' \in 0..Ops
        /\ loaded /\ ~anyOperationInProgress
        /\ UNCHANGED <<apps, release, helm, loaded, statuses, visit, mounted, dialog, fails>>
        /\ task[s] = Idle /\ TaskOK(s)' /\ inDoubt' \in BOOLEAN /\ DOMAIN task' = Slots
        /\ task'[s].op = op /\ task'[s].id = dialog.id /\ task'[s].def = d /\ task'[s].phase = "sent"
        /\ ~inDoubt' => ~inDoubt /\ ~Overlaps(dialog.id)
    BY <1>0 DEF Taken
  <1>3. ASSUME NEW u \in Slots, u # s
        PROVE  /\ task'[u].op = task[u].op /\ TaskOK(u)'
               /\ task[u].op # "load" => task'[u] = task[u]
               /\ task[u].op = "load" =>
                     /\ task'[u].phase = task[u].phase /\ task'[u].answer = task[u].answer
                     /\ task'[u].clean = FALSE
    BY <1>0, <1>3 DEF Taken
  <1>4. Shapes /\ TypesOK /\ RemovalInv /\ Fresh /\ CleanLoads /\ \A u \in Slots : TaskOK(u)
    BY DEF AppListInv, Shapes
  <1>5. /\ dialog.id \in AppIds \cup {Nothing} /\ clicks \in 0..Ops /\ apps \in Seq(Apps) /\ DistinctIds(apps)
    BY <1>4 DEF TypesOK
  <1>6. PICK i : i = IF op = "add" THEN s[2] ELSE IF op \in ListEdits THEN dialog.id ELSE Nothing
    OBVIOUS
  <1>7. /\ i \in AppIds \cup {Nothing} /\ (op \in ListEdits <=> i # Nothing)
        /\ Subject(s)' = i
    BY <1>2, <1>5, <1>6, AppBounds DEF ClickForm, Subject, ListEdits
  <1>8. /\ Subject(s) = Nothing
        /\ \A u \in Slots : u # s => Subject(u)' = Subject(u)
    BY <1>2, <1>3, IdleForm DEF Subject, ListEdits
  <1>9. Shapes'
    <2>1. \A u \in Slots : TaskOK(u)'
      BY <1>2, <1>3
    <2>2. RemovalInv'
      BY <1>2, <1>3, <1>4, ClickRaises
    <2>3. TypesOK'
      BY <1>2, <1>4 DEF TypesOK, DistinctIds
    <2> QED
      BY <2>1, <2>2, <2>3 DEF Shapes
  <1>10. Unused(s[2])
    BY <1>2, <1>4, <1>5, AppBounds DEF Fresh
  <1>11. Fresh'
    <2>1. ASSUME NEW n \in 1..Ops, n > clicks'
          PROVE  task'[<<"click", n>>] = Idle
      <3>1. n > clicks /\ n # clicks + 1
        BY <1>2, <1>5, <2>1, AppBounds
      <3>2. <<"click", n>> \in Slots /\ task[<<"click", n>>] = Idle /\ <<"click", n>> # s
        BY <1>1, <1>4, <3>1 DEF Fresh, Slots
      <3> QED
        BY <1>3, <3>2, IdleForm
    <2>2. ASSUME NEW j \in AppIds, j > clicks'
          PROVE  Unused(j)'
      <3>1. j > clicks /\ j # clicks + 1
        BY <1>2, <1>5, <2>2, AppBounds
      <3>2. Unused(j) /\ j # Nothing
        BY <1>4, <3>1, AppBounds DEF Fresh
      <3>3. RowsOf(apps', j) = {} /\ RowsOf(shown', j) = {} /\ dialog'.id # j
        BY <1>2, <3>2 DEF Unused
      <3>4. i # j
        BY <1>2, <1>6, <3>1, <3>2 DEF Unused
      <3>5. \A u \in Slots : Subject(u)' # j
        BY <1>7, <1>8, <3>2, <3>4 DEF Unused
      <3>6. ASSUME NEW u \in Slots, task'[u].op = "load", task'[u].phase = "answered"
            PROVE  RowsOf(task'[u].answer, j) = {}
        <4>1. u # s
          BY <1>2, <3>6
        <4> QED
          BY <1>3, <3>2, <3>6, <4>1 DEF Unused
      <3> QED
        BY <3>3, <3>5, <3>6 DEF Unused, RowsOf
    <2>3. ASSUME NEW u \in Slots, task'[u].op = "add", task'[u].phase = "sent"
          PROVE  RowsOf(apps', u[2]) = {}
      <3>1. CASE u = s
        BY <1>2, <1>10, <3>1 DEF Unused
      <3>2. CASE u # s
        <4>1. task'[u] = task[u]
          BY <1>3, <2>3, <3>2
        <4> QED
          BY <1>2, <1>4, <2>3, <4>1 DEF Fresh
      <3> QED
        BY <3>1, <3>2
    <2> QED
      BY <2>1, <2>2, <2>3 DEF Fresh, RowsOf
  <1>12. CleanLoads'
    <2>1. \A u \in Slots : task'[u].op = "load" => ~task'[u].clean
      BY <1>2, <1>3
    <2> QED
      BY <2>1 DEF CleanLoads
  <1>13. ASSUME ~inDoubt'
         PROVE  Sync'
    <2>1. ~inDoubt /\ ~Overlaps(dialog.id)
      BY <1>2, <1>13
    <2>2. Sync
      BY <1>2, <2>1 DEF AppListInv
    <2>3. DistinctIds(shown') /\ DistinctIds(shown)
      BY <2>2 DEF Sync
    <2>4. \A u \in Slots : task[u].op = "add" => EditState(u) /\ Subject(u) = u[2] /\ dialog.id # u[2]
      <3>1. \A u \in Slots : task[u].op = "add" => EditState(u) /\ Subject(u) = u[2]
        BY <1>4, <2>2, SubjectForm DEF Sync, ListEdits
      <3> QED
        BY <3>1 DEF EditState
    <2>5. ASSUME NEW u \in Slots, u # s, i # Nothing
          PROVE  Subject(u) # i
      <3>1. CASE op = "add"
        BY <1>6, <1>10, <3>1 DEF Unused
      <3>2. CASE op # "add"
        <4>1. i = dialog.id /\ op \in ListEdits /\ i \in AppIds
          BY <1>6, <1>7, <2>5, <3>2
        <4>2. CASE task[u].op = "add"
          BY <2>4, <4>1, <4>2
        <4>3. CASE task[u].op \in {"update", "delete"}
          <5>1. u = <<"click", u[2]>> /\ u[2] \in 1..Ops /\ task[u] # Idle /\ Subject(u) = task[u].id
            BY <1>4, <4>3, IdleForm, SubjectForm, TaskForm DEF Edits
          <5> QED
            BY <2>1, <4>1, <5>1 DEF Overlaps
        <4>4. CASE task[u].op \notin ListEdits
          BY <2>5, <4>4 DEF Subject, ListEdits
        <4> QED
          BY <4>2, <4>3, <4>4 DEF ListEdits
      <3> QED
        BY <3>1, <3>2
    <2>6. \A j \in AppIds : j # i => RowsOf(apps', j) = RowsOf(apps, j) /\ RowsOf(shown', j) = RowsOf(shown, j)
      <3>1. CASE op = "update"
        BY <1>2, <1>6, <2>3, <3>1 DEF ListEdits
      <3>2. CASE op # "update"
        BY <1>2, <3>2
      <3> QED
        BY <3>1, <3>2
    <2>7. ASSUME op \in ListEdits
          PROVE  EditState(s)'
      <3>1. RowsOf(shown, Subject(s))' = RowsOf(shown', i) /\ RowsOf(apps, Subject(s))' = RowsOf(apps, i) /\ i \in AppIds
        BY <1>2, <1>7, <2>7 DEF RowsOf
      <3>2. CASE op = "add"
        <4>1. dialog.id # i /\ RowsOf(shown, i) = {} /\ shown' = shown
          BY <1>6, <1>10, <3>2 DEF Unused
        <4> QED
          BY <1>2, <1>7, <3>1, <3>2, <4>1 DEF EditState
      <3>3. CASE op # "add"
        <4>1. RowsOf(shown, i) = RowsOf(apps, i) /\ i = dialog.id
          <5>1. \A u \in Slots : Subject(u) # i
            BY <1>7, <1>8, <2>5, <2>7
          <5> QED
            BY <1>6, <2>2, <2>7, <3>1, <3>3, <5>1 DEF Sync
        <4>2. CASE op = "update"
          <5>1. RowsOf(shown', i) = IF RowsOf(apps, i) = {} THEN {} ELSE {Row(i, d)}
            BY <2>3, <3>1, <4>1, <4>2
          <5> QED
            BY <1>2, <1>7, <3>1, <4>2, <5>1 DEF EditState
        <4>3. CASE op = "delete"
          BY <1>2, <1>7, <3>1, <4>1, <4>3 DEF EditState
        <4> QED
          BY <2>7, <3>3, <4>2, <4>3 DEF ListEdits
      <3> QED
        BY <3>2, <3>3
    <2>8. \A u \in Slots : u # s => task'[u].op = task[u].op /\ (task[u].op \in ListEdits => task'[u] = task[u])
      BY <1>3 DEF ListEdits
    <2>9. \A u \in Slots : u # s /\ task[u].op = "add" => dialog'.id # u[2]
      BY <1>2, <2>4
    <2>10. s \in Slots => /\ Subject(s)' \in {i, Nothing}
                          /\ Subject(s)' # Nothing => EditState(s)'
                          /\ Subject(s) \in {i, Nothing}
      BY <1>7, <1>8, <2>7
    <2>11. i # Nothing /\ (s \in Slots => Subject(s)' = Nothing) => RowsOf(shown', i) = RowsOf(apps', i)
      BY <1>2, <1>7
    <2>12. \A u \in Slots : u # s /\ i # Nothing => Subject(u) # i
      BY <2>5
    <2> QED
      BY <1>4, <1>7, <2>2, <2>3, <2>6, <2>8, <2>9, <2>10, <2>11, <2>12, SyncOne
  <1> QED
    BY <1>9, <1>11, <1>12, <1>13 DEF AppListInv

LEMMA UpdateKeepsList ==
    ASSUME AppListInv, bound' = bound, NEW rest \in {<<>>, <<"install", "status">>}, Update(rest)
    PROVE  AppListInv'
  <1>1. PICK d \in bound.typed :
           /\ Click("update", d, rest, TRUE)
           /\ shown' = IF HasRow(shown, dialog.id)
                       THEN [shown EXCEPT ![FindRow(shown, dialog.id)].def = d] ELSE shown
    BY DEF Update
  <1>2. dialog.id # Nothing /\ raced' = (raced \/ Wrong(dialog.id)) /\ indicator' = indicator
    BY DEF Update
  <1>3. shown \in Seq(Apps) /\ raced \in BOOLEAN /\ bound \in Bounds
    BY DEF AppListInv, Shapes, TypesOK
  <1>4. d \in Defs /\ raced' \in BOOLEAN
    BY <1>2, <1>3, AppBounds DEF Wrong
  <1>5. PICK op \in {"add", "update", "uninstall", "delete"} : op = "update"
    OBVIOUS
  <1>6. ClickForm(op, d, rest) /\ Click(op, d, rest, TRUE) /\ op \notin RemovalOps
    BY <1>1, <1>2, <1>4, <1>5 DEF ClickForm, RemovalOps
  <1>7. PICK x : x = dialog.id
    OBVIOUS
  <1>8. HasRow(shown, x) <=> RowsOf(shown, x) # {}
    BY <1>3, InRowsOf
  <1>9. /\ shown' \in Seq(Apps)
        /\ DistinctIds(shown) => DistinctIds(shown')
        /\ \A i \in AppIds : RowsOf(shown, i) = {} => RowsOf(shown', i) = {}
        /\ DistinctIds(shown) =>
              \A i \in AppIds : RowsOf(shown', i) =
                 IF i = dialog.id /\ RowsOf(shown, i) # {} THEN {Row(i, d)} ELSE RowsOf(shown, i)
    <2>1. CASE ~HasRow(shown, x)
      <3>1. shown' = shown
        BY <1>1, <1>7, <2>1
      <3> QED
        BY <1>3, <1>7, <1>8, <2>1, <3>1
    <2>2. CASE HasRow(shown, x)
      <3>1. shown' = WithDef(shown, x, d)
        BY <1>1, <1>7, <2>2 DEF WithDef
      <3>2. /\ WithDef(shown, x, d) \in Seq(Apps)
            /\ \A i : HasRow(WithDef(shown, x, d), i) <=> HasRow(shown, i)
            /\ DistinctIds(shown) => DistinctIds(WithDef(shown, x, d))
            /\ DistinctIds(shown) =>
                  \A i : RowsOf(WithDef(shown, x, d), i) = IF i = x THEN {Row(x, d)} ELSE RowsOf(shown, i)
        BY <1>3, <1>4, <2>2, AppReplaced
      <3>3. /\ shown' \in Seq(Apps)
            /\ \A i : HasRow(shown', i) <=> HasRow(shown, i)
            /\ DistinctIds(shown) => DistinctIds(shown')
        BY <3>1, <3>2
      <3>4. \A i \in AppIds : RowsOf(shown, i) = {} => RowsOf(shown', i) = {}
        BY <1>3, <3>3, InRowsOf
      <3>5. ASSUME DistinctIds(shown), NEW i \in AppIds
            PROVE  RowsOf(shown', i) =
                      IF i = dialog.id /\ RowsOf(shown, i) # {} THEN {Row(i, d)} ELSE RowsOf(shown, i)
        <4>1. RowsOf(shown', i) = IF i = x THEN {Row(x, d)} ELSE RowsOf(shown, i)
          BY <3>1, <3>2, <3>5
        <4> QED
          BY <1>7, <1>8, <2>2, <4>1
      <3> QED
        BY <3>3, <3>4, <3>5
    <2> QED
      BY <2>1, <2>2
  <1>10. indicator' = IF op \in RemovalOps THEN [indicator EXCEPT ![op] = TRUE] ELSE indicator
    BY <1>2, <1>6
  <1> QED
    BY <1>4, <1>5, <1>6, <1>9, <1>10, ClickKeepsList

LEMMA RemoveKeepsList ==
    ASSUME AppListInv, bound' = bound, NEW op \in RemovalOps, NEW rest,
           rest = IF op = "uninstall" THEN <<"status">> ELSE <<>>,
           RemoveBy(op, rest), dialog.id # Nothing, raced' \in BOOLEAN
    PROVE  AppListInv'
  <1>1. Click(op, Nothing, rest, FALSE) /\ indicator' = [indicator EXCEPT ![op] = TRUE] /\ shown' = shown
    BY DEF RemoveBy
  <1>2. PICK d : d = Nothing
    OBVIOUS
  <1>3. ClickForm(op, d, rest) /\ op \in {"add", "update", "uninstall", "delete"} /\ op # "update"
    BY DEF ClickForm, RemovalOps
  <1>4. shown' \in Seq(Apps)
    BY <1>1 DEF AppListInv, Shapes, TypesOK
  <1>5. Click(op, d, rest, FALSE)
    BY <1>1, <1>2
  <1>6. indicator' = IF op \in RemovalOps THEN [indicator EXCEPT ![op] = TRUE] ELSE indicator
    BY <1>1
  <1> QED
    BY <1>1, <1>3, <1>4, <1>5, <1>6, ClickKeepsList

LEMMA EditsKeepList ==
    ASSUME AppListInv, bound' = bound, Add \/ Save \/ Install \/ Uninstall \/ Delete
    PROVE  AppListInv'
  <1>1. /\ shown \in Seq(Apps) /\ raced \in BOOLEAN /\ bound \in Bounds
        /\ (raced \/ Wrong(dialog.id)) \in BOOLEAN
    BY DEF AppListInv, Shapes, TypesOK, Wrong
  <1>2. currentStatus \in {"Installed", "NotInstalled"} => dialog.id # Nothing
    BY AppBounds DEF currentStatus
  <1>3. CASE Add
    <2>1. PICK d \in bound.typed : Click("add", d, <<>>, TRUE)
      BY <1>3 DEF Add
    <2>2. dialog.id = Nothing /\ UNCHANGED <<shown, indicator, raced>>
      BY <1>3 DEF Add
    <2>3. PICK op \in {"add", "update", "uninstall", "delete"} : op = "add"
      OBVIOUS
    <2>4. PICK rest : rest = <<>>
      OBVIOUS
    <2>5. ClickForm(op, d, rest) /\ Click(op, d, rest, TRUE) /\ op \notin RemovalOps
      BY <1>1, <2>1, <2>2, <2>3, <2>4, AppBounds DEF ClickForm, RemovalOps
    <2>6. indicator' = IF op \in RemovalOps THEN [indicator EXCEPT ![op] = TRUE] ELSE indicator
      BY <2>2, <2>5
    <2>7. shown' \in Seq(Apps) /\ raced' \in BOOLEAN /\ shown' = shown /\ op # "update"
      BY <1>1, <2>2, <2>3
    <2> QED
      BY <2>5, <2>6, <2>7, ClickKeepsList
  <1>4. CASE Save
    BY <1>4, UpdateKeepsList DEF Save
  <1>5. CASE Install
    BY <1>5, UpdateKeepsList DEF Install
  <1>6. CASE Uninstall
    <2>1. RemoveBy("uninstall", <<"status">>) /\ raced' = raced /\ dialog.id # Nothing
      BY <1>2, <1>6 DEF Uninstall, isToUninstall
    <2>2. PICK op \in RemovalOps : op = "uninstall"
      BY DEF RemovalOps
    <2> QED
      BY <1>1, <2>1, <2>2, RemoveKeepsList
  <1>7. CASE Delete
    <2>1. RemoveBy("delete", <<>>) /\ raced' = (raced \/ Wrong(dialog.id)) /\ dialog.id # Nothing
      BY <1>2, <1>7 DEF Delete, isToDelete
    <2>2. PICK op \in RemovalOps : op = "delete"
      BY DEF RemovalOps
    <2>3. raced' \in BOOLEAN
      BY <1>1, <2>1
    <2> QED
      BY <2>1, <2>2, <2>3, RemoveKeepsList
  <1> QED
    BY <1>3, <1>4, <1>5, <1>6, <1>7

LEMMA AppListStep == AppListInv /\ [AppsNext]_<<appsVars, bound>> => AppListInv'
  <1> SUFFICES ASSUME AppListInv, [AppsNext]_<<appsVars, bound>>
               PROVE  AppListInv'
    OBVIOUS
  <1>1. bound' = bound
    BY DEF AppsNext
  <1>2. CASE UNCHANGED appsVars
    BY <1>1, <1>2, DialogStepKeepsList
  <1>3. CASE Open
    BY <1>1, <1>3, OpenKeepsList
  <1>4. CASE Tick
    BY <1>1, <1>4, TickKeepsList
  <1>5. CASE Leave \/ AddApp \/ SelectApp \/ Close
    BY <1>1, <1>5, DialogStepKeepsList
  <1>6. CASE Add \/ Save \/ Install \/ Uninstall \/ Delete
    BY <1>1, <1>6, EditsKeepList
  <1>7. ASSUME NEW t \in Slots, Serve(t)
        PROVE  AppListInv'
    BY <1>1, <1>7, ServeKeepsList
  <1>8. ASSUME NEW t \in Slots, Answer(t)
        PROVE  AppListInv'
    BY <1>1, <1>8, AnswerKeepsList
  <1>9. ASSUME NEW t \in Slots, Reject(t)
        PROVE  AppListInv'
    BY <1>1, <1>9, RejectKeepsList
  <1>10. ASSUME NEW n \in 1..Ops, HelmEnds(n)
         PROVE  AppListInv'
    BY <1>1, <1>10, HelmKeepsList
  <1> QED
    BY <1>2, <1>3, <1>4, <1>5, <1>6, <1>7, <1>8, <1>9, <1>10 DEF AppsNext

LEMMA AppListInit == AppsInit => AppListInv
  <1> SUFFICES ASSUME AppsInit
               PROVE  AppListInv
    OBVIOUS
  <1>1. \A t \in Slots : task[t] = Idle /\ task[t].op = "idle"
    BY IdleForm DEF AppsInit
  <1>2. [id |-> 0, def |-> First] \in Apps
    BY AppBounds DEF Apps
  <1>3. apps \in Seq(Apps) /\ shown \in Seq(Apps) /\ DistinctIds(apps)
    BY <1>2 DEF AppsInit, DistinctIds
  <1>4. RemovalInv
    <2>1. DOMAIN task = Slots /\ indicator = [o \in RemovalOps |-> FALSE]
      BY DEF AppsInit, RemovalOps
    <2>2. \A o \in RemovalOps : \A t \in Slots : task[t].op # o
      BY <1>1 DEF RemovalOps
    <2> QED
      BY <2>1, <2>2 DEF RemovalInv, InRemoval
  <1>5. TypesOK
    <2>1. /\ loaded = FALSE /\ mounted = FALSE /\ inDoubt = FALSE /\ raced = FALSE /\ dialog = NoDialog
          /\ visit = 0 /\ clicks = 0 /\ fails = 0 /\ bound \in Bounds
          /\ helm = [n \in 1..Ops |-> Nothing] /\ statuses = [i \in AppIds |-> Nothing]
      BY DEF AppsInit
    <2>2. visit \in 0..bound.visits /\ clicks \in 0..Ops /\ fails \in 0..bound.fails
      BY <2>1, AppBounds
    <2>3. statuses \in StatusList
      BY <2>1 DEF StatusList
    <2>4. release \in [Releases -> Defs \cup {Nothing}]
      <3>1. PICK d \in {Nothing, First} : release = [r \in Releases |-> IF r = Release(First) THEN d ELSE Nothing]
        BY DEF AppsInit
      <3> QED
        BY <3>1, AppBounds
    <2> QED
      BY <1>3, <2>1, <2>2, <2>3, <2>4, DialogForm DEF TypesOK
  <1>6. Shapes
    BY <1>1, <1>4, <1>5 DEF Shapes, TaskOK
  <1>7. \A t \in Slots : Subject(t) = Nothing
    BY <1>1 DEF Subject, ListEdits
  <1>8. Fresh
    <2>1. ASSUME NEW i \in AppIds, i > clicks
          PROVE  Unused(i)
      <3>1. i # 0 /\ i # Nothing
        BY <2>1, AppBounds DEF AppsInit
      <3>2. apps = <<[id |-> 0, def |-> First]>> /\ shown = <<>> /\ dialog = NoDialog
        BY DEF AppsInit
      <3>3. RowsOf(apps, i) = {} /\ RowsOf(shown, i) = {}
        BY <3>1, <3>2 DEF RowsOf, RowsIn
      <3> QED
        BY <1>1, <1>7, <3>1, <3>2, <3>3, DialogForm DEF Unused
    <2>2. \A n \in 1..Ops : task[<<"click", n>>] = Idle
      <3>1. \A n \in 1..Ops : <<"click", n>> \in Slots
        BY DEF Slots
      <3> QED
        BY <1>1, <3>1
    <2> QED
      BY <1>1, <2>1, <2>2 DEF Fresh
  <1>9. CleanLoads /\ ~loaded
    BY <1>1 DEF CleanLoads, AppsInit
  <1> QED
    BY <1>6, <1>8, <1>9 DEF AppListInv

LEMMA AppListMeans == AppListInv => AppsInv
  <1> SUFFICES ASSUME AppListInv
               PROVE  AppsInv
    OBVIOUS
  <1>1. /\ Shapes /\ TypesOK /\ RemovalInv /\ \A t \in Slots : TaskOK(t)
        /\ apps \in Seq(Apps) /\ shown \in Seq(Apps) /\ DistinctIds(apps)
    BY DEF AppListInv, Shapes, TypesOK
  <1>2. AppsTypeOK
    <2>1. IsInjective([i \in DOMAIN apps |-> apps[i].id])
      BY <1>1 DEF IsInjective, DistinctIds
    <2>2. indicator \in [{"uninstall", "delete"} -> BOOLEAN]
      BY <1>1 DEF RemovalInv, RemovalOps
    <2>3. ASSUME NEW t \in Slots, Running(t)
          PROVE  task[t].phase \in {"sent", "running", "answered", "failed"}
      BY <1>1, <2>3 DEF TaskOK, LoadTask, PollTask, ClickTask, Running
    <2>4. (dialog.open => mounted) /\ dialog.id \in AppIds \cup {Nothing}
      BY <1>1 DEF TypesOK
    <2>5. statuses \in [AppIds -> Statuses \cup {Nothing}]
      BY <1>1 DEF TypesOK, StatusList
    <2> QED
      BY <1>1, <2>1, <2>2, <2>3, <2>4, <2>5 DEF TypesOK, AppsTypeOK
  <1>3. ListIsCurrent
    <2> SUFFICES ASSUME loaded, ~EditUnderWay, ~inDoubt
                 PROVE  Len(shown) = Len(apps) /\ ToSet(shown) = ToSet(apps)
      BY DEF ListIsCurrent
    <2>1. Sync /\ DistinctIds(shown)
      BY DEF AppListInv, Sync
    <2>2. \A t \in Slots : Subject(t) = Nothing
      <3>1. \A t \in Slots : task[t].op \in Edits => Running(t)
        BY <1>1, TaskForm DEF Edits
      <3>2. \A t \in Slots : task[t].op \notin Edits
        BY <3>1 DEF EditUnderWay
      <3> QED
        BY <3>2 DEF Subject, ListEdits, Edits
    <2>3. \A i \in AppIds : RowsOf(shown, i) = RowsOf(apps, i)
      BY <2>1, <2>2, AppBounds DEF Sync
    <2>4. PICK R : R = Apps
      OBVIOUS
    <2>5. Len(shown) = Len(apps) /\ RowsIn(shown) = RowsIn(apps)
      <3>1. ASSUME NEW i, i \notin AppIds, NEW l \in Seq(Apps)
            PROVE  RowsOf(l, i) = {}
        BY <3>1, AppRows, InRowsOf
      <3>2. shown \in Seq(R) /\ apps \in Seq(R) /\ DistinctIds(shown) /\ DistinctIds(apps)
        BY <1>1, <2>1, <2>4
      <3>3. \A i : RowsOf(shown, i) = RowsOf(apps, i)
        BY <1>1, <2>3, <3>1
      <3> QED
        BY ONLY <3>2, <3>3, SameRows
    <2>6. ToSet(shown) = RowsIn(shown) /\ ToSet(apps) = RowsIn(apps)
      BY DEF ToSet, RowsIn
    <2> QED
      BY <2>5, <2>6
  <1>4. OneRemoval
    <2>1. Removals = {t \in Slots : InRemoval(t)}
      BY <1>1, TaskForm DEF Removals, InRemoval, RemovalOps
    <2>2. \A t, u \in Removals : t = u
      BY <1>1, <2>1 DEF RemovalInv
    <2>3. DOMAIN indicator = RemovalOps
      BY <1>1 DEF RemovalInv
    <2>4. ASSUME NEW o \in RemovalOps
          PROVE  indicator[o] <=> \E t \in Removals : task[t].op = o
      BY <1>1, <2>1 DEF RemovalInv, InRemoval
    <2> QED
      BY <2>2, <2>3, <2>4 DEF OneRemoval
  <1> QED
    BY <1>2, <1>3, <1>4 DEF AppsInv

(* Whatever is clicked in however many visits, while Helm runs and calls    *)
(* fail: when no edit is under way and none is in doubt the list in the     *)
(* store has the apps of the record, and an indicator is up exactly while   *)
(* the one removal that raised it is under way.                             *)
THEOREM AppsInvariant == AppsSpec => []AppsInv
  <1>1. QED
    BY AppListInit, AppListStep, AppListMeans, PTL DEF AppsSpec

(* A change or a deletion of an app under way, and apps of which none is    *)
(* about to be served.                                                      *)
Changes(t, i) == task[t].op \in {"update", "delete"} /\ task[t].id = i
Installs(t, i) == task[t].op = "install" /\ task[t].id = i

Safe(i) == \A t \in Slots : Changes(t, i) => task[t].phase # "sent"

(* The record has the definition, and keeps it.                             *)
Backed(d) == \E r \in RowsIn(apps) : r.def = d /\ Safe(r.id)

(* What Helm has, and what it is about to have, is in the record to stay: a *)
(* user who changes or deletes an app on a true status meets no other call  *)
(* about it.                                                                *)
RecordInv ==
    /\ \A r \in Releases : release[r] # Nothing => Release(release[r]) = r /\ Backed(release[r])
    /\ \A n \in 1..Ops : helm[n] # Nothing /\ helm[n].op = "install" => Backed(helm[n].def)
    /\ \A t, u \in Slots : \A i \in AppIds : Changes(t, i) /\ (Changes(u, i) \/ Installs(u, i)) => t = u

BackedInv == AppListInv /\ (~raced => RecordInv)

LEMMA AppRowsForm ==
    ASSUME AppListInv, NEW r \in RowsIn(apps)
    PROVE  /\ r \in Apps /\ r.id \in AppIds /\ r.def \in Defs
           /\ r \in RowsOf(apps, r.id) /\ HasRow(apps, r.id)
           /\ apps[FindRow(apps, r.id)] = r
  <1>1. apps \in Seq(Apps) /\ DistinctIds(apps)
    BY DEF AppListInv, Shapes, TypesOK
  <1>2. PICK k \in DOMAIN apps : apps[k] = r
    BY DEF RowsIn
  <1>3. r \in Apps
    BY <1>1, <1>2, InRowsOf
  <1>4. r \in RowsOf(apps, r.id)
    BY DEF RowsOf
  <1>5. PICK i : i = r.id
    OBVIOUS
  <1>6. HasRow(apps, i)
    BY <1>1, <1>4, <1>5, InRowsOf
  <1>7. FindRow(apps, i) \in DOMAIN apps /\ apps[FindRow(apps, i)].id = i
    BY <1>1, <1>6, RowFound
  <1>8. FindRow(apps, i) = k
    BY <1>1, <1>2, <1>5, <1>7 DEF DistinctIds
  <1> QED
    BY <1>2, <1>3, <1>4, <1>5, <1>6, <1>8, AppRows

(* A step in which no new change, deletion or installation begins           *)
LEMMA RecordMoves ==
    ASSUME AppListInv, RecordInv, NEW t, Moves(t),
           t \in Slots =>
              /\ task'[t].op \in {"update", "delete"} =>
                    /\ task'[t].op = task[t].op /\ task'[t].id = task[t].id
                    /\ task'[t].phase = "sent" => task[t].phase = "sent"
              /\ task'[t].op = "install" =>
                    task[t].op \in {"install", "update"} /\ task'[t].id = task[t].id,
           \A r \in RowsIn(apps) : Safe(r.id) => r \in RowsIn(apps'),
           \A r \in Releases :
              \/ release'[r] \in {release[r], Nothing}
              \/ \E n \in 1..Ops : /\ helm[n] # Nothing /\ helm[n].op = "install"
                                   /\ release'[r] = helm[n].def /\ r = Release(helm[n].def),
           \A n \in 1..Ops : helm'[n] # Nothing /\ helm'[n].op = "install" =>
              helm'[n] = helm[n] \/ Backed(helm[n].def)'
    PROVE  RecordInv'
  <1>1. ASSUME NEW u \in Slots, NEW i, Changes(u, i)'
        PROVE  Changes(u, i) /\ (task'[u].phase = "sent" => task[u].phase = "sent")
    <2>1. CASE u = t
      BY <1>1, <2>1 DEF Changes
    <2>2. CASE u # t
      BY <1>1, <2>2 DEF Changes, Moves
    <2> QED
      BY <2>1, <2>2
  <1>2. ASSUME NEW u \in Slots, NEW i, Installs(u, i)'
        PROVE  Changes(u, i) \/ Installs(u, i)
    <2>1. CASE u = t
      BY <1>2, <2>1 DEF Changes, Installs
    <2>2. CASE u # t
      BY <1>2, <2>2 DEF Installs, Moves
    <2> QED
      BY <2>1, <2>2
  <1>3. ASSUME NEW i, Safe(i)
        PROVE  Safe(i)'
    BY <1>1, <1>3 DEF Safe
  <1>4. ASSUME NEW d, Backed(d)
        PROVE  Backed(d)'
    <2>1. PICK r \in RowsIn(apps) : r.def = d /\ Safe(r.id)
      BY <1>4 DEF Backed
    <2>2. r \in RowsIn(apps')
      BY <2>1
    <2>3. Safe(r.id)'
      BY <1>3, <2>1
    <2>4. r \in RowsIn(apps)'
      BY <2>2 DEF RowsIn
    <2> QED
      BY <2>1, <2>3, <2>4 DEF Backed
  <1>5. ASSUME NEW r \in Releases, release'[r] # Nothing
        PROVE  Release(release'[r]) = r /\ Backed(release[r])'
    <2>1. CASE release'[r] = release[r]
      <3>1. PICK d : d = release[r]
        OBVIOUS
      <3>2. Release(d) = r /\ Backed(d)
        BY <1>5, <2>1, <3>1 DEF RecordInv
      <3>3. Backed(d)'
        BY <1>4, <3>2
      <3> QED
        BY <2>1, <3>1, <3>2, <3>3 DEF Backed
    <2>2. ASSUME NEW n \in 1..Ops, helm[n] # Nothing, helm[n].op = "install",
                 release'[r] = helm[n].def, r = Release(helm[n].def)
          PROVE  Release(release'[r]) = r /\ Backed(release[r])'
      <3>1. PICK d : d = helm[n].def
        OBVIOUS
      <3>2. Backed(d)
        BY <2>2, <3>1 DEF RecordInv
      <3>3. Backed(d)'
        BY <1>4, <3>2
      <3> QED
        BY <2>2, <3>1, <3>3 DEF Backed
    <2> QED
      BY <1>5, <2>1, <2>2
  <1>6. ASSUME NEW n \in 1..Ops, helm'[n] # Nothing, helm'[n].op = "install"
        PROVE  Backed(helm[n].def)'
    <2>1. CASE helm'[n] = helm[n]
      <3>1. PICK d : d = helm[n].def
        OBVIOUS
      <3>2. Backed(d)
        BY <1>6, <2>1, <3>1 DEF RecordInv
      <3>3. Backed(d)'
        BY <1>4, <3>2
      <3> QED
        BY <2>1, <3>1, <3>3 DEF Backed
    <2> QED
      BY <1>6, <2>1
  <1>7. ASSUME NEW v \in Slots, NEW u \in Slots, NEW i \in AppIds, Changes(v, i)', Changes(u, i)' \/ Installs(u, i)'
        PROVE  v = u
    <2>1. Changes(v, i) /\ (Changes(u, i) \/ Installs(u, i))
      BY <1>1, <1>2, <1>7
    <2> QED
      BY <2>1 DEF RecordInv
  <1> QED
    BY <1>5, <1>6, <1>7 DEF RecordInv

(* A change or a deletion is called for: not by a status that is wrong.     *)
LEMMA RecordClicks ==
    ASSUME AppListInv, RecordInv, NEW op \in {"add", "update", "uninstall", "delete"}, NEW d, NEW s,
           Taken(op, d, s),
           op \in {"update", "delete"} =>
              dialog.id \in AppIds /\ statuses[dialog.id] # "Installed" /\ ~Wrong(dialog.id)
    PROVE  RecordInv'
  <1>1. PICK x : x = dialog.id
    OBVIOUS
  <1>2. /\ s \in Slots /\ UNCHANGED <<apps, release, helm>>
        /\ task'[s].op = op /\ task'[s].id = x
        /\ \A u \in Slots : u # s => /\ task'[u].op = task[u].op
                                     /\ task[u].op # "load" => task'[u] = task[u]
    BY <1>1 DEF Taken
  <1>3. \A u \in Slots : TaskOK(u)
    BY DEF AppListInv, Shapes
  <1>4. ASSUME NEW u \in Slots, u # s, NEW i
        PROVE  /\ Changes(u, i)' <=> Changes(u, i)
               /\ Installs(u, i)' <=> Installs(u, i)
               /\ Changes(u, i) => task'[u].phase = task[u].phase
    BY <1>2, <1>4 DEF Changes, Installs
  <1>5. \A i : ~Installs(s, i)' /\ (Changes(s, i)' => i = x /\ op \in {"update", "delete"})
    BY <1>2 DEF Changes, Installs
  <1>6. ASSUME NEW u \in Slots, op \in {"update", "delete"}
        PROVE  ~Changes(u, x) /\ ~Installs(u, x)
    <2>1. ~Overlaps(x)
      BY <1>1, <1>6 DEF Wrong
    <2>2. ASSUME Changes(u, x) \/ Installs(u, x)
          PROVE  FALSE
      <3>1. task[u].op \in Edits /\ task[u].id = x
        BY <2>2 DEF Changes, Installs, Edits
      <3>2. u = <<"click", u[2]>> /\ u[2] \in 1..Ops /\ task[u] # Idle
        BY <1>3, <3>1, IdleForm, TaskForm DEF Edits
      <3> QED
        BY <2>1, <3>1, <3>2 DEF Overlaps
    <2> QED
      BY <2>2
  <1>7. ASSUME NEW r \in RowsIn(apps), Safe(r.id), op \in {"update", "delete"} => r.id # x
        PROVE  r \in RowsIn(apps)' /\ Safe(r.id)'
    <2>1. r \in RowsIn(apps)'
      BY <1>2 DEF RowsIn
    <2>2. ASSUME NEW u \in Slots, Changes(u, r.id)'
          PROVE  task'[u].phase # "sent"
      <3>1. u # s
        BY <1>5, <1>7, <2>2
      <3> QED
        BY <1>4, <1>7, <2>2, <3>1 DEF Safe
    <2> QED
      BY <2>1, <2>2 DEF Safe
  <1>8. ASSUME NEW r \in RowsIn(apps), r.id = x, op \in {"update", "delete"}
        PROVE  StatusNow(x) = {"NotInstalled"} /\ apps[FindRow(apps, x)] = r
    <2>1. HasRow(apps, r.id) /\ apps[FindRow(apps, r.id)] = r
      BY <1>8, AppRowsForm
    <2> QED
      BY <1>1, <1>8, <2>1 DEF Wrong
  <1>9. ASSUME NEW r \in Releases, NEW e, e = release[r], e # Nothing
        PROVE  Release(e) = r /\ Backed(e)'
    <2>1. e = release[r]
      BY <1>9
    <2>2. Release(e) = r /\ Backed(e)
      BY <1>9, <2>1 DEF RecordInv
    <2>3. PICK w \in RowsIn(apps) : w.def = e /\ Safe(w.id)
      BY <2>2 DEF Backed
    <2>4. ASSUME op \in {"update", "delete"}, w.id = x
          PROVE  FALSE
      <3>1. StatusNow(x) = {"NotInstalled"} /\ apps[FindRow(apps, x)] = w
        BY <1>8, <2>4
      <3>2. "Installed" \in StatusNow(x)
        BY <1>9, <2>1, <2>2, <2>3, <3>1 DEF StatusNow
      <3> QED
        BY <3>1, <3>2
    <2>5. w \in RowsIn(apps)' /\ Safe(w.id)'
      BY <1>7, <2>3, <2>4
    <2>6. Backed(e)'
      BY <2>3, <2>5 DEF Backed
    <2> QED
      BY <2>2, <2>6
  <1>10. ASSUME NEW n \in 1..Ops, helm[n] # Nothing, helm[n].op = "install", NEW e, e = helm[n].def
         PROVE  Backed(e)'
    <2>1. e = helm[n].def
      BY <1>10
    <2>2. Backed(e)
      BY <1>10, <2>1 DEF RecordInv
    <2>3. PICK w \in RowsIn(apps) : w.def = e /\ Safe(w.id)
      BY <2>2 DEF Backed
    <2>4. ASSUME op \in {"update", "delete"}, w.id = x
          PROVE  FALSE
      <3>1. StatusNow(x) = {"NotInstalled"} /\ apps[FindRow(apps, x)] = w
        BY <1>8, <2>4
      <3>2. "Other" \in StatusNow(x)
        BY <1>10, <2>1, <2>3, <3>1 DEF StatusNow
      <3> QED
        BY <3>1, <3>2
    <2>5. w \in RowsIn(apps)' /\ Safe(w.id)'
      BY <1>7, <2>3, <2>4
    <2>6. Backed(e)'
      BY <2>3, <2>5 DEF Backed
    <2> QED
      BY <2>6
  <1>11. ASSUME NEW v \in Slots, NEW u \in Slots, NEW i \in AppIds, Changes(v, i)', Changes(u, i)' \/ Installs(u, i)'
         PROVE  v = u
    <2>1. CASE v # s /\ u # s
      BY <1>4, <1>11, <2>1 DEF RecordInv
    <2>2. CASE v = s /\ u # s
      <3>1. i = x /\ op \in {"update", "delete"} /\ (Changes(u, i) \/ Installs(u, i))
        BY <1>4, <1>5, <1>11, <2>2
      <3> QED
        BY <1>6, <3>1
    <2>3. CASE v # s /\ u = s
      <3>1. i = x /\ op \in {"update", "delete"} /\ Changes(v, i)
        BY <1>4, <1>5, <1>11, <2>3
      <3> QED
        BY <1>6, <3>1
    <2> QED
      BY <2>1, <2>2, <2>3
  <1>12. ASSUME NEW r \in Releases, release'[r] # Nothing
         PROVE  Release(release'[r]) = r /\ Backed(release[r])'
    <2>1. PICK e : e = release[r]
      OBVIOUS
    <2>2. release'[r] = e
      BY <1>2, <2>1
    <2>3. Release(e) = r /\ Backed(e)'
      BY <1>9, <1>12, <2>1, <2>2
    <2> QED
      BY <2>2, <2>3 DEF Backed
  <1>13. ASSUME NEW n \in 1..Ops, helm'[n] # Nothing, helm'[n].op = "install"
         PROVE  Backed(helm[n].def)'
    <2>1. PICK e : e = helm[n].def
      OBVIOUS
    <2>2. helm'[n] = helm[n] /\ helm'[n].def = e
      BY <1>2, <2>1
    <2>3. Backed(e)'
      BY <1>10, <1>13, <2>1, <2>2
    <2> QED
      BY <2>2, <2>3 DEF Backed
  <1> QED
    BY <1>11, <1>12, <1>13 DEF RecordInv

(* What is served changes or removes the one app that is about to be.       *)
LEMMA RecordServes ==
    ASSUME AppListInv, RecordInv, NEW t \in Slots, Serve(t)
    PROVE  RecordInv'
  <1>1. /\ Shapes /\ Moves(t) /\ task[t].phase = "sent" /\ TaskOK(t)
        /\ release' = release /\ task'[t].op = task[t].op /\ task'[t].phase # "sent"
        /\ task[t].op \in Edits => task'[t].id = task[t].id /\ task'[t].def = task[t].def
    BY ServeIs DEF AppListInv, Shapes
  <1>2. apps \in Seq(Apps) /\ DistinctIds(apps) /\ DOMAIN helm = 1..Ops
    BY <1>1 DEF Shapes, TypesOK
  <1>3. /\ task'[t].op \in {"update", "delete"} =>
              /\ task'[t].op = task[t].op /\ task'[t].id = task[t].id
              /\ task'[t].phase = "sent" => task[t].phase = "sent"
        /\ task'[t].op = "install" =>
              task[t].op \in {"install", "update"} /\ task'[t].id = task[t].id
    BY <1>1 DEF Edits
  <1>4. ASSUME NEW r \in RowsIn(apps), Safe(r.id)
        PROVE  r \in RowsIn(apps')
    <2>1. r.id \in AppIds /\ r \in RowsOf(apps, r.id)
      BY AppRowsForm
    <2>2. r.id # Subject(t) \/ task[t].op \in {"add"}
      <3>1. ASSUME r.id = Subject(t), task[t].op # "add"
            PROVE  FALSE
        <4>1. task[t].op \in {"update", "delete"} /\ task[t].id = r.id
          BY <1>1, <2>1, <3>1, AppBounds, SubjectForm DEF ListEdits
        <4> QED
          BY <1>1, <1>4, <4>1 DEF Safe, Changes
      <3> QED
        BY <3>1
    <2>3. CASE r.id # Subject(t)
      <3>1. RowsOf(apps', r.id) = RowsOf(apps, r.id)
        BY <2>1, <2>3, ServeRecord
      <3> QED
        BY <2>1, <3>1 DEF RowsOf
    <2>4. CASE task[t].op = "add"
      <3>1. RowsOf(apps, t[2]) = {} /\ Subject(t) = t[2]
        BY <1>1, <2>4, SubjectForm DEF AppListInv, Fresh
      <3> QED
        BY <2>1, <2>3, <3>1
    <2> QED
      BY <2>2, <2>3, <2>4
  <1>5. ASSUME NEW n \in 1..Ops, helm'[n] # Nothing, helm'[n].op = "install"
        PROVE  helm'[n] = helm[n] \/ Backed(helm[n].def)'
    <2>1. CASE helm' = helm
      BY <2>1
    <2>2. CASE /\ task[t].op \in {"install", "uninstall"} /\ HasRow(apps, task[t].id)
               /\ helm' = [helm EXCEPT ![t[2]] =
                              [op |-> task[t].op, def |-> apps[FindRow(apps, task[t].id)].def]]
      <3>1. PICK x : x = task[t].id
        OBVIOUS
      <3>2. PICK e : e = apps[FindRow(apps, x)].def
        OBVIOUS
      <3>3. helm' = [helm EXCEPT ![t[2]] = [op |-> task[t].op, def |-> e]]
        BY <2>2, <3>1, <3>2
      <3>4. CASE n # t[2]
        BY <1>2, <3>3, <3>4
      <3>5. CASE n = t[2]
        <4>1. helm'[n].op = task[t].op /\ helm'[n].def = e
          BY <1>2, <3>3, <3>5
        <4>2. task[t].op = "install"
          BY <1>5, <4>1
        <4>3. FindRow(apps, x) \in DOMAIN apps /\ apps[FindRow(apps, x)].id = x
          BY <1>2, <2>2, <3>1, RowFound
        <4>4. PICK w : w = apps[FindRow(apps, x)]
          OBVIOUS
        <4>5. w \in RowsIn(apps) /\ w.id = x /\ w.def = e
          BY <3>2, <4>3, <4>4 DEF RowsIn
        <4>6. x \in AppIds
          BY <4>5, AppRowsForm
        <4>7. \A u \in Slots : ~Changes(u, x)
          <5>1. Installs(t, x)
            BY <3>1, <4>2 DEF Installs
          <5>2. ~Changes(t, x)
            BY <4>2 DEF Changes
          <5> QED
            BY <4>6, <5>1, <5>2 DEF RecordInv
        <4>8. \A u \in Slots : ~Changes(u, x)'
          <5>1. ~Changes(t, x)'
            BY <1>1, <4>2 DEF Changes
          <5>2. \A u \in Slots : u # t => task'[u] = task[u]
            BY <1>1 DEF Moves
          <5> QED
            BY <4>7, <5>1, <5>2 DEF Changes
        <4>9. apps' = apps
          BY <1>1, <4>2, ServeIs DEF ListEdits
        <4>10. w \in RowsIn(apps)' /\ Safe(w.id)'
          BY <4>5, <4>8, <4>9 DEF RowsIn, Safe
        <4>11. Backed(e)'
          BY <4>5, <4>10 DEF Backed
        <4> QED
          BY <4>1, <4>11 DEF Backed
      <3> QED
        BY <3>4, <3>5
    <2> QED
      BY <1>1, <2>1, <2>2, ServeIs
  <1>6. \A r \in Releases : release'[r] \in {release[r], Nothing}
    BY <1>1
  <1> QED
    BY <1>1, <1>3, <1>4, <1>5, <1>6, RecordMoves

(* A call ends; an installation may follow an update of the same app.       *)
LEMMA RecordEnds ==
    ASSUME AppListInv, RecordInv, NEW t \in Slots, Running(t), Moves(t),
           task'[t] = Next1(task[t]) \/ task'[t] \in {Idle, Dead}, UNCHANGED <<apps, release, helm>>
    PROVE  RecordInv'
  <1>1. TaskOK(t)
    BY DEF AppListInv, Shapes
  <1>2. PICK k : k = Next1(task[t])
    OBVIOUS
  <1>3. /\ k = Idle \/ k.id = task[t].id
        /\ k.op \in {"idle", "install", "status"}
        /\ k.op = "install" => task[t].op = "update"
    BY <1>1, <1>2, Next1Is
  <1>4. /\ task'[t].op \notin {"update", "delete"}
        /\ task'[t].op = "install" =>
              task[t].op \in {"install", "update"} /\ task'[t].id = task[t].id
    BY <1>2, <1>3, IdleForm
  <1>5. \A r \in RowsIn(apps) : Safe(r.id) => r \in RowsIn(apps')
    OBVIOUS
  <1>6. \A r \in Releases : release'[r] \in {release[r], Nothing}
    OBVIOUS
  <1>7. \A n \in 1..Ops : helm'[n] # Nothing /\ helm'[n].op = "install" => helm'[n] = helm[n]
    OBVIOUS
  <1> QED
    BY <1>4, <1>5, <1>6, <1>7, RecordMoves

LEMMA RecordHelm ==
    ASSUME AppListInv, RecordInv, NEW n \in 1..Ops, HelmEnds(n)
    PROVE  RecordInv'
  <1>1. PICK t \in Slots : t = <<"click", n>>
    BY DEF Slots
  <1>2. DOMAIN task = Slots /\ DOMAIN helm = 1..Ops /\ TaskOK(t) /\ release \in [Releases -> Defs \cup {Nothing}]
        /\ \A m \in 1..Ops : helm[m] # Nothing => helm[m].op \in {"install", "uninstall"} /\ helm[m].def \in Defs
    BY DEF AppListInv, Shapes, RemovalInv, TypesOK
  <1>3. helm[n] # Nothing /\ helm' = [helm EXCEPT ![n] = Nothing] /\ apps' = apps
    BY DEF HelmEnds
  <1>4. \/ task' = task
        \/ \E p \in {"answered", "failed"} :
              /\ task[t].op = helm[n].op /\ task[t].phase = "running"
              /\ task' = [task EXCEPT ![t].phase = p]
    BY <1>1 DEF HelmEnds
  <1>5. PICK d : d = helm[n].def
    OBVIOUS
  <1>6. \/ release' = release
        \/ release' = [release EXCEPT ![Release(d)] = Nothing]
        \/ helm[n].op = "install" /\ release' = [release EXCEPT ![Release(d)] = d]
    BY <1>5 DEF HelmEnds
  <1>7. /\ Moves(t)
        /\ task'[t].op = task[t].op
        /\ task'[t].op \in Edits => task'[t].id = task[t].id
        /\ task'[t].op \in {"update", "delete"} => task'[t].phase = task[t].phase
    <2>1. CASE task' = task
      BY <1>2, <2>1 DEF Moves
    <2>2. ASSUME NEW p \in {"answered", "failed"}, task[t].op = helm[n].op, task' = [task EXCEPT ![t].phase = p]
          PROVE  /\ Moves(t)
                 /\ task'[t].op = task[t].op
                 /\ task'[t].op \in Edits => task'[t].id = task[t].id
                 /\ task'[t].op \in {"update", "delete"} => task'[t].phase = task[t].phase
      <3>1. task[t].op \in {"install", "uninstall"}
        BY <1>2, <1>3, <2>2
      <3>2. ClickTask(task[t], t[2])
        BY <1>2, <3>1, TaskForm DEF Edits
      <3>3. Moves(t) /\ task'[t] = [task[t] EXCEPT !.phase = p]
        BY <1>2, <2>2 DEF Moves
      <3> QED
        BY <3>1, <3>2, <3>3 DEF ClickTask
    <2> QED
      BY <1>4, <2>1, <2>2
  <1>8. /\ task'[t].op \in {"update", "delete"} =>
              /\ task'[t].op = task[t].op /\ task'[t].id = task[t].id
              /\ task'[t].phase = "sent" => task[t].phase = "sent"
        /\ task'[t].op = "install" =>
              task[t].op \in {"install", "update"} /\ task'[t].id = task[t].id
    BY <1>7 DEF Edits
  <1>9. ASSUME NEW r \in Releases
        PROVE  \/ release'[r] \in {release[r], Nothing}
               \/ \E m \in 1..Ops : /\ helm[m] # Nothing /\ helm[m].op = "install"
                                    /\ release'[r] = helm[m].def /\ r = Release(helm[m].def)
    <2>1. CASE release' = release \/ release' = [release EXCEPT ![Release(d)] = Nothing]
      BY <1>2, <2>1
    <2>2. CASE helm[n].op = "install" /\ release' = [release EXCEPT ![Release(d)] = d]
      <3>1. release'[r] = IF r = Release(d) THEN d ELSE release[r]
        BY <1>2, <2>2
      <3> QED
        BY <1>3, <1>5, <2>2, <3>1
    <2> QED
      BY <1>6, <2>1, <2>2
  <1>10. \A r \in RowsIn(apps) : Safe(r.id) => r \in RowsIn(apps')
    BY <1>3
  <1>11. \A m \in 1..Ops : helm'[m] # Nothing /\ helm'[m].op = "install" => helm'[m] = helm[m]
    BY <1>2, <1>3
  <1> QED
    BY <1>7, <1>8, <1>9, <1>10, <1>11, RecordMoves

(* The steps of the page ask for nothing but to read.                       *)
LEMMA RecordPages ==
    ASSUME AppListInv, RecordInv,
           Open \/ Tick \/ Leave \/ AddApp \/ SelectApp \/ Close \/ UNCHANGED appsVars
    PROVE  RecordInv'
  <1>1. DOMAIN task = Slots /\ visit \in Nat
    BY AppBounds DEF AppListInv, Shapes, RemovalInv, TypesOK
  <1>2. UNCHANGED <<apps, release, helm>>
    BY DEF Open, Tick, Leave, AddApp, SelectApp, Close, SetDialog, appsVars
  <1>3. \A r \in RowsIn(apps) : Safe(r.id) => r \in RowsIn(apps')
    BY <1>2
  <1>4. \A r \in Releases : release'[r] \in {release[r], Nothing}
    BY <1>2
  <1>5. \A n \in 1..Ops : helm'[n] # Nothing /\ helm'[n].op = "install" => helm'[n] = helm[n]
    BY <1>2
  <1>6. ASSUME NEW t, Moves(t), t \in Slots => task'[t].op \in {"load", "status"}
        PROVE  RecordInv'
    BY <1>3, <1>4, <1>5, <1>6, RecordMoves
  <1>7. CASE Open
    <2>1. PICK t, k : t = <<"load", visit + 1>> /\ k = Read("load")
      OBVIOUS
    <2>2. task' = [task EXCEPT ![t] = k] /\ k.op = "load"
      BY <1>7, <2>1, ReadIs DEF Open
    <2>3. Moves(t) /\ (t \in Slots => task'[t].op \in {"load", "status"})
      BY <1>1, <2>2 DEF Moves
    <2> QED
      BY <1>6, <2>3
  <1>8. CASE Tick
    <2>1. PICK t, k : t = <<"poll", visit>> /\ k = Read("status")
      OBVIOUS
    <2>2. task' = [task EXCEPT ![t] = k] /\ k.op = "status"
      BY <1>8, <2>1, ReadIs DEF Tick
    <2>3. Moves(t) /\ (t \in Slots => task'[t].op \in {"load", "status"})
      BY <1>1, <2>2 DEF Moves
    <2> QED
      BY <1>6, <2>3
  <1>9. CASE Leave \/ AddApp \/ SelectApp \/ Close \/ UNCHANGED appsVars
    <2>1. task' = task
      BY <1>9 DEF Leave, AddApp, SelectApp, Close, SetDialog, appsVars
    <2>2. PICK t : t = <<"click", 0>>
      OBVIOUS
    <2>3. t \notin Slots /\ Moves(t)
      BY <1>1, <2>1, <2>2, NoSlot DEF Moves
    <2> QED
      BY <1>3, <1>4, <1>5, <2>3, RecordMoves
  <1> QED
    BY <1>7, <1>8, <1>9

LEMMA RecordEdits ==
    ASSUME AppListInv, RecordInv, ~raced', Add \/ Save \/ Install \/ Uninstall \/ Delete
    PROVE  RecordInv'
  <1>1. PICK s : s = <<"click", clicks + 1>>
    OBVIOUS
  <1>2. bound \in Bounds /\ dialog.id \in AppIds \cup {Nothing}
    BY DEF AppListInv, Shapes, TypesOK
  <1>3. ASSUME NEW op \in {"add", "update", "uninstall", "delete"}, NEW d, NEW rest, NEW submit,
               Click(op, d, rest, submit), ClickForm(op, d, rest)
        PROVE  Taken(op, d, s)
    BY <1>1, <1>3, ClickTaken
  <1>4. currentStatus # "Installed" /\ dialog.id # Nothing => statuses[dialog.id] # "Installed"
    BY DEF currentStatus
  <1>5. currentStatus \in {"Installed", "NotInstalled"} => dialog.id # Nothing
    BY AppBounds DEF currentStatus
  <1>6. CASE Add
    <2>1. PICK d \in bound.typed : Click("add", d, <<>>, TRUE)
      BY <1>6 DEF Add
    <2>2. PICK op \in {"add", "update", "uninstall", "delete"} : op = "add"
      OBVIOUS
    <2>3. ClickForm(op, d, <<>>) /\ Click(op, d, <<>>, TRUE)
      BY <1>2, <1>6, <2>1, <2>2, AppBounds DEF Add, ClickForm
    <2> QED
      BY <1>3, <2>2, <2>3, RecordClicks
  <1>7. ASSUME NEW rest \in {<<>>, <<"install", "status">>}, Update(rest), isToSave
        PROVE  RecordInv'
    <2>1. PICK d \in bound.typed : Click("update", d, rest, TRUE)
      BY <1>7 DEF Update
    <2>2. PICK op \in {"add", "update", "uninstall", "delete"} : op = "update"
      OBVIOUS
    <2>3. dialog.id # Nothing /\ ~Wrong(dialog.id)
      BY <1>7 DEF Update
    <2>4. ClickForm(op, d, rest) /\ Click(op, d, rest, TRUE)
      BY <1>2, <1>7, <2>1, <2>2, <2>3, AppBounds DEF ClickForm
    <2>5. dialog.id \in AppIds /\ statuses[dialog.id] # "Installed"
      BY <1>2, <1>4, <1>7, <2>3, AppBounds DEF isToSave, isToInstall
    <2> QED
      BY <1>3, <2>3, <2>4, <2>5, RecordClicks
  <1>8. CASE Save
    BY <1>7, <1>8 DEF Save
  <1>9. CASE Install
    BY <1>7, <1>9 DEF Install, isToSave
  <1>10. CASE Uninstall
    <2>1. Click("uninstall", Nothing, <<"status">>, FALSE) /\ dialog.id # Nothing
      BY <1>5, <1>10 DEF Uninstall, RemoveBy, isToUninstall
    <2>2. PICK op \in {"add", "update", "uninstall", "delete"} : op = "uninstall"
      OBVIOUS
    <2>3. ClickForm(op, Nothing, <<"status">>) /\ Click(op, Nothing, <<"status">>, FALSE)
      BY <2>1, <2>2 DEF ClickForm
    <2> QED
      BY <1>3, <2>2, <2>3, RecordClicks
  <1>11. CASE Delete
    <2>1. Click("delete", Nothing, <<>>, FALSE) /\ ~Wrong(dialog.id)
      BY <1>11 DEF Delete, RemoveBy
    <2>2. currentStatus = "NotInstalled"
      BY <1>11 DEF Delete, isToDelete
    <2>3. PICK op \in {"add", "update", "uninstall", "delete"} : op = "delete"
      OBVIOUS
    <2>4. dialog.id \in AppIds /\ statuses[dialog.id] # "Installed" /\ dialog.id # Nothing
      BY <1>2, <1>4, <1>5, <2>2
    <2>5. ClickForm(op, Nothing, <<>>) /\ Click(op, Nothing, <<>>, FALSE)
      BY <2>1, <2>3, <2>4 DEF ClickForm
    <2> QED
      BY <1>3, <2>1, <2>4, <2>5, RecordClicks
  <1> QED
    BY <1>6, <1>8, <1>9, <1>10, <1>11

LEMMA BackedStep == BackedInv /\ [AppsNext]_<<appsVars, bound>> => BackedInv'
  <1> SUFFICES ASSUME BackedInv, [AppsNext]_<<appsVars, bound>>
               PROVE  BackedInv'
    OBVIOUS
  <1>1. AppListInv /\ AppListInv'
    BY AppListStep DEF BackedInv
  <1> SUFFICES ASSUME ~raced'
               PROVE  RecordInv'
    BY <1>1 DEF BackedInv
  <1>2. ~raced
    <2>1. raced' = raced \/ (raced' = (raced \/ Wrong(dialog.id)))
      BY DEF AppsNext, Open, Leave, Tick, AddApp, SelectApp, Close, SetDialog, Add, Save, Install, Update,
             Uninstall, Delete, Serve, Answer, Reject, HelmEnds, appsVars
    <2> QED
      BY <2>1
  <1>3. RecordInv
    BY <1>2 DEF BackedInv
  <1>4. CASE Open \/ Tick \/ Leave \/ AddApp \/ SelectApp \/ Close \/ UNCHANGED appsVars
    BY <1>1, <1>3, <1>4, RecordPages
  <1>5. CASE Add \/ Save \/ Install \/ Uninstall \/ Delete
    BY <1>1, <1>3, <1>5, RecordEdits
  <1>6. ASSUME NEW t \in Slots, Serve(t)
        PROVE  RecordInv'
    BY <1>1, <1>3, <1>6, RecordServes
  <1>7. DOMAIN task = Slots
    BY <1>1 DEF AppListInv, Shapes, RemovalInv
  <1>8. ASSUME NEW t \in Slots, Answer(t)
        PROVE  RecordInv'
    <2>1. /\ Running(t) /\ task' = [task EXCEPT ![t] = Next1(task[t])]
          /\ UNCHANGED <<apps, release, helm>>
      BY <1>8, AnswerIs
    <2>2. Moves(t) /\ task'[t] = Next1(task[t])
      BY <1>7, <2>1 DEF Moves
    <2> QED
      BY <1>1, <1>3, <2>1, <2>2, RecordEnds
  <1>9. ASSUME NEW t \in Slots, Reject(t)
        PROVE  RecordInv'
    <2>1. /\ Running(t)
          /\ task' = [task EXCEPT ![t] = IF task[t].op = "install" THEN Next1(task[t])
                                         ELSE IF t[1] = "poll" THEN Dead ELSE Idle]
          /\ UNCHANGED <<apps, release, helm>>
      BY <1>9 DEF Reject
    <2>2. Moves(t) /\ (task'[t] = Next1(task[t]) \/ task'[t] \in {Idle, Dead})
      BY <1>7, <2>1 DEF Moves
    <2> QED
      BY <1>1, <1>3, <2>1, <2>2, RecordEnds
  <1>10. ASSUME NEW n \in 1..Ops, HelmEnds(n)
         PROVE  RecordInv'
    BY <1>1, <1>3, <1>10, RecordHelm
  <1> QED
    BY <1>4, <1>5, <1>6, <1>8, <1>9, <1>10 DEF AppsNext

LEMMA BackedInit == AppsInit => BackedInv
  <1> SUFFICES ASSUME AppsInit
               PROVE  BackedInv
    OBVIOUS
  <1>1. AppListInv
    BY AppListInit
  <1>2. \A t \in Slots : task[t].op = "idle"
    BY IdleForm DEF AppsInit
  <1>3. \A t \in Slots : \A i : ~Changes(t, i)
    BY <1>2 DEF Changes
  <1>4. Backed(First)
    <2>1. apps = <<[id |-> 0, def |-> First]>>
      BY DEF AppsInit
    <2>2. PICK r : r = apps[1] /\ r \in RowsIn(apps) /\ r.def = First
      BY <2>1 DEF RowsIn
    <2>3. Safe(r.id)
      BY <1>3 DEF Safe
    <2> QED
      BY <2>2, <2>3 DEF Backed
  <1>5. PICK d \in {Nothing, First} : release = [r \in Releases |-> IF r = Release(First) THEN d ELSE Nothing]
    BY DEF AppsInit
  <1>6. ASSUME NEW r \in Releases, release[r] # Nothing
        PROVE  Release(release[r]) = r /\ Backed(release[r])
    <2>1. r = Release(First) /\ release[r] = First
      BY <1>5, <1>6
    <2> QED
      BY <1>4, <2>1
  <1>7. \A n \in 1..Ops : helm[n] = Nothing
    BY DEF AppsInit
  <1> QED
    BY <1>1, <1>3, <1>6, <1>7 DEF BackedInv, RecordInv

LEMMA BackedMeans == BackedInv => ReleasesAreRecorded
  <1> SUFFICES ASSUME BackedInv, ~raced, NEW r \in Releases, release[r] # Nothing
               PROVE  \E i \in DOMAIN apps : apps[i].def = release[r]
    BY DEF ReleasesAreRecorded
  <1>1. Backed(release[r])
    BY DEF BackedInv, RecordInv
  <1> QED
    BY <1>1 DEF Backed, RowsIn

(* Unless the user changed or deleted an app on a status that was no longer *)
(* true, every release that Helm has is that of an app of the record, with  *)
(* its values: whatever Helm commands overlap, fail half-way or outlive the *)
(* page that began them.                                                    *)
THEOREM AppsReleases == AppsSpec => []ReleasesAreRecorded
  <1>1. QED
    BY BackedInit, BackedStep, BackedMeans, PTL DEF AppsSpec
=============================================================================
