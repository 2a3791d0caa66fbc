# A TLA+ model of makoon

makoon is a web application that creates MicroK8s clusters on a Proxmox
hypervisor: a user fills in a wizard, the server makes virtual machines, installs
Kubernetes over SSH, and afterwards adds, resizes and deletes nodes and installs
Helm apps and manifests. This directory holds TLA+ modules that model the program,
from the pages of the browser to the file on the disk, TLC configurations that check
them on small instances, and TLAPS proofs for all instances.

    tlc -workers 2 -config MCOperator.cfg MCOperator      # one run
    tlapm ServerProofs.tla                                # one set of proofs

Paths below are relative to `src`; `W` stands for `web/src-web/src`.

## 1. The system

| part | state | operations | source |
|---|---|---|---|
| database content | clusters and log entries | `save_cluster`, `delete_cluster`, `save_log`, `delete_logs`, reads | `core/src/repository_json.rs` |
| JSON file repository | one file, one mutex | `new`, `load`, `save` | `core/src/repository_json.rs` |
| operator: channel and worker | a `sync_channel(10)`, a thread, a shutdown flag | send, poll, sleep, `Drop` | `core/src/operator.rs` |
| operator: handlers | none of their own | create, delete, add node, delete node, change resources, edits of apps and resources, status calls | `core/src/operator.rs` |
| dispatcher | none | one arm per event: use case, final status, logs | `core/src/dispatcher/dispatcher.rs` |
| use cases | a copy of the cluster record while they run | create, delete, add node, delete node, change resources | `core/src/dispatcher/usecase/` |
| Proxmox, SSH and Helm clients | none | HTTP requests and command lines | `proxmox-client`, `ssh-client`, `helm-client` |
| default clusters and nodes | the list of nodes to be created | the search for free VM ids, the next node, deletions | `core/src/generator.rs`, `W/utils/nodes.ts`, `W/store/cluster-creator-store.ts` |
| wizard of a new cluster | step, form, a flag that disables Next, the store with nodes, apps, workloads | open, close, type, back and forth, add, edit, delete, confirm, send | `W/views/cluster-creator` |
| page of a cluster: nodes | a store that outlives the page, a dialog, chains of calls | load, poll, add, delete, change | `W/views/clusters-management`, `W/store/cluster-management-store.ts` |
| page of a cluster: statuses, logs | the same store | calls on mount and every five seconds | the same, `W/utils/hooks.ts` |
| page of a cluster: apps, workloads | the same store, indicators of what is in progress | save, install, uninstall, delete | the same, `W/store/processing-indicator-store.ts` |
| sessions | a cookie, and nothing on the server | login, logout, redirect of denied requests | `web/src/handlers`, `W/main.tsx`, `W/Router.tsx`, `W/views/login` |

How they interact. A button starts an async function of a store, which makes calls
and puts their answers into the store. A request reaches a handler of the operator on
a thread of the web server. The handler reads the cluster from the repository,
*marks* it (a status such as Pending, or a lock on a node), saves it, and sends an
event into the bounded channel, where it waits while the channel is full; the edits
of apps and workloads, and Helm and kubectl, are run by the handler itself. One worker
thread polls the channel once a second and runs the dispatcher on one event at a
time; an event may take many minutes. The dispatcher runs a use case, which works on
virtual machines through Proxmox and SSH and accesses the repository a few times on
the way, and then writes a final status. Every access of every thread reads or writes
the **whole** file, under a mutex that is released between the read and the write.
The browser learns of progress by polling the repository through the server.

What is hard about it:

* Handlers and worker load, change and save the same file with nothing held in
  between, so one may erase what the other wrote (`core/src/repository_json.rs:102`).
* A save truncates the file before it writes (`repository_json.rs:57`); a full
  disk or a kill in between leaves no database.
* `new` takes any error of opening the file for its absence, and writes an empty
  database over whatever there is (`repository_json.rs:36-48`).
* A handler answers its client before anything was done. Whatever happens later,
  in whatever order events were accepted, the record must end in a status that
  tells the truth and its nodes unlocked or explained.
* Every request to Proxmox and every command may fail or be carried out with its
  answer lost. Use cases do not undo anything: what a failure leaves is found, or
  not found, by the next use case through the id and the name of a VM.
* VM ids are shared with the other users of the hypervisor. The server proposes
  one id, the browser counts on from it, and nothing checks the whole list.
* Nothing is recovered after a restart: the channel is in memory, and no code
  looks for records left in a passing state.
* An async function runs on when its page has gone. Its answers go into a store that
  shows another cluster by then, or the same one newly loaded; polling depends on what
  the store shows (`W/store/cluster-management-store.ts:163`), and one failure ends it
  for good (`W/utils/hooks.ts:36`).
* What is offered is decided by what the browser knew some time ago: the list of
  nodes, the status of a release, the names that are taken. Buttons are kept
  apart by indicators that are one boolean for all calls of a kind.
* The server keeps no session. Each tab learns that its session is over from the
  answer to a request, perhaps one that another session made.

What makes each part correct: the file is never read half-written, and no operation takes damage
for an empty database; a cluster name occurs once; the channel loses, repeats and
reorders nothing, and its users do not hang; each accepted request ends in a
final status, a log that is true and no silent lock; a record is only erased when
its machines are gone, machines of others are left alone, a deleted node is not a
member of the Kubernetes cluster, a cluster keeps a master; a request to
create a cluster is complete and made once; a page ends up with what the server has;
a dialog changes the cluster it shows and can be used again whatever failed; a working
session is kept and a lost one is noticed.

The hazards behind this, each at its line and with the properties that cover it
or the reason that none does, are listed in `PROJECT.json`.

## 2. Modules

    DbData              content of the file, as pure functions
      SnapshotStore       abstract: load a snapshot, save a snapshot
      JsonRepository      mutex, truncation, disk errors, kills   (implements SnapshotStore)
        LostUpdates         + history: when does the file keep every update?
      ClusterLifecycle    handlers, dispatcher, use cases         (implements SnapshotStore)
    WorkQueue           abstract: a FIFO queue that may be closed
      Operator            channel, polling worker, shutdown, panic (implements WorkQueue)
    Hypervisor          Proxmox as makoon sees it (external)
      Provisioning        use cases as programs of requests and commands
    ClusterCreator      ids and names of the nodes of a new cluster
    CreatorLists        its lists of apps and workloads, with their dialogs
    Positions           what lists have at some positions, and their rows by id, for proofs
    CreatorWizard       the steps of the wizard, the proposal and the request
    ManagedNodes        page of a cluster: its nodes and their dialogs
    ClusterPolls        page of a cluster: statuses and logs, tab by tab
    ManagedApps         page of a cluster: Helm apps, down to Helm
    ManagedWorkloads    page of a cluster: manifests
    Session             cookies, tabs, and the redirect to the login page

The `MC*` modules hold the constants of the runs; `MCClusterCreator` composes
`ClusterCreator` with `CreatorLists`, the two halves of one store. Proofs of
`M` are in `MProofs`; those of `JsonRepository`, `LostUpdates`, `Operator` and `Session`
are in `ServerProofs`, those of `CreatorLists` in `ClusterCreatorProofs`, those of
`CreatorWizard` and `ManagedApps` in `BrowserProofs`.
`ClusterLifecycleProofs` has four parts: the refinement, what is left of a mark, what a
logged deletion is worth, and, a small one, the polls of the browser (`ClusterPolls`).
`map` in `PROJECT.json` names the source lines of every definition. Operators named `Something_Variant` and marked "mutant" are plausible
mistakes in `Something`; with the mistake in place of the original the named property
fails. Each module has one `TypeOK`; where a run checks several invariants of one
thing, a conjunction (`OperatorInv`, `LifecycleInv`, ...) of its named parts stands for
them.

**DbData, SnapshotStore, JsonRepository, LostUpdates.** `DbData` has struct
`DbData` and each writing operation as a function of a loaded content. A record is
a name and an opaque body; vectors are sets, because no operation depends on order
and names are unique (`RepoUniqueNames`, proved). `SnapshotStore` is what the threads
get: `Load` takes a snapshot, `Commit` puts the changed snapshot in the place of
the file, `Damage` is a save cut short, and `Replace` is what a start does that cannot
open the file, whatever is in it. `JsonRepository` has `load` and `save` step by
step: lock, open, read or truncate, write, unlock, with an error return at every `?`; a
kill at any point; and `new`, which fails on a file that does not parse and writes an empty one when it cannot
open it: because there is none, or because the open of a good or a broken one fails for
any other reason (`CreateFile`). `RefinesStore` maps a save to the moment of
truncation: from there on nobody can look before the write is over. `LostUpdates` adds
history to it: the content that applying every operation to the *current* file
would give, and who holds a snapshot that has been overtaken; `HistoryWatches` shows
that this adds and takes nothing.

**WorkQueue, Operator.** A handler is new, marked, accepted or failed. The worker
polls, dispatches or sleeps; it looks at the shutdown flag only after a sleep
(`core/src/operator.rs:58-79`); `Drop` sets the flag and joins. `Panic` is a use case
that unwraps an error (`ssh-client/src/ssh.rs`, `is_file_exists`): the thread ends
and takes the receiver with it, so that `send` fails from then on. The mapping to
`WorkQueue` is the channel, the history of received events, and whether there is a
worker.

**ClusterLifecycle.** A thread runs a program: a sequence of instructions such as
`Get("lockDelete")`, `Save`, `Log("info")`, `Send`, `Work`. Each program follows one
Rust function call by call (`DeleteHandler` is `delete_cluster` of the operator,
`OkArm` and `ErrArm` are the arms of the dispatcher's `match`, `CreateCluster` is the
use case). `?` ends a program (`Fail`), in a use case with the Err arm. `Save`, `Log`
and `Erase` are two steps each, `LoadFile` and `SaveFile`, which is what
`JsonRepository` makes of them; `RefinesStore` says that the threads use the file
as `SnapshotStore` allows, with the operation at hand as the witness. `lost` is
history: a save that erased something its thread had not read. Nothing keeps two nodes
from having one name (`operator.rs:185` adds without a look), so a record has for each name
the locks of its nodes in order: deletions and the dispatcher go to the first one that
`find` finds (`SetLock`), `change_node_resources` locks all (`SetAllLocks`). `ClearHandler` is
`clear_logs_for_cluster`; `cleared` is history, the clusters of which it erased an error.

**Hypervisor, Provisioning.** `Hypervisor` has for each VM id the machine there:
whose it is, its state, the task Proxmox runs on it, whether Kubernetes is
installed, its hosts file. `Answers` gives what becomes of a machine on a request
and whether the caller sees success: done and answered, done and the answer lost,
or refused. `Drifts` is what happens without makoon: tasks end, creations fail,
foreign machines come and go. `Provisioning` runs one use case at a time as a
program of such requests and of SSH commands; the programs of `CreateCluster`,
`AddToPeers`, `DetachNode`, `DeleteVms`, ... have the order of the Rust functions.
`get_existing_vms`, which recognises a machine by id *and* name, decides at run
time how the program goes on (`Find`, `Then`). Retries are a wait that ends when its
condition holds, or gives up.

**ClusterCreator, CreatorLists.** `EmptySlot` is the search of `generator.rs`: the
lowest base 100, 110, ... with no machine from the base to ten above it.
`generateNode` is the function of that name in the browser: one above the highest node
of the type, or, for the first of a type, at least five above (a worker) or five below
(a master) the lowest node. `CreatorLists` has the lists of apps and workloads. The
source finds a row by a name that the form itself may change or use twice, and a
proposal that comes late replaces both lists under an open dialog; a row therefore has
an identity of its own here, which the code does not have and the properties
speak of.

**CreatorWizard.** Five steps share one flag that disables Next. Each step sets it
when it is mounted and when its form changes; the step of nodes does so by a mobx
`autorun` that is never disposed of. `submitForm()` returns as usual when the form is
invalid by then, so `NextStep` goes on without the field. `generating` and `request`
outlive their wizard: the proposal of one that was closed, and the answer to its
request, come while another one is open. Others create and delete clusters
meanwhile; `known` is history, the names that clusters have or have had.

**ManagedNodes, ClusterPolls.** An action is what JavaScript runs between two awaits:
the answer of a call is put into the store and the next call of the chain is sent, in
one step. Each chain is a task, by the visit of the page (or the mount of the tab) that
began it. A call is for the cluster that the store shows when it is sent
(`/clusters/${name}`), its answer goes to the one shown when it comes. The
server is what its callers see of `ClusterLifecycle`: a handler is a step,
and so is what the worker does for an event. `ClusterPolls` has the chains of each tab
and abstracts an answer to the cluster whose machines it speaks of; `older` is history, the
lists whose answer was asked for before the cluster that is shown was loaded.

**ManagedApps, ManagedWorkloads.** The record says what a release should be, Helm has
the releases, and only the buttons of the dialog keep the two together. `helm` holds
the commands that run: a handler reads the record first, Helm then takes its
time. `indicator` is the store of indicators, shared by all pages; `dialog` and the
form's own `isSubmitting` go with the page. The form of a workload has one line of input,
so Enter submits it whatever is in progress, while the button Save is disabled
(`WorkloadsDialog.tsx:145-167`): `Submit` asks for a form that is filled in and for nothing else.
formik takes the end of any submission for the end of all (`Ended`), and a form is given
its workload anew when its id changes (`Reinitialized`). `pressed` is history: the visits in which
Enter went past the buttons. The form of an app has several lines, for which a browser
does not do this. `apps_status` answers Unknown for every app when SSH fails
(`Snapshots`).

**Session.** `key` is the key of the cookies, made anew at each start; `expired`
the tickets that Proxmox takes no longer. `Arrive` is the order in which the browser
treats an answer: first its cookie, then the interceptor, which sends the tab to the
login page on 401, then the code that asked. `polls` marks the one request that the
interval of the page on the screen waits for; the requests of a page that has gone
stay under way (`Forgotten`).

## 3. Runs

| run | instance | what it shows | states |
|---|---|---|---|
| `json_repository` | 2 threads, 1 name, 2 bodies, kills | mutex, truncation and error paths agree (`RepoInv`); the file holds every update unless saves overlapped, one was cut short, or a start could not open the file (`KeepsEveryUpdate`); only such a start erases what a broken file has left (`OnlyStartsErase`); the mutex is given back (`MutexReleased`); `RefinesStore` | 65 thousand |
| `operator` | 4 requests, channel of 2 | `OperatorInv`: the channel holds no more than it may, nothing runs twice, a stop loses only what came during the last sleep; FIFO (`RefinesQueue`); what is accepted is taken (`AcceptedIsTaken`), `send` and `drop` return (`CallsReturn`) | 17 thousand |
| `lifecycle` | pairs of node requests, one of them for a name that is used again; the log cleared beside a change or a deletion; both nodes deleted, with a kill; a cluster created, edited and deleted, with a kill | `LifecycleInv`: when all is quiet a record is Sync or Error, and the lock of the only node of its name is explained by an error in the log, unless that was cleared; a logged deletion happened, but for the last node or one added anew (`OnlyTheLastSurvives`); a record in a passing state gets settled (`GetsSettled`); `RefinesStore` | 407 thousand |
| `lifecycle_deletion_log` | both nodes deleted | *violation*, see section 6 | 17 thousand |
| `provisioning` | a master and a worker, or two masters and a worker, out of 3 nodes; 3 requests, or 2 and a kill, at most one id taken by somebody else | `ProvisioningInv`: a master remains, and after a run without failures Sync means whole; a record is erased only when its VMs are gone (`ErasedMeansGone`); no deleted node stays a member (`NoGhostMember`); foreign VMs are left alone (`ForeignIsSafe`); members know each other's addresses (`MembersResolve`) | 1.3 million |
| `cluster_creator` | 4 slots, 4 ids in use or not, up to 6 nodes made of each type; lists of 2 names | `StoreInv`: ids and names are distinct until a sixth master is made; five masters and six workers take no id that was in use (`PlanIsFree`); a saved form is found in the row that was clicked (`SavesTheClicked`), a deleted row is gone (`DeletedIsGone`) | 555 thousand |
| `creator_wizard` | one name, two wizards, two visits, up to 2 nodes, clusters of others that come and go | `StepsInv`: Next is open when its step is complete, what is sent has a name; it has settings, a master and complete nodes (`SentIsComplete`); each wizard asks at most once (`OneRequest`) | 2.5 million |
| `managed_nodes` | two clusters; two visits with an edit and a failure, or one visit with two edits | `NodesInv`: a dialog is about a node that is shown, a cluster keeps a master; when nothing is under way the page shows the server's nodes (`QuietMeansCurrent`); dialogs change the cluster of the URL (`EditsGoToPage`); shown locks go away (`LocksGoAway`) | 350 thousand |
| `cluster_polls` | two clusters, mounts of tabs, a failure | `PollsInv`: the statuses and logs in the store are of the cluster that is shown, unless they were asked for before it was loaded; a tab that stays open ends up with its own cluster (`BecomesFresh`) | 171 thousand |
| `managed_apps` | two visits, or another definition and a failure of a call, of Helm or of SSH | `AppsInv`: the list is that of the record, removals do not overlap; every release has a record (`ReleasesAreRecorded`); the dialog can be used again (`DialogUnlocks`) | 879 thousand |
| `managed_workloads` | two visits, two manifests, a failure | `WorkloadsInv`: the list is that of the record; one kubectl command at a time (`OneCommand`); what is applied is what is shown, unless Enter went past the buttons (`InstallsWhatIsShown`) | 1.2 million |
| `session` | a tab with two logins, a restart and a failure, or two tabs | `SessionInv`: polling ends only after a failure; a working session is left only by its user (`StaysIn`); a lost one is noticed (`LostSessionIsNoticed`) | 500 thousand |

Properties of the browser often say "unless", with a history variable: `crossed` (the
list last put into the store was out of date), `raced` (an app was changed or deleted by
a wrong status), `inDoubt` (a load overlapped an edit, or an answer was lost),
`overtaken` and `taken` of the wizard, `known` (a name that was once taken), `older` (asked for
before the cluster was loaded), `pressed` (Enter submitted a form while something was in progress),
and on the server `lost` and `cleared`. In each of these cases the code does end up
otherwise; the history variable is the exact condition, and everything outside it is
covered.

**Bounds.** The repository's hazards are between a writer and one other thread:
two threads have every overlap, and two bodies tell an old record from a new one. A
channel of two with four requests is full while two handlers wait, and empty while
the worker sleeps. In the lifecycle run, two handlers beside the worker make every pair
of overlapping accesses, each request is made at most once, and a channel of one makes
handlers wait. `Scenarios` lists what is requested in a behaviour and how
often the process is killed, so that one run has the pairs worth having and not
their product. In `Provisioning` three requests are enough for a failure, the
retry of what failed, and a use case that meets what both left; three nodes are enough
for a peer that is neither the master nor the node at hand; the clusters at first
(`OneOrTwoMasters`) are one to which a second master may be added and one whose
masters are deleted in turn; a kill is made up for by one
request less, and a foreign VM is at one id at a time (the constraint `Few`): a use case
may fail at any point anyway, and two foreign VMs are met one by one. In `ClusterCreator` the ids are both ends of a slot, the one behind
its end, and one inside another slot; six nodes of each type are one more than the
five masters and as many as the six workers that fit. In the browser, two
visits are enough for an answer that outlives its page, two clusters for one that goes
to the wrong one, two edits for two that overlap. `Bounds` of `ManagedNodes`,
`ManagedApps` and `Session` are sets of records that say how much of everything may
happen in one behaviour: two visits with a failure, or more edits without one. No
symmetry is used.

Deadlock is not checked where the system may stop: all requests made and served, every
bounded counter at its end, or the process down with an unreadable file.

**Fairness.** `JsonRepository`: weak fairness of the steps inside the critical
sections, because a thread in a system call returns; none for who gets the
mutex, because `std::sync::Mutex` promises nothing. `Operator`: weak fairness of
the worker, of a handler in `send`, and of `join`. It is assumed that a dispatch
ends: the loops of the use cases have retry limits, and the HTTP and SSH
libraries are assumed to return. `ClusterLifecycle`: weak fairness of each thread's
steps and of `Receive`, on the same grounds. `ManagedNodes`: the timer ticks, the
worker works and calls are answered, in the behaviours in which no call may fail
(`Reliable`). `ClusterPolls`: the timer ticks while the tab is mounted, and calls are
answered. `ManagedApps`: calls are answered and Helm ends, where `bound.fair`. `Session`:
the interval asks again and its question is answered. Users need do nothing, and
nothing is assumed of restarts, expiry or failures. The other modules have safety
properties only.

## 4. Proofs

All theorems are for any sets of names, bodies, entries, threads, requests, ids in use,
manifests, tabs and bounds, and any capacity in `Nat \ {0}`. The assumptions on
constants say that markers are outside the sets they mark (an unreadable file is not a
content, `None` is not a name or an answer) and that bounds are numbers. TLC evaluates
each of them in a run.

| theorem | says |
|---|---|
| `RepoInvariant`, `RepoDamageStays` | the mutex, the file and the process agree; damage stays until a start that cannot open the file |
| `RepoRefinesStore` | `JsonRepository` implements `SnapshotStore` |
| `RepoUniqueNames` | no name twice, in the file or in what a thread has loaded |
| `LostInvariant`, `UpdatesKept` | no update is lost except through an overlap, damage, or a start that cannot open the file |
| `HistoryWatches` | with its history, the repository does what it does without |
| `OperatorTypeOK`, `OperatorStop`, `OperatorAcceptedOnce`, `OperatorInvariant` | the channel and its worker |
| `OperatorRefinesQueue` | `Operator` implements `WorkQueue` |
| `LifecycleTypeOK` | the types and the bound of the channel |
| `LifecycleSettles` | `LifecycleInv`: nobody is left in a passing state, and no lock of the only node of its name is left without an error in the log |
| `DeletionsAreTrue` | `OnlyTheLastSurvives`: a node that was logged as deleted is gone, but for the last one and for one added anew |
| `LifecycleRefinesStore`, `LifecycleImplementsStore` | `ClusterLifecycle` implements `SnapshotStore` |
| `StoreIsSound` | `StoreInv`: the two halves of the wizard's store, for any number of nodes and rows |
| `StoreSavesTheClicked`, `StoreDeletes` | saving and deleting go to the row that was clicked |
| `PlanInvariant`, `PlanIsDistinct`, `PlanStaysFree` | ids and names of a new cluster |
| `WorkloadsOneCommand` | one kubectl command at a time, over all visits |
| `WorkloadsListed` | `WorkloadsInv`: the list of a page is that of the record, unless an edit was lost, refused or overlapped |
| `WorkloadsInstall` | `InstallsWhatIsShown`: kubectl gets the manifest that is shown, while the form is submitted by its button |
| `ProvisioningTypeCorrect`, `MasterKept` | types; a record keeps a master |
| `ErasedRecordLeavesNoVM` | an erased record leaves no VM, but one that was being created |
| `ForeignVmsAreSafe` | nothing is done to a VM of somebody else |
| `MembersHaveVMs`, `MembersKnowEachOther` | Kubernetes nodes have VMs and each other's addresses |
| `SyncMeansWhole` | `ProvisioningInv`: while nothing failed, a cluster at rest is in Sync and is what its record says |
| `WizardSendsComplete`, `WizardAsksOnce` | requests of the wizard are complete and made once |
| `WizardSteps` | Next is open only when its step is complete and, unless a cluster has freed its name, whenever it is; what was named stays so |
| `SessionInvariant`, `SessionStaysIn` | polls and cookies agree; a working session is kept |
| `NodesAreSound` | `NodesInv`: dialogs are about shown nodes, every cluster keeps a master |
| `QuietPagesAreCurrent` | `QuietMeansCurrent`: a page without locks, calls and events shows the server's nodes |
| `RequestsGoToPage` | `EditsGoToPage`: dialogs change the cluster of the URL |
| `PollsInvariant` | `PollsInv`: statuses of another cluster were asked for before this one was loaded |
| `AppsInvariant` | `AppsInv`: removals of apps do not overlap, and a list at rest is that of the record |
| `AppsReleases` | `ReleasesAreRecorded`: a release has an app in the record, unless one was changed on a wrong status |

The argument for the repository. Two lemmas say what an operation keeps of a
content: its type and that names are unique. `RepoInv` is the invariant of the mutex:
its holder is exactly the thread in a critical section, a thread has data exactly
between its read and its write, and the file is torn exactly while it must be. That
only one thread can be in `write` follows, and with it that `VisibleDB`, whose
definition chooses the writer, is what that writer will have written
(`VisibleInvariant`). The refinement proof then has one step per action.
`KeepsEveryUpdate` is not inductive: it says nothing of what a thread is about to
write. `LostInv` adds that as long as nothing was lost every snapshot not
marked as overtaken *is* the file, and that a file still to be created has no past; then a save
by a thread that is not overtaken writes the operation applied to the file.

For the channel, moving the head of the channel to the received events
leaves their concatenation alone (`MoveHead`), and appending a new request keeps it
injective (`AppendNew`).

`PlanInv` is what makes the ids come out right: within a type numbers follow ids
(`Numbered`); a master is less than `made` above the first id of the slot, and a
worker at least five above it (`Apart`), so that the two meet at the sixth master.
`MastersCounted` bounds the step to the first worker, which is taken from a list
of masters only: the last master cannot be deleted, so there is always one. Both ends
of a slot are looked at, eleven ids, which is why five masters and six workers fit
although slots begin ten apart.

`OneCommand` is inductive with little more than the shape of tasks (`CommandInv`): an
indicator that is up has exactly one call behind it, whichever page began it, and
while all of them are down no command is under way (`NoCommand`), which is what
the buttons look at.

`ListIsCurrent` of the same module only speaks of lists that no edit is changing.
`ListInv` says what holds meanwhile: an update is in the list of the page before it is in the
record, an addition and a deletion are in the record first, and a manifest that no call is
about is alike in both (`EditState`, `Sync`). For this no two edits under way may be of one
manifest and an id must be nobody's before its click (`Fresh`); a load that no edit
overlapped has the record's list for an answer (`CleanLoads`). Once a list and a record
agree on every id and neither has an id twice, they are equally long
(`SameLength`). What is installed is what is shown because, as long as nobody presses Enter
meanwhile, a form whose update is under way offers no command and waits for its own call
(`FormAlone`, `FormInv`). `RowFound`, `RowAppended`, `RowRemoved` and
`RowReplaced` of `PositionsProofs` say what the edits of a list do to each id, for this
module and for `ManagedApps`.

The list of apps is treated alike (`AppListInv`). Each of its two indicators of removals
is up exactly while one task has that removal under way, whichever visit began it, and
there is no second one (`RemovalInv`): the indicators are shared by all visits, and every
button looks at both. `RecordInv` carries `ReleasesAreRecorded`: what Helm has, and
what an installation that runs will give it, is in the record under its definition, and no
call that is under way may change that app or delete it (`Backed`, `Safe`); the buttons
that would make such a call are only offered on a status that says that there is no
release, and `raced` is when that status was wrong.

The edits of lists go by positions in their order (`Positions`), not by `SelectInSeq` and
`SelectSeq`, which are recursive: `find` takes the first of the positions that
fit, a filter keeps what the list has at them (`Kept`). `PositionsProofs` has the facts about
them (`NthProperties`, `KeptIs`), for the modules with lists.

`ListsInv` of `ClusterCreatorProofs` says of the lists of the wizard that rows have numbers
of their own, all of them given out already, and that the row that was clicked still has the name
the dialog remembers, unless a proposal has replaced the list (`Clicked`). As long as no two
rows have one name, going by this name therefore finds that row (`OnlyTheClickedStep`).
`StoreInv` is `ListsInv` and `PlanInv` together.

`WizardInv` of
`BrowserProofs` goes along the steps (`Passed`): behind the first step there are
settings, behind the third the nodes are complete, and whenever Next is open in the
third they are. `NoProposal` is why a late proposal cannot undo that: without one no
node has a type, so there is no master and no way past the third step. `Asked`
says that the flag of a request stays up as long as its wizard lives.
`SessionIInv` of `ServerProofs` says that no cookie, in the browser or under way, is of a
key that is still to come; so a cookie that does not work never works again, and a
denial that arrives late is still true of its cookie. That a page has at most one poll
of its own is what makes polling go on: only its answer ends it.

A thread of `ClusterLifecycle` runs a program, and what has to be shown of all programs
of operator.rs, dispatcher.rs and the use cases is that each save comes right behind the
instruction that made the copy it saves (`Fresh`, and `Sound` for the rest of a program
under way), and that data is held only at an instruction that writes (`Threading`). From
`LifecycleIInv` it follows that each load and each save of a handler or of the worker is one of
`SnapshotStore`'s, and that all other steps leave the file and the snapshots alone
(`Aside`).

`Settled` and `NoSilentLock` say something of the moments at which nothing is running, so
their invariant has to say who will do something about a mark until then.
`SettledIInv` of `ClusterLifecycleProofs`: as long as nothing was lost, a record in a
passing state has an event in the channel or a thread that will send one, save a final
state or erase the record whatever fails (`Owned`, `Owner`); a locked node has an event or a
thread that will unlock or remove it, or log an error, unless the error is there already
(`Explained`, `Unlocker`). `OwnerTail` and `OwnerFails`, and the same two for locks, go
through the programs once: a thread that answers for a mark still does one instruction
later, and when it fails. The two exits are a record that is gone and a node that is,
and then there is nothing to answer for. What the other threads save meanwhile does no
harm because a copy has the states and locks of the record it was taken from, but for
the mark of its own request (`CopyFits`), and the record is still that one when it is saved: this is where
`~lost` is needed, and where the names being unique is. At rest nobody answers for
anything, so there is nothing to answer for. All this is about nodes that are the only ones
of their name (`IsLocked`): of two the dispatcher unlocks the first, whichever was
meant, and nobody answers for the other. Clearing the log takes an explanation away,
which `cleared` records. The theorem assumes that the
nodes of a request to create a cluster are nodes and that the capacity is a number
(`ThreadAssumption`).

`OnlyTheLastSurvives` is about one moment, the one at which the dispatcher logs the
deletion, long after the use case has done it. `DeletionInv` says what the worker knows
about the node at each instruction of `DeleteNode` (`Deleting`): its copy has the node if
the record does (`Seen`), when it refuses that copy has one node (`Refused`), what it is
about to save lacks the node, and once that is saved the node is gone (`Gone`), or an
addition of the same name is on its way to the worker (`AddedAgain`). None of this is
undone by the other threads (`Stays`): what they save lists no node that their record did
not have, but that of their own addition (`NodesFit`), and that one has its event still
to come. An addition cannot reach the worker before the deletion is over, because
the worker runs one event after the other. No other program says that a node was deleted
(`Mute`). A first version of the property did not have `AddedAgain`; it held in the
instance then checked, which had no two requests for one name, and is false without it.

For the polls of the browser, the invariant has what the calls under way will bring
(`StaleKnown`): a call that is not for the cluster that is shown was under way when that
was loaded, and is in `overtaken`. It needs which calls there can be (`StatusCalls`,
`MayRun`), because each may send the next one of its chain, for the cluster shown by then.

The worker of `Provisioning` runs a program of instructions; a failed one or a kill cuts it
anywhere, and the next request runs against what is left. Invariants speak of the
rest of the program (`Ahead`, `Lacks`), not of a program counter, and `Ordered` says
what comes before what in it. Steps are sorted into a few classes by what they
change (`StepCases`: `Waits`, `Asks`, `Looks`, `Commands`, ...), so that each invariant is
proved once per class. `Only(ns, S)`, the nodes of `S` in the order of `ns`, replaces
the `SelectSeq` of the programs; what it returns is proved by induction over a set of
numbers (`SetInduction`, which needs no operator parameter).

* `BaseInv`: types, which use case has which instructions (`Scope`, `Shaped`), and a
  master in every record, and in what a deletion of a node would leave of it.
* `GoneInv`: every VM that nobody has asked to delete is in the record, unless a
  deletion overlooked it; a deletion of the cluster still has its `delete` ahead, or has yet
  to look for it, and so has a deletion of a node before it drops the node.
* `StrangerInv`: a VM that was foreign when the use case began still is, and what is
  asked at its id stands behind a creation there, which is refused (`Guarded`).
* `MemberInv`: members are in the record, and settled: running or stopped with no
  deletion asked. A deletion of a node that is past `remove`, or would delete, has a node that is no
  member any more.
* `HostsInv`: while a program creates or adds, every node that is or will be a member has the
  addresses of the copy, or its `setHosts` is ahead (`Informed`); no address is made
  known behind a join. `MembersKnowEachOther` assumes that no host name is part of
  another (`Matched[n] = {n}`): with `worker-1` and `worker-10` it is false.
* `TidyInv`: what a program stops it starts again behind that, unless it deletes; it
  creates nothing behind a start and readies nothing behind a join; the deletion of a node
  stops no VM but the node's. `WholeInv` speaks of a cluster in which nothing has failed and
  whose creation is not in the queue any more (`Due`). Between use cases its members are the
  nodes of the record, but for those whose `add` is in the queue, and they run
  (`Standing`). A creation has every node of its copy on the way up (`Rising`) and
  every node a member or its `join` ahead (`Forming`); an addition has that of its
  node; the deletion of a node drops no name and stops no VM before `remove` has
  succeeded (`Leaving`). That something fails falsifies `Due`, so only the steps that go on
  matter (`WorkIs`), and a program that has come to its end has nothing ahead.

`WizardSteps` needs to know what the shared flag means in each step while the proposal is
not late (`Flagged`), that behind the second step there is a name or it was taken
(`Named`), that a wizard still waiting for its proposal was not overtaken by it (`Once`), and
that a pending request has been sent (`OnItsWay`).

`QuietMeansCurrent` speaks of a moment at which nothing is under way; the invariant of
`ManagedNodesProofs` says of every list, in the store or brought by a call, what it is worth
until then (`Current`): the list goes with the set of edits it takes account of, and as
long as it shows no lock and the server has carried out no other edit (`Untouched`), it is
the server's and the queue has nothing for its cluster. It stays so in every step
(`CurrentKept`) because an edit that the server takes up is not in that set: a list that
knew of it would show its lock. A deletion of a node the list does not have is the one
edit that may be taken up otherwise, and the server refuses it, having the same list.
What remains is that lists begin so: a call is served when every job in the queue is
shown by a lock (`~Hidden`), and an answer is put into the store with all edits
that the store knows of among those it takes account of (`~crossed`). An edit whose
answer comes was carried out, and is known from then on (`ServedStays`); an answered
addition or deletion brings a lock with it, a change is shown before it is sent
(`ChangesTold`). `NameIsPages` says that the store shows the cluster of the URL, or the page
waits for it.

Model-checked only: the liveness properties (`MutexReleased`, `AcceptedIsTaken`,
`CallsReturn`, `GetsSettled`, `LocksGoAway`, `BecomesFresh`, `DialogUnlocks`,
`LostSessionIsNoticed`), which are out of the prover's reach. Every invariant and every
action property of a passing run is a theorem.

## 5. Abstractions and assumptions

* `ClusterLifecycle`: the nodes of a record are the locks of each name, in order, the
  progress logs of a use case are one or two, the contents that edits change (apps,
  resources, keys) are not told apart. `Work` succeeds or fails. Disk errors are in
  `JsonRepository` only, the panic of the worker in `Operator` only. A request is made
  at most once, so two creations of the same name do not overlap.
* A start that cannot open the file, and puts an empty one in its place, is in
  `JsonRepository` only: a kill in `ClusterLifecycle` finds the file again.
* `Settled`, `NoSilentLock`, `GetsSettled` say what holds unless an update was
  erased or the process killed, and the state says whether that happened. Both
  do happen in the code: section 1. `NoSilentLock` says nothing of two nodes with one
  name: the handlers lock both, or add a second one locked, the dispatcher
  unlocks the first, and the other stays locked without an error in the log.
* `Provisioning`: the record is read and written in single steps. A task that
  Proxmox accepted completes; only a creation may fail afterwards. Nobody else deletes
  makoon's machines. No host name is part of another one (`Matched`): `sed`
  deletes every line that contains the name, and with `worker-1` and `worker-10`
  `MembersResolve` would not hold. The handler of an added node gets a name that is
  new. `microk8s leave` changes nothing that is modelled: the membership is what the
  master's `remove-node` leaves of it.
* `ErasedMeansGone` excuses machines that were still being created, and so had no
  name yet, when a deletion listed what there is (`overlooked`).
* `ForeignIsSafe` is about machines that were foreign when the use case began
  (`strangers`), and not about `change_resources`, which goes by the id alone.
* `ClusterCreator`: what a user types over a proposal is left out. A name is its
  number, the address goes with the id. The list is a set: no two of its nodes are ever
  alike in everything. A creator without a proposal is in `CreatorWizard`.
* `CreatorWizard`: a form is one value, valid or not; a cluster's name stands for all
  fields of its step. A name is looked at when it is typed or its step is entered: that
  another cluster took it since, or gave it back, changes nothing on the screen.
* `NextFitsStep` lets Next stay disabled for a name that some cluster has or has had.
* `ManagedNodes`: the statuses of VMs and of Kubernetes nodes are one call, which
  always succeeds or fails; `ClusterPolls` tells them apart. The two pages of the
  browser that matter are a cluster and "elsewhere". A worker that runs an event is one
  step.
* `ClusterPolls`: an answer is the cluster it speaks of. How a node finds its status in an
  answer is not modelled: that of a VM by its id alone, which two records may share
  (`W/store/cluster-management-store.ts:67`), that of a Kubernetes node by "cluster-node", which
  is the same for "a" with a node "b-c" and "a-b" with a node "c".
* `ManagedApps`, `ManagedWorkloads`: one cluster, in Sync; definitions are opaque, and
  what the forms refuse is left out. kubectl is a command that
  takes its time; Helm succeeds, or fails with or without an effect.
* `Session`: of the guarded pages, the list of clusters. Requests of a tab that are alike
  in everything are one.

## 6. Findings and other facts

*A refused deletion is logged as done.* `delete_node_from_cluster.rs:27-33` refuses
to delete the last node: it logs an error and returns `Ok`. The dispatcher takes this
for success, logs "Node [...] has been deleted" (`dispatcher.rs:146-150`) and sets
the status to Sync, while the record has the node with its Delete lock. Run
`lifecycle_deletion_log` shows it with two accepted deletions.

Noticed on the way, none of them contradicted by the repository's documents:

* a start that cannot open the database, for whatever reason, replaces it by an empty one;
* of two nodes with one name the second is never unlocked, and no log says why;
* Enter in the name of a workload submits the form while an operation is in progress: an
  installation may read the manifest before or after the update it overlaps, and the
  end of one submission enables the buttons while the other is under way;
* nothing resumes or settles a record after a restart; the status OutOfSync is never set;
* a node deletion that failed after `remove-node` fails at `drain` when it is
  tried again, until the whole cluster is deleted;
* a sixth master gets the id of the first worker; a slot is proposed to everyone who
  asks until its machines exist; the form lets a VM id be 2^32, which the server's `u32`
  does not take, and a host name contain "|";
* the wizard sends a cluster without a name when the name was taken between
  typing and Next, or when the proposal came late (`W/views/cluster-creator/steps/cluster/index.tsx:34`);
* a request of the wizard that fails leaves it unable to ask again; the answer
  to a request hides whatever wizard is open on the page by then;
* a load that fails navigates to the list from whatever page the user has gone to since;
* the first tick of Logs before the cluster is loaded asks for the logs of "",
  fails, and ends the polling of that tab;
* the tab Workloads polls nothing, so that a session that is over is not noticed there;
* an error object is thrown into a store for texts (`W/utils/api.ts:16`), whose panel
  looks at its length and never shows it;
* edits of apps and workloads are put into the list before the call; when that fails the
  list shows what was never saved;
* an installation has no indicator that outlives the page: when the page is opened
  again, the app can be deleted while Helm installs it, and the release has no record.

## 7. Not modelled

The Proxmox, SSH and Helm clients (stateless wrappers; what they can answer is
in `Hypervisor`, the panic in `is_file_exists` in `Operator`); the sums of
`get_clusters`, from which nothing is derived; rendering, theme and the settings view;
the dialog that asks for the name of a cluster before it is destroyed
(`W/views/clusters-management/index.tsx:65-141`); what the login form remembers;
the panel of errors; what users type over the proposals of the wizard, and what the
patterns of the forms accept. Induction over data and liveness are beyond the
prover and are checked by TLC only.

## 8. Plan

1. *Done*: the server (database, repository, channel, lifecycle, provisioning), the
   browser (wizard, page of a cluster with its four tabs, sessions), and the proofs
   listed above.
2. `ClusterLifecycle`: the panic of the worker, and two creations of one name, with a
   property about the second request.
3. Statuses that `ClusterPolls` and `ManagedNodes` treat apart, in one module of the page.
