# A verification of the astro CLI

`astro` is the command line client of the Astrolift control plane: a single Go
program whose commands each run for a moment, keep a few files under the home
directory and talk to a server over HTTPS and WebSockets. Little of what can go
wrong in it is in one function. What can go wrong is between commands: two
terminals that use one credentials file, a start whose answer is lost and that
is repeated, a machine that loses power between two system calls, a record that
comes to stand for another execution while it is being watched, a list that
changes between two of its pages. This directory models those parts of the
program in TLA+, checks them with TLC and proves with TLAPS, for every value of the
constants, every safety property that a passing run checks on small ones.

Paths below are those of the repository (`cmd/...`, `internal/...`).

## 1. Inventory

| Component | State it keeps | Operations | Hard behaviours | Correct when |
| --- | --- | --- | --- | --- |
| Private files (`internal/privatefile`) | one file each: directory entry, inode | create exclusively, write, sync, sync the parent, replace by rename, remove | a kill or a power loss between system calls | what is read is whole, and what was synced stays |
| Reviewed starts (`pipeline_reviewed.go`, `workflow_definition_reviewed.go`, `cluster_agent_install.go`, `cluster_log_collector.go`, `reviewed_request_file.go`) | a request file: id, scope, target, version | start, recover, reconcile | repeated starts, lost answers, two processes on one file, power loss before or after dispatch | one file stands for one run |
| Credentials (`auth.go`, `internal/auth`, `helpers.go`, `internal/config`) | one credentials file per server | load, refresh, login, wait, logout | refresh against refresh, against logout, interruption after the server's answer | the stored token is the current one |
| Server configuration (`server.go`, `org.go`, `server_selection.go`) | `config.yaml` | add, use, remove, org use, load | truncated and then written without a lock, a stale slug after a 15 minute wait, a URL that is not the server's (`--api-url`) | the current server exists, stored credentials are of their server's URL |
| Self update (`update.go`) | the running binary and its backup | check, download, extract, replace | renames that fail, kills, two updates | a binary is left |
| Exec sessions (`exec.go`, `box.go`) | admission, input, exit code, terminal mode | open, pump stdin, forward interrupts, resize, read frames | four goroutines, admission before input, half close, `os.Exit` | the exit is the command's, the terminal is restored |
| Workflow executions (`workflow_execution*.go`, `workflow_run_control.go`, `agent_definition_reviewed.go`) | the pinned identity of one execution | watch, wait, stop, clean up, cancel, list stages | the record is rebound between two requests, readings fail | what is followed or hit is what was verified |
| Human gates (`workflow_gate.go`) | none | list, decide, status | two deciders, a decision repeated, a stage started anew | who is told so has decided |
| Agent sessions (`agent_session.go`, `internal/api/agent_host.go`) | a socket, a bounded channel, a cursor of durable events | attach, follow, dispatch, type, detach, watch | the echo of one's own action, a full channel, a broken connection | shown whole, typed without gaps |
| Logs, task output, inbox (`app_lifecycle.go`, `agent_log_tail.go`, `agent_dispatch.go`, `inbox.go`) | a cursor, the batch or text before, what was printed | tail, follow, page | overlapping windows, late lines, text without positions, retries | each once, in order, none missed |
| Changes of single things (`app_*.go`, `agent*.go`, `role.go`, `brain.go`, `project_*.go`, `zentinelle.go`, `workflow_config.go`, ...) | none | resolve a name, ask, send, compare the receipt | a name that comes to denote something else, others' edits, lost answers | what was shown is what is changed, reports are true, others' changes stay |
| Waits (`waitForBox` and eight others) | none | read, pause, give up | an end just before the deadline, removal, a namesake | the verdict is true, the wait ends |
| Walks over lists (eight of them) | cursors | next page, stop, give up | a list that changes, empty pages, a repeated cursor, a page cap | what is called complete is |
| Several changes in one command (`workflow_run_manifest.go`, `ci_setup.go`, `apply.go`, `agent_envspec.go`, `onboard_components.go`) | none | read, plan, change in order | one of them fails, the request of a run before arrives late | success means all of it |
| Cluster bootstrap (`cluster.go`, `internal/bootstrap`) | a temporary kubeconfig | look, install, upgrade, roll back, record | kills, two operators, a cluster lost while helm works or undoes its work, a wedged release | a release can be gone on from |
| Plan and dispatch of stories (`internal/plan`, `plan.go`, `agent_spec.go`) | none | decode, ready, dispatch | a manifest that is stale when a story is dispatched | the order of dependencies |
| API client (`internal/api/client.go`) | none | one exchange, no retry, a 30 s timeout | the answer of a request that took effect may be lost | - |
| Documentation, catalogues, output | none | printing | - | - |

How they interact. Every API command goes through `loadActiveClient`
(`cmd/helpers.go`): it loads `config.yaml`, then the credentials of the selected
server, and may refresh and store them. Every file that must survive a crash goes
through `internal/privatefile`. Nothing takes a lock anywhere: two invocations
meet only in the files and on the server.

## 2. Modules and what they correspond to

| Module | Models | State and actions, against the code |
| --- | --- | --- |
| `PrivateFile` | `internal/privatefile` | a file is what an open reads now, what its inode may hold after a power loss, and what an unsynced directory may show instead; one operator per system call |
| `StartOnce` | (abstract) what a reviewed start promises | requests committed to, requests that have a run; commit, start |
| `ReviewedStart` | the reviewed starts and reconciles | per process a stage, the command and the record in hand; the request files; the server's versions and runs. One action per system call or request, in the order of the code; `Stop` is every error return, timeout, interrupt or kill |
| `Credentials` | the credentials file of one server | per process a stage, the session polled, the credentials held and received, the temporary file. `Load`, `Refresh`, `Poll`, the four steps of `privatefile.Write`, `SignOut`, `Delete` |
| `ServerConfig` | `config.yaml` and the credentials beside it | per process a stage, the configuration it loaded and the credentials it uses, with the URL it uses them at. `TargetsOf` says what a command with `--server`, `--api-url` or `--token` may use: `AuthTargets` is `selectedServer`, `ClientTargets` `loadActiveClient`. `Load`, `Truncate`, `Write`, `DeleteCredentials`, `Login`, `AskRefresh`, `Refreshed` |
| `SelfUpdate` | `astro update` | the binary and the backup; per updater its stage, archive and extracted file. `Check`, `Download`, `Extract`, `Clear`, `Save`, `Install`, `Restore`, `Drop`, one per system call that matters; each may fail, and a failed `Restore` ends "stranded" |
| `ExecSession` | `runExec` | the main goroutine's variables, the stdin goroutine, the interrupt channel, frames both ways, the relay. One action per frame read or written, per read of stdin, per interrupt |
| `Execution` | the engine and the record (external) | status, cleanup and stages of every incarnation, and which one the record stands for |
| `WorkflowExecution` | the commands that follow and control it | per client the command, the pinned incarnation, the last row, what was shown or hit. One action per request with its validation |
| `AgentSession` | attachments to an agent host | the host's log; per attachment subscription, connection, channel, the action awaited, what was shown; the task's durable events. `RecvAction` is the transport's goroutine, `Receipt`/`Other`/`Expire` the answers a dispatch waits for, `Poll` the event watch |
| `LogFollow` | `app logs`, `--follow` | window, cursor, pages and batch of a walk; the seen set; the backend's lines with the time they were stored. `NextPage` per request, `ShowTail` and `ShowNew` per completed walk, `Wake` per interval |
| `TaskTail` | `agent logs --follow`, `dispatch --tail` | the text of the answer before; `ReadLogs` finds what an answer adds by the longest overlap; a dispatch then reads the status, and `Finalize` ends it with the task |
| `InboxFollow` | `inbox follow` | a cycle's cursor, pages and messages, the messages printed; `ReadPage`, `Retry` from the newest message, `PrintNext` |
| `CommandRows` | the type of a row | how a thing is found, what is asked, what the request carries, what is made of the answer, of an ok without its object (`bare`) and of a failed part (`partial`) |
| `AppCommands`, `AgentCommands`, `WorkflowCommands`, `AdminCommands` | 109 commands that change one thing | one row per command (or per way to use it), translated from its function; lookups and questions that several share are definitions of their own |
| `Changes` | any such command, run again and again | `Look`, `Send`, `Done`, `Bare`, `Denied`, `GiveUp` of the command, guarded by its row; `Apply`, `Replay`, `Refuse` of the server; `Rename`, `Edit`, `Remove` by others |
| `Waits` | nine loops that wait for an end | one row per loop: where it begins, what it reads by, when it looks at the clock. `Ask`, `Serve`, `Verdict`, `Again`, `Wake`, `Cut` |
| `Walks` | eight loops over pages | one row per loop: what becomes of a repeated cursor and of too many pages, what it looks for. `PageAt`, `Finish`, `GoOn`, `Capped` |
| `Setup` | five commands of several changes | one row per command: the steps, whether all reads come first, what flags leave out. `Reads`, `ReadStep`, `Skip`, `Send`, `Open`/`Fill` of a file, `RunAgain` |
| `Bootstrap` | `operator cluster bootstrap` | the helm release, and whether what was done to it last was cut off; per operator the step, options, temporary kubeconfig, the release as looked up. `Look`, `StartInstall`, `StartUpgrade`, `InstallFails` with the `RollBack` of an atomic install, `UpgradeFails`, `Forget`, `Record`; each piece of helm's work may get through or not |
| `HumanGate` | `workflow gate` | the decisions sent and what became of each, what the server admitted and recorded per Temporal run. `Decide` reviews and sends, `Answered` compares the receipt |
| `PlanDag` | `internal/plan`, `dispatch --spec` | parents, dependencies and labels; the statuses at the commit read and at the latest. `Decodes` and `StateOf` are the checks and the states of `Decode`; `Dispatch` uses what was read |

`ReviewedStart` and `Credentials` compose `PrivateFile`; `ReviewedStart` refines `StartOnce`;
`WorkflowExecution` extends `Execution`; `Changes` and its four tables extend `CommandRows`.

Eight modules hold the proofs, each beside what it is about: `ReviewedStartProofs`, `ChangesProofs`,
`WorkflowExecutionProofs`, `ExecSessionProofs`, `AgentSessionProofs`, `InstallationProofs` (of the three machines of
`MCInstallation`), `PollsProofs` (of the two of `MCPolls`) and `CommandsProofs` (of the seven of `MCCommands`).

`MC*` modules make small instances. Three of them hold several machines at once, because
these share nothing that is checked together: in `MCInstallation`, `MCPolls` and `MCCommands` a
behaviour is one of *one* of the machines, chosen by the initial state, and the variables
of the others are `"unused"` throughout. Their properties name the machine they are about and
conjoin that machine's own, whose comments say what they mean; the reader should look
there. Their sizes are constants with assumptions, which the `.cfg` files give values. `MCReviewedStart` chooses in the same way between two people on one version and one person on
two, and `MCAgentSession` the pairs of attachments.

Operators and actions whose comment begins with *A plausible slip* are not part
of any specification: each is a small mistake in the code that the properties
are tested against.

## 3. Runs

| Run | Shows |
| --- | --- |
| `reviewed_start` | two processes, one request file, one power loss; pipelines and definitions of two people, pipelines and installations whose target is edited. A file stands for one run; a definition is submitted once, by its owner; a record is never replaced; success means that the server took this very request; definition starts implement `StartOnce` |
| `installation` | what is kept on one machine, two processes at a time. Credentials: no torn file, the stored token is the current one, replaced and deleted ones stay gone, over a power loss. Configuration: the current server is registered, and stored credentials are of their server's URL, except after the disturbances the model names and where a command refreshed them at another URL. Binary: an update never loses it, whichever rename fails, and leaves nothing behind |
| `exec_session` | one session, reviewed or not: admission before input, order, the exit code, the terminal, and that admission is bounded in time |
| `workflow_execution` | any commands in sequence against two incarnations with two stages, lost readings and outages: a watch settles on what it watched, a wait reports the run it started, a control hits what it verified, a listing is of one run, a watch outlives outages |
| `agent_session` | two attachments of which one may type or steer: history and events are shown whole and in order, a verdict on one's action is the host's own, typed input is applied without gaps, an attachment ends |
| `changes` | every row on two objects that may share a name, twice: what was shown is what is changed (`HitsWhatWasShown`), what is said stays true (`ReportIsTrue`), a repeated request id takes effect once (`AtMostOnce`), and what others put in is undone by seven known commands that send a whole value, and by two that lay a change over what they read, which lose only what they had not read (`NothingUndone`) |
| `polls` | nine waits (the verdict is true, in time, and comes) and eight walks (what is called complete is, nothing twice, the one found is the one, the walk ends), whatever becomes of what they read |
| `commands` | `app logs` with late and reordered lines up to a page cap, a task's output with lines that repeat and answers that fail, an inbox with messages that come in while it is read: nothing twice, nothing out of order, nothing missed but what each property names. Several changes (in order, success means all), bootstrap (a release can be gone on from unless work on it was cut off, advice leads out, no trace), gates (who is told so has decided), plans (dependency order, never stuck) |
| `durable_before_dispatch`, `logout_sticks`, `removed_server`, `newly_appended` | violations: see Findings |

### Bounds

- *Two processes, people, operators, updaters.* Every property is about one and its rival;
  a third adds no conflict of a new kind, and the theorems cover any number.
- *One request file, two ids.* The properties are per file; two ids are what it takes to
  reserve two runs from it. *One power loss*: a second would find every file settled.
- *Two login sessions, one refresh each*: the smallest in which a refresh races another
  session's login and its own logout. The run's `VIEW` leaves out what no guard and none of its properties
  reads: the histories `removed` and `loggedOut` (the two violations about them are runs of their own), the
  configuration of a command that does not save it, and, once commands were disturbed, where credentials are from.
- *Two servers, two URLs*: a command can name a URL that is another server's, or nobody's.
- *Two incarnations, two stages*: a stale request has somewhere wrong to go, and a listing
  has more than one page; one stage a page stands for a hundred. One client: what
  another could change is what the platform changes on its own.
- *`Capacity`, `PageSize` 1* in `agent_session` stand for 256 and 100: full with the first entry. *Two
  chunks of input*: what it takes to leave a gap.
- *`changes`: two objects, two runs, two changes by others, one kind of edit*: a name can be taken over,
  and a late request of the first run can meet the second. The theorems drop these. The run's `VIEW` leaves out
  answers nobody waits for any more, and the flags once the question is past.
- *Bootstrap: two operators, two revisions*: a first install, and an upgrade over whatever became of it.
- *Streams: pages of one entry, two or three pages*: a walk of one page, of several, and one cut
  short. Three log lines, `Overlap` 2: a line may be delayed less than, exactly or more
  than it. Four lines of task output against a tail of two, drawn from four texts: equal and different lines,
  answers that overlap and that do not. A seen set of four against five messages.
- *Waits: poll 2, read 1, deadline 4, clock to 8*: the deadline falls into a pause, into a read and
  between. *Walks: five positions, pages of two, two pages*: an empty page, a full
  walk, a capped one. *Setup, gate: two runs or calls, one change by others*. *Plan: two stories in
  two groups, one dependency each*: a cycle through a group, an inherited dependency.

Deadlock checking is off in every run: a command ends, a bound is reached, and the
system may then stop.

### Fairness

Safety properties assume none. `ExecSession` assumes that the main goroutine runs and that
its 30 s read deadline comes, which the runtime and the deadline set in `exec.go` guarantee;
nothing is assumed of the relay. `WorkflowExecution` assumes that a watch goes on (`Look`) and
that a reading retried every few seconds is at some time answered (strong fairness of
`Poll`); `WatchSurvives` is stated under the condition that the engine is observable for
good after the end. `AgentSession` assumes that the attachment's goroutines run (`Runs`) and that the wait
for an echo expires (`Expire`, a timer of the code); nothing is assumed of the host or the
connection. In `MCPolls` time passes and the command takes its steps, and no read takes longer than
the client's 30 s timeout (`client.go:30`), so `WaitEnds` needs nothing of what is waited for; `WalkEnds`
needs only that the command goes on, and is claimed only of walks with a cap or that
refuse a cursor they had.

## 4. Proofs

Every theorem is of the form `Spec => []Property` (or a refinement, or an action property), for every
value of the constants that the modules' named assumptions admit. These assumptions say that sizes
and bounds are natural numbers, that model values differ (`NoLine`, the empty cursor, from every line), and nothing of the instances. No bound of
section 3 is a hypothesis of a theorem. Invariants were first checked by TLC on the instances of the runs.

### Reviewed starts (`ReviewedStartProofs`)

For every set of processes, files, scopes, targets, ids, any number of versions and of power
losses: `TypeCorrect`; `DefinitionOnce` and `RetriedOnce` (one run per request file); `KeyKept` (no
process replaces a record); `Refinement` (definition starts implement `StartOnce`); `OwnersOnly` (only
the owner of a record submits it); `NeverResubmitted` (a definition is submitted once);
`SuccessIsTrue` (who is told so has had this very request submitted).

That one file yields one run is not inductive: it needs to be known that a
process holding a record it has not yet written is the only one to do so, and that what
has been sent is still what the file says. `IInv` is the conjunction of `Typed`;
`OwnRecords` (a record in a file, on its way or in hand names that file); `HeldRecords` (what a process
holds past the file is what the file holds); `OneWriter` (between the creation and the
directory's sync, one process writes); `DefinitionsDurable` (a definition that was sent is in its
file for good, whatever a power loss does); `SentRecords` (what was sent is in its file,
unless a power loss undid it); `Sources` (runs come from requests on their way, and those from
sent ones). Each action has a lemma; most leave everything that matters alone and share
`QuietStep` and `HoldingStep`.

The two last theorems need more: that an id names one record, in whichever file, hand or
request it is met (`IdsUnique`, which holds because ids are drawn, `IdsDrawn`), and that the process which
created a definition's record is the only one that can submit it first (`FirstSubmissions`). A
power loss may undo the file, but not what was submitted, so the argument cannot go by the file.

### Changes (`ChangesProofs`)

For every table of commands, any number of objects, runs and changes by others: `HitsWhatWasShownHolds`,
`ReportIsTrueHolds`, `AtMostOnceHolds`, `NothingUndoneHolds`. Two of them have a hypothesis on the table
that the repository's rows meet, and a row that did not would fail the run `changes` (its mutants are such rows):
`DeletesResolved`, that what is deleted after it was resolved goes by id or with the label read, and
`OthersNameTheChange`, that the rows outside `Replacing` send the change and not the value, or, those in
`Recomputing`, the value read with the change laid over it.

That what a run says is true, and *stays* true, is not inductive: a request may be handled long after
its run gave up, and a later run may speak; and an answer is not the whole truth: an ok may come without its
object, and where the server reports a failed part (`partial`) a refusal may have saved the change. `IInv` adds to `TypeOK` and
`ReportIsTrue` that runs are numbered, so that one that has not sent has left no trace and no later run can send for
it (`Numbered`); that a request has one answer, which says what was done as far as its row allows (`Answers`); and that a
request is made from what its run had read (`Aims`). `Inductive` is `Spec => []IInv`, one lemma per conjunct;
in `ReportStep` the words of a run are shown to follow from the answer it got (`Told`). A failure means that nothing was
changed only in the rows that tell an ok without its object from a refusal (section 5 names commands that do not).

### Workflow executions (`WorkflowExecutionProofs`)

For any number of clients, incarnations and stages: `Followed`, `ControlsExact`, `StagesListed`. The record
may be rebound between any two readings, so nothing can be said about the record; `IInv` says
what may be said about the engine. `WorldInv`: incarnations follow one another, one that closed stays as
it closed. `Sound`: what a command holds, a verified row, a pinned run, a list of stages, is true
of the engine and *stays* true of all that may later become of it (`Later`); so a step of the world preserves it by
one lemma (`StaysSound`), and each action of a client has to be shown to establish it once. `Obeyed` relates what
was acknowledged to what was hit.

### Exec sessions (`ExecSessionProofs`)

For any amount of input and output: `TerminalAlwaysRestored`, `InputAlwaysArrives`, `EndAlwaysTrue`.

- *Admission.* The relay may answer more than once. What counts is its first answer, wherever on
  its way that is, so the invariant speaks of the first `ready` frame among those not yet taken.
- *Input.* `InputInv` numbers the data frames: the next one carries what follows the last, what was written
  is at most what was read, and the end of input comes behind all of it.
- *Output.* Whichever frame comes next, all output made before it has been printed or is ahead of
  it on its way; an exit frame is behind all of them. That is kept by what takes a frame (`TakenOutput`,
  `TakenOther`), adds one (`Replying`) or cuts the connection (`Cutting`), which each action is one of.
- *End.* The pending exit code is the process's, and the reported one is the pending one.

### Agent sessions (`AgentSessionProofs`)

For any number of attachments, any length of the log, and every size of channel and page: `PrintedWhole`,
`TheHostsVerdict`, `KeyboardInOrder`. Two queues lie between the host's log and what is printed, the
socket and the channel behind the transport's goroutine. The invariant is that together they are one run of consecutive numbers
(`Run`) from the one printed last, whatever has been cut off at its end. Of an
attachment's own actions all but the last lie behind it, because a second is sent only after the
echo, a refusal or the expiry of the first; that makes the echo which arrives *its* echo, and what
the host has accepted of the keyboard a prefix of what was typed. The many actions are reduced
to a few moves (`Turns`, `Taken`, `RepliedTo`, `Polled`) before the invariant is carried over them.

### What one machine keeps (`InstallationProofs`)

For any number of processes, servers, sessions, refreshes, power losses, releases:

- `BinaryNeverLost`, `NoTemporaryFiles`. While updates do not overlap one is under way, and `InstalledSoFar` says at each
  step of it where the old binary is. Every rename may fail; when the one that restores the backup fails too, the update ends
  "stranded", and what is claimed is that the backup is the binary it ran from.
- `ServersAlwaysConsistent`. `CurrentRegistered` holds however commands interleave, because every configuration
  that is loaded and not refused has a registered current server, and every change keeps that
  (`NotRefused`, `ChangedRight`). That credentials are of their server's URL needs that a command which changes
  config.yaml is alone (`Undisturbed`): then what it loaded is what the file says, and between truncation and write
  the pairing holds of what is about to be written. The servers in `strayed` are excepted, those whose credentials were last
  refreshed by a command that named another URL and no server; a login, or a refresh at home, takes a server out again.
- `CredentialsAlwaysCurrent`, `ReplacedNeverBack`. A command reads the file, the server rotates the token, the file is
  replaced in four steps. What was received and is not yet installed is the newest of its session and in
  nobody else's hand nor in the file (`NewestIsMine`); from that, the file holds the newest or someone is about to
  install it, and what a power loss may leave in its place is the newest or someone is still saving
  (`StoredNewest`). A session that is gone is in no hand (`GoneForGood`).

### Waits and walks (`PollsProofs`)

`WaitsTrue` holds for every interval, time of a read and deadline. A verdict is about the moment the read began, so
the invariant (`WaitAnswer`) says what an answer on its way, and a pause after it, imply about the time at which the
thing settled: at most one read and one pause before now. `ListsWhole` holds for every length, page size and cap:
all that was wanted, stayed throughout and lies before the cursor has been taken, and by a walk that
refuses a repeated cursor nothing after it (`ReadSoFar`).

### Commands of several steps (`CommandsProofs`)

- `GateConfirmedAlways`: a run's admitted decision never changes, and a record is of it.
- `NothingWedged`: a release that nobody is at work on can be upgraded, or what was done to it last was cut off, by a kill
  or by the loss of the cluster, which may keep helm's own undoing of a failed install from getting through
  (`ReleaseOwned`). For those the advice is what counts: whoever is told to uninstall has found a first revision that
  cannot be upgraded, and whoever is pointed at `--upgrade` one that was deployed once (`Sensible`).
- `SuccessMeansAll`, for any number of runs, from the five commands' lists only that their flags select steps of them: what lies before a run's next step it has behind it, and no
  request of it, however late, lies beyond (`Advanced`); what was not yet asked for is not done (`Untouched`).
- `PlanWorkedOff`, for every plan: `Behind` is transitive, so an accepted plan orders its stories, and of
  those that are left a minimal one is ready (`SomethingIsReady`). `PlanDag` defines ancestors and what is behind a story as
  smallest closed sets, not by recursion, so that this can be proved.
- `TaskPrintedWhole`, for every text and tail: the longest overlap is at least the true one, so no line is
  printed twice, and is the true one where lines differ and answers reach back (`OverlapIsLongest`, `NewLines`).
- `InboxPrintedWhole`, for every page size, page and retry limit. A message that came in behind no other and is not
  printed is newer than all that are (`UnseenAreNewer`); so the first message seen ends a cycle, and what came in since is
  left to the next. During the walk the messages passed are all that were there when it began, down to its cursor
  (`InboxWalk`); while they are printed, what is left is newer than what is printed (`InboxPrint`).
- `LogsPrintedWhole`, for every overlap, delay, page size and length of the tail, as long as no poll is cut off at the
  page cap. Up to its cursor the batch of a poll has the lines of its window that were stored before the poll
  began, and those that are printed (`BatchWhole`); only others may be stored behind the cursor while it is read. Between two polls the set of the batch before
  has every printed line that the next window may answer with (`SeenRemembered`), which is why nothing is printed
  twice. A line stored before the window's end, with no more delay than the overlap leaves, is in the
  window that was first read after it was stored, or was printed (`NoneSkipped`).

  Both read lists page by page, so both need to know what a page of an ordered set is. The models say by rank which element is
  where (`Newest`, `InOrder`), and `RanksAre`, `RanksTaken`, `ArrangedIs` prove for every strict total order on a finite set that
  this is the set in its order: ranks are injective, so by counting they take every value. `PageIs`: a
  page holds what comes before all that is left, and its last element bounds it. This takes the place
  of an induction over sorted sequences, which the installed provers cannot do.

### What is only model-checked

- Liveness (`AdmissionBounded`, `WatchSurvives`, `AttachmentEnds`, `WaitEnds`, `WalkEnds`), which is out of the prover's reach.
- The four violations of section 5, by their nature.

## 5. Findings

- `durable_before_dispatch`. `cluster_log_collector.go:280` says "The original private request
  file is durable before dispatch". A retry that *finds* a file submits from it without
  syncing it or its directory, so it may dispatch from a file another process has
  written and not synced; after a power loss the file may be gone. `RetriedStartedAtMostOnce`
  therefore excludes files that a power loss undid.
- `logout_sticks`. A command that has loaded the credentials before `auth logout` deletes them,
  and refreshes them, stores them again afterwards.
- `removed_server`. `server remove` reports success while a credentials file of the server
  may remain, or come back with a login that was waiting for its person.
- `newly_appended`. `app logs --follow` "prints only newly-appended lines"
  (`app_lifecycle.go:1155`), but its first poll goes back 30 s and knows only the lines of the
  tail (`--tail`, 200): what the last 30 s held beyond them is printed after it,
  older lines after newer ones.

Observations met while modelling, which no run states as a property:

- `update.go:49` and `:186` call the swap of the binary atomic; it is two renames (`:189`, `:192`), with a
  moment between them when only the backup exists. `BinaryKept` admits exactly that moment.
- When the rename that restores the backup fails, its error is dropped (`update.go:194`): the person is told that the
  installation failed, and not that the binary is now under `.old`.
- `selectedServer` refuses a `--api-url` that is not the URL of the server `--server` names, because it "pairs a registered
  endpoint with its credential namespace"; without `--server` nothing does, and `loadActiveClient` takes the override
  (`helpers.go:50`), sends the stored credentials of the current server there, and stores what it refreshed there under the
  server's name (`:75`, `:80`). `CredentialsPaired` excepts exactly these.
- `app move`, `project rename` and `delete`, and the other commands that test `!Ok || Data == nil` in one condition
  (`app_move.go:97`, `project_lifecycle.go:160`, `:200`, `brain.go:1285`, `role.go:394`, `app_tasks.go:185`, `zentinelle.go:314`), say "was not
  moved" and the like of a change that was made when the answer is an ok without its object. The configured workflows may
  be saved although the command fails, which its message says (`workflow_schedule.go:213`). `ReportIsTrue` names both.
- `app access` reads the object of an ok without looking whether it is there (`app_access.go:78`): it panics after the change.
- `app previews unpin` says that the preview "was not pinned; nothing changed" by what it read before it asked
  (`app_previews.go:1037`); the pin may have been set since, and is then removed. Of these words `ReportIsTrue` claims no more than
  that what was read was so.
- A bootstrap that finds an interrupted upgrade advises `--upgrade`, which finds the same
  pending release and fails, and so does one that finds a later revision whose uninstall was cut off; `AdviceLeadsOut` excepts
  both. A pending install of a colleague at work is called wedged, with the advice to uninstall it.
  A run that is killed leaves its temporary kubeconfig.
- Of what others do, `app access` and `brain substrate` lose what came in since they read, because they send whole lists without a
  version; `app access clear`, `domains update --dns-config`, `app manifest pull`, `agent callbacks configure`, `agent env-spec upsert`,
  `workflow import --replace` and `role update --permission` send the whole value, as some of their help texts say.
- `app access` asks only when the server's preview says that somebody loses access, and goes on without
  a question when the preview fails (`app_access.go:120`).
- A role is granted on the first project of a slug, which several teams may use (`role.go:542`).
- Commands without a request id take effect again when they are repeated after a lost answer: `agent
  dispatch` (`agent_dispatch.go:204`), `deploy`, `run-config`; and `run-manifest` makes new definitions each time.
- A story may be dispatched twice, from a manifest read before it was started.
- `dispatch --tail` loses what is written between its last read of the output and the end of the task.
- `run-cancel` names a workflow id without a run id, so `ControlExact` is not claimed for it; a stage
  listing that begins while the engine is out of sight may have no ids to pin (`StagesOfOneRun` excludes it).
- A poll of `app logs --follow` that reaches the page cap loses lines without a note, while the tail warns.
- The watch of a task whose last events are gone asks for ever, if the host answers an empty page with a
  sequence past the cursor (`AttachmentEnds` takes the last event to be kept). With `--client-id` a late echo
  may be taken for that of a later action (`VerdictIsTheHosts` takes identities to be fresh). A notification
  that cannot be parsed ends the transport without closing the channel (`agent_host.go:66`).

## 6. What is external, and what is abstracted

The control plane, the engine, the relay, helm, the file system and people are modelled from
what the code and its tests expect of them. Start mutations are taken to be idempotent
in the request id and refused when the version has moved on, refresh tokens to be
rotated at each use, a record to be rebound only to a newer incarnation. The agent host is taken to keep
one log of actions, to answer a subscription with a snapshot and then with what follows it, and to let
no two clients share an id; the log backend to answer a window from oldest to newest, page by page, a line never being the empty cursor; the
inbox to be listed newest first with a keyset cursor. The server of `Changes` applies a request whole,
checks the version or label it carries, and answers a repeated request id with the first
receipt; its ok may come without the object of the change, and in the rows called `partial` its failure after the change was
saved. Two API URLs may be addresses of one control plane, so that what one has issued the other refreshes. A gate's server admits one decision per Temporal run. Helm installs where no release of the name
is and upgrades one that was deployed once and has nothing pending; its work, and the undoing of a failed install, may be cut off at any
point and then leaves the release pending, failed or being uninstalled, as earlier runs may have left it before the first step.

Abstracted everywhere: flags and their validation, wording, JSON and YAML as texts, digests and
names determined by what is modelled, and, except in `Waits` and `LogFollow`, the clock (a deadline may
pass at any time; a token may be near its expiry or not). Statuses the code treats alike are one
(`terminated` and `timed_out` with `cancelled`). One record, one workflow id, one release, one gate are modelled, so
answers about another one, which the code refuses, have no counterpart. The parents in `PlanDag` are groups, as in the manifests the planner
writes; the decoder would take a story for a parent too (`plan.go:58`).

## 7. Not modelled

- *The API client*: one exchange per call, without state; its outcomes are in every module that sends.
- *Listings, displays, catalogues, documentation, version notices*: they read once and print; the walks that
  page through a list are in `Walks`.
- *Validation of flags and manifests, YAML shapes, chart values, prompts of `onboard`*: pure, and tested as such.
- *The Windows variants and file modes*: another file system's semantics.
- *`install.sh`, `version_check.go`, `staleness.go`*: a shell script, and notices about a cached reading.
- *The SDK behind the agent host, the engine, helm and the control plane*: outside the repository.

What would come next: an abstract specification of a delivery that says each thing once and in order, which the three
streams and the inbox implement; and models of what `run-cancel` and a task whose last events are gone
should do, once the code says it.
