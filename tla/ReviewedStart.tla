--------------------------- MODULE ReviewedStart ---------------------------
(***************************************************************************)
(* Reviewed starts: `pipeline run` / `pipeline reconcile` (cmd/            *)
(* pipeline_reviewed.go), `workflow definition-start` /                    *)
(* `definition-reconcile` and `agent run` (cmd/                            *)
(* workflow_definition_reviewed.go), `operator cluster install-agent` and  *)
(* `install-log-collector` (cmd/cluster_agent_install.go, cmd/             *)
(* cluster_log_collector.go), with the request file they all keep (cmd/    *)
(* reviewed_request_file.go, cmd/cluster_log_collector_request.go).        *)
(*                                                                         *)
(* A start writes its request identity to a private file, makes the file   *)
(* durable, and only then submits the request.  Invocations run in several *)
(* processes that know nothing of each other; each may be killed, or give  *)
(* up on an error, between any two steps; the machine may lose power; the  *)
(* server may take a request, lose it, or take it and lose the answer.     *)
(***************************************************************************)
EXTENDS Naturals, FiniteSets

CONSTANTS
  Kinds,        \* the kinds of reviewed start in play
  Procs,        \* processes of the CLI on one machine
  Files,        \* values of --request-file
  Scopes,       \* (server, organization, actor) triples
  Targets,      \* a pipeline with its branch, a definition, or a cluster
  MaxVersion,   \* bound: reviewed versions of a target
  Ids,          \* bound: the request ids uuid.NewString may draw
  MaxLosses,    \* bound: power losses
  Absent, Partial,   \* see PrivateFile
  NoRequest,    \* the nil *reviewedStartRequest
  NoJob         \* a process that runs no command

Versions == 1 .. MaxVersion

(* A request record; file is the name it was created under (a ghost, read  *)
(* by the properties alone).  Format, TargetName and the digests are fixed *)
(* by the other fields and left out.                                       *)
Request == [id : Ids, kind : Kinds, file : Files, scope : Scopes,
            target : Targets, version : Versions]

(* One invocation: the command and its arguments.  Installations have no   *)
(* reconcile command.                                                      *)
Jobs == {j \in [cmd : {"start", "reconcile"}, kind : Kinds, file : Files,
                scope : Scopes, target : Targets] :
           j.kind = "install" => j.cmd = "start"}

ASSUME KindsKnown == Kinds \subseteq {"pipeline", "definition", "install"}

ASSUME Distinct ==
  /\ Absent # Partial
  /\ Absent \notin Request /\ Partial \notin Request
  /\ NoRequest \notin Request /\ NoJob \notin Jobs

ASSUME Bounds == MaxVersion \in Nat \ {0} /\ MaxLosses \in Nat

VARIABLES
  pc,         \* where each process is
  job,        \* the command it runs
  req,        \* the request record it holds
  file,       \* the request files
  version,    \* the current version of each target, on the server
  inflight,   \* submissions on their way to the server
  runs,       \* requests the server has reserved a run for
  submitted,  \* runs whose engine submission is confirmed
  drawn,      \* request ids drawn so far: a UUID never comes twice
  losses,     \* power losses so far
  sent, resent,         \* history: requests submitted, and more than once
  erased,     \* history: files whose submitted record a power loss undid
  receipts    \* history: requests a command reported as submitted

cli == <<pc, job, req>>
server == <<version, runs, submitted>>
history == <<sent, resent, erased>>
vars == <<pc, job, req, file, version, inflight, runs, submitted, drawn,
          losses, sent, resent, erased, receipts>>

PF == INSTANCE PrivateFile

Stages == {"idle", "read", "recover", "review", "create", "write", "sync",
           "syncdir", "send", "await"}

-----------------------------------------------------------------------------
(* checkScope, checkDefinitionRequest, checkRecoverySelector and the       *)
(* selector checks that follow: reconcile takes its target from the record.*)
InScopeForAnyone(j, r) ==
  r.kind = j.kind /\ (j.cmd = "start" => r.target = j.target)

InScope(j, r) ==
  /\ r.kind = j.kind
  /\ r.scope = j.scope
  /\ j.cmd = "start" => r.target = j.target

(* checkPipelineStart, checkDefinitionStart, checkClusterAgentInstall: the *)
(* answer establishes the run of request r.                                *)
Establishes(run, r) ==
  /\ run.id = r.id /\ run.target = r.target
  /\ run.kind # "install" => run.version = r.version

(* What an answer about run must show for its command to succeed: the      *)
(* engine submission, or for an installation its acceptance.               *)
ConfirmedOnceReserved(run) == run \in runs

Confirmed(run) == run \in (IF run.kind = "install" THEN runs ELSE submitted)

(* A retained record that the server knows no run for is submitted again   *)
(* by `pipeline run`, never by `workflow definition-start`.                *)
MayResubmitAny(j) == j.cmd = "start"

MayResubmit(j) == j.cmd = "start" /\ j.kind = "pipeline"

NewRequestUnversioned(j, id) ==
  [id |-> id, kind |-> j.kind, file |-> j.file, scope |-> j.scope,
   target |-> j.target, version |-> 0]

NewRequest(j, id) ==
  [id |-> id, kind |-> j.kind, file |-> j.file, scope |-> j.scope,
   target |-> j.target, version |-> version[j.target]]

-----------------------------------------------------------------------------
At(p, here) == pc[p] = here
GoTo(p, there) == pc' = [pc EXCEPT ![p] = there]

End(p) ==
  /\ pc' = [pc EXCEPT ![p] = "idle"]
  /\ job' = [job EXCEPT ![p] = NoJob]
  /\ req' = [req EXCEPT ![p] = NoRequest]

Begin(p, j) ==
  /\ At(p, "idle")
  /\ GoTo(p, "read")
  /\ job' = [job EXCEPT ![p] = j]
  /\ UNCHANGED <<req, file, server, inflight, drawn, losses, history, receipts>>

(* readReviewedRequest fails with os.ErrNotExist: a start goes on to       *)
(* review its target, a reconcile is an error (Stop).                      *)
ReadAbsent(p) ==
  /\ At(p, "read") /\ job[p].cmd = "start"
  /\ file[job[p].file].now = Absent
  /\ GoTo(p, "review")
  /\ UNCHANGED <<job, req, file, server, inflight, drawn, losses,
                 history, receipts>>

(* A record of this scope and target.  An installation goes straight on to *)
(* submit it again; the others ask for its run first.                      *)
ReadRecord(p) ==
  LET r == file[job[p].file].now IN
  /\ At(p, "read") /\ r \in Request /\ InScope(job[p], r)
  /\ GoTo(p, IF r.kind = "install" THEN "send" ELSE "recover")
  /\ req' = [req EXCEPT ![p] = r]
  /\ UNCHANGED <<job, file, server, inflight, drawn, losses, history,
                 receipts>>

(* The server shows a run for the original request: the command reports    *)
(* it.  A start succeeds only if the engine submission is confirmed;       *)
(* reconcile succeeds either way and claims less.                          *)
RecoverRun(p) ==
  /\ At(p, "recover")
  /\ \E run \in runs :
       /\ Establishes(run, req[p])
       /\ job[p].cmd = "start" => Confirmed(run)
       /\ receipts' = IF Confirmed(run) THEN receipts \cup {req[p]} ELSE receipts
  /\ End(p)
  /\ UNCHANGED <<file, server, inflight, drawn, losses, history>>

(* The server shows no run, because there is none yet or none visible. *)
RecoverNothing(p) ==
  /\ At(p, "recover") /\ MayResubmit(job[p])
  /\ GoTo(p, "review")
  /\ UNCHANGED <<job, req, file, server, inflight, drawn, losses,
                 history, receipts>>

(* --yes was given.  A new request takes the version just read; a retained *)
(* record goes on only while its version is still the target's.            *)
ReviewNew(p, id) ==
  /\ At(p, "review") /\ req[p] = NoRequest
  /\ id \notin drawn
  /\ GoTo(p, "create")
  /\ req' = [req EXCEPT ![p] = NewRequest(job[p], id)]
  /\ drawn' = drawn \cup {id}
  /\ UNCHANGED <<job, file, server, inflight, losses, history, receipts>>

ReviewRetained(p) ==
  /\ At(p, "review") /\ req[p] # NoRequest
  /\ req[p].version = version[req[p].target]
  /\ GoTo(p, "send")
  /\ UNCHANGED <<job, req, file, server, inflight, drawn, losses,
                 history, receipts>>

(* createReviewedRequest, one system call at a time. *)
FileStep(p, here, there, content) ==
  /\ At(p, here)
  /\ file' = [file EXCEPT ![job[p].file] = content]
  /\ GoTo(p, there)
  /\ UNCHANGED <<job, req, server, inflight, drawn, losses, history,
                 receipts>>

CreateFile(p) ==
  /\ At(p, "create") /\ PF!CanCreate(file[job[p].file])
  /\ FileStep(p, "create", "write", PF!Create(file[job[p].file]))
WriteRecord(p) ==
  FileStep(p, "write", "sync", PF!Written(file[job[p].file], req[p]))
SyncRecord(p) ==
  FileStep(p, "sync", "syncdir", PF!Synced(file[job[p].file]))
SyncDir(p) ==
  FileStep(p, "syncdir", "send", PF!ParentSynced(file[job[p].file]))

Send(p) ==
  /\ At(p, "send")
  /\ inflight' = inflight \cup {[req |-> req[p], by |-> job[p]]}
  /\ sent' = sent \cup {req[p]}
  /\ resent' = resent \cup ({req[p]} \cap sent)
  /\ GoTo(p, "await")
  /\ UNCHANGED <<job, req, file, server, drawn, losses, erased, receipts>>

(* The answer to the submission.  Anything else (a refusal, another run, a *)
(* lost answer, an unconfirmed submission) is an error: Stop.              *)
Answer(p) ==
  /\ At(p, "await")
  /\ \E run \in runs : Establishes(run, req[p]) /\ Confirmed(run)
  /\ receipts' = receipts \cup {req[p]}
  /\ End(p)
  /\ UNCHANGED <<file, server, inflight, drawn, losses, history>>

(* Every other way a command ends: a check that fails, an error return, a  *)
(* timeout, an interrupt, a kill.  What it has written or sent stays.      *)
Stop(p) ==
  /\ pc[p] # "idle"
  /\ End(p)
  /\ UNCHANGED <<file, server, inflight, drawn, losses, history, receipts>>

-----------------------------------------------------------------------------
(* The control plane: start mutations are idempotent in the request id and *)
(* refused when the version has moved on.  A submission that is lost is one *)
(* that is never taken up here.                                            *)
Reserve(m) ==
  /\ m \in inflight
  /\ inflight' = inflight \ {m}
  /\ runs' = IF m.req.version = version[m.req.target]
             THEN runs \cup {m.req} ELSE runs
  /\ UNCHANGED <<cli, file, version, submitted, drawn, losses, history,
                 receipts>>

Engine(r) ==
  /\ r \in runs
  /\ submitted' = submitted \cup {r}
  /\ UNCHANGED <<cli, file, version, inflight, runs, drawn, losses,
                 history, receipts>>

EditTarget(t) ==
  /\ version[t] < MaxVersion
  /\ version' = [version EXCEPT ![t] = @ + 1]
  /\ UNCHANGED <<cli, file, inflight, runs, submitted, drawn, losses,
                 history, receipts>>

(* The machine loses power: every process ends, and each file is what its  *)
(* inode and its directory happen to hold.                                 *)
PowerLoss ==
  /\ losses < MaxLosses
  /\ losses' = losses + 1
  /\ pc' = [p \in Procs |-> "idle"]
  /\ job' = [p \in Procs |-> NoJob]
  /\ req' = [p \in Procs |-> NoRequest]
  /\ \E left \in [Files -> UNION {PF!AfterLoss(file[f]) : f \in Files}] :
       /\ \A f \in Files : left[f] \in PF!AfterLoss(file[f])
       /\ file' = [f \in Files |-> PF!Settled(left[f])]
       /\ erased' = erased \cup
            {f \in Files : file[f].now \in sent /\ left[f] # file[f].now}
  /\ UNCHANGED <<server, inflight, drawn, sent, resent, receipts>>

-----------------------------------------------------------------------------
Init ==
  /\ pc = [p \in Procs |-> "idle"]
  /\ job = [p \in Procs |-> NoJob]
  /\ req = [p \in Procs |-> NoRequest]
  /\ file = [f \in Files |-> PF!Settled(Absent)]
  /\ version = [t \in Targets |-> 1]
  /\ inflight = {} /\ runs = {} /\ submitted = {}
  /\ drawn = {} /\ losses = 0
  /\ sent = {} /\ resent = {} /\ erased = {} /\ receipts = {}

Cli(p) ==
  \/ \E j \in Jobs : Begin(p, j)
  \/ ReadAbsent(p)
  \/ ReadRecord(p)
  \/ RecoverRun(p)
  \/ RecoverNothing(p)
  \/ \E id \in Ids : ReviewNew(p, id)
  \/ ReviewRetained(p)
  \/ CreateFile(p)
  \/ WriteRecord(p)
  \/ SyncRecord(p)
  \/ SyncDir(p)
  \/ Send(p)
  \/ Answer(p)
  \/ Stop(p)

ControlPlane ==
  \/ \E m \in inflight : Reserve(m)
  \/ \E r \in runs : Engine(r)
  \/ \E t \in Targets : EditTarget(t)

Next == (\E p \in Procs : Cli(p)) \/ ControlPlane \/ PowerLoss

Spec == Init /\ [][Next]_vars

-----------------------------------------------------------------------------
(* Every variable holds a value of its type. *)
TypeOK ==
  /\ pc \in [Procs -> Stages]
  /\ job \in [Procs -> Jobs \cup {NoJob}]
  /\ req \in [Procs -> Request \cup {NoRequest}]
  /\ file \in [Files -> PF!FileOver(Request)]
  /\ version \in [Targets -> Versions]
  /\ inflight \subseteq [req : Request, by : Jobs]
  /\ runs \subseteq Request /\ submitted \subseteq runs
  /\ drawn \subseteq Ids /\ losses \in 0 .. MaxLosses
  /\ sent \subseteq Request /\ resent \subseteq sent
  /\ erased \subseteq Files /\ receipts \subseteq Request

SameFileOnce(S) == \A r, s \in S : r.file = s.file => r = s

OfKind(S, k) == {r \in S : r.kind = k}

(* However often `definition-start` is repeated with one request file, by  *)
(* however many processes, and whatever is killed, lost or powered off in  *)
(* between, the file stands for one run: createReviewedRequest makes the   *)
(* record durable before the mutation, and a file that exists is never     *)
(* submitted from again.                                                   *)
DefinitionStartedAtMostOnce == SameFileOnce(OfKind(runs, "definition"))

(* The inputs of a definition are submitted once, ever: "an existing       *)
(* request file only reconciles the original request".                     *)
DefinitionNeverResubmitted == OfKind(resent, "definition") = {}

(* The file of a `pipeline run` or of an installation stands for one run   *)
(* too, although it is submitted from again and again, as long as the file *)
(* is not undone by a power loss after it was submitted from.              *)
RetriedStartedAtMostOnce == SameFileOnce({r \in runs : r.file \notin erased})

(* "The original private request file is durable before dispatch": what    *)
(* has been submitted can be reconciled from its file after a power loss.  *)
DurableBeforeDispatch ==
  \A p \in Procs : pc[p] = "await" => PF!Durable(file[job[p].file])

(* A command that exits with success for a submission has seen the engine  *)
(* take that very request (printPipelineStartOutcome, printDefinitionStart)*)
(* and not a run of someone else's request on the same target; an          *)
(* installation has seen its own request accepted.                         *)
SuccessMeansSubmitted ==
  \A r \in receipts : r \in runs /\ (r.kind # "install" => r \in submitted)

(* A record is submitted by the server, organization and actor it was made *)
(* by, for the target its command names, and never by reconcile.           *)
SubmittedByItsOwner ==
  \A m \in inflight : /\ m.by.cmd = "start"
                      /\ m.by.scope = m.req.scope
                      /\ m.by.target = m.req.target

(* "Exclusive creation prevents a second process from replacing a          *)
(* persisted key": no process puts another record, or a torn one, in the   *)
(* place of a record.                                                      *)
KeyNeverReplaced ==
  [][\A f \in Files : file[f].now \in Request /\ file'[f].now # file[f].now
                      => losses' # losses]_vars

(* Definition starts are the promise of StartOnce. *)
Promise == INSTANCE StartOnce WITH
  Request <- OfKind(Request, "definition"),
  committed <- OfKind(sent, "definition"),
  started <- OfKind(runs, "definition")

(* Every behaviour of the definition commands is a behaviour of StartOnce. *)
ImplementsStartOnce == Promise!Spec
=============================================================================
