---------------------------- MODULE Credentials ----------------------------
(***************************************************************************)
(* The stored credentials of one registered server (internal/config/       *)
(* config.go, a file of internal/privatefile) and the commands that read,  *)
(* refresh, replace and delete them: every API command through             *)
(* loadActiveClient (cmd/helpers.go), and `auth login`, `wait`, `refresh`  *)
(* and `logout` (cmd/auth.go, internal/auth/auth.go).                      *)
(*                                                                         *)
(* The commands are processes that take no lock.  Each may be killed or    *)
(* fail between any two steps, and the machine may lose power.  The server *)
(* issues a session to a login a person approves, and rotates the refresh   *)
(* token at every refresh.                                                 *)
(***************************************************************************)
EXTENDS Naturals, FiniteSets

CONSTANTS
  Procs,        \* processes of the CLI on one machine
  Sessions,     \* device-flow sessions the server may start
  MaxGen,       \* bound: refreshes of one session
  MaxLosses,    \* bound: power losses
  Absent, Partial,   \* see PrivateFile
  NoCred,       \* no credentials in hand
  NoSession     \* no session in hand

Commands == {"call", "refresh", "login", "wait", "logout"}

(* Credentials: the session they belong to and how often it was refreshed. *)
(* The access token, the refresh token and the expiry go together.         *)
Cred == [session : Sessions, gen : 0 .. MaxGen]

Distinct ==
  /\ Absent # Partial /\ Absent \notin Cred /\ Partial \notin Cred
  /\ NoCred \notin Cred /\ NoSession \notin Sessions

Bounds == MaxGen \in Nat /\ MaxLosses \in Nat

VARIABLES
  pc, cmd,      \* where each process is, and in which command
  session,      \* the login session it polls
  held,         \* the credentials it has loaded
  fresh,        \* the credentials it has received and not yet installed
  tmp,          \* its temporary file
  store,        \* the credentials file
  stage,        \* server: what has become of each session
  gen,          \* server: the refresh token each session accepts
  losses,       \* power losses so far
  lost,         \* history: sessions with a refresh that was interrupted
  gone,         \* history: sessions no file or process has any more
  loggedOut     \* history: sessions whose credentials a logout loaded and deleted

cli == <<pc, cmd, session, held, fresh, tmp>>
server == <<stage, gen>>
history == <<lost, gone, loggedOut>>
vars == <<pc, cmd, session, held, fresh, tmp, store, stage, gen, losses,
          lost, gone, loggedOut>>

PF == INSTANCE PrivateFile

Steps == {"idle", "load", "decide", "start", "poll", "stage", "sync", "rename",
          "syncdir", "signout", "delete"}

Saving == {"stage", "sync", "rename", "syncdir"}

Issued == {k \in Sessions : stage[k] \in {"live", "dead"}}

NotStored ==
  {k \in Issued : store.now \notin Cred \/ store.now.session # k}

-----------------------------------------------------------------------------
At(p, here) == pc[p] = here
GoTo(p, there) == pc' = [pc EXCEPT ![p] = there]

End(p) ==
  /\ pc' = [pc EXCEPT ![p] = "idle"]
  /\ cmd' = [cmd EXCEPT ![p] = "none"]
  /\ session' = [session EXCEPT ![p] = NoSession]
  /\ held' = [held EXCEPT ![p] = NoCred]
  /\ fresh' = [fresh EXCEPT ![p] = NoCred]
  /\ tmp' = [tmp EXCEPT ![p] = PF!Settled(Absent)]

Alone(p) == \A q \in Procs \ {p} : pc[q] = "idle"

Begin(p, c) ==
  /\ At(p, "idle") /\ c # "wait"
  /\ GoTo(p, IF c = "login" THEN "start" ELSE "load")
  /\ cmd' = [cmd EXCEPT ![p] = c]
  /\ UNCHANGED <<session, held, fresh, tmp, store, server, losses, history>>

(* `auth wait`: the session id is all that is known of the login. *)
BeginWait(p, k) ==
  /\ At(p, "idle") /\ stage[k] # "unused"
  /\ GoTo(p, "poll")
  /\ cmd' = [cmd EXCEPT ![p] = "wait"]
  /\ session' = [session EXCEPT ![p] = k]
  /\ UNCHANGED <<held, fresh, tmp, store, server, losses, history>>

(* LoadCredentials.  Without a readable file a logout goes on to delete,   *)
(* the others end with an error (Stop).                                    *)
Load(p) ==
  /\ At(p, "load") /\ store.now \in Cred
  /\ held' = [held EXCEPT ![p] = store.now]
  /\ GoTo(p, IF cmd[p] = "logout" THEN "signout" ELSE "decide")
  /\ UNCHANGED <<cmd, session, fresh, tmp, store, server, losses, history>>

LoadNothing(p) ==
  /\ At(p, "load") /\ store.now \notin Cred /\ cmd[p] = "logout"
  /\ GoTo(p, "delete")
  /\ UNCHANGED <<cmd, session, held, fresh, tmp, store, server, losses, history>>

(* loadActiveClient, when the access token has more than a minute to live; *)
(* the clock is left out, and a call may find its token near expiry or not. *)
Use(p) ==
  /\ At(p, "decide") /\ cmd[p] = "call"
  /\ End(p)
  /\ UNCHANGED <<store, server, losses, history>>

(* RefreshCredentials: the server takes the refresh token it last issued   *)
(* for a live session, and answers with the next of the chain.             *)
Refresh(p) ==
  LET k == held[p].session IN
  /\ At(p, "decide")
  /\ stage[k] = "live" /\ gen[k] = held[p].gen
  /\ gen[k] < MaxGen
  /\ gen' = [gen EXCEPT ![k] = @ + 1]
  /\ fresh' = [fresh EXCEPT ![p] = [session |-> k, gen |-> gen[k] + 1]]
  /\ GoTo(p, "stage")
  /\ UNCHANGED <<cmd, session, held, tmp, store, stage, losses, history>>

(* StartLogin; with --no-wait the command ends here (Stop) and another     *)
(* process waits for the session.                                          *)
StartLogin(p, k) ==
  /\ At(p, "start") /\ stage[k] = "unused"
  /\ stage' = [stage EXCEPT ![k] = "pending"]
  /\ session' = [session EXCEPT ![p] = k]
  /\ GoTo(p, "poll")
  /\ UNCHANGED <<cmd, held, fresh, tmp, store, gen, losses, history>>

(* PollLogin returns credentials once the person has approved; until then  *)
(* the process keeps polling, and may give up (Stop).                      *)
Poll(p) ==
  LET k == session[p] IN
  /\ At(p, "poll") /\ stage[k] = "approved"
  /\ stage' = [stage EXCEPT ![k] = "live"]
  /\ fresh' = [fresh EXCEPT ![p] = [session |-> k, gen |-> 0]]
  /\ GoTo(p, "stage")
  /\ UNCHANGED <<cmd, session, held, tmp, store, gen, losses, history>>

(* SaveCredentials is privatefile.Write: a temporary file, synced, renamed *)
(* over the old one, and the directory synced.                             *)
StageTemp(p) ==
  /\ At(p, "stage")
  /\ tmp' = [tmp EXCEPT ![p] = PF!Written(PF!Create(tmp[p]), fresh[p])]
  /\ GoTo(p, "sync")
  /\ UNCHANGED <<cmd, session, held, fresh, store, server, losses, history>>

(* A plausible slip: the temporary file is renamed without a Sync. *)
SyncTempSkipped(p) ==
  /\ At(p, "sync")
  /\ GoTo(p, "rename")
  /\ UNCHANGED <<cmd, session, held, fresh, tmp, store, server, losses, history>>

SyncTemp(p) ==
  /\ At(p, "sync")
  /\ tmp' = [tmp EXCEPT ![p] = PF!Synced(tmp[p])]
  /\ GoTo(p, "rename")
  /\ UNCHANGED <<cmd, session, held, fresh, store, server, losses, history>>

Rename(p) ==
  /\ At(p, "rename")
  /\ store' = PF!Renamed(tmp[p], store)
  /\ GoTo(p, "syncdir")
  /\ UNCHANGED <<cmd, session, held, fresh, tmp, server, losses, history>>

(* The command reports success.  If nothing else runs, only the session    *)
(* now in the file is left on this machine.                                *)
SyncDir(p) ==
  /\ At(p, "syncdir")
  /\ store' = PF!ParentSynced(store)
  /\ gone' = IF Alone(p) THEN NotStored ELSE gone
  /\ End(p)
  /\ UNCHANGED <<server, losses, lost, loggedOut>>

(* SignOut, best effort: it may fail, and the server answers 200 to a      *)
(* token that is no longer the session's.                                  *)
SignOut(p) ==
  LET k == held[p].session IN
  /\ At(p, "signout")
  /\ stage' \in {stage, IF gen[k] = held[p].gen THEN [stage EXCEPT ![k] = "dead"]
                                              ELSE stage}
  /\ GoTo(p, "delete")
  /\ UNCHANGED <<cmd, session, held, fresh, tmp, store, gen, losses, history>>

DeletedBy(p) == {k \in Sessions : held[p] # NoCred /\ held[p].session = k}

(* A plausible slip: a failed deletion is not reported. *)
DeleteUnchecked(p) ==
  /\ At(p, "delete")
  /\ store' = store
  /\ gone' = IF Alone(p) THEN Issued ELSE gone
  /\ loggedOut' = loggedOut \cup DeletedBy(p)
  /\ End(p)
  /\ UNCHANGED <<server, losses, lost>>

(* DeleteCredentials, whether or not the sign-out worked. *)
Delete(p) ==
  /\ At(p, "delete")
  /\ store' = IF store.now = Absent THEN store ELSE PF!Removed(store)
  /\ gone' = IF Alone(p) THEN Issued ELSE gone
  /\ loggedOut' = loggedOut \cup DeletedBy(p)
  /\ End(p)
  /\ UNCHANGED <<server, losses, lost>>

(* Every other end of a command: an error, a deadline, an interrupt, a     *)
(* kill.  Credentials received and not installed for good may be lost.     *)
Interrupted(p) ==
  {k \in Sessions : pc[p] \in Saving /\ fresh[p].session = k}

Stop(p) ==
  /\ pc[p] # "idle"
  /\ lost' = lost \cup Interrupted(p)
  /\ End(p)
  /\ UNCHANGED <<store, server, losses, gone, loggedOut>>

-----------------------------------------------------------------------------
(* The person.  A session that lapses is one nobody approves in time.      *)
Approve(k) ==
  /\ stage[k] = "pending"
  /\ stage' = [stage EXCEPT ![k] = "approved"]
  /\ UNCHANGED <<cli, store, gen, losses, history>>

(* A deletion that was never synced may be undone: gone says nothing more. *)
PowerLoss ==
  /\ losses < MaxLosses
  /\ losses' = losses + 1
  /\ lost' = lost \cup
       UNION {Interrupted(p) : p \in Procs}
  /\ \E left \in PF!AfterLoss(store) : store' = PF!Settled(left)
  /\ gone' = IF PF!Durable(store) THEN gone ELSE {}
  /\ loggedOut' = {}
  /\ pc' = [p \in Procs |-> "idle"]
  /\ cmd' = [p \in Procs |-> "none"]
  /\ session' = [p \in Procs |-> NoSession]
  /\ held' = [p \in Procs |-> NoCred]
  /\ fresh' = [p \in Procs |-> NoCred]
  /\ tmp' = [p \in Procs |-> PF!Settled(Absent)]
  /\ UNCHANGED server

-----------------------------------------------------------------------------
Init ==
  /\ pc = [p \in Procs |-> "idle"] /\ cmd = [p \in Procs |-> "none"]
  /\ session = [p \in Procs |-> NoSession]
  /\ held = [p \in Procs |-> NoCred] /\ fresh = [p \in Procs |-> NoCred]
  /\ tmp = [p \in Procs |-> PF!Settled(Absent)]
  /\ store = PF!Settled(Absent)
  /\ stage = [k \in Sessions |-> "unused"] /\ gen = [k \in Sessions |-> 0]
  /\ losses = 0
  /\ lost = {} /\ gone = {} /\ loggedOut = {}

Cli(p) ==
  \/ \E c \in Commands : Begin(p, c)
  \/ \E k \in Sessions : BeginWait(p, k) \/ StartLogin(p, k)
  \/ Load(p)
  \/ LoadNothing(p)
  \/ Use(p)
  \/ Refresh(p)
  \/ Poll(p)
  \/ StageTemp(p)
  \/ SyncTemp(p)
  \/ Rename(p)
  \/ SyncDir(p)
  \/ SignOut(p)
  \/ Delete(p)
  \/ Stop(p)

World == \E k \in Sessions : Approve(k)

Next == (\E p \in Procs : Cli(p)) \/ World \/ PowerLoss

Spec == Init /\ [][Next]_vars

-----------------------------------------------------------------------------
(* Every variable holds a value of its type; a process that saves has      *)
(* something to save.                                                      *)
TypeOK ==
  /\ pc \in [Procs -> Steps] /\ cmd \in [Procs -> Commands \cup {"none"}]
  /\ session \in [Procs -> Sessions \cup {NoSession}]
  /\ held \in [Procs -> Cred \cup {NoCred}]
  /\ fresh \in [Procs -> Cred \cup {NoCred}]
  /\ tmp \in [Procs -> PF!FileOver(Cred)] /\ store \in PF!FileOver(Cred)
  /\ stage \in [Sessions -> {"unused", "pending", "approved", "live", "dead"}]
  /\ gen \in [Sessions -> 0 .. MaxGen]
  /\ losses \in 0 .. MaxLosses
  /\ lost \subseteq Sessions /\ gone \subseteq Sessions /\ loggedOut \subseteq Sessions
  /\ \A p \in Procs : pc[p] \in Saving => fresh[p] \in Cred

(* No command ever reads half a credentials file, and no power loss can    *)
(* leave one: "installs a newly protected, flushed file".                  *)
NeverTorn == Partial \notin {store.now} \cup PF!AfterLoss(store)

(* The stored refresh token is the one the server accepts, however many    *)
(* commands refresh at once, unless a command was interrupted between the  *)
(* server's answer and the directory's sync, or is still between them.     *)
StoredTokenCurrent ==
  store.now \in Cred =>
    LET k == store.now.session IN
    \/ store.now.gen = gen[k]
    \/ k \in lost
    \/ \E p \in Procs : pc[p] \in Saving /\ fresh[p] = [session |-> k, gen |-> gen[k]]

(* Credentials that a login has replaced, or a logout has deleted, are gone *)
(* once no other command runs; only a power loss before the directory has  *)
(* been synced brings deleted ones back.                                   *)
ReplacedStaysGone == store.now \in Cred => store.now.session \notin gone

(* "Remove stored credentials for a server": the credentials a completed   *)
(* `auth logout` deleted are not stored again, whatever else was running.  *)
LogoutSticks == store.now \in Cred => store.now.session \notin loggedOut
=============================================================================
