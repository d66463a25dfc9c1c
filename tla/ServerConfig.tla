---------------------------- MODULE ServerConfig ----------------------------
(***************************************************************************)
(* config.yaml (internal/config/config.go), which registers servers and    *)
(* names the current one, and beside it one credentials file per server.   *)
(* The commands that change them are `server add`, `use` and `remove`      *)
(* (cmd/server.go), `org use` (cmd/org.go), `auth login` and `auth         *)
(* refresh` (cmd/auth.go) and the refresh any API command may do           *)
(* (cmd/helpers.go). A command may name another server (--server), another *)
(* URL (--api-url) and a token of its own (--token), by a flag or in the   *)
(* environment.                                                            *)
(*                                                                         *)
(* Every command reads the whole of config.yaml once, and a command that   *)
(* changes it writes the whole of it back, without a lock, in two system   *)
(* calls (os.WriteFile): a truncation and a write.  A truncated file reads *)
(* as a configuration without servers.  Credentials are abstracted to the  *)
(* API URL that issued them; module Credentials has their own life cycle.  *)
(***************************************************************************)
EXTENDS FiniteSets

CONSTANTS
  Procs,    \* processes of the CLI on one machine
  Slugs,    \* names of servers
  Urls,     \* API URLs
  Orgs,     \* organizations
  None      \* no server, URL or organization

NoneApart == None \notin Slugs \cup Urls \cup Orgs

Config ==
  [current : Slugs \cup {None}, servers : [Slugs -> Urls \cup {None}],
   org : Orgs \cup {None}]

(* A command and the arguments it takes. *)
Jobs ==
  [cmd : {"add"}, slug : Slugs, url : Urls]
    \cup [cmd : {"use", "remove"}, slug : Slugs]
    \cup [cmd : {"org use"}, org : Orgs] \cup [cmd : {"login", "refresh", "call"}]

NoJob == [cmd |-> "none"]

(* --server, --api-url, and whether a token is given. *)
Options == [server : Slugs \cup {None}, api : Urls \cup {None}, token : BOOLEAN]

(* The server whose credentials a command uses, and the URL it uses them   *)
(* at; away if that is not the URL of the server, and none was named.      *)
Targets == [slug : Slugs, url : Urls, away : BOOLEAN]
NoTarget == [slug |-> None, url |-> None, away |-> FALSE]

Steps == {"idle", "load", "poll", "creds", "refresh", "delete", "truncate", "write"}

VARIABLES
  pc,         \* where each process is
  job,        \* the command it runs, with its arguments
  cfg,        \* the configuration it has loaded, and changes
  aim,        \* the credentials it uses
  file,       \* config.yaml
  torn,       \* config.yaml ends with a rest of what another process wrote
  blank,      \* config.yaml is absent or empty
  cred,       \* the credentials file of each server: the URL it is for
  removed,    \* history: servers removed, and not added since
  strayed,    \* history: servers whose credentials were refreshed elsewhere last
  disturbed   \* history: commands overlapped, were cut short, or failed unnoticed

vars == <<pc, job, cfg, aim, file, torn, blank, cred, removed, strayed, disturbed>>

Empty == [current |-> None, servers |-> [s \in Slugs |-> None], org |-> None]

Registered(c) == {s \in Slugs : c.servers[s] # None}

-----------------------------------------------------------------------------
At(p, here) == pc[p] = here
GoTo(p, there) == pc' = [pc EXCEPT ![p] = there]

End(p) ==
  /\ GoTo(p, "idle")
  /\ job' = [job EXCEPT ![p] = NoJob]
  /\ cfg' = [cfg EXCEPT ![p] = Empty]
  /\ aim' = [aim EXCEPT ![p] = NoTarget]

(* A plausible slip: the URL goes unchecked with a server that is named.   *)
AgreesAnyway(c, slug, o) == TRUE
Agrees(c, slug, o) == o.server # None => o.api \in {None, c.servers[slug]}

(* selectedServer: the one of the argument, of --server, or the current one. *)
Selected(c, arg, o) ==
  LET slug == IF arg # None THEN arg ELSE IF o.server # None THEN o.server ELSE c.current IN
  {s \in Registered(c) :
     /\ s = slug /\ Agrees(c, slug, o)
     /\ arg = None \/ o.server \in {None, arg}}

(* The commands of `auth` keep to the URL of the server. *)
AuthTargets(c, arg, o) ==
  {[slug |-> s, url |-> c.servers[s], away |-> FALSE] : s \in Selected(c, arg, o)}

(* loadActiveClient: a token of one's own leaves the credentials alone, and *)
(* needs no server where it comes with a URL.                              *)
ClientTargets(c, o) ==
  IF c.current = None /\ o.server = None
  THEN IF o.api # None /\ o.token THEN {NoTarget} ELSE {}
  ELSE {IF o.token THEN NoTarget
        ELSE LET home == c.servers[s]
                 url == IF o.api = None THEN home ELSE o.api IN
             [slug |-> s, url |-> url, away |-> o.server = None /\ url # home] :
          s \in Selected(c, None, o)}

TargetsWith(c, j, arg, o) ==
  CASE j.cmd = "login"               -> AuthTargets(c, arg, o)
    [] j.cmd = "refresh"             -> AuthTargets(c, None, o)
    [] j.cmd \in {"org use", "call"} -> ClientTargets(c, o)
    [] OTHER                         -> {NoTarget}

TargetsOf(c, j) ==
  UNION {TargetsWith(c, j, arg, o) : arg \in Slugs \cup {None}, o \in Options}

(* What each command makes of the configuration it has loaded. *)
Added(c, s, u) ==
  [c EXCEPT !.servers[s] = u, !.current = IF @ = None THEN s ELSE @]

Used(c, s) == [c EXCEPT !.current = s]

(* A plausible slip: the current server is left as it was. *)
RemovedStillCurrent(c, s) == {[c EXCEPT !.servers[s] = None]}

(* The next current server is whichever the map yields first. *)
RemovedFrom(c, s) ==
  LET left == [c EXCEPT !.servers[s] = None] IN
  IF c.current # s THEN {left}
  ELSE {[left EXCEPT !.current = next] :
          next \in IF Registered(left) = {} THEN {None} ELSE Registered(left)}

Changed(c, j) ==
  CASE j.cmd = "add"     -> {Added(c, j.slug, j.url)}
    [] j.cmd = "use"     -> {Used(c, j.slug)}
    [] j.cmd = "remove"  -> RemovedFrom(c, j.slug)
    [] j.cmd = "org use" -> {[c EXCEPT !.org = j.org]}

(* The command refuses the configuration it has loaded. *)
Refused(c, j) ==
  CASE j.cmd = "add"               -> j.slug \in Registered(c)
    [] j.cmd \in {"use", "remove"} -> j.slug \notin Registered(c)
    [] OTHER                       -> FALSE

Begin(p, j) ==
  /\ At(p, "idle")
  /\ GoTo(p, "load")
  /\ job' = [job EXCEPT ![p] = j]
  /\ UNCHANGED <<cfg, aim, file, torn, blank, cred, removed, strayed, disturbed>>

(* Another command has read what this one, or the other, goes on to change. *)
Overlaps(p) ==
  \E q \in Procs \ {p} :
    /\ pc[q] \notin {"idle", "load"}
    /\ ~({job[p].cmd, job[q].cmd} \subseteq {"login", "refresh", "call"})

(* config.Load.  A file with a rest of an older text at its end is refused *)
(* as YAML, or reads as it was written last, the rest ignored or taken for *)
(* an organization.                                                        *)
Load(p) ==
  /\ At(p, "load")
  /\ \E org \in {file.org} \cup (IF torn /\ file.org = None THEN Orgs ELSE {}) :
       LET read == [file EXCEPT !.org = org] IN
       /\ ~Refused(read, job[p])
       /\ cfg' = [cfg EXCEPT ![p] = read]
       /\ \E t \in TargetsOf(read, job[p]) : aim' = [aim EXCEPT ![p] = t]
  /\ GoTo(p, CASE job[p].cmd = "login"                          -> "poll"
               [] job[p].cmd \in {"org use", "refresh", "call"} -> "creds"
               [] job[p].cmd = "remove"                         -> "delete"
               [] OTHER                                         -> "truncate")
  /\ disturbed' = (disturbed \/ Overlaps(p))
  /\ UNCHANGED <<job, file, torn, blank, cred, removed, strayed>>

(* The credentials that a command has got are stored. *)
Stored(p) ==
  LET t == aim[p] IN
  /\ cred' = [cred EXCEPT ![t.slug] = t.url]
  /\ strayed' = IF t.away THEN strayed \cup {t.slug} ELSE strayed \ {t.slug}

(* `auth login` waits for a person, up to 15 minutes, and stores what the  *)
(* URL it read at the beginning has issued.                                *)
Login(p) ==
  /\ At(p, "poll") /\ Stored(p)
  /\ End(p)
  /\ UNCHANGED <<file, torn, blank, removed, disturbed>>

(* A command has its client: a call has nothing more to change here.       *)
HasClient(p) ==
  IF job[p].cmd = "org use" THEN GoTo(p, "truncate") /\ UNCHANGED <<job, cfg, aim>>
  ELSE End(p)

(* loadActiveClient, with a token given or one that is still good. *)
UseCredentials(p) ==
  /\ At(p, "creds") /\ job[p].cmd # "refresh"
  /\ aim[p].slug # None => cred[aim[p].slug] # None
  /\ HasClient(p)
  /\ UNCHANGED <<file, torn, blank, cred, removed, strayed, disturbed>>

(* loadActiveClient, with one it must refresh, and authRefreshCmd; two URLs *)
(* may be addresses of one control plane, which takes what either issued.  *)
AskRefresh(p) ==
  /\ At(p, "creds") /\ aim[p].slug # None /\ cred[aim[p].slug] # None
  /\ GoTo(p, "refresh")
  /\ UNCHANGED <<job, cfg, aim, file, torn, blank, cred, removed, strayed, disturbed>>

Refreshed(p) ==
  /\ At(p, "refresh") /\ Stored(p)
  /\ HasClient(p)
  /\ UNCHANGED <<file, torn, blank, removed, disturbed>>

(* A plausible slip: the credentials of the server stay. *)
DeleteNothing(p) ==
  /\ At(p, "delete")
  /\ GoTo(p, "truncate")
  /\ UNCHANGED <<job, cfg, aim, file, torn, blank, cred, removed, strayed, disturbed>>

(* `server remove` deletes the credentials first, and ignores a failure.   *)
DeleteCredentials(p) ==
  /\ At(p, "delete")
  /\ \/ /\ cred' = [cred EXCEPT ![job[p].slug] = None]
        /\ strayed' = strayed \ {job[p].slug} /\ UNCHANGED disturbed
     \/ disturbed' = TRUE /\ UNCHANGED <<cred, strayed>>
  /\ GoTo(p, "truncate")
  /\ UNCHANGED <<job, cfg, aim, file, torn, blank, removed>>

(* Save: the file is opened with O_TRUNC ... *)
Truncate(p) ==
  /\ At(p, "truncate")
  /\ cfg' \in {[cfg EXCEPT ![p] = c] : c \in Changed(cfg[p], job[p])}
  /\ file' = Empty
  /\ torn' = FALSE
  /\ blank' = TRUE
  /\ GoTo(p, "write")
  /\ UNCHANGED <<job, aim, cred, removed, strayed, disturbed>>

(* ... and written from its beginning: over nothing, or over what another  *)
(* process has written in between, whose longer text would stick out.      *)
Write(p) ==
  /\ At(p, "write")
  /\ file' = cfg[p]
  /\ torn' \in IF blank THEN {FALSE} ELSE BOOLEAN
  /\ blank' = FALSE
  /\ removed' = CASE job[p].cmd = "remove" -> removed \cup {job[p].slug}
                  [] job[p].cmd = "add"    -> removed \ {job[p].slug}
                  [] OTHER                 -> removed
  /\ End(p)
  /\ UNCHANGED <<cred, strayed, disturbed>>

(* Every other end: a refusal, a failure, an interrupt, a kill. *)
Stop(p) ==
  /\ ~At(p, "idle")
  /\ disturbed' = (disturbed \/ At(p, "write"))
  /\ End(p)
  /\ UNCHANGED <<file, torn, blank, cred, removed, strayed>>

-----------------------------------------------------------------------------
Init ==
  /\ pc = [p \in Procs |-> "idle"] /\ job = [p \in Procs |-> NoJob]
  /\ cfg = [p \in Procs |-> Empty] /\ aim = [p \in Procs |-> NoTarget]
  /\ file = Empty /\ torn = FALSE /\ blank = TRUE
  /\ cred = [s \in Slugs |-> None]
  /\ removed = {} /\ strayed = {} /\ disturbed = FALSE

Next ==
  \E p \in Procs :
    \/ \E j \in Jobs : Begin(p, j)
    \/ Load(p)
    \/ Login(p)
    \/ UseCredentials(p)
    \/ AskRefresh(p)
    \/ Refreshed(p)
    \/ DeleteCredentials(p)
    \/ Truncate(p)
    \/ Write(p)
    \/ Stop(p)

Spec == Init /\ [][Next]_vars

-----------------------------------------------------------------------------
(* Every variable holds a value of its type. *)
TypeOK ==
  /\ pc \in [Procs -> Steps] /\ job \in [Procs -> Jobs \cup {NoJob}]
  /\ cfg \in [Procs -> Config] /\ file \in Config
  /\ torn \in BOOLEAN /\ blank \in BOOLEAN
  /\ cred \in [Slugs -> Urls \cup {None}]
  /\ aim \in [Procs -> Targets \cup {NoTarget}]
  /\ removed \subseteq Slugs /\ strayed \subseteq Slugs /\ disturbed \in BOOLEAN
  /\ blank => file = Empty /\ ~torn

(* However the commands that change config.yaml interleave and wherever    *)
(* they are killed, the current server is a registered one: the commands   *)
(* that follow never fail on a server that is not there.                   *)
CurrentRegistered == file.current # None => file.current \in Registered(file)

(* "pairs a registered endpoint with its credential namespace": a server's *)
(* stored credentials are of the URL it is registered with, wherever a     *)
(* command is killed but between the truncation and the write, as long as  *)
(* no two commands overlap and no deletion fails. The only way out of the  *)
(* pair is a command that names another URL and no server, and needs a     *)
(* refresh (helpers.go:50); the next login or refresh at home leads back.  *)
CredentialsPaired ==
  disturbed \/ \A s \in Registered(file) : cred[s] \in {None, file.servers[s]} \/ s \in strayed

(* "Remove a server (and its stored credentials)": after `server remove`   *)
(* has reported success the server has no credentials file.                *)
RemovedWithCredentials == \A s \in removed : cred[s] = None
=============================================================================
