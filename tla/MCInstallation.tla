--------------------------- MODULE MCInstallation ---------------------------
(***************************************************************************)
(* Small instances of what is kept on a person's machine: Credentials,     *)
(* ServerConfig and SelfUpdate. A behaviour is one of one of them; the     *)
(* variables of the others are unused.                                     *)
(***************************************************************************)
EXTENDS Naturals, TLC

CONSTANTS
  Procs, None,
  Absent, Partial, NoCred, NoSession,   \* Credentials
  MaxGen, MaxLosses,
  Slugs, Urls, Orgs,                    \* ServerConfig
  Binaries                              \* SelfUpdate

VARIABLES
  kept,         \* which of the machines: "credentials", "configuration", "binary"
  pc,
  cmd, session, held, fresh, tmp, store, stage, gen, losses, lost, gone, loggedOut,
  job, cfg, aim, file, torn, blank, cred, removed, strayed, disturbed,
  sameDevice, released, self, backup, current, target, archive, binary, overlapped

onlyCredentials ==
  <<cmd, session, held, fresh, tmp, store, stage, gen, losses, lost, gone, loggedOut>>
onlyConfig ==
  <<job, cfg, aim, file, torn, blank, cred, removed, strayed, disturbed>>
onlyBinary ==
  <<sameDevice, released, self, backup, current, target, archive, binary, overlapped>>
vars == <<kept, pc, onlyCredentials, onlyConfig, onlyBinary>>

Creds == INSTANCE Credentials WITH Sessions <- Slugs
Config == INSTANCE ServerConfig
Binary == INSTANCE SelfUpdate WITH Updaters <- Procs

ASSUME InstallationAssumption ==
  Creds!Distinct /\ Creds!Bounds /\ Config!NoneApart /\ Binary!BinariesAssumption

-----------------------------------------------------------------------------
Off == "unused"
NoCredentials ==
  /\ cmd = Off /\ session = Off /\ held = Off /\ fresh = Off /\ tmp = Off /\ store = Off
  /\ stage = Off /\ gen = Off /\ losses = Off /\ lost = Off /\ gone = Off
  /\ loggedOut = Off
NoConfig ==
  /\ job = Off /\ cfg = Off /\ aim = Off /\ file = Off /\ torn = Off /\ blank = Off /\ cred = Off
  /\ removed = Off /\ strayed = Off /\ disturbed = Off
NoBinary ==
  /\ sameDevice = Off /\ released = Off /\ self = Off /\ backup = Off /\ current = Off
  /\ target = Off /\ archive = Off /\ binary = Off /\ overlapped = Off

Init ==
  \/ kept = "credentials" /\ Creds!Init /\ NoConfig /\ NoBinary
  \/ kept = "configuration" /\ Config!Init /\ NoCredentials /\ NoBinary
  \/ kept = "binary" /\ Binary!Init /\ NoCredentials /\ NoConfig

KeepCredentials ==
  /\ kept = "credentials" /\ Creds!Next
  /\ UNCHANGED <<kept, onlyConfig, onlyBinary>>
KeepConfiguration ==
  /\ kept = "configuration" /\ Config!Next
  /\ UNCHANGED <<kept, onlyCredentials, onlyBinary>>
KeepBinary ==
  /\ kept = "binary" /\ Binary!Next
  /\ UNCHANGED <<kept, onlyCredentials, onlyConfig>>

Next ==
  \/ KeepCredentials
  \/ KeepConfiguration
  \/ KeepBinary

Spec == Init /\ [][Next]_vars

(* Login sessions are told apart by the same values as servers. *)
Symmetry == Permutations(Procs) \cup Permutations(Slugs) \cup Permutations(Urls)

(* A state without what no guard and no property of this run reads: the     *)
(* histories removed and loggedOut, the configuration of a command that     *)
(* does not save it, and, once commands were disturbed, of the credentials  *)
(* all but whose there are.                                                *)
SeenCfg ==
  [p \in Procs |-> IF job[p].cmd \in {"login", "refresh", "call"} THEN Off ELSE cfg[p]]
SeenConfig ==
  IF kept # "configuration" THEN Off
  ELSE IF disturbed
  THEN <<SeenCfg, [p \in Procs |-> aim[p].slug], {s \in Slugs : cred[s] # None}>>
  ELSE <<SeenCfg, aim, cred, strayed>>
Seen ==
  <<kept, pc, cmd, session, held, fresh, tmp, store, stage, gen, losses, lost, gone,
    job, file, torn, blank, disturbed, SeenConfig, onlyBinary>>

-----------------------------------------------------------------------------
(* The credentials file is never torn, and holds the current token of its  *)
(* session: Credentials!NeverTorn and StoredTokenCurrent.                  *)
CredentialsCurrent ==
  kept = "credentials" => Creds!NeverTorn /\ Creds!StoredTokenCurrent

(* Credentials that were replaced do not come back:                        *)
(* Credentials!ReplacedStaysGone.                                          *)
ReplacedStaysGone == kept = "credentials" => Creds!ReplacedStaysGone

(* The current server is a registered one, and the credentials of a server *)
(* are for its URL: ServerConfig!CurrentRegistered and CredentialsPaired.  *)
ServersConsistent ==
  kept = "configuration" => Config!CurrentRegistered /\ Config!CredentialsPaired

(* An update never loses the binary, and leaves no temporary file:         *)
(* SelfUpdate!BinaryKept and NothingLeft.                                  *)
BinaryKept == kept = "binary" => Binary!BinaryKept
NothingLeft == kept = "binary" => Binary!NothingLeft
=============================================================================
