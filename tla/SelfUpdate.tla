----------------------------- MODULE SelfUpdate -----------------------------
(***************************************************************************)
(* `astro update`: it reads the latest release, downloads the archive, and *)
(* extracts the binary into a temporary file; then it moves the binary it  *)
(* runs from to a backup, the new one into its place, and drops the        *)
(* backup. A process may be killed between any two steps, temporary files  *)
(* may be on another file system (no rename goes from there), every rename *)
(* and removal may fail, and two people may update one installation.       *)
(***************************************************************************)
EXTENDS Naturals

CONSTANTS
  Updaters,
  Binaries,     \* releases that come out; 0 is a build without a version
  None          \* no file

BinariesAssumption == Binaries \in Nat \ {0} /\ None \notin 0 .. Binaries

VARIABLES
  sameDevice,   \* temporary files can be renamed into the installation
  released,     \* the latest release
  self, backup, \* the installed binary, and self.old
  pc,           \* per updater: the step it takes next, or how it ended
  current,      \* the version it runs
  target,       \* the release it read about
  archive,      \* its downloaded archive: "whole", "short", or None
  binary,       \* its extracted binary, or None
  overlapped    \* history: two updates were under way at once

files == <<sameDevice, released, self, backup>>
vars == <<files, pc, current, target, archive, binary, overlapped>>

(* "stranded" fails as "failed" does: the backup could not be moved back.   *)
Endings == {"latest", "dry", "updated", "failed", "stranded", "killed"}
UnderWay(u) == pc[u] \notin Endings \cup {"new"}

-----------------------------------------------------------------------------
(* A step of an updater; an ending runs the deferred removals.             *)
Step(u, next) ==
  /\ pc' = [pc EXCEPT ![u] = next]
  /\ UNCHANGED <<sameDevice, released, current, target, overlapped>>

(* A plausible slip: the archive is removed, the extracted binary is not.  *)
CleanupOfArchive(u) == archive' = [archive EXCEPT ![u] = None] /\ UNCHANGED binary
Cleanup(u) ==
  /\ archive' = [archive EXCEPT ![u] = None]
  /\ binary' = [binary EXCEPT ![u] = None]

Give(u) == Step(u, "failed") /\ Cleanup(u)

(* fetchJSON: what there is to read of the latest release, or an error. *)
FetchRelease == {released, None}

(* The latest release is newer than the version that runs, or the latter   *)
(* has none; an asset for this system is part of it.                       *)
Newer(u) == target'[u] > current'[u]

Check(u) ==
  /\ pc[u] = "new" /\ self # None
  /\ current' = [current EXCEPT ![u] = self]
  /\ \E latest \in FetchRelease, next \in {"latest", "dry", "download", "failed"} :
       /\ target' = [target EXCEPT ![u] = latest]
       /\ latest = None => next = "failed"
       /\ next = "latest" => ~Newer(u)
       /\ next \in {"dry", "download"} => Newer(u)
       /\ pc' = [pc EXCEPT ![u] = next]
       /\ overlapped' = (overlapped \/ (next = "download" /\ \E v \in Updaters : UnderWay(v)))
  /\ UNCHANGED <<files, archive, binary>>

(* A body cut short is an error where its length is known, and found out   *)
(* when the archive is read where it is not.                               *)
Download(u) ==
  /\ pc[u] = "download"
  /\ \/ Give(u)
     \/ /\ self # None /\ Step(u, "extract")
        /\ \E a \in {"whole", "short"} : archive' = [archive EXCEPT ![u] = a]
        /\ UNCHANGED binary
  /\ UNCHANGED <<self, backup>>

Extract(u) ==
  /\ pc[u] = "extract"
  /\ \/ Give(u)
     \/ /\ archive[u] = "whole" /\ Step(u, "clear")
        /\ binary' = [binary EXCEPT ![u] = target[u]]
        /\ UNCHANGED archive
  /\ UNCHANGED <<self, backup>>

(* An older backup is removed, or replaced by the rename that follows. *)
Clear(u) ==
  /\ pc[u] = "clear" /\ Step(u, "save")
  /\ backup' \in {None, backup}
  /\ UNCHANGED <<self, archive, binary>>

Save(u) ==
  /\ pc[u] = "save"
  /\ \/ Give(u) /\ UNCHANGED <<self, backup>>
     \/ /\ self # None /\ Step(u, "install")
        /\ self' = None /\ backup' = self
        /\ UNCHANGED <<archive, binary>>

Install(u) ==
  /\ pc[u] = "install"
  /\ \/ /\ sameDevice /\ Step(u, "drop")
        /\ self' = binary[u] /\ binary' = [binary EXCEPT ![u] = None]
        /\ UNCHANGED <<backup, archive>>
     \/ Step(u, "restore") /\ UNCHANGED <<self, backup, archive, binary>>

(* A plausible slip: a failed install ends without the backup moved back.  *)
NoRestore(u) == pc[u] = "restore" /\ Give(u) /\ UNCHANGED <<self, backup>>
Restore(u) ==
  /\ pc[u] = "restore" /\ Cleanup(u)
  /\ \/ backup # None /\ Step(u, "failed") /\ self' = backup /\ backup' = None
     \/ Step(u, "stranded") /\ UNCHANGED <<self, backup>>

Drop(u) ==
  /\ pc[u] = "drop" /\ Step(u, "updated")
  /\ Cleanup(u)
  /\ backup' \in {None, backup}
  /\ UNCHANGED self

(* Ctrl-C, a signal: nothing deferred runs. *)
Kill(u) ==
  /\ UnderWay(u) /\ Step(u, "killed")
  /\ UNCHANGED <<self, backup, archive, binary>>

Release ==
  /\ released < Binaries /\ released' = released + 1
  /\ UNCHANGED <<sameDevice, self, backup, pc, current, target, archive, binary, overlapped>>

Init ==
  /\ sameDevice \in BOOLEAN /\ released = 1
  /\ self \in 0 .. 1 /\ backup \in {None, 0}
  /\ pc = [u \in Updaters |-> "new"]
  /\ current = [u \in Updaters |-> None] /\ target = [u \in Updaters |-> None]
  /\ archive = [u \in Updaters |-> None] /\ binary = [u \in Updaters |-> None]
  /\ overlapped = FALSE

Update(u) ==
  \/ Check(u)
  \/ Download(u)
  \/ Extract(u)
  \/ Clear(u)
  \/ Save(u)
  \/ Install(u)
  \/ Restore(u)
  \/ Drop(u)
  \/ Kill(u)

Next == Release \/ \E u \in Updaters : Update(u)

Spec == Init /\ [][Next]_vars

-----------------------------------------------------------------------------
(* The only updater that has begun.                                        *)
Latest(u) == \A v \in Updaters \ {u} : pc[v] = "new"

(* Updates one after the other never lose the binary, however they end: it *)
(* is in place, or, of one killed between the two renames or whose restore *)
(* failed as well, in the backup. Any other that fails leaves what was     *)
(* there; one that reports success leaves the release it names, and of the *)
(* backup nothing but what it replaced.                                    *)
BinaryKept ==
  ~overlapped =>
    /\ self # None \/ backup # None
    /\ \A u \in Updaters :
         Latest(u) =>
           /\ pc[u] \in {"latest", "dry", "failed"} => self = current[u]
           /\ pc[u] = "stranded" => self = None /\ backup = current[u]
           /\ pc[u] = "updated" => self = target[u] /\ backup \in {None, current[u]}
           /\ pc[u] = "killed" =>
                self \in {current[u], target[u]} \/ (self = None /\ backup = current[u])

(* An update that ends of itself leaves no temporary file.                 *)
NothingLeft ==
  \A u \in Updaters :
    pc[u] \in Endings \ {"killed"} => archive[u] = None /\ binary[u] = None
=============================================================================
