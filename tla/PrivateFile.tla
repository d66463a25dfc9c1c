---------------------------- MODULE PrivateFile ----------------------------
(***************************************************************************)
(* The files internal/privatefile keeps: what a process sees now, and what *)
(* may be found in its place after the machine loses power.  A file is a   *)
(* record of                                                               *)
(*   now    what an open reads now: Absent, Partial (an entry whose bytes  *)
(*          are not a complete record), or a record;                       *)
(*   body   what the inode behind the entry may hold after a power loss;   *)
(*   prior  what the directory may show instead of that inode, as long as  *)
(*          the directory itself has not been synced.                      *)
(* Each operator is one system call of privatefile.go, in POSIX form.      *)
(***************************************************************************)

CONSTANTS
  Absent,    \* no directory entry
  Partial    \* an entry whose content is empty, torn or otherwise unreadable

(* A file that has survived a sync of everything: c is all there can be. *)
Settled(c) == [now |-> c, body |-> {c}, prior |-> {}]

(* What may be found in place of file f after a power loss. *)
AfterLoss(f) == f.body \cup f.prior

(* A power loss can change nothing in f. *)
Durable(f) == AfterLoss(f) = {f.now}

(* The file values over contents C. *)
FileOver(C) ==
  [now : C \cup {Absent, Partial},
   body : SUBSET (C \cup {Absent, Partial}),
   prior : SUBSET (C \cup {Absent, Partial})]

(* A plausible slip: O_EXCL is missing. *)
CanCreateAnyway(f) == f = f

(* os.OpenFile with O_CREATE|O_EXCL fails where an entry exists. *)
CanCreate(f) == f.now = Absent

(* createPrivate: a new, empty entry, in a directory not yet synced. *)
Create(f) == [now |-> Partial, body |-> {Partial}, prior |-> AfterLoss(f)]

(* File.Write of a complete record: readable now, in no way flushed. *)
Written(f, c) == [now |-> c, body |-> {Partial, c}, prior |-> f.prior]

(* File.Sync: the inode holds what is read from it. *)
Synced(f) == [f EXCEPT !.body = {f.now}]

(* replacePrivate: os.Rename of tmp over f. *)
Renamed(tmp, f) == [now |-> tmp.now, body |-> tmp.body, prior |-> AfterLoss(f)]

(* A plausible slip: the directory is never synced. *)
ParentSyncedSkipped(f) == f

(* SyncParent: the directory shows the entry it shows now. *)
ParentSynced(f) == [f EXCEPT !.prior = {}]

(* os.Remove, with no sync of the directory after it. *)
Removed(f) == [now |-> Absent, body |-> {Absent}, prior |-> AfterLoss(f)]
=============================================================================
