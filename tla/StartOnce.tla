----------------------------- MODULE StartOnce -----------------------------
(***************************************************************************)
(* What a reviewed start promises the person who keeps its request file:   *)
(* a file commits to one request, for good, and only a committed request   *)
(* can become a run.  Nothing is said of processes, of disks or of lost    *)
(* answers; ReviewedStart shows that they cannot be told apart from this.  *)
(***************************************************************************)

CONSTANT Request    \* the requests there can be; each names its file

VARIABLES
  committed,        \* the requests that have been handed to the server
  started           \* the requests that have a run

Init == committed = {} /\ started = {}

Commit(r) ==
  /\ \A c \in committed : c.file # r.file
  /\ committed' = committed \cup {r}
  /\ UNCHANGED started

Start(r) ==
  /\ r \in committed
  /\ started' = started \cup {r}
  /\ UNCHANGED committed

Next == \E r \in Request : Commit(r) \/ Start(r)

Spec == Init /\ [][Next]_<<committed, started>>
=============================================================================
