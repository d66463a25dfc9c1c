-------------------------- MODULE MCReviewedStart --------------------------
(***************************************************************************)
(* Two small instances of ReviewedStart for TLC, of which a behaviour is   *)
(* one: pipeline and definition starts of one version by two people, and   *)
(* pipeline starts and installations of two versions by one.               *)
(***************************************************************************)
EXTENDS ReviewedStart, TLC

CONSTANTS alice, bob, carol

VARIABLE instance

Two ==
  INSTANCE ReviewedStart WITH
    Kinds <- {"pipeline", "definition"}, Scopes <- {alice, bob}, MaxVersion <- 1
One ==
  INSTANCE ReviewedStart WITH
    Kinds <- {"pipeline", "install"}, Scopes <- {carol}, MaxVersion <- 2

MCInit ==
  \/ instance = "two people" /\ Two!Init
  \/ instance = "two versions" /\ One!Init

TwoPeople == instance = "two people" /\ Two!Next /\ UNCHANGED instance
TwoVersions == instance = "two versions" /\ One!Next /\ UNCHANGED instance

MCNext == TwoPeople \/ TwoVersions

MCSpec == MCInit /\ [][MCNext]_<<vars, instance>>

Symmetry == Permutations(Procs) \cup Permutations(Ids) \cup Permutations({alice, bob})
=============================================================================
