------------------------- MODULE InstallationProofs -------------------------
(***************************************************************************)
(* What MCInstallation guarantees for every number of processes, servers,  *)
(* URLs, organizations, refreshes, power losses and releases.              *)
(***************************************************************************)
EXTENDS MCInstallation, TLAPS

-----------------------------------------------------------------------------
(* The binary.                                                             *)
Updating ==
  {"download", "extract", "clear", "save", "install", "restore", "drop"}
Versions == 0 .. Binaries

BinaryTyped ==
  /\ released \in Versions /\ released # 0
  /\ self \in Versions \cup {None} /\ backup \in Versions \cup {None}
  /\ pc \in [Procs -> {"new"} \cup Updating \cup Binary!Endings]
  /\ current \in [Procs -> Versions \cup {None}]
  /\ target \in [Procs -> Versions \cup {None}]
  /\ archive \in [Procs -> {"whole", "short", None}]
  /\ binary \in [Procs -> Versions \cup {None}]
  /\ overlapped \in BOOLEAN

(* Who is at it has read of a release; who has not begun, or has ended of   *)
(* itself, has no temporary file.                                          *)
TemporaryFiles ==
  \A u \in Procs :
    /\ pc[u] \in Updating => target[u] \in Versions
    /\ pc[u] \in {"new"} \cup (Binary!Endings \ {"killed"}) =>
         archive[u] = None /\ binary[u] = None

(* The installation, as the one update under way has left it so far. *)
InstalledSoFar(u) ==
  /\ pc[u] \in {"download", "extract", "clear", "save"} =>
       self = current[u] /\ self # None
  /\ pc[u] \in {"install", "restore"} =>
       self = None /\ backup = current[u] /\ backup # None
  /\ pc[u] = "drop" => self = target[u] /\ backup = current[u]
  /\ pc[u] \in {"clear", "save", "install"} => binary[u] = target[u]

OneAtATime ==
  ~overlapped =>
    /\ \A u, v \in Procs : pc[u] \in Updating /\ pc[v] \in Updating => u = v
    /\ \A u \in Procs : InstalledSoFar(u)

BinaryInv ==
  /\ BinaryTyped /\ TemporaryFiles /\ OneAtATime
  /\ Binary!BinaryKept /\ Binary!NothingLeft

LEMMA NoFile == Binaries \in Nat \ {0} /\ None \notin Versions
  BY InstallationAssumption DEF Binary!BinariesAssumption, Versions

LEMMA BinaryBegins == Binary!Init => BinaryInv
  <1> SUFFICES ASSUME Binary!Init PROVE BinaryInv
    OBVIOUS
  <1> USE NoFile DEF Binary!Init
  <1>1. BinaryTyped
    <2>1. 0 \in Versions /\ 1 \in Versions /\ \A n \in 0 .. 1 : n \in Versions
      BY DEF Versions
    <2>2. /\ released \in Versions /\ released # 0
          /\ self \in Versions \cup {None} /\ backup \in Versions \cup {None}
      BY <2>1
    <2>3. /\ pc \in [Procs -> {"new"} \cup Updating \cup Binary!Endings]
          /\ current \in [Procs -> Versions \cup {None}]
          /\ target \in [Procs -> Versions \cup {None}]
          /\ archive \in [Procs -> {"whole", "short", None}]
          /\ binary \in [Procs -> Versions \cup {None}]
          /\ overlapped \in BOOLEAN
      OBVIOUS
    <2> QED BY <2>2, <2>3 DEF BinaryTyped
  <1>2. TemporaryFiles
    BY DEF TemporaryFiles, Binary!Endings, Updating
  <1>3. OneAtATime
    BY DEF OneAtATime, InstalledSoFar, Updating
  <1>4. Binary!BinaryKept /\ Binary!NothingLeft
    BY DEF Binary!BinaryKept, Binary!NothingLeft, Binary!Endings, Versions
  <1> QED BY <1>1, <1>2, <1>3, <1>4 DEF BinaryInv

(* What a step of an updater is: it changes its own state alone, and the   *)
(* installation only as an update under way may.                           *)
Own(u) ==
  /\ \A v \in Procs : v # u =>
       /\ pc'[v] = pc[v] /\ current'[v] = current[v] /\ target'[v] = target[v]
       /\ archive'[v] = archive[v] /\ binary'[v] = binary[v]
  /\ overlapped => overlapped'
  /\ pc'[u] # "new"

(* A step of an updater keeps the invariant if what it leaves of its own   *)
(* and of the installation is right.                                       *)
LEMMA BinaryOwn ==
  ASSUME BinaryInv, NEW u \in Procs, Own(u), BinaryTyped',
         pc'[u] \in Updating => target'[u] \in Versions,
         pc'[u] \in Binary!Endings \ {"killed"} => archive'[u] = None /\ binary'[u] = None,
         ~overlapped' =>
           /\ \/ pc[u] \in Updating
              \/ self' = self /\ backup' = backup
           /\ pc'[u] \in Updating =>
                pc[u] \in Updating \/ \A v \in Procs : pc[v] \notin Updating
           /\ InstalledSoFar(u)'
           /\ self' # None \/ backup' # None
           /\ Binary!Latest(u) =>
                /\ pc'[u] \in {"latest", "dry", "failed"} => self' = current'[u]
                /\ pc'[u] = "stranded" => self' = None /\ backup' = current'[u]
                /\ pc'[u] = "updated" => self' = target'[u] /\ backup' \in {None, current'[u]}
                /\ pc'[u] = "killed" =>
                     \/ self' \in {current'[u], target'[u]}
                     \/ self' = None /\ backup' = current'[u]
  PROVE  BinaryInv'
  <1>1. TemporaryFiles'
    BY DEF BinaryInv, TemporaryFiles, Own
  <1>2. Binary!NothingLeft'
    BY DEF BinaryInv, Binary!NothingLeft, Own, Binary!Endings
  <1>3. ASSUME ~overlapped'
        PROVE  /\ \A v, w \in Procs : pc'[v] \in Updating /\ pc'[w] \in Updating => v = w
               /\ \A v \in Procs : InstalledSoFar(v)'
    <2>1. /\ ~overlapped
          /\ \A v, w \in Procs : pc[v] \in Updating /\ pc[w] \in Updating => v = w
          /\ \A v \in Procs : InstalledSoFar(v)
      BY <1>3 DEF BinaryInv, OneAtATime, Own
    <2>2. \A v, w \in Procs : pc'[v] \in Updating /\ pc'[w] \in Updating => v = w
      BY <1>3, <2>1 DEF Own
    <2>3. ASSUME NEW v \in Procs, v # u PROVE InstalledSoFar(v)'
      <3>1. CASE self' = self /\ backup' = backup
        BY <2>1, <2>3, <3>1 DEF InstalledSoFar, Own
      <3>2. CASE pc[u] \in Updating
        BY <2>1, <2>3, <3>2 DEF InstalledSoFar, Own, Updating
      <3> QED BY <1>3, <3>1, <3>2
    <2> QED BY <1>3, <2>2, <2>3
  <1>4. OneAtATime'
    BY <1>3 DEF OneAtATime
  <1>5. Binary!BinaryKept'
    <2>1. SUFFICES ASSUME ~overlapped', NEW w \in Procs, Binary!Latest(w)'
                   PROVE  /\ pc'[w] \in {"latest", "dry", "failed"} => self' = current'[w]
                          /\ pc'[w] = "stranded" => self' = None /\ backup' = current'[w]
                          /\ pc'[w] = "updated" =>
                               self' = target'[w] /\ backup' \in {None, current'[w]}
                          /\ pc'[w] = "killed" =>
                               \/ self' \in {current'[w], target'[w]}
                               \/ self' = None /\ backup' = current'[w]
      BY DEF Binary!BinaryKept
    <2>2. w = u
      BY <2>1 DEF Binary!Latest, Own
    <2>3. Binary!Latest(u)
      BY <2>1, <2>2 DEF Binary!Latest, Own
    <2> QED BY <2>1, <2>2, <2>3
  <1> QED BY <1>1, <1>2, <1>4, <1>5 DEF BinaryInv

LEMMA BinaryStep == BinaryInv /\ Binary!Next => BinaryInv'
  <1> SUFFICES ASSUME BinaryInv, Binary!Next PROVE BinaryInv'
    OBVIOUS
  <1>t. /\ BinaryTyped
        /\ \A u \in Procs : pc[u] \in Updating => target[u] \in Versions
        /\ \A u \in Procs : InstalledSoFar(u) \/ overlapped
        /\ ~overlapped => self # None \/ backup # None
    BY DEF BinaryInv, TemporaryFiles, OneAtATime, Binary!BinaryKept
  <1>r. CASE Binary!Release
    <2>1. /\ released' = released + 1 /\ released < Binaries
          /\ UNCHANGED <<sameDevice, self, backup, pc, current, target, archive, binary,
                         overlapped>>
      BY <1>r DEF Binary!Release
    <2>2. BinaryTyped'
      BY <2>1, <1>t, NoFile DEF BinaryTyped, Versions
    <2> QED BY <2>1, <2>2
            DEF BinaryInv, TemporaryFiles, OneAtATime, InstalledSoFar, Binary!BinaryKept,
                Binary!NothingLeft, Binary!Latest
  <1>u. ASSUME NEW u \in Procs, Binary!Update(u) PROVE BinaryInv'
    <2>t. /\ pc[u] \in {"new"} \cup Updating \cup Binary!Endings
          /\ self \in Versions \cup {None} /\ backup \in Versions \cup {None}
      BY <1>t DEF BinaryTyped
    <2>1. CASE Binary!Check(u)
      <3>1. /\ pc[u] = "new" /\ self # None /\ archive' = archive /\ binary' = binary
            /\ current' = [current EXCEPT ![u] = self]
            /\ self' = self /\ backup' = backup /\ released' = released
        BY <2>1 DEF Binary!Check, Binary!files
      <3>2. PICK latest \in {released, None}, next \in {"latest", "dry", "download", "failed"} :
              /\ target' = [target EXCEPT ![u] = latest]
              /\ latest = None => next = "failed"
              /\ pc' = [pc EXCEPT ![u] = next]
              /\ overlapped' =
                   (overlapped \/ (next = "download" /\ \E v \in Procs : Binary!UnderWay(v)))
        BY <2>1 DEF Binary!Check, Binary!FetchRelease
      <3>3. BinaryTyped'
        BY <3>1, <3>2, <1>t, <2>t DEF BinaryTyped, Binary!Endings, Updating
      <3>4. Own(u) /\ pc'[u] = next /\ current'[u] = self /\ target'[u] = latest
        BY <3>1, <3>2, <1>t DEF Own, BinaryTyped
      <3>5. archive'[u] = None /\ binary'[u] = None /\ released \in Versions
        BY <3>1, <1>t DEF BinaryInv, TemporaryFiles, BinaryTyped
      <3>6. ~overlapped' /\ next = "download" => \A v \in Procs : pc[v] \notin Updating
        BY <3>2 DEF Binary!UnderWay, Binary!Endings, Updating
      <3>7. InstalledSoFar(u)'
        BY <3>1, <3>4 DEF InstalledSoFar
      <3>8. pc'[u] \in Updating => target'[u] \in Versions
        BY <3>2, <3>4, <3>5 DEF Updating
      <3> QED BY <3>1, <3>3, <3>4, <3>5, <3>6, <3>7, <3>8, BinaryOwn DEF Updating
    <2>s. ASSUME NEW next \in Updating \cup {"updated", "failed", "stranded", "killed"},
                 Binary!Step(u, next), pc[u] \in Updating
          PROVE  /\ pc' = [pc EXCEPT ![u] = next] /\ pc'[u] = next
                 /\ \A v \in Procs : v # u => pc'[v] = pc[v]
                 /\ UNCHANGED <<released, current, target, overlapped>>
                 /\ target[u] \in Versions /\ target[u] # None
                 /\ ~overlapped => InstalledSoFar(u)
      BY <2>s, <1>t, NoFile DEF Binary!Step, BinaryTyped, Updating
    <2>g. ASSUME Binary!Give(u), pc[u] \in Updating,
                 ~overlapped => /\ self' = current[u] /\ self' # None
                 , self' \in Versions \cup {None}, backup' \in Versions \cup {None}
          PROVE  BinaryInv'
      <3>1. /\ Binary!Step(u, "failed")
            /\ archive' = [archive EXCEPT ![u] = None]
            /\ binary' = [binary EXCEPT ![u] = None]
        BY <2>g DEF Binary!Give, Binary!Cleanup
      <3>2. /\ pc' = [pc EXCEPT ![u] = "failed"] /\ pc'[u] = "failed"
            /\ \A v \in Procs : v # u => pc'[v] = pc[v]
            /\ UNCHANGED <<released, current, target, overlapped>>
            /\ target[u] \in Versions
        BY <3>1, <2>g, <2>s
      <3>3. BinaryTyped'
        BY <3>1, <3>2, <1>t, <2>g DEF BinaryTyped, Binary!Endings
      <3>4. Own(u) /\ archive'[u] = None /\ binary'[u] = None
        BY <3>1, <3>2, <1>t DEF Own, BinaryTyped
      <3>5. InstalledSoFar(u)'
        BY <3>2 DEF InstalledSoFar
      <3> QED BY <2>g, <3>2, <3>3, <3>4, <3>5, BinaryOwn DEF Updating
    <2>m. ASSUME NEW next \in Updating \cup {"updated", "stranded", "killed"}, Binary!Step(u, next),
                 pc[u] \in Updating,
                 self' \in Versions \cup {None}, backup' \in Versions \cup {None},
                 archive' \in [Procs -> {"whole", "short", None}],
                 binary' \in [Procs -> Versions \cup {None}],
                 \A v \in Procs : v # u => archive'[v] = archive[v] /\ binary'[v] = binary[v],
                 next \in {"updated", "stranded"} => archive'[u] = None /\ binary'[u] = None,
                 InstalledSoFar(u) =>
                   /\ next \in {"extract", "clear", "save"} =>
                        self' = current[u] /\ self' # None
                   /\ next \in {"install", "restore"} =>
                        self' = None /\ backup' = current[u] /\ backup' # None
                   /\ next = "drop" => self' = target[u] /\ backup' = current[u]
                   /\ next \in {"clear", "save", "install"} => binary'[u] = target[u]
                   /\ next = "updated" => self' = target[u] /\ backup' \in {None, current[u]}
                   /\ next = "stranded" => self' = None /\ backup' = current[u] /\ backup' # None
                   /\ next = "killed" => self' = self /\ backup' = backup,
                 next # "download"
          PROVE  BinaryInv'
      <3>1. /\ pc' = [pc EXCEPT ![u] = next] /\ pc'[u] = next
            /\ \A v \in Procs : v # u => pc'[v] = pc[v]
            /\ UNCHANGED <<released, current, target, overlapped>>
            /\ target[u] \in Versions /\ target[u] # None
            /\ ~overlapped => InstalledSoFar(u)
        BY <2>m, <2>s
      <3>2. BinaryTyped'
        BY <3>1, <1>t, <2>m DEF BinaryTyped, Binary!Endings
      <3>3. Own(u)
        BY <3>1, <1>t, <2>m DEF Own, BinaryTyped, Updating
      <3>4. ~overlapped' =>
              /\ InstalledSoFar(u)'
              /\ self' # None \/ backup' # None
              /\ pc'[u] = "stranded" => self' = None /\ backup' = current'[u]
              /\ pc'[u] = "updated" => self' = target'[u] /\ backup' \in {None, current'[u]}
              /\ pc'[u] = "killed" =>
                   \/ self' \in {current'[u], target'[u]}
                   \/ self' = None /\ backup' = current'[u]
        <4>1. SUFFICES ASSUME ~overlapped', InstalledSoFar(u)
                       PROVE  /\ InstalledSoFar(u)'
                              /\ self' # None \/ backup' # None
                              /\ pc'[u] = "stranded" => self' = None /\ backup' = current'[u]
                              /\ pc'[u] = "updated" =>
                                   self' = target'[u] /\ backup' \in {None, current'[u]}
                              /\ pc'[u] = "killed" =>
                                   \/ self' \in {current'[u], target'[u]}
                                   \/ self' = None /\ backup' = current'[u]
          BY <3>1
        <4>2. InstalledSoFar(u)'
          BY <4>1, <3>1, <3>3, <2>m DEF InstalledSoFar
        <4>3. self' # None \/ backup' # None
          BY <4>1, <3>1, <2>m, <1>t DEF Updating
        <4>4. pc'[u] = "killed" =>
                \/ self' \in {current'[u], target'[u]}
                \/ self' = None /\ backup' = current'[u]
          BY <4>1, <3>1, <2>m DEF InstalledSoFar, Updating
        <4> QED BY <4>1, <4>2, <4>3, <4>4, <3>1, <2>m
      <3>5. /\ target'[u] \in Versions
            /\ pc'[u] \in Binary!Endings \ {"killed"} =>
                 archive'[u] = None /\ binary'[u] = None
            /\ pc'[u] \notin {"latest", "dry", "failed"}
        BY <3>1, <3>3, <2>m DEF Binary!Endings, Updating
      <3> QED BY <2>m, <3>2, <3>3, <3>4, <3>5, BinaryOwn
    <2>e. /\ archive \in [Procs -> {"whole", "short", None}]
          /\ binary \in [Procs -> Versions \cup {None}]
          /\ target[u] \in Versions \cup {None}
      BY <1>t DEF BinaryTyped
    <2>2. CASE Binary!Download(u)
      <3>1. pc[u] = "download" /\ self' = self /\ backup' = backup
        BY <2>2 DEF Binary!Download
      <3>2. ~overlapped => self = current[u] /\ self # None
        BY <3>1, <1>t DEF InstalledSoFar
      <3>3. CASE Binary!Give(u)
        BY <3>1, <3>2, <3>3, <2>g, <2>t DEF Updating
      <3>4. CASE ~Binary!Give(u)
        <4>1. /\ Binary!Step(u, "extract") /\ binary' = binary
              /\ \E a \in {"whole", "short"} : archive' = [archive EXCEPT ![u] = a]
          BY <2>2, <3>4 DEF Binary!Download
        <4>2. PICK a \in {"whole", "short"} : archive' = [archive EXCEPT ![u] = a]
          BY <4>1
        <4>3. InstalledSoFar(u) => self' = current[u] /\ self' # None
          BY <3>1 DEF InstalledSoFar
        <4>4. /\ archive' \in [Procs -> {"whole", "short", None}]
              /\ \A v \in Procs : v # u => archive'[v] = archive[v]
          BY <4>2, <2>e
        <4> QED BY <4>1, <4>3, <4>4, <3>1, <2>m, <2>e, <2>t DEF Updating
      <3> QED BY <3>3, <3>4
    <2>3. CASE Binary!Extract(u)
      <3>1. pc[u] = "extract" /\ self' = self /\ backup' = backup
        BY <2>3 DEF Binary!Extract
      <3>2. ~overlapped => self = current[u] /\ self # None
        BY <3>1, <1>t DEF InstalledSoFar
      <3>3. CASE Binary!Give(u)
        BY <3>1, <3>2, <3>3, <2>g, <2>t DEF Updating
      <3>4. CASE ~Binary!Give(u)
        <4>1. /\ Binary!Step(u, "clear") /\ archive' = archive
              /\ binary' = [binary EXCEPT ![u] = target[u]]
          BY <2>3, <3>4 DEF Binary!Extract
        <4>2. InstalledSoFar(u) => self' = current[u] /\ self' # None
          BY <3>1 DEF InstalledSoFar
        <4>3. /\ binary' \in [Procs -> Versions \cup {None}] /\ binary'[u] = target[u]
              /\ \A v \in Procs : v # u => binary'[v] = binary[v]
          BY <4>1, <2>e
        <4> QED BY <4>1, <4>2, <4>3, <3>1, <2>m, <2>e, <2>t DEF Updating
      <3> QED BY <3>3, <3>4
    <2>4. CASE Binary!Clear(u)
      <3>1. /\ pc[u] = "clear" /\ Binary!Step(u, "save") /\ self' = self /\ backup' \in {None, backup}
            /\ archive' = archive /\ binary' = binary
        BY <2>4 DEF Binary!Clear
      <3> QED BY <3>1, <2>m, <2>e, <2>t DEF Updating, InstalledSoFar
    <2>5. CASE Binary!Save(u)
      <3>1. pc[u] = "save"
        BY <2>5 DEF Binary!Save
      <3>2. ~overlapped => self = current[u] /\ self # None
        BY <3>1, <1>t DEF InstalledSoFar
      <3>3. CASE Binary!Give(u) /\ self' = self /\ backup' = backup
        BY <3>1, <3>2, <3>3, <2>g, <2>t DEF Updating
      <3>4. CASE /\ self # None /\ Binary!Step(u, "install")
                 /\ self' = None /\ backup' = self
                 /\ archive' = archive /\ binary' = binary
        BY <3>4, <3>1, <2>m, <2>e, <2>t DEF Updating, InstalledSoFar
      <3> QED BY <2>5, <3>3, <3>4 DEF Binary!Save
    <2>6. CASE Binary!Install(u)
      <3>1. pc[u] = "install"
        BY <2>6 DEF Binary!Install
      <3>2. CASE /\ Binary!Step(u, "drop") /\ self' = binary[u] /\ backup' = backup
                 /\ archive' = archive /\ binary' = [binary EXCEPT ![u] = None]
        <4>1. InstalledSoFar(u) => self' = target[u] /\ backup' = current[u]
          BY <3>1, <3>2 DEF InstalledSoFar
        <4>2. /\ binary' \in [Procs -> Versions \cup {None}]
              /\ \A v \in Procs : v # u => binary'[v] = binary[v]
          BY <3>2, <2>e
        <4> QED BY <4>1, <4>2, <3>2, <3>1, <2>m, <2>e, <2>t DEF Updating
      <3>3. CASE /\ Binary!Step(u, "restore") /\ self' = self /\ backup' = backup
                 /\ archive' = archive /\ binary' = binary
        BY <3>3, <3>1, <2>m, <2>e, <2>t DEF Updating, InstalledSoFar
      <3> QED BY <2>6, <3>2, <3>3 DEF Binary!Install
    <2>7. CASE Binary!Restore(u)
      <3>1. /\ pc[u] = "restore" /\ Binary!Cleanup(u)
            /\ \/ backup # None /\ Binary!Step(u, "failed") /\ self' = backup /\ backup' = None
               \/ Binary!Step(u, "stranded") /\ self' = self /\ backup' = backup
        BY <2>7 DEF Binary!Restore
      <3>2. CASE backup # None /\ Binary!Step(u, "failed") /\ self' = backup /\ backup' = None
        <4>1. Binary!Give(u)
          BY <3>1, <3>2 DEF Binary!Give
        <4>2. ~overlapped => self' = current[u] /\ self' # None
          BY <3>1, <3>2, <1>t DEF InstalledSoFar
        <4> QED BY <3>1, <3>2, <4>1, <4>2, <2>g, <2>t DEF Updating
      <3>3. CASE Binary!Step(u, "stranded") /\ self' = self /\ backup' = backup
        <4>1. InstalledSoFar(u) => self' = None /\ backup' = current[u] /\ backup' # None
          BY <3>1, <3>3 DEF InstalledSoFar
        <4>2. /\ archive' = [archive EXCEPT ![u] = None]
              /\ binary' = [binary EXCEPT ![u] = None]
          BY <3>1 DEF Binary!Cleanup
        <4>3. /\ archive' \in [Procs -> {"whole", "short", None}]
              /\ binary' \in [Procs -> Versions \cup {None}]
              /\ \A v \in Procs : v # u => archive'[v] = archive[v] /\ binary'[v] = binary[v]
              /\ archive'[u] = None /\ binary'[u] = None
          BY <4>2, <2>e
        <4> QED BY <3>1, <3>3, <4>1, <4>3, <2>m, <2>t DEF Updating
      <3> QED BY <3>1, <3>2, <3>3
    <2>8. CASE Binary!Drop(u)
      <3>1. /\ pc[u] = "drop" /\ Binary!Step(u, "updated") /\ self' = self
            /\ backup' \in {None, backup}
            /\ archive' = [archive EXCEPT ![u] = None]
            /\ binary' = [binary EXCEPT ![u] = None]
        BY <2>8 DEF Binary!Drop, Binary!Cleanup
      <3>2. InstalledSoFar(u) => self' = target[u] /\ backup' \in {None, current[u]}
        BY <3>1 DEF InstalledSoFar
      <3>3. /\ archive' \in [Procs -> {"whole", "short", None}]
            /\ binary' \in [Procs -> Versions \cup {None}]
            /\ \A v \in Procs : v # u => archive'[v] = archive[v] /\ binary'[v] = binary[v]
            /\ archive'[u] = None /\ binary'[u] = None
        BY <3>1, <2>e
      <3> QED BY <3>1, <3>2, <3>3, <2>m, <2>t DEF Updating
    <2>9. CASE Binary!Kill(u)
      <3>1. /\ pc[u] \in Updating /\ Binary!Step(u, "killed") /\ self' = self
            /\ backup' = backup /\ archive' = archive /\ binary' = binary
        BY <2>9, <2>t DEF Binary!Kill, Binary!UnderWay
      <3> QED BY <3>1, <2>m, <2>e, <2>t
    <2> QED BY <1>u, <2>1, <2>2, <2>3, <2>4, <2>5, <2>6, <2>7, <2>8, <2>9 DEF Binary!Update
  <1> QED BY <1>r, <1>u DEF Binary!Next

BinaryKeptInv == kept = "binary" => BinaryInv

LEMMA BinaryKeptStep == BinaryKeptInv /\ [Next]_vars => BinaryKeptInv'
  <1> SUFFICES ASSUME BinaryInv, kept = "binary", [Next]_vars, kept' = "binary"
               PROVE BinaryInv'
    BY DEF BinaryKeptInv, Next, KeepCredentials, KeepConfiguration, KeepBinary, vars
  <1>1. CASE KeepBinary
    BY <1>1, BinaryStep DEF KeepBinary
  <1>2. CASE UNCHANGED vars
    BY <1>2 DEF vars, onlyBinary, BinaryInv, BinaryTyped, TemporaryFiles, OneAtATime,
       InstalledSoFar, Binary!BinaryKept, Binary!NothingLeft, Binary!Latest
  <1> QED BY <1>1, <1>2 DEF Next, KeepCredentials, KeepConfiguration

LEMMA BinaryKeptAlways == Spec => []BinaryKeptInv
  <1>1. Init => BinaryKeptInv
    BY BinaryBegins DEF Init, BinaryKeptInv
  <1> QED BY <1>1, BinaryKeptStep, PTL DEF Spec

(* Updates one after the other never lose the binary, wherever they are    *)
(* killed and whichever of their renames fails: it is in place or in the   *)
(* backup; one that fails leaves what was there unless moving it back      *)
(* fails too, and one that reports success the release it names            *)
(* (cmd/update.go).                                                        *)
THEOREM BinaryNeverLost == Spec => []BinaryKept
  <1>1. BinaryKeptInv => BinaryKept
    BY DEF BinaryKeptInv, BinaryInv, BinaryKept
  <1> QED BY <1>1, BinaryKeptAlways, PTL

(* An update that ends of itself leaves no temporary file, whoever else    *)
(* updates.                                                                *)
THEOREM NoTemporaryFiles == Spec => []NothingLeft
  <1>1. BinaryKeptInv => NothingLeft
    BY DEF BinaryKeptInv, BinaryInv, NothingLeft
  <1> QED BY <1>1, BinaryKeptAlways, PTL

-----------------------------------------------------------------------------
(* The configuration.                                                      *)
Writers == {"add", "use", "remove", "org use"}
Readers == {"login", "refresh", "call"}

(* The current server of a configuration is one of its servers. *)
CurrentIn(c) == c.current # None => c.servers[c.current] # None

(* Where a process is tells which command it runs. *)
StepOf(p) ==
  /\ pc[p] # "idle" => job[p] \in Config!Jobs
  /\ pc[p] = "poll" => job[p].cmd = "login"
  /\ pc[p] \in {"creds", "refresh"} => job[p].cmd \in {"org use", "refresh", "call"}
  /\ pc[p] = "delete" => job[p].cmd = "remove"
  /\ pc[p] \in {"truncate", "write"} => job[p].cmd \in Writers

(* The credentials a process stores are for the URL of their server, or are *)
(* known to stray.                                                         *)
Right(t, c) == ~t.away => t.url = c.servers[t.slug]

AimRight(p) ==
  /\ pc[p] \in {"poll", "refresh"} => aim[p] \in Config!Targets
  /\ pc[p] \in {"poll", "creds", "refresh"} /\ aim[p] \in Config!Targets =>
       Right(aim[p], cfg[p])

Loaded(p) == pc[p] \notin {"idle", "load"}

ConfigTyped ==
  /\ pc \in [Procs -> Config!Steps]
  /\ job \in [Procs -> Config!Jobs \cup {Config!NoJob}]
  /\ cfg \in [Procs -> Config!Config] /\ file \in Config!Config
  /\ aim \in [Procs -> Config!Targets \cup {Config!NoTarget}]
  /\ cred \in [Slugs -> Urls \cup {None}] /\ disturbed \in BOOLEAN
  /\ strayed \subseteq Slugs
  /\ \A p \in Procs : StepOf(p) /\ AimRight(p)

(* A process goes on with a configuration it did not refuse. *)
NotRefused ==
  /\ CurrentIn(file)
  /\ \A p \in Procs :
       /\ CurrentIn(cfg[p])
       /\ Loaded(p) /\ pc[p] # "write" => ~Config!Refused(cfg[p], job[p])

(* The servers as they are, or are being written. *)
Pairs(c) == \A s \in Slugs : cred[s] \in {None, c.servers[s]} \/ s \in strayed

Undisturbed ==
  ~disturbed =>
    /\ \A p, q \in Procs :
         p # q /\ Loaded(p) /\ Loaded(q) => job[p].cmd \in Readers /\ job[q].cmd \in Readers
    /\ \A p \in Procs :
         /\ Loaded(p) /\ pc[p] # "write" =>
              cfg[p].servers = file.servers /\ cfg[p].current = file.current
         /\ pc[p] = "write" => file = Config!Empty /\ Pairs(cfg[p])
         /\ pc[p] = "truncate" /\ job[p].cmd = "remove" => cred[job[p].slug] = None
    /\ (\A p \in Procs : pc[p] # "write") => Pairs(file)

ConfigInv == ConfigTyped /\ NotRefused /\ Undisturbed

LEMMA ConfigBegins == Config!Init => ConfigInv
  <1> SUFFICES ASSUME Config!Init PROVE ConfigInv
    OBVIOUS
  <1>1. /\ pc = [p \in Procs |-> "idle"] /\ job = [p \in Procs |-> Config!NoJob]
        /\ cfg = [p \in Procs |-> Config!Empty] /\ file = Config!Empty
        /\ aim = [p \in Procs |-> Config!NoTarget] /\ strayed = {}
        /\ cred = [s \in Slugs |-> None] /\ disturbed = FALSE
    BY DEF Config!Init
  <1>2. Config!Empty \in Config!Config /\ Config!Empty.current = None
    BY DEF Config!Empty, Config!Config
  <1>3. ConfigTyped
    BY <1>1, <1>2 DEF ConfigTyped, StepOf, AimRight, Config!Steps
  <1>4. NotRefused
    BY <1>1, <1>2 DEF NotRefused, CurrentIn, Loaded
  <1>5. Undisturbed
    BY <1>1 DEF Undisturbed, Loaded, Pairs
  <1> QED BY <1>3, <1>4, <1>5 DEF ConfigInv

(* The other processes are where they were. *)
OthersStay(p) ==
  \A q \in Procs : q # p =>
    pc'[q] = pc[q] /\ job'[q] = job[q] /\ cfg'[q] = cfg[q] /\ aim'[q] = aim[q]

LEMMA OthersAimRight ==
  ASSUME NEW p \in Procs, NEW q \in Procs, q # p, OthersStay(p), AimRight(q)
  PROVE  AimRight(q)'
  BY DEF OthersStay, AimRight, Right, Config!Targets

(* Credentials are left alone, taken by a process for a URL it has loaded,  *)
(* deleted, or known to stray.                                             *)
CredentialsKeepTo(p) ==
  \/ cred' = cred /\ strayed' = strayed
  \/ /\ Loaded(p) /\ pc[p] # "write"
     /\ \A s \in Slugs :
          \/ cred'[s] = cred[s] /\ (s \in strayed => s \in strayed')
          \/ cred'[s] \in {None, cfg[p].servers[s]}
          \/ s \in strayed'

LEMMA NobodyRefused ==
  ASSUME ConfigInv, NEW p \in Procs, OthersStay(p), NEW q \in Procs, q # p
  PROVE  /\ CurrentIn(cfg[q])'
         /\ Loaded(q)' /\ pc'[q] # "write" => ~Config!Refused(cfg[q], job[q])'
  <1>1. pc'[q] = pc[q] /\ cfg'[q] = cfg[q] /\ job'[q] = job[q]
    BY DEF OthersStay
  <1>2. /\ CurrentIn(cfg[q])
        /\ Loaded(q) /\ pc[q] # "write" => ~Config!Refused(cfg[q], job[q])
    BY DEF ConfigInv, NotRefused
  <1>3. Config!Refused(cfg[q], job[q])' = Config!Refused(cfg[q], job[q])
    BY <1>1 DEF Config!Refused, Config!Registered
  <1> QED BY <1>1, <1>2, <1>3 DEF Loaded, CurrentIn

(* A step that leaves config.yaml alone: the process ends, or goes on with *)
(* what it has loaded, and credentials keep to that.                       *)
LEMMA ConfigRead ==
  ASSUME ConfigInv, NEW p \in Procs, OthersStay(p), ConfigTyped',
         file' = file, disturbed => disturbed', CurrentIn(cfg[p])',
         \/ ~Loaded(p)' /\ (pc[p] # "write" \/ disturbed')
         \/ /\ Loaded(p) /\ Loaded(p)' /\ pc[p] # "write" /\ pc'[p] # "write"
            /\ job'[p] = job[p] /\ cfg'[p] = cfg[p]
            /\ \/ disturbed'
               \/ ~(pc'[p] = "truncate" /\ job[p].cmd = "remove")
               \/ cred'[job[p].slug] = None,
         CredentialsKeepTo(p)
  PROVE  ConfigInv'
  <1>1. NotRefused'
    <2>1. CurrentIn(file)'
      BY DEF ConfigInv, NotRefused, CurrentIn
    <2>2. ASSUME NEW q \in Procs
          PROVE  /\ CurrentIn(cfg[q])'
                 /\ Loaded(q)' /\ pc'[q] # "write" => ~Config!Refused(cfg[q], job[q])'
      <3>1. CASE q = p
        BY <3>1 DEF ConfigInv, NotRefused, Config!Refused, Config!Registered
      <3>2. CASE q # p
        BY <3>2, NobodyRefused
      <3> QED BY <3>1, <3>2
    <2> QED BY <2>1, <2>2 DEF NotRefused
  <1>2. ASSUME ~disturbed'
        PROVE  /\ \A q, r \in Procs :
                    q # r /\ Loaded(q)' /\ Loaded(r)' =>
                      job'[q].cmd \in Readers /\ job'[r].cmd \in Readers
               /\ \A q \in Procs :
                    /\ Loaded(q)' /\ pc'[q] # "write" =>
                         cfg'[q].servers = file'.servers /\ cfg'[q].current = file'.current
                    /\ pc'[q] = "write" => file' = Config!Empty' /\ Pairs(cfg[q])'
                    /\ pc'[q] = "truncate" /\ job'[q].cmd = "remove" =>
                         cred'[job'[q].slug] = None
               /\ (\A q \in Procs : pc'[q] # "write") => Pairs(file)'
    <2>1. /\ ~disturbed
          /\ \A q, r \in Procs :
               q # r /\ Loaded(q) /\ Loaded(r) =>
                 job[q].cmd \in Readers /\ job[r].cmd \in Readers
          /\ \A q \in Procs :
               /\ Loaded(q) /\ pc[q] # "write" =>
                    cfg[q].servers = file.servers /\ cfg[q].current = file.current
               /\ pc[q] = "write" => file = Config!Empty /\ Pairs(cfg[q])
               /\ pc[q] = "truncate" /\ job[q].cmd = "remove" => cred[job[q].slug] = None
          /\ (\A q \in Procs : pc[q] # "write") => Pairs(file)
      BY <1>2 DEF ConfigInv, Undisturbed
    <2>2. \A q \in Procs : Loaded(q)' => Loaded(q) /\ job'[q] = job[q] /\ cfg'[q] = cfg[q]
      BY <1>2 DEF OthersStay, Loaded
    <2>3. \A q \in Procs : (pc'[q] = "write" <=> pc[q] = "write")
      BY <1>2 DEF OthersStay, Loaded
    <2>4. Loaded(p) /\ pc[p] # "write" =>
            \A q \in Procs : q # p => pc[q] \notin {"truncate", "write"}
      BY <2>1 DEF ConfigInv, ConfigTyped, StepOf, Loaded, Readers, Writers
    <2>5. \A q, r \in Procs :
            q # r /\ Loaded(q)' /\ Loaded(r)' =>
              job'[q].cmd \in Readers /\ job'[r].cmd \in Readers
      BY <2>1, <2>2
    <2>6. ASSUME NEW q \in Procs
          PROVE  /\ Loaded(q)' /\ pc'[q] # "write" =>
                      cfg'[q].servers = file'.servers /\ cfg'[q].current = file'.current
                 /\ pc'[q] = "write" => file' = Config!Empty' /\ Pairs(cfg[q])'
                 /\ pc'[q] = "truncate" /\ job'[q].cmd = "remove" =>
                      cred'[job'[q].slug] = None
      <3>1. Loaded(q)' /\ pc'[q] # "write" =>
              cfg'[q].servers = file'.servers /\ cfg'[q].current = file'.current
        BY <2>1, <2>2, <2>3
      <3>2. pc'[q] = "write" => file' = Config!Empty' /\ Pairs(cfg[q])'
        <4>1. SUFFICES ASSUME pc'[q] = "write"
                       PROVE  file' = Config!Empty' /\ Pairs(cfg[q])'
          OBVIOUS
        <4>2. pc[q] = "write" /\ cfg'[q] = cfg[q]
          BY <4>1, <2>2, <2>3 DEF Loaded
        <4>3. cred' = cred /\ strayed' = strayed
          BY <4>2, <2>4 DEF CredentialsKeepTo
        <4> QED BY <4>2, <4>3, <2>1 DEF Pairs, Config!Empty
      <3>3. pc'[q] = "truncate" /\ job'[q].cmd = "remove" => cred'[job'[q].slug] = None
        <4>1. CASE q = p
          BY <4>1, <1>2, <2>2 DEF Loaded
        <4>2. CASE q # p
          BY <4>2, <2>1, <2>4 DEF OthersStay, CredentialsKeepTo
        <4> QED BY <4>1, <4>2
      <3> QED BY <3>1, <3>2, <3>3
    <2>7. (\A q \in Procs : pc'[q] # "write") => Pairs(file)'
      <3>1. SUFFICES ASSUME \A q \in Procs : pc'[q] # "write" PROVE Pairs(file)'
        OBVIOUS
      <3>2. Pairs(file)
        BY <3>1, <2>1, <2>3
      <3> QED BY <3>2, <2>1 DEF Pairs, CredentialsKeepTo
    <2> QED BY <2>5, <2>6, <2>7
  <1>3. Undisturbed'
    BY <1>2 DEF Undisturbed
  <1> QED BY <1>1, <1>3 DEF ConfigInv

LEMMA ConfigEnds ==
  ASSUME ConfigTyped, NEW p \in Procs, Config!End(p),
         file' \in Config!Config, cred' \in [Slugs -> Urls \cup {None}],
         disturbed' \in BOOLEAN, strayed' \subseteq Slugs
  PROVE  ConfigTyped' /\ OthersStay(p) /\ ~Loaded(p)' /\ pc'[p] = "idle" /\ CurrentIn(cfg[p])'
  <1>1. /\ pc' = [pc EXCEPT ![p] = "idle"] /\ job' = [job EXCEPT ![p] = Config!NoJob]
        /\ cfg' = [cfg EXCEPT ![p] = Config!Empty]
        /\ aim' = [aim EXCEPT ![p] = Config!NoTarget]
    BY DEF Config!End, Config!GoTo
  <1>2. Config!Empty \in Config!Config /\ Config!Empty.current = None
    BY DEF Config!Empty, Config!Config
  <1>3. /\ pc' \in [Procs -> Config!Steps] /\ cfg' \in [Procs -> Config!Config]
        /\ job' \in [Procs -> Config!Jobs \cup {Config!NoJob}]
        /\ aim' \in [Procs -> Config!Targets \cup {Config!NoTarget}]
    BY <1>1, <1>2 DEF ConfigTyped, Config!Steps
  <1>4. OthersStay(p) /\ pc'[p] = "idle" /\ cfg'[p] = Config!Empty
    BY <1>1 DEF OthersStay, ConfigTyped
  <1>5. \A q \in Procs : StepOf(q)'
    BY <1>4 DEF ConfigTyped, StepOf, OthersStay
  <1>6. \A q \in Procs : AimRight(q)'
    <2>1. AimRight(p)'
      BY <1>4 DEF AimRight
    <2> QED BY <2>1, <1>4, OthersAimRight DEF ConfigTyped
  <1> QED BY <1>2, <1>3, <1>4, <1>5, <1>6 DEF ConfigTyped, CurrentIn, Loaded

LEMMA ConfigGoes ==
  ASSUME ConfigTyped, NEW p \in Procs, NEW there \in Config!Steps, Config!GoTo(p, there),
         job' = job, cfg' = cfg, aim' = aim,
         pc[p] # "idle",
         \/ there = "truncate" /\ job[p].cmd \in Writers
         \/ /\ there = "refresh" /\ job[p].cmd \in {"org use", "refresh", "call"}
            /\ aim[p] \in Config!Targets /\ Right(aim[p], cfg[p]),
         file' \in Config!Config, cred' \in [Slugs -> Urls \cup {None}],
         disturbed' \in BOOLEAN, strayed' \subseteq Slugs
  PROVE  ConfigTyped' /\ OthersStay(p) /\ pc'[p] = there
  <1>1. pc' = [pc EXCEPT ![p] = there]
    BY DEF Config!GoTo
  <1>2. OthersStay(p) /\ pc'[p] = there /\ pc' \in [Procs -> Config!Steps]
    BY <1>1 DEF OthersStay, ConfigTyped
  <1>3. \A q \in Procs : StepOf(q)'
    BY <1>2 DEF ConfigTyped, StepOf, OthersStay
  <1>4. \A q \in Procs : AimRight(q)'
    <2>1. AimRight(p)'
      BY <1>2 DEF AimRight, Right
    <2> QED BY <2>1, <1>2, OthersAimRight DEF ConfigTyped
  <1> QED BY <1>2, <1>3, <1>4 DEF ConfigTyped

(* What each command makes of a configuration that it does not refuse. *)
LEMMA ChangedRight ==
  ASSUME NEW c \in Config!Config, NEW j \in Config!Jobs, j.cmd \in Writers, CurrentIn(c),
         ~Config!Refused(c, j), NEW d \in Config!Changed(c, j)
  PROVE  /\ d \in Config!Config /\ CurrentIn(d)
         /\ Pairs(c) /\ (j.cmd = "remove" => cred[j.slug] = None) => Pairs(d)
  <1> USE DEF Config!Config, CurrentIn, Pairs
  <1>n. None \notin Slugs /\ None \notin Urls
    BY InstallationAssumption DEF Config!NoneApart
  <1>1. CASE j.cmd = "add"
    <2>1. /\ j.slug \in Slugs /\ j.url \in Urls /\ c.servers[j.slug] = None
      BY <1>1 DEF Config!Jobs, Config!Refused, Config!Registered
    <2>2. d = [c EXCEPT !.servers[j.slug] = j.url,
                        !.current = IF @ = None THEN j.slug ELSE @]
      BY <1>1 DEF Config!Changed, Config!Added
    <2>3. /\ d.servers = [c.servers EXCEPT ![j.slug] = j.url]
          /\ d.current = IF c.current = None THEN j.slug ELSE c.current
          /\ d.org = c.org /\ d \in Config!Config
      BY <2>1, <2>2
    <2>4. CurrentIn(d)
      BY <2>1, <2>3, <1>n
    <2>5. Pairs(c) => Pairs(d)
      BY <2>1, <2>3
    <2> QED BY <2>3, <2>4, <2>5
  <1>2. CASE j.cmd = "use"
    <2>1. j.slug \in Slugs /\ c.servers[j.slug] # None
      BY <1>2 DEF Config!Jobs, Config!Refused, Config!Registered
    <2>2. d = [c EXCEPT !.current = j.slug]
      BY <1>2 DEF Config!Changed, Config!Used
    <2> QED BY <2>1, <2>2, <1>2
  <1>3. CASE j.cmd = "remove"
    <2>1. j.slug \in Slugs
      BY <1>3 DEF Config!Jobs
    <2> DEFINE left == [c EXCEPT !.servers[j.slug] = None]
    <2>2. /\ left \in Config!Config /\ left.current = c.current /\ left.org = c.org
          /\ left.servers = [c.servers EXCEPT ![j.slug] = None]
      BY <2>1
    <2>3. d \in Config!RemovedFrom(c, j.slug)
      BY <1>3 DEF Config!Changed
    <2>4. CASE c.current # j.slug
      <3>1. d = left
        BY <2>3, <2>4 DEF Config!RemovedFrom
      <3> QED BY <3>1, <2>1, <2>2, <2>4, <1>3
    <2>5. CASE c.current = j.slug
      <3>1. PICK next \in IF Config!Registered(left) = {} THEN {None}
                          ELSE Config!Registered(left) : d = [left EXCEPT !.current = next]
        BY <2>3, <2>5 DEF Config!RemovedFrom
      <3>2. next = None \/ (next \in Slugs /\ left.servers[next] # None)
        BY <3>1 DEF Config!Registered
      <3>3. d.servers = left.servers /\ d.current = next /\ d \in Config!Config
        BY <3>1, <3>2, <2>2
      <3> QED BY <3>2, <3>3, <2>1, <2>2, <1>3
    <2> QED BY <2>4, <2>5
  <1>4. CASE j.cmd = "org use"
    <2>1. j.org \in Orgs
      BY <1>4 DEF Config!Jobs
    <2>2. d = [c EXCEPT !.org = j.org]
      BY <1>4 DEF Config!Changed
    <2> QED BY <2>1, <2>2, <1>4
  <1> QED BY <1>1, <1>2, <1>3, <1>4 DEF Writers

(* A command uses credentials at the URL of their server, at one that was  *)
(* named with the server and agrees with it, or strays.                    *)
LEMMA TargetRight ==
  ASSUME NEW c \in Config!Config, NEW j \in Config!Jobs, NEW t \in Config!TargetsOf(c, j)
  PROVE  /\ t \in Config!Targets \cup {Config!NoTarget}
         /\ j.cmd = "login" => t \in Config!Targets
         /\ t \in Config!Targets => Right(t, c)
  <1> USE DEF Config!Options, Config!Targets, Right
  <1>n. None \notin Slugs /\ None \notin Urls /\ Config!NoTarget \notin Config!Targets
    BY InstallationAssumption DEF Config!NoneApart, Config!NoTarget
  <1>1. ASSUME NEW arg, NEW o \in Config!Options, NEW s \in Config!Selected(c, arg, o)
        PROVE  /\ s \in Slugs /\ c.servers[s] \in Urls
               /\ arg = None /\ o.server # None => o.api \in {None, c.servers[s]}
    <2>1. s \in Slugs /\ c.servers[s] \in Urls
      BY DEF Config!Selected, Config!Registered, Config!Config
    <2>2. arg = None /\ o.server # None => o.api \in {None, c.servers[s]}
      BY DEF Config!Selected, Config!Agrees
    <2> QED BY <2>1, <2>2
  <1>2. ASSUME NEW arg, NEW o \in Config!Options, t \in Config!AuthTargets(c, arg, o)
        PROVE  t \in Config!Targets /\ Right(t, c)
    <2>1. PICK s \in Config!Selected(c, arg, o) :
            t = [slug |-> s, url |-> c.servers[s], away |-> FALSE]
      BY <1>2 DEF Config!AuthTargets
    <2> QED BY <2>1, <1>1
  <1>3. ASSUME NEW o \in Config!Options, t \in Config!ClientTargets(c, o), t # Config!NoTarget
        PROVE  t \in Config!Targets /\ Right(t, c)
    <2>1. PICK s \in Config!Selected(c, None, o) :
            t = [slug |-> s, url |-> IF o.api = None THEN c.servers[s] ELSE o.api,
                 away |-> /\ o.server = None
                          /\ (IF o.api = None THEN c.servers[s] ELSE o.api) # c.servers[s]]
      BY <1>3 DEF Config!ClientTargets
    <2>2. /\ s \in Slugs /\ c.servers[s] \in Urls
          /\ o.server # None => o.api \in {None, c.servers[s]}
      BY <1>1
    <2>3. o.api \in Urls \cup {None}
      OBVIOUS
    <2> QED BY <2>1, <2>2, <2>3
  <1>4. PICK arg \in Slugs \cup {None}, o \in Config!Options :
          t \in Config!TargetsWith(c, j, arg, o)
    BY DEF Config!TargetsOf
  <1>5. CASE j.cmd \in {"login", "refresh"}
    <2>1. t \in Config!AuthTargets(c, arg, o) \/ t \in Config!AuthTargets(c, None, o)
      BY <1>4, <1>5 DEF Config!TargetsWith
    <2> QED BY <2>1, <1>2
  <1>6. CASE j.cmd \in {"org use", "call"}
    <2>1. t \in Config!ClientTargets(c, o)
      BY <1>4, <1>6 DEF Config!TargetsWith
    <2> QED BY <2>1, <1>3, <1>n, <1>6
  <1>7. CASE j.cmd \notin {"login", "refresh", "org use", "call"}
    <2>1. t = Config!NoTarget
      BY <1>4, <1>7 DEF Config!TargetsWith
    <2> QED BY <2>1, <1>n, <1>7
  <1> QED BY <1>5, <1>6, <1>7

LEMMA ConfigLoad ==
  ASSUME ConfigInv, NEW p \in Procs, Config!Load(p)
  PROVE  ConfigInv'
  <1>1. /\ pc[p] = "load" /\ job' = job /\ file' = file /\ cred' = cred
        /\ strayed' = strayed /\ disturbed' = (disturbed \/ Config!Overlaps(p))
        /\ pc' = [pc EXCEPT ![p] =
                    CASE job[p].cmd = "login"                          -> "poll"
                      [] job[p].cmd \in {"org use", "refresh", "call"} -> "creds"
                      [] job[p].cmd = "remove"                         -> "delete"
                      [] OTHER                                         -> "truncate"]
    BY DEF Config!Load, Config!At, Config!GoTo
  <1>2. PICK org \in {file.org} \cup (IF torn /\ file.org = None THEN Orgs ELSE {}) :
          /\ ~Config!Refused([file EXCEPT !.org = org], job[p])
          /\ cfg' = [cfg EXCEPT ![p] = [file EXCEPT !.org = org]]
          /\ \E t \in Config!TargetsOf([file EXCEPT !.org = org], job[p]) :
               aim' = [aim EXCEPT ![p] = t]
    BY DEF Config!Load
  <1>3. PICK read : read = [file EXCEPT !.org = org]
    OBVIOUS
  <1>4. /\ read \in Config!Config /\ read.servers = file.servers
        /\ read.current = file.current
    BY <1>2, <1>3 DEF ConfigInv, ConfigTyped, Config!Config
  <1>b. PICK t \in Config!TargetsOf(read, job[p]) : aim' = [aim EXCEPT ![p] = t]
    BY <1>2, <1>3
  <1>5. /\ OthersStay(p) /\ cfg'[p] = read /\ cfg' \in [Procs -> Config!Config]
        /\ ~Config!Refused(read, job[p]) /\ job[p] \in Config!Jobs
        /\ pc'[p] = CASE job[p].cmd = "login"                          -> "poll"
                      [] job[p].cmd \in {"org use", "refresh", "call"} -> "creds"
                      [] job[p].cmd = "remove"                         -> "delete"
                      [] OTHER                                         -> "truncate"
    BY <1>1, <1>2, <1>3, <1>4, <1>b DEF ConfigInv, ConfigTyped, StepOf, OthersStay
  <1>a. /\ aim'[p] = t /\ aim' \in [Procs -> Config!Targets \cup {Config!NoTarget}]
        /\ job[p].cmd = "login" => t \in Config!Targets
        /\ t \in Config!Targets => Right(t, read)
    BY <1>4, <1>5, <1>b, TargetRight DEF ConfigInv, ConfigTyped
  <1>6. /\ pc'[p] \in {"poll", "creds", "delete", "truncate"}
        /\ pc'[p] = "poll" => job[p].cmd = "login"
        /\ pc'[p] = "creds" => job[p].cmd \in {"org use", "refresh", "call"}
        /\ pc'[p] = "delete" <=> job[p].cmd = "remove"
        /\ pc'[p] = "truncate" => job[p].cmd \in Writers /\ job[p].cmd # "remove"
        /\ job[p].cmd \in Readers \cup Writers
    BY <1>5 DEF Config!Jobs, Writers, Readers
  <1>7. ConfigTyped'
    <2>1. pc' \in [Procs -> Config!Steps]
      BY <1>1, <1>6, <1>5 DEF ConfigInv, ConfigTyped, Config!Steps
    <2>2. \A q \in Procs : StepOf(q)'
      BY <1>1, <1>5, <1>6 DEF ConfigInv, ConfigTyped, StepOf, OthersStay
    <2>3. disturbed' \in BOOLEAN
      BY <1>1 DEF ConfigInv, ConfigTyped, Config!Overlaps
    <2>4. \A q \in Procs : AimRight(q)'
      <3>1. AimRight(p)'
        BY <1>5, <1>6, <1>a DEF AimRight
      <3> QED BY <3>1, <1>5, OthersAimRight DEF ConfigInv, ConfigTyped
    <2> QED BY <1>1, <1>5, <1>a, <2>1, <2>2, <2>3, <2>4 DEF ConfigInv, ConfigTyped
  <1>8. NotRefused'
    <2>1. CurrentIn(file)' /\ CurrentIn(cfg[p])'
      BY <1>1, <1>4, <1>5 DEF ConfigInv, NotRefused, CurrentIn
    <2>2. ~Config!Refused(cfg[p], job[p])'
      BY <1>1, <1>5 DEF Config!Refused, Config!Registered
    <2>3. \A q \in Procs : q # p =>
            /\ CurrentIn(cfg[q])'
            /\ Loaded(q)' /\ pc'[q] # "write" => ~Config!Refused(cfg[q], job[q])'
      BY <1>5, NobodyRefused
    <2> QED BY <2>1, <2>2, <2>3 DEF NotRefused
  <1>9. Undisturbed'
    <2>1. SUFFICES ASSUME ~disturbed' PROVE Undisturbed'
      BY DEF Undisturbed
    <2>2. /\ ~disturbed
          /\ \A q \in Procs \ {p} :
               Loaded(q) => job[p].cmd \in Readers /\ job[q].cmd \in Readers
      BY <1>1, <2>1 DEF Config!Overlaps, Loaded, Readers
    <2>3. \A q \in Procs : q # p /\ Loaded(q) => pc[q] \notin {"truncate", "write"}
      BY <2>2 DEF ConfigInv, ConfigTyped, StepOf, Loaded, Readers, Writers
    <2>4. \A q \in Procs : pc[q] # "write" /\ pc'[q] # "write"
      BY <2>3, <1>1, <1>5, <1>6 DEF OthersStay, Loaded
    <2>5. Pairs(file)'
      BY <2>2, <2>4, <1>1 DEF ConfigInv, Undisturbed, Pairs
    <2>6. \A q, r \in Procs :
            q # r /\ Loaded(q)' /\ Loaded(r)' =>
              job'[q].cmd \in Readers /\ job'[r].cmd \in Readers
      <3>1. \A q \in Procs : q # p => (Loaded(q)' <=> Loaded(q)) /\ job'[q] = job[q]
        BY <1>5 DEF OthersStay, Loaded
      <3>2. \A q, r \in Procs : q # r /\ Loaded(q) /\ Loaded(r) =>
              job[q].cmd \in Readers /\ job[r].cmd \in Readers
        BY <2>2 DEF ConfigInv, Undisturbed
      <3> QED BY <3>1, <3>2, <2>2, <1>1
    <2>7. ASSUME NEW q \in Procs
          PROVE  /\ Loaded(q)' =>
                      cfg'[q].servers = file'.servers /\ cfg'[q].current = file'.current
                 /\ ~(pc'[q] = "truncate" /\ job'[q].cmd = "remove")
      <3>1. CASE q = p
        BY <3>1, <1>1, <1>4, <1>5, <1>6
      <3>2. CASE q # p
        BY <3>2, <1>1, <1>5, <2>2, <2>3, <2>4
        DEF OthersStay, Loaded, ConfigInv, Undisturbed
      <3> QED BY <3>1, <3>2
    <2> QED BY <2>4, <2>5, <2>6, <2>7 DEF Undisturbed
  <1> QED BY <1>7, <1>8, <1>9 DEF ConfigInv

(* Nobody else has loaded what a process is to write. *)
LEMMA WritesAlone ==
  ASSUME ConfigInv, ~disturbed, NEW p \in Procs, pc[p] \in {"truncate", "write"}
  PROVE  \A q \in Procs : q # p => ~Loaded(q)
  BY DEF ConfigInv, ConfigTyped, StepOf, Undisturbed, Loaded, Readers, Writers

LEMMA ConfigTruncate ==
  ASSUME ConfigInv, NEW p \in Procs, Config!Truncate(p)
  PROVE  ConfigInv'
  <1>1. /\ pc[p] = "truncate" /\ job' = job /\ aim' = aim /\ cred' = cred
        /\ strayed' = strayed /\ disturbed' = disturbed
        /\ file' = Config!Empty /\ pc' = [pc EXCEPT ![p] = "write"]
    BY DEF Config!Truncate, Config!At, Config!GoTo
  <1>2. PICK d \in Config!Changed(cfg[p], job[p]) : cfg' = [cfg EXCEPT ![p] = d]
    BY DEF Config!Truncate
  <1>3. /\ cfg[p] \in Config!Config /\ job[p] \in Config!Jobs /\ job[p].cmd \in Writers
        /\ CurrentIn(cfg[p]) /\ ~Config!Refused(cfg[p], job[p])
    BY <1>1 DEF ConfigInv, ConfigTyped, StepOf, NotRefused, Loaded
  <1>4. /\ d \in Config!Config /\ CurrentIn(d)
        /\ Pairs(cfg[p]) /\ (job[p].cmd = "remove" => cred[job[p].slug] = None) => Pairs(d)
    BY <1>2, <1>3, ChangedRight
  <1>5. /\ OthersStay(p) /\ cfg'[p] = d /\ pc'[p] = "write"
        /\ cfg' \in [Procs -> Config!Config] /\ pc' \in [Procs -> Config!Steps]
    BY <1>1, <1>2, <1>4 DEF ConfigInv, ConfigTyped, OthersStay, Config!Steps
  <1>e. Config!Empty \in Config!Config /\ Config!Empty.current = None
    BY DEF Config!Empty, Config!Config
  <1>7. ConfigTyped'
    <2>1. \A q \in Procs : StepOf(q)'
      BY <1>1, <1>3, <1>5 DEF ConfigInv, ConfigTyped, StepOf, OthersStay
    <2>2. \A q \in Procs : AimRight(q)'
      <3>1. AimRight(p)'
        BY <1>5 DEF AimRight
      <3> QED BY <3>1, <1>5, OthersAimRight DEF ConfigInv, ConfigTyped
    <2> QED BY <1>1, <1>5, <1>e, <2>1, <2>2 DEF ConfigInv, ConfigTyped
  <1>8. NotRefused'
    <2>1. CurrentIn(file)' /\ CurrentIn(cfg[p])'
      BY <1>1, <1>e, <1>4, <1>5 DEF CurrentIn
    <2>3. \A q \in Procs : q # p =>
            /\ CurrentIn(cfg[q])'
            /\ Loaded(q)' /\ pc'[q] # "write" => ~Config!Refused(cfg[q], job[q])'
      BY <1>5, NobodyRefused
    <2> QED BY <1>5, <2>1, <2>3 DEF NotRefused
  <1>9. Undisturbed'
    <2>1. SUFFICES ASSUME ~disturbed PROVE Undisturbed'
      BY <1>1 DEF Undisturbed
    <2>2. \A q \in Procs : q # p => ~Loaded(q)
      BY <1>1, <2>1, WritesAlone
    <2>3. \A q \in Procs : q # p => ~Loaded(q)' /\ pc'[q] \notin {"truncate", "write"}
      BY <2>2, <1>5 DEF OthersStay, Loaded
    <2>4. Pairs(file) /\ cfg[p].servers = file.servers
      BY <2>1, <2>2, <1>1 DEF ConfigInv, Undisturbed, Loaded
    <2>5. Pairs(cfg[p]) /\ (job[p].cmd = "remove" => cred[job[p].slug] = None)
      BY <2>1, <2>4, <1>1 DEF Pairs, ConfigInv, Undisturbed
    <2>6. Pairs(cfg[p])'
      BY <2>5, <1>1, <1>4, <1>5 DEF Pairs
    <2>7. file' = Config!Empty'
      BY <1>1 DEF Config!Empty
    <2> QED BY <2>3, <2>6, <2>7, <1>5 DEF Undisturbed
  <1> QED BY <1>7, <1>8, <1>9 DEF ConfigInv

LEMMA ConfigWrite ==
  ASSUME ConfigInv, NEW p \in Procs, Config!Write(p)
  PROVE  ConfigInv'
  <1>1. /\ pc[p] = "write" /\ file' = cfg[p] /\ cred' = cred
        /\ strayed' = strayed /\ disturbed' = disturbed /\ Config!End(p)
    BY DEF Config!Write, Config!At
  <1>2. cfg[p] \in Config!Config /\ CurrentIn(cfg[p])
    BY DEF ConfigInv, ConfigTyped, NotRefused
  <1>3. ConfigTyped' /\ OthersStay(p) /\ ~Loaded(p)' /\ pc'[p] = "idle" /\ CurrentIn(cfg[p])'
    BY <1>1, <1>2, ConfigEnds DEF ConfigInv, ConfigTyped
  <1>8. NotRefused'
    <2>1. CurrentIn(file)'
      BY <1>1, <1>2 DEF CurrentIn
    <2>3. \A q \in Procs : q # p =>
            /\ CurrentIn(cfg[q])'
            /\ Loaded(q)' /\ pc'[q] # "write" => ~Config!Refused(cfg[q], job[q])'
      BY <1>3, NobodyRefused
    <2> QED BY <1>3, <2>1, <2>3 DEF NotRefused
  <1>9. Undisturbed'
    <2>1. SUFFICES ASSUME ~disturbed PROVE Undisturbed'
      BY <1>1 DEF Undisturbed
    <2>2. \A q \in Procs : q # p => ~Loaded(q)
      BY <1>1, <2>1, WritesAlone
    <2>3. \A q \in Procs : ~Loaded(q)' /\ pc'[q] \notin {"truncate", "write"}
      BY <2>2, <1>3 DEF OthersStay, Loaded
    <2>4. Pairs(cfg[p])
      BY <2>1, <1>1 DEF ConfigInv, Undisturbed
    <2>5. Pairs(file)'
      BY <2>4, <1>1 DEF Pairs
    <2> QED BY <2>3, <2>5 DEF Undisturbed
  <1> QED BY <1>3, <1>8, <1>9 DEF ConfigInv

LEMMA ConfigBegin ==
  ASSUME ConfigInv, NEW p \in Procs, NEW j \in Config!Jobs, Config!Begin(p, j)
  PROVE  ConfigInv'
  <1>1. /\ pc[p] = "idle" /\ pc' = [pc EXCEPT ![p] = "load"] /\ job' = [job EXCEPT ![p] = j]
        /\ UNCHANGED <<cfg, aim, file, cred, strayed, disturbed>>
    BY DEF Config!Begin, Config!At, Config!GoTo
  <1>2. /\ OthersStay(p) /\ pc'[p] = "load" /\ job'[p] = j
        /\ pc' \in [Procs -> Config!Steps]
        /\ job' \in [Procs -> Config!Jobs \cup {Config!NoJob}]
    BY <1>1 DEF ConfigInv, ConfigTyped, OthersStay, Config!Steps
  <1>3. \A q \in Procs : StepOf(q)'
    BY <1>2 DEF ConfigInv, ConfigTyped, StepOf, OthersStay
  <1>a. \A q \in Procs : AimRight(q)'
    <2>1. AimRight(p)'
      BY <1>2 DEF AimRight
    <2> QED BY <2>1, <1>2, OthersAimRight DEF ConfigInv, ConfigTyped
  <1>4. ConfigTyped'
    BY <1>1, <1>2, <1>3, <1>a DEF ConfigInv, ConfigTyped
  <1>5. CurrentIn(cfg[p])' /\ ~Loaded(p)'
    BY <1>1, <1>2 DEF ConfigInv, NotRefused, CurrentIn, Loaded
  <1> QED BY <1>1, <1>2, <1>4, <1>5, ConfigRead DEF CredentialsKeepTo

LEMMA ConfigStep == ConfigInv /\ Config!Next => ConfigInv'
  <1> SUFFICES ASSUME ConfigInv, NEW p \in Procs,
                      \/ \E j \in Config!Jobs : Config!Begin(p, j)
                      \/ Config!Load(p)
                      \/ Config!Login(p)
                      \/ Config!UseCredentials(p)
                      \/ Config!AskRefresh(p)
                      \/ Config!Refreshed(p)
                      \/ Config!DeleteCredentials(p)
                      \/ Config!Truncate(p)
                      \/ Config!Write(p)
                      \/ Config!Stop(p)
               PROVE  ConfigInv'
    BY DEF Config!Next
  <1> USE DEF Config!At
  <1>t. /\ ConfigTyped /\ cfg[p] \in Config!Config /\ CurrentIn(cfg[p])
        /\ file \in Config!Config /\ cred \in [Slugs -> Urls \cup {None}]
        /\ strayed \subseteq Slugs
        /\ disturbed \in BOOLEAN /\ StepOf(p) /\ AimRight(p)
        /\ aim[p] \in Config!Targets \cup {Config!NoTarget}
        /\ cfg[p].servers \in [Slugs -> Urls \cup {None}]
        /\ "truncate" \in Config!Steps /\ "refresh" \in Config!Steps
    BY DEF ConfigInv, ConfigTyped, NotRefused, Config!Config, Config!Steps
  <1>n. aim[p].slug # None => aim[p] \in Config!Targets
    BY <1>t DEF Config!NoTarget
  <1>c. ASSUME pc[p] \in {"poll", "refresh"}, Config!Stored(p)
        PROVE  /\ cred' \in [Slugs -> Urls \cup {None}] /\ strayed' \subseteq Slugs
               /\ CredentialsKeepTo(p)
    <2>1. PICK t : t = aim[p]
      OBVIOUS
    <2>2. /\ t.slug \in Slugs /\ t.url \in Urls /\ t.away \in BOOLEAN
          /\ ~t.away => t.url = cfg[p].servers[t.slug]
      BY <2>1, <1>c, <1>t DEF AimRight, Right, Config!Targets
    <2>3. /\ cred' = [cred EXCEPT ![t.slug] = t.url]
          /\ strayed' = IF t.away THEN strayed \cup {t.slug} ELSE strayed \ {t.slug}
      BY <2>1, <1>c DEF Config!Stored
    <2>4. cred' \in [Slugs -> Urls \cup {None}] /\ strayed' \subseteq Slugs
      BY <2>2, <2>3, <1>t
    <2>5. ASSUME NEW s \in Slugs
          PROVE  \/ cred'[s] = cred[s] /\ (s \in strayed => s \in strayed')
                 \/ cred'[s] \in {None, cfg[p].servers[s]}
                 \/ s \in strayed'
      BY <2>2, <2>3, <1>t
    <2> QED BY <2>4, <2>5, <1>c DEF CredentialsKeepTo, Loaded
  <1>e. ASSUME Config!End(p), file' = file, disturbed' \in BOOLEAN,
               disturbed => disturbed', pc[p] # "write" \/ disturbed',
               cred' \in [Slugs -> Urls \cup {None}], strayed' \subseteq Slugs,
               CredentialsKeepTo(p)
        PROVE  ConfigInv'
    <2>1. ConfigTyped' /\ OthersStay(p) /\ ~Loaded(p)' /\ CurrentIn(cfg[p])'
      BY <1>e, <1>t, ConfigEnds
    <2> QED BY <1>e, <2>1, ConfigRead
  <1>g. ASSUME Config!HasClient(p), pc[p] \in {"creds", "refresh"},
               file' = file, disturbed' = disturbed,
               cred' \in [Slugs -> Urls \cup {None}], strayed' \subseteq Slugs,
               CredentialsKeepTo(p)
        PROVE  ConfigInv'
    <2>1. CASE job[p].cmd # "org use"
      BY <1>g, <2>1, <1>e, <1>t DEF Config!HasClient
    <2>2. CASE job[p].cmd = "org use"
      <3>1. Config!GoTo(p, "truncate") /\ job' = job /\ cfg' = cfg /\ aim' = aim
        BY <1>g, <2>2 DEF Config!HasClient
      <3>2. ConfigTyped' /\ OthersStay(p) /\ pc'[p] = "truncate"
        BY <3>1, <2>2, <1>g, <1>t, ConfigGoes DEF Writers
      <3>3. CurrentIn(cfg[p])' /\ Loaded(p) /\ Loaded(p)'
        BY <3>1, <3>2, <1>g, <1>t DEF CurrentIn, Loaded
      <3> QED BY <3>1, <3>2, <3>3, <2>2, <1>g, ConfigRead
    <2> QED BY <2>1, <2>2
  <1>1. CASE \E j \in Config!Jobs : Config!Begin(p, j)
    BY <1>1, ConfigBegin
  <1>2. CASE Config!Load(p)
    BY <1>2, ConfigLoad
  <1>3. CASE Config!Login(p)
    <2>1. /\ pc[p] = "poll" /\ Config!End(p) /\ file' = file /\ disturbed' = disturbed
          /\ Config!Stored(p)
      BY <1>3 DEF Config!Login
    <2> QED BY <2>1, <1>c, <1>e, <1>t
  <1>4. CASE Config!UseCredentials(p)
    <2>1. /\ pc[p] = "creds" /\ Config!HasClient(p) /\ file' = file /\ cred' = cred
          /\ strayed' = strayed /\ disturbed' = disturbed
      BY <1>4 DEF Config!UseCredentials
    <2> QED BY <2>1, <1>g, <1>t DEF CredentialsKeepTo
  <1>5. CASE Config!AskRefresh(p)
    <2>1. /\ pc[p] = "creds" /\ Config!GoTo(p, "refresh") /\ aim[p].slug # None
          /\ UNCHANGED <<job, cfg, aim, file, cred, strayed, disturbed>>
      BY <1>5 DEF Config!AskRefresh
    <2>2. aim[p] \in Config!Targets /\ Right(aim[p], cfg[p])
      BY <2>1, <1>n, <1>t DEF AimRight
    <2>3. ConfigTyped' /\ OthersStay(p) /\ pc'[p] = "refresh"
      BY <2>1, <2>2, <1>t, ConfigGoes DEF StepOf
    <2>4. CurrentIn(cfg[p])' /\ Loaded(p) /\ Loaded(p)'
      BY <2>1, <2>3, <1>t DEF CurrentIn, Loaded
    <2> QED BY <2>1, <2>3, <2>4, ConfigRead DEF CredentialsKeepTo
  <1>6. CASE Config!Refreshed(p)
    <2>1. /\ pc[p] = "refresh" /\ file' = file /\ disturbed' = disturbed
          /\ Config!Stored(p) /\ Config!HasClient(p)
      BY <1>6 DEF Config!Refreshed
    <2> QED BY <2>1, <1>c, <1>g
  <1>7. CASE Config!DeleteCredentials(p)
    <2>1. /\ pc[p] = "delete" /\ Config!GoTo(p, "truncate") /\ job[p].cmd = "remove"
          /\ UNCHANGED <<job, cfg, aim, file>> /\ job[p].slug \in Slugs
          /\ \/ /\ cred' = [cred EXCEPT ![job[p].slug] = None] /\ disturbed' = disturbed
                /\ strayed' = strayed \ {job[p].slug}
             \/ disturbed' = TRUE /\ cred' = cred /\ strayed' = strayed
      BY <1>7, <1>t DEF Config!DeleteCredentials, StepOf, Config!Jobs
    <2>2. /\ cred' \in [Slugs -> Urls \cup {None}] /\ disturbed' \in BOOLEAN
          /\ strayed' \subseteq Slugs
          /\ disturbed' \/ cred'[job[p].slug] = None
      BY <2>1, <1>t
    <2>5. CredentialsKeepTo(p)
      <3>1. \A s \in Slugs : \/ cred'[s] = cred[s] /\ (s \in strayed => s \in strayed')
                             \/ cred'[s] = None
        BY <2>1, <1>t
      <3> QED BY <3>1, <2>1 DEF CredentialsKeepTo, Loaded
    <2>3. ConfigTyped' /\ OthersStay(p) /\ pc'[p] = "truncate"
      BY <2>1, <2>2, <1>t, ConfigGoes DEF Writers
    <2>4. CurrentIn(cfg[p])' /\ Loaded(p) /\ Loaded(p)'
      BY <2>1, <2>3, <1>t DEF CurrentIn, Loaded
    <2> QED BY <2>1, <2>2, <2>3, <2>4, <2>5, ConfigRead
  <1>8. CASE Config!Truncate(p)
    BY <1>8, ConfigTruncate
  <1>9. CASE Config!Write(p)
    BY <1>9, ConfigWrite
  <1>10. CASE Config!Stop(p)
    BY <1>10, <1>e, <1>t DEF Config!Stop, CredentialsKeepTo
  <1> QED BY <1>1, <1>2, <1>3, <1>4, <1>5, <1>6, <1>7, <1>8, <1>9, <1>10

ConfigKept == kept = "configuration" => ConfigInv

LEMMA ConfigKeptStep == ConfigKept /\ [Next]_vars => ConfigKept'
  <1> SUFFICES ASSUME ConfigInv, kept = "configuration", [Next]_vars,
                      kept' = "configuration"
               PROVE  ConfigInv'
    BY DEF ConfigKept, Next, KeepCredentials, KeepConfiguration, KeepBinary, vars
  <1>1. CASE KeepConfiguration
    BY <1>1, ConfigStep DEF KeepConfiguration
  <1>2. CASE UNCHANGED vars
    <2>1. UNCHANGED <<pc, job, cfg, aim, file, cred, strayed, disturbed>>
      BY <1>2 DEF vars, onlyConfig
    <2>2. ConfigTyped'
      BY <2>1 DEF ConfigInv, ConfigTyped, StepOf, AimRight, Right, Config!Targets
    <2>3. NotRefused'
      BY <2>1 DEF ConfigInv, NotRefused, Loaded, CurrentIn
    <2>4. Undisturbed'
      BY <2>1 DEF ConfigInv, Undisturbed, Loaded, Pairs
    <2> QED BY <2>2, <2>3, <2>4 DEF ConfigInv
  <1> QED BY <1>1, <1>2 DEF Next, KeepCredentials, KeepBinary

(* The current server of config.yaml is a registered one, however commands *)
(* interleave and wherever they are killed; and as long as no two overlap  *)
(* and no deletion fails, a server's credentials are for its own URL,      *)
(* whatever --server, --api-url and --token say, but where a command that  *)
(* named another URL and no server has refreshed them (cmd/server.go,      *)
(* cmd/server_selection.go, cmd/helpers.go, internal/config/config.go).    *)
THEOREM ServersAlwaysConsistent == Spec => []ServersConsistent
  <1>1. Init => ConfigKept
    BY ConfigBegins DEF Init, ConfigKept
  <1>2. ConfigInv => Config!CurrentRegistered
    BY DEF ConfigInv, ConfigTyped, NotRefused, CurrentIn, Config!CurrentRegistered,
       Config!Registered, Config!Config
  <1>3. ASSUME ConfigInv PROVE Config!CredentialsPaired
    <2>1. SUFFICES ASSUME ~disturbed
                   PROVE  \A s \in Config!Registered(file) :
                            cred[s] \in {None, file.servers[s]} \/ s \in strayed
      BY DEF Config!CredentialsPaired
    <2>2. CASE \A p \in Procs : pc[p] # "write"
      BY <1>3, <2>1, <2>2 DEF ConfigInv, Undisturbed, Pairs, Config!Registered
    <2>3. CASE \E p \in Procs : pc[p] = "write"
      <3>1. file = Config!Empty
        BY <1>3, <2>1, <2>3 DEF ConfigInv, Undisturbed
      <3> QED BY <3>1 DEF Config!Registered, Config!Empty
    <2> QED BY <2>2, <2>3
  <1>4. ConfigKept => ServersConsistent
    BY <1>2, <1>3 DEF ConfigKept, ServersConsistent
  <1> QED BY <1>1, <1>4, ConfigKeptStep, PTL DEF Spec

-----------------------------------------------------------------------------
(* The credentials.                                                        *)
Holding == {"decide", "signout"}
Saving == {"stage", "sync", "rename", "syncdir"}
Installing == {"stage", "sync", "rename"}

CredentialsTyped ==
  /\ pc \in [Procs -> Creds!Steps]
  /\ session \in [Procs -> Slugs \cup {NoSession}]
  /\ held \in [Procs -> Creds!Cred \cup {NoCred}]
  /\ fresh \in [Procs -> Creds!Cred \cup {NoCred}]
  /\ tmp \in [Procs -> Creds!PF!FileOver(Creds!Cred)]
  /\ store \in Creds!PF!FileOver(Creds!Cred)
  /\ stage \in [Slugs -> {"unused", "pending", "approved", "live", "dead"}]
  /\ gen \in [Slugs -> 0 .. MaxGen]
  /\ lost \subseteq Slugs

(* What a process has in hand where it is; one that is idle has nothing. *)
InHand(p) ==
  /\ pc[p] \in Holding => held[p] \in Creds!Cred
  /\ pc[p] = "poll" => session[p] \in Slugs
  /\ pc[p] \in Saving => fresh[p] \in Creds!Cred
  /\ pc[p] = "idle" => held[p] = NoCred /\ fresh[p] = NoCred
  /\ pc[p] = "sync" => tmp[p].now = fresh[p]
  /\ pc[p] = "rename" => tmp[p].now = fresh[p] /\ tmp[p].body = {fresh[p]}

(* The credentials file holds a whole record, and what a power loss may    *)
(* leave is that or an earlier one.                                        *)
Whole ==
  /\ store.body = {store.now}
  /\ Partial \notin {store.now} \cup store.prior

(* The server has issued c, and every credential there is is such a one.   *)
IssuedBefore(c) == stage[c.session] \in {"live", "dead"} /\ c.gen <= gen[c.session]

OnlyIssued ==
  /\ \A p \in Procs :
       /\ held[p] \in Creds!Cred => IssuedBefore(held[p])
       /\ fresh[p] \in Creds!Cred => IssuedBefore(fresh[p])
  /\ \A c \in Creds!Cred : c \in {store.now} \cup store.prior => IssuedBefore(c)
  /\ \A k \in Slugs : stage[k] \notin {"live", "dead"} => gen[k] = 0

(* What is received and not yet installed is the newest of its session,    *)
(* and no one else has it, unless an earlier one was lost.                 *)
NewestIsMine(p) ==
  pc[p] \in Installing =>
    \/ fresh[p].session \in lost
    \/ /\ fresh[p].gen = gen[fresh[p].session]
       /\ \A q \in Procs : held[q] # fresh[p] /\ (q # p => fresh[q] # fresh[p])
       /\ fresh[p] \notin {store.now} \cup store.prior

(* The file holds the newest, or someone is about to install it; what may  *)
(* be found in its place is the newest, or someone is still saving.        *)
StoredNewest ==
  /\ store.now \in Creds!Cred =>
       \/ store.now.gen = gen[store.now.session]
       \/ store.now.session \in lost
       \/ \E p \in Procs :
            /\ pc[p] \in Installing
            /\ fresh[p] = [session |-> store.now.session, gen |-> gen[store.now.session]]
  /\ \A c \in store.prior :
       c \in Creds!Cred =>
         \/ c.gen = gen[c.session] \/ c.session \in lost
         \/ \E p \in Procs : pc[p] \in Saving /\ fresh[p].session = c.session

(* A session that is gone is in no hand. *)
GoneForGood ==
  \A k \in gone :
    /\ k \in Slugs /\ stage[k] \in {"live", "dead"}
    /\ \A p \in Procs :
         /\ held[p] \in Creds!Cred => held[p].session # k
         /\ fresh[p] \in Creds!Cred => fresh[p].session # k
    /\ store.now \in Creds!Cred => store.now.session # k

CredentialsInv ==
  /\ CredentialsTyped /\ Whole /\ OnlyIssued /\ StoredNewest /\ GoneForGood
  /\ \A p \in Procs : InHand(p) /\ NewestIsMine(p)

LEMMA Apart ==
  /\ Absent # Partial /\ Absent \notin Creds!Cred /\ Partial \notin Creds!Cred
  /\ NoCred \notin Creds!Cred /\ NoSession \notin Slugs /\ MaxGen \in Nat
  BY InstallationAssumption DEF Creds!Distinct, Creds!Bounds

LEMMA CredFields ==
  \A c \in Creds!Cred :
    c.session \in Slugs /\ c.gen \in Nat /\ c = [session |-> c.session, gen |-> c.gen]
  BY Apart DEF Creds!Cred

LEMMA StoreFields ==
  ASSUME CredentialsTyped
  PROVE  /\ store = [now |-> store.now, body |-> store.body, prior |-> store.prior]
         /\ store.now \in Creds!Cred \cup {Absent, Partial}
         /\ store.prior \subseteq Creds!Cred \cup {Absent, Partial}
         /\ store.body \subseteq Creds!Cred \cup {Absent, Partial}
  BY DEF CredentialsTyped, Creds!PF!FileOver

LEMMA CredentialsBegin == Creds!Init => CredentialsInv
  <1> SUFFICES ASSUME Creds!Init PROVE CredentialsInv
    OBVIOUS
  <1>1. /\ pc = [p \in Procs |-> "idle"] /\ session = [p \in Procs |-> NoSession]
        /\ held = [p \in Procs |-> NoCred] /\ fresh = [p \in Procs |-> NoCred]
        /\ tmp = [p \in Procs |-> Creds!PF!Settled(Absent)]
        /\ store = Creds!PF!Settled(Absent)
        /\ stage = [k \in Slugs |-> "unused"] /\ gen = [k \in Slugs |-> 0]
        /\ lost = {} /\ gone = {}
    BY DEF Creds!Init
  <1>2. /\ Creds!PF!Settled(Absent) \in Creds!PF!FileOver(Creds!Cred)
        /\ store.now = Absent /\ store.body = {Absent} /\ store.prior = {}
    BY <1>1 DEF Creds!PF!Settled, Creds!PF!FileOver
  <1>3. CredentialsTyped
    BY <1>1, <1>2, Apart DEF CredentialsTyped, Creds!Steps
  <1>4. Whole /\ OnlyIssued /\ StoredNewest /\ GoneForGood
    BY <1>1, <1>2, Apart DEF Whole, OnlyIssued, StoredNewest, GoneForGood
  <1>5. \A p \in Procs : InHand(p) /\ NewestIsMine(p)
    BY <1>1 DEF InHand, NewestIsMine, Holding, Saving, Installing
  <1> QED BY <1>3, <1>4, <1>5 DEF CredentialsInv

Stay(p) ==
  \A q \in Procs :
    q # p => /\ pc'[q] = pc[q] /\ held'[q] = held[q] /\ fresh'[q] = fresh[q]
             /\ session'[q] = session[q] /\ tmp'[q] = tmp[q]

LEMMA HandsOfOthers ==
  ASSUME CredentialsInv, NEW p \in Procs, Stay(p), NEW q \in Procs, q # p
  PROVE  InHand(q)'
  BY DEF CredentialsInv, Stay, InHand

(* A step that leaves the credentials file and the server's tokens alone:  *)
(* the process loads what is stored, or goes on, or ends.                  *)
LEMMA CredentialsQuiet ==
  ASSUME CredentialsInv, NEW p \in Procs, Stay(p), CredentialsTyped', InHand(p)',
         store' = store, gen' = gen, gone' = gone, lost \subseteq lost',
         \A k \in Slugs : stage'[k] \in {"live", "dead"} <=> stage[k] \in {"live", "dead"},
         held'[p] \in {held[p], NoCred, store.now}, fresh'[p] \in {fresh[p], NoCred},
         pc'[p] \in Installing => pc[p] \in Installing /\ fresh'[p] = fresh[p],
         pc[p] \in Saving =>
           \/ fresh[p].session \in lost'
           \/ /\ pc'[p] \in Saving /\ fresh'[p] = fresh[p]
              /\ pc[p] \in Installing => pc'[p] \in Installing
  PROVE  CredentialsInv'
  <1>1. /\ CredentialsTyped /\ Whole /\ OnlyIssued /\ StoredNewest /\ GoneForGood
        /\ \A q \in Procs : InHand(q) /\ NewestIsMine(q)
    BY DEF CredentialsInv
  <1>2. \A q \in Procs : InHand(q)'
    BY HandsOfOthers
  <1>3. Whole'
    BY <1>1 DEF Whole
  <1>4. OnlyIssued'
    <2>1. \A c \in Creds!Cred : IssuedBefore(c) => IssuedBefore(c)'
      BY CredFields DEF IssuedBefore
    <2>2. ASSUME NEW q \in Procs
          PROVE  /\ held'[q] \in Creds!Cred => IssuedBefore(held[q])'
                 /\ fresh'[q] \in Creds!Cred => IssuedBefore(fresh[q])'
      <3>1. \A c \in {held[q], fresh[q], store.now} : c \in Creds!Cred => IssuedBefore(c)'
        BY <1>1, <2>1 DEF OnlyIssued
      <3>2. held'[q] \in {held[q], NoCred, store.now} /\ fresh'[q] \in {fresh[q], NoCred}
        BY DEF Stay
      <3>3. \A c : c \in Creds!Cred /\ (c = held'[q] \/ c = fresh'[q]) => IssuedBefore(c)'
        BY <3>1, <3>2, Apart
      <3>4. PICK h, f : h = held'[q] /\ f = fresh'[q]
        OBVIOUS
      <3>5. /\ h \in Creds!Cred => IssuedBefore(h)'
            /\ f \in Creds!Cred => IssuedBefore(f)'
        BY <3>3, <3>4
      <3> QED BY <3>4, <3>5 DEF IssuedBefore
    <2> QED BY <1>1, <2>1, <2>2 DEF OnlyIssued
  <1>5. StoredNewest'
    BY <1>1, CredFields DEF StoredNewest, InHand, Stay, Installing, Saving
  <1>6. GoneForGood'
    BY <1>1, Apart DEF GoneForGood, Stay
  <1>7. ASSUME NEW q \in Procs PROVE NewestIsMine(q)'
    <2>1. SUFFICES ASSUME pc'[q] \in Installing, fresh'[q].session \notin lost'
                   PROVE  /\ fresh'[q].gen = gen'[fresh'[q].session]
                          /\ \A r \in Procs :
                               held'[r] # fresh'[q] /\ (r # q => fresh'[r] # fresh'[q])
                          /\ fresh'[q] \notin {store'.now} \cup store'.prior
      BY DEF NewestIsMine
    <2>2. pc[q] \in Installing /\ fresh'[q] = fresh[q] /\ fresh[q] \in Creds!Cred
      BY <1>1, <2>1 DEF Stay, InHand, Installing, Saving
    <2>3. /\ fresh[q].gen = gen[fresh[q].session]
          /\ \A r \in Procs : held[r] # fresh[q] /\ (r # q => fresh[r] # fresh[q])
          /\ fresh[q] \notin {store.now} \cup store.prior
      BY <1>1, <2>1, <2>2 DEF NewestIsMine
    <2>4. \A r \in Procs : /\ held'[r] \in {held[r], NoCred, store.now}
                           /\ fresh'[r] \in {fresh[r], NoCred}
      BY DEF Stay
    <2> QED BY <2>2, <2>3, <2>4, Apart
  <1> QED BY <1>2, <1>3, <1>4, <1>5, <1>6, <1>7 DEF CredentialsInv

(* The server's answer: the process has a token that nobody else has.      *)
LEMMA CredentialsReceived ==
  ASSUME CredentialsInv, NEW p \in Procs, Stay(p), CredentialsTyped', NEW k \in Slugs,
         store' = store, lost' = lost, gone' = gone, held'[p] = held[p], k \notin gone,
         pc[p] \notin Saving, pc'[p] = "stage",
         fresh'[p] = [session |-> k, gen |-> gen'[k]],
         stage'[k] \in {"live", "dead"}, gen[k] <= gen'[k],
         \A j \in Slugs : j # k => gen'[j] = gen[j] /\ stage'[j] = stage[j],
         \A c \in Creds!Cred : c.session = k /\ IssuedBefore(c) => c.gen < gen'[k],
         \A q \in Procs :
           q # p /\ pc[q] \in Installing /\ fresh[q].session = k => k \in lost
  PROVE  CredentialsInv'
  <1>1. /\ CredentialsTyped /\ Whole /\ OnlyIssued /\ StoredNewest /\ GoneForGood
        /\ \A q \in Procs : InHand(q) /\ NewestIsMine(q)
        /\ gen[k] \in Nat /\ gen'[k] \in 0 .. MaxGen
    BY DEF CredentialsInv, CredentialsTyped
  <1>2. PICK f \in Creds!Cred : f = fresh'[p] /\ f.session = k /\ f.gen = gen'[k]
    BY <1>1 DEF Creds!Cred
  <1>h. \A q \in Procs : held'[q] = held[q] /\ (q # p => fresh'[q] = fresh[q] /\ pc'[q] = pc[q])
    BY DEF Stay
  <1>3. \A c \in Creds!Cred : IssuedBefore(c) => IssuedBefore(c)' /\ c # f
    BY <1>1, <1>2, CredFields DEF IssuedBefore
  <1>4. \A q \in Procs : InHand(q)'
    <2>1. InHand(p)'
      BY <1>2 DEF InHand, Holding, Saving
    <2> QED BY <2>1, HandsOfOthers
  <1>5. Whole'
    BY <1>1 DEF Whole
  <1>6. OnlyIssued'
    <2>1. IssuedBefore(f)'
      BY <1>1, <1>2 DEF IssuedBefore
    <2>2. \A c \in Creds!Cred : c = fresh'[p] => IssuedBefore(c)'
      BY <2>1, <1>2
    <2>3. ASSUME NEW q \in Procs
          PROVE  /\ held'[q] \in Creds!Cred => IssuedBefore(held[q])'
                 /\ fresh'[q] \in Creds!Cred => IssuedBefore(fresh[q])'
      <3>1. PICK h, g : h = held'[q] /\ g = fresh'[q]
        OBVIOUS
      <3>2. /\ h \in Creds!Cred => IssuedBefore(h)'
            /\ g \in Creds!Cred => IssuedBefore(g)'
        BY <3>1, <1>1, <1>3, <1>h, <2>2 DEF OnlyIssued
      <3> QED BY <3>1, <3>2 DEF IssuedBefore
    <2>4. \A c \in Creds!Cred : c \in {store'.now} \cup store'.prior => IssuedBefore(c)'
      BY <1>1, <1>3 DEF OnlyIssued
    <2>5. \A j \in Slugs : stage'[j] \notin {"live", "dead"} => gen'[j] = 0
      BY <1>1 DEF OnlyIssued
    <2> QED BY <2>3, <2>4, <2>5 DEF OnlyIssued
  <1>7. StoredNewest'
    <2>1. /\ pc'[p] \in Installing /\ pc'[p] \in Saving
          /\ \A q \in Procs : pc[q] \in Saving => q # p
      BY DEF Installing, Saving
    <2>2. ASSUME store'.now \in Creds!Cred
          PROVE  \/ store'.now.gen = gen'[store'.now.session]
                 \/ store'.now.session \in lost'
                 \/ \E q \in Procs :
                      /\ pc'[q] \in Installing
                      /\ fresh'[q] =
                           [session |-> store'.now.session, gen |-> gen'[store'.now.session]]
      <3>1. CASE store.now.session = k
        BY <3>1, <2>1
      <3>2. CASE store.now.session # k
        <4>1. gen'[store.now.session] = gen[store.now.session]
          BY <3>2, <2>2, CredFields
        <4>2. \/ store.now.gen = gen[store.now.session]
              \/ store.now.session \in lost
              \/ \E q \in Procs :
                   /\ pc[q] \in Installing
                   /\ fresh[q] =
                        [session |-> store.now.session, gen |-> gen[store.now.session]]
          BY <1>1, <2>2 DEF StoredNewest
        <4> QED BY <4>1, <4>2, <2>1, <1>h DEF Installing, Saving
      <3> QED BY <3>1, <3>2
    <2>3. ASSUME NEW c \in store'.prior, c \in Creds!Cred
          PROVE  \/ c.gen = gen'[c.session] \/ c.session \in lost'
                 \/ \E q \in Procs : pc'[q] \in Saving /\ fresh'[q].session = c.session
      <3>1. CASE c.session = k
        BY <3>1, <2>1, <1>2
      <3>2. CASE c.session # k
        <4>1. \/ c.gen = gen[c.session] \/ c.session \in lost
              \/ \E q \in Procs : pc[q] \in Saving /\ fresh[q].session = c.session
          BY <1>1, <2>3 DEF StoredNewest
        <4> QED BY <4>1, <3>2, <2>1, <2>3, <1>h, CredFields
      <3> QED BY <3>1, <3>2
    <2> QED BY <2>2, <2>3 DEF StoredNewest
  <1>8. GoneForGood'
    BY <1>1, <1>2, <1>h DEF GoneForGood
  <1>9. ASSUME NEW q \in Procs PROVE NewestIsMine(q)'
    <2>1. SUFFICES ASSUME pc'[q] \in Installing, fresh'[q].session \notin lost
                   PROVE  /\ fresh'[q].gen = gen'[fresh'[q].session]
                          /\ \A r \in Procs :
                               held'[r] # fresh'[q] /\ (r # q => fresh'[r] # fresh'[q])
                          /\ fresh'[q] \notin {store'.now} \cup store'.prior
      BY DEF NewestIsMine
    <2>2. CASE q = p
      <3>1. \A c \in {store.now} \cup store.prior : c # f
        BY <1>1, <1>3 DEF OnlyIssued
      <3>2. \A r \in Procs : held[r] # f /\ fresh[r] # f
        BY <1>1, <1>2, <1>3 DEF OnlyIssued
      <3> QED BY <2>2, <3>1, <3>2, <1>2, <1>h
    <2>3. CASE q # p
      <3>1. pc[q] \in Installing /\ fresh'[q] = fresh[q] /\ fresh[q] \in Creds!Cred
        BY <1>1, <2>1, <2>3, <1>h DEF InHand, Installing, Saving
      <3>2. /\ fresh[q].gen = gen[fresh[q].session]
            /\ \A r \in Procs : held[r] # fresh[q] /\ (r # q => fresh[r] # fresh[q])
            /\ fresh[q] \notin {store.now} \cup store.prior
        BY <1>1, <2>1, <3>1 DEF NewestIsMine
      <3>3. fresh[q].session # k
        BY <2>1, <2>3, <3>1
      <3>4. gen'[fresh[q].session] = gen[fresh[q].session]
        BY <3>1, <3>3, CredFields
      <3>5. f # fresh[q]
        BY <3>3, <1>2
      <3> QED BY <3>1, <3>2, <3>4, <3>5, <1>2, <1>h
    <2> QED BY <2>2, <2>3
  <1> QED BY <1>4, <1>5, <1>6, <1>7, <1>8, <1>9 DEF CredentialsInv

(* A step that changes the file: what is stored is what the process has    *)
(* received, or nothing, or what was stored.                               *)
LEMMA CredentialsStored ==
  ASSUME CredentialsInv, NEW p \in Procs, Stay(p), CredentialsTyped', InHand(p)', Whole',
         stage' = stage, gen' = gen, lost' = lost,
         held'[p] \in {held[p], NoCred}, fresh'[p] \in {fresh[p], NoCred},
         pc'[p] \notin Installing,
         \/ store'.now \in {store.now, Absent} /\ pc[p] \notin Installing
         \/ store'.now = fresh[p] /\ pc[p] = "rename",
         pc[p] = "rename" => pc'[p] = "syncdir" /\ fresh'[p] = fresh[p],
         \/ store'.prior = {}
         \/ /\ store'.prior \subseteq {store.now} \cup store.prior
            /\ pc[p] \in Saving => pc'[p] \in Saving /\ fresh'[p] = fresh[p],
         GoneForGood'
  PROVE  CredentialsInv'
  <1>1. /\ CredentialsTyped /\ Whole /\ OnlyIssued /\ StoredNewest /\ GoneForGood
        /\ \A q \in Procs : InHand(q) /\ NewestIsMine(q)
    BY DEF CredentialsInv
  <1>2. \A q \in Procs : InHand(q)'
    BY HandsOfOthers
  <1>3. pc[p] = "rename" => fresh[p] \in Creds!Cred
    BY <1>1 DEF InHand, Saving
  <1>4. OnlyIssued'
    <2>1. \A c \in Creds!Cred : IssuedBefore(c) => IssuedBefore(c)'
      BY DEF IssuedBefore
    <2>2. ASSUME NEW q \in Procs
          PROVE  /\ held'[q] \in Creds!Cred => IssuedBefore(held[q])'
                 /\ fresh'[q] \in Creds!Cred => IssuedBefore(fresh[q])'
      <3>1. PICK h, g : h = held'[q] /\ g = fresh'[q]
        OBVIOUS
      <3>2. h \in {held[q], NoCred} /\ g \in {fresh[q], NoCred}
        BY <3>1 DEF Stay
      <3>3. /\ h \in Creds!Cred => IssuedBefore(h)'
            /\ g \in Creds!Cred => IssuedBefore(g)'
        BY <3>2, <2>1, <1>1, Apart DEF OnlyIssued
      <3> QED BY <3>1, <3>3 DEF IssuedBefore
    <2>3. \A c \in Creds!Cred : c \in {store'.now} \cup store'.prior => IssuedBefore(c)'
      BY <1>1, <1>3, <2>1, Apart DEF OnlyIssued
    <2> QED BY <1>1, <2>2, <2>3 DEF OnlyIssued
  <1>5. StoredNewest'
    <2>1. \A q \in Procs : pc[q] \in Installing /\ q # p =>
            pc'[q] \in Installing /\ fresh'[q] = fresh[q]
      BY DEF Stay
    <2>2. ASSUME store'.now \in Creds!Cred
          PROVE  \/ store'.now.gen = gen[store'.now.session]
                 \/ store'.now.session \in lost
                 \/ \E q \in Procs :
                      /\ pc'[q] \in Installing
                      /\ fresh'[q] =
                           [session |-> store'.now.session, gen |-> gen[store'.now.session]]
      <3>1. CASE store'.now = fresh[p] /\ pc[p] = "rename"
        BY <3>1, <1>1 DEF NewestIsMine, Installing
      <3>2. CASE store'.now = store.now /\ pc[p] \notin Installing
        BY <3>2, <2>1, <2>2, <1>1 DEF StoredNewest
      <3> QED BY <2>2, <3>1, <3>2, Apart
    <2>3. ASSUME NEW c \in store'.prior, c \in Creds!Cred
          PROVE  \/ c.gen = gen[c.session] \/ c.session \in lost
                 \/ \E q \in Procs : pc'[q] \in Saving /\ fresh'[q].session = c.session
      <3>1. \A q \in Procs : pc[q] \in Saving =>
              pc'[q] \in Saving /\ fresh'[q] = fresh[q]
        BY <2>3 DEF Stay
      <3>2. \/ c.gen = gen[c.session] \/ c.session \in lost
            \/ \E q \in Procs : pc[q] \in Saving /\ fresh[q].session = c.session
        <4>1. CASE c = store.now
          <5>1. \A q \in Procs : pc[q] \in Installing => pc[q] \in Saving
            BY DEF Installing, Saving
          <5> QED BY <4>1, <5>1, <2>3, <1>1 DEF StoredNewest
        <4>2. CASE c \in store.prior
          BY <4>2, <2>3, <1>1 DEF StoredNewest
        <4> QED BY <2>3, <4>1, <4>2
      <3> QED BY <3>1, <3>2
    <2> QED BY <2>2, <2>3 DEF StoredNewest
  <1>6. ASSUME NEW q \in Procs PROVE NewestIsMine(q)'
    <2>1. SUFFICES ASSUME pc'[q] \in Installing, fresh'[q].session \notin lost
                   PROVE  /\ fresh'[q].gen = gen[fresh'[q].session]
                          /\ \A r \in Procs :
                               held'[r] # fresh'[q] /\ (r # q => fresh'[r] # fresh'[q])
                          /\ fresh'[q] \notin {store'.now} \cup store'.prior
      BY DEF NewestIsMine
    <2>2. q # p /\ pc[q] \in Installing /\ fresh'[q] = fresh[q] /\ fresh[q] \in Creds!Cred
      BY <1>1, <2>1 DEF Stay, InHand, Installing, Saving
    <2>3. /\ fresh[q].gen = gen[fresh[q].session]
          /\ \A r \in Procs : held[r] # fresh[q] /\ (r # q => fresh[r] # fresh[q])
          /\ fresh[q] \notin {store.now} \cup store.prior
      BY <1>1, <2>1, <2>2 DEF NewestIsMine
    <2>4. \A r \in Procs : /\ held'[r] \in {held[r], NoCred}
                           /\ fresh'[r] \in {fresh[r], NoCred}
      BY DEF Stay
    <2> QED BY <2>2, <2>3, <2>4, Apart
  <1> QED BY <1>2, <1>4, <1>5, <1>6 DEF CredentialsInv

LEMMA CredentialsEnd ==
  ASSUME CredentialsTyped, NEW p \in Procs, Creds!End(p),
         store' \in Creds!PF!FileOver(Creds!Cred), lost' \subseteq Slugs,
         stage' = stage, gen' = gen
  PROVE  /\ CredentialsTyped' /\ Stay(p) /\ InHand(p)'
         /\ pc'[p] = "idle" /\ held'[p] = NoCred /\ fresh'[p] = NoCred
  <1>1. /\ pc' = [pc EXCEPT ![p] = "idle"] /\ session' = [session EXCEPT ![p] = NoSession]
        /\ held' = [held EXCEPT ![p] = NoCred] /\ fresh' = [fresh EXCEPT ![p] = NoCred]
        /\ tmp' = [tmp EXCEPT ![p] = Creds!PF!Settled(Absent)]
    BY DEF Creds!End
  <1>2. Creds!PF!Settled(Absent) \in Creds!PF!FileOver(Creds!Cred)
    BY DEF Creds!PF!Settled, Creds!PF!FileOver
  <1>3. CredentialsTyped'
    BY <1>1, <1>2 DEF CredentialsTyped, Creds!Steps
  <1>4. Stay(p) /\ pc'[p] = "idle" /\ held'[p] = NoCred /\ fresh'[p] = NoCred
    BY <1>1 DEF CredentialsTyped, Stay
  <1>5. InHand(p)'
    BY <1>4 DEF InHand, Holding, Saving
  <1> QED BY <1>3, <1>4, <1>5

(* A process that goes on: what it holds is what it held, or is given. *)
LEMMA CredentialsGo ==
  ASSUME CredentialsTyped, NEW p \in Procs, NEW there \in Creds!Steps,
         Creds!GoTo(p, there)
  PROVE  /\ pc' \in [Procs -> Creds!Steps] /\ pc'[p] = there
         /\ \A q \in Procs : q # p => pc'[q] = pc[q]
  BY DEF CredentialsTyped, Creds!GoTo

LEMMA CredentialsReads ==
  ASSUME CredentialsInv, NEW p \in Procs,
         \/ \E c \in Creds!Commands : Creds!Begin(p, c)
         \/ \E k \in Slugs : Creds!BeginWait(p, k)
         \/ \E k \in Slugs : Creds!StartLogin(p, k)
         \/ Creds!Load(p)
         \/ Creds!LoadNothing(p)
         \/ Creds!Use(p)
         \/ Creds!StageTemp(p)
         \/ Creds!SyncTemp(p)
         \/ Creds!SignOut(p)
         \/ Creds!Stop(p)
  PROVE  CredentialsInv'
  <1> USE DEF Creds!At, Creds!server, Creds!history
  <1>t. /\ CredentialsTyped /\ InHand(p)
        /\ held[p] \in Creds!Cred \cup {NoCred} /\ fresh[p] \in Creds!Cred \cup {NoCred}
        /\ store \in Creds!PF!FileOver(Creds!Cred) /\ lost \subseteq Slugs
        /\ tmp[p] \in Creds!PF!FileOver(Creds!Cred)
    BY DEF CredentialsInv, CredentialsTyped
  <1>1. CASE \E c \in Creds!Commands : Creds!Begin(p, c)
    <2>1. PICK c \in Creds!Commands : Creds!Begin(p, c)
      BY <1>1
    <2>2. PICK there \in {"start", "load"} : Creds!GoTo(p, there)
      BY <2>1 DEF Creds!Begin
    <2>3. /\ pc[p] = "idle"
          /\ UNCHANGED <<session, held, fresh, tmp, store, stage, gen, lost, gone>>
      BY <2>1 DEF Creds!Begin
    <2>4. /\ pc' \in [Procs -> Creds!Steps] /\ pc'[p] = there
          /\ \A q \in Procs : q # p => pc'[q] = pc[q]
      BY <2>2, <1>t, CredentialsGo DEF Creds!Steps
    <2>5. CredentialsTyped' /\ Stay(p) /\ InHand(p)'
      BY <2>2, <2>3, <2>4, <1>t DEF CredentialsTyped, Stay, InHand, Holding, Saving
    <2> QED BY <2>2, <2>3, <2>4, <2>5, CredentialsQuiet DEF Installing, Saving
  <1>2. CASE \E k \in Slugs : Creds!BeginWait(p, k)
    <2>1. PICK k \in Slugs : Creds!BeginWait(p, k)
      BY <1>2
    <2>3. /\ pc[p] = "idle" /\ Creds!GoTo(p, "poll")
          /\ session' = [session EXCEPT ![p] = k]
          /\ UNCHANGED <<held, fresh, tmp, store, stage, gen, lost, gone>>
      BY <2>1 DEF Creds!BeginWait
    <2>4. /\ pc' \in [Procs -> Creds!Steps] /\ pc'[p] = "poll"
          /\ \A q \in Procs : q # p => pc'[q] = pc[q]
      BY <2>3, <1>t, CredentialsGo DEF Creds!Steps
    <2>5. CredentialsTyped' /\ Stay(p) /\ InHand(p)'
      BY <2>3, <2>4, <1>t DEF CredentialsTyped, Stay, InHand, Holding, Saving
    <2> QED BY <2>3, <2>4, <2>5, CredentialsQuiet DEF Installing, Saving
  <1>3. CASE \E k \in Slugs : Creds!StartLogin(p, k)
    <2>1. PICK k \in Slugs : Creds!StartLogin(p, k)
      BY <1>3
    <2>3. /\ pc[p] = "start" /\ Creds!GoTo(p, "poll") /\ stage[k] = "unused"
          /\ stage' = [stage EXCEPT ![k] = "pending"]
          /\ session' = [session EXCEPT ![p] = k]
          /\ UNCHANGED <<held, fresh, tmp, store, gen, lost, gone>>
      BY <2>1 DEF Creds!StartLogin
    <2>4. /\ pc' \in [Procs -> Creds!Steps] /\ pc'[p] = "poll"
          /\ \A q \in Procs : q # p => pc'[q] = pc[q]
      BY <2>3, <1>t, CredentialsGo DEF Creds!Steps
    <2>5. CredentialsTyped' /\ Stay(p) /\ InHand(p)'
      BY <2>3, <2>4, <1>t DEF CredentialsTyped, Stay, InHand, Holding, Saving
    <2>6. \A j \in Slugs : stage'[j] \in {"live", "dead"} <=> stage[j] \in {"live", "dead"}
      BY <2>3, <1>t DEF CredentialsTyped
    <2> QED BY <2>3, <2>4, <2>5, <2>6, CredentialsQuiet DEF Installing, Saving
  <1>4. CASE Creds!Load(p)
    <2>1. PICK there \in {"signout", "decide"} : Creds!GoTo(p, there)
      BY <1>4 DEF Creds!Load
    <2>3. /\ pc[p] = "load" /\ store.now \in Creds!Cred
          /\ held' = [held EXCEPT ![p] = store.now]
          /\ UNCHANGED <<session, fresh, tmp, store, stage, gen, lost, gone>>
      BY <1>4 DEF Creds!Load
    <2>4. /\ pc' \in [Procs -> Creds!Steps] /\ pc'[p] = there
          /\ \A q \in Procs : q # p => pc'[q] = pc[q]
      BY <2>1, <1>t, CredentialsGo DEF Creds!Steps
    <2>5. CredentialsTyped' /\ Stay(p) /\ InHand(p)' /\ held'[p] = store.now
      BY <2>1, <2>3, <2>4, <1>t DEF CredentialsTyped, Stay, InHand, Holding, Saving
    <2> QED BY <2>1, <2>3, <2>4, <2>5, CredentialsQuiet DEF Installing, Saving
  <1>5. CASE Creds!LoadNothing(p)
    <2>3. /\ pc[p] = "load" /\ Creds!GoTo(p, "delete")
          /\ UNCHANGED <<session, held, fresh, tmp, store, stage, gen, lost, gone>>
      BY <1>5 DEF Creds!LoadNothing
    <2>4. /\ pc' \in [Procs -> Creds!Steps] /\ pc'[p] = "delete"
          /\ \A q \in Procs : q # p => pc'[q] = pc[q]
      BY <2>3, <1>t, CredentialsGo DEF Creds!Steps
    <2>5. CredentialsTyped' /\ Stay(p) /\ InHand(p)'
      BY <2>3, <2>4, <1>t DEF CredentialsTyped, Stay, InHand, Holding, Saving
    <2> QED BY <2>3, <2>4, <2>5, CredentialsQuiet DEF Installing, Saving
  <1>6. CASE Creds!Use(p)
    <2>1. pc[p] = "decide" /\ Creds!End(p) /\ UNCHANGED <<store, stage, gen, lost, gone>>
      BY <1>6 DEF Creds!Use
    <2>2. /\ CredentialsTyped' /\ Stay(p) /\ InHand(p)'
          /\ pc'[p] = "idle" /\ held'[p] = NoCred /\ fresh'[p] = NoCred
      BY <2>1, <1>t, CredentialsEnd
    <2> QED BY <2>1, <2>2, CredentialsQuiet DEF Installing, Saving
  <1>7. CASE Creds!StageTemp(p)
    <2>3. /\ pc[p] = "stage" /\ Creds!GoTo(p, "sync")
          /\ tmp' = [tmp EXCEPT ![p] = Creds!PF!Written(Creds!PF!Create(tmp[p]), fresh[p])]
          /\ UNCHANGED <<session, held, fresh, store, stage, gen, lost, gone>>
      BY <1>7 DEF Creds!StageTemp
    <2>4. /\ pc' \in [Procs -> Creds!Steps] /\ pc'[p] = "sync"
          /\ \A q \in Procs : q # p => pc'[q] = pc[q]
      BY <2>3, <1>t, CredentialsGo DEF Creds!Steps
    <2>5. PICK t : t = Creds!PF!Written(Creds!PF!Create(tmp[p]), fresh[p])
      OBVIOUS
    <2>6. t \in Creds!PF!FileOver(Creds!Cred) /\ t.now = fresh[p] /\ fresh[p] \in Creds!Cred
      BY <2>3, <2>5, <1>t DEF Creds!PF!Written, Creds!PF!Create, Creds!PF!AfterLoss,
         Creds!PF!FileOver, InHand, Saving
    <2>7. tmp' = [tmp EXCEPT ![p] = t]
      BY <2>3, <2>5
    <2>8. CredentialsTyped' /\ Stay(p) /\ tmp'[p] = t
      BY <2>3, <2>4, <2>6, <2>7, <1>t DEF CredentialsTyped, Stay
    <2>9. InHand(p)'
      BY <2>3, <2>4, <2>6, <2>8 DEF InHand, Holding, Saving
    <2> QED BY <2>3, <2>4, <2>8, <2>9, CredentialsQuiet DEF Installing, Saving
  <1>8. CASE Creds!SyncTemp(p)
    <2>3. /\ pc[p] = "sync" /\ Creds!GoTo(p, "rename")
          /\ tmp' = [tmp EXCEPT ![p] = Creds!PF!Synced(tmp[p])]
          /\ UNCHANGED <<session, held, fresh, store, stage, gen, lost, gone>>
      BY <1>8 DEF Creds!SyncTemp
    <2>4. /\ pc' \in [Procs -> Creds!Steps] /\ pc'[p] = "rename"
          /\ \A q \in Procs : q # p => pc'[q] = pc[q]
      BY <2>3, <1>t, CredentialsGo DEF Creds!Steps
    <2>5. PICK t : t = Creds!PF!Synced(tmp[p])
      OBVIOUS
    <2>6. /\ t \in Creds!PF!FileOver(Creds!Cred) /\ t.now = fresh[p] /\ t.body = {fresh[p]}
          /\ fresh[p] \in Creds!Cred
      BY <2>3, <2>5, <1>t DEF Creds!PF!Synced, Creds!PF!FileOver, InHand, Saving
    <2>7. tmp' = [tmp EXCEPT ![p] = t]
      BY <2>3, <2>5
    <2>8. CredentialsTyped' /\ Stay(p) /\ tmp'[p] = t
      BY <2>3, <2>4, <2>6, <2>7, <1>t DEF CredentialsTyped, Stay
    <2>9. InHand(p)'
      BY <2>3, <2>4, <2>6, <2>8 DEF InHand, Holding, Saving
    <2> QED BY <2>3, <2>4, <2>8, <2>9, CredentialsQuiet DEF Installing, Saving
  <1>9. CASE Creds!SignOut(p)
    <2>3. /\ pc[p] = "signout" /\ Creds!GoTo(p, "delete")
          /\ \/ stage' = stage
             \/ stage' = [stage EXCEPT ![held[p].session] = "dead"]
          /\ UNCHANGED <<session, held, fresh, tmp, store, gen, lost, gone>>
      BY <1>9 DEF Creds!SignOut
    <2>4. /\ pc' \in [Procs -> Creds!Steps] /\ pc'[p] = "delete"
          /\ \A q \in Procs : q # p => pc'[q] = pc[q]
      BY <2>3, <1>t, CredentialsGo DEF Creds!Steps
    <2>5. held[p] \in Creds!Cred /\ held[p].session \in Slugs
      BY <2>3, <1>t, CredFields DEF InHand, Holding
    <2>6. stage[held[p].session] \in {"live", "dead"}
      BY <2>5 DEF CredentialsInv, OnlyIssued, IssuedBefore
    <2>7. CredentialsTyped' /\ Stay(p) /\ InHand(p)'
      BY <2>3, <2>4, <1>t DEF CredentialsTyped, Stay, InHand, Holding, Saving
    <2>8. \A j \in Slugs : stage'[j] \in {"live", "dead"} <=> stage[j] \in {"live", "dead"}
      BY <2>3, <2>5, <2>6, <1>t DEF CredentialsTyped
    <2> QED BY <2>3, <2>4, <2>7, <2>8, CredentialsQuiet DEF Installing, Saving
  <1>10. CASE Creds!Stop(p)
    <2>1. /\ Creds!End(p) /\ lost' = lost \cup Creds!Interrupted(p)
          /\ UNCHANGED <<store, stage, gen, gone>>
      BY <1>10 DEF Creds!Stop
    <2>2. /\ lost' \subseteq Slugs /\ lost \subseteq lost'
          /\ pc[p] \in Saving => fresh[p].session \in lost'
      BY <2>1, <1>t, CredFields DEF Creds!Interrupted, Creds!Saving, Saving, InHand
    <2>3. /\ CredentialsTyped' /\ Stay(p) /\ InHand(p)'
          /\ pc'[p] = "idle" /\ held'[p] = NoCred /\ fresh'[p] = NoCred
      BY <2>1, <2>2, <1>t, CredentialsEnd
    <2> QED BY <2>1, <2>2, <2>3, CredentialsQuiet DEF Installing
  <1> QED BY <1>1, <1>2, <1>3, <1>4, <1>5, <1>6, <1>7, <1>8, <1>9, <1>10

LEMMA CredentialsWrites ==
  ASSUME CredentialsInv, NEW p \in Procs,
         \/ Creds!Refresh(p)
         \/ Creds!Poll(p)
         \/ Creds!Rename(p)
         \/ Creds!SyncDir(p)
         \/ Creds!Delete(p)
  PROVE  CredentialsInv'
  <1> USE DEF Creds!At, Creds!server, Creds!history
  <1>t. /\ CredentialsTyped /\ InHand(p) /\ NewestIsMine(p) /\ Whole /\ GoneForGood
        /\ held[p] \in Creds!Cred \cup {NoCred} /\ fresh[p] \in Creds!Cred \cup {NoCred}
        /\ store \in Creds!PF!FileOver(Creds!Cred) /\ lost \subseteq Slugs
        /\ tmp[p] \in Creds!PF!FileOver(Creds!Cred)
        /\ \A q \in Procs : pc[q] = "idle" => held[q] = NoCred /\ fresh[q] = NoCred
    BY DEF CredentialsInv, CredentialsTyped, InHand
  <1>s. /\ store = [now |-> store.now, body |-> store.body, prior |-> store.prior]
        /\ store.now \in Creds!Cred \cup {Absent, Partial}
        /\ store.prior \subseteq Creds!Cred \cup {Absent, Partial}
        /\ store.body \subseteq Creds!Cred \cup {Absent, Partial}
        /\ store.body = {store.now} /\ Partial \notin {store.now} \cup store.prior
    BY <1>t, StoreFields DEF Whole
  <1>1. CASE Creds!Refresh(p)
    <2>1. PICK k : k = held[p].session
      OBVIOUS
    <2>2. /\ pc[p] = "decide" /\ Creds!GoTo(p, "stage")
          /\ stage[k] = "live" /\ gen[k] = held[p].gen /\ gen[k] < MaxGen
          /\ gen' = [gen EXCEPT ![k] = @ + 1]
          /\ fresh' = [fresh EXCEPT ![p] = [session |-> k, gen |-> gen[k] + 1]]
          /\ UNCHANGED <<session, held, tmp, store, stage, lost, gone>>
      BY <1>1, <2>1 DEF Creds!Refresh
    <2>3. held[p] \in Creds!Cred /\ k \in Slugs /\ held[p] = [session |-> k, gen |-> gen[k]]
      BY <2>1, <2>2, <1>t, CredFields DEF InHand, Holding
    <2>4. /\ pc' \in [Procs -> Creds!Steps] /\ pc'[p] = "stage"
          /\ \A q \in Procs : q # p => pc'[q] = pc[q]
      BY <2>2, <1>t, CredentialsGo DEF Creds!Steps
    <2>5. gen[k] \in Nat /\ gen[k] + 1 \in 0 .. MaxGen
      BY <2>2, <2>3, <1>t, Apart DEF CredentialsTyped
    <2>6. /\ gen' \in [Slugs -> 0 .. MaxGen] /\ gen'[k] = gen[k] + 1
          /\ \A j \in Slugs : j # k => gen'[j] = gen[j]
      BY <2>2, <2>3, <2>5, <1>t DEF CredentialsTyped
    <2>7. [session |-> k, gen |-> gen[k] + 1] \in Creds!Cred
      BY <2>3, <2>5 DEF Creds!Cred
    <2>8. CredentialsTyped' /\ Stay(p) /\ fresh'[p] = [session |-> k, gen |-> gen'[k]]
      BY <2>2, <2>4, <2>6, <2>7, <1>t DEF CredentialsTyped, Stay
    <2>9. \A q \in Procs :
            q # p /\ pc[q] \in Installing /\ fresh[q].session = k => k \in lost
      <3>1. SUFFICES ASSUME NEW q \in Procs, pc[q] \in Installing, fresh[q].session = k,
                            k \notin lost
                     PROVE  FALSE
        OBVIOUS
      <3>2. fresh[q] \in Creds!Cred
        BY <3>1 DEF CredentialsInv, InHand, Installing, Saving
      <3>3. fresh[q].gen = gen[k] /\ held[p] # fresh[q]
        BY <3>1 DEF CredentialsInv, NewestIsMine
      <3> QED BY <3>1, <3>2, <3>3, <2>3, CredFields
    <2>10. k \notin gone
      BY <2>1, <2>3, <1>t DEF GoneForGood
    <2>11. \A c \in Creds!Cred : c.session = k /\ IssuedBefore(c) => c.gen < gen'[k]
      BY <2>5, <2>6, CredFields DEF IssuedBefore
    <2> QED BY <2>2, <2>3, <2>4, <2>5, <2>6, <2>8, <2>9, <2>10, <2>11, CredentialsReceived
            DEF Saving
  <1>2. CASE Creds!Poll(p)
    <2>1. PICK k : k = session[p]
      OBVIOUS
    <2>2. /\ pc[p] = "poll" /\ Creds!GoTo(p, "stage") /\ stage[k] = "approved"
          /\ stage' = [stage EXCEPT ![k] = "live"]
          /\ fresh' = [fresh EXCEPT ![p] = [session |-> k, gen |-> 0]]
          /\ UNCHANGED <<session, held, tmp, store, gen, lost, gone>>
      BY <1>2, <2>1 DEF Creds!Poll
    <2>3. k \in Slugs
      BY <2>1, <2>2, <1>t DEF InHand
    <2>4. /\ pc' \in [Procs -> Creds!Steps] /\ pc'[p] = "stage"
          /\ \A q \in Procs : q # p => pc'[q] = pc[q]
      BY <2>2, <1>t, CredentialsGo DEF Creds!Steps
    <2>5. gen[k] = 0 /\ gen'[k] = 0
      BY <2>2, <2>3 DEF CredentialsInv, OnlyIssued
    <2>6. [session |-> k, gen |-> 0] \in Creds!Cred
      BY <2>3, Apart DEF Creds!Cred
    <2>7. /\ stage' \in [Slugs -> {"unused", "pending", "approved", "live", "dead"}]
          /\ stage'[k] = "live" /\ \A j \in Slugs : j # k => stage'[j] = stage[j]
      BY <2>2, <2>3, <1>t DEF CredentialsTyped
    <2>8. CredentialsTyped' /\ Stay(p) /\ fresh'[p] = [session |-> k, gen |-> gen'[k]]
      BY <2>2, <2>4, <2>5, <2>6, <2>7, <1>t DEF CredentialsTyped, Stay
    <2>9. \A c \in Creds!Cred : IssuedBefore(c) => c.session # k
      BY <2>2 DEF IssuedBefore
    <2>10. \A q \in Procs : ~(pc[q] \in Installing /\ fresh[q].session = k)
      BY <2>9 DEF CredentialsInv, OnlyIssued, InHand, Installing, Saving
    <2>11. k \notin gone
      BY <2>2, <1>t DEF GoneForGood
    <2> QED BY <2>2, <2>3, <2>4, <2>5, <2>7, <2>8, <2>9, <2>10, <2>11, CredentialsReceived
            DEF Saving
  <1>3. CASE Creds!Rename(p)
    <2>1. /\ pc[p] = "rename" /\ Creds!GoTo(p, "syncdir")
          /\ store' = Creds!PF!Renamed(tmp[p], store)
          /\ UNCHANGED <<session, held, fresh, tmp, stage, gen, lost, gone>>
      BY <1>3 DEF Creds!Rename
    <2>2. /\ tmp[p].now = fresh[p] /\ tmp[p].body = {fresh[p]} /\ fresh[p] \in Creds!Cred
      BY <2>1, <1>t DEF InHand, Saving
    <2>3. store' = [now |-> fresh[p], body |-> {fresh[p]},
                    prior |-> {store.now} \cup store.prior]
      BY <2>1, <2>2, <1>s DEF Creds!PF!Renamed, Creds!PF!AfterLoss
    <2>4. /\ pc' \in [Procs -> Creds!Steps] /\ pc'[p] = "syncdir"
          /\ \A q \in Procs : q # p => pc'[q] = pc[q]
      BY <2>1, <1>t, CredentialsGo DEF Creds!Steps
    <2>5. store' \in Creds!PF!FileOver(Creds!Cred)
      BY <2>2, <2>3, <1>s DEF Creds!PF!FileOver
    <2>6. CredentialsTyped' /\ Stay(p) /\ InHand(p)'
      BY <2>1, <2>2, <2>4, <2>5, <1>t DEF CredentialsTyped, Stay, InHand, Holding, Saving
    <2>7. Whole'
      BY <2>2, <2>3, <1>s, Apart DEF Whole
    <2>8. GoneForGood'
      BY <2>1, <2>2, <2>3, <2>6, <1>t DEF GoneForGood, Stay
    <2> QED BY <2>1, <2>3, <2>4, <2>6, <2>7, <2>8, CredentialsStored DEF Installing, Saving
  <1>4. CASE Creds!SyncDir(p)
    <2>1. /\ pc[p] = "syncdir" /\ Creds!End(p) /\ store' = Creds!PF!ParentSynced(store)
          /\ gone' = IF Creds!Alone(p) THEN Creds!NotStored ELSE gone
          /\ UNCHANGED <<stage, gen, lost>>
      BY <1>4 DEF Creds!SyncDir
    <2>2. store' = [now |-> store.now, body |-> {store.now}, prior |-> {}]
      BY <2>1, <1>s DEF Creds!PF!ParentSynced
    <2>3. store' \in Creds!PF!FileOver(Creds!Cred) /\ Whole'
      BY <2>2, <1>s DEF Creds!PF!FileOver, Whole
    <2>4. /\ CredentialsTyped' /\ Stay(p) /\ InHand(p)'
          /\ pc'[p] = "idle" /\ held'[p] = NoCred /\ fresh'[p] = NoCred
      BY <2>1, <2>3, <1>t, CredentialsEnd
    <2>5. GoneForGood'
      <3>1. CASE Creds!Alone(p)
        <4>1. \A q \in Procs : held'[q] = NoCred /\ fresh'[q] = NoCred
          BY <3>1, <2>4, <1>t DEF Creds!Alone, Stay
        <4>2. \A k \in gone' : /\ k \in Slugs /\ stage[k] \in {"live", "dead"}
                               /\ store.now \in Creds!Cred => store.now.session # k
          BY <3>1, <2>1 DEF Creds!NotStored, Creds!Issued
        <4> QED BY <4>1, <4>2, <2>1, <2>2, Apart DEF GoneForGood
      <3>2. CASE ~Creds!Alone(p)
        BY <3>2, <2>1, <2>2, <2>4, <1>t, Apart DEF GoneForGood, Stay
      <3> QED BY <3>1, <3>2
    <2> QED BY <2>1, <2>2, <2>3, <2>4, <2>5, CredentialsStored DEF Installing, Saving
  <1>5. CASE Creds!Delete(p)
    <2>1. /\ pc[p] = "delete" /\ Creds!End(p)
          /\ store' = IF store.now = Absent THEN store ELSE Creds!PF!Removed(store)
          /\ gone' = IF Creds!Alone(p) THEN Creds!Issued ELSE gone
          /\ UNCHANGED <<stage, gen, lost>>
      BY <1>5 DEF Creds!Delete
    <2>2. \/ store.now = Absent /\ store' = store
          \/ store' = [now |-> Absent, body |-> {Absent}, prior |-> {store.now} \cup store.prior]
      BY <2>1, <1>s DEF Creds!PF!Removed, Creds!PF!AfterLoss
    <2>3. /\ store' \in Creds!PF!FileOver(Creds!Cred)
          /\ store'.now = Absent /\ store'.body = {Absent}
          /\ store'.prior \subseteq {store.now} \cup store.prior
      BY <2>2, <1>s, <1>t DEF Creds!PF!FileOver
    <2>4. Whole'
      BY <2>3, <1>s, Apart DEF Whole
    <2>5. /\ CredentialsTyped' /\ Stay(p) /\ InHand(p)'
          /\ pc'[p] = "idle" /\ held'[p] = NoCred /\ fresh'[p] = NoCred
      BY <2>1, <2>3, <1>t, CredentialsEnd
    <2>6. GoneForGood'
      <3>1. CASE Creds!Alone(p)
        <4>1. \A q \in Procs : held'[q] = NoCred /\ fresh'[q] = NoCred
          BY <3>1, <2>5, <1>t DEF Creds!Alone, Stay
        <4>2. \A k \in gone' : k \in Slugs /\ stage[k] \in {"live", "dead"}
          BY <3>1, <2>1 DEF Creds!Issued
        <4> QED BY <4>1, <4>2, <2>1, <2>3, Apart DEF GoneForGood
      <3>2. CASE ~Creds!Alone(p)
        BY <3>2, <2>1, <2>3, <2>5, <1>t, Apart DEF GoneForGood, Stay
      <3> QED BY <3>1, <3>2
    <2> QED BY <2>1, <2>3, <2>4, <2>5, <2>6, CredentialsStored DEF Installing, Saving
  <1> QED BY <1>1, <1>2, <1>3, <1>4, <1>5

LEMMA CredentialsWorld ==
  ASSUME CredentialsInv, Creds!World \/ Creds!PowerLoss
  PROVE  CredentialsInv'
  <1>t. /\ CredentialsTyped /\ Whole /\ OnlyIssued /\ StoredNewest /\ GoneForGood
        /\ \A p \in Procs : InHand(p) /\ NewestIsMine(p)
    BY DEF CredentialsInv
  <1>1. CASE Creds!World
    <2>1. PICK k \in Slugs : Creds!Approve(k)
      BY <1>1 DEF Creds!World
    <2>2. /\ stage[k] = "pending" /\ stage' = [stage EXCEPT ![k] = "approved"]
          /\ UNCHANGED <<pc, session, held, fresh, tmp, store, gen, lost, gone>>
      BY <2>1 DEF Creds!Approve, Creds!cli, Creds!history
    <2>3. /\ stage' \in [Slugs -> {"unused", "pending", "approved", "live", "dead"}]
          /\ \A j \in Slugs : stage'[j] \in {"live", "dead"} <=> stage[j] \in {"live", "dead"}
      BY <2>2, <1>t DEF CredentialsTyped
    <2>4. CredentialsTyped' /\ Whole'
      BY <2>2, <2>3, <1>t DEF CredentialsTyped, Whole
    <2>5. OnlyIssued' /\ GoneForGood'
      BY <2>2, <2>3, <1>t, CredFields DEF OnlyIssued, IssuedBefore, GoneForGood
    <2>6. StoredNewest' /\ \A p \in Procs : InHand(p)' /\ NewestIsMine(p)'
      BY <2>2, <1>t DEF StoredNewest, InHand, NewestIsMine
    <2> QED BY <2>4, <2>5, <2>6 DEF CredentialsInv
  <1>2. CASE Creds!PowerLoss
    <2>1. /\ lost' = lost \cup UNION {Creds!Interrupted(p) : p \in Procs}
          /\ gone' = IF Creds!PF!Durable(store) THEN gone ELSE {}
          /\ pc' = [p \in Procs |-> "idle"] /\ session' = [p \in Procs |-> NoSession]
          /\ held' = [p \in Procs |-> NoCred] /\ fresh' = [p \in Procs |-> NoCred]
          /\ tmp' = [p \in Procs |-> Creds!PF!Settled(Absent)]
          /\ stage' = stage /\ gen' = gen
      BY <1>2 DEF Creds!PowerLoss, Creds!server
    <2>2. PICK left \in {store.now} \cup store.prior :
            store' = [now |-> left, body |-> {left}, prior |-> {}]
      BY <1>2, <1>t DEF Creds!PowerLoss, Creds!PF!AfterLoss, Creds!PF!Settled, Whole
    <2>3. /\ lost \subseteq lost' /\ lost' \subseteq Slugs
          /\ \A p \in Procs : pc[p] \in Saving => fresh[p].session \in lost'
      <3>1. \A p \in Procs : \A k : k \in Creds!Interrupted(p) <=>
              k \in Slugs /\ pc[p] \in Saving /\ fresh[p].session = k
        BY DEF Creds!Interrupted, Creds!Saving, Saving
      <3>2. \A p \in Procs : pc[p] \in Saving => fresh[p].session \in Slugs
        BY <1>t, CredFields DEF InHand
      <3> QED BY <2>1, <3>1, <3>2, <1>t DEF CredentialsTyped
    <2>4. left \in Creds!Cred \cup {Absent} /\ left # Partial
      BY <2>2, <1>t, StoreFields DEF Whole
    <2>5. CredentialsTyped'
      <3>1. store' \in Creds!PF!FileOver(Creds!Cred)
        BY <2>2, <2>4 DEF Creds!PF!FileOver
      <3>2. Creds!PF!Settled(Absent) \in Creds!PF!FileOver(Creds!Cred)
        BY DEF Creds!PF!Settled, Creds!PF!FileOver
      <3> QED BY <2>1, <2>3, <3>1, <3>2, <1>t DEF CredentialsTyped, Creds!Steps
    <2>6. Whole'
      BY <2>2, <2>4 DEF Whole
    <2>7. OnlyIssued'
      BY <2>1, <2>2, <1>t, Apart DEF OnlyIssued, IssuedBefore
    <2>8. StoredNewest'
      <3>1. left \in Creds!Cred => left.gen = gen[left.session] \/ left.session \in lost'
        <4>1. CASE left = store.now
          <5>1. \A p \in Procs : pc[p] \in Installing => pc[p] \in Saving
            BY DEF Installing, Saving
          <5> QED BY <4>1, <5>1, <2>3, <1>t DEF StoredNewest
        <4>2. CASE left \in store.prior
          BY <4>2, <2>3, <1>t DEF StoredNewest
        <4> QED BY <2>2, <4>1, <4>2
      <3> QED BY <3>1, <2>1, <2>2 DEF StoredNewest
    <2>9. GoneForGood'
      <3>1. Creds!PF!Durable(store) => left = store.now
        BY <2>2, <1>t DEF Creds!PF!Durable, Creds!PF!AfterLoss, Whole
      <3> QED BY <3>1, <2>1, <2>2, <1>t, Apart DEF GoneForGood
    <2>10. \A p \in Procs : InHand(p)' /\ NewestIsMine(p)'
      BY <2>1 DEF InHand, NewestIsMine, Holding, Saving, Installing
    <2> QED BY <2>5, <2>6, <2>7, <2>8, <2>9, <2>10 DEF CredentialsInv
  <1> QED BY <1>1, <1>2

LEMMA CredentialsStep == CredentialsInv /\ Creds!Next => CredentialsInv'
  <1> SUFFICES ASSUME CredentialsInv, Creds!Next PROVE CredentialsInv'
    OBVIOUS
  <1>1. CASE \E p \in Procs : Creds!Cli(p)
    <2>1. PICK p \in Procs : Creds!Cli(p)
      BY <1>1
    <2> QED BY <2>1, CredentialsReads, CredentialsWrites DEF Creds!Cli
  <1> QED BY <1>1, CredentialsWorld DEF Creds!Next

CredentialsKept == kept = "credentials" => CredentialsInv

LEMMA CredentialsKeptStep == CredentialsKept /\ [Next]_vars => CredentialsKept'
  <1> SUFFICES ASSUME CredentialsInv, kept = "credentials", [Next]_vars,
                      kept' = "credentials"
               PROVE  CredentialsInv'
    BY DEF CredentialsKept, Next, KeepCredentials, KeepConfiguration, KeepBinary, vars
  <1>1. CASE KeepCredentials
    BY <1>1, CredentialsStep DEF KeepCredentials
  <1>2. CASE UNCHANGED vars
    BY <1>2 DEF vars, onlyCredentials, CredentialsInv, CredentialsTyped, Whole, OnlyIssued,
       IssuedBefore, StoredNewest, GoneForGood, InHand, NewestIsMine
  <1> QED BY <1>1, <1>2 DEF Next, KeepConfiguration, KeepBinary

LEMMA CredentialsKeptAlways == Spec => []CredentialsKept
  <1>1. Init => CredentialsKept
    BY CredentialsBegin DEF Init, CredentialsKept
  <1> QED BY <1>1, CredentialsKeptStep, PTL DEF Spec

(* No command reads half a credentials file, and no power loss can leave   *)
(* one; the stored refresh token is the one the server accepts, however    *)
(* many commands refresh at once, unless one was interrupted or is on its  *)
(* way (cmd/helpers.go loadActiveClient, internal/privatefile).            *)
THEOREM CredentialsAlwaysCurrent == Spec => []CredentialsCurrent
  <1>1. ASSUME CredentialsInv PROVE Creds!NeverTorn
    BY <1>1 DEF CredentialsInv, Whole, Creds!NeverTorn, Creds!PF!AfterLoss
  <1>2. ASSUME CredentialsInv PROVE Creds!StoredTokenCurrent
    <2>1. \A p \in Procs : pc[p] \in Installing => pc[p] \in Creds!Saving
      BY DEF Installing, Creds!Saving
    <2> QED BY <1>2, <2>1 DEF CredentialsInv, StoredNewest, Creds!StoredTokenCurrent
  <1>3. CredentialsKept => CredentialsCurrent
    BY <1>1, <1>2 DEF CredentialsKept, CredentialsCurrent
  <1> QED BY <1>3, CredentialsKeptAlways, PTL

(* Credentials that a login has replaced or a logout has deleted while     *)
(* nothing else ran do not come back, but by a power loss before the       *)
(* directory was synced.                                                   *)
THEOREM ReplacedNeverBack == Spec => []ReplacedStaysGone
  <1>1. CredentialsInv => Creds!ReplacedStaysGone
    BY DEF CredentialsInv, GoneForGood, Creds!ReplacedStaysGone
  <1>2. CredentialsKept => ReplacedStaysGone
    BY <1>1 DEF CredentialsKept, ReplacedStaysGone
  <1> QED BY <1>2, CredentialsKeptAlways, PTL
=============================================================================
