------------------------ MODULE ReviewedStartProofs ------------------------
(***************************************************************************)
(* What ReviewedStart guarantees for every number of processes, files,     *)
(* scopes, targets, versions and power losses.                             *)
(***************************************************************************)
EXTENDS ReviewedStart, TLAPS

(* The writes of createReviewedRequest keep a file value of its type. *)
LEMMA FileValues ==
  ASSUME NEW C, NEW f \in PF!FileOver(C), NEW c \in C
  PROVE  /\ PF!Create(f) \in PF!FileOver(C)
         /\ PF!Written(f, c) \in PF!FileOver(C)
         /\ PF!Synced(f) \in PF!FileOver(C)
         /\ PF!ParentSynced(f) \in PF!FileOver(C)
  BY DEF PF!FileOver, PF!Create, PF!Written, PF!Synced, PF!ParentSynced, PF!AfterLoss

(* A process that is not idle runs a command, and in every stage past the  *)
(* review it holds a request, made for or read from the file it names.     *)
Holders == {"recover", "create", "write", "sync", "syncdir", "send", "await"}

HoldsRequest ==
  \A p \in Procs :
    /\ pc[p] # "idle" => job[p] \in Jobs
    /\ pc[p] \in {"idle", "read"} => req[p] = NoRequest
    /\ pc[p] \in Holders => req[p] \in Request

Typed == TypeOK /\ HoldsRequest

LEMMA TypedInit == Init => Typed
  <1>1. SUFFICES ASSUME Init PROVE Typed
    OBVIOUS
  <1>2. PF!Settled(Absent) \in PF!FileOver(Request)
    BY DEF PF!Settled, PF!FileOver
  <1> QED
    BY <1>1, <1>2, Bounds DEF Init, Typed, TypeOK, HoldsRequest, Versions, Stages, Holders

LEMMA TypedStep == Typed /\ [Next]_vars => Typed'
  <1> SUFFICES ASSUME Typed, [Next]_vars PROVE Typed'
    OBVIOUS
  <1> USE DEF Typed, TypeOK, HoldsRequest, Holders, At, GoTo, End, history, server, cli
  <1>1. ASSUME NEW p \in Procs, NEW j \in Jobs, Begin(p, j) PROVE Typed'
    BY <1>1 DEF Begin, Stages
  <1>2. ASSUME NEW p \in Procs, ReadAbsent(p) PROVE Typed'
    BY <1>2 DEF ReadAbsent, Stages
  <1>3. ASSUME NEW p \in Procs, ReadRecord(p) PROVE Typed'
    BY <1>3 DEF ReadRecord, Stages
  <1>4. ASSUME NEW p \in Procs, RecoverRun(p) PROVE Typed'
    BY <1>4 DEF RecoverRun, Stages
  <1>5. ASSUME NEW p \in Procs, RecoverNothing(p) PROVE Typed'
    BY <1>5 DEF RecoverNothing, Stages
  <1>6. ASSUME NEW p \in Procs, NEW id \in Ids, ReviewNew(p, id) PROVE Typed'
    <2>1. job[p] \in Jobs
      BY <1>6 DEF ReviewNew
    <2>2. NewRequest(job[p], id) \in Request
      BY <2>1 DEF NewRequest, Request, Jobs
    <2> QED BY <1>6, <2>2 DEF ReviewNew, Stages
  <1>7. ASSUME NEW p \in Procs, ReviewRetained(p) PROVE Typed'
    BY <1>7 DEF ReviewRetained, Stages
  <1>8. ASSUME NEW p \in Procs, NEW here \in Holders, NEW there \in Holders,
               NEW c \in PF!FileOver(Request), FileStep(p, here, there, c)
        PROVE  Typed'
    BY <1>8 DEF FileStep, Stages
  <1>9. ASSUME NEW p \in Procs, pc[p] \in Holders
        PROVE  file[job[p].file] \in PF!FileOver(Request) /\ req[p] \in Request
    BY <1>9 DEF Jobs
  <1>10. ASSUME NEW p \in Procs, CreateFile(p) PROVE Typed'
    <2>1. FileStep(p, "create", "write", PF!Create(file[job[p].file]))
      BY <1>10 DEF CreateFile
    <2>2. pc[p] \in Holders
      BY <2>1 DEF FileStep
    <2>3. PF!Create(file[job[p].file]) \in PF!FileOver(Request)
      BY <1>9, <2>2, FileValues
    <2> QED BY <1>8, <2>1, <2>3
  <1>11. ASSUME NEW p \in Procs, WriteRecord(p) PROVE Typed'
    <2>1. FileStep(p, "write", "sync", PF!Written(file[job[p].file], req[p]))
      BY <1>11 DEF WriteRecord
    <2>2. pc[p] \in Holders
      BY <2>1 DEF FileStep
    <2>3. PF!Written(file[job[p].file], req[p]) \in PF!FileOver(Request)
      BY <1>9, <2>2, FileValues
    <2> QED BY <1>8, <2>1, <2>3
  <1>12. ASSUME NEW p \in Procs, SyncRecord(p) PROVE Typed'
    <2>1. FileStep(p, "sync", "syncdir", PF!Synced(file[job[p].file]))
      BY <1>12 DEF SyncRecord
    <2>2. pc[p] \in Holders
      BY <2>1 DEF FileStep
    <2>3. PF!Synced(file[job[p].file]) \in PF!FileOver(Request)
      BY <1>9, <2>2, FileValues
    <2> QED BY <1>8, <2>1, <2>3
  <1>13. ASSUME NEW p \in Procs, SyncDir(p) PROVE Typed'
    <2>1. FileStep(p, "syncdir", "send", PF!ParentSynced(file[job[p].file]))
      BY <1>13 DEF SyncDir
    <2>2. pc[p] \in Holders
      BY <2>1 DEF FileStep
    <2>3. PF!ParentSynced(file[job[p].file]) \in PF!FileOver(Request)
      BY <1>9, <2>2, FileValues
    <2> QED BY <1>8, <2>1, <2>3
  <1>14. ASSUME NEW p \in Procs, Send(p) PROVE Typed'
    BY <1>14 DEF Send, Stages
  <1>15. ASSUME NEW p \in Procs, Answer(p) PROVE Typed'
    BY <1>15 DEF Answer, Stages
  <1>16. ASSUME NEW p \in Procs, Stop(p) PROVE Typed'
    BY <1>16 DEF Stop, Stages
  <1>17. ASSUME NEW m \in inflight, Reserve(m) PROVE Typed'
    BY <1>17 DEF Reserve
  <1>18. ASSUME NEW r \in runs, Engine(r) PROVE Typed'
    BY <1>18 DEF Engine
  <1>19. ASSUME NEW t \in Targets, EditTarget(t) PROVE Typed'
    BY <1>19, Bounds DEF EditTarget, Versions
  <1>20. ASSUME PowerLoss PROVE Typed'
    <2>1. ASSUME NEW f \in Files, NEW c \in PF!AfterLoss(file[f])
          PROVE  PF!Settled(c) \in PF!FileOver(Request)
      BY <2>1 DEF PF!Settled, PF!FileOver, PF!AfterLoss
    <2>2. file' \in [Files -> PF!FileOver(Request)]
      BY <1>20, <2>1 DEF PowerLoss
    <2> QED BY <1>20, <2>2, Bounds DEF PowerLoss, Stages
  <1>21. CASE UNCHANGED vars
    BY <1>21 DEF vars
  <1> QED
    BY <1>1, <1>2, <1>3, <1>4, <1>5, <1>6, <1>7, <1>10, <1>11, <1>12, <1>13, <1>14,
       <1>15, <1>16, <1>17, <1>18, <1>19, <1>20, <1>21
    DEF Next, Cli, ControlPlane

(* Every reachable state is well typed, whatever the constants. *)
THEOREM TypeCorrect == Spec => []TypeOK
  <1>1. Typed => TypeOK
    BY DEF Typed
  <1> QED BY <1>1, TypedInit, TypedStep, PTL DEF Spec

-----------------------------------------------------------------------------
(***************************************************************************)
(* The inductive invariant.  A record, once in a file, stays there until a *)
(* power loss; a process that holds it may rely on that.  A definition's   *)
(* record is durable from before its only submission on.                   *)
(***************************************************************************)

(* The stages in which the process relies on its record being in the file. *)
RecordInFile(p) ==
  \/ pc[p] \in {"recover", "sync", "syncdir", "send", "await"}
  \/ pc[p] = "review" /\ req[p] # NoRequest

Writing(p) == pc[p] \in {"write", "sync", "syncdir"}

(* Whatever a file holds, or may come to hold, was made for that file. *)
OwnRecords ==
  \A f \in Files : \A c \in {file[f].now} \cup PF!AfterLoss(file[f]) :
    c \in Request => c.file = f

HeldRecords ==
  \A p \in Procs :
    /\ RecordInFile(p) => file[job[p].file].now = req[p] /\ req[p] \in Request
    /\ pc[p] = "write" => file[job[p].file].now = Partial
    /\ pc[p] = "syncdir" => file[job[p].file].body = {req[p]}
    /\ pc[p] \in {"create", "write"} => req[p].file = job[p].file

OneWriter ==
  \A p, q \in Procs :
    p # q /\ Writing(p) /\ Writing(q) => job[p].file # job[q].file

(* No definition is submitted from a file that was found, only from one    *)
(* that has just been made durable.                                        *)
DefinitionsDurable ==
  \A p \in Procs :
    /\ pc[p] = "recover" => req[p].kind = job[p].kind
    /\ pc[p] = "review" /\ req[p] # NoRequest => req[p].kind # "definition"
    /\ pc[p] = "send" /\ req[p].kind = "definition"
         => PF!Durable(file[job[p].file])

(* The file of a submitted record shows it, unless a power loss undid it;  *)
(* a definition's cannot be undone.                                        *)
SentRecords ==
  \A r \in sent :
    /\ r.file \in erased \/ file[r.file].now = r
    /\ r.kind = "definition" => file[r.file].now = r /\ PF!Durable(file[r.file])

Sources == runs \subseteq sent /\ \A m \in inflight : m.req \in sent

IInv ==
  /\ Typed /\ OwnRecords /\ HeldRecords /\ OneWriter
  /\ DefinitionsDurable /\ SentRecords /\ Sources

LEMMA IInvInit == Init => IInv
  <1> SUFFICES ASSUME Init PROVE IInv
    OBVIOUS
  <1>1. Typed
    BY TypedInit
  <1>2. OwnRecords
    BY Distinct DEF Init, OwnRecords, PF!Settled, PF!AfterLoss
  <1>3. HeldRecords /\ OneWriter /\ DefinitionsDurable
    BY DEF Init, HeldRecords, OneWriter, DefinitionsDurable, RecordInFile, Writing
  <1>4. SentRecords /\ Sources
    BY DEF Init, SentRecords, Sources
  <1> QED BY <1>1, <1>2, <1>3, <1>4 DEF IInv

(* Steps that neither touch a file nor move a process on with a record.    *)
LEMMA QuietStep ==
  ASSUME IInv, Typed',
         UNCHANGED <<file, erased, sent>>,
         Sources',
         NEW p \in Procs,
         \A q \in Procs \ {p} :
            pc'[q] = pc[q] /\ job'[q] = job[q] /\ req'[q] = req[q],
         \/ pc'[p] \in {"idle", "read"}
         \/ pc'[p] = "review" /\ req'[p] = NoRequest
         \/ pc'[p] = pc[p] /\ job'[p] = job[p] /\ req'[p] = req[p]
  PROVE  IInv'
  <1> USE DEF IInv
  <1>1. OwnRecords' /\ SentRecords'
    BY DEF OwnRecords, SentRecords
  <1>2. HeldRecords'
    BY DEF HeldRecords, RecordInFile
  <1>3. OneWriter'
    BY DEF OneWriter, Writing
  <1>4. DefinitionsDurable'
    BY DEF DefinitionsDurable
  <1> QED BY <1>1, <1>2, <1>3, <1>4

(* A step that moves one process on with the record it already holds. *)
LEMMA HoldingStep ==
  ASSUME IInv, Typed', Sources',
         UNCHANGED <<file, erased, sent>>,
         NEW p \in Procs,
         \A q \in Procs \ {p} :
            pc'[q] = pc[q] /\ job'[q] = job[q] /\ req'[q] = req[q],
         job'[p] = job[p],
         pc'[p] \in {"recover", "review", "send", "await"},
         pc'[p] = "recover" => req'[p].kind = job[p].kind,
         req'[p] = file[job[p].file].now, req'[p] \in Request,
         req'[p].kind = "definition" => pc'[p] \in {"recover", "await"}
  PROVE  IInv'
  <1> USE DEF IInv
  <1>1. OwnRecords' /\ SentRecords'
    BY DEF OwnRecords, SentRecords
  <1>2. HeldRecords'
    BY DEF HeldRecords, RecordInFile
  <1>3. OneWriter'
    BY DEF OneWriter, Writing
  <1>4. DefinitionsDurable'
    BY DEF DefinitionsDurable
  <1> QED BY <1>1, <1>2, <1>3, <1>4

(* The writes to a file under construction: no submitted record and no     *)
(* record another process relies on is in it.                              *)
LEMMA CreateFileStep ==
  ASSUME IInv, Typed', NEW p \in Procs, CreateFile(p)
  PROVE  IInv'
  <1> DEFINE f == job[p].file
  <1> USE DEF IInv
  <1>1. /\ f \in Files /\ file \in [Files -> PF!FileOver(Request)]
        /\ pc[p] = "create" /\ pc' = [pc EXCEPT ![p] = "write"]
        /\ file' = [file EXCEPT ![f] = PF!Create(file[f])]
        /\ file[f].now = Absent
        /\ UNCHANGED <<job, req, sent, erased, runs, inflight>>
        /\ pc \in [Procs -> Stages] /\ sent \subseteq Request
    BY DEF CreateFile, FileStep, At, GoTo, PF!CanCreate, server, history, Typed,
           TypeOK, HoldsRequest, Jobs
  <1>2. /\ file'[f].now = Partial
        /\ PF!AfterLoss(file'[f]) = {Partial} \cup PF!AfterLoss(file[f])
        /\ \A g \in Files \ {f} : file'[g] = file[g]
    BY <1>1 DEF PF!Create, PF!AfterLoss
  <1>3. OwnRecords'
    BY <1>1, <1>2, Distinct DEF OwnRecords
  <1>4. HeldRecords'
    BY <1>1, <1>2, Distinct DEF HeldRecords, RecordInFile
  <1>5. OneWriter'
    <2>1. \A q \in Procs : Writing(q) => file[job[q].file].now # Absent
      BY Distinct DEF Writing, HeldRecords, RecordInFile
    <2> QED BY <1>1, <2>1 DEF OneWriter, Writing
  <1>6. DefinitionsDurable'
    <2>1. \A q \in Procs : pc[q] = "send" => job[q].file # f
      BY <1>1, Distinct DEF HeldRecords, RecordInFile
    <2>2. \A q \in Procs : pc[q] = "send" => job[q].file \in Files
      BY DEF Typed, HoldsRequest, Jobs
    <2> QED BY <1>1, <1>2, <2>1, <2>2 DEF DefinitionsDurable
  <1>7. SentRecords'
    BY <1>1, <1>2, Distinct DEF SentRecords, Request
  <1>8. Sources'
    BY <1>1 DEF Sources
  <1> QED BY <1>3, <1>4, <1>5, <1>6, <1>7, <1>8

LEMMA WriteRecordStep ==
  ASSUME IInv, Typed', NEW p \in Procs, WriteRecord(p)
  PROVE  IInv'
  <1> DEFINE f == job[p].file
  <1> USE DEF IInv
  <1>1. /\ f \in Files /\ file \in [Files -> PF!FileOver(Request)]
        /\ pc[p] = "write" /\ pc' = [pc EXCEPT ![p] = "sync"]
        /\ file' = [file EXCEPT ![f] = PF!Written(file[f], req[p])]
        /\ req[p] \in Request /\ req[p].file = f
        /\ file[f].now = Partial
        /\ UNCHANGED <<job, req, sent, erased, runs, inflight>>
        /\ pc \in [Procs -> Stages] /\ sent \subseteq Request
    BY DEF WriteRecord, FileStep, At, GoTo, server, history, Typed,
           TypeOK, HoldsRequest, Holders, Jobs, HeldRecords
  <1>2. /\ file'[f].now = req[p]
        /\ PF!AfterLoss(file'[f]) \subseteq {Partial, req[p]} \cup PF!AfterLoss(file[f])
        /\ \A g \in Files \ {f} : file'[g] = file[g]
    BY <1>1 DEF PF!Written, PF!AfterLoss
  <1>3. OwnRecords'
    BY <1>1, <1>2, Distinct DEF OwnRecords
  <1>4. \A q \in Procs : pc[q] = "send" => job[q].file # f /\ job[q].file \in Files
    BY <1>1, Distinct DEF HeldRecords, RecordInFile, Typed, HoldsRequest, Jobs
  <1>5. HeldRecords'
    <2>1. \A q \in Procs \ {p} : RecordInFile(q) \/ Writing(q) => job[q].file # f
      BY <1>1, Distinct DEF HeldRecords, RecordInFile, OneWriter, Writing
    <2>2. \A q \in Procs : pc[q] # "idle" => job[q].file \in Files
      BY DEF Typed, HoldsRequest, Jobs
    <2>3. \A q \in Procs : RecordInFile(q) \/ Writing(q) => pc[q] # "idle"
      BY DEF RecordInFile, Writing
    <2> QED BY <1>1, <1>2, <2>1, <2>2, <2>3 DEF HeldRecords, RecordInFile, Writing
  <1>6. OneWriter'
    BY <1>1 DEF OneWriter, Writing
  <1>7. DefinitionsDurable'
    BY <1>1, <1>2, <1>4 DEF DefinitionsDurable
  <1>8. SentRecords'
    BY <1>1, <1>2, Distinct DEF SentRecords, Request
  <1>9. Sources'
    BY <1>1 DEF Sources
  <1> QED BY <1>3, <1>5, <1>6, <1>7, <1>8, <1>9

(* A sync: the content stays what it is, and less may be found after a     *)
(* power loss than before.                                                 *)
LEMMA SyncStep ==
  ASSUME IInv, Typed', NEW p \in Procs, NEW f, NEW there,
         f = job[p].file, file[f].now = req[p],
         \/ pc[p] = "sync" /\ there = "syncdir" /\ file'[f].body = {req[p]}
         \/ pc[p] = "syncdir" /\ there = "send" /\ PF!Durable(file'[f]),
         pc' = [pc EXCEPT ![p] = there],
         file'[f].now = file[f].now,
         PF!AfterLoss(file'[f]) \subseteq {file[f].now} \cup PF!AfterLoss(file[f]),
         PF!AfterLoss(file'[f]) # {},
         file[f].body = {req[p]} => file'[f].body = {req[p]},
         \A g \in Files \ {f} : file'[g] = file[g],
         UNCHANGED <<job, req, sent, erased, runs, inflight>>
  PROVE  IInv'
  <1> USE DEF IInv
  <1>1. f \in Files /\ pc \in [Procs -> Stages] /\ sent \subseteq Request
    BY DEF Typed, TypeOK, HoldsRequest, Jobs
  <1>2. \A q \in Procs : pc[q] # "idle" => job[q].file \in Files
    BY DEF Typed, HoldsRequest, Jobs
  <1>3. OwnRecords'
    BY <1>1 DEF OwnRecords
  <1>4. PF!Durable(file[f]) => PF!Durable(file'[f])
    BY DEF PF!Durable
  <1>5. HeldRecords'
    <2>1. \A q \in Procs \ {p} : Writing(q) => job[q].file # f
      BY DEF OneWriter, Writing
    <2> QED BY <1>1, <1>2, <2>1 DEF HeldRecords, RecordInFile, Writing
  <1>6. OneWriter'
    BY <1>1 DEF OneWriter, Writing
  <1>7. DefinitionsDurable'
    BY <1>1, <1>2, <1>4 DEF DefinitionsDurable
  <1>8. SentRecords'
    BY <1>1, <1>4 DEF SentRecords, Request
  <1>9. Sources'
    BY DEF Sources
  <1> QED BY <1>3, <1>5, <1>6, <1>7, <1>8, <1>9

LEMMA SyncRecordStep ==
  ASSUME IInv, Typed', NEW p \in Procs, SyncRecord(p)
  PROVE  IInv'
  <1> DEFINE f == job[p].file
  <1>1. /\ f \in Files /\ file \in [Files -> PF!FileOver(Request)]
        /\ pc[p] = "sync" /\ pc' = [pc EXCEPT ![p] = "syncdir"]
        /\ file' = [file EXCEPT ![f] = PF!Synced(file[f])]
        /\ file[f].now = req[p]
        /\ UNCHANGED <<job, req, sent, erased, runs, inflight>>
    BY DEF SyncRecord, FileStep, At, GoTo, server, history, IInv, Typed,
           TypeOK, HoldsRequest, Jobs, HeldRecords, RecordInFile
  <1>2. /\ file'[f].now = req[p] /\ file'[f].body = {req[p]}
        /\ PF!AfterLoss(file'[f]) = {req[p]} \cup file[f].prior
        /\ \A g \in Files \ {f} : file'[g] = file[g]
    BY <1>1 DEF PF!Synced, PF!AfterLoss, PF!FileOver
  <1>3. file[f].prior \subseteq PF!AfterLoss(file[f])
    BY <1>1 DEF PF!AfterLoss
  <1> HIDE DEF f
  <1> QED BY <1>1, <1>2, <1>3, SyncStep DEF f

LEMMA SyncDirStep ==
  ASSUME IInv, Typed', NEW p \in Procs, SyncDir(p)
  PROVE  IInv'
  <1> DEFINE f == job[p].file
  <1>1. /\ f \in Files /\ file \in [Files -> PF!FileOver(Request)]
        /\ pc[p] = "syncdir" /\ pc' = [pc EXCEPT ![p] = "send"]
        /\ file' = [file EXCEPT ![f] = PF!ParentSynced(file[f])]
        /\ file[f].now = req[p] /\ file[f].body = {req[p]}
        /\ UNCHANGED <<job, req, sent, erased, runs, inflight>>
    BY DEF SyncDir, FileStep, At, GoTo, server, history, IInv, Typed,
           TypeOK, HoldsRequest, Jobs, HeldRecords, RecordInFile
  <1>2. /\ file'[f].now = req[p] /\ file'[f].body = {req[p]}
        /\ PF!AfterLoss(file'[f]) = {req[p]}
        /\ \A g \in Files \ {f} : file'[g] = file[g]
    BY <1>1 DEF PF!ParentSynced, PF!AfterLoss, PF!FileOver
  <1>3. PF!Durable(file'[f])
    BY <1>2 DEF PF!Durable
  <1> HIDE DEF f
  <1> QED BY <1>1, <1>2, <1>3, SyncStep DEF f

LEMMA SendStep ==
  ASSUME IInv, Typed', NEW p \in Procs, Send(p)
  PROVE  IInv'
  <1> USE DEF IInv
  <1>1. /\ pc[p] = "send" /\ pc' = [pc EXCEPT ![p] = "await"]
        /\ sent' = sent \cup {req[p]}
        /\ UNCHANGED <<job, req, file, erased, runs>>
        /\ inflight' = inflight \cup {[req |-> req[p], by |-> job[p]]}
        /\ pc \in [Procs -> Stages]
    BY DEF Send, At, GoTo, server, Typed, TypeOK
  <1>2. /\ req[p] \in Request /\ job[p].file \in Files
        /\ file[job[p].file].now = req[p]
    BY <1>1 DEF HeldRecords, RecordInFile, Typed, HoldsRequest, Jobs
  <1>3. req[p].file = job[p].file
    BY <1>2 DEF OwnRecords
  <1>4. OwnRecords'
    BY <1>1 DEF OwnRecords
  <1>5. HeldRecords'
    BY <1>1 DEF HeldRecords, RecordInFile
  <1>6. OneWriter' /\ DefinitionsDurable'
    BY <1>1 DEF OneWriter, Writing, DefinitionsDurable
  <1>7. SentRecords'
    BY <1>1, <1>2, <1>3 DEF SentRecords, DefinitionsDurable
  <1>8. Sources'
    BY <1>1 DEF Sources
  <1> QED BY <1>4, <1>5, <1>6, <1>7, <1>8

(* A power loss leaves a durable file alone, and marks the others it       *)
(* changes under a submitted record.                                       *)
LEMMA PowerLossStep ==
  ASSUME IInv, Typed', PowerLoss
  PROVE  IInv'
  <1> USE DEF IInv
  <1>1. PICK left \in [Files -> UNION {PF!AfterLoss(file[f]) : f \in Files}] :
          /\ \A f \in Files : left[f] \in PF!AfterLoss(file[f])
          /\ file' = [f \in Files |-> PF!Settled(left[f])]
          /\ erased' = erased \cup
               {f \in Files : file[f].now \in sent /\ left[f] # file[f].now}
    BY DEF PowerLoss
  <1>2. /\ \A p \in Procs : pc'[p] = "idle"
        /\ UNCHANGED <<sent, runs, inflight>>
        /\ sent \subseteq Request
    BY DEF PowerLoss, server, Typed, TypeOK
  <1>3. \A f \in Files : file'[f].now = left[f] /\ PF!AfterLoss(file'[f]) = {left[f]}
    BY <1>1 DEF PF!Settled, PF!AfterLoss
  <1>4. OwnRecords'
    BY <1>1, <1>3 DEF OwnRecords
  <1>5. HeldRecords' /\ OneWriter' /\ DefinitionsDurable'
    BY <1>2 DEF HeldRecords, RecordInFile, OneWriter, Writing, DefinitionsDurable
  <1>6. SentRecords'
    <2> SUFFICES ASSUME NEW r \in sent
                 PROVE  /\ r.file \in erased' \/ file'[r.file].now = r
                        /\ r.kind = "definition"
                             => file'[r.file].now = r /\ PF!Durable(file'[r.file])
      BY <1>2 DEF SentRecords
    <2>1. r.file \in Files
      BY <1>2 DEF Request
    <2>2. r.file \in erased' \/ file'[r.file].now = r
      BY <1>1, <1>3, <2>1 DEF SentRecords
    <2>3. ASSUME r.kind = "definition"
          PROVE  file'[r.file].now = r /\ PF!Durable(file'[r.file])
      <3>1. PF!AfterLoss(file[r.file]) = {r}
        BY <2>3 DEF SentRecords, PF!Durable
      <3>2. left[r.file] = r
        BY <1>1, <2>1, <3>1
      <3> QED BY <1>3, <2>1, <3>2 DEF PF!Durable
    <2> QED BY <2>2, <2>3
  <1>7. Sources'
    BY <1>2 DEF Sources
  <1> QED BY <1>4, <1>5, <1>6, <1>7

LEMMA IInvStep == IInv /\ [Next]_vars => IInv'
  <1> SUFFICES ASSUME IInv, [Next]_vars PROVE IInv'
    OBVIOUS
  <1>T. Typed'
    BY TypedStep DEF IInv
  <1>1. TypeOK /\ HoldsRequest /\ Sources
    BY DEF IInv, Typed
  <1>2. ASSUME NEW p \in Procs, Cli(p) PROVE IInv'
    <2> USE DEF At, GoTo, End, server, history
    <2>1. pc \in [Procs -> Stages] /\ job \in [Procs -> Jobs \cup {NoJob}]
          /\ req \in [Procs -> Request \cup {NoRequest}]
      BY <1>1 DEF TypeOK
    <2>2. ASSUME NEW j \in Jobs, Begin(p, j) PROVE IInv'
      BY <1>T, <1>1, <2>1, <2>2, QuietStep DEF Begin, Sources
    <2>3. CASE ReadAbsent(p)
      <3>1. req[p] = NoRequest
        BY <1>1, <2>3 DEF ReadAbsent, HoldsRequest
      <3> QED BY <1>T, <1>1, <2>1, <2>3, <3>1, QuietStep DEF ReadAbsent, Sources
    <2>4. CASE ReadRecord(p)
      BY <1>T, <1>1, <2>1, <2>4, HoldingStep DEF ReadRecord, InScope, Sources
    <2>5. CASE RecoverRun(p)
      BY <1>T, <1>1, <2>1, <2>5, QuietStep DEF RecoverRun, Sources
    <2>6. CASE RecoverNothing(p)
      <3>1. req[p].kind = "pipeline" /\ file[job[p].file].now = req[p] /\ req[p] \in Request
        BY <2>6 DEF RecoverNothing, MayResubmit, IInv, DefinitionsDurable, HeldRecords,
                    RecordInFile
      <3> QED BY <1>T, <1>1, <2>1, <2>6, <3>1, HoldingStep DEF RecoverNothing, Sources
    <2>7. ASSUME NEW id \in Ids, ReviewNew(p, id) PROVE IInv'
      <3>1. job[p] \in Jobs
        BY <1>1, <2>7 DEF ReviewNew, HoldsRequest
      <3>2. /\ pc' = [pc EXCEPT ![p] = "create"]
            /\ req' = [req EXCEPT ![p] = NewRequest(job[p], id)]
            /\ NewRequest(job[p], id).file = job[p].file
            /\ UNCHANGED <<job, file, sent, erased, runs, inflight>>
        BY <2>7 DEF ReviewNew, NewRequest
      <3>3. OwnRecords' /\ SentRecords' /\ Sources'
        BY <3>2 DEF IInv, OwnRecords, SentRecords, Sources
      <3>4. HeldRecords'
        BY <2>1, <3>2 DEF IInv, HeldRecords, RecordInFile
      <3>5. OneWriter' /\ DefinitionsDurable'
        BY <2>1, <3>2 DEF IInv, OneWriter, Writing, DefinitionsDurable
      <3> QED BY <1>T, <3>3, <3>4, <3>5 DEF IInv
    <2>8. CASE ReviewRetained(p)
      <3>1. /\ req[p].kind # "definition" /\ file[job[p].file].now = req[p]
            /\ req[p] \in Request
        BY <2>8 DEF ReviewRetained, IInv, DefinitionsDurable, HeldRecords, RecordInFile
      <3> QED BY <1>T, <1>1, <2>1, <2>8, <3>1, HoldingStep DEF ReviewRetained, Sources
    <2>9. CASE Answer(p)
      BY <1>T, <1>1, <2>1, <2>9, QuietStep DEF Answer, Sources
    <2>10. CASE Stop(p)
      BY <1>T, <1>1, <2>1, <2>10, QuietStep DEF Stop, Sources
    <2> QED BY <1>2, <1>T, <2>2, <2>3, <2>4, <2>5, <2>6, <2>7, <2>8, <2>9, <2>10,
               CreateFileStep, WriteRecordStep, SyncRecordStep, SyncDirStep, SendStep
            DEF Cli
  <1>3. ASSUME UNCHANGED <<pc, job, req, file, erased, sent>>, Sources' PROVE IInv'
    <2>1. OwnRecords' /\ SentRecords' /\ HeldRecords'
      BY <1>3 DEF IInv, OwnRecords, SentRecords, HeldRecords, RecordInFile
    <2>2. OneWriter' /\ DefinitionsDurable'
      BY <1>3 DEF IInv, OneWriter, Writing, DefinitionsDurable
    <2> QED BY <1>T, <1>3, <2>1, <2>2 DEF IInv
  <1>4. CASE ControlPlane
    <2>1. ASSUME NEW m \in inflight, Reserve(m) PROVE IInv'
      BY <1>1, <1>3, <2>1 DEF Reserve, Sources, cli, history
    <2>2. ASSUME NEW r \in runs, Engine(r) PROVE IInv'
      BY <1>1, <1>3, <2>2 DEF Engine, Sources, cli, history
    <2>3. ASSUME NEW t \in Targets, EditTarget(t) PROVE IInv'
      BY <1>1, <1>3, <2>3 DEF EditTarget, Sources, cli, history
    <2> QED BY <1>4, <2>1, <2>2, <2>3 DEF ControlPlane
  <1>5. CASE PowerLoss
    BY <1>T, <1>5, PowerLossStep
  <1>6. CASE UNCHANGED vars
    BY <1>1, <1>3, <1>6 DEF vars, Sources
  <1> QED BY <1>2, <1>4, <1>5, <1>6 DEF Next

LEMMA IInvAlways == Spec => []IInv
  BY IInvInit, IInvStep, PTL DEF Spec

-----------------------------------------------------------------------------
(* Whatever is killed, lost or powered off, a request file of `workflow    *)
(* definition-start` or `agent run` never stands for two runs.             *)
THEOREM DefinitionOnce == Spec => []DefinitionStartedAtMostOnce
  <1>1. IInv => DefinitionStartedAtMostOnce
    BY DEF IInv, DefinitionStartedAtMostOnce, SameFileOnce, OfKind, Sources, SentRecords
  <1> QED BY <1>1, IInvAlways, PTL

(* Nor does a file of `pipeline run` or of an installation, unless a power *)
(* loss undoes it.                                                         *)
THEOREM RetriedOnce == Spec => []RetriedStartedAtMostOnce
  <1>1. IInv => RetriedStartedAtMostOnce
    BY DEF IInv, RetriedStartedAtMostOnce, SameFileOnce, Sources, SentRecords
  <1> QED BY <1>1, IInvAlways, PTL

(* A record in a request file is never replaced by a process.              *)
THEOREM KeyKept == Spec => KeyNeverReplaced
  <1>1. ASSUME IInv, Next, NEW f \in Files, file[f].now \in Request,
               file'[f].now # file[f].now
        PROVE  losses' # losses
    <2>1. file \in [Files -> PF!FileOver(Request)] /\ losses \in Nat
      BY <1>1, Bounds DEF IInv, Typed, TypeOK
    <2>2. ASSUME NEW p \in Procs, Cli(p) PROVE FALSE
      <3>1. /\ file' # file
            /\ CreateFile(p) \/ WriteRecord(p) \/ SyncRecord(p) \/ SyncDir(p)
        BY <1>1, <2>2 DEF Cli, Begin, ReadAbsent, ReadRecord, RecoverRun,
           RecoverNothing, ReviewNew, ReviewRetained, Send, Answer, Stop
      <3>2. \A g \in Files : g # job[p].file => file'[g] = file[g]
        BY <2>1, <3>1 DEF CreateFile, WriteRecord, SyncRecord, SyncDir, FileStep
      <3>3. f = job[p].file
        BY <1>1, <3>2
      <3>4. CASE CreateFile(p)
        BY <1>1, <3>3, <3>4, Distinct DEF CreateFile, PF!CanCreate
      <3>5. CASE WriteRecord(p)
        BY <1>1, <3>3, <3>5, Distinct DEF WriteRecord, FileStep, At, IInv, HeldRecords
      <3>6. CASE SyncRecord(p)
        BY <1>1, <2>1, <3>3, <3>6 DEF SyncRecord, FileStep, PF!Synced, PF!FileOver
      <3>7. CASE SyncDir(p)
        BY <1>1, <2>1, <3>3, <3>7 DEF SyncDir, FileStep, PF!ParentSynced, PF!FileOver
      <3> QED BY <3>1, <3>4, <3>5, <3>6, <3>7
    <2>3. CASE ControlPlane
      BY <1>1, <2>3 DEF ControlPlane, Reserve, Engine, EditTarget
    <2>4. CASE PowerLoss
      BY <2>1, <2>4 DEF PowerLoss
    <2> QED BY <1>1, <2>2, <2>3, <2>4 DEF Next
  <1>2. IInv /\ [Next]_vars =>
          [\A f \in Files : file[f].now \in Request /\ file'[f].now # file[f].now
                          => losses' # losses]_vars
    BY <1>1
  <1> QED BY <1>2, IInvAlways, PTL DEF Spec, KeyNeverReplaced

-----------------------------------------------------------------------------
(* The start of a definition, seen without processes, disks and the        *)
(* network, is StartOnce.                                                  *)
Definitions(S) == OfKind(S, "definition")

LEMMA PromiseStep ==
  IInv /\ [Next]_vars =>
    [Promise!Next]_<<Definitions(sent), Definitions(runs)>>
  <1> SUFFICES ASSUME IInv, [Next]_vars
               PROVE  \/ Promise!Next
                      \/ UNCHANGED <<Definitions(sent), Definitions(runs)>>
    OBVIOUS
  <1> USE DEF Definitions, OfKind
  <1>1. \/ UNCHANGED <<sent, runs>>
        \/ \E p \in Procs : Send(p)
        \/ \E m \in inflight : Reserve(m)
    BY DEF Next, Cli, ControlPlane, Begin, ReadAbsent, ReadRecord, RecoverRun,
       RecoverNothing, ReviewNew, ReviewRetained, CreateFile, WriteRecord,
       SyncRecord, SyncDir, FileStep, Answer, Stop, Engine, EditTarget, PowerLoss,
       server, history, vars
  <1>2. ASSUME NEW p \in Procs, Send(p), req[p].kind = "definition"
        PROVE  Promise!Next \/ UNCHANGED <<sent, runs>>
    <2>1. /\ req[p] \in Request /\ req[p].file = job[p].file
          /\ file[job[p].file].now = req[p] /\ job[p].file \in Files
      <3>1. pc[p] = "send"
        BY <1>2 DEF Send, At
      <3>2. /\ req[p] \in Request /\ file[job[p].file].now = req[p]
            /\ job[p].file \in Files
        BY <3>1 DEF IInv, HeldRecords, RecordInFile, Typed, HoldsRequest, Jobs
      <3> QED BY <3>2 DEF IInv, OwnRecords
    <2>2. \A c \in sent : c.kind = "definition" /\ c.file = req[p].file => c = req[p]
      BY <2>1 DEF IInv, SentRecords
    <2>3. sent' = sent \cup {req[p]} /\ UNCHANGED runs
      BY <1>2 DEF Send, server
    <2>4. CASE req[p] \in sent
      BY <2>3, <2>4
    <2>5. CASE req[p] \notin sent
      BY <1>2, <2>1, <2>2, <2>3, <2>5 DEF Promise!Next, Promise!Commit
    <2> QED BY <2>4, <2>5
  <1>3. ASSUME NEW m \in inflight, Reserve(m)
        PROVE  Promise!Next \/ UNCHANGED <<Definitions(sent), Definitions(runs)>>
    <2>1. m.req \in sent /\ m.req \in Request
      BY DEF IInv, Sources, Typed, TypeOK
    <2>2. runs' = runs \/ runs' = runs \cup {m.req}
      BY <1>3 DEF Reserve
    <2>3. sent' = sent
      BY <1>3 DEF Reserve, history
    <2> QED BY <2>1, <2>2, <2>3 DEF Promise!Next, Promise!Start
  <1>4. ASSUME NEW p \in Procs, Send(p), req[p].kind # "definition"
        PROVE  UNCHANGED <<Definitions(sent), Definitions(runs)>>
    BY <1>4 DEF Send, server
  <1> QED BY <1>1, <1>2, <1>3, <1>4

(* Every behaviour of the program is one of the promise.                   *)
THEOREM Refinement == Spec => ImplementsStartOnce
  <1>1. Init => Promise!Init
    BY DEF Init, Promise!Init, OfKind
  <1> QED BY <1>1, PromiseStep, IInvAlways, PTL
          DEF Spec, ImplementsStartOnce, Promise!Spec, Definitions

-----------------------------------------------------------------------------
(* Whose request a process holds. *)
OwnRequests ==
  \A p \in Procs :
    /\ pc[p] \in Holders \/ (pc[p] = "review" /\ req[p] # NoRequest) =>
         /\ req[p].scope = job[p].scope
         /\ job[p].cmd = "start" => req[p].target = job[p].target
    /\ pc[p] \notin {"idle", "read", "recover"} => job[p].cmd = "start"

Owned == OwnRequests /\ SubmittedByItsOwner

LEMMA OwnedStep == Typed /\ Owned /\ [Next]_vars => Owned'
  <1> SUFFICES ASSUME Typed, Owned, [Next]_vars PROVE Owned'
    OBVIOUS
  <1> USE DEF Owned, OwnRequests, SubmittedByItsOwner, Holders, At, GoTo, End
  <1>1. /\ pc \in [Procs -> Stages] /\ job \in [Procs -> Jobs \cup {NoJob}]
        /\ req \in [Procs -> Request \cup {NoRequest}] /\ HoldsRequest
    BY DEF Typed, TypeOK
  <1>2. ASSUME NEW p \in Procs, Cli(p) PROVE Owned'
    <2>1. ASSUME NEW j \in Jobs, Begin(p, j) PROVE Owned'
      BY <1>1, <2>1 DEF Begin
    <2>2. CASE ReadAbsent(p)
      BY <1>1, <2>2 DEF ReadAbsent, HoldsRequest
    <2>3. CASE ReadRecord(p)
      <3>1. job[p] \in Jobs
        BY <1>1, <2>3 DEF ReadRecord, HoldsRequest
      <3>2. ~(pc'[p] \in {"idle", "read", "recover"}) => job[p].cmd = "start"
        BY <1>1, <2>3, <3>1 DEF ReadRecord, InScope, Jobs
      <3> QED BY <1>1, <2>3, <3>2 DEF ReadRecord, InScope
    <2>4. CASE RecoverRun(p)
      BY <1>1, <2>4 DEF RecoverRun
    <2>5. CASE RecoverNothing(p)
      BY <1>1, <2>5 DEF RecoverNothing, MayResubmit
    <2>6. ASSUME NEW id \in Ids, ReviewNew(p, id) PROVE Owned'
      BY <1>1, <2>6 DEF ReviewNew, NewRequest
    <2>7. CASE ReviewRetained(p)
      BY <1>1, <2>7 DEF ReviewRetained
    <2>8. ASSUME NEW here \in {"create", "write", "sync", "syncdir"},
                 NEW there \in {"write", "sync", "syncdir", "send"}, NEW c,
                 FileStep(p, here, there, c)
          PROVE  Owned'
      BY <1>1, <2>8 DEF FileStep
    <2>9. CASE Send(p)
      BY <1>1, <2>9 DEF Send
    <2>10. CASE Answer(p)
      BY <1>1, <2>10 DEF Answer
    <2>11. CASE Stop(p)
      BY <1>1, <2>11 DEF Stop
    <2> QED BY <1>2, <2>1, <2>2, <2>3, <2>4, <2>5, <2>6, <2>7, <2>8, <2>9, <2>10, <2>11
            DEF Cli, CreateFile, WriteRecord, SyncRecord, SyncDir
  <1>3. CASE ControlPlane
    BY <1>3 DEF ControlPlane, Reserve, Engine, EditTarget, cli
  <1>4. CASE PowerLoss
    BY <1>4 DEF PowerLoss
  <1>5. CASE UNCHANGED vars
    BY <1>5 DEF vars
  <1> QED BY <1>2, <1>3, <1>4, <1>5 DEF Next

(* Nobody's request is submitted under another server, organization or     *)
(* actor, for another target, or by a reconcile.                           *)
THEOREM OwnersOnly == Spec => []SubmittedByItsOwner
  <1>1. Init => Typed /\ Owned
    BY TypedInit DEF Init, Owned, OwnRequests, SubmittedByItsOwner, Holders
  <1>2. Owned => SubmittedByItsOwner
    BY DEF Owned
  <1> QED BY <1>1, <1>2, TypedStep, OwnedStep, PTL DEF Spec
-----------------------------------------------------------------------------
(***************************************************************************)
(* A request id stands for one record.  A UUID is drawn once, so whatever  *)
(* has been submitted, is held by a process, or is or may come to be found *)
(* in a file, is one record wherever its id is the same; and a record that *)
(* a process is about to submit for the first time has been submitted by   *)
(* nobody.                                                                 *)
(***************************************************************************)
Known ==
  sent \cup {req[p] : p \in Procs} \cup {file[f].now : f \in Files}
    \cup UNION {PF!AfterLoss(file[f]) : f \in Files}

KnownRecords == Known \cap Request

IdsDrawn == \A r \in KnownRecords : r.id \in drawn

IdsUnique == \A r, s \in KnownRecords : r.id = s.id => r = s

(* A process that has not submitted yet the definition it created.  (What  *)
(* `pipeline run` is about to submit, another process may have found in    *)
(* the file and submitted.)                                                *)
Unsubmitted(p) ==
  /\ pc[p] \in {"create", "write", "sync", "syncdir", "send"}
  /\ req[p].kind = "definition"

FirstSubmissions ==
  \A p \in Procs : Unsubmitted(p) =>
    /\ req[p] \notin sent
    /\ \A q \in Procs : q # p /\ Unsubmitted(q) => req[q].id # req[p].id

Identified == IdsDrawn /\ IdsUnique /\ FirstSubmissions

LEMMA IdentifiedInit == Init => Identified
  <1> SUFFICES ASSUME Init PROVE Identified
    OBVIOUS
  <1>1. KnownRecords = {}
    BY Distinct DEF Init, KnownRecords, Known, PF!Settled, PF!AfterLoss
  <1> QED BY <1>1 DEF Init, Identified, IdsDrawn, IdsUnique, FirstSubmissions, Unsubmitted

(* A record gets into a file from a process, to a process from a file, and *)
(* to the server from a process: none is new to the system but the one a   *)
(* review makes.                                                           *)
LEMMA KnownStep ==
  ASSUME IInv, Next
  PROVE  \/ KnownRecords' \subseteq KnownRecords /\ drawn' = drawn
         \/ \E p \in Procs, id \in Ids :
              /\ ReviewNew(p, id)
              /\ KnownRecords' \subseteq KnownRecords \cup {NewRequest(job[p], id)}
  <1> USE DEF IInv, Typed, TypeOK, At, GoTo, End, server, history, cli, HoldsRequest
  <1> DEFINE Same == UNCHANGED <<file, sent, drawn>>
  <1>1. ASSUME NEW p \in Procs, Cli(p), Same,
               req'[p] \in {req[p], NoRequest} \cup {file[f].now : f \in Files},
               \A q \in Procs \ {p} : req'[q] = req[q]
        PROVE  KnownRecords' \subseteq KnownRecords /\ drawn' = drawn
    <2>1. \A q \in Procs : req'[q] \in Request => req'[q] \in Known
      BY <1>1, Distinct DEF Known
    <2>2. KnownRecords' \subseteq KnownRecords
      BY <1>1, <2>1 DEF Known, KnownRecords
    <2> QED BY <1>1, <2>2
  <1>2. ASSUME NEW p \in Procs, NEW f \in Files, f = job[p].file,
               \A g \in Files \ {f} : file'[g] = file[g],
               {file'[f].now} \cup PF!AfterLoss(file'[f])
                 \subseteq {file[f].now, req[p], Partial} \cup PF!AfterLoss(file[f]),
               UNCHANGED <<req, sent, drawn>>
        PROVE  KnownRecords' \subseteq KnownRecords /\ drawn' = drawn
    <2>1. \A g \in Files : \A c \in {file'[g].now} \cup PF!AfterLoss(file'[g]) :
            c \in Request => c \in Known
      <3> SUFFICES ASSUME NEW g \in Files, NEW c \in Request,
                          c \in {file'[g].now} \cup PF!AfterLoss(file'[g])
                   PROVE  c \in Known
        OBVIOUS
      <3>1. c \in {file[g].now, req[p]} \cup PF!AfterLoss(file[g])
        <4>1. CASE g = f
          BY <1>2, <4>1, Distinct
        <4>2. CASE g # f
          BY <1>2, <4>2
        <4> QED BY <4>1, <4>2
      <3> QED BY <3>1 DEF Known
    <2>2. KnownRecords' \subseteq KnownRecords
      BY <1>2, <2>1 DEF Known, KnownRecords
    <2> QED BY <1>2, <2>2
  <1>3. ASSUME NEW p \in Procs, Cli(p)
        PROVE  \/ KnownRecords' \subseteq KnownRecords /\ drawn' = drawn
               \/ \E id \in Ids :
                    /\ ReviewNew(p, id)
                    /\ KnownRecords' \subseteq KnownRecords \cup {NewRequest(job[p], id)}
    <2>1. ASSUME NEW j \in Jobs, Begin(p, j)
          PROVE  KnownRecords' \subseteq KnownRecords /\ drawn' = drawn
      BY <1>1, <1>3, <2>1 DEF Begin
    <2>2. CASE ReadAbsent(p) \/ RecoverNothing(p) \/ ReviewRetained(p)
      BY <1>1, <1>3, <2>2 DEF ReadAbsent, RecoverNothing, ReviewRetained
    <2>3. CASE ReadRecord(p)
      <3>1. job[p].file \in Files
        BY <2>3 DEF ReadRecord, Jobs
      <3> QED BY <1>1, <1>3, <2>3, <3>1 DEF ReadRecord
    <2>4. CASE RecoverRun(p) \/ Answer(p) \/ Stop(p)
      BY <1>1, <1>3, <2>4 DEF RecoverRun, Answer, Stop
    <2>5. ASSUME NEW id \in Ids, ReviewNew(p, id)
          PROVE  KnownRecords' \subseteq KnownRecords \cup {NewRequest(job[p], id)}
      BY <2>5 DEF ReviewNew, Known, KnownRecords
    <2>6. CASE CreateFile(p) \/ WriteRecord(p) \/ SyncRecord(p) \/ SyncDir(p)
      <3>1. job[p].file \in Files /\ file \in [Files -> PF!FileOver(Request)]
        BY <2>6 DEF CreateFile, WriteRecord, SyncRecord, SyncDir, FileStep, Jobs
      <3>2. CASE CreateFile(p)
        BY <1>2, <3>1, <3>2 DEF CreateFile, FileStep, PF!Create, PF!AfterLoss
      <3>3. CASE WriteRecord(p)
        BY <1>2, <3>1, <3>3 DEF WriteRecord, FileStep, PF!Written, PF!AfterLoss
      <3>4. CASE SyncRecord(p)
        BY <1>2, <3>1, <3>4 DEF SyncRecord, FileStep, PF!Synced, PF!AfterLoss, PF!FileOver
      <3>5. CASE SyncDir(p)
        BY <1>2, <3>1, <3>5 DEF SyncDir, FileStep, PF!ParentSynced, PF!AfterLoss, PF!FileOver
      <3> QED BY <2>6, <3>2, <3>3, <3>4, <3>5
    <2>7. CASE Send(p)
      BY <2>7 DEF Send, Known, KnownRecords
    <2> QED BY <1>3, <2>1, <2>2, <2>3, <2>4, <2>5, <2>6, <2>7 DEF Cli
  <1>4. CASE ControlPlane
    BY <1>4 DEF ControlPlane, Reserve, Engine, EditTarget, Known, KnownRecords
  <1>5. CASE PowerLoss
    <2>1. /\ \A f \in Files : {file'[f].now} \cup PF!AfterLoss(file'[f])
                               \subseteq PF!AfterLoss(file[f])
          /\ \A p \in Procs : req'[p] = NoRequest
          /\ UNCHANGED <<sent, drawn>>
      BY <1>5 DEF PowerLoss, PF!Settled, PF!AfterLoss
    <2> QED BY <2>1, Distinct DEF Known, KnownRecords
  <1> QED BY <1>3, <1>4, <1>5 DEF Next

LEMMA IdentifiedStep == IInv /\ Identified /\ [Next]_vars => Identified'
  <1> SUFFICES ASSUME IInv, Identified, [Next]_vars PROVE Identified'
    OBVIOUS
  <1>1. /\ pc \in [Procs -> Stages] /\ job \in [Procs -> Jobs \cup {NoJob}]
        /\ req \in [Procs -> Request \cup {NoRequest}] /\ HoldsRequest
        /\ sent \subseteq Request
    BY DEF IInv, Typed, TypeOK
  <1>2. \A p \in Procs : req[p] \in Request => req[p] \in KnownRecords
    BY DEF Known, KnownRecords
  <1>3. sent \subseteq KnownRecords
    BY <1>1 DEF Known, KnownRecords
  <1>4. \A p \in Procs : Unsubmitted(p) => req[p] \in Request
    BY <1>1 DEF Unsubmitted, HoldsRequest, Holders
  <1> USE DEF At, GoTo, End, server, history, cli
  <1>5. CASE \E p \in Procs, id \in Ids :
               /\ ReviewNew(p, id)
               /\ KnownRecords' \subseteq KnownRecords \cup {NewRequest(job[p], id)}
    <2>1. PICK p \in Procs, id \in Ids :
            /\ ReviewNew(p, id)
            /\ KnownRecords' \subseteq KnownRecords \cup {NewRequest(job[p], id)}
      BY <1>5
    <2>2. /\ NewRequest(job[p], id).id = id
          /\ id \notin drawn /\ drawn' = drawn \cup {id} /\ sent' = sent
          /\ pc' = [pc EXCEPT ![p] = "create"]
          /\ req' = [req EXCEPT ![p] = NewRequest(job[p], id)]
      BY <2>1 DEF ReviewNew, NewRequest
    <2>3. \A r \in KnownRecords : r.id # id
      BY <2>2 DEF Identified, IdsDrawn
    <2>4. IdsDrawn' /\ IdsUnique'
      BY <2>1, <2>2, <2>3 DEF Identified, IdsDrawn, IdsUnique
    <2>5. \A q \in Procs \ {p} : pc'[q] = pc[q] /\ req'[q] = req[q]
      BY <1>1, <2>2
    <2>6. req'[p].id = id /\ req'[p] \notin sent
      BY <1>1, <1>3, <2>2, <2>3
    <2>7. \A q \in Procs \ {p} : Unsubmitted(q)' => Unsubmitted(q) /\ req'[q].id # id
      BY <1>2, <1>4, <2>3, <2>5 DEF Unsubmitted
    <2>8. FirstSubmissions'
      BY <2>2, <2>5, <2>6, <2>7 DEF Identified, FirstSubmissions
    <2> QED BY <2>4, <2>8 DEF Identified
  <1>6. CASE KnownRecords' \subseteq KnownRecords /\ drawn' = drawn
    <2>1. IdsDrawn' /\ IdsUnique'
      BY <1>6 DEF Identified, IdsDrawn, IdsUnique
    <2>2. ASSUME sent' = sent,
                 \A p \in Procs : Unsubmitted(p)' => Unsubmitted(p) /\ req'[p] = req[p]
          PROVE  FirstSubmissions'
      BY <2>2 DEF Identified, FirstSubmissions
    <2>3. ASSUME NEW p \in Procs, Cli(p)
          PROVE  FirstSubmissions'
      <3> USE DEF Unsubmitted
      <3>1. ASSUME NEW j \in Jobs, Begin(p, j) PROVE FirstSubmissions'
        BY <1>1, <2>2, <3>1 DEF Begin
      <3>2. CASE ReadAbsent(p) \/ RecoverNothing(p)
        BY <1>1, <2>2, <3>2 DEF ReadAbsent, RecoverNothing
      <3>3. CASE ReadRecord(p)
        BY <1>1, <2>2, <3>3 DEF ReadRecord
      <3>4. CASE RecoverRun(p) \/ Answer(p) \/ Stop(p)
        BY <1>1, <2>2, <3>4 DEF RecoverRun, Answer, Stop
      <3>5. ASSUME NEW id \in Ids, ReviewNew(p, id) PROVE FirstSubmissions'
        BY <1>6, <3>5 DEF ReviewNew
      <3>6. CASE ReviewRetained(p)
        <4>1. req[p].kind # "definition"
          BY <3>6 DEF ReviewRetained, IInv, DefinitionsDurable
        <4> QED BY <1>1, <2>2, <3>6, <4>1 DEF ReviewRetained
      <3>7. CASE CreateFile(p) \/ WriteRecord(p) \/ SyncRecord(p) \/ SyncDir(p)
        BY <1>1, <2>2, <3>7 DEF CreateFile, WriteRecord, SyncRecord, SyncDir, FileStep
      <3>8. CASE Send(p)
        <4>1. /\ pc[p] = "send" /\ pc' = [pc EXCEPT ![p] = "await"] /\ req' = req
              /\ sent' = sent \cup {req[p]} /\ req[p] \in Request
          BY <1>1, <3>8 DEF Send, HoldsRequest, Holders
        <4>2. ASSUME NEW q \in Procs, Unsubmitted(q)' PROVE q # p /\ Unsubmitted(q)
          BY <1>1, <4>1, <4>2
        <4>3. ASSUME NEW q \in Procs, Unsubmitted(q)' PROVE req[q] # req[p]
          BY <4>1, <4>2, <4>3 DEF Identified, FirstSubmissions
        <4> QED BY <4>1, <4>2, <4>3 DEF Identified, FirstSubmissions
      <3> QED BY <2>3, <3>1, <3>2, <3>3, <3>4, <3>5, <3>6, <3>7, <3>8 DEF Cli
    <2>4. CASE ControlPlane \/ UNCHANGED vars
      <3>1. UNCHANGED <<pc, req, sent>>
        BY <2>4 DEF ControlPlane, Reserve, Engine, EditTarget, vars
      <3> QED BY <2>1, <2>2, <3>1 DEF Unsubmitted, Identified
    <2>5. CASE PowerLoss
      <3>1. sent' = sent /\ \A p \in Procs : pc'[p] = "idle"
        BY <2>5 DEF PowerLoss
      <3> QED BY <2>1, <2>2, <3>1 DEF Unsubmitted, Identified
    <2> QED BY <2>1, <2>3, <2>4, <2>5 DEF Next, Identified
  <1>7. CASE UNCHANGED vars
    BY <1>7 DEF vars, Identified, IdsDrawn, IdsUnique, FirstSubmissions, Unsubmitted,
                KnownRecords, Known
  <1> QED BY <1>5, <1>6, <1>7, KnownStep

LEMMA IdentifiedAlways == Spec => []Identified
  BY IdentifiedInit, IdentifiedStep, IInvAlways, PTL DEF Spec

(* However often a definition start is repeated, its inputs are submitted  *)
(* once.                                                                   *)
THEOREM NeverResubmitted == Spec => []DefinitionNeverResubmitted
  <1> DEFINE P == DefinitionNeverResubmitted
  <1>1. Init => P
    BY DEF Init, DefinitionNeverResubmitted, OfKind
  <1>2. IInv /\ Identified /\ P /\ [Next]_vars => P'
    <2> SUFFICES ASSUME IInv, Identified, P, [Next]_vars PROVE P'
      OBVIOUS
    <2>1. CASE \E p \in Procs : Send(p)
      <3>1. PICK p \in Procs : Send(p)
        BY <2>1
      <3>2. /\ pc[p] = "send" /\ resent' = resent \cup ({req[p]} \cap sent)
        BY <3>1 DEF Send, At
      <3>3. req[p].kind = "definition" => req[p] \notin sent
        BY <3>2 DEF Identified, FirstSubmissions, Unsubmitted
      <3> QED BY <3>2, <3>3 DEF DefinitionNeverResubmitted, OfKind
    <2>2. CASE ~ \E p \in Procs : Send(p)
      <3>1. resent' = resent
        BY <2>2 DEF Next, Cli, ControlPlane, Begin, ReadAbsent, ReadRecord, RecoverRun,
           RecoverNothing, ReviewNew, ReviewRetained, CreateFile, WriteRecord,
           SyncRecord, SyncDir, FileStep, Answer, Stop, Reserve, Engine, EditTarget,
           PowerLoss, history, vars
      <3> QED BY <3>1 DEF DefinitionNeverResubmitted, OfKind
    <2> QED BY <2>1, <2>2
  <1> QED BY <1>1, <1>2, IInvAlways, IdentifiedAlways, PTL DEF Spec

(* The run an answer establishes for a request that is held is the run of  *)
(* that very request: no two requests share an id.                         *)
LEMMA EstablishedIsOwn ==
  ASSUME IInv, Identified, NEW p \in Procs, pc[p] \in Holders,
         NEW run \in runs, Establishes(run, req[p])
  PROVE  run = req[p]
  <1>1. run \in sent /\ run \in Request /\ req[p] \in Request
    BY DEF IInv, Sources, Typed, TypeOK, HoldsRequest
  <1>2. run \in KnownRecords /\ req[p] \in KnownRecords
    BY <1>1 DEF KnownRecords, Known
  <1> QED BY <1>2 DEF Establishes, Identified, IdsUnique

(* A command that reports success has seen its own request taken, by the   *)
(* engine or, for an installation, by the server.                          *)
THEOREM SuccessIsTrue == Spec => []SuccessMeansSubmitted
  <1> DEFINE P == SuccessMeansSubmitted
  <1>1. Init => P
    BY DEF Init, SuccessMeansSubmitted
  <1>2. IInv /\ Identified /\ P /\ [Next]_vars => P'
    <2> SUFFICES ASSUME IInv, Identified, P, [Next]_vars PROVE P'
      OBVIOUS
    <2>1. runs \subseteq runs' /\ submitted \subseteq submitted'
      BY DEF Next, Cli, ControlPlane, Begin, ReadAbsent, ReadRecord, RecoverRun,
         RecoverNothing, ReviewNew, ReviewRetained, CreateFile, WriteRecord, Send,
         SyncRecord, SyncDir, FileStep, Answer, Stop, Reserve, Engine, EditTarget,
         PowerLoss, server, vars
    <2>2. ASSUME NEW p \in Procs, pc[p] \in Holders, NEW run \in runs,
                 Establishes(run, req[p]), Confirmed(run)
          PROVE  req[p] \in runs /\ (req[p].kind # "install" => req[p] \in submitted)
      <3>1. run = req[p]
        BY <2>2, EstablishedIsOwn
      <3> QED BY <2>2, <3>1 DEF Confirmed
    <2>3. ASSUME NEW p \in Procs, RecoverRun(p) \/ Answer(p), receipts' # receipts
          PROVE  /\ receipts' = receipts \cup {req[p]}
                 /\ req[p] \in runs /\ (req[p].kind # "install" => req[p] \in submitted)
      BY <2>2, <2>3 DEF RecoverRun, Answer, At, Holders
    <2>4. \/ receipts' = receipts
          \/ \E p \in Procs : RecoverRun(p) \/ Answer(p)
      BY DEF Next, Cli, ControlPlane, Begin, ReadAbsent, ReadRecord,
         RecoverNothing, ReviewNew, ReviewRetained, CreateFile, WriteRecord, Send,
         SyncRecord, SyncDir, FileStep, Stop, Reserve, Engine, EditTarget,
         PowerLoss, vars
    <2> QED BY <2>1, <2>3, <2>4 DEF SuccessMeansSubmitted
  <1> QED BY <1>1, <1>2, IInvAlways, IdentifiedAlways, PTL DEF Spec
=============================================================================
