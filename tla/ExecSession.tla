---------------------------- MODULE ExecSession ----------------------------
(***************************************************************************)
(* One exec session: runExec (cmd/exec.go), which `astro exec`, `app exec` *)
(* and the box commands share.  The client opens a command in a container  *)
(* over a WebSocket relay.  Its main goroutine reads frames; two more pump *)
(* stdin and forward interrupts, all writing through one mutex.  With      *)
(* --environment the session is reviewed: nothing is sent but the open     *)
(* frame until the relay has admitted the reviewed target.                 *)
(*                                                                         *)
(* A write is one frame, atomic under writeMu.  The relay and the remote   *)
(* command are modelled from the frames the client expects of them; the    *)
(* connection may break at any moment.                                     *)
(***************************************************************************)
EXTENDS Naturals, Sequences

CONSTANTS
  MaxInput,     \* bound: reads of stdin that return data
  MaxOutput,    \* bound: output frames
  MaxSignals,   \* bound: interrupts
  Codes,        \* exit codes of the remote command
  Zero,         \* the one that means success
  NoCode        \* none yet

ASSUME Bounds == {MaxInput, MaxOutput, MaxSignals} \subseteq Nat
ASSUME ZeroIsACode == Zero \in Codes /\ {NoCode, "none", "error"} \cap Codes = {}

VARIABLES
  reviewed,     \* --environment was given
  tty,          \* stdin is a terminal, and --no-tty was not given
  pc,           \* main goroutine: "dialed", "reading", "ended"
  raw,          \* the terminal is in raw mode
  session,      \* sessionID is set
  started,      \* startIO has run
  pendingExit,  \* an exit frame that came before the admission
  printed,      \* output frames written to the terminal
  result,       \* how runExec ended: "ok", a code, or "error"
  pump,         \* stdin goroutine: "off", "reading", "read", "eof", "done"
  chunk,        \* reads of stdin so far
  last,         \* the last read returned data together with the end of file
  interrupts,   \* the channel of signal.Notify holds a signal
  toRelay,      \* all frames written to the connection
  toClient,     \* frames on their way to the client
  up,           \* the connection is up
  admitted,     \* relay: whether it has answered the reviewed target: "no", "exact", "other"
  remote,       \* remote command: "none", "running", "exited"
  exitCode,     \* relay: the exit code it has sent
  made,         \* output frames the remote command has written
  refused,      \* history: the relay refused, or answered out of protocol
  broken,       \* history: the connection broke
  signals,      \* history: interrupts so far
  killed        \* history: the client was killed by a signal

client == <<pc, raw, session, started, pendingExit, printed, result>>
pumps == <<pump, chunk, last, interrupts>>
relay == <<admitted, remote, exitCode, made, refused>>
world == <<up, broken>>
vars == <<reviewed, tty, client, pumps, toRelay, toClient, world, relay, signals, killed>>

-----------------------------------------------------------------------------
(* writeJSON: the frame carries the session id once that is known.         *)
Frame(type, data) == [type |-> type, data |-> data, session |-> session]

Send(f) == toRelay' = IF up THEN Append(toRelay, f) ELSE toRelay

(* finishExit and the deferred calls: the terminal is restored, the        *)
(* signal handlers are stopped, and the process ends.                      *)
EndWith(r) ==
  /\ pc' = "ended"
  /\ result' = r
  /\ raw' = FALSE
  /\ up' = FALSE

(* A plausible slip: os.Exit runs no deferred call. *)
FinishExitUnrestored(code) ==
  /\ pc' = "ended"
  /\ result' = code
  /\ raw' = IF code = Zero THEN FALSE ELSE raw
  /\ up' = FALSE

FinishExit(code) == EndWith(code)

(* startIO: a resize frame, then the two goroutines. *)
StartIO ==
  /\ started' = TRUE
  /\ pump' = "reading"
  /\ IF tty THEN Send([type |-> "resize", data |-> 0, session |-> session'])
            ELSE UNCHANGED toRelay

(* A plausible slip: input is started without waiting for the admission. *)
OpenStarted ==
  /\ pc = "dialed"
  /\ pc' = "reading"
  /\ started' = ~reviewed /\ pump' = "reading"
  /\ Send(Frame("open", 0))
  /\ UNCHANGED <<reviewed, tty, raw, session, pendingExit, printed, result, chunk,
                 last, interrupts, toClient, world, relay, signals, killed>>

(* The open frame, and for a session that is not reviewed the rest at once. *)
Open ==
  /\ pc = "dialed"
  /\ pc' = "reading"
  /\ started' = ~reviewed
  /\ pump' = IF reviewed THEN "off" ELSE "reading"
  /\ toRelay' = IF ~up THEN toRelay
                ELSE toRelay \o <<Frame("open", 0)>>
                       \o (IF tty /\ ~reviewed THEN <<Frame("resize", 0)>> ELSE <<>>)
  /\ UNCHANGED <<reviewed, tty, raw, session, pendingExit, printed, result, chunk,
                 last, interrupts, toClient, world, relay, signals, killed>>

Arrives(type) == pc = "reading" /\ toClient # <<>> /\ Head(toClient).type = type

Quiet ==
  UNCHANGED <<reviewed, tty, chunk, last, interrupts, broken, relay, signals, killed>>

(* "ready" of a reviewed session: the reviewed target and no other, once.  *)
ReadReady ==
  /\ Arrives("ready")
  /\ toClient' = Tail(toClient)
  /\ IF ~reviewed THEN UNCHANGED <<client, pump, toRelay, up>>
     ELSE IF started \/ Head(toClient).data # "exact"
     THEN /\ EndWith("error")
          /\ UNCHANGED <<session, started, pendingExit, printed, pump, toRelay>>
     ELSE /\ session' = TRUE
          /\ IF pendingExit # NoCode
             THEN /\ FinishExit(pendingExit)
                  /\ UNCHANGED <<started, pump, toRelay>>
             ELSE /\ StartIO
                  /\ UNCHANGED <<pc, raw, result, up>>
          /\ UNCHANGED <<pendingExit, printed>>
  /\ Quiet

ReadOutput ==
  /\ Arrives("output")
  /\ toClient' = Tail(toClient)
  /\ printed' = Append(printed, Head(toClient).data)
  /\ UNCHANGED <<pc, raw, session, started, pendingExit, result, pump, toRelay, up>>
  /\ Quiet

(* An error frame ends a reviewed session only. *)
ReadError ==
  /\ Arrives("error")
  /\ toClient' = Tail(toClient)
  /\ IF reviewed THEN EndWith("error") ELSE UNCHANGED <<pc, result, raw, up>>
  /\ UNCHANGED <<session, started, pendingExit, printed, pump, toRelay>>
  /\ Quiet

(* A plausible slip: an exit is taken at its word before the admission. *)
ReadExitAtOnce ==
  /\ Arrives("exit")
  /\ toClient' = Tail(toClient)
  /\ FinishExit(Head(toClient).data)
  /\ UNCHANGED <<session, started, pendingExit, printed, pump, toRelay>>
  /\ Quiet

(* A command may end before its session is admitted: the exit is kept.     *)
ReadExit ==
  /\ Arrives("exit")
  /\ toClient' = Tail(toClient)
  /\ IF reviewed /\ ~started
     THEN pendingExit' = Head(toClient).data /\ UNCHANGED <<pc, result, raw, up>>
     ELSE FinishExit(Head(toClient).data) /\ UNCHANGED pendingExit
  /\ UNCHANGED <<session, started, printed, pump, toRelay>>
  /\ Quiet

(* ReadMessage fails once everything received has been read. *)
ReadFails ==
  /\ pc = "reading" /\ toClient = <<>> /\ ~up
  /\ EndWith("error")
  /\ UNCHANGED <<session, started, pendingExit, printed, pump, toRelay, toClient>>
  /\ Quiet

(* A plausible slip: the deadline is lifted by an early exit. *)
DeadlineUntilExit ==
  /\ pc = "reading" /\ reviewed /\ ~session /\ pendingExit = NoCode
  /\ EndWith("error")
  /\ UNCHANGED <<session, started, pendingExit, printed, pump, toRelay, toClient>>
  /\ Quiet

(* The read deadline of a session that waits for its admission, 30 s. *)
Deadline ==
  /\ pc = "reading" /\ reviewed /\ ~session
  /\ EndWith("error")
  /\ UNCHANGED <<session, started, pendingExit, printed, pump, toRelay, toClient>>
  /\ Quiet

-----------------------------------------------------------------------------
(* The stdin goroutine. *)
PumpRead ==
  /\ pc # "ended" /\ pump = "reading"
  /\ \/ /\ chunk < MaxInput
        /\ chunk' = chunk + 1 /\ last' \in BOOLEAN /\ pump' = "read"
     \/ pump' = "eof" /\ UNCHANGED <<chunk, last>>
  /\ UNCHANGED <<reviewed, tty, client, interrupts, toRelay, toClient, world, relay,
                 signals, killed>>

(* A plausible slip: the error is looked at before the data. *)
PumpSendUnlessLast ==
  /\ pc # "ended" /\ pump = "read"
  /\ IF last THEN pump' = "eof" /\ UNCHANGED toRelay
     ELSE pump' = "reading" /\ Send(Frame("stdin", chunk))
  /\ UNCHANGED <<reviewed, tty, client, chunk, last, interrupts, toClient, world, relay,
                 signals, killed>>

(* What was read is sent even if the read also returned the end of file; a *)
(* failed write ends the goroutine.                                        *)
PumpSend ==
  /\ pc # "ended" /\ pump = "read"
  /\ pump' \in {IF last THEN "eof" ELSE "reading"} \cup (IF up THEN {} ELSE {"done"})
  /\ Send(Frame("stdin", chunk))
  /\ UNCHANGED <<reviewed, tty, client, chunk, last, interrupts, toClient, world, relay,
                 signals, killed>>

(* A plausible slip: the end of stdin closes the session. *)
PumpClose ==
  /\ pc # "ended" /\ pump = "eof"
  /\ pump' = "done"
  /\ Send(Frame("close", 0))
  /\ UNCHANGED <<reviewed, tty, client, chunk, last, interrupts, toClient, world, relay,
                 signals, killed>>

(* The end of stdin half-closes: output and exit are still to come.        *)
PumpEof ==
  /\ pc # "ended" /\ pump = "eof"
  /\ pump' = "done"
  /\ Send(Frame("stdin_eof", 0))
  /\ UNCHANGED <<reviewed, tty, client, chunk, last, interrupts, toClient, world, relay,
                 signals, killed>>

(* Handlers are installed by startIO, in an interactive session only.      *)
Trapped == tty /\ started

(* An interrupt is trapped, merging with one that is not yet forwarded, or *)
(* kills the client as it stands.                                          *)
Interrupt ==
  /\ pc # "ended" /\ signals < MaxSignals
  /\ signals' = signals + 1
  /\ IF Trapped
     THEN interrupts' = TRUE /\ UNCHANGED <<pc, up, killed>>
     ELSE pc' = "ended" /\ up' = FALSE /\ killed' = TRUE /\ UNCHANGED interrupts
  /\ UNCHANGED <<reviewed, tty, raw, session, started, pendingExit, printed, result, pump,
                 chunk, last, toRelay, toClient, broken, relay>>

(* The third goroutine: an interrupt becomes the byte 0x03, written as 0.  *)
ForwardInterrupt ==
  /\ pc # "ended" /\ interrupts
  /\ interrupts' = FALSE
  /\ Send(Frame("stdin", 0))
  /\ UNCHANGED <<reviewed, tty, client, pump, chunk, last, toClient, world, relay,
                 signals, killed>>

(* watchResize: the terminal changes its size. *)
Resize ==
  /\ pc # "ended" /\ Trapped /\ signals < MaxSignals
  /\ signals' = signals + 1
  /\ Send(Frame("resize", 0))
  /\ UNCHANGED <<reviewed, tty, client, pumps, toClient, world, relay, killed>>

-----------------------------------------------------------------------------
(* The relay, the remote command and the network. *)
Reply(type, data) == toClient' = Append(toClient, [type |-> type, data |-> data])

(* The relay acts on the frames that start or close a session; the rest it *)
(* hands on to the command.                                                *)
RelayReceive ==
  /\ up
  /\ \E i \in DOMAIN toRelay :
       \/ toRelay[i].type = "open" /\ remote = "none"
          /\ remote' = "running" /\ UNCHANGED up
       \/ toRelay[i].type = "close"
          /\ up' = FALSE /\ UNCHANGED remote
  /\ UNCHANGED <<reviewed, tty, client, pumps, toRelay, toClient, broken, admitted, exitCode,
                 made, refused, signals, killed>>

RelayReady(verdict) ==
  /\ up /\ remote # "none" /\ admitted = "no"
  /\ admitted' = verdict
  /\ Reply("ready", verdict)
  /\ UNCHANGED <<reviewed, tty, client, pumps, toRelay, world, remote, exitCode, made,
                 refused, signals, killed>>

(* An error, a close without an exit, or a second admission. *)
RelayRefuse ==
  /\ up /\ ~refused
  /\ refused' = TRUE
  /\ \/ Reply("error", 0) /\ UNCHANGED up
     \/ admitted # "no" /\ Reply("ready", "exact") /\ UNCHANGED up
     \/ up' = FALSE /\ UNCHANGED toClient
  /\ UNCHANGED <<reviewed, tty, client, pumps, toRelay, broken, admitted, remote,
                 exitCode, made, signals, killed>>

RemoteOutput ==
  /\ up /\ remote = "running" /\ made < MaxOutput
  /\ made' = made + 1
  /\ Reply("output", made')
  /\ UNCHANGED <<reviewed, tty, client, pumps, toRelay, world, admitted, remote,
                 exitCode, refused, signals, killed>>

RemoteExit(code) ==
  /\ up /\ remote = "running"
  /\ remote' = "exited" /\ exitCode' = code
  /\ Reply("exit", code)
  /\ UNCHANGED <<reviewed, tty, client, pumps, toRelay, world, admitted, made,
                 refused, signals, killed>>

(* The connection breaks, and frames on their way are lost with it. *)
Break ==
  /\ up
  /\ up' = FALSE /\ broken' = TRUE
  /\ \E n \in 0 .. Len(toClient) : toClient' = SubSeq(toClient, 1, n)
  /\ UNCHANGED <<reviewed, tty, client, pumps, toRelay, relay, signals, killed>>

-----------------------------------------------------------------------------
Init ==
  /\ reviewed \in BOOLEAN /\ tty \in BOOLEAN
  /\ pc = "dialed" /\ raw \in (IF tty THEN BOOLEAN ELSE {FALSE})
  /\ session = FALSE /\ started = FALSE /\ pendingExit = NoCode
  /\ printed = <<>> /\ result = "none"
  /\ pump = "off" /\ chunk = 0 /\ last = FALSE /\ interrupts = FALSE
  /\ toRelay = <<>> /\ toClient = <<>> /\ up = TRUE /\ broken = FALSE
  /\ admitted = "no" /\ remote = "none" /\ exitCode = NoCode
  /\ made = 0 /\ refused = FALSE /\ signals = 0 /\ killed = FALSE

Main ==
  \/ Open
  \/ ReadReady
  \/ ReadOutput
  \/ ReadError
  \/ ReadExit
  \/ ReadFails
  \/ Deadline

Goroutines ==
  \/ PumpRead
  \/ PumpSend
  \/ PumpEof
  \/ ForwardInterrupt

World ==
  \/ Interrupt
  \/ Resize
  \/ RelayReceive
  \/ \E verdict \in {"exact", "other"} : RelayReady(verdict)
  \/ RelayRefuse
  \/ RemoteOutput
  \/ \E code \in Codes : RemoteExit(code)
  \/ Break

Next == Main \/ Goroutines \/ World

(* The main goroutine runs, and the time of its deadline comes.            *)
Fairness == WF_vars(Main) /\ WF_vars(Deadline)

Spec == Init /\ [][Next]_vars /\ Fairness

-----------------------------------------------------------------------------
Frames == [type : {"open", "resize", "stdin", "stdin_eof"}, data : 0 .. MaxInput,
           session : BOOLEAN]

(* Every variable holds a value of its type; goroutines run only once      *)
(* startIO has started them.                                               *)
TypeOK ==
  /\ reviewed \in BOOLEAN /\ tty \in BOOLEAN /\ raw \in BOOLEAN
  /\ pc \in {"dialed", "reading", "ended"}
  /\ session \in BOOLEAN /\ started \in BOOLEAN /\ pendingExit \in Codes \cup {NoCode}
  /\ printed \in Seq(1 .. MaxOutput) /\ result \in Codes \cup {"none", "error"}
  /\ pump \in {"off", "reading", "read", "eof", "done"}
  /\ chunk \in 0 .. MaxInput /\ last \in BOOLEAN /\ interrupts \in BOOLEAN
  /\ toRelay \in Seq(Frames)
  /\ \A i \in DOMAIN toClient :
       toClient[i].type \in {"ready", "output", "error", "exit"}
  /\ up \in BOOLEAN /\ broken \in BOOLEAN /\ refused \in BOOLEAN /\ killed \in BOOLEAN
  /\ admitted \in {"no", "exact", "other"} /\ remote \in {"none", "running", "exited"}
  /\ exitCode \in Codes \cup {NoCode} /\ made \in 0 .. MaxOutput
  /\ signals \in 0 .. MaxSignals
  /\ pump # "off" => started

(* "The client waits for the server to admit that target before reading    *)
(* stdin": in a reviewed session nothing but the open frame is sent before *)
(* the relay has admitted the exact target, and all that follows names the *)
(* session it admitted.                                                    *)
InputOnlyAdmitted ==
  reviewed =>
    \A i \in DOMAIN toRelay :
      \/ i = 1 /\ toRelay[i].type = "open"
      \/ admitted = "exact" /\ toRelay[i].session

(* stdin arrives whole and in its order, and its end after all of it,      *)
(* wherever interrupts fall between.                                       *)
InputInOrder ==
  LET data == {i \in DOMAIN toRelay : toRelay[i].type = "stdin" /\ toRelay[i].data # 0}
      sent == IF pump = "read" THEN chunk - 1 ELSE chunk IN
  /\ \A i, j \in data : i < j => toRelay[i].data < toRelay[j].data
  /\ \E n \in 0 .. sent :
       /\ {toRelay[i].data : i \in data} = 1 .. n
       /\ up => n = sent
  /\ \A i, j \in DOMAIN toRelay :
       toRelay[i].type = "stdin_eof" /\ toRelay[j].type = "stdin" /\ i < j =>
         toRelay[j].data = 0

(* A session that reports an exit reports the remote command's own, after  *)
(* all the output it made, and of the reviewed target if there is one.     *)
ExitIsTheCommands ==
  result \in Codes =>
    /\ remote = "exited" /\ result = exitCode
    /\ printed = [i \in 1 .. made |-> i]
    /\ reviewed => admitted = "exact"

(* An admitted session fails only when the relay or the connection does:   *)
(* the end of stdin, an interrupt or an early exit does not cut it short.  *)
OnlyFailuresFail == result = "error" => broken \/ refused \/ (reviewed /\ ~started)

(* What is typed reaches the reviewed target alone, whole and in order.    *)
InputArrives == InputOnlyAdmitted /\ InputInOrder

(* What is reported of the end is what happened: a code is the remote      *)
(* command's, and an error one of the relay, the connection or the wait    *)
(* for the admission.                                                      *)
EndIsTrue == ExitIsTheCommands /\ OnlyFailuresFail

(* However the client ends, unless a signal kills it, the terminal is back *)
(* in the mode it was in.                                                  *)
TerminalRestored == pc = "ended" => ~raw \/ killed

(* A reviewed session does not wait for its admission for ever.            *)
AdmissionBounded == reviewed ~> (started \/ pc = "ended")
=============================================================================
