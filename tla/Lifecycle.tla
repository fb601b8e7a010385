------------------------------ MODULE Lifecycle ------------------------------
(***************************************************************************)
(* The life of the programs in cmd: l2_switch, wcmp and example (main of   *)
(* each, with pkg/signals).  They become the primary client in time, set   *)
(* the pipeline, make their entries, stop at a signal, clean up, and are   *)
(* started again, or another of them is, against the same switch after an  *)
(* end of any kind.                                                        *)
(*                                                                         *)
(* Goroutines: main, the one that ranges over arbitrationCh (waiter), the  *)
(* one that waits for signals, and Run with its receiving goroutine, as    *)
(* RunOutside has them.  The switch, external, keeps the                   *)
(* multicast group over a new pipeline (behavioral-model issue 891, which  *)
(* a comment of cleanup refers to); tables it starts empty.                *)
(***************************************************************************)
EXTENDS Naturals

CONSTANTS
  MaxStarts,   \* bound on the starts of a program
  MaxSignals,  \* bound on the signals one process gets
  NumGroups,   \* the test groups of wcmp (100)
  MessageCap   \* capacity of messageCh in wcmp (1000)

ASSUME BoundAssumption == MaxStarts \in Nat /\ MaxSignals \in Nat
ASSUME SizeAssumption == NumGroups \in Nat \ {0} /\ MessageCap \in Nat

NotifyCap == 2   \* capacity of notifyCh

VARIABLES
  starts,     \* how often a program was started
  ended,      \* while there is no process: how the last ended, and where main was
  program,    \* the program that runs, "none" when there is no process
  main,       \* the statement main is at, "off" when there is no process
  waiter,     \* "range" | "notify": the goroutine at the end of arbitrationCh
  sent,       \* its variable of that name
  run,        \* "off" | "starting" | "up" | "returned": Run
  receiver,   \* "off" | "recv" | "status" | "message": its receiving goroutine
  status,     \* the arbitration status it hands over
  messageCh,  \* "open" | "closed"
  queued,     \* wcmp: number of messages in messageCh, which nobody takes out
  stopCh,     \* "open" | "closed"
  notifyCh,   \* number of signals it holds
  signalled,  \* number of signals the process got once it had its handler
  i,          \* wcmp: the variable of its loops over the test groups
  failed,     \* wcmp: the groups whose delete it logged an error for
  primary,    \* the switch holds our stream for its primary client
  group,      \* the switch has the multicast group of l2_switch
  groups      \* the test groups in the switch's table wcmp_group

handover == <<waiter, sent, run, receiver, status>>
channels == <<messageCh, queued, stopCh, notifyCh, signalled>>
loop     == <<i, failed>>
past     == <<starts, ended, program>>
switch   == <<primary, group, groups>>
process  == <<program, main, handover, channels, loop>>
vars     == <<starts, ended, process, switch>>

Programs == {"l2_switch", "wcmp", "example"}
Statement ==
  {"off", "capabilities", "wait", "setFwdPipe", "enableDigest", "insertGroup",
   "setDefault", "install", "delete", "ready", "cleanup", "close", "return"}
HowEnded == {"never", "fatal", "signal", "panic", "return"}
TestGroups == 0 .. NumGroups - 1

Init ==
  /\ starts = 0 /\ ended = <<"never", "off">> /\ main = "off" /\ program = "none"
  /\ waiter = "range" /\ sent = FALSE
  /\ run = "off" /\ receiver = "off" /\ status = FALSE
  /\ messageCh = "open" /\ queued = 0
  /\ stopCh = "open" /\ notifyCh = 0 /\ signalled = 0
  /\ i = 0 /\ failed = {}
  /\ primary = FALSE /\ group = FALSE /\ groups = {}

-----------------------------------------------------------------------------
\* The process ends, and with it every goroutine and the connection; what main has
\* deferred does not run here (log.Fatalf, os.Exit and a panic skip it).
End(how) ==
  /\ ended' = <<how, main>> /\ main' = "off" /\ program' = "none"
  /\ waiter' = "range" /\ sent' = FALSE
  /\ run' = "off" /\ receiver' = "off" /\ status' = FALSE
  /\ messageCh' = "open" /\ queued' = 0
  /\ stopCh' = "open" /\ notifyCh' = 0 /\ signalled' = 0
  /\ i' = 0 /\ failed' = {}
  /\ primary' = FALSE
  /\ UNCHANGED starts

\* What the process has put on the switch stays there.
EndHere(how) == End(how) /\ UNCHANGED <<group, groups>>

Start ==
  /\ main = "off" /\ starts < MaxStarts
  /\ main' = "capabilities" /\ starts' = starts + 1 /\ program' \in Programs
  /\ ended' = <<"never", "off">>
  /\ UNCHANGED <<handover, channels, loop, switch>>

\* Capabilities answers: the signal handler, Run, and the goroutines that range over
\* arbitrationCh and, in l2_switch, messageCh are started.
Capabilities ==
  /\ main = "capabilities"
  /\ main' = "wait" /\ run' = "starting"
  /\ UNCHANGED <<past, waiter, sent, receiver, status, channels, loop, switch>>

\* The dial or Capabilities fails, or a signal comes before there is a handler.
CapabilitiesFails ==
  main = "capabilities" /\ \E how \in {"fatal", "signal"} : EndHere(how)

GoTo(statement) ==
  main' = statement /\ UNCHANGED <<past, handover, channels, loop>>

\* <-waitCh wins: main goes on as the primary client.
BecomesPrimary ==
  /\ main = "wait" /\ waiter = "notify"
  /\ main' = "setFwdPipe" /\ waiter' = "range" /\ sent' = TRUE
  /\ UNCHANGED <<past, run, receiver, status, channels, loop, switch>>

\* The five seconds are over; the status may be on its way.
TimesOut == main = "wait" /\ EndHere("fatal")

\* A request of main succeeds only for the primary client.
Request(statement, next) ==
  main = statement /\ primary /\ GoTo(next) /\ UNCHANGED <<primary, group>>

\* Any of them may fail, and the failure ends the program.
RequestFails ==
  main \in {"setFwdPipe", "enableDigest", "insertGroup", "setDefault"} /\ EndHere("fatal")

AfterPipe == CASE program = "l2_switch" -> "enableDigest"
               [] program = "wcmp"      -> "install"
               [] OTHER                 -> "ready"

\* The tables of a new pipeline are empty.
SetFwdPipe == Request("setFwdPipe", AfterPipe) /\ groups' = {}

\* It is set, but the answer is lost with the connection, which ends the program.
SetFwdPipeLost ==
  main = "setFwdPipe" /\ primary /\ groups' = {} /\ UNCHANGED group /\ End("fatal")

\* initialize of l2_switch: the digest, the multicast group, the default of dmac
EnableDigest == Request("enableDigest", "insertGroup") /\ UNCHANGED groups
SetDefault   == Request("setDefault", "ready") /\ UNCHANGED groups

\* Mutant of InsertGroup: a group that is there already is taken for success.
InsertGroupTolerant ==
  /\ main = "insertGroup" /\ primary
  /\ group' = TRUE /\ UNCHANGED <<primary, groups>>
  /\ GoTo("setDefault")

\* The insert fails when the group is there already.  It may also be done, but its
\* answer be lost with the connection, which ends the program.
InsertGroup ==
  /\ main = "insertGroup" /\ primary /\ ~group
  /\ group' = TRUE /\ UNCHANGED groups
  /\ (GoTo("setDefault") /\ UNCHANGED primary) \/ End("fatal")

\* The loops of wcmp over its test groups; what fails in them is only logged.
InLoop(statement, next) ==
  /\ main = statement
  /\ i' = IF i + 1 < NumGroups THEN i + 1 ELSE 0
  /\ main' = IF i + 1 < NumGroups THEN statement ELSE next
  /\ UNCHANGED <<past, handover, channels, primary, group>>

\* insertOneGroup.  A failed insert may have been made, its answer lost.
InstallGroup ==
  /\ InLoop("install", "delete")
  /\ groups' \in (IF primary THEN {groups, groups \cup {i}} ELSE {groups})
  /\ UNCHANGED failed

\* Mutant of DeleteGroup: the last group is forgotten.
DeleteGroupButLast ==
  /\ InLoop("delete", "ready")
  /\ LET done == IF i + 1 < NumGroups THEN groups \ {i} ELSE groups IN
     \/ primary /\ i \in groups /\ groups' = done /\ UNCHANGED failed
     \/ /\ groups' \in (IF primary THEN {groups, done} ELSE {groups})
        /\ failed' = IF i + 1 < NumGroups THEN failed \cup {i} ELSE failed

\* deleteOneGroup, of the group of the same number.  It fails when there is none.
DeleteGroup ==
  /\ InLoop("delete", "ready")
  /\ \/ primary /\ i \in groups /\ groups' = groups \ {i} /\ UNCHANGED failed
     \/ /\ groups' \in (IF primary THEN {groups, groups \ {i}} ELSE {groups})
        /\ failed' = failed \cup {i}

\* What a program has deferred once it is ready: l2_switch its cleanup, wcmp to close
\* messageCh, example neither.
Deferred == CASE program = "l2_switch" -> "cleanup"
              [] program = "wcmp"      -> "close"
              [] OTHER                 -> "return"

\* Mutant of Stop: the deferred calls run in the other order.
StopCloses ==
  /\ main = "ready" /\ stopCh = "closed"
  /\ main' = Deferred /\ messageCh' = "closed"
  /\ UNCHANGED <<past, handover, queued, stopCh, notifyCh, signalled, loop, switch>>

\* <-stopCh, which wcmp comes to when its loops are over; then the deferred calls, last
\* deferred first.
Stop ==
  main = "ready" /\ stopCh = "closed" /\ GoTo(Deferred) /\ UNCHANGED switch

\* Mutant of Cleanup: it insists.
CleanupInsists ==
  /\ main = "cleanup" /\ primary
  /\ group' = FALSE /\ UNCHANGED <<primary, groups>>
  /\ GoTo("close")

\* The delete succeeds, or fails, or its answer does not come within five seconds; an
\* error is only logged.  A client that is not the primary cannot succeed.
Cleanup ==
  /\ main = "cleanup"
  /\ group' \in (IF primary THEN {FALSE, group} ELSE {group})
  /\ UNCHANGED <<primary, groups>>
  /\ GoTo("close")

CloseMessageCh ==
  /\ main = "close" /\ main' = "return" /\ messageCh' = "closed"
  /\ UNCHANGED <<past, handover, queued, stopCh, notifyCh, signalled, loop, switch>>

Return == main = "return" /\ EndHere("return")

-----------------------------------------------------------------------------
(* Run, the receiving goroutine, and the one that ranges over arbitrationCh *)

\* StreamClient implements it: what is shown here holds for the Run that is there.
Outside == INSTANCE RunOutside

RunOpens ==
  /\ Outside!Opens \/ Outside!OpenFails
  /\ UNCHANGED <<past, main, loop, waiter, sent, status, channels, switch>>

\* Run sees stopCh closed and closes its side of the stream; its result is ignored.
RunStops ==
  /\ Outside!ReturnsStopped
  /\ UNCHANGED <<past, main, loop, waiter, sent, receiver, status, channels, switch>>

\* The switch makes us its primary client, or one with a higher election id, and says
\* so on the stream.
Arbitrates(isPrimary) ==
  /\ run = "up" /\ receiver # "off"
  /\ primary' = isPrimary
  /\ UNCHANGED <<starts, ended, process, group, groups>>

\* What it says takes its time: the status may be an older one, and arrive when Run has
\* closed its side.
ReceivesStatus ==
  /\ Outside!Receives /\ receiver' = "status" /\ status' \in BOOLEAN
  /\ UNCHANGED <<past, main, loop, waiter, sent, channels, switch>>

\* Any other message, also after Run has closed its side.
ReceivesMessage ==
  /\ Outside!Receives /\ receiver' = "message"
  /\ UNCHANGED <<past, main, loop, waiter, sent, status, channels, switch>>

\* The switch ends the stream (EOF, which Run is not told of) or the connection is
\* lost, which ends Run.
StreamEnds ==
  /\ Outside!Ends /\ primary' = FALSE
  /\ UNCHANGED <<past, main, loop, waiter, sent, status, channels, group, groups>>

\* The switch notices that Run is gone.
DropsClient ==
  /\ run = "returned" /\ primary /\ primary' = FALSE
  /\ UNCHANGED <<starts, ended, process, group, groups>>

\* Mutant of DeliverStatus: sent is not looked at.
DeliverEveryStatus ==
  /\ receiver = "status" /\ waiter = "range"
  /\ Outside!Delivers /\ waiter' = IF status THEN "notify" ELSE "range"
  /\ UNCHANGED <<past, main, loop, sent, run, status, channels, switch>>

\* The body of the range over arbitrationCh: only the first time that we are primary
\* is main told, on the unbuffered waitCh.
DeliverStatus ==
  /\ receiver = "status" /\ waiter = "range"
  /\ Outside!Delivers /\ waiter' = IF status /\ ~sent THEN "notify" ELSE "range"
  /\ UNCHANGED <<past, main, loop, sent, run, status, channels, switch>>

\* There is room in messageCh: l2_switch has its handler (L2Learning) take messages
\* out, wcmp has nobody do so, example has no messageCh, and sending on nil waits for
\* ever.
HasRoom == program = "l2_switch" \/ (program = "wcmp" /\ queued < MessageCap)

\* messageCh <- in.  Sending on a closed channel panics, also if it has waited for room.
DeliverMessage ==
  /\ receiver = "message"
  /\ \/ messageCh = "closed" /\ EndHere("panic")
     \/ /\ messageCh = "open" /\ HasRoom
        /\ Outside!Delivers
        /\ queued' = IF program = "wcmp" THEN queued + 1 ELSE queued
        /\ UNCHANGED <<past, main, loop, waiter, sent, run, status,
                       messageCh, stopCh, notifyCh, signalled, switch>>

-----------------------------------------------------------------------------
(* pkg/signals                                                              *)

HasHandler == main \notin {"off", "capabilities"}

\* Mutant of Signal: room for one signal only.
SignalOrDrop ==
  /\ HasHandler /\ signalled < MaxSignals
  /\ signalled' = signalled + 1
  /\ notifyCh' = 1
  /\ UNCHANGED <<past, main, loop, handover, messageCh, queued, stopCh, switch>>

\* signal.Notify never waits: a signal that finds notifyCh full is dropped.
Signal ==
  /\ HasHandler /\ signalled < MaxSignals
  /\ signalled' = signalled + 1
  /\ notifyCh' = IF notifyCh < NotifyCap THEN notifyCh + 1 ELSE notifyCh
  /\ UNCHANGED <<past, main, loop, handover, messageCh, queued, stopCh, switch>>

\* The first signal closes stopCh, the second one ends the process.
FirstSignal ==
  /\ notifyCh > 0 /\ stopCh = "open"
  /\ notifyCh' = notifyCh - 1 /\ stopCh' = "closed"
  /\ UNCHANGED <<past, main, loop, handover, messageCh, queued, signalled, switch>>

SecondSignal == notifyCh > 0 /\ stopCh = "closed" /\ EndHere("signal")

-----------------------------------------------------------------------------
Main ==
  \/ Start \/ Capabilities \/ CapabilitiesFails \/ BecomesPrimary \/ TimesOut
  \/ SetFwdPipe \/ SetFwdPipeLost \/ EnableDigest \/ InsertGroup \/ SetDefault \/ RequestFails
  \/ InstallGroup \/ DeleteGroup
  \/ Stop \/ Cleanup \/ CloseMessageCh \/ Return

Stream ==
  \/ RunOpens \/ RunStops \/ (\E isPrimary \in BOOLEAN : Arbitrates(isPrimary))
  \/ ReceivesStatus \/ ReceivesMessage \/ StreamEnds \/ DropsClient \/ DeliverStatus \/ DeliverMessage

Signals == Signal \/ FirstSignal \/ SecondSignal

Next == Main \/ Stream \/ Signals

Spec == Init /\ [][Next]_vars

(***************************************************************************)
(* The goroutines run, and the two waits that have a deadline end.  The    *)
(* requests of main before it is ready have none: nothing is assumed of    *)
(* them, nor of the stream, the signals and the starts.                    *)
(***************************************************************************)
Fairness ==
  /\ WF_vars(BecomesPrimary \/ TimesOut)
  /\ WF_vars(Stop) /\ WF_vars(Cleanup) /\ WF_vars(CloseMessageCh) /\ WF_vars(Return)
  /\ WF_vars(DeliverStatus) /\ WF_vars(DeliverMessage)
  /\ WF_vars(FirstSignal) /\ WF_vars(SecondSignal)

FairSpec == Spec /\ Fairness

-----------------------------------------------------------------------------
TypeOK ==
  /\ starts \in 0 .. MaxStarts /\ ended \in HowEnded \X Statement
  /\ program \in Programs \cup {"none"} /\ main \in Statement
  /\ waiter \in {"range", "notify"} /\ sent \in BOOLEAN
  /\ run \in {"off", "starting", "up", "returned"}
  /\ receiver \in {"off", "recv", "status", "message"} /\ status \in BOOLEAN
  /\ messageCh \in {"open", "closed"} /\ queued \in 0 .. MessageCap
  /\ i \in TestGroups /\ failed \subseteq TestGroups /\ groups \subseteq TestGroups
  /\ stopCh \in {"open", "closed"}
  /\ notifyCh \in 0 .. NotifyCap /\ signalled \in 0 .. MaxSignals
  /\ primary \in BOOLEAN /\ group \in BOOLEAN

\* The receiving goroutine outlives Run and may send on messageCh after main has
\* closed it.  That panic comes when cleanup is over, so it costs nothing.
PanicOnlyAfterCleanup == ended[1] = "panic" => ended[2] = "return"

\* What one end without cleanup costs: the switch refuses the group that was left to
\* every later l2_switch, none gets ready, and only a ready one deletes it; that another
\* program sets its pipeline in between is of no help.
LeftoverIsForEver ==
  [](main = "off" /\ group => []~(program = "l2_switch" /\ main = "ready"))

\* A wcmp that is through leaves on the switch at most the groups it has reported: not
\* those it could not insert, nor what an earlier process left, though nothing is
\* cleaned up, a stop is not looked at and a failed Write may have been made.
LeavesOnlyReported ==
  program = "wcmp" /\ main \in {"ready", "close", "return"} => groups \subseteq failed

\* The goroutine behind arbitrationCh waits on waitCh only while main is there to take
\* what it sends: a second time that we become primary, or one after main has given up
\* waiting, finds nobody on the other side.
WaiterIsHeard == waiter = "notify" => main = "wait"

\* Of two signals the second is never lost, however late the first is looked at: as long
\* as the process runs notifyCh holds a signal for it, whatever it had to drop.
SecondSignalKept == signalled >= 2 => notifyCh > 0

\* An arbitration status never blocks the receiving goroutine for ever, however often
\* we become primary again: the goroutine that takes it waits for main once, and main
\* is either there or the process ends.
StatusTaken == receiver = "status" ~> receiver # "status"

\* A ready program ends when it is told to, without the help of the switch.
StopEndsReady == main = "ready" /\ stopCh = "closed" ~> main = "off"

\* Two signals end the program wherever it is, even if the second comes before the
\* first was looked at, and main waits for the switch for ever.
SecondSignalEnds == signalled >= 2 ~> main = "off"
=============================================================================
