--------------------------- MODULE LifecycleProofs ---------------------------
(***************************************************************************)
(* Proofs about Lifecycle, for any number of starts, signals, test groups   *)
(* and messages.                                                            *)
(***************************************************************************)
EXTENDS Lifecycle, TLAPS

-----------------------------------------------------------------------------
(* Type correctness                                                         *)

\* However a process ends, what is left is as it was before the first start, but for
\* the groups.
LEMMA EndType ==
  ASSUME TypeOK, NEW how \in HowEnded, End(how), group' \in BOOLEAN, groups' \subseteq TestGroups
  PROVE  TypeOK'
<1>1. ended' \in HowEnded \X Statement
  <2>1. main \in Statement /\ ended' = <<how, main>>
    BY DEF End, TypeOK
  <2> QED BY <2>1
<1>2. main' \in Statement /\ program' \in Programs \cup {"none"}
  BY DEF End, Statement
<1>3. notifyCh' \in 0 .. NotifyCap
  BY DEF End, NotifyCap
<1>4. signalled' \in 0 .. MaxSignals
  BY BoundAssumption DEF End
<1>5. starts' \in 0 .. MaxStarts
  BY DEF End, TypeOK
<1>6. queued' \in 0 .. MessageCap /\ i' \in TestGroups /\ failed' \subseteq TestGroups
  BY SizeAssumption DEF End, TestGroups
<1> QED BY <1>1, <1>2, <1>3, <1>4, <1>5, <1>6 DEF End, TypeOK

\* The loop of wcmp stays within the test groups.
LEMMA LoopType ==
  ASSUME TypeOK, NEW statement \in Statement, NEW next \in Statement,
         InLoop(statement, next), groups' \subseteq TestGroups, failed' \subseteq TestGroups
  PROVE  TypeOK'
<1>1. i' \in TestGroups
  BY SizeAssumption DEF InLoop, TypeOK, TestGroups
<1>2. main' \in Statement
  BY DEF InLoop
<1> QED BY <1>1, <1>2 DEF InLoop, past, handover, channels, TypeOK

\* The steps of main keep the types.
LEMMA MainType == TypeOK /\ Main => TypeOK'
<1> SUFFICES ASSUME TypeOK, Main PROVE TypeOK'
  OBVIOUS
<1> USE BoundAssumption DEF GoTo, Request, past, loop, handover, channels, switch
<1>1. CASE Start
  <2>1. ended' \in HowEnded \X Statement /\ main' \in Statement
    BY <1>1 DEF Start, HowEnded, Statement
  <2> QED BY <1>1, <2>1 DEF Start, TypeOK
<1>2. CASE Capabilities
  BY <1>2 DEF Capabilities, TypeOK, Statement
<1>3. CASE CapabilitiesFails \/ TimesOut \/ RequestFails \/ Return
  <2>1. UNCHANGED <<group, groups>> /\ \E how \in HowEnded : End(how)
    BY <1>3 DEF CapabilitiesFails, TimesOut, RequestFails, Return, EndHere, HowEnded
  <2> QED BY <2>1, EndType DEF TypeOK
<1>4. CASE BecomesPrimary
  BY <1>4 DEF BecomesPrimary, TypeOK, Statement
<1>5. CASE SetFwdPipe
  <2>1. AfterPipe \in Statement
    BY DEF AfterPipe, Statement
  <2> QED BY <1>5, <2>1 DEF SetFwdPipe, TypeOK
<1>6. CASE SetFwdPipeLost
  BY <1>6, EndType DEF SetFwdPipeLost, TypeOK, HowEnded
<1>7. CASE EnableDigest \/ SetDefault
  BY <1>7 DEF EnableDigest, SetDefault, TypeOK, Statement
<1>8. CASE Stop
  <2>1. Deferred \in Statement
    BY DEF Deferred, Statement
  <2> QED BY <1>8, <2>1 DEF Stop, TypeOK
<1>9. CASE InsertGroup
  <2>1. CASE End("fatal")
    BY <1>9, <2>1, EndType DEF InsertGroup, HowEnded, TypeOK
  <2>2. CASE GoTo("setDefault") /\ UNCHANGED primary
    BY <1>9, <2>2 DEF InsertGroup, TypeOK, Statement
  <2> QED BY <1>9, <2>1, <2>2 DEF InsertGroup
<1>10. CASE InstallGroup
  <2>1. groups' \subseteq TestGroups /\ failed' \subseteq TestGroups /\ InLoop("install", "delete")
    BY <1>10 DEF InstallGroup, TypeOK
  <2> QED BY <2>1, LoopType DEF Statement
<1>11. CASE DeleteGroup
  <2>1. groups' \subseteq TestGroups /\ failed' \subseteq TestGroups /\ InLoop("delete", "ready")
    BY <1>11 DEF DeleteGroup, TypeOK
  <2> QED BY <2>1, LoopType DEF Statement
<1>12. CASE Cleanup
  <2>1. group' \in BOOLEAN /\ main' \in Statement
    BY <1>12 DEF Cleanup, TypeOK, Statement
  <2> QED BY <1>12, <2>1 DEF Cleanup, TypeOK
<1>13. CASE CloseMessageCh
  BY <1>13 DEF CloseMessageCh, TypeOK, Statement
<1> QED BY <1>1, <1>2, <1>3, <1>4, <1>5, <1>6, <1>7, <1>8, <1>9, <1>10, <1>11, <1>12, <1>13
        DEF Main

\* So do those of Run, its receiving goroutine and the goroutine it hands statuses to.
LEMMA StreamType == TypeOK /\ Stream => TypeOK'
<1> SUFFICES ASSUME TypeOK, Stream PROVE TypeOK'
  OBVIOUS
<1> USE DEF channels, switch, process, handover, past, loop
<1>1. CASE RunOpens \/ RunStops
  BY <1>1 DEF RunOpens, RunStops, TypeOK,
         Outside!Opens, Outside!OpenFails, Outside!ReturnsStopped
<1>2. ASSUME NEW isPrimary \in BOOLEAN, Arbitrates(isPrimary) PROVE TypeOK'
  BY <1>2 DEF Arbitrates, TypeOK
<1>3. CASE ReceivesStatus \/ ReceivesMessage \/ StreamEnds \/ DropsClient
  BY <1>3 DEF ReceivesStatus, ReceivesMessage, StreamEnds, DropsClient, TypeOK,
         Outside!Receives, Outside!Ends
<1>4. CASE DeliverStatus
  BY <1>4 DEF Outside!Delivers, DeliverStatus, TypeOK
<1>5. CASE DeliverMessage
  <2>1. CASE messageCh = "closed"
    BY <1>5, <2>1, EndType DEF Outside!Delivers, DeliverMessage, EndHere, TypeOK, HowEnded
  <2>2. CASE messageCh # "closed"
    <3>1. queued' \in 0 .. MessageCap
      BY <1>5, <2>2, SizeAssumption DEF Outside!Delivers, DeliverMessage, HasRoom, TypeOK
    <3> QED BY <1>5, <2>2, <3>1 DEF Outside!Delivers, DeliverMessage, TypeOK
  <2> QED BY <2>1, <2>2
<1> QED BY <1>1, <1>2, <1>3, <1>4, <1>5 DEF Stream

\* So do the signals.
LEMMA SignalType == TypeOK /\ Signals => TypeOK'
<1> SUFFICES ASSUME TypeOK, Signals PROVE TypeOK'
  OBVIOUS
<1> USE BoundAssumption DEF handover, switch, past, loop
<1>1. CASE Signal
  <2>1. notifyCh' \in 0 .. NotifyCap
    <3>1. notifyCh \in 0 .. 2
      BY DEF TypeOK, NotifyCap
    <3>2. notifyCh' = IF notifyCh < 2 THEN notifyCh + 1 ELSE notifyCh
      BY <1>1 DEF Signal, NotifyCap
    <3> QED BY <3>1, <3>2 DEF NotifyCap
  <2>2. signalled' \in 0 .. MaxSignals
    <3>1. signalled \in 0 .. MaxSignals
      BY DEF TypeOK
    <3>2. signalled < MaxSignals /\ signalled' = signalled + 1
      BY <1>1 DEF Signal
    <3> QED BY <3>1, <3>2, BoundAssumption
  <2> QED BY <1>1, <2>1, <2>2 DEF Signal, TypeOK
<1>2. CASE FirstSignal
  BY <1>2 DEF FirstSignal, TypeOK, NotifyCap
<1>3. CASE SecondSignal
  BY <1>3, EndType DEF SecondSignal, EndHere, TypeOK, HowEnded
<1> QED BY <1>1, <1>2, <1>3 DEF Signals

\* Type correctness: notifyCh holds two signals at most, and every goroutine is at a
\* statement of its own, whatever the order of ends and starts.
THEOREM TypeCorrect == Spec => []TypeOK
<1>1. ASSUME Init PROVE TypeOK
  <2>1. ended \in HowEnded \X Statement /\ main \in Statement
    BY <1>1 DEF Init, HowEnded, Statement
  <2>2. starts \in 0 .. MaxStarts /\ notifyCh \in 0 .. NotifyCap /\ signalled \in 0 .. MaxSignals
    BY <1>1, BoundAssumption DEF Init, NotifyCap
  <2>3. queued \in 0 .. MessageCap /\ i \in TestGroups
    BY <1>1, SizeAssumption DEF Init, TestGroups
  <2> QED BY <1>1, <2>1, <2>2, <2>3 DEF Init, TypeOK
<1>2. TypeOK /\ [Next]_vars => TypeOK'
  <2>1. TypeOK /\ UNCHANGED vars => TypeOK'
    BY DEF vars, process, past, loop, handover, channels, switch, TypeOK
  <2> QED BY <2>1, MainType, StreamType, SignalType DEF Next
<1> QED BY <1>1, <1>2, PTL DEF Spec

-----------------------------------------------------------------------------
\* main closes messageCh behind cleanup, and nothing else does.
ClosedLast == messageCh = "closed" => main = "return"

\* The panic of the receiving goroutine, which finds messageCh closed, comes only
\* when cleanup is over, in whatever order goroutines, switch and signals move.
THEOREM NoPanicBeforeCleanup == Spec => []PanicOnlyAfterCleanup
<1> DEFINE I == ClosedLast /\ PanicOnlyAfterCleanup
<1>1. Init => I
  BY DEF Init, ClosedLast, PanicOnlyAfterCleanup
<1>2. ASSUME I, [Next]_vars PROVE I'
  <2> USE DEF ClosedLast, PanicOnlyAfterCleanup, handover, channels, past, loop, switch, process
  <2>1. ASSUME NEW how, End(how), how = "panic" => main = "return" PROVE I'
    BY <2>1 DEF End
  <2>2. CASE UNCHANGED vars
    BY <1>2, <2>2 DEF vars
  <2>3. CASE Main
    <3> USE DEF GoTo, Request
    <3>1. CASE Start \/ Capabilities \/ BecomesPrimary
      BY <1>2, <3>1 DEF Start, Capabilities, BecomesPrimary
    <3>6. CASE Stop
      BY <1>2, <3>6 DEF Stop
    <3>7. CASE Cleanup
      BY <1>2, <3>7 DEF Cleanup
    <3>8. CASE CloseMessageCh
      BY <1>2, <3>8 DEF CloseMessageCh
    <3>2. CASE SetFwdPipe \/ EnableDigest \/ SetDefault
      BY <1>2, <3>2 DEF SetFwdPipe, EnableDigest, SetDefault
    <3>3. CASE InsertGroup \/ SetFwdPipeLost
      BY <1>2, <2>1, <3>3 DEF InsertGroup, SetFwdPipeLost
    <3>4. CASE CapabilitiesFails \/ TimesOut \/ RequestFails \/ Return
      BY <2>1, <3>4 DEF CapabilitiesFails, TimesOut, RequestFails, Return, EndHere
    <3>5. CASE InstallGroup \/ DeleteGroup
      BY <1>2, <3>5 DEF InstallGroup, DeleteGroup, InLoop
    <3> QED BY <2>3, <3>1, <3>2, <3>3, <3>4, <3>5, <3>6, <3>7, <3>8 DEF Main
  <2>4. CASE Stream
    <3>1. CASE DeliverMessage
      BY <1>2, <2>1, <3>1 DEF Outside!Delivers, DeliverMessage, EndHere
    <3>2. CASE RunOpens \/ RunStops \/ \E isPrimary \in BOOLEAN : Arbitrates(isPrimary)
      BY <1>2, <3>2 DEF RunOpens, RunStops, Arbitrates,
             Outside!Opens, Outside!OpenFails, Outside!ReturnsStopped
    <3>3. CASE ReceivesStatus \/ ReceivesMessage \/ StreamEnds \/ DropsClient \/ DeliverStatus
      BY <1>2, <3>3 DEF ReceivesStatus, ReceivesMessage, StreamEnds, DropsClient, DeliverStatus,
             Outside!Receives, Outside!Ends, Outside!Delivers
    <3> QED BY <2>4, <3>1, <3>2, <3>3 DEF Stream
  <2>5. CASE Signals
    <3>1. CASE Signal \/ FirstSignal
      BY <1>2, <3>1 DEF Signal, FirstSignal
    <3>2. CASE SecondSignal
      BY <2>1, <3>2 DEF SecondSignal, EndHere
    <3> QED BY <2>5, <3>1, <3>2 DEF Signals
  <2> QED BY <1>2, <2>2, <2>3, <2>4, <2>5 DEF Next
<1>3. I => PanicOnlyAfterCleanup
  OBVIOUS
<1> HIDE DEF I
<1> QED BY <1>1, <1>2, <1>3, PTL DEF Spec

-----------------------------------------------------------------------------
\* The group is there, and main has not got past the insert that it makes fail.
Stuck ==
  group /\ main \notin {"setDefault", "cleanup"} /\ (program = "l2_switch" => main # "ready")
  /\ (main \in {"enableDigest", "insertGroup"} => program = "l2_switch")
  /\ (main \in {"install", "delete"} => program = "wcmp")

\* A group that a process left on the switch keeps every later l2_switch from getting
\* ready, whatever programs are started however often: initialize fails on it, and cleanup is
\* deferred only after initialize.
THEOREM LeftoverBlocks == Spec => LeftoverIsForEver
<1>1. main = "off" /\ group => Stuck
  BY DEF Stuck
<1>2. ASSUME Stuck, [Next]_vars PROVE Stuck'
  <2> USE DEF Stuck, handover, channels, past, loop, switch, process
  <2>1. ASSUME NEW how, End(how), group' = group PROVE Stuck'
    BY <1>2, <2>1 DEF End
  <2>2. CASE UNCHANGED vars
    BY <1>2, <2>2 DEF vars
  <2>3. CASE Main
    <3> USE DEF GoTo, Request
    <3>1. CASE Start \/ Capabilities \/ BecomesPrimary \/ EnableDigest
      BY <1>2, <3>1 DEF Start, Capabilities, BecomesPrimary, EnableDigest
    <3>2. CASE InsertGroup \/ SetDefault \/ Cleanup \/ CloseMessageCh
      BY <1>2, <3>2 DEF InsertGroup, SetDefault, Cleanup, CloseMessageCh
    <3>3. CASE CapabilitiesFails \/ TimesOut \/ RequestFails \/ Return
      BY <2>1, <3>3 DEF CapabilitiesFails, TimesOut, RequestFails, Return, EndHere
    <3>4. CASE SetFwdPipe
      BY <1>2, <3>4 DEF SetFwdPipe, AfterPipe
    <3>5. CASE SetFwdPipeLost
      BY <2>1, <3>5 DEF SetFwdPipeLost
    <3>6. CASE InstallGroup \/ DeleteGroup
      BY <1>2, <3>6 DEF InstallGroup, DeleteGroup, InLoop
    <3>7. CASE Stop
      BY <1>2, <3>7 DEF Stop, Deferred
    <3> QED BY <2>3, <3>1, <3>2, <3>3, <3>4, <3>5, <3>6, <3>7 DEF Main
  <2>4. CASE Stream
    <3>1. CASE DeliverMessage
      BY <1>2, <2>1, <3>1 DEF Outside!Delivers, DeliverMessage, EndHere
    <3>2. CASE RunOpens \/ RunStops \/ \E isPrimary \in BOOLEAN : Arbitrates(isPrimary)
      BY <1>2, <3>2 DEF RunOpens, RunStops, Arbitrates,
             Outside!Opens, Outside!OpenFails, Outside!ReturnsStopped
    <3>3. CASE ReceivesStatus \/ ReceivesMessage \/ StreamEnds \/ DropsClient \/ DeliverStatus
      BY <1>2, <3>3 DEF ReceivesStatus, ReceivesMessage, StreamEnds, DropsClient, DeliverStatus,
             Outside!Receives, Outside!Ends, Outside!Delivers
    <3> QED BY <2>4, <3>1, <3>2, <3>3 DEF Stream
  <2>5. CASE Signals
    <3>1. CASE Signal \/ FirstSignal
      BY <1>2, <3>1 DEF Signal, FirstSignal
    <3>2. CASE SecondSignal
      BY <2>1, <3>2 DEF SecondSignal, EndHere
    <3> QED BY <2>5, <3>1, <3>2 DEF Signals
  <2> QED BY <1>2, <2>2, <2>3, <2>4, <2>5 DEF Next
<1>3. Stuck => ~(program = "l2_switch" /\ main = "ready")
  BY DEF Stuck
<1> QED BY <1>1, <1>2, <1>3, PTL DEF Spec, LeftoverIsForEver

-----------------------------------------------------------------------------
\* What the second loop of wcmp has come past is gone, or reported; the statements
\* before "ready" that the programs do not share.
Deleted ==
  /\ main \in {"enableDigest", "insertGroup", "setDefault", "cleanup"} => program = "l2_switch"
  /\ main = "delete" => \A k \in groups : k < i => k \in failed
  /\ LeavesOnlyReported

\* A step of the second loop takes it past one more group.
LEMMA DeleteStep ==
  ASSUME TypeOK, Deleted, DeleteGroup
  PROVE  Deleted'
<1>1. /\ main = "delete" /\ main' = IF i + 1 < NumGroups THEN "delete" ELSE "ready"
      /\ i' = IF i + 1 < NumGroups THEN i + 1 ELSE 0
      /\ i \in 0 .. NumGroups - 1 /\ NumGroups \in Nat \ {0} /\ groups \subseteq 0 .. NumGroups - 1
  BY SizeAssumption DEF DeleteGroup, InLoop, TypeOK, TestGroups
<1>2. groups' \subseteq groups /\ failed \subseteq failed' /\ (i \in groups' => i \in failed')
  BY DEF DeleteGroup
<1>3. \A k \in groups' : k < i + 1 => k \in failed'
  <2> SUFFICES ASSUME NEW k \in groups', k < i + 1 PROVE k \in failed'
    OBVIOUS
  <2>1. k \in groups /\ (k < i \/ k = i)
    BY <1>1, <1>2
  <2> QED BY <1>1, <1>2, <2>1 DEF Deleted
<1>4. CASE i + 1 < NumGroups
  BY <1>1, <1>3, <1>4 DEF Deleted, LeavesOnlyReported
<1>5. CASE ~(i + 1 < NumGroups)
  <2>1. \A k \in groups' : k < i + 1
    BY <1>1, <1>2, <1>5
  <2>2. groups' \subseteq failed' /\ main' = "ready"
    BY <1>1, <1>3, <1>5, <2>1
  <2> QED BY <2>2 DEF Deleted, LeavesOnlyReported
<1> QED BY <1>4, <1>5

\* The first loop ends at the start of the second.
LEMMA InstallStep ==
  ASSUME TypeOK, Deleted, InstallGroup
  PROVE  Deleted'
<1>1. main' = "install" \/ (main' = "delete" /\ i' = 0)
  BY DEF InstallGroup, InLoop
<1>2. groups' \subseteq TestGroups
  BY DEF InstallGroup, TypeOK
<1>3. ASSUME NEW k \in groups', i' = 0 PROVE ~(k < i')
  BY <1>2, <1>3, SizeAssumption DEF TestGroups
<1> QED BY <1>1, <1>3 DEF Deleted, LeavesOnlyReported

\* However often wcmp is started, on whatever another process left, and whenever it
\* loses the switch or is told to stop: when it is through, what is left of its groups
\* is among those whose delete it has reported as failed.
THEOREM LeavesReported == Spec => []LeavesOnlyReported
<1>1. Init => Deleted
  BY DEF Init, Deleted, LeavesOnlyReported
<1>2. ASSUME TypeOK, Deleted, [Next]_vars PROVE Deleted'
  <2> USE DEF handover, channels, past, loop, switch, process
  <2>1. ASSUME NEW how, End(how) PROVE Deleted'
    BY <2>1 DEF End, Deleted, LeavesOnlyReported
  <2>2. ASSUME UNCHANGED <<program, main, i, failed, groups>> PROVE Deleted'
    BY <1>2, <2>2 DEF Deleted, LeavesOnlyReported
  <2>3. CASE Main
    <3>1. CASE Start \/ Capabilities
      BY <3>1 DEF Start, Capabilities, Deleted, LeavesOnlyReported
    <3>2. CASE BecomesPrimary
      BY <3>2 DEF BecomesPrimary, Deleted, LeavesOnlyReported
    <3>3. CASE SetFwdPipe
      BY <3>3 DEF SetFwdPipe, Request, GoTo, AfterPipe, Deleted, LeavesOnlyReported
    <3>4. CASE EnableDigest \/ SetDefault
      BY <1>2, <3>4 DEF EnableDigest, SetDefault, Request, GoTo, Deleted, LeavesOnlyReported
    <3>5. CASE InsertGroup
      BY <1>2, <2>1, <3>5 DEF InsertGroup, GoTo, Deleted, LeavesOnlyReported
    <3>6. CASE CapabilitiesFails \/ TimesOut \/ RequestFails \/ Return \/ SetFwdPipeLost
      BY <2>1, <3>6 DEF CapabilitiesFails, TimesOut, RequestFails, Return, SetFwdPipeLost, EndHere
    <3>7. CASE Stop
      BY <1>2, <3>7 DEF Stop, GoTo, Deferred, Deleted, LeavesOnlyReported
    <3>8. CASE Cleanup
      BY <1>2, <3>8 DEF Cleanup, GoTo, Deleted, LeavesOnlyReported
    <3>9. CASE CloseMessageCh
      BY <1>2, <3>9 DEF CloseMessageCh, Deleted, LeavesOnlyReported
    <3> QED BY <1>2, <2>3, <3>1, <3>2, <3>3, <3>4, <3>5, <3>6, <3>7, <3>8, <3>9,
               InstallStep, DeleteStep DEF Main
  <2>4. CASE Stream
    <3>1. CASE DeliverMessage
      BY <2>1, <2>2, <3>1 DEF Outside!Delivers, DeliverMessage, EndHere
    <3>2. CASE RunOpens \/ RunStops \/ \E isPrimary \in BOOLEAN : Arbitrates(isPrimary)
      BY <2>2, <3>2 DEF RunOpens, RunStops, Arbitrates,
             Outside!Opens, Outside!OpenFails, Outside!ReturnsStopped
    <3>3. CASE ReceivesStatus \/ ReceivesMessage \/ StreamEnds \/ DropsClient \/ DeliverStatus
      BY <2>2, <3>3 DEF ReceivesStatus, ReceivesMessage, StreamEnds, DropsClient, DeliverStatus,
             Outside!Receives, Outside!Ends, Outside!Delivers
    <3> QED BY <2>4, <3>1, <3>2, <3>3 DEF Stream
  <2>5. CASE Signals
    BY <2>1, <2>2, <2>5 DEF Signals, Signal, FirstSignal, SecondSignal, EndHere
  <2> QED BY <1>2, <2>2, <2>3, <2>4, <2>5 DEF Next, vars
<1>3. Deleted => LeavesOnlyReported
  BY DEF Deleted
<1> QED BY <1>1, <1>2, <1>3, TypeCorrect, PTL DEF Spec

-----------------------------------------------------------------------------
(* The goroutine behind arbitrationCh                                       *)

\* Run and its receiving goroutine exist only behind the answer to Capabilities, and
\* main gets past its wait only by taking the one status the goroutine hands on.
Heard ==
  /\ main \in {"off", "capabilities"} => run = "off" /\ receiver = "off" /\ ~sent
  /\ ~sent => main \in {"off", "capabilities", "wait"}
  /\ sent => waiter = "range"
  /\ WaiterIsHeard

\* However often we become primary again, and whether or not main gave up waiting in
\* the meantime, the goroutine behind arbitrationCh never sends to nobody.
THEOREM StatusIsHeard == Spec => []WaiterIsHeard
<1>1. Init => Heard
  BY DEF Init, Heard, WaiterIsHeard
<1>2. ASSUME TypeOK, Heard, [Next]_vars PROVE Heard'
  <2> USE DEF Heard, WaiterIsHeard, handover, channels, past, loop, switch, process
  <2>1. ASSUME NEW how, End(how) PROVE Heard'
    BY <2>1 DEF End
  <2>2. ASSUME UNCHANGED handover, main' = main \/ (sent /\ main' \notin {"off", "capabilities"})
        PROVE  Heard'
    BY <1>2, <2>2
  <2>3. CASE Main
    <3>1. CASE Start
      BY <1>2, <3>1 DEF Start
    <3>2. CASE Capabilities
      BY <1>2, <3>2 DEF Capabilities
    <3>3. CASE BecomesPrimary
      BY <1>2, <3>3 DEF BecomesPrimary
    <3>4. CASE SetFwdPipe \/ EnableDigest \/ SetDefault \/ InsertGroup
      BY <1>2, <2>1, <2>2, <3>4 DEF SetFwdPipe, EnableDigest, SetDefault, InsertGroup, Request,
                                    GoTo, AfterPipe
    <3>5. CASE CapabilitiesFails \/ TimesOut \/ RequestFails \/ Return \/ SetFwdPipeLost
      BY <2>1, <3>5 DEF CapabilitiesFails, TimesOut, RequestFails, Return, SetFwdPipeLost, EndHere
    <3>6. CASE InstallGroup \/ DeleteGroup
      BY <1>2, <2>2, <3>6 DEF InstallGroup, DeleteGroup, InLoop
    <3>7. CASE Stop
      <4>1. Deferred \in {"cleanup", "close", "return"}
        BY DEF Deferred
      <4> QED BY <1>2, <2>2, <3>7, <4>1 DEF Stop, GoTo
    <3>8. CASE Cleanup \/ CloseMessageCh
      <4>1. UNCHANGED handover /\ main \in {"cleanup", "close"} /\ main' \in {"close", "return"}
        BY <3>8 DEF Cleanup, CloseMessageCh, GoTo
      <4> QED BY <1>2, <2>2, <4>1
    <3> QED BY <2>3, <3>1, <3>2, <3>3, <3>4, <3>5, <3>6, <3>7, <3>8 DEF Main
  <2>4. CASE Stream
    <3>1. CASE DeliverMessage
      BY <1>2, <2>1, <3>1 DEF Outside!Delivers, DeliverMessage, EndHere
    <3>2. CASE RunOpens \/ RunStops \/ \E isPrimary \in BOOLEAN : Arbitrates(isPrimary)
      BY <1>2, <3>2 DEF RunOpens, RunStops, Arbitrates,
             Outside!Opens, Outside!OpenFails, Outside!ReturnsStopped
    <3>3. CASE ReceivesStatus \/ ReceivesMessage \/ StreamEnds \/ DropsClient
      BY <1>2, <3>3 DEF ReceivesStatus, ReceivesMessage, StreamEnds, DropsClient,
             Outside!Receives, Outside!Ends
    <3>4. CASE DeliverStatus
      <4>1. main \notin {"off", "capabilities"}
        BY <1>2, <3>4 DEF Outside!Delivers, DeliverStatus
      <4>2. waiter' = IF status /\ ~sent THEN "notify" ELSE "range"
        BY <3>4 DEF Outside!Delivers, DeliverStatus
      <4> QED BY <1>2, <3>4, <4>1, <4>2 DEF Outside!Delivers, DeliverStatus
    <3> QED BY <2>4, <3>1, <3>2, <3>3, <3>4 DEF Stream
  <2>5. CASE Signals
    <3>1. CASE Signal \/ FirstSignal
      BY <1>2, <2>2, <3>1 DEF Signal, FirstSignal
    <3>2. CASE SecondSignal
      BY <2>1, <3>2 DEF SecondSignal, EndHere
    <3> QED BY <2>5, <3>1, <3>2 DEF Signals
  <2>6. CASE UNCHANGED vars
    BY <2>2, <2>6 DEF vars
  <2> QED BY <1>2, <2>3, <2>4, <2>5, <2>6 DEF Next
<1>3. Heard => WaiterIsHeard
  BY DEF Heard
<1> QED BY <1>1, <1>2, <1>3, TypeCorrect, PTL DEF Spec

-----------------------------------------------------------------------------
(* The second signal                                                        *)

\* Two signals, or as many as there have been, are in notifyCh or have closed stopCh.
Kept ==
  /\ signalled >= 1 => notifyCh >= 1 \/ stopCh = "closed"
  /\ signalled >= 2 => notifyCh >= 2 \/ (notifyCh >= 1 /\ stopCh = "closed")

\* The capacity of notifyCh is right: however many signals come before the first is
\* looked at, and however they fall between the steps of the goroutine that looks at
\* them, there is one to end the process by once there have been two.
THEOREM SecondSignalStays == Spec => []SecondSignalKept
<1>1. Init => Kept
  BY DEF Init, Kept
<1>2. ASSUME TypeOK, Kept, [Next]_vars PROVE Kept'
  <2> USE DEF Kept, handover, channels, past, loop, switch, process
  <2> signalled \in Nat /\ notifyCh \in 0 .. 2
    BY <1>2, BoundAssumption DEF TypeOK, NotifyCap
  <2>1. ASSUME NEW how, End(how) PROVE Kept'
    BY <2>1 DEF End
  <2>2. ASSUME UNCHANGED <<stopCh, notifyCh, signalled>> PROVE Kept'
    BY <1>2, <2>2
  <2>3. CASE Main
    <3>1. CASE Start \/ Capabilities \/ BecomesPrimary
      BY <2>2, <3>1 DEF Start, Capabilities, BecomesPrimary
    <3>2. CASE SetFwdPipe \/ EnableDigest \/ SetDefault \/ InsertGroup
      BY <2>1, <2>2, <3>2 DEF SetFwdPipe, EnableDigest, SetDefault, InsertGroup, Request, GoTo
    <3>3. CASE CapabilitiesFails \/ TimesOut \/ RequestFails \/ Return \/ SetFwdPipeLost
      BY <2>1, <3>3 DEF CapabilitiesFails, TimesOut, RequestFails, Return, SetFwdPipeLost, EndHere
    <3>4. CASE InstallGroup \/ DeleteGroup
      BY <2>2, <3>4 DEF InstallGroup, DeleteGroup, InLoop
    <3>5. CASE Stop \/ Cleanup \/ CloseMessageCh
      BY <2>2, <3>5 DEF Stop, Cleanup, CloseMessageCh, GoTo
    <3> QED BY <2>3, <3>1, <3>2, <3>3, <3>4, <3>5 DEF Main
  <2>4. CASE Stream
    <3>1. CASE DeliverMessage
      BY <2>1, <2>2, <3>1 DEF Outside!Delivers, DeliverMessage, EndHere
    <3>2. CASE RunOpens \/ RunStops \/ \E isPrimary \in BOOLEAN : Arbitrates(isPrimary)
      BY <2>2, <3>2 DEF RunOpens, RunStops, Arbitrates,
             Outside!Opens, Outside!OpenFails, Outside!ReturnsStopped
    <3>3. CASE ReceivesStatus \/ ReceivesMessage \/ StreamEnds \/ DropsClient \/ DeliverStatus
      BY <2>2, <3>3 DEF ReceivesStatus, ReceivesMessage, StreamEnds, DropsClient, DeliverStatus,
             Outside!Receives, Outside!Ends, Outside!Delivers
    <3> QED BY <2>4, <3>1, <3>2, <3>3 DEF Stream
  <2>5. CASE Signals
    <3>1. CASE Signal
      <4>1. /\ signalled' = signalled + 1 /\ stopCh' = stopCh
            /\ notifyCh' = IF notifyCh < 2 THEN notifyCh + 1 ELSE notifyCh
        BY <3>1 DEF Signal, NotifyCap
      <4> QED BY <1>2, <4>1
    <3>2. CASE FirstSignal
      <4>1. /\ notifyCh > 0 /\ stopCh = "open" /\ notifyCh' = notifyCh - 1 /\ stopCh' = "closed"
            /\ signalled' = signalled
        BY <3>2 DEF FirstSignal
      <4> QED BY <1>2, <4>1
    <3>3. CASE SecondSignal
      BY <2>1, <3>3 DEF SecondSignal, EndHere
    <3> QED BY <2>5, <3>1, <3>2, <3>3 DEF Signals
  <2>6. CASE UNCHANGED vars
    BY <2>2, <2>6 DEF vars
  <2> QED BY <1>2, <2>3, <2>4, <2>5, <2>6 DEF Next
<1>3. TypeOK /\ Kept => SecondSignalKept
  BY DEF Kept, SecondSignalKept, TypeOK, NotifyCap
<1> QED BY <1>1, <1>2, <1>3, TypeCorrect, PTL DEF Spec
=============================================================================
