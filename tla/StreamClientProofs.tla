------------------------- MODULE StreamClientProofs -------------------------
(***************************************************************************)
(* Proofs about StreamClient, for any number of senders, runs and messages *)
(* and for any capacities.                                                 *)
(***************************************************************************)
EXTENDS StreamClient, SequenceTheorems, TLAPS

-----------------------------------------------------------------------------
(* Frames: which actions can change each group of variables                 *)

\* Which actions touch the variables of SendMessage.
LEMMA OutFrame ==
  ASSUME [Next]_vars
  PROVE  \/ UNCHANGED outVars
         \/ \E s \in Senders : Call(s) \/ Accept(s) \/ GiveUp(s)
         \/ \E r \in Runs : SelectMessage(r)
  BY DEF Next, vars, SendMessage, RunStep, ReceiverStep, Environment,
         Open, OpenFails, SendDone, SendFails, SelectStop, SelectError,
         RecvMessage, RecvEOF, RecvError, DeliverArbitration, DeliverMessage,
         Stop, ReadMessage, ServerRead, ServerSend, StreamEnds

\* Which actions touch the variables of Run.
LEMMA RunFrame ==
  ASSUME [Next]_vars
  PROVE  \/ UNCHANGED runVars
         \/ \E r \in Runs : Open(r) \/ OpenFails(r) \/ SendDone(r) \/ SendFails(r)
         \/ \E r \in Runs : SelectMessage(r) \/ SelectStop(r) \/ SelectError(r)
         \/ \E r \in Runs : Stop(r)
  BY DEF Next, vars, SendMessage, RunStep, ReceiverStep, Environment,
         Call, Accept, GiveUp,
         RecvMessage, RecvEOF, RecvError, DeliverArbitration, DeliverMessage,
         ReadMessage, ServerRead, ServerSend, StreamEnds

\* Which actions touch the stream.
LEMMA NetFrame ==
  ASSUME [Next]_vars
  PROVE  \/ UNCHANGED netVars
         \/ \E r \in Runs : Open(r) \/ SendDone(r) \/ ServerRead(r)
         \/ \E r \in Runs, kind \in InKind : ServerSend(r, kind)
         \/ \E r \in Runs, how \in {"eof", "broken"} : StreamEnds(r, how)
  BY DEF Next, vars, SendMessage, RunStep, ReceiverStep, Environment,
         Call, Accept, GiveUp,
         OpenFails, SendFails, SelectMessage, SelectStop, SelectError,
         RecvMessage, RecvEOF, RecvError, DeliverArbitration, DeliverMessage,
         Stop, ReadMessage

\* Which actions touch what the receiving goroutine and the application share.
LEMMA InFrame ==
  ASSUME [Next]_vars
  PROVE  \/ UNCHANGED inVars
         \/ \E r \in Runs : Open(r) \/ SelectError(r)
         \/ \E r \in Runs : RecvMessage(r) \/ RecvEOF(r) \/ RecvError(r)
         \/ \E r \in Runs : DeliverArbitration(r) \/ DeliverMessage(r)
         \/ ReadMessage
  BY DEF Next, vars, SendMessage, RunStep, ReceiverStep, Environment,
         Call, Accept, GiveUp,
         OpenFails, SendDone, SendFails, SelectMessage, SelectStop,
         Stop, ServerRead, ServerSend, StreamEnds

-----------------------------------------------------------------------------
(* Type correctness                                                         *)

\* A new client has the right types.
LEMMA TypeInit == Init => TypeOK
<1> USE CapacityAssumption, BoundAssumption DEF Init
<1>1. Init => TypeOut
  BY DEF TypeOut
<1>2. Init => TypeRun
  BY DEF TypeRun, RunState, Arbitration
<1>3. Init => TypeNet
  BY DEF TypeNet, StreamState
<1>4. ASSUME Init PROVE TypeIn
  <2>1. arbSeen \in Seq(Runs \X BOOLEAN) /\ messageLog \in Seq(Runs \X Nat)
    BY <1>4, EmptySeq
  <2>2. recv \in [Runs -> RecvState] /\ taken \in [Runs -> Nat]
    BY <1>4 DEF RecvState
  <2>3. messageRead = 0 /\ Len(messageLog) = 0
        /\ \A r \in Runs : taken[r] = 0 /\ Len(fromServer[r]) = 0
    BY <1>4
  <2> QED BY <2>1, <2>2, <2>3 DEF TypeIn
<1> QED BY <1>1, <1>2, <1>3, <1>4 DEF TypeOK

\* streamSendCh never exceeds its capacity.
LEMMA TypeOutStep == TypeOK /\ [Next]_vars => TypeOut'
<1> SUFFICES ASSUME TypeOK, [Next]_vars PROVE TypeOut'
  OBVIOUS
<1> USE CapacityAssumption, BoundAssumption DEF TypeOut
<1> TypeOut
  BY DEF TypeOK
<1>1. CASE UNCHANGED outVars
  BY <1>1 DEF outVars
<1>2. ASSUME NEW s \in Senders, Call(s) \/ Accept(s) \/ GiveUp(s) PROVE TypeOut'
  <2>1. CASE Call(s)
    BY <2>1 DEF Call
  <2>2. CASE Accept(s)
    BY <2>2 DEF Accept
  <2>3. CASE GiveUp(s)
    BY <2>3 DEF GiveUp
  <2> QED BY <1>2, <2>1, <2>2, <2>3
<1>3. ASSUME NEW r \in Runs, SelectMessage(r) PROVE TypeOut'
  BY <1>3 DEF SelectMessage
<1> QED BY OutFrame, <1>1, <1>2, <1>3

\* Every Run stays at one of its statements.
LEMMA TypeRunStep == TypeOK /\ [Next]_vars => TypeRun'
<1> SUFFICES ASSUME TypeOK, [Next]_vars PROVE TypeRun'
  OBVIOUS
<1> USE DEF TypeRun, RunState
<1> TypeRun /\ TypeOut
  BY DEF TypeOK
<1>1. CASE UNCHANGED runVars
  BY <1>1 DEF runVars
<1>2. ASSUME NEW r \in Runs, Open(r) \/ OpenFails(r) \/ SendDone(r) \/ SendFails(r)
      PROVE  TypeRun'
  <2>1. CASE Open(r)
    BY <2>1 DEF Open, Arbitration
  <2>2. CASE OpenFails(r)
    BY <2>2 DEF OpenFails
  <2>3. CASE SendDone(r)
    BY <2>3 DEF SendDone
  <2>4. CASE SendFails(r)
    BY <2>4 DEF SendFails
  <2> QED BY <1>2, <2>1, <2>2, <2>3, <2>4
<1>3. ASSUME NEW r \in Runs, SelectMessage(r) \/ SelectStop(r) \/ SelectError(r)
      PROVE  TypeRun'
  <2>1. CASE SelectMessage(r)
    BY <2>1 DEF SelectMessage, TypeOut
  <2>2. CASE SelectStop(r)
    BY <2>2 DEF SelectStop
  <2>3. CASE SelectError(r)
    BY <2>3 DEF SelectError
  <2> QED BY <1>3, <2>1, <2>2, <2>3
<1>4. ASSUME NEW r \in Runs, Stop(r) PROVE TypeRun'
  BY <1>4 DEF Stop
<1> QED BY RunFrame, <1>1, <1>2, <1>3, <1>4

\* The transport never holds more than its window, the server never reads ahead.
LEMMA TypeNetStep == TypeOK /\ [Next]_vars => TypeNet'
<1> SUFFICES ASSUME TypeOK, [Next]_vars PROVE TypeNet'
  OBVIOUS
<1> USE CapacityAssumption, BoundAssumption DEF TypeNet, StreamState
<1> TypeNet /\ TypeRun
  BY DEF TypeOK
<1>1. CASE UNCHANGED netVars
  BY <1>1 DEF netVars
<1>2. ASSUME NEW r \in Runs, Open(r) \/ SendDone(r) \/ ServerRead(r)
      PROVE  TypeNet'
  <2>1. CASE Open(r)
    BY <2>1 DEF Open
  <2>2. CASE SendDone(r)
    BY <2>2 DEF SendDone, TypeRun
  <2>3. CASE ServerRead(r)
    BY <2>3 DEF ServerRead
  <2> QED BY <1>2, <2>1, <2>2, <2>3
<1>3. ASSUME NEW r \in Runs, NEW kind \in InKind, ServerSend(r, kind)
      PROVE  TypeNet'
  BY <1>3 DEF ServerSend
<1>4. ASSUME NEW r \in Runs, NEW how \in {"eof", "broken"}, StreamEnds(r, how)
      PROVE  TypeNet'
  BY <1>4 DEF StreamEnds
<1> QED BY NetFrame, <1>1, <1>2, <1>3, <1>4

\* messageCh never exceeds its capacity, and nobody reads ahead of who writes.
LEMMA TypeInStep == TypeOK /\ [Next]_vars => TypeIn'
<1> SUFFICES ASSUME TypeOK, [Next]_vars PROVE TypeIn'
  OBVIOUS
<1> USE CapacityAssumption DEF TypeIn, RecvState
<1> TypeIn /\ TypeNet
  BY DEF TypeOK
<1>1. CASE UNCHANGED inVars
  <2>1. \A r \in Runs : taken[r] <= Len(fromServer'[r])
    <3>1. CASE UNCHANGED netVars
      BY <3>1 DEF netVars
    <3>2. ASSUME NEW r \in Runs, Open(r) \/ SendDone(r) \/ ServerRead(r)
          PROVE  UNCHANGED fromServer
      BY <3>2 DEF Open, SendDone, ServerRead
    <3>3. ASSUME NEW r \in Runs, NEW kind \in InKind, ServerSend(r, kind)
          PROVE  \A q \in Runs : taken[q] <= Len(fromServer'[q])
      BY <3>3 DEF ServerSend, TypeNet
    <3>4. ASSUME NEW r \in Runs, NEW how \in {"eof", "broken"}, StreamEnds(r, how)
          PROVE  UNCHANGED fromServer
      BY <3>4 DEF StreamEnds
    <3> QED BY NetFrame, <3>1, <3>2, <3>3, <3>4
  <2> QED BY <1>1, <2>1 DEF inVars
<1>2. ASSUME NEW r \in Runs, Open(r) \/ SelectError(r) PROVE TypeIn'
  BY <1>2 DEF Open, SelectError, netVars
<1>3. ASSUME NEW r \in Runs, RecvMessage(r) \/ RecvEOF(r) \/ RecvError(r)
      PROVE  TypeIn'
  <2>1. UNCHANGED <<fromServer, arbSeen, messageLog, messageRead>>
    BY <1>3 DEF RecvMessage, RecvEOF, RecvError, netVars
  <2>2. CASE RecvMessage(r)
    <3>1. PICK to \in RecvState : recv' = [recv EXCEPT ![r] = to]
      BY <2>2 DEF RecvMessage
    <3>2. /\ taken' = [taken EXCEPT ![r] = @ + 1]
          /\ taken[r] < Len(fromServer[r]) /\ Len(fromServer[r]) \in Nat
      BY <2>2 DEF RecvMessage, TypeNet
    <3>3. recv' \in [Runs -> RecvState] /\ taken' \in [Runs -> Nat]
      BY <3>1, <3>2
    <3>4. \A q \in Runs : taken'[q] <= Len(fromServer[q])
      BY <3>2
    <3> QED BY <2>1, <3>3, <3>4
  <2>3. CASE RecvEOF(r) \/ RecvError(r)
    BY <2>1, <2>3 DEF RecvEOF, RecvError
  <2> QED BY <1>3, <2>2, <2>3
<1>4. ASSUME NEW r \in Runs, DeliverArbitration(r) PROVE TypeIn'
  <2>1. <<r, fromServer[r][taken[r]] = "primary">> \in Runs \X BOOLEAN
    OBVIOUS
  <2>2. arbSeen' \in Seq(Runs \X BOOLEAN)
    BY <1>4, <2>1, AppendProperties DEF DeliverArbitration
  <2> QED BY <1>4, <2>2 DEF DeliverArbitration, netVars
<1>5. ASSUME NEW r \in Runs, DeliverMessage(r) PROVE TypeIn'
  <2>1. <<r, taken[r]>> \in Runs \X Nat
    OBVIOUS
  <2>2. /\ messageLog' \in Seq(Runs \X Nat)
        /\ Len(messageLog') = Len(messageLog) + 1
    BY <1>5, <2>1, AppendProperties DEF DeliverMessage
  <2>3. UNCHANGED <<fromServer, taken, arbSeen, messageRead>>
        /\ recv' \in [Runs -> RecvState]
    BY <1>5 DEF DeliverMessage, netVars
  <2>4. Len(messageLog) \in Nat /\ Len(messageLog) < messageRead + MessageCap
    BY <1>5 DEF DeliverMessage
  <2> QED BY <2>2, <2>3, <2>4
<1>6. CASE ReadMessage
  <2>1. messageRead' \in Nat /\ messageRead' = messageRead + 1
    BY <1>6 DEF ReadMessage
  <2>2. messageRead' <= Len(messageLog) /\ Len(messageLog) <= messageRead' + MessageCap
    BY <1>6 DEF ReadMessage
  <2>3. UNCHANGED <<fromServer, recv, taken, arbSeen, messageLog>>
    BY <1>6 DEF ReadMessage, netVars
  <2> QED BY <2>1, <2>2, <2>3
<1> QED BY InFrame, <1>1, <1>2, <1>3, <1>4, <1>5, <1>6

\* The four parts of TypeOK together.
LEMMA TypeStep == TypeOK /\ [Next]_vars => TypeOK'
  BY TypeOutStep, TypeRunStep, TypeNetStep, TypeInStep DEF TypeOK

\* Type correctness: whatever the capacities, every variable keeps its type, no
\* queue exceeds its capacity and no reader overtakes the writer it reads from.
THEOREM TypeCorrect == Spec => []TypeOK
  BY TypeInit, TypeStep, PTL DEF Spec
-----------------------------------------------------------------------------
(* The inductive invariant: type correctness, three facts about the Runs,   *)
(* four about the tickets, and the invariants they imply.                   *)

\* The calls of Run follow one another.
Sequential == \A r \in Runs : run[r] # "idle" => \A q \in 1 .. r - 1 : run[q] = "returned"

\* A Run that has not started has touched nothing.
Untouched == \A r \in Runs : run[r] = "idle" =>
  recv[r] = "none" /\ stream[r] = "none" /\ toServer[r] = <<>>

\* A Run that is active has its stream, and has announced itself on it before it
\* turns to streamSendCh.
Announced == \A r \in Runs : Active(r) =>
  /\ stream[r] # "none"
  /\ \/ run[r] = "sending" /\ outgoing[r] = Arbitration
     \/ toServer[r] # <<>> \/ stream[r] # "open"

\* streamSendCh holds the last tickets that were accepted, without a gap.
Numbered ==
  /\ Len(sendCh) <= accepted
  /\ \A i \in 1 .. Len(sendCh) : sendCh[i] + Len(sendCh) = accepted + i

\* What Run has in hand is the first message of its stream, or the ticket before
\* those in streamSendCh ...
InHand == \A r \in Runs : run[r] = "sending" =>
  \/ outgoing[r] = Arbitration /\ toServer[r] = <<>>
  \/ outgoing[r] # Arbitration /\ outgoing[r] + Len(sendCh) = accepted

\* ... and what any transport took comes before all of them.
Behind == \A r \in Runs : \A i \in 1 .. Len(toServer[r]) :
  /\ toServer[r][i] + Len(sendCh) <= accepted
  /\ \A q \in Runs : run[q] = "sending" /\ outgoing[q] # Arbitration =>
       toServer[r][i] < outgoing[q]

\* The Runs the application has heard of are not idle.
HeardStarted == \A i \in 1 .. Len(arbSeen) :
  \A r \in Runs : arbSeen[i][1] = r => run[r] # "idle"

RunInv    == Sequential /\ Untouched /\ DeafOnlyAfterEOF /\ LeftBehindOnlyByStop
TicketInv == Announced /\ Numbered /\ InHand /\ Behind
IInv == /\ TypeOK /\ RunInv /\ TicketInv
        /\ HeardStarted /\ NoStaleArbitration /\ OutboundOrder /\ NoLossWhileUp

\* A Run starts only when those before it have returned.
LEMMA SequentialStep == TypeOK /\ Sequential /\ [Next]_vars => Sequential'
<1> SUFFICES ASSUME TypeOK, Sequential, [Next]_vars PROVE Sequential'
  OBVIOUS
<1> USE BoundAssumption DEF Sequential, Runs
<1>1. run \in [Runs -> RunState]
  BY DEF TypeOK, TypeRun
<1>2. CASE UNCHANGED runVars
  BY <1>2 DEF runVars
<1>3. ASSUME NEW r \in Runs, Open(r) \/ OpenFails(r)
      PROVE  Sequential'
  BY <1>1, <1>3 DEF Open, OpenFails, CanStart
<1>4. ASSUME NEW r \in Runs, run[r] # "idle", run[r] # "returned",
             NEW to \in RunState, run' = [run EXCEPT ![r] = to], to # "idle"
      PROVE  Sequential'
  BY <1>1, <1>4
<1>5. ASSUME NEW r \in Runs, SendDone(r) \/ SendFails(r) PROVE Sequential'
  BY <1>4, <1>5 DEF SendDone, SendFails, RunState
<1>6. ASSUME NEW r \in Runs, SelectMessage(r) \/ SelectStop(r) \/ SelectError(r)
      PROVE  Sequential'
  BY <1>4, <1>6 DEF SelectMessage, SelectStop, SelectError, RunState
<1>7. ASSUME NEW r \in Runs, Stop(r) PROVE Sequential'
  BY <1>7 DEF Stop
<1> QED BY RunFrame, <1>2, <1>3, <1>5, <1>6, <1>7

\* No Run goes back to before its start.
LEMMA IdleStep ==
  ASSUME TypeOK, [Next]_vars, NEW r \in Runs, run'[r] = "idle"
  PROVE  run[r] = "idle"
<1>1. run \in [Runs -> RunState]
  BY DEF TypeOK, TypeRun
<1>2. CASE UNCHANGED runVars
  BY <1>2 DEF runVars
<1>3. ASSUME NEW q \in Runs, Open(q) \/ OpenFails(q) \/ SendDone(q) \/ SendFails(q)
      PROVE  run[r] = "idle"
  BY <1>1, <1>3 DEF Open, OpenFails, SendDone, SendFails
<1>4. ASSUME NEW q \in Runs, SelectMessage(q) \/ SelectStop(q) \/ SelectError(q)
      PROVE  run[r] = "idle"
  BY <1>1, <1>4 DEF SelectMessage, SelectStop, SelectError
<1>5. ASSUME NEW q \in Runs, Stop(q) PROVE run[r] = "idle"
  BY <1>5 DEF Stop
<1> QED BY RunFrame, <1>2, <1>3, <1>4, <1>5

\* A Run that has not started has neither goroutine nor stream.
LEMMA UntouchedStep == TypeOK /\ Untouched /\ [Next]_vars => Untouched'
<1> SUFFICES ASSUME TypeOK, Untouched, [Next]_vars,
                    NEW r \in Runs, run'[r] = "idle"
             PROVE  recv'[r] = "none" /\ stream'[r] = "none" /\ toServer'[r] = <<>>
  BY DEF Untouched
<1>1. /\ recv \in [Runs -> RecvState] /\ stream \in [Runs -> StreamState]
      /\ toServer \in [Runs -> Seq(Nat)] /\ serverRead \in [Runs -> Nat]
      /\ run \in [Runs -> RunState]
  BY DEF TypeOK, TypeRun, TypeNet, TypeIn
<1>2. run[r] = "idle" /\ recv[r] = "none" /\ stream[r] = "none" /\ toServer[r] = <<>>
  BY IdleStep DEF Untouched
<1>3. stream'[r] = "none" /\ toServer'[r] = <<>>
  <2>1. CASE UNCHANGED netVars
    BY <1>2, <2>1 DEF netVars
  <2>2. ASSUME NEW q \in Runs, Open(q) \/ SendDone(q) \/ ServerRead(q)
        PROVE  stream'[r] = "none" /\ toServer'[r] = <<>>
    BY <1>1, <1>2, <2>2 DEF Open, SendDone, ServerRead
  <2>3. ASSUME NEW q \in Runs, NEW kind \in InKind, ServerSend(q, kind)
        PROVE  stream'[r] = "none" /\ toServer'[r] = <<>>
    BY <1>2, <2>3 DEF ServerSend
  <2>4. ASSUME NEW q \in Runs, NEW how \in {"eof", "broken"}, StreamEnds(q, how)
        PROVE  stream'[r] = "none" /\ toServer'[r] = <<>>
    BY <1>1, <1>2, <2>4 DEF StreamEnds
  <2> QED BY NetFrame, <2>1, <2>2, <2>3, <2>4
<1>4. recv'[r] = "none"
  <2>1. CASE UNCHANGED inVars
    BY <1>2, <2>1 DEF inVars
  <2>2. ASSUME NEW q \in Runs, Open(q) \/ SelectError(q) PROVE recv'[r] = "none"
    BY <1>1, <1>2, <2>2 DEF Open, SelectError
  <2>3. ASSUME NEW q \in Runs, RecvMessage(q) \/ RecvEOF(q) \/ RecvError(q)
        PROVE  recv'[r] = "none"
    BY <1>1, <1>2, <2>3 DEF RecvMessage, RecvEOF, RecvError
  <2>4. ASSUME NEW q \in Runs, DeliverArbitration(q) \/ DeliverMessage(q)
        PROVE  recv'[r] = "none"
    BY <1>1, <1>2, <2>4 DEF DeliverArbitration, DeliverMessage
  <2>5. CASE ReadMessage
    BY <1>2, <2>5 DEF ReadMessage
  <2> QED BY InFrame, <2>1, <2>2, <2>3, <2>4, <2>5
<1> QED BY <1>3, <1>4

\* The receiving goroutine of a going Run ends at an EOF only.
LEMMA DeafStep == TypeOK /\ DeafOnlyAfterEOF /\ [Next]_vars => DeafOnlyAfterEOF'
<1> SUFFICES ASSUME TypeOK, DeafOnlyAfterEOF, [Next]_vars,
                    NEW r \in Runs, Active(r)', recv'[r] = "done"
             PROVE  stream'[r] = "eof" /\ taken'[r] = Len(fromServer'[r])
  BY DEF DeafOnlyAfterEOF
<1>1. /\ run \in [Runs -> RunState] /\ recv \in [Runs -> RecvState]
      /\ taken \in [Runs -> Nat] /\ stream \in [Runs -> StreamState]
      /\ fromServer \in [Runs -> Seq(InKind)]
  BY DEF TypeOK, TypeRun, TypeNet, TypeIn
<1>2. Active(r) \/ recv'[r] # "done"
  <2>1. CASE UNCHANGED runVars
    BY <2>1 DEF runVars, Active
  <2>2. ASSUME NEW q \in Runs, Open(q) \/ OpenFails(q) \/ SendDone(q) \/ SendFails(q)
        PROVE  Active(r) \/ recv'[r] # "done"
    BY <1>1, <2>2 DEF Open, OpenFails, SendDone, SendFails, Active
  <2>3. ASSUME NEW q \in Runs, SelectMessage(q) \/ SelectStop(q) \/ SelectError(q)
        PROVE  Active(r) \/ recv'[r] # "done"
    BY <1>1, <2>3 DEF SelectMessage, SelectStop, SelectError, Active
  <2>4. ASSUME NEW q \in Runs, Stop(q) PROVE Active(r) \/ recv'[r] # "done"
    BY <2>4 DEF Stop, Active
  <2> QED BY RunFrame, <2>1, <2>2, <2>3, <2>4
<1>3. CASE recv[r] = "done"
  <2>1. stream[r] = "eof" /\ taken[r] = Len(fromServer[r])
    BY <1>2, <1>3 DEF DeafOnlyAfterEOF
  <2>2. taken'[r] = taken[r]
    <3>1. CASE UNCHANGED inVars
      BY <3>1 DEF inVars
    <3>2. ASSUME NEW q \in Runs, Open(q) \/ SelectError(q) PROVE taken'[r] = taken[r]
      BY <3>2 DEF Open, SelectError
    <3>3. ASSUME NEW q \in Runs, RecvMessage(q) \/ RecvEOF(q) \/ RecvError(q)
          PROVE  taken'[r] = taken[r]
      BY <1>1, <1>3, <3>3 DEF RecvMessage, RecvEOF, RecvError
    <3>4. ASSUME NEW q \in Runs, DeliverArbitration(q) \/ DeliverMessage(q)
          PROVE  taken'[r] = taken[r]
      BY <3>4 DEF DeliverArbitration, DeliverMessage
    <3>5. CASE ReadMessage
      BY <3>5 DEF ReadMessage
    <3> QED BY InFrame, <3>1, <3>2, <3>3, <3>4, <3>5
  <2>3. stream'[r] = "eof" /\ fromServer'[r] = fromServer[r]
    <3>1. CASE UNCHANGED netVars
      BY <2>1, <3>1 DEF netVars
    <3>2. ASSUME NEW q \in Runs, Open(q)
          PROVE  stream'[r] = "eof" /\ fromServer'[r] = fromServer[r]
      BY <1>1, <1>2, <2>1, <3>2 DEF Open, CanStart, Active
    <3>3. ASSUME NEW q \in Runs, SendDone(q) \/ ServerRead(q)
          PROVE  stream'[r] = "eof" /\ fromServer'[r] = fromServer[r]
      BY <2>1, <3>3 DEF SendDone, ServerRead
    <3>4. ASSUME NEW q \in Runs, NEW kind \in InKind, ServerSend(q, kind)
          PROVE  stream'[r] = "eof" /\ fromServer'[r] = fromServer[r]
      BY <1>1, <2>1, <3>4 DEF ServerSend
    <3>5. ASSUME NEW q \in Runs, NEW how \in {"eof", "broken"}, StreamEnds(q, how)
          PROVE  stream'[r] = "eof" /\ fromServer'[r] = fromServer[r]
      BY <1>1, <2>1, <3>5 DEF StreamEnds
    <3> QED BY NetFrame, <3>1, <3>2, <3>3, <3>4, <3>5
  <2> QED BY <2>1, <2>2, <2>3
<1>4. CASE recv[r] # "done"
  <2>1. CASE UNCHANGED inVars
    BY <1>4, <2>1 DEF inVars
  <2>2. ASSUME NEW q \in Runs, Open(q) \/ SelectError(q)
        PROVE  FALSE
    BY <1>1, <1>4, <2>2 DEF Open, SelectError, Active
  <2>3. ASSUME NEW q \in Runs, RecvMessage(q) \/ RecvEOF(q) \/ RecvError(q)
        PROVE  stream'[r] = "eof" /\ taken'[r] = Len(fromServer'[r])
    BY <1>1, <1>4, <2>3 DEF RecvMessage, RecvEOF, RecvError, netVars
  <2>4. ASSUME NEW q \in Runs, DeliverArbitration(q) \/ DeliverMessage(q)
        PROVE  FALSE
    BY <1>1, <1>4, <2>4 DEF DeliverArbitration, DeliverMessage
  <2>5. CASE ReadMessage
    BY <1>4, <2>5 DEF ReadMessage
  <2> QED BY InFrame, <2>1, <2>2, <2>3, <2>4, <2>5
<1> QED BY <1>3, <1>4

\* Run returns either stopped or together with its receiving goroutine.
LEMMA LeftBehindStep ==
  TypeOK /\ Untouched /\ LeftBehindOnlyByStop /\ [Next]_vars => LeftBehindOnlyByStop'
<1> SUFFICES ASSUME TypeOK, Untouched, LeftBehindOnlyByStop, [Next]_vars,
                    NEW r \in Runs, run'[r] = "returned", recv'[r] \notin {"none", "done"}
             PROVE  stopped'[r]
  BY DEF LeftBehindOnlyByStop
<1>1. /\ run \in [Runs -> RunState] /\ recv \in [Runs -> RecvState]
      /\ stopped \in [Runs -> BOOLEAN]
  BY DEF TypeOK, TypeRun, TypeIn
<1>2. stopped[r] => stopped'[r]
  <2>1. CASE UNCHANGED runVars
    BY <2>1 DEF runVars
  <2>2. ASSUME NEW q \in Runs, Open(q) \/ OpenFails(q) \/ SendDone(q) \/ SendFails(q)
        PROVE  stopped'[r] = stopped[r]
    BY <2>2 DEF Open, OpenFails, SendDone, SendFails
  <2>3. ASSUME NEW q \in Runs, SelectMessage(q) \/ SelectStop(q) \/ SelectError(q)
        PROVE  stopped'[r] = stopped[r]
    BY <2>3 DEF SelectMessage, SelectStop, SelectError
  <2>4. ASSUME NEW q \in Runs, Stop(q) PROVE stopped[r] => stopped'[r]
    BY <1>1, <2>4 DEF Stop
  <2> QED BY RunFrame, <2>1, <2>2, <2>3, <2>4
<1>3. recv[r] \in {"none", "done"} => Active(r)'
  <2>1. CASE UNCHANGED inVars
    BY <2>1 DEF inVars
  <2>2. ASSUME NEW q \in Runs, Open(q) \/ SelectError(q)
        PROVE  recv[r] \in {"none", "done"} => Active(r)'
    BY <1>1, <2>2 DEF Open, SelectError, Active
  <2>3. ASSUME NEW q \in Runs, RecvMessage(q) \/ RecvEOF(q) \/ RecvError(q)
        PROVE  recv[r] \notin {"none", "done"}
    BY <1>1, <2>3 DEF RecvMessage, RecvEOF, RecvError
  <2>4. ASSUME NEW q \in Runs, DeliverArbitration(q) \/ DeliverMessage(q)
        PROVE  recv[r] \notin {"none", "done"}
    BY <1>1, <2>4 DEF DeliverArbitration, DeliverMessage
  <2>5. CASE ReadMessage
    BY <2>5 DEF ReadMessage
  <2> QED BY InFrame, <2>1, <2>2, <2>3, <2>4, <2>5
<1>4. recv[r] \notin {"none", "done"}
  BY <1>3 DEF Active
<1>5. CASE run[r] = "returned"
  BY <1>2, <1>4, <1>5 DEF LeftBehindOnlyByStop
<1>6. CASE run[r] # "returned"
  <2>1. CASE UNCHANGED runVars
    BY <1>6, <2>1 DEF runVars
  <2>2. ASSUME NEW q \in Runs, Open(q) \/ SendDone(q) \/ SendFails(q) PROVE FALSE
    BY <1>1, <1>6, <2>2 DEF Open, SendDone, SendFails
  <2>3. ASSUME NEW q \in Runs, OpenFails(q) PROVE FALSE
    BY <1>1, <1>4, <1>6, <2>3 DEF OpenFails, CanStart, Untouched
  <2>4. ASSUME NEW q \in Runs, SelectMessage(q) \/ SelectError(q) PROVE FALSE
    BY <1>1, <1>6, <2>4 DEF SelectMessage, SelectError
  <2>5. ASSUME NEW q \in Runs, SelectStop(q) PROVE stopped[r]
    BY <1>1, <1>6, <2>5 DEF SelectStop
  <2>6. ASSUME NEW q \in Runs, Stop(q) PROVE FALSE
    BY <1>6, <2>6 DEF Stop
  <2> QED BY RunFrame, <1>2, <2>1, <2>2, <2>3, <2>4, <2>5, <2>6
<1> QED BY <1>5, <1>6

\* Statuses on arbitrationCh follow the order of the streams, but for stopped Runs.
LEMMA HeardStep ==
  ASSUME TypeOK, Sequential, Untouched, LeftBehindOnlyByStop, HeardStarted,
         NoStaleArbitration, [Next]_vars
  PROVE  HeardStarted' /\ NoStaleArbitration'
<1>1. /\ run \in [Runs -> RunState] /\ recv \in [Runs -> RecvState]
      /\ stopped \in [Runs -> BOOLEAN] /\ arbSeen \in Seq(Runs \X BOOLEAN)
  BY DEF TypeOK, TypeRun, TypeIn
<1>2. \A r \in Runs : stopped[r] => stopped'[r]
  <2>1. CASE UNCHANGED runVars
    BY <2>1 DEF runVars
  <2>2. ASSUME NEW q \in Runs, Open(q) \/ OpenFails(q) \/ SendDone(q) \/ SendFails(q)
        PROVE  stopped' = stopped
    BY <2>2 DEF Open, OpenFails, SendDone, SendFails
  <2>3. ASSUME NEW q \in Runs, SelectMessage(q) \/ SelectStop(q) \/ SelectError(q)
        PROVE  stopped' = stopped
    BY <2>3 DEF SelectMessage, SelectStop, SelectError
  <2>4. ASSUME NEW q \in Runs, Stop(q) PROVE \A r \in Runs : stopped[r] => stopped'[r]
    BY <1>1, <2>4 DEF Stop
  <2> QED BY RunFrame, <2>1, <2>2, <2>3, <2>4
<1>3. \A r \in Runs : run[r] # "idle" => run'[r] # "idle"
  BY IdleStep
<1>4. \A i \in 1 .. Len(arbSeen) : arbSeen[i][1] \in Runs
  BY <1>1, ElementOfSeq
<1>5. CASE UNCHANGED arbSeen
  <2>1. HeardStarted'
    BY <1>3, <1>5 DEF HeardStarted
  <2>2. NoStaleArbitration'
    BY <1>2, <1>4, <1>5 DEF NoStaleArbitration
  <2> QED BY <2>1, <2>2
<1>6. ASSUME NEW r \in Runs, DeliverArbitration(r)
      PROVE  HeardStarted' /\ NoStaleArbitration'
  <2> DEFINE entry == <<r, fromServer[r][taken[r]] = "primary">>
  <2>1. entry \in Runs \X BOOLEAN /\ entry[1] = r
    OBVIOUS
  <2>2. /\ Len(arbSeen) \in Nat /\ Len(arbSeen') = Len(arbSeen) + 1
        /\ \A i \in 1 .. Len(arbSeen) : arbSeen'[i][1] = arbSeen[i][1]
        /\ arbSeen'[Len(arbSeen) + 1][1] = r
    <3>1. arbSeen' = Append(arbSeen, entry)
      BY <1>6 DEF DeliverArbitration
    <3> HIDE DEF entry
    <3> QED BY <1>1, <2>1, <3>1, AppendProperties, LenProperties
  <2>3. run[r] # "idle" /\ recv[r] \notin {"none", "done"}
    BY <1>6 DEF DeliverArbitration, Untouched
  <2>4. HeardStarted'
    BY <1>3, <2>2, <2>3 DEF HeardStarted
  <2>5. \A i \in 1 .. Len(arbSeen) : r < arbSeen[i][1] => stopped[r]
    <3> SUFFICES ASSUME NEW i \in 1 .. Len(arbSeen), r < arbSeen[i][1]
                 PROVE  stopped[r]
      OBVIOUS
    <3>1. arbSeen[i][1] \in Runs /\ run[arbSeen[i][1]] # "idle"
      BY <1>4 DEF HeardStarted
    <3>2. r \in 1 .. arbSeen[i][1] - 1
      BY <3>1, BoundAssumption DEF Runs
    <3>3. run[r] = "returned"
      BY <3>1, <3>2 DEF Sequential
    <3> QED BY <2>3, <3>3 DEF LeftBehindOnlyByStop
  <2>6. NoStaleArbitration'
    <3> SUFFICES ASSUME NEW i \in 1 .. Len(arbSeen'), NEW j \in 1 .. Len(arbSeen'),
                        i < j, arbSeen'[j][1] < arbSeen'[i][1]
                 PROVE  stopped'[arbSeen'[j][1]]
      BY DEF NoStaleArbitration
    <3>1. i \in 1 .. Len(arbSeen) /\ arbSeen'[i][1] = arbSeen[i][1]
      BY <2>2
    <3>2. CASE j = Len(arbSeen) + 1
      BY <1>2, <2>2, <2>5, <3>1, <3>2
    <3>3. CASE j \in 1 .. Len(arbSeen)
      BY <1>2, <1>4, <2>2, <3>1, <3>3 DEF NoStaleArbitration
    <3>4. j \in 1 .. Len(arbSeen) + 1
      BY <2>2
    <3>5. Len(arbSeen) \in Nat
      BY <2>2
    <3> HIDE DEF entry
    <3> QED BY <3>2, <3>3, <3>4, <3>5
  <2> QED BY <2>4, <2>6
<1>7. UNCHANGED arbSeen \/ \E r \in Runs : DeliverArbitration(r)
  BY InFrame DEF inVars, Open, SelectError, RecvMessage, RecvEOF, RecvError,
                 DeliverMessage, ReadMessage
<1> QED BY <1>5, <1>6, <1>7

-----------------------------------------------------------------------------
(* The tickets: where the messages SendMessage answered nil for are         *)

ticketVars == <<accepted, sendCh, run, outgoing, stream, toServer>>

TicketPre == TypeOK /\ Sequential /\ Untouched /\ TicketInv /\ OutboundOrder /\ NoLossWhileUp

\* Which actions move a ticket.
LEMMA TicketFrame ==
  ASSUME [Next]_vars
  PROVE  \/ UNCHANGED ticketVars
         \/ \E s \in Senders : Accept(s)
         \/ \E r \in Runs : Open(r) \/ SendDone(r) \/ SelectMessage(r)
         \/ \E r \in Runs : OpenFails(r) \/ SendFails(r) \/ SelectStop(r) \/ SelectError(r)
         \/ \E r \in Runs, how \in {"eof", "broken"} : StreamEnds(r, how)
  BY DEF Next, vars, ticketVars, outVars, runVars, netVars, inVars,
         SendMessage, RunStep, ReceiverStep, Environment, Call, GiveUp,
         RecvMessage, RecvEOF, RecvError, DeliverArbitration, DeliverMessage,
         Stop, ReadMessage, ServerRead, ServerSend

\* Two Runs are never going at once.
LEMMA OneActive ==
  ASSUME Sequential, NEW q \in Runs, NEW r \in Runs, Active(q), Active(r)
  PROVE  q = r
  BY BoundAssumption DEF Sequential, Active, Runs

\* The parts of TypeOK the arguments about tickets use.
LEMMA TicketTypes ==
  ASSUME TypeOK
  PROVE  /\ accepted \in Nat /\ sendCh \in Seq(Nat)
         /\ run \in [Runs -> RunState] /\ outgoing \in [Runs -> Nat]
         /\ stream \in [Runs -> StreamState] /\ toServer \in [Runs -> Seq(Nat)]
  BY DEF TypeOK, TypeOut, TypeRun, TypeNet

\* streamSendCh accepts a message: its ticket is behind all others.
LEMMA AcceptTickets ==
  ASSUME TicketPre, NEW s \in Senders, Accept(s)
  PROVE  TicketInv' /\ OutboundOrder' /\ NoLossWhileUp'
<1>1. UNCHANGED <<run, outgoing, stream, toServer>>
  BY DEF Accept, runVars, netVars
<1>2. /\ accepted' = accepted + 1 /\ accepted \in Nat
      /\ Len(sendCh) \in Nat /\ Len(sendCh') = Len(sendCh) + 1
      /\ \A i \in 1 .. Len(sendCh) : sendCh'[i] = sendCh[i] /\ sendCh[i] \in Nat
      /\ sendCh'[Len(sendCh) + 1] = accepted + 1
  BY TicketTypes DEF Accept, TicketPre
<1>3. \A r \in Runs : outgoing[r] \in Nat /\ Len(toServer[r]) \in Nat
        /\ \A i \in 1 .. Len(toServer[r]) : toServer[r][i] \in Nat
  BY TicketTypes DEF TicketPre
<1>4. Announced' /\ OutboundOrder'
  BY <1>1 DEF TicketPre, TicketInv, Announced, OutboundOrder, Active
<1>5. Numbered'
  <2>1. /\ Len(sendCh) <= accepted
        /\ \A i \in 1 .. Len(sendCh) : sendCh[i] + Len(sendCh) = accepted + i
    BY DEF TicketPre, TicketInv, Numbered
  <2>2. ASSUME NEW i \in 1 .. Len(sendCh')
        PROVE  sendCh'[i] + Len(sendCh') = accepted' + i
    <3>1. CASE i \in 1 .. Len(sendCh)
      <4>1. sendCh'[i] = sendCh[i] /\ sendCh[i] \in Nat
        BY <1>2, <3>1
      <4>2. sendCh[i] + Len(sendCh) = accepted + i
        BY <2>1, <3>1
      <4>3. /\ accepted' = accepted + 1 /\ Len(sendCh') = Len(sendCh) + 1
            /\ accepted \in Nat /\ Len(sendCh) \in Nat /\ i \in Nat
        BY <1>2, <3>1
      <4> QED BY <4>1, <4>2, <4>3
    <3>2. CASE i = Len(sendCh) + 1
      BY <1>2, <3>2
    <3> QED BY <1>2, <3>1, <3>2
  <2> QED BY <1>2, <2>1, <2>2 DEF Numbered
<1>6. InHand'
  <2> SUFFICES ASSUME NEW r \in Runs, run[r] = "sending", outgoing[r] # Arbitration
               PROVE  outgoing[r] + Len(sendCh') = accepted'
    BY <1>1 DEF TicketPre, TicketInv, InHand
  <2>1. outgoing[r] + Len(sendCh) = accepted
    BY DEF TicketPre, TicketInv, InHand
  <2>2. outgoing[r] \in Nat /\ Len(sendCh) \in Nat
        /\ Len(sendCh') = Len(sendCh) + 1 /\ accepted' = accepted + 1
    BY <1>2, <1>3
  <2> QED BY <2>1, <2>2
<1>7. Behind'
  <2> SUFFICES ASSUME NEW r \in Runs, NEW i \in 1 .. Len(toServer[r])
               PROVE  toServer[r][i] + Len(sendCh') <= accepted'
    BY <1>1 DEF TicketPre, TicketInv, Behind
  <2>1. toServer[r][i] + Len(sendCh) <= accepted
    BY DEF TicketPre, TicketInv, Behind
  <2> QED BY <1>2, <1>3, <2>1
<1>8. NoLossWhileUp'
  <2>1. Tickets(sendCh) \cup {accepted + 1} \subseteq Tickets(sendCh')
    BY <1>2 DEF Tickets
  <2>2. \A t \in 1 .. accepted' : t = accepted + 1 \/ t \in 1 .. accepted
    BY <1>2
  <2> QED BY <1>1, <2>1, <2>2 DEF TicketPre, NoLossWhileUp
<1> QED BY <1>4, <1>5, <1>6, <1>7, <1>8 DEF TicketInv

\* A Run opens its stream, its hands on the arbitration update.
LEMMA OpenTickets ==
  ASSUME TicketPre, NEW r \in Runs, Open(r)
  PROVE  TicketInv' /\ OutboundOrder' /\ NoLossWhileUp'
<1>1. /\ UNCHANGED <<accepted, sendCh, toServer>> /\ run[r] = "idle"
      /\ run'[r] = "sending" /\ outgoing'[r] = Arbitration /\ stream'[r] = "open"
      /\ \A q \in Runs : q # r => /\ run'[q] = run[q] /\ outgoing'[q] = outgoing[q]
                                  /\ stream'[q] = stream[q]
  BY TicketTypes DEF Open, CanStart, TicketPre, outVars
<1>2. toServer[r] = <<>> /\ stream[r] = "none"
  BY <1>1 DEF TicketPre, Untouched
<1>3. Announced'
  BY <1>1, <1>2 DEF TicketPre, TicketInv, Announced, Active
<1>4. Numbered' /\ InHand' /\ Behind' /\ OutboundOrder'
  BY <1>1, <1>2 DEF TicketPre, TicketInv, Numbered, InHand, Behind, OutboundOrder
<1>5. NoLossWhileUp'
  <2> SUFFICES ASSUME \A q \in Runs : stream'[q] \in {"none", "open"},
                      NEW t \in 1 .. accepted, t \notin Tickets(sendCh)
               PROVE  \E q \in Runs : \/ run'[q] = "sending" /\ outgoing'[q] = t
                                      \/ t \in Tickets(toServer[q])
    BY <1>1 DEF NoLossWhileUp
  <2>1. \A q \in Runs : stream[q] \in {"none", "open"}
    BY <1>1, <1>2
  <2>2. PICK q \in Runs : \/ run[q] = "sending" /\ outgoing[q] = t
                          \/ t \in Tickets(toServer[q])
    BY <2>1 DEF TicketPre, NoLossWhileUp
  <2> QED BY <1>1, <2>2
<1> QED BY <1>3, <1>4, <1>5 DEF TicketInv

\* The transport takes the ticket a Run has in its hands.
LEMMA SendDoneTickets ==
  ASSUME TicketPre, NEW r \in Runs, SendDone(r)
  PROVE  TicketInv' /\ OutboundOrder' /\ NoLossWhileUp'
<1> DEFINE n == Len(toServer[r])
<1>1. /\ UNCHANGED <<accepted, sendCh, outgoing, stream>>
      /\ run[r] = "sending" /\ stream[r] = "open" /\ run'[r] = "select"
      /\ \A q \in Runs : q # r => run'[q] = run[q] /\ toServer'[q] = toServer[q]
      /\ toServer'[r] = Append(toServer[r], outgoing[r])
  BY TicketTypes DEF SendDone, TicketPre, outVars
<1>2. \A q \in Runs : outgoing[q] \in Nat /\ Len(toServer[q]) \in Nat
        /\ \A i \in 1 .. Len(toServer[q]) : toServer[q][i] \in Nat
  BY TicketTypes DEF TicketPre
<1>3. /\ Len(toServer'[r]) = n + 1 /\ toServer'[r][n + 1] = outgoing[r]
      /\ \A i \in 1 .. n : toServer'[r][i] = toServer[r][i]
  BY <1>1, TicketTypes DEF TicketPre
<1>4. \A q \in Runs : run'[q] # "sending"
  BY <1>1, OneActive DEF TicketPre, Active
<1>5. \/ outgoing[r] = Arbitration /\ n = 0
      \/ outgoing[r] # Arbitration /\ n # 0 /\ outgoing[r] + Len(sendCh) = accepted
  <2>1. outgoing[r] = Arbitration \/ toServer[r] # <<>>
    BY <1>1 DEF TicketPre, TicketInv, Announced, Active
  <2>2. \/ outgoing[r] = Arbitration /\ toServer[r] = <<>>
        \/ outgoing[r] # Arbitration /\ outgoing[r] + Len(sendCh) = accepted
    BY <1>1 DEF TicketPre, TicketInv, InHand
  <2>3. toServer[r] # <<>> => n # 0
    BY TicketTypes, EmptySeq DEF TicketPre
  <2> QED BY <2>1, <2>2, <2>3
<1>6. accepted \in Nat /\ Len(sendCh) \in Nat /\ Len(sendCh) <= accepted
  BY TicketTypes DEF TicketPre, TicketInv, Numbered
<1>7. Announced'
  <2>1. toServer'[r] # <<>>
    BY <1>2, <1>3
  <2> QED BY <1>1, <2>1 DEF TicketPre, TicketInv, Announced, Active
<1>8. Numbered' /\ InHand'
  BY <1>1, <1>4 DEF TicketPre, TicketInv, Numbered, InHand
<1>9. Behind'
  <2> SUFFICES ASSUME NEW q \in Runs, NEW i \in 1 .. Len(toServer'[q])
               PROVE  toServer'[q][i] + Len(sendCh) <= accepted
    BY <1>1, <1>4 DEF Behind
  <2>1. CASE q = r /\ i = n + 1
    BY <1>3, <1>5, <1>6, <2>1 DEF Arbitration
  <2>2. CASE q # r \/ i # n + 1
    <3>1. i \in 1 .. Len(toServer[q]) /\ toServer'[q][i] = toServer[q][i]
      <4>1. CASE q = r
        BY <1>2, <1>3, <2>2, <4>1
      <4>2. CASE q # r
        BY <1>1, <4>2
      <4> QED BY <4>1, <4>2
    <3>2. toServer[q][i] + Len(sendCh) <= accepted
      BY <3>1 DEF TicketPre, TicketInv, Behind
    <3> QED BY <3>1, <3>2
  <2> QED BY <2>1, <2>2
<1>10. \A q \in Runs : \A i \in 1 .. Len(toServer[q]) :
         outgoing[r] # Arbitration => toServer[q][i] < outgoing[r]
  BY <1>1 DEF TicketPre, TicketInv, Behind
<1>11. OutboundOrder'
  <2>1. \A q \in Runs : toServer'[q] # <<>> => toServer'[q][1] = Arbitration
    <3>1. ASSUME NEW q \in Runs, q # r, toServer'[q] # <<>>
          PROVE  toServer'[q][1] = Arbitration
      BY <1>1, <3>1 DEF TicketPre, OutboundOrder
    <3>2. ASSUME n = 0 PROVE toServer'[r][1] = Arbitration
      BY <1>3, <1>5, <3>2
    <3>3. ASSUME n # 0 PROVE toServer'[r][1] = Arbitration
      <4>1. toServer[r] # <<>>
        BY <3>3
      <4>2. toServer'[r][1] = toServer[r][1]
        BY <1>2, <1>3, <3>3
      <4> QED BY <4>1, <4>2 DEF TicketPre, OutboundOrder
    <3>4. toServer'[r][1] = Arbitration
      BY <3>2, <3>3
    <3> QED BY <3>1, <3>4
  <2>2. \A q \in Runs : \A i, j \in 1 .. Len(toServer'[q]) :
          i < j => toServer'[q][i] < toServer'[q][j]
    <3> SUFFICES ASSUME NEW i \in 1 .. Len(toServer'[r]), NEW j \in 1 .. Len(toServer'[r]), i < j
                 PROVE  toServer'[r][i] < toServer'[r][j]
      BY <1>1 DEF TicketPre, OutboundOrder
    <3>1. i \in 1 .. n /\ toServer'[r][i] = toServer[r][i]
      BY <1>2, <1>3
    <3>2. CASE j = n + 1
      BY <1>2, <1>3, <1>5, <1>10, <3>1, <3>2
    <3>3. CASE j \in 1 .. n
      BY <1>3, <3>1, <3>3 DEF TicketPre, OutboundOrder
    <3> QED BY <1>2, <1>3, <3>2, <3>3
  <2>3. ASSUME NEW p \in Runs, NEW q \in Runs, p < q,
               NEW i \in 1 .. Len(toServer'[p]), NEW j \in 2 .. Len(toServer'[q])
        PROVE  toServer'[p][i] < toServer'[q][j]
    <3>1. p # r
      <4>1. ASSUME p = r PROVE run[q] = "idle"
        BY <1>1, <2>3, <4>1, BoundAssumption DEF TicketPre, Sequential, Runs
      <4>2. ASSUME p = r PROVE FALSE
        <5>1. toServer'[q] = <<>>
          BY <1>1, <2>3, <4>1, <4>2, BoundAssumption DEF TicketPre, Untouched, Runs
        <5> QED BY <5>1
      <4> QED BY <4>2
    <3>2. toServer'[p] = toServer[p]
      BY <1>1, <3>1
    <3>3. CASE q = r /\ j = n + 1
      BY <1>2, <1>3, <1>5, <1>10, <3>2, <3>3
    <3>4. CASE q # r \/ j # n + 1
      <4>1. j \in 2 .. Len(toServer[q]) /\ toServer'[q][j] = toServer[q][j]
        <5>1. CASE q = r
          BY <1>2, <1>3, <2>3, <3>4, <5>1
        <5>2. CASE q # r
          BY <1>1, <2>3, <5>2
        <5> QED BY <5>1, <5>2
      <4>2. i \in 1 .. Len(toServer[p])
        BY <3>2
      <4>3. toServer[p][i] < toServer[q][j]
        BY <2>3, <4>1, <4>2 DEF TicketPre, OutboundOrder
      <4> QED BY <3>2, <4>1, <4>3
    <3> QED BY <3>3, <3>4
  <2> QED BY <2>1, <2>2, <2>3 DEF OutboundOrder
<1>12. NoLossWhileUp'
  <2> SUFFICES ASSUME \A q \in Runs : stream[q] \in {"none", "open"},
                      NEW t \in 1 .. accepted, t \notin Tickets(sendCh)
               PROVE  \E q \in Runs : t \in Tickets(toServer'[q])
    BY <1>1 DEF NoLossWhileUp
  <2>1. PICK q \in Runs : \/ run[q] = "sending" /\ outgoing[q] = t
                          \/ t \in Tickets(toServer[q])
    BY DEF TicketPre, NoLossWhileUp
  <2>2. CASE run[q] = "sending" /\ outgoing[q] = t
    <3>1. q = r
      BY <1>1, <2>2, OneActive DEF TicketPre, Active
    <3> QED BY <1>2, <1>3, <2>2, <3>1 DEF Tickets
  <2>3. CASE t \in Tickets(toServer[q])
    <3>1. PICK i \in 1 .. Len(toServer[q]) : t = toServer[q][i]
      BY <2>3 DEF Tickets
    <3>2. i \in 1 .. Len(toServer'[q]) /\ t = toServer'[q][i]
      BY <1>1, <1>2, <1>3, <3>1
    <3> QED BY <3>2 DEF Tickets
  <2> QED BY <2>1, <2>2, <2>3
<1> QED BY <1>7, <1>8, <1>9, <1>11, <1>12 DEF TicketInv

\* A Run takes the oldest ticket out of streamSendCh.
LEMMA SelectMessageTickets ==
  ASSUME TicketPre, NEW r \in Runs, SelectMessage(r)
  PROVE  TicketInv' /\ OutboundOrder' /\ NoLossWhileUp'
<1>1. /\ UNCHANGED <<accepted, stream, toServer>>
      /\ run[r] = "select" /\ run'[r] = "sending"
      /\ outgoing'[r] = Head(sendCh) /\ sendCh # <<>> /\ sendCh' = Tail(sendCh)
      /\ \A q \in Runs : q # r => run'[q] = run[q] /\ outgoing'[q] = outgoing[q]
  BY TicketTypes DEF SelectMessage, TicketPre, netVars
<1>2. \A q \in Runs : Len(toServer[q]) \in Nat
        /\ \A i \in 1 .. Len(toServer[q]) : toServer[q][i] \in Nat
  BY TicketTypes DEF TicketPre
<1>3. /\ Len(sendCh) \in Nat \ {0} /\ Len(sendCh') = Len(sendCh) - 1
      /\ Head(sendCh) = sendCh[1]
      /\ \A i \in 1 .. Len(sendCh') : sendCh'[i] = sendCh[i + 1]
      /\ \A i \in 1 .. Len(sendCh) : sendCh[i] \in Nat
  BY <1>1, TicketTypes, HeadTailProperties, EmptySeq DEF TicketPre
<1>4. /\ accepted \in Nat /\ Len(sendCh) <= accepted
      /\ \A i \in 1 .. Len(sendCh) : sendCh[i] + Len(sendCh) = accepted + i
  BY TicketTypes DEF TicketPre, TicketInv, Numbered
<1>5. \A q \in Runs : run'[q] = "sending" => q = r
  BY <1>1, OneActive DEF TicketPre, Active
<1>6. /\ outgoing'[r] + Len(sendCh') = accepted /\ outgoing'[r] \in Nat
      /\ outgoing'[r] # Arbitration
  BY <1>1, <1>3, <1>4 DEF Arbitration
<1>7. Announced'
  BY <1>1, OneActive DEF TicketPre, TicketInv, Announced, Active
<1>8. Numbered'
  <2>1. Len(sendCh') <= accepted'
    BY <1>1, <1>3, <1>4
  <2>2. ASSUME NEW i \in 1 .. Len(sendCh')
        PROVE  sendCh'[i] + Len(sendCh') = accepted' + i
    <3>1. i + 1 \in 1 .. Len(sendCh) /\ sendCh'[i] = sendCh[i + 1]
      BY <1>3
    <3>2. sendCh[i + 1] + Len(sendCh) = accepted + (i + 1)
      BY <1>4, <3>1
    <3>3. sendCh'[i] \in Nat /\ i \in Nat
      BY <1>3, <3>1
    <3>4. Len(sendCh') \in Nat /\ Len(sendCh) = Len(sendCh') + 1
      BY <1>3
    <3>5. accepted' = accepted /\ accepted \in Nat
      BY <1>1, <1>4
    <3> QED BY <3>1, <3>2, <3>3, <3>4, <3>5
  <2> QED BY <2>1, <2>2 DEF Numbered
<1>9. InHand'
  BY <1>1, <1>5, <1>6 DEF InHand
<1>10. Behind'
  <2> SUFFICES ASSUME NEW q \in Runs, NEW i \in 1 .. Len(toServer[q])
               PROVE  toServer[q][i] + Len(sendCh') <= accepted /\ toServer[q][i] < outgoing'[r]
    BY <1>1, <1>5 DEF Behind
  <2>1. toServer[q][i] + Len(sendCh) <= accepted
    BY DEF TicketPre, TicketInv, Behind
  <2>2. toServer[q][i] \in Nat
    BY <1>2
  <2>3. outgoing'[r] + Len(sendCh) = accepted + 1
    BY <1>3, <1>4, <1>6
  <2> QED BY <1>3, <1>4, <1>6, <2>1, <2>2, <2>3
<1>11. OutboundOrder'
  BY <1>1 DEF TicketPre, OutboundOrder
<1>12. NoLossWhileUp'
  <2> SUFFICES ASSUME \A q \in Runs : stream[q] \in {"none", "open"},
                      NEW t \in 1 .. accepted
               PROVE  \/ t \in Tickets(sendCh')
                      \/ \E q \in Runs : \/ run'[q] = "sending" /\ outgoing'[q] = t
                                         \/ t \in Tickets(toServer[q])
    BY <1>1 DEF NoLossWhileUp
  <2>1. CASE t \in Tickets(sendCh)
    <3>1. PICK i \in 1 .. Len(sendCh) : t = sendCh[i]
      BY <2>1 DEF Tickets
    <3>2. CASE i = 1
      BY <1>1, <1>3, <3>1, <3>2
    <3>3. CASE i # 1
      <4>1. i - 1 \in 1 .. Len(sendCh') /\ sendCh'[i - 1] = t
        BY <1>3, <3>1, <3>3
      <4> QED BY <4>1 DEF Tickets
    <3> QED BY <3>2, <3>3
  <2>2. CASE \E q \in Runs : \/ run[q] = "sending" /\ outgoing[q] = t
                             \/ t \in Tickets(toServer[q])
    BY <1>1, <2>2
  <2> QED BY <2>1, <2>2 DEF TicketPre, NoLossWhileUp
<1> QED BY <1>7, <1>8, <1>9, <1>10, <1>11, <1>12 DEF TicketInv

\* A Run returns, or its stream.Send fails, which it ignores.
LEMMA ReturnTickets ==
  ASSUME TicketPre, NEW r \in Runs,
         OpenFails(r) \/ SendFails(r) \/ SelectStop(r) \/ SelectError(r)
  PROVE  TicketInv' /\ OutboundOrder' /\ NoLossWhileUp'
<1>1. UNCHANGED <<accepted, sendCh, outgoing, stream, toServer>>
  BY DEF OpenFails, SendFails, SelectStop, SelectError, outVars, netVars
<1>2. /\ run'[r] \in {"select", "returned"}
      /\ run'[r] = "select" => run[r] = "sending" /\ stream[r] # "open"
      /\ run[r] = "sending" => run'[r] = "select"
      /\ \A q \in Runs : q # r => run'[q] = run[q]
  BY TicketTypes DEF OpenFails, SendFails, SelectStop, SelectError, CanStart, TicketPre
<1>3. \A q \in Runs : run'[q] = "sending" => run[q] = "sending"
  BY <1>2
<1>4. Announced'
  BY <1>1, <1>2 DEF TicketPre, TicketInv, Announced, Active
<1>5. Numbered' /\ InHand' /\ OutboundOrder'
  BY <1>1, <1>3 DEF TicketPre, TicketInv, Numbered, InHand, OutboundOrder
<1>6. Behind'
  BY <1>1, <1>3 DEF TicketPre, TicketInv, Behind
<1>7. NoLossWhileUp'
  <2>1. CASE run[r] = "sending"
    <3>1. stream[r] \notin {"none", "open"}
      BY <1>2, <2>1 DEF TicketPre, TicketInv, Announced, Active
    <3> QED BY <1>1, <3>1 DEF NoLossWhileUp
  <2>2. CASE run[r] # "sending"
    <3>1. \A q \in Runs : run[q] = "sending" => run'[q] = "sending"
      BY <1>2, <2>2
    <3> QED BY <1>1, <3>1 DEF TicketPre, NoLossWhileUp
  <2> QED BY <2>1, <2>2
<1> QED BY <1>4, <1>5, <1>6, <1>7 DEF TicketInv

\* A stream ends: from then on messages may be lost.
LEMMA StreamEndsTickets ==
  ASSUME TicketPre, NEW r \in Runs, NEW how \in {"eof", "broken"}, StreamEnds(r, how)
  PROVE  TicketInv' /\ OutboundOrder' /\ NoLossWhileUp'
<1>1. UNCHANGED <<accepted, sendCh, run, outgoing, toServer>>
  BY DEF StreamEnds, outVars, runVars
<1>2. /\ stream'[r] \in {"eof", "broken"}
      /\ \A q \in Runs : q # r => stream'[q] = stream[q]
  BY TicketTypes DEF StreamEnds, TicketPre
<1>3. Announced'
  BY <1>1, <1>2 DEF TicketPre, TicketInv, Announced, Active
<1>4. Numbered' /\ InHand' /\ Behind' /\ OutboundOrder'
  BY <1>1 DEF TicketPre, TicketInv, Numbered, InHand, Behind, OutboundOrder
<1>5. NoLossWhileUp'
  BY <1>1, <1>2 DEF NoLossWhileUp
<1> QED BY <1>3, <1>4, <1>5 DEF TicketInv

\* Every step keeps tickets in order and, until a stream ends, on their way.
LEMMA TicketStep ==
  TicketPre /\ [Next]_vars => TicketInv' /\ OutboundOrder' /\ NoLossWhileUp'
<1> SUFFICES ASSUME TicketPre, [Next]_vars
             PROVE  TicketInv' /\ OutboundOrder' /\ NoLossWhileUp'
  OBVIOUS
<1>1. CASE UNCHANGED ticketVars
  BY <1>1 DEF ticketVars, TicketPre, TicketInv, Announced, Numbered, InHand, Behind,
              OutboundOrder, NoLossWhileUp, Active
<1> QED BY TicketFrame, <1>1, AcceptTickets, OpenTickets, SendDoneTickets,
           SelectMessageTickets, ReturnTickets, StreamEndsTickets

-----------------------------------------------------------------------------
(* The invariant of the specification, and what follows from it             *)

\* The inductive invariant holds at first.
LEMMA InvInit == Init => IInv
<1> SUFFICES ASSUME Init PROVE IInv
  OBVIOUS
<1>1. TypeOK
  BY TypeInit
<1>2. RunInv
  BY DEF Init, RunInv, Sequential, Untouched, DeafOnlyAfterEOF, LeftBehindOnlyByStop, Active
<1>3. TicketInv /\ OutboundOrder /\ NoLossWhileUp
  BY DEF Init, TicketInv, Announced, Numbered, InHand, Behind, OutboundOrder,
         NoLossWhileUp, Active
<1>4. HeardStarted /\ NoStaleArbitration
  BY DEF Init, HeardStarted, NoStaleArbitration
<1> QED BY <1>1, <1>2, <1>3, <1>4 DEF IInv

\* The inductive invariant is inductive.
LEMMA InvStep == IInv /\ [Next]_vars => IInv'
<1> SUFFICES ASSUME IInv, [Next]_vars PROVE IInv'
  OBVIOUS
<1>1. TypeOK'
  BY TypeStep DEF IInv
<1>2. RunInv'
  BY SequentialStep, UntouchedStep, DeafStep, LeftBehindStep DEF IInv, RunInv
<1>3. TicketInv' /\ OutboundOrder' /\ NoLossWhileUp'
  BY TicketStep DEF IInv, RunInv, TicketPre
<1>4. HeardStarted' /\ NoStaleArbitration'
  BY HeardStep DEF IInv, RunInv
<1> QED BY <1>1, <1>2, <1>3, <1>4 DEF IInv

\* The inductive invariant holds in every reachable state of the stream client.
THEOREM Invariance == Spec => []IInv
  BY InvInit, InvStep, PTL DEF Spec

\* On every stream Run announces itself first, and the messages SendMessage
\* accepted reach the transports in the order they were accepted, none twice,
\* whatever the capacities, the number of senders and the number of reconnections.
THEOREM OutboundOrdered == Spec => []OutboundOrder
<1>1. IInv => OutboundOrder
  BY DEF IInv
<1> QED BY <1>1, Invariance, PTL

\* Until some stream ends, no message SendMessage answered nil for is lost.
THEOREM NoLoss == Spec => []NoLossWhileUp
<1>1. IInv => NoLossWhileUp
  BY DEF IInv
<1> QED BY <1>1, Invariance, PTL

\* Run goes on without a receiving goroutine only after an EOF.
THEOREM DeafRun == Spec => []DeafOnlyAfterEOF
<1>1. IInv => DeafOnlyAfterEOF
  BY DEF IInv, RunInv
<1> QED BY <1>1, Invariance, PTL

\* A Run that nobody stopped leaves no goroutine behind when it returns.
THEOREM NoGoroutineLeft == Spec => []LeftBehindOnlyByStop
<1>1. IInv => LeftBehindOnlyByStop
  BY DEF IInv, RunInv
<1> QED BY <1>1, Invariance, PTL

\* An old stream's arbitration status does not reach the application after a newer
\* stream's, unless the old Run was stopped.
THEOREM ArbitrationFresh == Spec => []NoStaleArbitration
<1>1. IInv => NoStaleArbitration
  BY DEF IInv
<1> QED BY <1>1, Invariance, PTL
=============================================================================
