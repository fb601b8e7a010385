------------------------- MODULE StreamServiceProofs -------------------------
(***************************************************************************)
(* StreamClient implements StreamService and RunOutside, for any number of *)
(* senders, Runs and messages and for any capacities.                      *)
(***************************************************************************)
EXTENDS StreamClientProofs

\* What the receiving goroutine is handing over is the last message it took, and
\* it goes to the channel of its kind.
Addressed == \A r \in Runs :
  /\ recv[r] = "message" => taken[r] > 0 /\ fromServer[r][taken[r]] = "other"
  /\ recv[r] = "arbitration" =>
       ArbitrationCh /\ taken[r] > 0 /\ fromServer[r][taken[r]] # "other"

\* Nothing is handed over at first.
LEMMA AddressedInit == Init => Addressed
  BY DEF Init, Addressed

\* What the goroutine holds stays the last message it took.
LEMMA AddressedStep == TypeOK /\ Addressed /\ [Next]_vars => Addressed'
<1> SUFFICES ASSUME TypeOK, Addressed, [Next]_vars PROVE Addressed'
  OBVIOUS
<1>1. /\ recv \in [Runs -> RecvState] /\ taken \in [Runs -> Nat]
      /\ fromServer \in [Runs -> Seq(InKind)]
      /\ \A r \in Runs : taken[r] <= Len(fromServer[r])
  BY DEF TypeOK, TypeNet, TypeIn
<1>2. \A r \in Runs : \A i \in 1 .. taken[r] : fromServer'[r][i] = fromServer[r][i]
  <2>1. CASE UNCHANGED netVars
    BY <2>1 DEF netVars
  <2>2. ASSUME NEW r \in Runs, Open(r) \/ SendDone(r) \/ ServerRead(r)
        PROVE  UNCHANGED fromServer
    BY <2>2 DEF Open, SendDone, ServerRead
  <2>3. ASSUME NEW r \in Runs, NEW kind \in InKind, ServerSend(r, kind)
        PROVE  \A q \in Runs : \A i \in 1 .. taken[q] : fromServer'[q][i] = fromServer[q][i]
    BY <1>1, <2>3 DEF ServerSend
  <2>4. ASSUME NEW r \in Runs, NEW how \in {"eof", "broken"}, StreamEnds(r, how)
        PROVE  UNCHANGED fromServer
    BY <2>4 DEF StreamEnds
  <2> QED BY NetFrame, <2>1, <2>2, <2>3, <2>4
\* A goroutine that takes nothing new keeps what it holds.
<1>3. ASSUME taken' = taken,
             \A r \in Runs : recv'[r] \in {"message", "arbitration"} => recv'[r] = recv[r]
      PROVE  Addressed'
  <2> SUFFICES ASSUME NEW r \in Runs, recv'[r] \in {"message", "arbitration"}
               PROVE  /\ recv'[r] = "message" => taken[r] > 0 /\ fromServer'[r][taken[r]] = "other"
                      /\ recv'[r] = "arbitration" =>
                           ArbitrationCh /\ taken[r] > 0 /\ fromServer'[r][taken[r]] # "other"
    BY <1>3 DEF Addressed
  <2>1. recv[r] = recv'[r] /\ taken[r] \in Nat
    BY <1>1, <1>3
  <2>2. taken[r] > 0 => fromServer'[r][taken[r]] = fromServer[r][taken[r]]
    BY <1>2, <2>1
  <2> QED BY <2>1, <2>2 DEF Addressed
<1>4. ASSUME NEW q \in Runs, Open(q) \/ SelectError(q) \/ RecvEOF(q) \/ RecvError(q)
      PROVE  Addressed'
  <2>1. PICK to \in {"recv", "done", "error"} : recv' = [recv EXCEPT ![q] = to]
    BY <1>4 DEF Open, SelectError, RecvEOF, RecvError
  <2>2. taken' = taken
    BY <1>4 DEF Open, SelectError, RecvEOF, RecvError
  <2> QED BY <1>1, <1>3, <2>1, <2>2
<1>5. ASSUME NEW q \in Runs, DeliverArbitration(q) \/ DeliverMessage(q)
      PROVE  Addressed'
  <2>1. taken' = taken /\ recv' = [recv EXCEPT ![q] = "recv"]
    BY <1>5 DEF DeliverArbitration, DeliverMessage
  <2> QED BY <1>1, <1>3, <2>1
<1>6. ASSUME NEW q \in Runs, RecvMessage(q) PROVE Addressed'
  <2> DEFINE kind == fromServer[q][taken[q] + 1]
  <2>1. PICK to \in {"recv", "arbitration", "message"} :
          /\ recv' = [recv EXCEPT ![q] = to]
          /\ to = "message" => kind = "other"
          /\ to = "arbitration" => ArbitrationCh /\ kind # "other"
    BY <1>6 DEF RecvMessage
  <2>2. taken' = [taken EXCEPT ![q] = @ + 1] /\ fromServer' = fromServer
    BY <1>6 DEF RecvMessage, netVars
  <2> QED BY <1>1, <2>1, <2>2 DEF Addressed
<1>7. CASE ReadMessage \/ UNCHANGED inVars
  BY <1>3, <1>7 DEF ReadMessage, inVars
<1> QED BY InFrame, <1>4, <1>5, <1>6, <1>7

-----------------------------------------------------------------------------
(* The mapped state                                                         *)

mapped == <<accepted, Gone, toServer, stream, fromServer,
            [r \in Runs |-> Handled(r)], arbSeen, messageLog>>

\* The mapped variables only change with the variables they are made of.
LEMMA Stutter ==
  ASSUME UNCHANGED <<accepted, sendCh, toServer, stream, fromServer, recv, taken,
                     arbSeen, messageLog>>,
         InTransit' <=> InTransit
  PROVE  UNCHANGED mapped
  BY DEF mapped, Gone, Handled

\* Only the Run that is active can have a message in transit.
LEMMA TransitOf ==
  ASSUME Sequential, NEW r \in Runs, Active(r)
  PROVE  InTransit <=> run[r] = "sending" /\ outgoing[r] # Arbitration
  BY OneActive DEF InTransit, Active

-----------------------------------------------------------------------------
(* Outbound                                                                 *)

\* A message accepted is a message submitted.
LEMMA AcceptRefines ==
  ASSUME TypeOK, NEW s \in Senders, Accept(s) PROVE Service!Submit
<1>1. UNCHANGED <<toServer, stream, fromServer, recv, taken, arbSeen, messageLog>>
  BY DEF Accept, netVars, inVars
<1>2. accepted' = accepted + 1 /\ (InTransit' <=> InTransit)
  BY DEF Accept, runVars, InTransit
<1>3. Len(sendCh') = Len(sendCh) + 1 /\ Len(sendCh) \in Nat /\ accepted \in Nat
  BY TicketTypes DEF Accept
<1>4. Gone' = Gone
  BY <1>2, <1>3 DEF Gone
<1> QED BY <1>1, <1>2, <1>4 DEF Service!Submit, Service!in, Handled

\* Run takes a message from streamSendCh: it is in transit, not gone.
LEMMA SelectMessageRefines ==
  ASSUME TypeOK, Sequential, Numbered, NEW r \in Runs, SelectMessage(r)
  PROVE  UNCHANGED mapped
<1>1. UNCHANGED <<accepted, toServer, stream, fromServer, recv, taken, arbSeen, messageLog>>
  BY DEF SelectMessage, netVars, inVars
<1>2. /\ accepted \in Nat /\ sendCh \in Seq(Nat) /\ sendCh # <<>>
      /\ run \in [Runs -> RunState] /\ outgoing \in [Runs -> Nat]
  BY TicketTypes DEF SelectMessage
<1>3. Len(sendCh) \in Nat \ {0} /\ Len(sendCh') = Len(sendCh) - 1
  BY <1>2 DEF SelectMessage
<1>4. Head(sendCh) # Arbitration
  BY <1>2, <1>3 DEF Numbered, Arbitration
<1>5. ~InTransit
  BY TransitOf DEF SelectMessage, Active
<1>6. InTransit'
  BY <1>2, <1>4 DEF SelectMessage, InTransit
<1>7. Gone' = Gone
  BY <1>1, <1>2, <1>3, <1>5, <1>6 DEF Gone
<1> QED BY <1>1, <1>7 DEF mapped, Handled

\* What Run passed to stream.Send has left, in its turn.
LEMMA SendDoneRefines ==
  ASSUME TypeOK, Sequential, TicketInv, NEW r \in Runs, SendDone(r)
  PROVE  Service!Announce(r) \/ Service!Transmit(r)
<1>1. UNCHANGED <<accepted, sendCh, stream, fromServer, recv, taken, arbSeen, messageLog>>
  BY DEF SendDone, outVars, inVars
<1>2. /\ accepted \in Nat /\ Len(sendCh) \in Nat
      /\ run \in [Runs -> RunState] /\ outgoing \in [Runs -> Nat]
      /\ toServer \in [Runs -> Seq(Nat)]
  BY TicketTypes
<1>3. /\ Active(r) /\ run[r] = "sending" /\ stream[r] = "open"
      /\ toServer' = [toServer EXCEPT ![r] = Append(@, outgoing[r])]
      /\ run' = [run EXCEPT ![r] = "select"] /\ outgoing' = outgoing
  BY DEF SendDone, Active
<1>4. InTransit <=> outgoing[r] # Arbitration
  BY <1>3, TransitOf
<1>5. ~InTransit'
  BY <1>2, <1>3, OneActive DEF InTransit, Active
<1>6. CASE outgoing[r] = Arbitration
  <2>1. toServer[r] = <<>>
    BY <1>3, <1>6 DEF TicketInv, InHand
  <2>2. Append(toServer[r], Arbitration) = <<Arbitration>>
    BY <2>1
  <2>3. toServer' = [toServer EXCEPT ![r] = <<Arbitration>>]
    BY <1>3, <1>6, <2>2
  <2>4. Gone' = Gone
    BY <1>1, <1>4, <1>5, <1>6 DEF Gone
  <2> QED BY <1>1, <1>3, <2>1, <2>3, <2>4 DEF Service!Announce, Service!in, Handled
<1>7. CASE outgoing[r] # Arbitration
  <2>1. outgoing[r] + Len(sendCh) = accepted
    BY <1>3, <1>7 DEF TicketInv, InHand
  <2>2. toServer[r] # <<>>
    BY <1>3, <1>7 DEF TicketInv, Announced
  <2>3. Gone + 1 = outgoing[r] /\ Gone < accepted
    BY <1>2, <1>4, <1>7, <2>1 DEF Gone
  <2>4. Gone' = Gone + 1
    BY <1>1, <1>2, <1>4, <1>5, <1>7 DEF Gone
  <2>5. toServer' = [toServer EXCEPT ![r] = Append(@, Gone + 1)]
    BY <1>3, <2>3
  <2> QED BY <1>1, <1>3, <2>2, <2>3, <2>4, <2>5 DEF Service!Transmit, Service!in, Handled
<1> QED BY <1>6, <1>7

\* A send on a stream that is over loses the message Run had in hand, if any.
LEMMA SendFailsRefines ==
  ASSUME TypeOK, Sequential, TicketInv, NEW r \in Runs, SendFails(r)
  PROVE  Service!Lose(r) \/ UNCHANGED mapped
<1>1. UNCHANGED <<accepted, sendCh, toServer, stream, fromServer, recv, taken,
                  arbSeen, messageLog>>
  BY DEF SendFails, outVars, netVars, inVars
<1>2. /\ accepted \in Nat /\ Len(sendCh) \in Nat /\ run \in [Runs -> RunState]
      /\ outgoing \in [Runs -> Nat] /\ stream \in [Runs -> StreamState]
  BY TicketTypes
<1>3. /\ Active(r) /\ run[r] = "sending" /\ stream[r] # "open"
      /\ run' = [run EXCEPT ![r] = "select"] /\ outgoing' = outgoing
  BY DEF SendFails, Active
<1>4. InTransit <=> outgoing[r] # Arbitration
  BY <1>3, TransitOf
<1>5. ~InTransit'
  BY <1>2, <1>3, OneActive DEF InTransit, Active
<1>6. CASE outgoing[r] = Arbitration
  BY <1>1, <1>4, <1>5, <1>6, Stutter
<1>7. CASE outgoing[r] # Arbitration
  <2>1. outgoing[r] + Len(sendCh) = accepted
    BY <1>3, <1>7 DEF TicketInv, InHand
  <2>2. Gone < accepted /\ Gone' = Gone + 1
    BY <1>1, <1>2, <1>4, <1>5, <1>7, <2>1 DEF Gone
  <2>3. stream[r] \in {"eof", "broken"}
    BY <1>2, <1>3 DEF TicketInv, Announced, StreamState
  <2> QED BY <1>1, <2>2, <2>3 DEF Service!Lose, Service!in, Handled
<1> QED BY <1>6, <1>7

\* A Run starts with a new stream and nothing but its announcement in hand.
LEMMA OpenRefines ==
  ASSUME TypeOK, Untouched, NEW r \in Runs, Open(r) PROVE Service!Opens(r)
<1>1. UNCHANGED <<accepted, sendCh, toServer, fromServer, taken, arbSeen, messageLog>>
  BY DEF Open, outVars
<1>2. /\ run[r] = "idle" /\ run \in [Runs -> RunState] /\ outgoing \in [Runs -> Nat]
      /\ run' = [run EXCEPT ![r] = "sending"]
      /\ outgoing' = [outgoing EXCEPT ![r] = Arbitration]
  BY TicketTypes DEF Open, CanStart
<1>3. stream[r] = "none" /\ recv[r] = "none"
  BY <1>2 DEF Untouched
<1>4. InTransit' <=> InTransit
  BY <1>2 DEF InTransit
<1>5. stream' = [stream EXCEPT ![r] = "open"] /\ recv' = [recv EXCEPT ![r] = "recv"]
  BY DEF Open
<1>6. recv \in [Runs -> RecvState]
  BY DEF TypeOK, TypeIn
<1>7. \A q \in Runs : Handled(q)' = Handled(q)
  BY <1>1, <1>3, <1>5, <1>6 DEF Handled
<1> QED BY <1>1, <1>3, <1>4, <1>5, <1>7 DEF Service!Opens, Service!out, Service!in, Gone

\* A Run that returns takes nothing with it.
LEMMA ReturnStutters ==
  ASSUME TypeOK, NEW r \in Runs, OpenFails(r) \/ SelectStop(r) \/ SelectError(r)
  PROVE  UNCHANGED mapped
<1>1. UNCHANGED <<accepted, sendCh, toServer, stream, fromServer, taken, arbSeen, messageLog>>
  BY DEF OpenFails, SelectStop, SelectError, outVars, netVars, inVars
<1>2. /\ run[r] # "sending" /\ run' = [run EXCEPT ![r] = "returned"]
      /\ outgoing' = outgoing /\ run \in [Runs -> RunState]
  BY TicketTypes DEF OpenFails, SelectStop, SelectError, CanStart
<1>3. InTransit' <=> InTransit
  BY <1>2 DEF InTransit
<1>4. \A q \in Runs : Handled(q)' = Handled(q)
  <2>1. CASE OpenFails(r) \/ SelectStop(r)
    BY <2>1 DEF OpenFails, SelectStop, inVars, Handled
  <2>2. CASE SelectError(r)
    BY <1>1, <2>2 DEF SelectError, TypeOK, TypeIn, Handled
  <2> QED BY <2>1, <2>2
<1> QED BY <1>1, <1>3, <1>4 DEF mapped, Gone

-----------------------------------------------------------------------------
(* Inbound                                                                  *)

\* The steps of the receiving goroutine leave the other side alone.
LEMMA InboundFrame ==
  ASSUME NEW r \in Runs,
         \/ RecvMessage(r) \/ RecvEOF(r) \/ RecvError(r)
         \/ DeliverArbitration(r) \/ DeliverMessage(r)
  PROVE  /\ UNCHANGED <<accepted, toServer, stream, fromServer>>
         /\ Gone' = Gone
<1>1. UNCHANGED <<accepted, sendCh, run, outgoing, toServer, stream, fromServer>>
  BY DEF RecvMessage, RecvEOF, RecvError, DeliverArbitration, DeliverMessage,
         outVars, runVars, netVars
<1> QED BY <1>1 DEF Gone, InTransit

\* A message taken from the stream is handled at once only if it is an
\* arbitration status nobody asked for; the others are in hand.
LEMMA RecvMessageRefines ==
  ASSUME TypeOK, NEW r \in Runs, RecvMessage(r)
  PROVE  Service!Handle(r) \/ UNCHANGED mapped
<1> DEFINE kind == fromServer[r][taken[r] + 1]
<1>1. /\ recv \in [Runs -> RecvState] /\ taken \in [Runs -> Nat]
      /\ fromServer \in [Runs -> Seq(InKind)]
  BY DEF TypeOK, TypeNet, TypeIn
<1>2. /\ recv[r] = "recv" /\ taken[r] + 1 <= Len(fromServer[r])
      /\ taken' = [taken EXCEPT ![r] = @ + 1]
      /\ UNCHANGED <<arbSeen, messageLog>>
  BY <1>1 DEF RecvMessage
<1>3. CASE kind = "other" \/ ArbitrationCh
  <2>1. PICK to \in {"message", "arbitration"} : recv' = [recv EXCEPT ![r] = to]
    BY <1>3 DEF RecvMessage
  <2>2. \A q \in Runs : Handled(q)' = Handled(q)
    BY <1>1, <1>2, <2>1 DEF Handled
  <2> QED BY <1>2, <2>2, InboundFrame DEF mapped
<1>4. CASE kind # "other" /\ ~ArbitrationCh
  <2>1. recv' = [recv EXCEPT ![r] = "recv"]
    BY <1>4 DEF RecvMessage
  <2>2. Handled(r) = taken[r] /\ Handled(r)' = taken[r] + 1
        /\ \A q \in Runs \ {r} : Handled(q)' = Handled(q)
    BY <1>1, <1>2, <2>1 DEF Handled
  <2>3. [q \in Runs |-> Handled(q)]' =
          [[q \in Runs |-> Handled(q)] EXCEPT ![r] = Handled(r) + 1]
    BY <2>2
  <2> QED BY <1>2, <1>4, <2>2, <2>3, InboundFrame DEF Service!Handle, Service!out
<1> QED BY <1>3, <1>4

\* What the goroutine hands over is the next message to be handled.
LEMMA DeliverRefines ==
  ASSUME TypeOK, Addressed, NEW r \in Runs, DeliverArbitration(r) \/ DeliverMessage(r)
  PROVE  Service!Handle(r)
<1>1. /\ recv \in [Runs -> RecvState] /\ taken \in [Runs -> Nat]
      /\ fromServer \in [Runs -> Seq(InKind)] /\ taken[r] <= Len(fromServer[r])
  BY DEF TypeOK, TypeNet, TypeIn
<1>2. taken[r] > 0 /\ recv[r] \in {"arbitration", "message"}
  BY DEF Addressed, DeliverArbitration, DeliverMessage
<1>3. taken' = taken /\ recv' = [recv EXCEPT ![r] = "recv"]
  BY DEF DeliverArbitration, DeliverMessage
<1>4. Handled(r) + 1 = taken[r] /\ Handled(r)' = taken[r]
      /\ \A q \in Runs \ {r} : Handled(q)' = Handled(q)
  BY <1>1, <1>2, <1>3 DEF Handled
<1>5. [q \in Runs |-> Handled(q)]' =
        [[q \in Runs |-> Handled(q)] EXCEPT ![r] = Handled(r) + 1]
  BY <1>4
<1>6. CASE DeliverArbitration(r)
  <2>1. ArbitrationCh /\ fromServer[r][taken[r]] # "other"
    BY <1>6 DEF DeliverArbitration, Addressed
  <2>2. /\ arbSeen' = Append(arbSeen, <<r, fromServer[r][taken[r]] = "primary">>)
        /\ messageLog' = messageLog
    BY <1>6 DEF DeliverArbitration
  <2> QED BY <1>1, <1>4, <1>5, <2>1, <2>2, InboundFrame DEF Service!Handle, Service!out
<1>7. CASE DeliverMessage(r)
  <2>1. fromServer[r][taken[r]] = "other"
    BY <1>7 DEF DeliverMessage, Addressed
  <2>2. messageLog' = Append(messageLog, <<r, taken[r]>>) /\ arbSeen' = arbSeen
    BY <1>7 DEF DeliverMessage
  <2> QED BY <1>1, <1>4, <1>5, <2>1, <2>2, InboundFrame DEF Service!Handle, Service!out
<1> QED BY <1>6, <1>7

\* An error or the end of the stream is not a message.
LEMMA RecvEndStutters ==
  ASSUME TypeOK, NEW r \in Runs, RecvEOF(r) \/ RecvError(r) PROVE UNCHANGED mapped
<1>1. recv[r] = "recv" /\ UNCHANGED <<taken, arbSeen, messageLog>>
  BY DEF RecvEOF, RecvError
<1>2. PICK to \in {"done", "error"} : recv' = [recv EXCEPT ![r] = to]
  BY DEF RecvEOF, RecvError
<1>3. \A q \in Runs : Handled(q)' = Handled(q)
  BY <1>1, <1>2 DEF Handled, TypeOK, TypeIn
<1> QED BY <1>1, <1>3, InboundFrame DEF mapped

-----------------------------------------------------------------------------
(* The environment, and the theorem                                         *)

\* The server speaks and the stream ends as StreamService has it.
LEMMA EnvironmentRefines ==
  ASSUME TypeOK, NEW r \in Runs, Environment(r)
  PROVE  \/ \E kind \in InKind : Service!Say(r, kind)
         \/ \E how \in {"eof", "broken"} : Service!Ends(r, how)
         \/ UNCHANGED mapped
<1>1. UNCHANGED <<accepted, sendCh, run, outgoing, toServer, recv, taken, arbSeen, messageLog>>
  BY DEF Environment, Stop, ServerRead, ServerSend, StreamEnds, outVars, runVars, netVars, inVars
<1>2. Gone' = Gone /\ \A q \in Runs : Handled(q)' = Handled(q)
  BY <1>1 DEF Gone, InTransit, Handled
<1>3. CASE Stop(r) \/ ServerRead(r)
  BY <1>1, <1>2, <1>3 DEF Stop, ServerRead, netVars, mapped
<1>4. ASSUME NEW kind \in InKind, ServerSend(r, kind) PROVE Service!Say(r, kind)
  <2>1. toServer[r] # <<>>
    BY <1>4 DEF ServerSend, TypeOK, TypeNet
  <2> QED BY <1>1, <1>2, <1>4, <2>1 DEF ServerSend, Service!Say, Service!out
<1>5. ASSUME NEW how \in {"eof", "broken"}, StreamEnds(r, how) PROVE Service!Ends(r, how)
  BY <1>1, <1>2, <1>5 DEF StreamEnds, Service!Ends, Service!out, Service!in
<1> QED BY <1>3, <1>4, <1>5 DEF Environment

\* Initial states map to initial states.
LEMMA ServiceInit == Init => Service!Init
<1> SUFFICES ASSUME Init PROVE Service!Init
  OBVIOUS
<1>1. ~InTransit
  BY DEF Init, InTransit
<1>2. accepted = 0 /\ Len(sendCh) = 0
  BY DEF Init
<1>3. [r \in Runs |-> Handled(r)] = [r \in Runs |-> 0]
  BY DEF Init, Handled
<1>4. Gone = 0
  <2>1. Gone = accepted - Len(sendCh) - 0
    BY <1>1 DEF Gone
  <2> QED BY <1>2, <2>1
<1> QED BY <1>3, <1>4 DEF Init, Service!Init

\* Every step maps to a step or a stutter.
LEMMA ServiceStep == IInv /\ Addressed /\ [Next]_vars => [Service!Next]_(Service!vars)
<1> SUFFICES ASSUME IInv, Addressed, [Next]_vars
             PROVE  Service!Next \/ UNCHANGED mapped
  BY DEF Service!vars, Service!out, Service!in, mapped
<1>1. TypeOK /\ Sequential /\ Untouched /\ TicketInv /\ Numbered
  BY DEF IInv, RunInv, TicketInv
<1>2. ASSUME NEW s \in Senders, SendMessage(s) PROVE Service!Next \/ UNCHANGED mapped
  <2>1. CASE Accept(s)
    BY <1>1, <2>1, AcceptRefines DEF Service!Next
  <2>2. CASE Call(s) \/ GiveUp(s)
    BY <2>2, Stutter DEF Call, GiveUp, runVars, netVars, inVars, InTransit
  <2> QED BY <1>2, <2>1, <2>2 DEF SendMessage
<1>3. ASSUME NEW r \in Runs, RunStep(r) PROVE Service!Next \/ UNCHANGED mapped
  <2>1. CASE Open(r)
    BY <1>1, <2>1, OpenRefines DEF Service!Next
  <2>2. CASE SendDone(r)
    BY <1>1, <2>2, SendDoneRefines DEF Service!Next
  <2>3. CASE SendFails(r)
    BY <1>1, <2>3, SendFailsRefines DEF Service!Next
  <2>4. CASE SelectMessage(r)
    BY <1>1, <2>4, SelectMessageRefines
  <2>5. CASE OpenFails(r) \/ SelectStop(r) \/ SelectError(r)
    BY <1>1, <2>5, ReturnStutters
  <2> QED BY <1>3, <2>1, <2>2, <2>3, <2>4, <2>5 DEF RunStep
<1>4. ASSUME NEW r \in Runs, ReceiverStep(r) PROVE Service!Next \/ UNCHANGED mapped
  BY <1>1, <1>4, RecvMessageRefines, DeliverRefines, RecvEndStutters
     DEF ReceiverStep, Service!Next
<1>5. ASSUME NEW r \in Runs, Environment(r) PROVE Service!Next \/ UNCHANGED mapped
  BY <1>1, <1>5, EnvironmentRefines DEF Service!Next
<1>6. CASE ReadMessage \/ UNCHANGED vars
  BY <1>6, Stutter DEF ReadMessage, vars, outVars, runVars, netVars, inVars, InTransit
<1> QED BY <1>2, <1>3, <1>4, <1>5, <1>6 DEF Next

\* The client keeps the promise of StreamService, whatever the number of senders
\* and of calls of Run and whatever the capacities: messages leave in the order
\* they were accepted, each once, lost only with a stream, and what the server
\* says is handled completely and in order.
THEOREM StreamRefinement == Spec => ServiceSpec
<1>1. Spec => []Addressed
  BY AddressedInit, AddressedStep, TypeCorrect, PTL DEF Spec
<1> QED BY <1>1, ServiceInit, ServiceStep, Invariance, PTL DEF Spec, ServiceSpec, Service!Spec

-----------------------------------------------------------------------------
(* Run and its goroutine, seen from outside                                 *)

\* The steps of Run r itself.
LEMMA RunStepSeen ==
  ASSUME TypeOK, NEW r \in Runs, RunStep(r)
  PROVE  [Outside(r)!Next]_(Outside(r)!vars)
<1> USE DEF TypeOK, TypeRun, TypeIn, RunState, RecvState, RunSeen, RecvSeen, Outside!Next, Outside!vars
<1>1. CASE Open(r)
  BY <1>1 DEF Open, CanStart, Outside!Opens
<1>2. CASE OpenFails(r)
  BY <1>2 DEF OpenFails, CanStart, inVars, Outside!OpenFails
<1>3. CASE SendDone(r) \/ SendFails(r) \/ SelectMessage(r)
  <2>1. /\ run[r] \in {"sending", "select"} /\ UNCHANGED <<stopped, recv>>
        /\ \E at \in {"sending", "select"} : run' = [run EXCEPT ![r] = at]
    BY <1>3 DEF SendDone, SendFails, SelectMessage, inVars
  <2>2. run'[r] \in {"sending", "select"}
    BY <2>1
  <2> QED BY <2>1, <2>2
<1>4. CASE SelectStop(r)
  BY <1>4 DEF SelectStop, inVars, Outside!ReturnsStopped
<1>5. CASE SelectError(r)
  BY <1>5 DEF SelectError, Outside!Ends
<1> QED BY <1>1, <1>2, <1>3, <1>4, <1>5 DEF RunStep

\* The steps of the goroutine Run r has started.
LEMMA ReceiverStepSeen ==
  ASSUME TypeOK, NEW r \in Runs, ReceiverStep(r)
  PROVE  [Outside(r)!Next]_(Outside(r)!vars)
<1> USE DEF TypeOK, TypeRun, TypeIn, RunState, RecvState, RunSeen, RecvSeen, runVars,
            Outside!Next, Outside!vars
<1>1. CASE RecvMessage(r)
  <2>1. recv'[r] \in {"recv", "arbitration", "message"} /\ recv[r] = "recv" /\ UNCHANGED runVars
    BY <1>1 DEF RecvMessage
  <2> QED BY <2>1 DEF Outside!Receives
<1>2. CASE RecvEOF(r)
  BY <1>2 DEF RecvEOF, Outside!Ends
<1>3. CASE RecvError(r)
  BY <1>3 DEF RecvError
<1>4. CASE DeliverArbitration(r)
  BY <1>4 DEF DeliverArbitration, Outside!Delivers
<1>5. CASE DeliverMessage(r)
  BY <1>5 DEF DeliverMessage, Outside!Delivers
<1> QED BY <1>1, <1>2, <1>3, <1>4, <1>5 DEF ReceiverStep

\* Everybody else touches Run r at most by telling it to stop.
LEMMA OthersSeen ==
  ASSUME TypeOK, NEW r \in Runs,
         \/ \E s \in Senders : SendMessage(s)
         \/ \E q \in Runs \ {r} : RunStep(q) \/ ReceiverStep(q)
         \/ \E q \in Runs : Environment(q)
         \/ ReadMessage
         \/ UNCHANGED vars
  PROVE  [Outside(r)!Next]_(Outside(r)!vars)
<1> DEFINE Same == run'[r] = run[r] /\ recv'[r] = recv[r] /\ stopped'[r] = stopped[r]
<1>1. ASSUME Same PROVE [Outside(r)!Next]_(Outside(r)!vars)
  BY <1>1 DEF Outside!vars, RunSeen, RecvSeen
<1>2. CASE ReadMessage \/ UNCHANGED vars \/ \E s \in Senders : SendMessage(s)
  BY <1>1, <1>2 DEF ReadMessage, vars, SendMessage, Call, Accept, GiveUp, runVars, inVars
<1> USE DEF TypeOK, TypeRun, TypeIn
<1>3. ASSUME NEW q \in Runs \ {r}, RunStep(q) PROVE Same
  BY <1>3 DEF RunStep, Open, OpenFails, SendDone, SendFails, SelectMessage, SelectStop,
              SelectError, inVars
<1>4. ASSUME NEW q \in Runs \ {r}, ReceiverStep(q) PROVE Same
  BY <1>4 DEF ReceiverStep, RecvMessage, RecvEOF, RecvError, DeliverArbitration,
              DeliverMessage, runVars
<1>5. ASSUME NEW q \in Runs, Environment(q) PROVE [Outside(r)!Next]_(Outside(r)!vars)
  <2>1. CASE Stop(q)
    <3>1. CASE q = r
      BY <2>1, <3>1 DEF Stop, inVars, Outside!Next, Outside!Stop, RunSeen, RecvSeen
    <3>2. CASE q # r
      BY <1>1, <2>1, <3>2 DEF Stop, inVars
    <3> QED BY <3>1, <3>2
  <2>2. CASE ServerRead(q) \/ \E kind \in InKind : ServerSend(q, kind)
    BY <1>1, <2>2 DEF ServerRead, ServerSend, runVars, inVars
  <2>3. CASE \E how \in {"eof", "broken"} : StreamEnds(q, how)
    BY <1>1, <2>3 DEF StreamEnds, runVars, inVars
  <2> QED BY <1>5, <2>1, <2>2, <2>3 DEF Environment
<1> QED BY <1>1, <1>2, <1>3, <1>4, <1>5

\* However many Runs, senders and capacities there are, each Run with its goroutine is
\* the Run that Lifecycle is built on.
THEOREM RunsSeen == Spec => RunAsSeen
<1> DEFINE Seen == \A r \in Runs : [Outside(r)!Next]_(Outside(r)!vars)
<1>1. Init => \A r \in Runs : Outside(r)!Init
  BY DEF Init, Outside!Init, RunSeen, RecvSeen
<1>2. TypeOK /\ [Next]_vars => [Seen]_vars
  <2> SUFFICES ASSUME TypeOK, [Next]_vars, NEW r \in Runs
               PROVE  [Outside(r)!Next]_(Outside(r)!vars)
    OBVIOUS
  <2>1. CASE RunStep(r)
    BY <2>1, RunStepSeen
  <2>2. CASE ReceiverStep(r)
    BY <2>2, ReceiverStepSeen
  <2>3. CASE ~(RunStep(r) \/ ReceiverStep(r))
    BY <2>3, OthersSeen DEF Next
  <2> QED BY <2>1, <2>2, <2>3
<1> HIDE DEF Seen
<1> QED BY <1>1, <1>2, TypeCorrect, PTL DEF Spec, RunAsSeen, Seen
=============================================================================
