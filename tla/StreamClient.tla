---------------------------- MODULE StreamClient ----------------------------
(***************************************************************************)
(* The bidirectional stream of a P4Runtime client (pkg/client/client.go):  *)
(* Client.Run with its two goroutines, Client.SendMessage, and what they   *)
(* share: streamSendCh, connStatusCh and the caller's two channels.        *)
(*                                                                         *)
(* Processes: the goroutines blocked in SendMessage, one Run per call of   *)
(* it (the calls follow one another, as in a caller that runs again after  *)
(* an error), the receiving goroutine each Run starts, the application     *)
(* reading its channels, and, external, the gRPC stream and its server.    *)
(*                                                                         *)
(* An outgoing message is named by its ticket: its rank among the          *)
(* messages streamSendCh accepted.  Ticket 0 is the arbitration update     *)
(* that Run itself sends.                                                  *)
(***************************************************************************)
EXTENDS Naturals, Sequences

CONSTANTS
  Senders,        \* goroutines that call SendMessage
  Background,     \* the senders whose context is never done
  SendCap,        \* capacity of streamSendCh (1000 in NewClientForRole)
  MessageCap,     \* capacity of messageCh; 0 stands for a nil messageCh
  ArbitrationCh,  \* TRUE iff the caller passes a non-nil arbitrationCh
  Window,         \* messages the transport takes before the server reads
  MaxCalls,       \* bound on the calls of SendMessage
  MaxRuns,        \* bound on the calls of Run
  MaxIn           \* bound on the messages of the server on one stream

ASSUME SendersAssumption == Background \subseteq Senders
ASSUME CapacityAssumption ==
  /\ SendCap \in Nat \ {0}
  /\ MessageCap \in Nat
  /\ Window \in Nat \ {0}
  /\ ArbitrationCh \in BOOLEAN
ASSUME BoundAssumption == MaxCalls \in Nat /\ MaxRuns \in Nat /\ MaxIn \in Nat

Runs == 1 .. MaxRuns

Arbitration == 0                         \* the ticket of MasterArbitrationUpdate
RunState  == {"idle", "sending", "select", "returned"}
RecvState == {"none", "recv", "arbitration", "message", "error", "done"}
StreamState == {"none", "open", "eof", "broken"}
InKind == {"primary", "backup", "other"} \* arbitration OK, not OK; anything else

VARIABLES
  calls,        \* number of calls of SendMessage so far
  waiting,      \* the senders inside SendMessage
  accepted,     \* number of messages streamSendCh has accepted
  sendCh,       \* streamSendCh: the tickets it holds, oldest first
  run,          \* run[r]: where the r-th Run is
  outgoing,     \* outgoing[r]: the ticket Run r is passing to stream.Send
  stopped,      \* stopped[r]: the stopCh of Run r is closed
  recv,         \* recv[r]: where the receiving goroutine of Run r is
  stream,       \* stream[r]: state of the stream of Run r
  toServer,     \* toServer[r]: tickets the transport took on stream r
  serverRead,   \* serverRead[r]: how many of them the server has read
  fromServer,   \* fromServer[r]: kinds of the messages the server sent
  taken,        \* taken[r]: how many of them Recv has returned
  arbSeen,      \* what the application received on arbitrationCh: <<r, bool>>
  messageLog,   \* what was put on messageCh: <<r, index in fromServer[r]>>
  messageRead   \* how many of those the application has read

outVars == <<calls, waiting, accepted, sendCh>>
runVars == <<run, outgoing, stopped>>
netVars == <<stream, toServer, serverRead, fromServer>>
inVars  == <<recv, taken, arbSeen, messageLog, messageRead>>
vars    == <<outVars, runVars, netVars, inVars>>

Init ==
  /\ calls = 0 /\ waiting = {} /\ accepted = 0 /\ sendCh = <<>>
  /\ run = [r \in Runs |-> "idle"]
  /\ outgoing = [r \in Runs |-> Arbitration]
  /\ stopped = [r \in Runs |-> FALSE]
  /\ recv = [r \in Runs |-> "none"]
  /\ stream = [r \in Runs |-> "none"]
  /\ toServer = [r \in Runs |-> <<>>]
  /\ serverRead = [r \in Runs |-> 0]
  /\ fromServer = [r \in Runs |-> <<>>]
  /\ taken = [r \in Runs |-> 0]
  /\ arbSeen = <<>> /\ messageLog = <<>> /\ messageRead = 0

-----------------------------------------------------------------------------
(* SendMessage, called directly or by SendPacketOut and AckDigestList       *)

Call(s) ==
  /\ s \notin waiting /\ calls < MaxCalls
  /\ calls' = calls + 1
  /\ waiting' = waiting \cup {s}
  /\ UNCHANGED <<accepted, sendCh, runVars, netVars, inVars>>

\* The case c.streamSendCh <- msg of its select: SendMessage returns nil.
Accept(s) ==
  /\ s \in waiting /\ Len(sendCh) < SendCap
  /\ accepted' = accepted + 1
  /\ sendCh' = Append(sendCh, accepted + 1)
  /\ waiting' = waiting \ {s}
  /\ UNCHANGED <<calls, runVars, netVars, inVars>>

\* The case <-ctx.Done(): SendMessage returns ctx.Err(), the message is not sent.
GiveUp(s) ==
  /\ s \in waiting \ Background
  /\ waiting' = waiting \ {s}
  /\ UNCHANGED <<calls, accepted, sendCh, runVars, netVars, inVars>>

-----------------------------------------------------------------------------
(* Run: its body and its select loop                                        *)

CanStart(r) == run[r] = "idle" /\ \A q \in 1 .. r - 1 : run[q] = "returned"

\* Mutant of Open: Run forgets to announce itself.
OpenUnannounced(r) ==
  /\ CanStart(r)
  /\ run' = [run EXCEPT ![r] = "select"]
  /\ stream' = [stream EXCEPT ![r] = "open"]
  /\ recv' = [recv EXCEPT ![r] = "recv"]
  /\ UNCHANGED <<outVars, outgoing, stopped, toServer, serverRead, fromServer,
                 taken, arbSeen, messageLog, messageRead>>

\* StreamChannel succeeds: the receiving goroutine starts, Run turns to
\* stream.Send of the arbitration update.
Open(r) ==
  /\ CanStart(r)
  /\ run' = [run EXCEPT ![r] = "sending"]
  /\ outgoing' = [outgoing EXCEPT ![r] = Arbitration]
  /\ stream' = [stream EXCEPT ![r] = "open"]
  /\ recv' = [recv EXCEPT ![r] = "recv"]
  /\ UNCHANGED <<outVars, stopped, toServer, serverRead, fromServer, taken,
                 arbSeen, messageLog, messageRead>>

\* StreamChannel fails: "cannot establish stream".
OpenFails(r) ==
  /\ CanStart(r)
  /\ run' = [run EXCEPT ![r] = "returned"]
  /\ UNCHANGED <<outVars, outgoing, stopped, netVars, inVars>>

\* stream.Send returns nil: the transport has taken the message.
SendDone(r) ==
  /\ run[r] = "sending" /\ stream[r] = "open"
  /\ Len(toServer[r]) - serverRead[r] < Window
  /\ toServer' = [toServer EXCEPT ![r] = Append(@, outgoing[r])]
  /\ run' = [run EXCEPT ![r] = "select"]
  /\ UNCHANGED <<outVars, outgoing, stopped, stream, serverRead, fromServer, inVars>>

\* Mutants of SendFails: Run returns the error of stream.Send; Run tries again.
SendFailsReturns(r) ==
  /\ run[r] = "sending" /\ stream[r] # "open"
  /\ run' = [run EXCEPT ![r] = "returned"]
  /\ UNCHANGED <<outVars, outgoing, stopped, netVars, inVars>>

SendFailsRetries(r) ==
  /\ run[r] = "sending" /\ stream[r] # "open"
  /\ UNCHANGED vars

\* stream.Send fails because the stream is over; Run ignores its result.
SendFails(r) ==
  /\ run[r] = "sending" /\ stream[r] # "open"
  /\ run' = [run EXCEPT ![r] = "select"]
  /\ UNCHANGED <<outVars, outgoing, stopped, netVars, inVars>>

\* Mutant of SelectMessage: the case is disabled once the stream is over.
SelectMessageUp(r) ==
  /\ run[r] = "select" /\ sendCh # <<>> /\ stream[r] = "open"
  /\ outgoing' = [outgoing EXCEPT ![r] = Head(sendCh)]
  /\ sendCh' = Tail(sendCh)
  /\ run' = [run EXCEPT ![r] = "sending"]
  /\ UNCHANGED <<calls, waiting, accepted, stopped, netVars, inVars>>

\* case m := <-c.streamSendCh
SelectMessage(r) ==
  /\ run[r] = "select" /\ sendCh # <<>>
  /\ outgoing' = [outgoing EXCEPT ![r] = Head(sendCh)]
  /\ sendCh' = Tail(sendCh)
  /\ run' = [run EXCEPT ![r] = "sending"]
  /\ UNCHANGED <<calls, waiting, accepted, stopped, netVars, inVars>>

\* Mutant of SelectStop: the channel is emptied on the way out.
SelectStopDrains(r) ==
  /\ run[r] = "select" /\ stopped[r]
  /\ run' = [run EXCEPT ![r] = "returned"]
  /\ sendCh' = <<>>
  /\ UNCHANGED <<calls, waiting, accepted, outgoing, stopped, netVars, inVars>>

\* case <-stopCh: return nil, after the deferred stream.CloseSend
SelectStop(r) ==
  /\ run[r] = "select" /\ stopped[r]
  /\ run' = [run EXCEPT ![r] = "returned"]
  /\ UNCHANGED <<outVars, outgoing, stopped, netVars, inVars>>

\* Mutant of SelectError: the receiving goroutine reports the error and goes on.
SelectErrorLingers(r) ==
  /\ run[r] = "select" /\ recv[r] = "error"
  /\ run' = [run EXCEPT ![r] = "returned"]
  /\ recv' = [recv EXCEPT ![r] = "recv"]
  /\ UNCHANGED <<outVars, outgoing, stopped, netVars, taken, arbSeen,
                 messageLog, messageRead>>

\* case err := <-connStatusCh: return err.  The channel is unbuffered, so the
\* receiving goroutine, which returns right after, moves in the same step.
SelectError(r) ==
  /\ run[r] = "select" /\ recv[r] = "error"
  /\ run' = [run EXCEPT ![r] = "returned"]
  /\ recv' = [recv EXCEPT ![r] = "done"]
  /\ UNCHANGED <<outVars, outgoing, stopped, netVars, taken, arbSeen,
                 messageLog, messageRead>>

-----------------------------------------------------------------------------
(* The receiving goroutine of Run r                                         *)

\* stream.Recv returns a message.  With a nil arbitrationCh an arbitration
\* update is dropped, and the goroutine is back in Recv.
RecvMessage(r) ==
  /\ recv[r] = "recv" /\ taken[r] < Len(fromServer[r])
  /\ taken' = [taken EXCEPT ![r] = @ + 1]
  /\ recv' = [recv EXCEPT ![r] =
                IF fromServer[r][taken[r] + 1] = "other" THEN "message"
                ELSE IF ArbitrationCh THEN "arbitration" ELSE "recv"]
  /\ UNCHANGED <<outVars, runVars, netVars, arbSeen, messageLog, messageRead>>

\* err == io.EOF: the goroutine returns and tells nobody.
RecvEOF(r) ==
  /\ recv[r] = "recv" /\ stream[r] = "eof" /\ taken[r] = Len(fromServer[r])
  /\ recv' = [recv EXCEPT ![r] = "done"]
  /\ UNCHANGED <<outVars, runVars, netVars, taken, arbSeen, messageLog, messageRead>>

\* Mutant of RecvError: every error is treated as io.EOF is.
RecvErrorSilent(r) ==
  /\ recv[r] = "recv" /\ stream[r] = "broken"
  /\ recv' = [recv EXCEPT ![r] = "done"]
  /\ UNCHANGED <<outVars, runVars, netVars, taken, arbSeen, messageLog, messageRead>>

\* Any other error: it is to be sent on connStatusCh.  What the transport had
\* buffered may be lost.
RecvError(r) ==
  /\ recv[r] = "recv" /\ stream[r] = "broken"
  /\ recv' = [recv EXCEPT ![r] = "error"]
  /\ UNCHANGED <<outVars, runVars, netVars, taken, arbSeen, messageLog, messageRead>>

\* arbitrationCh <- (Status.Code == OK): unbuffered in every caller, so the
\* application receives in the same step.
DeliverArbitration(r) ==
  /\ recv[r] = "arbitration"
  /\ arbSeen' = Append(arbSeen, <<r, fromServer[r][taken[r]] = "primary">>)
  /\ recv' = [recv EXCEPT ![r] = "recv"]
  /\ UNCHANGED <<outVars, runVars, netVars, taken, messageLog, messageRead>>

\* Mutants of DeliverMessage: no waiting for room; a message that finds no room
\* is dropped; return in the place of continue.
DeliverUnbounded(r) ==
  /\ recv[r] = "message"
  /\ messageLog' = Append(messageLog, <<r, taken[r]>>)
  /\ recv' = [recv EXCEPT ![r] = "recv"]
  /\ UNCHANGED <<outVars, runVars, netVars, taken, arbSeen, messageRead>>

DeliverOrDrop(r) ==
  /\ recv[r] = "message"
  /\ messageLog' = IF Len(messageLog) - messageRead < MessageCap
                     THEN Append(messageLog, <<r, taken[r]>>) ELSE messageLog
  /\ recv' = [recv EXCEPT ![r] = "recv"]
  /\ UNCHANGED <<outVars, runVars, netVars, taken, arbSeen, messageRead>>

DeliverOnce(r) ==
  /\ recv[r] = "message" /\ Len(messageLog) - messageRead < MessageCap
  /\ messageLog' = Append(messageLog, <<r, taken[r]>>)
  /\ recv' = [recv EXCEPT ![r] = "done"]
  /\ UNCHANGED <<outVars, runVars, netVars, taken, arbSeen, messageRead>>

\* messageCh <- in: blocks while the channel is full, for ever when it is nil.
DeliverMessage(r) ==
  /\ recv[r] = "message" /\ Len(messageLog) - messageRead < MessageCap
  /\ messageLog' = Append(messageLog, <<r, taken[r]>>)
  /\ recv' = [recv EXCEPT ![r] = "recv"]
  /\ UNCHANGED <<outVars, runVars, netVars, taken, arbSeen, messageRead>>

-----------------------------------------------------------------------------
(* The callers and, external, the transport and the server                  *)

Stop(r) ==
  /\ run[r] # "idle" /\ ~stopped[r]
  /\ stopped' = [stopped EXCEPT ![r] = TRUE]
  /\ UNCHANGED <<outVars, run, outgoing, netVars, inVars>>

ReadMessage ==
  /\ messageRead < Len(messageLog)
  /\ messageRead' = messageRead + 1
  /\ UNCHANGED <<outVars, runVars, netVars, recv, taken, arbSeen, messageLog>>

ServerRead(r) ==
  /\ stream[r] = "open" /\ serverRead[r] < Len(toServer[r])
  /\ serverRead' = [serverRead EXCEPT ![r] = @ + 1]
  /\ UNCHANGED <<outVars, runVars, stream, toServer, fromServer, inVars>>

\* The server speaks only to clients whose arbitration update it has read.
ServerSend(r, kind) ==
  /\ stream[r] = "open" /\ serverRead[r] > 0 /\ Len(fromServer[r]) < MaxIn
  /\ fromServer' = [fromServer EXCEPT ![r] = Append(@, kind)]
  /\ UNCHANGED <<outVars, runVars, stream, toServer, serverRead, inVars>>

\* The server ends the stream (EOF), or the connection breaks.
StreamEnds(r, how) ==
  /\ stream[r] = "open"
  /\ stream' = [stream EXCEPT ![r] = how]
  /\ UNCHANGED <<outVars, runVars, toServer, serverRead, fromServer, inVars>>

-----------------------------------------------------------------------------
SendMessage(s) == Call(s) \/ Accept(s) \/ GiveUp(s)

RunStep(r) ==
  \/ Open(r) \/ OpenFails(r) \/ SendDone(r) \/ SendFails(r)
  \/ SelectMessage(r) \/ SelectStop(r) \/ SelectError(r)

ReceiverStep(r) ==
  \/ RecvMessage(r) \/ RecvEOF(r) \/ RecvError(r)
  \/ DeliverArbitration(r) \/ DeliverMessage(r)

Environment(r) ==
  \/ Stop(r) \/ ServerRead(r)
  \/ \E kind \in InKind : ServerSend(r, kind)
  \/ \E how \in {"eof", "broken"} : StreamEnds(r, how)

Next ==
  \/ \E s \in Senders : SendMessage(s)
  \/ \E r \in Runs : RunStep(r) \/ ReceiverStep(r) \/ Environment(r)
  \/ ReadMessage

Spec == Init /\ [][Next]_vars

(***************************************************************************)
(* Go's scheduler runs every goroutine that can run (WF).  A select picks  *)
(* among its ready cases uniformly at random, and a full channel wakes its *)
(* senders in the order they blocked, so a case that is ready again and    *)
(* again is taken (SF).  The application keeps reading its channels and    *)
(* the server keeps reading an open stream.  Nobody has to call            *)
(* SendMessage or Run, to cancel a context, to close stopCh, to end a      *)
(* stream or to send on it.                                                *)
(***************************************************************************)
Fairness ==
  /\ \A s \in Senders : SF_vars(Accept(s))
  /\ \A r \in Runs :
       /\ WF_vars(SendDone(r) \/ SendFails(r))
       /\ SF_vars(SelectMessage(r)) /\ SF_vars(SelectStop(r)) /\ SF_vars(SelectError(r))
       /\ WF_vars(RecvMessage(r) \/ RecvEOF(r) \/ RecvError(r))
       /\ WF_vars(DeliverArbitration(r)) /\ SF_vars(DeliverMessage(r))
       /\ WF_vars(ServerRead(r))
  /\ WF_vars(ReadMessage)

FairSpec == Spec /\ Fairness
-----------------------------------------------------------------------------
(* Safety                                                                   *)

TypeOut ==
  /\ calls \in 0 .. MaxCalls /\ waiting \subseteq Senders /\ accepted \in Nat
  /\ sendCh \in Seq(Nat) /\ Len(sendCh) <= SendCap
TypeRun ==
  /\ run \in [Runs -> RunState] /\ outgoing \in [Runs -> Nat]
  /\ stopped \in [Runs -> BOOLEAN]
TypeNet ==
  /\ stream \in [Runs -> StreamState] /\ toServer \in [Runs -> Seq(Nat)]
  /\ serverRead \in [Runs -> Nat] /\ fromServer \in [Runs -> Seq(InKind)]
  /\ \A r \in Runs : /\ Len(fromServer[r]) <= MaxIn
                     /\ serverRead[r] <= Len(toServer[r])
                     /\ Len(toServer[r]) <= serverRead[r] + Window
TypeIn ==
  /\ recv \in [Runs -> RecvState] /\ taken \in [Runs -> Nat]
  /\ \A r \in Runs : taken[r] <= Len(fromServer[r])
  /\ arbSeen \in Seq(Runs \X BOOLEAN) /\ messageLog \in Seq(Runs \X Nat)
  /\ messageRead \in Nat /\ messageRead <= Len(messageLog)
  /\ Len(messageLog) <= messageRead + MessageCap

\* Every variable has its type; no queue exceeds its capacity, no reader is
\* ahead of the writer it reads from.
TypeOK == TypeOut /\ TypeRun /\ TypeNet /\ TypeIn

Active(r) == run[r] \in {"sending", "select"}
Tickets(s) == {s[i] : i \in 1 .. Len(s)}

\* Run announces itself before anything else: the arbitration update is the
\* first message of every stream.  The messages of SendMessage follow in the
\* order streamSendCh accepted them, none twice, not even on two streams.
OutboundOrder ==
  /\ \A r \in Runs : toServer[r] # <<>> => toServer[r][1] = Arbitration
  /\ \A r \in Runs : \A i, j \in 1 .. Len(toServer[r]) :
       i < j => toServer[r][i] < toServer[r][j]
  /\ \A q, r \in Runs : q < r =>
       \A i \in 1 .. Len(toServer[q]) : \A j \in 2 .. Len(toServer[r]) :
         toServer[q][i] < toServer[r][j]

\* A message SendMessage answered nil for is lost only with a stream: as long
\* as none has ended it is queued, in Run's hands or with the transport, even
\* after a Run has returned.
NoLossWhileUp ==
  (\A r \in Runs : stream[r] \in {"none", "open"}) =>
    \A t \in 1 .. accepted :
      \/ t \in Tickets(sendCh)
      \/ \E r \in Runs : \/ run[r] = "sending" /\ outgoing[r] = t
                         \/ t \in Tickets(toServer[r])

\* A Run whose receiving goroutine is gone has lost its stream to an EOF, which
\* nobody is told of; every other end of the stream is still to be reported.
DeafOnlyAfterEOF ==
  \A r \in Runs : Active(r) /\ recv[r] = "done" =>
    stream[r] = "eof" /\ taken[r] = Len(fromServer[r])

\* A Run that returns an error leaves no goroutine behind; one that is stopped may.
LeftBehindOnlyByStop ==
  \A r \in Runs : run[r] = "returned" /\ recv[r] \notin {"none", "done"} => stopped[r]

\* What arbitrationCh says about an old stream never follows what it says about
\* a newer one, unless the old Run was stopped.
NoStaleArbitration ==
  \A i, j \in 1 .. Len(arbSeen) :
    i < j /\ arbSeen[j][1] < arbSeen[i][1] => stopped[arbSeen[j][1]]

-----------------------------------------------------------------------------
(* Refinement                                                               *)

\* Whether some Run has taken a message from streamSendCh and not sent it yet.
InTransit == \E r \in Runs : run[r] = "sending" /\ outgoing[r] # Arbitration

\* How many accepted messages have left, sent or lost.
Gone == accepted - Len(sendCh) - (IF InTransit THEN 1 ELSE 0)

\* How many messages of stream r the receiving goroutine is done with.
Handled(r) == IF recv[r] \in {"arbitration", "message"} THEN taken[r] - 1 ELSE taken[r]

Service == INSTANCE StreamService WITH
  gone    <- Gone,
  sent    <- toServer,
  said    <- fromServer,
  handled <- [r \in Runs |-> Handled(r)]

\* The goroutines, channels and capacities of this module implement the ordered
\* exchange StreamService promises: a message of SendMessage leaves when its turn
\* comes and is lost only with a stream, an inbound message is handled when its
\* turn comes, the messages of different streams never mix up.
ServiceSpec == Service!Spec

\* Where Run r and its receiving goroutine are, as the rest of the process sees them:
\* an error that Run has not been told of is not seen.
RunSeen(r) == CASE run[r] = "idle" -> "starting"
                [] run[r] \in {"sending", "select"} -> "up"
                [] run[r] = "returned" -> "returned"
RecvSeen(r) == CASE recv[r] \in {"none", "done"} -> "off"
                 [] recv[r] \in {"recv", "error"} -> "recv"
                 [] recv[r] = "arbitration" -> "status"
                 [] recv[r] = "message" -> "message"

Outside(r) == INSTANCE RunOutside WITH
  run      <- RunSeen(r),
  receiver <- RecvSeen(r),
  stopCh   <- IF stopped[r] THEN "closed" ELSE "open"

\* Every Run, with its goroutine, is the one Lifecycle is built on: whatever its select
\* and its sends do, it returns only when told to or together with the goroutine that
\* met an error, and that goroutine gives up only at the end of its stream.
RunAsSeen ==
  /\ \A r \in Runs : Outside(r)!Init
  /\ [][\A r \in Runs : [Outside(r)!Next]_(Outside(r)!vars)]_vars

-----------------------------------------------------------------------------
(* Liveness, under Fairness                                                 *)

\* Closing stopCh ends Run, busy senders, an unread stream or a full messageCh
\* notwithstanding.
StopEndsRun == \A r \in Runs : stopped[r] ~> run[r] = "returned"

\* So does a broken connection, even if its receiving goroutine has messages to hand
\* over first.
RunEnds == \A r \in Runs : stopped[r] \/ stream[r] = "broken" ~> run[r] = "returned"

\* A caller of SendMessage that no context will release is served as long as
\* a Run is there to empty streamSendCh.
SenderServed ==
  \A s \in Senders : s \in waiting ~> s \notin waiting \/ \A r \in Runs : ~Active(r)

\* No message on messageCh can keep an arbitration status from the application
\* for ever: whatever the server has sent is handled unless the connection breaks.
InboundDelivered ==
  \A r \in Runs : \A k \in 1 .. MaxIn :
    Len(fromServer[r]) >= k ~> Handled(r) >= k \/ stream[r] = "broken"
=============================================================================
