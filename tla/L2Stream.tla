------------------------------ MODULE L2Stream ------------------------------
(***************************************************************************)
(* l2_switch with the stream it learns through: the handlers of L2Learning *)
(* composed with Run of StreamClient and a switch that stops being ours.   *)
(*                                                                         *)
(* What goes round: the switch puts a digest on messageCh, a handler       *)
(* writes the tables and puts the acknowledgement on streamSendCh, Run     *)
(* passes it to the transport, the switch reads it and may send the digest *)
(* again.  Every stage has a bound and blocks the one before it.           *)
(*                                                                         *)
(* What ends it: the stream may end, for Run by an error or by an EOF it   *)
(* is not told of; another client may become primary, and leave again.     *)
(* Then the switch refuses our Writes.  main notices none of this.         *)
(***************************************************************************)
EXTENDS L2Learning

CONSTANTS
  SendCap,     \* capacity of streamSendCh (1000)
  Window,      \* acknowledgements Run and the transport hold
  MaxChanges   \* bound on how often being primary changes

ASSUME StreamAssumption ==
  SendCap \in Nat \ {0} /\ Window \in Nat \ {0} /\ MaxChanges \in Nat

VARIABLES
  sendCh,   \* streamSendCh: the digests whose acknowledgements it holds
  passed,   \* those Run has taken from it and the switch has not read
  run,      \* "up" | "returned": Run
  stream,   \* "open" | "eof" | "broken"
  primary,  \* the switch holds us for the primary client
  changes   \* how often that has changed; only for the properties

streamVars == <<sendCh, passed, run, stream, primary, changes>>
allVars    == <<vars, streamVars>>

StreamInit ==
  /\ Init
  /\ sendCh = <<>> /\ passed = <<>>
  /\ run = "up" /\ stream = "open" /\ primary = TRUE /\ changes = 0

-----------------------------------------------------------------------------
(* The handlers                                                             *)

\* The same handlers, whose Writes the switch may refuse.
Refusing == INSTANCE L2Learning WITH WritesFail <- TRUE

Write(h) == LearnSmac(h) \/ LearnDmac(h) \/ ForgetDmac(h) \/ ForgetSmac(h)

\* Only the primary client may write; a refusal is logged.
WriteRefused(h) ==
  /\ UNCHANGED <<smac, dmac>>
  /\ \/ Refusing!LearnSmac(h) \/ Refusing!LearnDmac(h)
     \/ Refusing!ForgetDmac(h) \/ Refusing!ForgetSmac(h)

Handle(h) ==
  /\ Take(h) \/ (IF primary THEN Write(h) ELSE WriteRefused(h))
  /\ UNCHANGED streamVars

\* Mutants of QueueAck: no waiting for room; an acknowledgement without room is dropped.
QueueAckUnbounded(h) ==
  /\ at[h] = "ack"
  /\ GoTo(h, "range") /\ sendCh' = Append(sendCh, Digest(h))
  /\ UNCHANGED <<switchVars, passed, run, stream, primary, changes>>

QueueAckOrDrop(h) ==
  /\ at[h] = "ack" /\ GoTo(h, "range")
  /\ sendCh' = IF Len(sendCh) < SendCap THEN Append(sendCh, Digest(h)) ELSE sendCh
  /\ UNCHANGED <<switchVars, passed, run, stream, primary, changes>>

\* AckDigestList with the handler's context, which is never done: the handler waits
\* for room in streamSendCh, for ever if Run has returned.
QueueAck(h) ==
  /\ at[h] = "ack" /\ Len(sendCh) < SendCap
  /\ GoTo(h, "range") /\ sendCh' = Append(sendCh, Digest(h))
  /\ UNCHANGED <<switchVars, passed, run, stream, primary, changes>>

-----------------------------------------------------------------------------
(* Run                                                                      *)

\* Mutant of PassAck: nothing is taken from streamSendCh once the stream is over.
PassAckUp ==
  /\ run = "up" /\ sendCh # <<>> /\ stream = "open" /\ Len(passed) < Window
  /\ sendCh' = Tail(sendCh) /\ passed' = Append(passed, Head(sendCh))
  /\ UNCHANGED <<vars, run, stream, primary, changes>>

\* SelectMessage with SendDone, or with SendFails: sends on a stream that is over go
\* nowhere.
PassAck ==
  /\ run = "up" /\ sendCh # <<>>
  /\ sendCh' = Tail(sendCh)
  /\ \/ stream = "open" /\ Len(passed) < Window /\ passed' = Append(passed, Head(sendCh))
     \/ stream # "open" /\ passed' = passed
  /\ UNCHANGED <<vars, run, stream, primary, changes>>

\* The receiving goroutine tells Run of an error, not of an EOF; main drops what Run
\* returns.
RunReturns ==
  /\ run = "up" /\ stream = "broken"
  /\ run' = "returned"
  /\ UNCHANGED <<vars, sendCh, passed, stream, primary, changes>>

-----------------------------------------------------------------------------
(* The switch, external                                                     *)

\* It reports to its primary client, on the stream.
Reports ==
  /\ stream = "open" /\ primary
  /\ \/ \E m \in Macs, p \in Ports : Packet(m, p)
     \/ \E macs \in IdleLists : IdleTimeout(macs)
  /\ UNCHANGED streamVars

AckTimesOut == (\E d \in Digests : AckTimeout(d)) /\ UNCHANGED streamVars

\* It reads an acknowledgement, which counts only if it is the primary client's.
ReadsAck ==
  /\ stream = "open" /\ passed # <<>>
  /\ passed' = Tail(passed)
  /\ unacked' = IF primary THEN unacked \ {Head(passed)} ELSE unacked
  /\ UNCHANGED <<smac, dmac, inbox, handlerVars, sendCh, run, stream, primary, changes>>

StreamEnds(how) ==
  /\ stream = "open"
  /\ stream' = how /\ passed' = <<>>
  /\ UNCHANGED <<vars, sendCh, run, primary, changes>>

\* Another client becomes primary, or the switch notices that our stream is over.
LosesPrimary ==
  /\ primary /\ changes < MaxChanges
  /\ primary' = FALSE /\ changes' = changes + 1
  /\ UNCHANGED <<vars, sendCh, passed, run, stream>>

\* The other client leaves.
RegainsPrimary ==
  /\ ~primary /\ stream = "open" /\ changes < MaxChanges
  /\ primary' = TRUE /\ changes' = changes + 1
  /\ UNCHANGED <<vars, sendCh, passed, run, stream>>

-----------------------------------------------------------------------------
StreamNext ==
  \/ \E h \in Handlers : Handle(h) \/ QueueAck(h)
  \/ PassAck \/ RunReturns
  \/ Reports \/ AckTimesOut \/ ReadsAck \/ LosesPrimary \/ RegainsPrimary
  \/ \E how \in {"eof", "broken"} : StreamEnds(how)

StreamSpec == StreamInit /\ [][StreamNext]_allVars

\* The handlers and Run go on, the switch reads while the stream is open.  Nobody has
\* to report, to time out, to end a stream or to become primary.
StreamFairness ==
  /\ \A h \in Handlers : WF_allVars(Handle(h)) /\ SF_allVars(QueueAck(h))
  /\ WF_allVars(PassAck) /\ WF_allVars(RunReturns) /\ WF_allVars(ReadsAck)

StreamFairSpec == StreamSpec /\ StreamFairness

-----------------------------------------------------------------------------
\* Every variable has its type, streamSendCh and the transport keep their bounds.
StreamTypeOK ==
  /\ TypeOK
  /\ sendCh \in Seq(Digests) /\ Len(sendCh) <= SendCap
  /\ passed \in Seq(Digests) /\ Len(passed) <= Window
  /\ run \in {"up", "returned"} /\ stream \in {"open", "eof", "broken"}
  /\ primary \in BOOLEAN /\ changes \in 0 .. MaxChanges

\* The digest is at hand, or its acknowledgement is on its way to the switch.
OnItsWay(d) == AtHand(d) \/ Holds(sendCh, d) \/ Holds(passed, d)

\* The switch withholds a digest only while its acknowledgement is still to come,
\* unless we have ceased to be its client: refused Writes, a full streamSendCh and
\* the order of the acknowledgements cost no host its next report.
WithheldOnlyOnItsWay ==
  stream = "open" /\ changes = 0 => \A d \in unacked : OnItsWay(d)

Losses == (changes + 1) \div 2
Gains  == changes \div 2

\* What it costs the tables that Writes are refused between two others: every time
\* we become primary again can leave one host known to dmac only, which no idle
\* timeout will ever report, every time we cease to be it one host known to smac only,
\* besides the host the handler is at.  A full table makes it no worse.
ChangesSpoilFew ==
  /\ Cardinality(Known \ smac) <= Gains
  /\ Cardinality(smac \ Known) <= Losses + (IF AllIdle THEN 0 ELSE 1)

\* No stage of the round waits for itself: with every queue full the handlers get
\* their acknowledgements away, unless Run has returned, which leaves them blocked
\* for ever, and the switch gets to read them while it is ours.
RoundGoesOn ==
  /\ \A h \in Handlers : at[h] = "ack" ~> at[h] # "ack" \/ run = "returned"
  /\ \A d \in Digests : d \in unacked ~> d \notin unacked \/ stream # "open" \/ changes > 0
=============================================================================
