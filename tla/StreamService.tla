---------------------------- MODULE StreamService ----------------------------
(***************************************************************************)
(* What the stream of a P4Runtime client promises its application, without *)
(* goroutines, channels or capacities.  StreamClient implements it.        *)
(*                                                                         *)
(* Outbound, the messages SendMessage answered nil for leave in the order  *)
(* of their acceptance, each at most once, on whatever stream is there:    *)
(* the next to leave is always number gone + 1.  A message is lost only    *)
(* by leaving on a stream that is over.  Inbound, every message of a       *)
(* stream is handled in the order of the server, an arbitration status     *)
(* with its value, any other message unchanged, none skipped or repeated.  *)
(***************************************************************************)
EXTENDS Naturals, Sequences

CONSTANTS
  Runs,          \* the streams, one per call of Run
  Arbitration,   \* stands for the arbitration update in sent
  InKind,        \* the kinds of messages of the server
  ArbitrationCh  \* TRUE iff the application asked for the arbitration status

VARIABLES
  accepted,      \* number of messages SendMessage has accepted
  gone,          \* number of them that have left: sent, or lost with a stream
  stream,        \* stream[r]: "none", "open", "eof" or "broken"
  sent,          \* sent[r]: what was sent on stream r
  said,          \* said[r]: what the server said on it
  handled,       \* handled[r]: how much of that has been handled
  arbSeen,       \* the arbitration statuses the application was given
  messageLog     \* the other messages it was given

out  == <<accepted, gone, sent>>
in   == <<said, handled, arbSeen, messageLog>>
vars == <<out, stream, in>>

Init ==
  /\ accepted = 0 /\ gone = 0
  /\ stream = [r \in Runs |-> "none"]
  /\ sent = [r \in Runs |-> <<>>] /\ said = [r \in Runs |-> <<>>]
  /\ handled = [r \in Runs |-> 0]
  /\ arbSeen = <<>> /\ messageLog = <<>>

Opens(r) ==
  /\ stream[r] = "none"
  /\ stream' = [stream EXCEPT ![r] = "open"]
  /\ UNCHANGED <<out, in>>

Ends(r, how) ==
  /\ stream[r] = "open"
  /\ stream' = [stream EXCEPT ![r] = how]
  /\ UNCHANGED <<out, in>>

Submit == accepted' = accepted + 1 /\ UNCHANGED <<gone, sent, stream, in>>

\* The first message of a stream is the announcement of the client.
Announce(r) ==
  /\ stream[r] = "open" /\ sent[r] = <<>>
  /\ sent' = [sent EXCEPT ![r] = <<Arbitration>>]
  /\ UNCHANGED <<accepted, gone, stream, in>>

Transmit(r) ==
  /\ stream[r] = "open" /\ sent[r] # <<>> /\ gone < accepted
  /\ sent' = [sent EXCEPT ![r] = Append(@, gone + 1)]
  /\ gone' = gone + 1
  /\ UNCHANGED <<accepted, stream, in>>

Lose(r) ==
  /\ stream[r] \in {"eof", "broken"} /\ gone < accepted
  /\ gone' = gone + 1
  /\ UNCHANGED <<accepted, sent, stream, in>>

\* The server speaks only to a client that has announced itself.
Say(r, kind) ==
  /\ stream[r] = "open" /\ sent[r] # <<>>
  /\ said' = [said EXCEPT ![r] = Append(@, kind)]
  /\ UNCHANGED <<out, stream, handled, arbSeen, messageLog>>

Handle(r) ==
  LET n == handled[r] + 1
      status == said[r][n] # "other"
  IN /\ n <= Len(said[r])
     /\ handled' = [handled EXCEPT ![r] = n]
     /\ arbSeen' = IF status /\ ArbitrationCh
                     THEN Append(arbSeen, <<r, said[r][n] = "primary">>) ELSE arbSeen
     /\ messageLog' = IF status THEN messageLog ELSE Append(messageLog, <<r, n>>)
     /\ UNCHANGED <<out, stream, said>>

Next ==
  \/ Submit
  \/ \E r \in Runs :
       \/ Opens(r) \/ Announce(r) \/ Transmit(r) \/ Lose(r) \/ Handle(r)
       \/ \E how \in {"eof", "broken"} : Ends(r, how)
       \/ \E kind \in InKind : Say(r, kind)

Spec == Init /\ [][Next]_vars
=============================================================================
