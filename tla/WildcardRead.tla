---------------------------- MODULE WildcardRead ----------------------------
(***************************************************************************)
(* The reads of tables, counters and meters.                               *)
(*                                                                         *)
(* A wildcard read (ReadTableEntryWildcard, ReadCounterEntryWildcard and   *)
(* ReadMeterEntryWildcard, three instances of one pattern): the caller     *)
(* runs ReadEntityWildcard, which copies what the Read RPC streams to      *)
(* readEntityCh; a consumer goroutine empties that channel into out.       *)
(*                                                                         *)
(* A single read (ReadTableEntry, ReadCounterEntry and ReadMeterEntry):    *)
(* ReadEntitySingle, without a goroutine, keeps the last entity of the     *)
(* RPC and counts them; anything but one is an error.                      *)
(*                                                                         *)
(* An entity is named by its position in the server's answer; all that     *)
(* matters of it is whether it is of the kind that was asked for.          *)
(***************************************************************************)
EXTENDS Naturals, Sequences

CONSTANTS
  ChSize,      \* capacity of readEntityCh (100 in the code)
  MaxBatch,    \* bound on the entities of one ReadResponse
  MaxEntities  \* bound on the entities of the whole answer

ASSUME SizeAssumption ==
  ChSize \in Nat \ {0} /\ MaxBatch \in Nat /\ MaxEntities \in Nat

Entity  == {"good", "bad"}   \* of the kind asked for, or of another
Caller  == {"lookup", "call", "recv", "send", "wait", "returned", "panicked"}
Outcome == {"none", "ok", "badEntity", "notSingle", "rpcError", "notFound"}

VARIABLES
  single,    \* the call is a single read; it never changes
  pc,        \* where the caller is
  result,    \* what the caller was answered
  received,  \* the entities that stream.Recv has returned so far
  sent,      \* how many of them went into readEntityCh
  consumed,  \* how many of those the consumer has taken out
  closed,    \* readEntityCh is closed
  consumer,  \* "none" | "ranging" | "done": the consumer goroutine
  out,       \* the positions the consumer has appended to out
  err        \* the consumer has met an entity of another kind

callerVars   == <<single, pc, result, received, sent, closed>>
consumerVars == <<consumed, out, err>>
vars == <<callerVars, consumer, consumerVars>>

Init ==
  /\ single \in BOOLEAN
  /\ pc = "lookup" /\ result = "none"
  /\ received = <<>> /\ sent = 0 /\ consumed = 0 /\ closed = FALSE
  /\ consumer = "none" /\ out = <<>> /\ err = FALSE

-----------------------------------------------------------------------------
(* The caller                                                               *)

\* The name is in the P4Info; or a table is read, whose unknown name becomes table
\* id 0, or a counter, in a single read.  The consumer of a wildcard read starts.
Lookup ==
  /\ pc = "lookup"
  /\ pc' = "call" /\ consumer' = IF single THEN "none" ELSE "ranging"
  /\ UNCHANGED <<single, result, received, sent, closed, consumerVars>>

\* The name is unknown: an error if a meter is read, a nil dereference in the
\* wildcard read of a counter.
LookupFails ==
  /\ pc = "lookup"
  /\ \/ pc' = "returned" /\ result' = "notFound"
     \/ ~single /\ pc' = "panicked" /\ result' = result
  /\ UNCHANGED <<single, received, sent, closed, consumer, consumerVars>>

CallRead ==
  /\ pc = "call" /\ pc' = "recv"
  /\ UNCHANGED <<single, result, received, sent, closed, consumer, consumerVars>>

\* Mutant of RpcFails: the channel is left open.
RpcFailsOpen ==
  /\ pc \in {"call", "recv"}
  /\ pc' = "returned" /\ result' = "rpcError"
  /\ UNCHANGED <<single, received, sent, closed, consumer, consumerVars>>

\* c.Read or stream.Recv fails, for a context that is done too: the deferred
\* close of a wildcard read, then the caller returns without waiting for the consumer.
RpcFails ==
  /\ pc \in {"call", "recv"}
  /\ pc' = "returned" /\ result' = "rpcError" /\ closed' = ~single
  /\ UNCHANGED <<single, received, sent, consumer, consumerVars>>

Batches == UNION {[1 .. n -> Entity] : n \in 0 .. MaxBatch}

\* A single read only counts what it receives.
RecvReply(batch) ==
  /\ pc = "recv" /\ Len(received) + Len(batch) <= MaxEntities
  /\ received' = received \o batch
  /\ pc' = IF single \/ batch = <<>> THEN "recv" ELSE "send"
  /\ UNCHANGED <<single, result, sent, closed, consumer, consumerVars>>

\* readEntityCh <- e, for each entity of the reply in turn
SendEntity ==
  /\ pc = "send" /\ sent - consumed < ChSize
  /\ sent' = sent + 1
  /\ pc' = IF sent + 1 = Len(received) THEN "recv" ELSE "send"
  /\ UNCHANGED <<single, result, received, closed, consumer, consumerVars>>

\* Mutant of RecvEOF: the channel is left open.
RecvEOFOpen ==
  /\ pc = "recv" /\ pc' = "wait"
  /\ UNCHANGED <<single, result, received, sent, closed, consumer, consumerVars>>

\* io.EOF: ReadEntityWildcard closes the channel and returns nil; ReadEntitySingle
\* turns to what it has counted.
RecvEOF ==
  /\ pc = "recv"
  /\ closed' = ~single /\ pc' = "wait"
  /\ UNCHANGED <<single, result, received, sent, consumer, consumerVars>>

\* Mutant of CheckSingle: several entities are as good as one.
CheckSome ==
  /\ pc = "wait" /\ single
  /\ pc' = "returned"
  /\ result' = IF received = <<>> THEN "notSingle"
               ELSE IF received[Len(received)] = "good" THEN "ok" ELSE "badEntity"
  /\ UNCHANGED <<single, received, sent, closed, consumer, consumerVars>>

\* Mutant of Wait: the caller does not wait for the consumer.
WaitNot ==
  /\ pc = "wait" /\ ~single
  /\ pc' = "returned" /\ result' = IF err THEN "badEntity" ELSE "ok"
  /\ UNCHANGED <<single, received, sent, closed, consumer, consumerVars>>

\* wg.Wait, then the consumer's error or its list is returned.
Wait ==
  /\ pc = "wait" /\ consumer = "done"
  /\ pc' = "returned" /\ result' = IF err THEN "badEntity" ELSE "ok"
  /\ UNCHANGED <<single, received, sent, closed, consumer, consumerVars>>

\* The end of ReadEntitySingle, and the check of the entity's kind by its caller.
CheckSingle ==
  LET count == Len(received) IN
  /\ pc = "wait" /\ single
  /\ pc' = "returned"
  /\ result' = IF count # 1 THEN "notSingle"
               ELSE IF received[count] = "good" THEN "ok" ELSE "badEntity"
  /\ UNCHANGED <<single, received, sent, closed, consumer, consumerVars>>

-----------------------------------------------------------------------------
(* The consumer goroutine                                                   *)

\* Mutant of Consume: the loop is left at the first entity of another kind.
ConsumeUntilBad ==
  /\ consumer = "ranging" /\ consumed < sent
  /\ consumed' = consumed + 1
  /\ IF received[consumed + 1] = "good"
       THEN out' = Append(out, consumed + 1) /\ UNCHANGED <<err, consumer>>
       ELSE err' = TRUE /\ consumer' = "done" /\ out' = out
  /\ UNCHANGED callerVars

\* Every entity is taken out, after a bad one too: leaving the loop would block the
\* caller on a full channel.
Consume ==
  /\ consumer = "ranging" /\ consumed < sent
  /\ consumed' = consumed + 1
  /\ IF received[consumed + 1] = "good"
       THEN out' = Append(out, consumed + 1) /\ err' = err
       ELSE err' = TRUE /\ out' = out
  /\ UNCHANGED <<callerVars, consumer>>

\* The channel is closed and empty: the loop ends, wg.Done.
Finish ==
  /\ consumer = "ranging" /\ closed /\ consumed = sent
  /\ consumer' = "done"
  /\ UNCHANGED <<callerVars, consumerVars>>

-----------------------------------------------------------------------------
CallerStep ==
  \/ Lookup \/ LookupFails \/ CallRead \/ RpcFails
  \/ \E batch \in Batches : RecvReply(batch)
  \/ SendEntity \/ RecvEOF \/ Wait \/ CheckSingle

Next == CallerStep \/ Consume \/ Finish

Spec == Init /\ [][Next]_vars

\* The goroutines run; nothing is asked of the server, which may stream for ever.
Fairness ==
  /\ WF_vars(SendEntity) /\ WF_vars(Wait) /\ WF_vars(CheckSingle)
  /\ WF_vars(Consume) /\ WF_vars(Finish)

FairSpec == Spec /\ Fairness

-----------------------------------------------------------------------------
TypeOK ==
  /\ single \in BOOLEAN
  /\ pc \in Caller /\ result \in Outcome /\ consumer \in {"none", "ranging", "done"}
  /\ closed \in BOOLEAN /\ err \in BOOLEAN
  /\ received \in Seq(Entity) /\ out \in Seq(Nat)
  /\ sent \in Nat /\ consumed \in Nat
  /\ consumed <= sent /\ sent <= Len(received) /\ sent <= consumed + ChSize

\* The answer is the server's, as if there were neither channel nor goroutine (see
\* AtomicRead): a list is returned only when the stream ended well and every entity
\* was of the right kind, it is the whole stream in its order, and the consumer does
\* not touch it any more; an error that blames an entity has one to blame.  A single
\* read returns an entity only when the server sent that one and no other.
Atomic == INSTANCE AtomicRead WITH
  entities <- received,
  complete <- pc = "wait" \/ result \in {"ok", "badEntity", "notSingle"},
  answer   <- result,
  value    <- IF result # "ok" THEN <<>>
              ELSE IF single THEN <<Len(received)>> ELSE out
AtomicSpec == Atomic!Spec

\* Whoever of the two waits has somebody to wait for: a caller with a full channel or at
\* wg.Wait the consumer, a consumer with an empty channel a caller that may still send
\* or close it.
NoMutualWait ==
  /\ pc = "send" => consumer = "ranging"
  /\ pc = "wait" /\ ~single => consumer = "done" \/ (consumer = "ranging" /\ closed)
  /\ consumer = "ranging" => closed \/ pc \in {"call", "recv", "send"}

\* Caller and consumer never wait for each other for ever: a reply is passed on whatever
\* entities came before, the end of the stream is answered, and the consumer does not
\* outlive the call, not even one the caller left early because the RPC failed.
NobodyWaitsForEver ==
  /\ pc = "send" ~> pc = "recv"
  /\ pc = "wait" ~> pc = "returned"
  /\ pc = "returned" ~> consumer # "ranging"
=============================================================================
