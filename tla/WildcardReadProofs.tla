------------------------- MODULE WildcardReadProofs -------------------------
(***************************************************************************)
(* WildcardRead implements AtomicRead, for any capacity of the channel and *)
(* any answer of the server.                                               *)
(***************************************************************************)
EXTENDS WildcardRead, SequenceTheorems, TLAPS

-----------------------------------------------------------------------------
(* The inductive invariant                                                  *)

\* The caller of a wildcard read has nothing left to send except inside a reply; the
\* consumer is over only when the channel is closed and empty; an answer that depends
\* on the consumer is given after it is over.  A single read has neither.
Phases ==
  /\ pc = "send" => sent < Len(received)
  /\ pc # "send" /\ ~single => sent = Len(received)
  /\ single => pc # "send" /\ consumer = "none" /\ sent = 0
  /\ pc \in {"lookup", "call", "recv", "send", "wait"} => result = "none"
  /\ pc = "wait" /\ ~single => closed
  /\ pc \in {"lookup", "call", "recv", "send"} => ~closed
  /\ consumer = "done" => closed /\ consumed = sent
  /\ result \in {"ok", "badEntity", "notSingle"} =>
       pc = "returned" /\ (single \/ consumer = "done")
  /\ result = "notSingle" => single

\* What the consumer has made of the entities it has taken out.
Consumed ==
  /\ ~err => /\ Len(out) = consumed
             /\ \A i \in 1 .. consumed : out[i] = i /\ received[i] = "good"
  /\ err => \E i \in 1 .. consumed : received[i] = "bad"

IInv == TypeOK /\ Phases /\ Consumed

-----------------------------------------------------------------------------
\* A read that has not begun has the right types.
LEMMA TypeInit == Init => TypeOK
<1> SUFFICES ASSUME Init PROVE TypeOK
  OBVIOUS
<1>1. received \in Seq(Entity) /\ out \in Seq(Nat) /\ Len(received) = 0
  BY EmptySeq DEF Init
<1>2. /\ pc \in Caller /\ result \in Outcome /\ consumer \in {"none", "ranging", "done"}
      /\ closed \in BOOLEAN /\ err \in BOOLEAN /\ sent = 0 /\ consumed = 0
      /\ single \in BOOLEAN
  BY DEF Init, Caller, Outcome
<1> QED BY <1>1, <1>2, SizeAssumption DEF TypeOK

\* The inductive invariant holds at first.
LEMMA InvInit == Init => IInv
  BY TypeInit DEF Init, IInv, Phases, Consumed

\* What RecvReply makes of the entities received.
LEMMA Reply ==
  ASSUME TypeOK, NEW batch \in Batches, RecvReply(batch)
  PROVE  /\ received' \in Seq(Entity)
         /\ Len(batch) \in Nat /\ Len(received) \in Nat
         /\ Len(received') = Len(received) + Len(batch)
         /\ batch # <<>> => Len(batch) # 0
         /\ batch = <<>> => Len(batch) = 0
         /\ \A i \in 1 .. Len(received) : received'[i] = received[i]
<1>1. batch \in Seq(Entity) /\ received \in Seq(Entity)
  <2>1. PICK n \in 0 .. MaxBatch : batch \in [1 .. n -> Entity]
    BY DEF Batches
  <2> QED BY <2>1 DEF TypeOK
<1>2. received' = received \o batch
  BY DEF RecvReply
<1> QED BY <1>1, <1>2, ConcatProperties, LenProperties, EmptySeq

\* The channel never exceeds its capacity, and no goroutine is ahead of its source.
LEMMA TypeStep == TypeOK /\ Phases /\ [Next]_vars => TypeOK'
<1> SUFFICES ASSUME TypeOK, Phases, [Next]_vars PROVE TypeOK'
  OBVIOUS
<1> USE SizeAssumption DEF TypeOK, Caller, Outcome, callerVars, consumerVars
<1>1. CASE Lookup
  BY <1>1 DEF Lookup
<1>2. CASE LookupFails
  BY <1>2 DEF LookupFails
<1>3. CASE CallRead
  BY <1>3 DEF CallRead
<1>4. CASE RpcFails
  BY <1>4 DEF RpcFails
<1>5. ASSUME NEW batch \in Batches, RecvReply(batch) PROVE TypeOK'
  <2>1. sent <= Len(received')
    BY <1>5, Reply
  <2> QED BY <1>5, <2>1, Reply DEF RecvReply
<1>6. CASE SendEntity
  <2>1. sent < Len(received) /\ Len(received) \in Nat
    BY <1>6 DEF SendEntity, Phases
  <2>2. sent' = sent + 1 /\ UNCHANGED <<single, result, received, closed, consumer, consumed, out, err>>
    BY <1>6 DEF SendEntity
  <2>3. sent' <= Len(received) /\ sent' <= consumed + ChSize
    BY <1>6, <2>1, <2>2 DEF SendEntity
  <2>4. pc' \in Caller
    BY <1>6 DEF SendEntity
  <2> QED BY <2>2, <2>3, <2>4
<1>7. CASE RecvEOF
  BY <1>7 DEF RecvEOF
<1>8. CASE Wait \/ CheckSingle
  BY <1>8 DEF Wait, CheckSingle
<1>9. CASE Consume
  <2>1. consumed' = consumed + 1 /\ consumed < sent /\ UNCHANGED <<callerVars, consumer>>
    BY <1>9 DEF Consume
  <2>2. out' \in Seq(Nat) /\ err' \in BOOLEAN
    <3>1. out \in Seq(Nat) /\ consumed + 1 \in Nat
      OBVIOUS
    <3>2. Append(out, consumed + 1) \in Seq(Nat)
      BY <3>1, AppendProperties
    <3> QED BY <1>9, <3>1, <3>2 DEF Consume
  <2> QED BY <2>1, <2>2
<1>10. CASE Finish
  BY <1>10 DEF Finish
<1>11. CASE UNCHANGED vars
  BY <1>11 DEF vars
<1> QED BY <1>1, <1>2, <1>3, <1>4, <1>5, <1>6, <1>7, <1>8, <1>9, <1>10, <1>11
        DEF Next, CallerStep

\* The channel is closed when, and only when, the read has ended; the consumer is
\* done only behind the close.
LEMMA PhasesStep == TypeOK /\ Phases /\ [Next]_vars => Phases'
<1> SUFFICES ASSUME TypeOK, Phases, [Next]_vars PROVE Phases'
  OBVIOUS
<1> USE DEF Phases, callerVars, consumerVars
<1> sent \in Nat /\ consumed \in Nat /\ Len(received) \in Nat
  BY LenProperties DEF TypeOK
<1>1. CASE Lookup \/ LookupFails \/ CallRead \/ RpcFails
  BY <1>1 DEF Lookup, LookupFails, CallRead, RpcFails
<1>2. ASSUME NEW batch \in Batches, RecvReply(batch) PROVE Phases'
  <2>1. ~single => sent = Len(received)
    BY <1>2 DEF RecvReply
  <2>2. pc' = "send" => sent < Len(received')
    BY <1>2, <2>1, Reply DEF RecvReply
  <2>3. pc' # "send" /\ ~single => sent = Len(received')
    BY <1>2, <2>1, Reply DEF RecvReply
  <2> QED BY <1>2, <2>2, <2>3 DEF RecvReply
<1>3. CASE SendEntity
  BY <1>3 DEF SendEntity, TypeOK
<1>4. CASE RecvEOF
  <2>1. closed' <=> ~single
    BY <1>4 DEF RecvEOF
  <2> QED BY <1>4, <2>1 DEF RecvEOF
<1>5. CASE Wait \/ CheckSingle
  BY <1>5 DEF Wait, CheckSingle
<1>6. CASE Consume \/ Finish
  BY <1>6 DEF Consume, Finish
<1>7. CASE UNCHANGED vars
  BY <1>7 DEF vars
<1> QED BY <1>1, <1>2, <1>3, <1>4, <1>5, <1>6, <1>7 DEF Next, CallerStep

\* The consumer's list is what it makes of the entities it has taken so far.
LEMMA ConsumedStep == TypeOK /\ Consumed /\ [Next]_vars => Consumed'
<1> SUFFICES ASSUME TypeOK, Consumed, [Next]_vars PROVE Consumed'
  OBVIOUS
<1> USE DEF callerVars, consumerVars
<1>1. CASE UNCHANGED <<received, consumerVars>>
  BY <1>1 DEF Consumed
<1>2. ASSUME NEW batch \in Batches, RecvReply(batch) PROVE Consumed'
  <2>1. \A i \in 1 .. consumed : i \in 1 .. Len(received)
    BY LenProperties DEF TypeOK
  <2>2. \A i \in 1 .. consumed : received'[i] = received[i]
    BY <1>2, <2>1, Reply
  <2> QED BY <1>2, <2>2 DEF RecvReply, Consumed
<1>3. CASE Consume
  <2>1. consumed \in Nat /\ consumed' = consumed + 1 /\ received' = received
    BY <1>3 DEF Consume, TypeOK
  <2>2. CASE received[consumed + 1] = "good"
    <3>1. out \in Seq(Nat) /\ consumed + 1 \in Nat
      BY <2>1 DEF TypeOK
    <3>2. out' = Append(out, consumed + 1) /\ err' = err
      BY <1>3, <2>2 DEF Consume
    <3>3. CASE err
      BY <2>1, <3>2, <3>3 DEF Consumed
    <3>4. CASE ~err
      <4>1. Len(out) = consumed /\ \A i \in 1 .. consumed : out[i] = i /\ received[i] = "good"
        BY <3>4 DEF Consumed
      <4>2. /\ Len(out') = consumed + 1 /\ out'[consumed + 1] = consumed + 1
            /\ \A i \in 1 .. consumed : out'[i] = out[i]
        BY <3>1, <3>2, <4>1, AppendProperties
      <4> QED BY <2>1, <2>2, <3>2, <3>4, <4>1, <4>2 DEF Consumed
    <3> QED BY <3>3, <3>4
  <2>3. CASE received[consumed + 1] # "good"
    <3>1. received[consumed + 1] = "bad" /\ err'
      BY <1>3, <2>3, LenProperties, ElementOfSeq DEF Consume, TypeOK, Entity
    <3> QED BY <2>1, <3>1 DEF Consumed
  <2> QED BY <2>2, <2>3
<1> QED BY <1>1, <1>2, <1>3 DEF Next, CallerStep, vars, Lookup, LookupFails, CallRead,
                             RpcFails, SendEntity, RecvEOF, Wait, CheckSingle, Finish

\* The inductive invariant is inductive.
LEMMA InvStep == IInv /\ [Next]_vars => IInv'
  BY TypeStep, PhasesStep, ConsumedStep DEF IInv

\* Type correctness: the channel never holds more than its capacity, and the
\* consumer is never ahead of the caller, nor the caller of the server.
THEOREM TypeCorrect == Spec => []TypeOK
<1>1. IInv => TypeOK
  BY DEF IInv
<1> QED BY <1>1, InvInit, InvStep, PTL DEF Spec

-----------------------------------------------------------------------------
(* The refinement                                                           *)

\* Initial states map to initial states.
LEMMA AtomicInit == Init => Atomic!Init
  BY DEF Init, Atomic!Init

\* The return behind wg.Wait is the return of the atomic read.
LEMMA AtomicReturn ==
  ASSUME IInv, Wait
  PROVE  Atomic!Reject \/ Atomic!Return
<1>1. /\ pc = "wait" /\ result = "none" /\ consumer = "done" /\ single' = single
      /\ ~single /\ consumed = Len(received) /\ result' = IF err THEN "badEntity" ELSE "ok"
      /\ UNCHANGED <<received, out>>
  BY DEF IInv, Phases, Wait, consumerVars
<1>2. CASE err
  <2>1. \E i \in 1 .. Len(received) : received[i] = "bad"
    BY <1>1, <1>2 DEF IInv, Consumed
  <2> QED BY <1>1, <1>2, <2>1 DEF Atomic!Reject
<1>3. CASE ~err
  <2>1. /\ Len(out) = Len(received)
        /\ \A i \in 1 .. Len(received) : out[i] = i /\ received[i] = "good"
    BY <1>1, <1>3 DEF IInv, Consumed
  <2>2. out = [i \in 1 .. Len(received) |-> i]
    <3>1. out \in [1 .. Len(out) -> Nat]
      BY LenProperties DEF IInv, TypeOK
    <3> QED BY <2>1, <3>1
  <2> QED BY <1>1, <1>3, <2>1, <2>2 DEF Atomic!Return
<1> QED BY <1>2, <1>3

\* The checks behind ReadEntitySingle are the answer of the atomic read.
LEMMA AtomicSingle ==
  ASSUME IInv, CheckSingle
  PROVE  Atomic!Reject \/ Atomic!Refuse \/ Atomic!Return
<1> DEFINE count == Len(received)
<1>1. /\ pc = "wait" /\ result = "none" /\ single /\ single' = single
      /\ UNCHANGED <<received, out>>
      /\ result' = IF count # 1 THEN "notSingle"
                   ELSE IF received[count] = "good" THEN "ok" ELSE "badEntity"
  BY DEF IInv, Phases, CheckSingle, consumerVars
<1>2. CASE count # 1
  BY <1>1, <1>2 DEF Atomic!Refuse
<1>3. CASE count = 1 /\ received[1] = "good"
  <2>1. <<count>> = [i \in 1 .. count |-> i]
    BY <1>3
  <2> QED BY <1>1, <1>3, <2>1 DEF Atomic!Return
<1>4. CASE count = 1 /\ received[1] # "good"
  <2>1. received[1] = "bad"
    <3>1. received \in Seq(Entity) /\ 1 \in 1 .. Len(received)
      BY <1>4 DEF IInv, TypeOK
    <3> QED BY <1>4, <3>1, ElementOfSeq DEF Entity
  <2> QED BY <1>1, <1>4, <2>1 DEF Atomic!Reject
<1> QED BY <1>2, <1>3, <1>4

\* Every step is a step of the atomic read or none.
LEMMA AtomicStep == IInv /\ [Next]_vars => [Atomic!Next]_(Atomic!vars)
<1> SUFFICES ASSUME IInv, [Next]_vars PROVE Atomic!Next \/ UNCHANGED Atomic!vars
  OBVIOUS
<1> USE DEF callerVars, consumerVars
<1>1. CASE Lookup \/ CallRead
  BY <1>1 DEF Lookup, CallRead, Atomic!vars, IInv, Phases
<1>2. CASE LookupFails \/ RpcFails
  BY <1>2 DEF LookupFails, RpcFails, Atomic!vars, Atomic!Next, Atomic!Fail, IInv, Phases
<1>3. ASSUME NEW batch \in Batches, RecvReply(batch) PROVE Atomic!List
  <2>1. pc = "recv" /\ result = "none" /\ pc' # "wait" /\ result' = "none" /\ single' = single
    BY <1>3 DEF RecvReply, IInv, Phases
  <2>2. /\ Len(received') >= Len(received)
        /\ \A i \in 1 .. Len(received) : received'[i] = received[i]
    BY <1>3, Reply DEF IInv
  <2> QED BY <2>1, <2>2 DEF Atomic!List
<1>4. CASE SendEntity \/ Finish
  BY <1>4 DEF SendEntity, Finish, Atomic!vars, IInv, Phases
<1>5. CASE RecvEOF
  BY <1>5 DEF RecvEOF, Atomic!Next, Atomic!End, IInv, Phases
<1>6. CASE Wait \/ CheckSingle
  BY <1>6, AtomicReturn, AtomicSingle DEF Atomic!Next
<1>7. CASE Consume
  <2>1. result # "ok"
    BY <1>7 DEF Consume, IInv, Phases
  <2> QED BY <1>7, <2>1 DEF Consume, Atomic!vars
<1>8. CASE UNCHANGED vars
  BY <1>8 DEF vars, Atomic!vars
<1> QED BY <1>1, <1>2, <1>3, <1>4, <1>5, <1>6, <1>7, <1>8 DEF Next, CallerStep, Atomic!Next

\* A read is atomic: whatever the interleaving of the caller and its consumer, the
\* caller gets an error or the server's complete list in its order, which has one
\* entity if that is what was asked for, and nobody changes that list afterwards.
THEOREM ReadIsAtomic == Spec => AtomicSpec
<1>1. Init => Atomic!Init
  BY AtomicInit
<1>2. IInv /\ [Next]_vars => [Atomic!Next]_(Atomic!vars)
  BY AtomicStep
<1> QED BY <1>1, <1>2, InvInit, InvStep, PTL DEF Spec, AtomicSpec, Atomic!Spec

-----------------------------------------------------------------------------
(* Neither goroutine waits for the other in vain                            *)

\* The consumer is there from the lookup of the name to the end of the channel.
Partners ==
  /\ NoMutualWait
  /\ ~single /\ pc \in {"call", "recv"} => consumer = "ranging"

\* No step takes the partner away from one who waits: the channel is closed on every
\* way out of a wildcard read, and the consumer leaves its loop only behind the close.
LEMMA PartnersStep == IInv /\ Partners /\ [Next]_vars => Partners'
<1> SUFFICES ASSUME TypeOK, Phases, Partners, [Next]_vars PROVE Partners'
  BY DEF IInv
<1> USE DEF Phases, Partners, NoMutualWait, callerVars, consumerVars
<1>1. CASE Lookup \/ LookupFails
  BY <1>1 DEF Lookup, LookupFails
<1>2. CASE CallRead
  BY <1>2 DEF CallRead
<1>3. CASE RpcFails
  <2>1. pc' = "returned" /\ closed' = ~single /\ UNCHANGED <<single, consumer>>
    BY <1>3 DEF RpcFails
  <2>2. consumer = "ranging" => closed'
    BY <2>1 DEF TypeOK
  <2> QED BY <2>1, <2>2
<1>4. ASSUME NEW batch \in Batches, RecvReply(batch) PROVE Partners'
  BY <1>4 DEF RecvReply
<1>5. CASE SendEntity
  BY <1>5 DEF SendEntity
<1>6. CASE RecvEOF
  <2>1. pc = "recv" /\ pc' = "wait" /\ closed' = ~single /\ UNCHANGED <<single, consumer>>
    BY <1>6 DEF RecvEOF
  <2>2. ~single => consumer = "ranging" /\ closed'
    BY <2>1
  <2> QED BY <2>1, <2>2
<1>7. CASE Wait \/ CheckSingle
  BY <1>7 DEF Wait, CheckSingle
<1>8. CASE Consume \/ Finish
  BY <1>8 DEF Consume, Finish
<1>9. CASE UNCHANGED vars
  BY <1>9 DEF vars
<1> QED BY <1>1, <1>2, <1>3, <1>4, <1>5, <1>6, <1>7, <1>8, <1>9 DEF Next, CallerStep

\* For any capacity and any answer of the server, and whatever fails, a goroutine of a
\* wildcard read that waits has another one that may still move on its behalf.
THEOREM NobodyAlone == Spec => []NoMutualWait
<1>1. Init => IInv /\ Partners
  BY InvInit DEF Init, Partners, NoMutualWait
<1>2. IInv /\ Partners /\ [Next]_vars => IInv' /\ Partners'
  BY InvStep, PartnersStep
<1>3. Partners => NoMutualWait
  BY DEF Partners
<1> QED BY <1>1, <1>2, <1>3, PTL DEF Spec
=============================================================================
