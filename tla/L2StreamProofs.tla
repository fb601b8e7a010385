--------------------------- MODULE L2StreamProofs ---------------------------
(***************************************************************************)
(* Proofs about L2Stream, for any macs, ports, handlers and capacities.    *)
(* The handlers' steps are those of L2Learning, whose lemmas are used as   *)
(* they stand; only a refused Write needs lemmas of its own.               *)
(***************************************************************************)
EXTENDS L2Stream, L2LearningProofs, FiniteSetTheorems

-----------------------------------------------------------------------------
(* Refused Writes                                                           *)

\* What a handler whose Write is refused does: it goes on.
Moves(h) ==
  \/ at[h] = "learnSmac" /\ at' = [at EXCEPT ![h] = "learnDmac"] /\ UNCHANGED index
  \/ at[h] = "learnDmac" /\ at' = [at EXCEPT ![h] = "ack"] /\ UNCHANGED index
  \/ at[h] = "forgetDmac" /\ at' = [at EXCEPT ![h] = "forgetSmac"] /\ UNCHANGED index
  \/ /\ at[h] = "forgetSmac"
     /\ index' = [index EXCEPT ![h] = index[h] + 1]
     /\ at' = [at EXCEPT ![h] = IF index[h] = Len(message[h].macs) THEN "range" ELSE "forgetDmac"]

\* A refused Write changes nothing but where its handler is.
LEMMA RefusedMoves ==
  ASSUME TypeOK, NEW h \in Handlers, WriteRefused(h)
  PROVE  Moves(h) /\ UNCHANGED <<switchVars, inbox, message>>
<1>1. UNCHANGED <<smac, dmac>>
  BY DEF WriteRefused
<1>2. CASE Refusing!LearnSmac(h)
  BY <1>1, <1>2 DEF Refusing!LearnSmac, Refusing!GoTo, Moves, switchVars
<1>3. CASE Refusing!LearnDmac(h)
  BY <1>1, <1>3 DEF Refusing!LearnDmac, Refusing!GoTo, Moves, switchVars
<1>4. CASE Refusing!ForgetDmac(h)
  BY <1>1, <1>4 DEF Refusing!ForgetDmac, Refusing!GoTo, Moves, switchVars
<1>5. CASE Refusing!ForgetSmac(h)
  BY <1>1, <1>5 DEF Refusing!ForgetSmac, Moves, switchVars, TypeOK
<1> QED BY <1>2, <1>3, <1>4, <1>5 DEF WriteRefused

\* It keeps the types and what the handlers hold.
LEMMA RefusedType ==
  ASSUME TypeOK, Held, NEW h \in Handlers, WriteRefused(h)
  PROVE  TypeOK' /\ Held'
<1> USE SizeAssumption
<1>1. Moves(h) /\ UNCHANGED <<smac, dmac, unacked, inbox, message>>
  BY RefusedMoves DEF switchVars
<1>2. at \in [Handlers -> Statement] /\ index \in [Handlers -> 1 .. MaxIdle + 1]
  BY DEF TypeOK
<1>3. ASSUME at[h] = "forgetSmac"
      PROVE  index[h] + 1 \in 1 .. MaxIdle + 1
             /\ (index[h] # Len(message[h].macs) => index[h] + 1 \in 1 .. Len(message[h].macs))
  BY <1>3, MessageKinds DEF Held, TypeOK
<1>4. at' \in [Handlers -> Statement] /\ index' \in [Handlers -> 1 .. MaxIdle + 1]
  BY <1>1, <1>2, <1>3 DEF Moves, Statement
<1>5. TypeOK'
  BY <1>1, <1>4 DEF TypeOK, Known
<1>6. ASSUME NEW g \in Handlers
      PROVE  /\ at'[g] \in {"learnSmac", "learnDmac", "ack"} => message'[g].kind = "digest"
             /\ at'[g] \in {"forgetDmac", "forgetSmac"} =>
                  message'[g].kind = "idle" /\ index'[g] \in 1 .. Len(message'[g].macs)
  <2>1. CASE g # h
    <3>1. at'[g] = at[g] /\ index'[g] = index[g] /\ message'[g] = message[g]
      BY <1>1, <1>2, <2>1 DEF Moves
    <3> QED BY <3>1 DEF Held
  <2>2. CASE g = h
    BY <1>1, <1>2, <1>3, <2>2 DEF Moves, Held
  <2> QED BY <2>1, <2>2
<1> QED BY <1>5, <1>6 DEF Held

\* It takes no digest out of anyone's hands.
LEMMA RefusedHand ==
  ASSUME TypeOK, NEW h \in Handlers, WriteRefused(h), NEW d, AtHand(d)
  PROVE  AtHand(d)'
<1>1. Moves(h) /\ UNCHANGED <<inbox, message>> /\ at \in [Handlers -> Statement]
  BY RefusedMoves DEF TypeOK
<1>2. CASE Holds(inbox, [kind |-> "digest", digest |-> d])
  BY <1>1, <1>2 DEF AtHand
<1>3. CASE \E g \in Handlers : at[g] \in {"learnSmac", "learnDmac", "ack"} /\ Digest(g) = d
  <2>1. PICK g \in Handlers : at[g] \in {"learnSmac", "learnDmac", "ack"} /\ Digest(g) = d
    BY <1>3
  <2>2. at'[g] \in {"learnSmac", "learnDmac", "ack"}
    BY <1>1, <2>1 DEF Moves
  <2> QED BY <1>1, <2>1, <2>2 DEF AtHand, Digest
<1> QED BY <1>2, <1>3 DEF AtHand

-----------------------------------------------------------------------------
(* Type correctness and the bounds of the queues                            *)

\* The types of the stream's part.
StreamTypes ==
  /\ sendCh \in Seq(Digests) /\ Len(sendCh) <= SendCap
  /\ passed \in Seq(Digests) /\ Len(passed) <= Window
  /\ run \in {"up", "returned"} /\ stream \in {"open", "eof", "broken"}
  /\ primary \in BOOLEAN /\ changes \in 0 .. MaxChanges

\* A queue with room takes one more.
LEMMA QueueMore ==
  ASSUME NEW q \in Seq(Digests), NEW d \in Digests, NEW n \in Nat, Len(q) < n
  PROVE  Append(q, d) \in Seq(Digests) /\ Len(Append(q, d)) <= n
  OBVIOUS

\* A queue that has something has its head, and less after it.
LEMMA QueueLess ==
  ASSUME NEW q \in Seq(Digests), q # <<>>, NEW n \in Nat, Len(q) <= n
  PROVE  Head(q) \in Digests /\ Tail(q) \in Seq(Digests) /\ Len(Tail(q)) <= n
  OBVIOUS

\* What the handlers and the switch do to the tables and to messageCh keeps the types
\* of L2Learning.
LEMMA LearningType == TypeOK /\ Held /\ [StreamNext]_allVars => TypeOK' /\ Held'
<1> SUFFICES ASSUME TypeOK, Held, [StreamNext]_allVars PROVE TypeOK' /\ Held'
  OBVIOUS
<1>1. ASSUME NEW h \in Handlers, Handle(h) PROVE TypeOK' /\ Held'
  <2>1. Take(h) \/ Write(h) => Next
    BY DEF Write, Next, HandlerStep
  <2>2. Take(h) \/ Write(h) \/ WriteRefused(h)
    BY <1>1 DEF Handle
  <2> QED BY <2>1, <2>2, TypeStep, RefusedType
<1>2. ASSUME NEW h \in Handlers, QueueAck(h) PROVE TypeOK' /\ Held'
  BY <1>2 DEF QueueAck, GoTo, switchVars, TypeOK, Held, Statement, Known
<1>3. CASE Reports \/ AckTimesOut
  <2>1. Next
    BY <1>3 DEF Reports, AckTimesOut, Next, SwitchStep
  <2> QED BY <2>1, TypeStep
<1>4. CASE ReadsAck
  <2>1. unacked' \subseteq unacked /\ UNCHANGED <<smac, dmac, inbox, handlerVars>>
    BY <1>4 DEF ReadsAck
  <2> QED BY <2>1 DEF handlerVars, TypeOK, Held, Known
<1>5. CASE UNCHANGED vars
  BY <1>5, TypeStep
<1>6. PassAck \/ RunReturns \/ LosesPrimary \/ RegainsPrimary
      \/ (\E how \in {"eof", "broken"} : StreamEnds(how)) \/ UNCHANGED allVars
      => UNCHANGED vars
  BY DEF PassAck, RunReturns, LosesPrimary, RegainsPrimary, StreamEnds, allVars
<1> QED BY <1>1, <1>2, <1>3, <1>4, <1>5, <1>6 DEF StreamNext

\* Every step keeps the types of the stream's part.
LEMMA StreamPartType ==
  TypeOK /\ Held /\ StreamTypes /\ [StreamNext]_allVars => StreamTypes'
<1> SUFFICES ASSUME TypeOK, Held, StreamTypes, [StreamNext]_allVars PROVE StreamTypes'
  OBVIOUS
<1> USE StreamAssumption DEF StreamTypes
<1>1. ASSUME NEW h \in Handlers, QueueAck(h) PROVE StreamTypes'
  <2>1. Digest(h) \in Digests
    BY <1>1, MessageKinds DEF QueueAck, Held, TypeOK, Digest
  <2>2. sendCh' = Append(sendCh, Digest(h)) /\ Len(sendCh) < SendCap
        /\ UNCHANGED <<passed, run, stream, primary, changes>>
    BY <1>1 DEF QueueAck
  <2>3. sendCh' \in Seq(Digests) /\ Len(sendCh') <= SendCap
    BY <2>1, <2>2, QueueMore
  <2> QED BY <2>2, <2>3
<1>2. CASE PassAck
  <2>1. Head(sendCh) \in Digests /\ sendCh' \in Seq(Digests) /\ Len(sendCh') <= SendCap
        /\ UNCHANGED <<run, stream, primary, changes>>
    BY <1>2, QueueLess DEF PassAck
  <2>2. passed' \in Seq(Digests) /\ Len(passed') <= Window
    <3>1. CASE passed' = passed
      BY <3>1
    <3>2. CASE Len(passed) < Window /\ passed' = Append(passed, Head(sendCh))
      BY <2>1, <3>2, QueueMore
    <3> QED BY <1>2, <3>1, <3>2 DEF PassAck
  <2> QED BY <2>1, <2>2
<1>3. CASE ReadsAck
  <2>1. passed' \in Seq(Digests) /\ Len(passed') <= Window
        /\ UNCHANGED <<sendCh, run, stream, primary, changes>>
    BY <1>3, QueueLess DEF ReadsAck
  <2> QED BY <2>1
<1>4. ASSUME NEW how \in {"eof", "broken"}, StreamEnds(how) PROVE StreamTypes'
  <2>1. passed' \in Seq(Digests) /\ Len(passed') <= Window
    BY <1>4, EmptySeq DEF StreamEnds
  <2> QED BY <1>4, <2>1 DEF StreamEnds
<1>5. CASE RunReturns
  BY <1>5 DEF RunReturns
<1>6. CASE LosesPrimary \/ RegainsPrimary
  <2>1. changes' = changes + 1 /\ changes < MaxChanges /\ UNCHANGED <<sendCh, passed, run, stream>>
    BY <1>6 DEF LosesPrimary, RegainsPrimary
  <2>2. changes' \in 0 .. MaxChanges
    BY <2>1
  <2>3. primary' \in BOOLEAN
    BY <1>6 DEF LosesPrimary, RegainsPrimary
  <2> QED BY <2>1, <2>2, <2>3
<1>7. CASE UNCHANGED streamVars
  BY <1>7 DEF streamVars
<1>8. ASSUME NEW h \in Handlers, Handle(h) PROVE StreamTypes'
  BY <1>7, <1>8 DEF Handle
<1>9. CASE Reports \/ AckTimesOut \/ UNCHANGED allVars
  BY <1>7, <1>9 DEF Reports, AckTimesOut, allVars
<1> HIDE DEF StreamTypes
<1> QED BY <1>1, <1>2, <1>3, <1>4, <1>5, <1>6, <1>8, <1>9 DEF StreamNext

\* The program starts with every queue empty.
LEMMA StreamInitType == StreamInit => TypeOK /\ Held /\ StreamTypes
  BY TypeInit, EmptySeq, StreamAssumption DEF StreamInit, StreamTypes

\* Type correctness of the composition: no queue of the round ever passes its bound.
THEOREM StreamTypeCorrect == StreamSpec => []StreamTypeOK
<1>1. (TypeOK /\ Held /\ StreamTypes) /\ [StreamNext]_allVars
      => (TypeOK /\ Held /\ StreamTypes)'
  BY LearningType, StreamPartType
<1>2. TypeOK /\ Held /\ StreamTypes => StreamTypeOK
  BY DEF StreamTypes, StreamTypeOK
<1> QED BY StreamInitType, <1>1, <1>2, PTL DEF StreamSpec
-----------------------------------------------------------------------------
(* What the switch withholds is on its way                                  *)

\* What follows holds for what a queue holds, whatever it is.
LEMMA QueueKeeps ==
  ASSUME NEW q \in Seq(Digests), NEW e \in Digests, NEW d
  PROVE  /\ Holds(q, d) => Holds(Append(q, e), d)
         /\ Holds(Append(q, e), e)
<1>1. Append(q, e)[Len(q) + 1] = e /\ Len(Append(q, e)) = Len(q) + 1 /\ Len(q) \in Nat
  OBVIOUS
<1>2. \A i \in 1 .. Len(q) : Append(q, e)[i] = q[i] /\ i \in 1 .. Len(Append(q, e))
  BY <1>1
<1> QED BY <1>1, <1>2 DEF Holds

\* The state a step of the stream starts from.
Sound == TypeOK /\ Held /\ StreamTypes

\* While being primary has not changed we are it.
Ours == changes = 0 => primary

\* An acknowledgement that is queued has been in its handler's hands.
LEMMA OnItsWayQueue ==
  ASSUME Sound, NEW h \in Handlers, QueueAck(h), NEW d, OnItsWay(d)
  PROVE  OnItsWay(d)'
<1>1. /\ at[h] = "ack" /\ GoTo(h, "range") /\ sendCh' = Append(sendCh, Digest(h))
      /\ passed' = passed /\ sendCh \in Seq(Digests) /\ TypeOK /\ Held
  BY DEF QueueAck, Sound, StreamTypes
<1>2. Digest(h) \in Digests
  BY <1>1, MessageKinds DEF Held, TypeOK, Digest
<1>3. CASE d = Digest(h)
  BY <1>1, <1>2, <1>3, QueueKeeps DEF OnItsWay
<1>4. CASE AtHand(d) /\ d # Digest(h)
  BY <1>1, <1>4, AtHandAck DEF OnItsWay
<1>5. CASE Holds(sendCh, d)
  BY <1>1, <1>2, <1>5, QueueKeeps DEF OnItsWay
<1>6. CASE Holds(passed, d)
  BY <1>1, <1>6 DEF OnItsWay
<1> QED BY <1>3, <1>4, <1>5, <1>6 DEF OnItsWay

\* Run passes on what it takes, as long as the stream is open.
LEMMA OnItsWayPass ==
  ASSUME Sound, PassAck, stream = "open", NEW d, OnItsWay(d)
  PROVE  OnItsWay(d)'
<1>1. /\ sendCh # <<>> /\ sendCh' = Tail(sendCh) /\ passed' = Append(passed, Head(sendCh))
      /\ UNCHANGED vars /\ sendCh \in Seq(Digests) /\ passed \in Seq(Digests)
  BY DEF PassAck, Sound, StreamTypes
<1>2. Head(sendCh) \in Digests
  BY <1>1
<1>3. CASE AtHand(d)
  BY <1>1, <1>3 DEF OnItsWay, AtHand, Digest, vars, handlerVars
<1>4. CASE Holds(sendCh, d)
  <2>1. Head(sendCh) = d \/ Holds(Tail(sendCh), d)
    BY <1>1, <1>4, HoldsTail
  <2> QED BY <1>1, <1>2, <2>1, QueueKeeps DEF OnItsWay
<1>5. CASE Holds(passed, d)
  BY <1>1, <1>2, <1>5, QueueKeeps DEF OnItsWay
<1> QED BY <1>3, <1>4, <1>5 DEF OnItsWay

\* The switch that reads an acknowledgement waits for it no longer.
LEMMA OnItsWayRead ==
  ASSUME Sound, ReadsAck, primary, NEW d, OnItsWay(d), d \in unacked'
  PROVE  OnItsWay(d)'
<1>1. /\ passed # <<>> /\ passed' = Tail(passed) /\ passed \in Seq(Digests)
      /\ UNCHANGED <<inbox, handlerVars, sendCh>> /\ d # Head(passed)
  BY DEF ReadsAck, Sound, StreamTypes
<1>2. CASE AtHand(d)
  BY <1>1, <1>2 DEF OnItsWay, AtHand, Digest, handlerVars
<1>3. CASE Holds(sendCh, d)
  BY <1>1, <1>3 DEF OnItsWay
<1>4. CASE Holds(passed, d)
  BY <1>1, <1>4, HoldsTail DEF OnItsWay
<1> QED BY <1>2, <1>3, <1>4 DEF OnItsWay

\* While the stream is open and ours, a step leaves what is withheld on its way.
LEMMA OnItsWayStep ==
  ASSUME Sound, StreamNext, primary, stream = "open", stream' = "open", changes' = 0,
         \A d \in unacked : OnItsWay(d), changes = 0
  PROVE  \A d \in unacked' : OnItsWay(d)'
<1> SUFFICES ASSUME NEW d \in unacked' PROVE OnItsWay(d)'
  OBVIOUS
<1>0. TypeOK /\ Held
  BY DEF Sound
<1>1. ASSUME UNCHANGED streamVars, d \in unacked, \A e : AtHand(e) => AtHand(e)'
      PROVE  OnItsWay(d)'
  BY <1>1 DEF streamVars, OnItsWay
<1>2. ASSUME NEW h \in Handlers, Handle(h) PROVE OnItsWay(d)'
  <2>1. UNCHANGED streamVars /\ (Take(h) \/ Write(h))
    BY <1>2 DEF Handle
  <2>2. CASE Take(h)
    <3>1. d \in unacked
      BY <2>2 DEF Take, switchVars
    <3>2. \A e : AtHand(e) => AtHand(e)'
      BY <1>0, <2>2, AtHandTake
    <3> QED BY <1>1, <2>1, <3>1, <3>2
  <2>3. CASE Write(h)
    <3>1. d \in unacked
      BY <2>3 DEF Write, LearnSmac, LearnDmac, ForgetDmac, ForgetSmac
    <3>2. \A e : AtHand(e) => AtHand(e)'
      BY <1>0, <2>3, AtHandWrite DEF Write
    <3> QED BY <1>1, <2>1, <3>1, <3>2
  <2> QED BY <2>1, <2>2, <2>3
<1>3. ASSUME NEW h \in Handlers, QueueAck(h) PROVE OnItsWay(d)'
  BY <1>3, OnItsWayQueue DEF QueueAck, switchVars
<1>4. CASE PassAck
  BY <1>4, OnItsWayPass DEF PassAck, vars, switchVars
<1>5. CASE Reports
  <2>1. UNCHANGED streamVars
    BY <1>5 DEF Reports
  <2>2. ASSUME NEW m \in Macs, NEW p \in Ports, Packet(m, p) PROVE OnItsWay(d)'
    <3>1. (\A e : AtHand(e) => AtHand(e)') /\ AtHand(<<m, p>>)' /\ (d \in unacked \/ d = <<m, p>>)
      BY <1>0, <2>2, AtHandPacket
    <3> QED BY <1>1, <2>1, <3>1 DEF OnItsWay
  <2>3. ASSUME NEW macs \in IdleLists, IdleTimeout(macs) PROVE OnItsWay(d)'
    <3>1. [kind |-> "idle", macs |-> macs] \in Messages
      BY DEF Messages
    <3>2. /\ inbox' = Append(inbox, [kind |-> "idle", macs |-> macs])
          /\ UNCHANGED handlerVars /\ d \in unacked
      BY <2>3 DEF IdleTimeout, switchVars
    <3>3. \A e : AtHand(e) => AtHand(e)'
      BY <1>0, <3>1, <3>2, AtHandArrival
    <3> QED BY <1>1, <2>1, <3>2, <3>3
  <2> QED BY <1>5, <2>2, <2>3 DEF Reports
<1>6. CASE AckTimesOut
  <2>1. d \in unacked /\ UNCHANGED <<inbox, handlerVars, streamVars>>
    BY <1>6 DEF AckTimesOut, AckTimeout
  <2>2. \A e : AtHand(e) => AtHand(e)'
    BY <2>1 DEF AtHand, handlerVars, Digest
  <2> QED BY <1>1, <2>1, <2>2
<1>7. CASE ReadsAck
  BY <1>7, OnItsWayRead DEF ReadsAck
<1>8. ~RunReturns /\ ~LosesPrimary /\ ~RegainsPrimary
      /\ ~(\E how \in {"eof", "broken"} : StreamEnds(how))
  BY DEF RunReturns, LosesPrimary, RegainsPrimary, StreamEnds
<1> QED BY <1>2, <1>3, <1>4, <1>5, <1>6, <1>7, <1>8 DEF StreamNext

\* Being primary changes only by a counted step, and a stream that is over stays so.
LEMMA OursStep ==
  Sound /\ Ours /\ [StreamNext]_allVars
  => Ours' /\ (changes' = 0 => changes = 0) /\ (stream' = "open" => stream = "open")
<1> SUFFICES ASSUME Sound, Ours, [StreamNext]_allVars
             PROVE  Ours' /\ (changes' = 0 => changes = 0) /\ (stream' = "open" => stream = "open")
  OBVIOUS
<1> USE DEF Ours
<1>1. changes \in Nat
  BY StreamAssumption DEF Sound, StreamTypes
<1>2. ASSUME NEW h \in Handlers, Handle(h) \/ QueueAck(h)
      PROVE  UNCHANGED <<primary, changes, stream>>
  BY <1>2 DEF Handle, QueueAck, streamVars
<1>3. CASE PassAck \/ RunReturns \/ Reports \/ AckTimesOut \/ ReadsAck \/ UNCHANGED allVars
  BY <1>3 DEF PassAck, RunReturns, Reports, AckTimesOut, ReadsAck, allVars, streamVars
<1>4. CASE LosesPrimary \/ RegainsPrimary
  BY <1>1, <1>4 DEF LosesPrimary, RegainsPrimary
<1>5. ASSUME NEW how \in {"eof", "broken"}, StreamEnds(how)
      PROVE  UNCHANGED <<primary, changes>> /\ stream = "open"
  BY <1>5 DEF StreamEnds
<1> QED BY <1>2, <1>3, <1>4, <1>5 DEF StreamNext

\* Every step leaves what is withheld on its way, or ends the stream or our being
\* primary.
LEMMA WithheldOnStep ==
  Sound /\ Ours /\ WithheldOnlyOnItsWay /\ [StreamNext]_allVars => WithheldOnlyOnItsWay'
<1> SUFFICES ASSUME Sound, Ours, WithheldOnlyOnItsWay, [StreamNext]_allVars,
                    stream' = "open", changes' = 0
             PROVE  \A d \in unacked' : OnItsWay(d)'
  BY DEF WithheldOnlyOnItsWay
<1>1. stream = "open" /\ changes = 0 /\ primary /\ \A d \in unacked : OnItsWay(d)
  BY OursStep DEF Ours, WithheldOnlyOnItsWay
<1>2. CASE StreamNext
  BY <1>1, <1>2, OnItsWayStep
<1>3. CASE UNCHANGED allVars
  BY <1>1, <1>3 DEF allVars, streamVars, vars, switchVars, handlerVars, OnItsWay, AtHand, Digest
<1> QED BY <1>2, <1>3

\* For any number of hosts, ports and handlers, any capacities and any timing of the
\* round: as long as the stream is open and we have been primary all along, the switch
\* withholds a digest only while its acknowledgement is still to come.
THEOREM WithheldOnItsWay == StreamSpec => []WithheldOnlyOnItsWay
<1>1. StreamInit => Sound /\ Ours /\ WithheldOnlyOnItsWay
  BY StreamInitType DEF StreamInit, Init, Sound, Ours, WithheldOnlyOnItsWay
<1>2. (Sound /\ Ours /\ WithheldOnlyOnItsWay) /\ [StreamNext]_allVars
      => (Sound /\ Ours /\ WithheldOnlyOnItsWay)'
  <2>1. Sound /\ [StreamNext]_allVars => Sound'
    BY LearningType, StreamPartType DEF Sound
  <2> QED BY <2>1, OursStep, WithheldOnStep
<1> QED BY <1>1, <1>2, PTL DEF StreamSpec
-----------------------------------------------------------------------------
(* What changes of the primary client cost the tables, with one handler     *)

\* The hosts only dmac knows, and those only smac knows.
DmacOnly == Known \ smac
SmacOnly == smac \ Known

\* The host the handler is at, between the two Writes about it.
InHand(h) ==
  IF at[h] = "learnDmac" THEN {Digest(h)[1]}
  ELSE IF at[h] = "forgetSmac" THEN {Forgotten(h)} ELSE {}

\* No table passes its size.
Fits == Cardinality(smac) <= TableSize /\ Cardinality(Known) <= TableSize

\* Being primary and not being it follow one another.
Alternates == Losses = IF primary THEN Gains ELSE Gains + 1

\* Every loss may have cost a host of smac, every gain one of dmac.  While we are
\* primary the host in hand is not spoilt yet: its second Write is still to come.  That
\* Write spoils it only if the first one was refused, which a gain since then pays for,
\* or found smac full, which leaves room in dmac only if smac has more spoilt hosts.
Spoilt(h) ==
  /\ Cardinality(DmacOnly) <= Gains
  /\ Cardinality(SmacOnly \ (IF primary THEN InHand(h) ELSE {})) <= Losses
  /\ primary /\ at[h] = "learnDmac" /\ Digest(h)[1] \notin smac \cup Known
       => Cardinality(DmacOnly) < Gains \/ Full(smac)
  /\ primary /\ at[h] = "forgetSmac" /\ Forgotten(h) \in smac \cap Known
       => Cardinality(DmacOnly) < Gains

\* The tables and their differences are finite; the larger table has more that the other
\* one lacks.
LEMMA Differences ==
  ASSUME TypeOK
  PROVE  /\ IsFiniteSet(smac) /\ IsFiniteSet(Known)
         /\ IsFiniteSet(DmacOnly) /\ IsFiniteSet(SmacOnly)
         /\ Cardinality(smac) \in Nat /\ Cardinality(Known) \in Nat
         /\ Cardinality(DmacOnly) \in Nat /\ Cardinality(SmacOnly) \in Nat
         /\ Cardinality(smac) + Cardinality(DmacOnly) = Cardinality(Known) + Cardinality(SmacOnly)
<1>1. IsFiniteSet(smac) /\ IsFiniteSet(Known)
  BY FinAssumption, FS_Subset DEF TypeOK
<1>2. IsFiniteSet(DmacOnly) /\ IsFiniteSet(SmacOnly) /\ IsFiniteSet(Known \cap smac)
  BY <1>1, FS_Difference, FS_Intersection DEF DmacOnly, SmacOnly
<1>3. /\ Cardinality(DmacOnly) = Cardinality(Known) - Cardinality(Known \cap smac)
      /\ Cardinality(SmacOnly) = Cardinality(smac) - Cardinality(smac \cap Known)
  BY <1>1, FS_Difference DEF DmacOnly, SmacOnly
<1>4. smac \cap Known = Known \cap smac
  OBVIOUS
<1>5. /\ Cardinality(smac) \in Nat /\ Cardinality(Known) \in Nat
      /\ Cardinality(DmacOnly) \in Nat /\ Cardinality(SmacOnly) \in Nat
      /\ Cardinality(Known \cap smac) \in Nat
  BY <1>1, <1>2, FS_CardinalityType
<1>6. Cardinality(smac \cap Known) = Cardinality(Known \cap smac)
  BY <1>4
<1>7. Cardinality(smac) + Cardinality(DmacOnly) = Cardinality(Known) + Cardinality(SmacOnly)
  <2> HIDE DEF DmacOnly, SmacOnly, Known
  <2> QED BY <1>3, <1>5, <1>6
<1> QED BY <1>1, <1>2, <1>5, <1>7

\* One element more or less in a finite set.
LEMMA OneMore ==
  ASSUME NEW S, IsFiniteSet(S), NEW T, NEW x, T \subseteq S \cup {x}
  PROVE  IsFiniteSet(T) /\ Cardinality(T) \in Nat /\ Cardinality(T) <= Cardinality(S) + 1
<1>1. IsFiniteSet(S \cup {x}) /\ Cardinality(S \cup {x}) <= Cardinality(S) + 1
      /\ Cardinality(S \cup {x}) \in Nat /\ Cardinality(S) \in Nat
  BY FS_AddElement, FS_CardinalityType
<1>2. IsFiniteSet(T) /\ Cardinality(T) <= Cardinality(S \cup {x})
  BY <1>1, FS_Subset
<1> QED BY <1>1, <1>2, FS_CardinalityType

\* A set within another one is no larger.
LEMMA NoMore ==
  ASSUME NEW S, IsFiniteSet(S), NEW T, T \subseteq S
  PROVE  IsFiniteSet(T) /\ Cardinality(T) \in Nat /\ Cardinality(T) <= Cardinality(S)
                        /\ Cardinality(S) \in Nat
  BY FS_Subset, FS_CardinalityType

\* Where no host is in hand, or its Writes are refused anyway, nothing is still to come.
Settled ==
  Cardinality(DmacOnly) <= Gains /\ Cardinality(SmacOnly) <= Losses

\* A handler that has made one Write of a pair and may make the other one.
Paired(h) == primary /\ at[h] \in {"learnDmac", "forgetSmac"}

\* Before a pair the differences are settled ...
LEMMA SettledIs ==
  ASSUME NEW h \in Handlers, ~Paired(h)
  PROVE  Settled <=> Spoilt(h)
<1>1. SmacOnly \ (IF primary THEN InHand(h) ELSE {}) = SmacOnly
  BY DEF Paired, InHand
<1> QED BY <1>1 DEF Settled, Spoilt, Paired

\* ... and after it.
LEMMA SettledWas ==
  ASSUME NEW h \in Handlers, ~Paired(h)'
  PROVE  Settled' => Spoilt(h)'
<1>1. (SmacOnly \ (IF primary THEN InHand(h) ELSE {}))' = SmacOnly'
  BY DEF Paired, InHand
<1> QED BY <1>1 DEF Settled, Spoilt, Paired

\* The counts are natural numbers, and each change adds to one of them.
LEMMA Counts ==
  ASSUME changes \in Nat
  PROVE  /\ Gains \in Nat /\ Losses \in Nat
         /\ changes' = changes + 1 =>
              /\ Losses = Gains => Gains' = Gains /\ Losses' = Losses + 1
              /\ Losses = Gains + 1 => Gains' = Gains + 1 /\ Losses' = Losses
<1>1. PICK n \in Nat : changes = 2 * n \/ changes = 2 * n + 1
  <2>1. changes = 2 * (changes \div 2) \/ changes = 2 * (changes \div 2) + 1
    OBVIOUS
  <2>2. changes \div 2 \in Nat
    OBVIOUS
  <2> QED BY <2>1, <2>2
<1>2. ASSUME changes = 2 * n PROVE Gains = n /\ Losses = n
  BY <1>1, <1>2 DEF Gains, Losses
<1>3. ASSUME changes = 2 * n + 1 PROVE Gains = n /\ Losses = n + 1
  BY <1>1, <1>3 DEF Gains, Losses
<1>4. ASSUME changes' = changes + 1, changes = 2 * n PROVE Gains' = n /\ Losses' = n + 1
  BY <1>1, <1>4 DEF Gains, Losses
<1>5. ASSUME changes' = changes + 1, changes = 2 * n + 1 PROVE Gains' = n + 1 /\ Losses' = n + 1
  BY <1>1, <1>5 DEF Gains, Losses
<1> QED BY <1>1, <1>2, <1>3, <1>4, <1>5

\* What an insert does to a table that has not passed its size.
LEMMA InsertFits ==
  ASSUME NEW S, IsFiniteSet(S), Cardinality(S) <= TableSize, ~Full(S), NEW x
  PROVE  Cardinality(S \cup {x}) <= TableSize
<1>1. Cardinality(S) \in Nat /\ Cardinality(S) < TableSize
  BY FS_CardinalityType, SizeAssumption DEF Full
<1>2. Cardinality(S \cup {x}) <= Cardinality(S) + 1 /\ Cardinality(S \cup {x}) \in Nat
  BY OneMore
<1> QED BY <1>1, <1>2, SizeAssumption

\* Every Write keeps the tables within their size.
LEMMA FitsStep ==
  ASSUME TypeOK, Held, Fits, [StreamNext]_allVars
  PROVE  Fits'
<1>0. /\ IsFiniteSet(smac) /\ IsFiniteSet(Known) /\ TableSize \in Nat
      /\ Cardinality(smac) \in Nat /\ Cardinality(Known) \in Nat
  BY Differences, SizeAssumption
<1>1. ASSUME NEW T, NEW S, T \subseteq S, IsFiniteSet(S), Cardinality(S) <= TableSize
      PROVE  Cardinality(T) <= TableSize
  BY <1>0, <1>1, NoMore
<1>2. CASE UNCHANGED <<smac, dmac>>
  BY <1>2 DEF Fits, Known
<1>3. ASSUME NEW h \in Handlers, Write(h) PROVE Fits'
  <2>1. CASE LearnSmac(h)
    <3>1. smac' = smac \/ (~Full(smac) /\ smac' = smac \cup {Digest(h)[1]})
      BY <2>1 DEF LearnSmac, InsertSmac, MayFail
    <3>2. Cardinality(smac') <= TableSize
      BY <1>0, <3>1, InsertFits DEF Fits
    <3> QED BY <2>1, <3>2 DEF LearnSmac, MayFail, Fits, Known
  <2>2. CASE LearnDmac(h)
    <3>1. Known' = Known \/ (~Full(Known) /\ Known' = Known \cup {Digest(h)[1]})
      BY <2>2 DEF LearnDmac, InsertDmac, MayFail, Known
    <3>2. Cardinality(Known') <= TableSize
      BY <1>0, <3>1, InsertFits DEF Fits
    <3> QED BY <2>2, <3>2 DEF LearnDmac, MayFail, Fits
  <2>3. CASE ForgetDmac(h)
    <3>1. Known' \subseteq Known /\ smac' = smac
      BY <2>3 DEF ForgetDmac, DeleteDmac, MayFail, Known
    <3> QED BY <1>0, <1>1, <3>1 DEF Fits
  <2>4. CASE ForgetSmac(h)
    <3>1. smac' \subseteq smac /\ Known' = Known
      BY <2>4 DEF ForgetSmac, DeleteSmac, MayFail, Known
    <3> QED BY <1>0, <1>1, <3>1 DEF Fits
  <2> QED BY <1>3, <2>1, <2>2, <2>3, <2>4 DEF Write
<1>4. ASSUME NEW h \in Handlers, Handle(h) \/ QueueAck(h)
      PROVE  UNCHANGED <<smac, dmac>> \/ Write(h)
  BY <1>4 DEF Handle, Take, WriteRefused, QueueAck, switchVars
<1>5. PassAck \/ RunReturns \/ Reports \/ AckTimesOut \/ ReadsAck \/ LosesPrimary
      \/ RegainsPrimary \/ (\E how \in {"eof", "broken"} : StreamEnds(how)) \/ UNCHANGED allVars
      => UNCHANGED <<smac, dmac>>
  BY DEF PassAck, RunReturns, Reports, Packet, IdleTimeout, AckTimesOut, AckTimeout, ReadsAck,
         LosesPrimary, RegainsPrimary, StreamEnds, allVars, vars, switchVars
<1> QED BY <1>2, <1>3, <1>4, <1>5 DEF StreamNext

\* Only a counted step changes whether we are primary, and to what it was not.
LEMMA AlternatesStep ==
  ASSUME Sound, Alternates, [StreamNext]_allVars
  PROVE  Alternates'
<1>1. changes \in Nat /\ primary \in BOOLEAN
  BY StreamAssumption DEF Sound, StreamTypes
<1>2. CASE UNCHANGED <<primary, changes>>
  BY <1>2 DEF Alternates, Gains, Losses
<1>3. CASE LosesPrimary \/ RegainsPrimary
  <2>1. changes' = changes + 1 /\ primary' = ~primary
    BY <1>1, <1>3 DEF LosesPrimary, RegainsPrimary
  <2> QED BY <1>1, <2>1, Counts DEF Alternates
<1>4. ASSUME NEW h \in Handlers, Handle(h) \/ QueueAck(h) PROVE UNCHANGED <<primary, changes>>
  BY <1>4 DEF Handle, QueueAck, streamVars
<1>5. PassAck \/ RunReturns \/ Reports \/ AckTimesOut \/ ReadsAck
      \/ (\E how \in {"eof", "broken"} : StreamEnds(how)) \/ UNCHANGED allVars
      => UNCHANGED <<primary, changes>>
  BY DEF PassAck, RunReturns, Reports, AckTimesOut, ReadsAck, StreamEnds, allVars, streamVars
<1> QED BY <1>2, <1>3, <1>4, <1>5 DEF StreamNext

\* The first Write of learnMacs begins a pair.
LEMMA SpoiltLearnSmac ==
  ASSUME TypeOK, NEW h \in Handlers, Spoilt(h), changes \in Nat, ~WritesFail,
         primary, LearnSmac(h), UNCHANGED <<primary, changes>>
  PROVE  Spoilt(h)'
<1> DEFINE m == Digest(h)[1]
<1>1. /\ at[h] = "learnSmac" /\ at'[h] = "learnDmac" /\ InsertSmac(m)
      /\ Known' = Known /\ Digest(h)' = Digest(h)
  BY DEF LearnSmac, GoTo, MayFail, TypeOK, Digest, Known
<1>2. Settled /\ Gains' = Gains /\ Losses' = Losses
  BY <1>1, SettledIs DEF Paired, Gains, Losses
<1>3. Gains \in Nat /\ Losses \in Nat
  BY Counts
<1>4. smac' = smac \/ smac' = smac \cup {m}
  BY <1>1 DEF InsertSmac
<1>5. Cardinality(DmacOnly') <= Gains
  <2>1. DmacOnly' \subseteq DmacOnly
    BY <1>1, <1>4 DEF DmacOnly
  <2> QED BY <1>2, <1>3, <2>1, Differences, NoMore DEF Settled
<1>6. Cardinality(SmacOnly' \ {m}) <= Losses
  <2>1. SmacOnly' \ {m} \subseteq SmacOnly
    BY <1>1, <1>4 DEF SmacOnly
  <2> QED BY <1>2, <1>3, <2>1, Differences, NoMore DEF Settled
<1>7. m \notin smac' => smac' = smac /\ Full(smac)
  BY <1>1 DEF InsertSmac
<1>8. InHand(h)' = {m}
  BY <1>1 DEF InHand
<1> QED BY <1>1, <1>2, <1>5, <1>6, <1>7, <1>8 DEF Spoilt, Full

\* The second one ends it: a full dmac leaves no more hosts in smac only than in dmac
\* only, a full smac no more hosts in dmac only than in smac only.
LEMMA SpoiltLearnDmac ==
  ASSUME TypeOK, Fits, NEW h \in Handlers, Spoilt(h), Alternates, changes \in Nat, ~WritesFail,
         primary, LearnDmac(h), UNCHANGED <<primary, changes>>
  PROVE  Spoilt(h)'
<1> DEFINE m == Digest(h)[1]
           rest == SmacOnly \ {m}
<1>1. /\ at[h] = "learnDmac" /\ at'[h] = "ack" /\ InsertDmac(m, Digest(h)[2]) /\ smac' = smac
  BY DEF LearnDmac, GoTo, MayFail, TypeOK
<1>2. /\ Cardinality(DmacOnly) <= Gains /\ Cardinality(rest) <= Losses
      /\ m \notin smac \cup Known => Cardinality(DmacOnly) < Gains \/ Full(smac)
  BY <1>1 DEF Spoilt, InHand
<1>3. Gains \in Nat /\ Losses = Gains /\ Gains' = Gains /\ Losses' = Losses
  BY Counts DEF Alternates, Gains, Losses
<1>4. /\ TableSize \in Nat /\ Cardinality(smac) \in Nat /\ Cardinality(Known) \in Nat
      /\ Cardinality(DmacOnly) \in Nat /\ Cardinality(SmacOnly) \in Nat
      /\ IsFiniteSet(DmacOnly) /\ IsFiniteSet(SmacOnly)
      /\ Cardinality(smac) + Cardinality(DmacOnly) = Cardinality(Known) + Cardinality(SmacOnly)
      /\ Cardinality(smac) <= TableSize /\ Cardinality(Known) <= TableSize
  BY Differences, SizeAssumption DEF Fits
<1>5. m \notin SmacOnly => rest = SmacOnly
  OBVIOUS
<1>6. CASE Known' = Known /\ (m \in Known \/ Full(Known))
  <2>1. DmacOnly' = DmacOnly /\ SmacOnly' = SmacOnly
    BY <1>1, <1>6 DEF DmacOnly, SmacOnly
  <2>2. ASSUME m \in SmacOnly PROVE Settled'
    <3>1. Cardinality(Known) >= TableSize
      BY <1>6, <2>2 DEF SmacOnly, Full
    <3>2. Cardinality(SmacOnly) <= Cardinality(DmacOnly)
      BY <1>4, <3>1
    <3> QED BY <1>2, <1>3, <1>4, <2>1, <3>2 DEF Settled
  <2>3. ASSUME m \notin SmacOnly PROVE Settled'
    BY <1>2, <1>3, <1>5, <2>1, <2>3 DEF Settled
  <2> QED BY <1>1, <2>2, <2>3, SettledWas DEF Paired
<1>7. CASE Known' = Known \cup {m} /\ m \notin Known /\ ~Full(Known)
  <2>1. SmacOnly' = rest /\ DmacOnly' \subseteq DmacOnly \cup {m}
    BY <1>1, <1>7 DEF DmacOnly, SmacOnly
  <2>2. Cardinality(DmacOnly') <= Gains
    <3>1. CASE m \in smac
      <4>1. DmacOnly' \subseteq DmacOnly
        BY <1>1, <1>7, <3>1 DEF DmacOnly
      <4> QED BY <1>2, <1>3, <1>4, <4>1, NoMore
    <3>2. CASE m \notin smac
      <4>1. m \notin SmacOnly /\ (Cardinality(DmacOnly) < Gains \/ Full(smac))
        BY <1>2, <1>7, <3>2 DEF SmacOnly
      <4>2. Full(smac) => Cardinality(DmacOnly) < Cardinality(SmacOnly)
        BY <1>4, <1>7 DEF Full
      <4>3. Cardinality(SmacOnly) <= Losses
        BY <1>2, <1>5, <4>1
      <4>4. Cardinality(DmacOnly') \in Nat /\ Cardinality(DmacOnly') <= Cardinality(DmacOnly) + 1
        BY <1>4, <2>1, OneMore
      <4> HIDE DEF DmacOnly, SmacOnly
      <4> QED BY <1>3, <1>4, <4>1, <4>2, <4>3, <4>4
    <3> QED BY <3>1, <3>2
  <2>3. Settled'
    BY <1>2, <1>3, <2>1, <2>2 DEF Settled
  <2> QED BY <1>1, <2>3, SettledWas DEF Paired
<1>8. Known' = DOMAIN dmac'
  BY DEF Known
<1> QED BY <1>1, <1>6, <1>7, <1>8 DEF InsertDmac, Known

\* The first Write of forgetEntries begins a pair.
LEMMA SpoiltForgetDmac ==
  ASSUME TypeOK, NEW h \in Handlers, Spoilt(h), changes \in Nat, ~WritesFail,
         primary, ForgetDmac(h), UNCHANGED <<primary, changes>>
  PROVE  Spoilt(h)'
<1> DEFINE m == Forgotten(h)
<1>1. /\ at[h] = "forgetDmac" /\ at'[h] = "forgetSmac" /\ Known' = Known \ {m}
      /\ smac' = smac /\ Forgotten(h)' = Forgotten(h)
  BY DEF ForgetDmac, DeleteDmac, GoTo, MayFail, TypeOK, Forgotten, Known
<1>2. Settled /\ Gains' = Gains /\ Losses' = Losses
  BY <1>1, SettledIs DEF Paired, Gains, Losses
<1>3. Gains \in Nat /\ Losses \in Nat
  BY Counts
<1>4. Cardinality(DmacOnly') <= Gains
  <2>1. DmacOnly' \subseteq DmacOnly
    BY <1>1 DEF DmacOnly
  <2> QED BY <1>2, <1>3, <2>1, Differences, NoMore DEF Settled
<1>5. Cardinality(SmacOnly' \ {m}) <= Losses
  <2>1. SmacOnly' \ {m} \subseteq SmacOnly
    BY <1>1 DEF SmacOnly
  <2> QED BY <1>2, <1>3, <2>1, Differences, NoMore DEF Settled
<1>6. InHand(h)' = {m} /\ m \notin Known'
  BY <1>1 DEF InHand
<1> QED BY <1>1, <1>2, <1>4, <1>5, <1>6 DEF Spoilt

\* The second one ends it.
LEMMA SpoiltForgetSmac ==
  ASSUME TypeOK, NEW h \in Handlers, Spoilt(h), changes \in Nat, ~WritesFail,
         primary, ForgetSmac(h), UNCHANGED <<primary, changes>>
  PROVE  Spoilt(h)'
<1> DEFINE m == Forgotten(h)
<1>1. /\ at[h] = "forgetSmac" /\ at'[h] \in {"range", "forgetDmac"}
      /\ smac' = smac \ {m} /\ Known' = Known
  BY DEF ForgetSmac, DeleteSmac, MayFail, TypeOK, Known
<1>2. /\ Cardinality(DmacOnly) <= Gains /\ Cardinality(SmacOnly \ {m}) <= Losses
      /\ m \in smac \cap Known => Cardinality(DmacOnly) < Gains
  BY <1>1 DEF Spoilt, InHand
<1>3. Gains \in Nat /\ Gains' = Gains /\ Losses' = Losses
  BY Counts DEF Gains, Losses
<1>4. IsFiniteSet(DmacOnly) /\ Cardinality(DmacOnly) \in Nat
  BY Differences
<1>5. SmacOnly' = SmacOnly \ {m} /\ DmacOnly' \subseteq DmacOnly \cup {m}
  BY <1>1 DEF DmacOnly, SmacOnly
<1>6. Cardinality(DmacOnly') <= Gains
  <2>1. CASE m \in smac \cap Known
    <3>1. Cardinality(DmacOnly') \in Nat /\ Cardinality(DmacOnly') <= Cardinality(DmacOnly) + 1
      BY <1>4, <1>5, OneMore
    <3> HIDE DEF DmacOnly, SmacOnly
    <3> QED BY <1>2, <1>3, <1>4, <2>1, <3>1
  <2>2. CASE m \notin smac \cap Known
    <3>1. DmacOnly' \subseteq DmacOnly
      BY <1>1, <2>2 DEF DmacOnly
    <3> QED BY <1>2, <1>3, <1>4, <3>1, NoMore
  <2> QED BY <2>1, <2>2
<1>7. Settled'
  BY <1>2, <1>3, <1>5, <1>6 DEF Settled
<1> QED BY <1>1, <1>7, SettledWas DEF Paired

\* A step leaves no more spoilt than the changes so far can have cost.
LEMMA SpoiltStep ==
  ASSUME NEW h \in Handlers, Handlers = {h}, ~WritesFail,
         Sound, Fits, Alternates, Spoilt(h), [StreamNext]_allVars
  PROVE  Spoilt(h)'
<1>0. /\ TypeOK /\ Held /\ changes \in Nat /\ primary \in BOOLEAN /\ at \in [Handlers -> Statement]
      /\ Gains \in Nat /\ Losses \in Nat
  BY StreamAssumption, Counts DEF Sound, StreamTypes, TypeOK
<1>1. ASSUME UNCHANGED <<smac, dmac, primary, changes>>, ~Paired(h), ~Paired(h)'
      PROVE  Spoilt(h)'
  <2>1. Settled'
    BY <1>1, SettledIs DEF Settled, DmacOnly, SmacOnly, Known, Gains, Losses
  <2> QED BY <1>1, <2>1, SettledWas
<1>2. CASE UNCHANGED <<smac, dmac, handlerVars, primary, changes>>
  BY <1>2 DEF Spoilt, DmacOnly, SmacOnly, Known, Gains, Losses, InHand, Digest, Forgotten,
              handlerVars, Full
<1>3. CASE Take(h) /\ UNCHANGED streamVars
  <2>1. Head(inbox) \in Messages
    BY <1>0, <1>3 DEF Take, TypeOK
  <2>2. First(Head(inbox)) \notin {"learnDmac", "forgetSmac"}
    BY <2>1, MessageKinds DEF First
  <2>3. at[h] = "range" /\ at'[h] \notin {"learnDmac", "forgetSmac"}
    BY <1>0, <1>3, <2>2 DEF Take
  <2> QED BY <1>1, <1>3, <2>3 DEF Take, switchVars, streamVars, Paired
<1>4. CASE primary /\ Write(h) /\ UNCHANGED streamVars
  <2>1. UNCHANGED <<primary, changes>>
    BY <1>4 DEF streamVars
  <2> QED BY <1>0, <1>4, <2>1, SpoiltLearnSmac, SpoiltLearnDmac, SpoiltForgetDmac, SpoiltForgetSmac
          DEF Write
<1>5. CASE ~primary /\ WriteRefused(h) /\ UNCHANGED streamVars
  <2>1. UNCHANGED <<smac, dmac, primary, changes>>
    BY <1>5 DEF WriteRefused, streamVars
  <2> QED BY <1>1, <1>5, <2>1 DEF Paired
<1>6. CASE QueueAck(h)
  <2>1. at[h] = "ack" /\ at'[h] = "range"
    BY <1>0, <1>6 DEF QueueAck, GoTo
  <2> QED BY <1>1, <1>6, <2>1 DEF QueueAck, switchVars, Paired
<1>7. CASE LosesPrimary
  <2>1. /\ primary /\ ~primary' /\ UNCHANGED <<smac, Known, at, message, index>>
        /\ Gains' = Gains /\ Losses' = Losses + 1
    BY <1>0, <1>7, Counts DEF LosesPrimary, Alternates, vars, switchVars, handlerVars, Known
  <2>2. PICK x : SmacOnly \subseteq (SmacOnly \ InHand(h)) \cup {x}
    BY DEF InHand
  <2>3. IsFiniteSet(SmacOnly \ InHand(h)) /\ Cardinality(SmacOnly \ InHand(h)) \in Nat
    BY <1>0, Differences, FS_Difference, FS_CardinalityType
  <2>4. Cardinality(SmacOnly) <= Cardinality(SmacOnly \ InHand(h)) + 1 /\ Cardinality(SmacOnly) \in Nat
    BY <2>2, <2>3, OneMore
  <2>5. Cardinality(SmacOnly) <= Losses + 1 /\ Cardinality(DmacOnly) <= Gains
    BY <1>0, <2>1, <2>3, <2>4 DEF Spoilt
  <2>6. Settled'
    BY <2>1, <2>5 DEF Settled, DmacOnly, SmacOnly
  <2> QED BY <2>1, <2>6, SettledWas DEF Paired
<1>8. CASE RegainsPrimary
  <2>1. /\ ~primary /\ primary' /\ UNCHANGED <<smac, Known, at, message, index>>
        /\ Gains' = Gains + 1 /\ Losses' = Losses
    BY <1>0, <1>8, Counts DEF RegainsPrimary, Alternates, vars, switchVars, handlerVars, Known
  <2>2. Cardinality(DmacOnly) <= Gains /\ Cardinality(SmacOnly) <= Losses
    BY <2>1, SettledIs DEF Settled, Paired
  <2>3. Cardinality(DmacOnly) \in Nat /\ IsFiniteSet(SmacOnly) /\ Cardinality(SmacOnly) \in Nat
    BY <1>0, Differences
  <2>4. Cardinality(SmacOnly \ InHand(h)) <= Losses
    BY <1>0, <2>2, <2>3, NoMore
  <2>5. DmacOnly' = DmacOnly /\ SmacOnly' = SmacOnly /\ InHand(h)' = InHand(h)
    BY <2>1 DEF DmacOnly, SmacOnly, InHand, Digest, Forgotten
  <2>6. Cardinality(DmacOnly') < Gains'
    BY <1>0, <2>1, <2>2, <2>3, <2>5
  <2>7. Cardinality(DmacOnly') <= Gains'
    BY <1>0, <2>1, <2>2, <2>3, <2>5
  <2> QED BY <2>1, <2>4, <2>5, <2>6, <2>7 DEF Spoilt
<1>9. ASSUME NEW g \in Handlers, Handle(g) \/ QueueAck(g) PROVE Spoilt(h)'
  <2>1. g = h
    BY <1>9
  <2> QED BY <1>0, <1>3, <1>4, <1>5, <1>6, <1>9, <2>1 DEF Handle
<1>10. PassAck \/ RunReturns \/ Reports \/ AckTimesOut \/ ReadsAck
       \/ (\E how \in {"eof", "broken"} : StreamEnds(how)) \/ UNCHANGED allVars
       => UNCHANGED <<smac, dmac, handlerVars, primary, changes>>
  BY DEF PassAck, RunReturns, Reports, Packet, IdleTimeout, AckTimesOut, AckTimeout, ReadsAck,
         StreamEnds, allVars, streamVars, vars, switchVars
<1> QED BY <1>2, <1>7, <1>8, <1>9, <1>10 DEF StreamNext

\* With one handler and no Write that fails but for the contents of the tables or because
\* we are not primary: however often that changes, wherever the handler is then, and
\* however full the tables are, it spoils one host a time.
THEOREM ChangesCost ==
  ASSUME NEW h \in Handlers, Handlers = {h}, ~WritesFail
  PROVE  StreamSpec => []ChangesSpoilFew
<1> DEFINE IInv == Sound /\ Fits /\ Alternates /\ Spoilt(h)
<1>1. StreamInit => IInv
  <2> SUFFICES ASSUME StreamInit PROVE IInv
    OBVIOUS
  <2>1. Sound /\ smac = {} /\ Known = {} /\ primary /\ changes = 0 /\ at[h] = "range"
    BY StreamInitType DEF StreamInit, Init, Sound, Known
  <2>2. Gains = 0 /\ Losses = 0
    BY <2>1 DEF Gains, Losses
  <2>3. Cardinality({}) = 0
    BY FS_EmptySet
  <2>4. DmacOnly = {} /\ SmacOnly \ (IF primary THEN InHand(h) ELSE {}) = {}
    BY <2>1 DEF DmacOnly, SmacOnly
  <2> QED BY <2>1, <2>2, <2>3, <2>4, SizeAssumption DEF Fits, Alternates, Spoilt
<1>2. IInv /\ [StreamNext]_allVars => IInv'
  <2>1. Sound /\ [StreamNext]_allVars => Sound'
    BY LearningType, StreamPartType DEF Sound
  <2> QED BY <2>1, FitsStep, AlternatesStep, SpoiltStep DEF Sound
<1>3. IInv => ChangesSpoilFew
  <2> SUFFICES ASSUME IInv PROVE ChangesSpoilFew
    OBVIOUS
  <2>1. Gains \in Nat /\ Losses \in Nat
    BY StreamAssumption, Counts DEF Sound, StreamTypes
  <2>2. IsFiniteSet(SmacOnly) /\ Cardinality(SmacOnly) \in Nat /\ Cardinality(DmacOnly) <= Gains
    BY Differences DEF Sound, Spoilt
  <2> DEFINE rest == SmacOnly \ (IF primary THEN InHand(h) ELSE {})
  <2>3. IsFiniteSet(rest) /\ Cardinality(rest) \in Nat /\ Cardinality(rest) <= Losses
    BY <2>2, FS_Difference, FS_CardinalityType DEF Spoilt
  <2>4. CASE AllIdle
    <3>1. rest = SmacOnly
      BY <2>4 DEF AllIdle, InHand
    <3> QED BY <2>1, <2>2, <2>3, <2>4, <3>1 DEF ChangesSpoilFew, DmacOnly, SmacOnly
  <2>5. CASE ~AllIdle
    <3>1. PICK x : SmacOnly \subseteq rest \cup {x}
      BY DEF InHand
    <3>2. Cardinality(SmacOnly) <= Cardinality(rest) + 1
      BY <2>3, <3>1, OneMore
    <3>3. Cardinality(SmacOnly) <= Losses + 1
      BY <2>1, <2>2, <2>3, <3>2
    <3> QED BY <2>2, <2>5, <3>3 DEF ChangesSpoilFew, DmacOnly, SmacOnly
  <2> QED BY <2>4, <2>5
<1> QED BY <1>1, <1>2, <1>3, PTL DEF StreamSpec
=============================================================================
