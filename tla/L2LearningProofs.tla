-------------------------- MODULE L2LearningProofs --------------------------
(***************************************************************************)
(* Proofs about L2Learning, for any macs, ports, table size and inbox.     *)
(***************************************************************************)
EXTENDS L2Learning, SequenceTheorems, TLAPS

-----------------------------------------------------------------------------
(* Type correctness, with what the handlers hold at each statement          *)

\* The handler's message is of the kind its statement is about.
Held == \A h \in Handlers :
  /\ at[h] \in {"learnSmac", "learnDmac", "ack"} => message[h].kind = "digest"
  /\ at[h] \in {"forgetDmac", "forgetSmac"} =>
       message[h].kind = "idle" /\ index[h] \in 1 .. Len(message[h].macs)

\* What a message of the switch consists of.
LEMMA MessageKinds ==
  ASSUME NEW m \in Messages
  PROVE  /\ m.kind \in {"digest", "idle", "other"}
         /\ m.kind = "digest" => m.digest \in Digests
         /\ m.kind = "idle" => /\ m.macs \in IdleLists /\ m.macs \in Seq(Macs)
                               /\ Len(m.macs) \in 1 .. MaxIdle
  BY SizeAssumption DEF Messages, IdleLists

\* The program starts with the right types, no handler at work.
LEMMA TypeInit == Init => TypeOK /\ Held
<1> SUFFICES ASSUME Init PROVE TypeOK /\ Held
  OBVIOUS
<1>1. inbox \in Seq(Messages) /\ Len(inbox) = 0
  BY EmptySeq DEF Init
<1>2. dmac \in [Known -> Ports] /\ Known = {}
  BY DEF Init, Known
<1>3. Nothing \in Messages
  BY DEF Nothing, Messages
<1>4. TypeOK
  BY <1>1, <1>2, <1>3, SizeAssumption DEF Init, TypeOK, Statement
<1> QED BY <1>4 DEF Init, Held

\* A message more keeps the inbox within its bound.
LEMMA InboxStep ==
  ASSUME TypeOK, NEW m \in Messages, Len(inbox) < MaxInbox, inbox' = Append(inbox, m)
  PROVE  inbox' \in Seq(Messages) /\ Len(inbox') <= MaxInbox
  BY AppendProperties, LenProperties, SizeAssumption DEF TypeOK

\* Every step keeps the types, and what a handler holds in its hands.
LEMMA TypeStep == TypeOK /\ Held /\ [Next]_vars => TypeOK' /\ Held'
<1> SUFFICES ASSUME TypeOK, Held, [Next]_vars PROVE TypeOK' /\ Held'
  OBVIOUS
<1> USE SizeAssumption
<1>1. ASSUME NEW m \in Macs, NEW p \in Ports, Packet(m, p) PROVE TypeOK' /\ Held'
  <2>1. [kind |-> "digest", digest |-> <<m, p>>] \in Messages
    BY DEF Messages, Digests
  <2>2. inbox' \in Seq(Messages) /\ Len(inbox') <= MaxInbox
    BY <1>1, <2>1, InboxStep DEF Packet
  <2> QED BY <1>1, <2>2 DEF Packet, handlerVars, TypeOK, Held, Digests, Known
<1>2. ASSUME NEW d \in Digests, AckTimeout(d) PROVE TypeOK' /\ Held'
  BY <1>2 DEF AckTimeout, handlerVars, TypeOK, Held, Known
<1>3. ASSUME NEW macs \in IdleLists, IdleTimeout(macs) PROVE TypeOK' /\ Held'
  <2>1. [kind |-> "idle", macs |-> macs] \in Messages
    BY DEF Messages
  <2>2. inbox' \in Seq(Messages) /\ Len(inbox') <= MaxInbox
    BY <1>3, <2>1, InboxStep DEF IdleTimeout
  <2> QED BY <1>3, <2>2 DEF IdleTimeout, switchVars, handlerVars, TypeOK, Held, Known
<1>4. CASE OtherMessage
  <2>1. Nothing \in Messages
    BY DEF Nothing, Messages
  <2>2. inbox' \in Seq(Messages) /\ Len(inbox') <= MaxInbox
    BY <1>4, <2>1, InboxStep DEF OtherMessage
  <2> QED BY <1>4, <2>2 DEF OtherMessage, switchVars, handlerVars, TypeOK, Held, Known
<1>5. ASSUME NEW h \in Handlers, Take(h) PROVE TypeOK' /\ Held'
  <2>1. /\ Head(inbox) \in Messages /\ inbox' \in Seq(Messages)
        /\ Len(inbox') <= MaxInbox
    BY <1>5, HeadTailProperties, LenProperties DEF Take, TypeOK
  <2>2. First(Head(inbox)) \in Statement
    BY <2>1, MessageKinds DEF First, Statement
  <2>3. /\ at' = [at EXCEPT ![h] = First(Head(inbox))]
        /\ message' = [message EXCEPT ![h] = Head(inbox)]
        /\ index' = [index EXCEPT ![h] = 1] /\ UNCHANGED switchVars
    BY <1>5 DEF Take
  <2>4. TypeOK'
    BY <2>1, <2>2, <2>3 DEF TypeOK, switchVars, Known
  <2>5. /\ First(Head(inbox)) \in {"learnSmac", "learnDmac", "ack"} => Head(inbox).kind = "digest"
        /\ First(Head(inbox)) \in {"forgetDmac", "forgetSmac"} =>
             Head(inbox).kind = "idle" /\ 1 \in 1 .. Len(Head(inbox).macs)
    BY <2>1, MessageKinds DEF First
  <2>6. Held'
    BY <2>3, <2>5 DEF TypeOK, Held
  <2> QED BY <2>4, <2>6
<1>6. ASSUME NEW h \in Handlers, LearnSmac(h) \/ LearnDmac(h) \/ Ack(h) PROVE TypeOK' /\ Held'
  <2>1. message[h].kind = "digest" /\ Digest(h) \in Digests
    BY <1>6, MessageKinds DEF LearnSmac, LearnDmac, Ack, Held, TypeOK, Digest
  <2>2. Digest(h)[1] \in Macs /\ Digest(h)[2] \in Ports
    BY <2>1 DEF Digests
  <2>3. smac' \subseteq Macs /\ unacked' \subseteq Digests
    BY <1>6, <2>2 DEF LearnSmac, LearnDmac, Ack, InsertSmac, MayFail, TypeOK
  <2>4. Known' \subseteq Macs /\ dmac' \in [Known' -> Ports]
    BY <1>6, <2>2 DEF LearnSmac, LearnDmac, Ack, InsertDmac, MayFail, TypeOK, Known
  <2>5. UNCHANGED <<inbox, message, index>>
    BY <1>6 DEF LearnSmac, LearnDmac, Ack, GoTo
  <2>6. PICK to \in {"learnDmac", "ack", "range"} : at' = [at EXCEPT ![h] = to]
    BY <1>6 DEF LearnSmac, LearnDmac, Ack, GoTo
  <2>7. at' \in [Handlers -> Statement]
    BY <2>6 DEF TypeOK, Statement
  <2>8. Held'
    BY <2>1, <2>5, <2>6 DEF TypeOK, Held
  <2> QED BY <2>3, <2>4, <2>5, <2>7, <2>8 DEF TypeOK
<1>7. ASSUME NEW h \in Handlers, ForgetDmac(h) PROVE TypeOK' /\ Held'
  <2>1. Known' \subseteq Macs /\ dmac' \in [Known' -> Ports] /\ UNCHANGED <<smac, unacked>>
    BY <1>7 DEF ForgetDmac, DeleteDmac, MayFail, TypeOK, Known
  <2>2. at' = [at EXCEPT ![h] = "forgetSmac"] /\ UNCHANGED <<inbox, message, index>>
    BY <1>7 DEF ForgetDmac, GoTo
  <2>3. Held'
    BY <1>7, <2>2 DEF ForgetDmac, TypeOK, Held
  <2> QED BY <2>1, <2>2, <2>3 DEF TypeOK, Statement
<1>8. ASSUME NEW h \in Handlers, ForgetSmac(h) PROVE TypeOK' /\ Held'
  <2> DEFINE n == Len(message[h].macs)
             to == IF index[h] = n THEN "range" ELSE "forgetDmac"
  <2>1. message[h].kind = "idle" /\ index[h] \in 1 .. n /\ n \in 1 .. MaxIdle
    BY <1>8, MessageKinds DEF ForgetSmac, Held, TypeOK
  <2>2. smac' \subseteq Macs /\ UNCHANGED <<dmac, unacked, inbox, message>>
    BY <1>8 DEF ForgetSmac, DeleteSmac, MayFail, TypeOK
  <2>3. at' = [at EXCEPT ![h] = to] /\ index' = [index EXCEPT ![h] = index[h] + 1]
    BY <1>8 DEF ForgetSmac, TypeOK
  <2>4. index[h] + 1 \in 1 .. MaxIdle + 1 /\ (to = "forgetDmac" => index[h] + 1 \in 1 .. n)
    BY <2>1
  <2>5. TypeOK'
    BY <2>2, <2>3, <2>4 DEF TypeOK, Statement, Known
  <2>6. Held'
    BY <2>1, <2>2, <2>3, <2>4 DEF TypeOK, Held
  <2> QED BY <2>5, <2>6
<1>9. CASE UNCHANGED vars
  BY <1>9 DEF vars, switchVars, handlerVars, TypeOK, Held, Known
<1> QED BY <1>1, <1>2, <1>3, <1>4, <1>5, <1>6, <1>7, <1>8, <1>9
        DEF Next, SwitchStep, HandlerStep

\* Type correctness: digests and notifications are taken apart where they belong, and
\* no handler reads past the end of a notification.
THEOREM TypeCorrect == Spec => []TypeOK
<1>1. Init => TypeOK /\ Held
  BY TypeInit
<1>2. TypeOK /\ Held /\ [Next]_vars => TypeOK' /\ Held'
  BY TypeStep
<1> QED BY <1>1, <1>2, PTL DEF Spec

-----------------------------------------------------------------------------
(* One handler, and no Write that fails but for the contents of the tables  *)

\* How far the tables are apart at each statement of the handler.  The case of a full
\* table shows why both tables must have the same size.
Apart(h) ==
  LET m == Digest(h)[1] IN
  /\ at[h] \notin {"learnDmac", "forgetSmac"} => smac = Known
  /\ at[h] = "learnDmac" =>
       \/ smac = Known /\ (m \in Known \/ Full(Known))
       \/ smac = Known \cup {m} /\ m \notin Known /\ ~Full(Known)
  /\ at[h] = "forgetSmac" => Known = smac \ {Forgotten(h)}

\* The two tables differ at most by the host the handler is at work on.
LEMMA ApartStep ==
  ASSUME NEW h \in Handlers, Handlers = {h}, ~WritesFail,
         TypeOK, Held, Apart(h), [Next]_vars
  PROVE  Apart(h)'
<1> USE DEF Apart, Digest, Forgotten, Known
<1>1. at[h] \in Statement /\ at \in [Handlers -> Statement]
  BY DEF TypeOK
<1>2. CASE SwitchStep \/ UNCHANGED vars
  BY <1>2 DEF SwitchStep, Packet, AckTimeout, IdleTimeout, OtherMessage,
              vars, switchVars, handlerVars
<1>3. CASE Take(h)
  <2>1. Head(inbox) \in Messages
    BY <1>3, HeadTailProperties DEF Take, TypeOK
  <2>2. at'[h] \notin {"learnDmac", "forgetSmac"}
    BY <1>1, <1>3, <2>1, MessageKinds DEF Take, First
  <2> QED BY <1>3, <2>2 DEF Take, switchVars
<1>4. CASE LearnSmac(h)
  <2>1. at'[h] = "learnDmac" /\ at[h] = "learnSmac" /\ UNCHANGED <<dmac, message>>
    BY <1>1, <1>4 DEF LearnSmac, GoTo, MayFail
  <2>2. InsertSmac(Digest(h)[1])
    BY <1>4 DEF LearnSmac, MayFail
  <2> QED BY <2>1, <2>2 DEF InsertSmac
<1>5. CASE LearnDmac(h)
  <2>1. at'[h] = "ack" /\ at[h] = "learnDmac" /\ UNCHANGED smac
    BY <1>1, <1>5 DEF LearnDmac, GoTo, MayFail
  <2>2. InsertDmac(Digest(h)[1], Digest(h)[2])
    BY <1>5 DEF LearnDmac, MayFail
  <2>3. smac = Known'
    BY <2>1, <2>2 DEF InsertDmac
  <2> QED BY <2>1, <2>3
<1>6. CASE Ack(h)
  BY <1>1, <1>6 DEF Ack, GoTo
<1>7. CASE ForgetDmac(h)
  <2>1. /\ at'[h] = "forgetSmac" /\ at[h] = "forgetDmac"
        /\ UNCHANGED <<smac, message, index>>
    BY <1>1, <1>7 DEF ForgetDmac, GoTo, MayFail
  <2>2. DeleteDmac(Forgotten(h))
    BY <1>7 DEF ForgetDmac, MayFail
  <2> QED BY <2>1, <2>2 DEF DeleteDmac
<1>8. CASE ForgetSmac(h)
  <2>1. /\ at'[h] \in {"range", "forgetDmac"} /\ at[h] = "forgetSmac"
        /\ UNCHANGED dmac
    BY <1>1, <1>8 DEF ForgetSmac, MayFail
  <2>2. DeleteSmac(Forgotten(h))
    BY <1>8 DEF ForgetSmac, MayFail
  <2> QED BY <2>1, <2>2 DEF DeleteSmac
<1> QED BY <1>2, <1>3, <1>4, <1>5, <1>6, <1>7, <1>8 DEF Next, HandlerStep

\* So they do in every reachable state.
LEMMA ApartInvariant ==
  ASSUME NEW h \in Handlers, Handlers = {h}, ~WritesFail
  PROVE  Spec => [](TypeOK /\ Held /\ Apart(h))
<1>1. Init => TypeOK /\ Held /\ Apart(h)
  BY TypeInit DEF Init, Apart, Known
<1>2. (TypeOK /\ Held /\ Apart(h)) /\ [Next]_vars => (TypeOK /\ Held /\ Apart(h))'
  BY TypeStep, ApartStep
<1> QED BY <1>1, <1>2, PTL DEF Spec

\* With one handler, and no Write that fails for a reason of its own, a host is never
\* forwarded to while it may be learnt: however many hosts, moves, repetitions and
\* full tables.
THEOREM SingleHandlerForwards ==
  ASSUME NEW h \in Handlers, Handlers = {h}, ~WritesFail
  PROVE  Spec => []ForwardOnlyLearnt
<1>1. TypeOK /\ Held /\ Apart(h) => ForwardOnlyLearnt
  BY DEF Apart, ForwardOnlyLearnt, Forgotten, Digest
<1> QED BY <1>1, ApartInvariant, PTL

\* Under the same conditions smac and dmac agree whenever the handler waits.
THEOREM SingleHandlerAgrees ==
  ASSUME NEW h \in Handlers, Handlers = {h}, ~WritesFail
  PROVE  Spec => []TablesAgreeAtRest
<1>1. TypeOK /\ Held /\ Apart(h) => TablesAgreeAtRest
  BY DEF Apart, TablesAgreeAtRest, AllIdle
<1> QED BY <1>1, ApartInvariant, PTL
-----------------------------------------------------------------------------
(* Digests on their way, with any number of handlers and failing Writes     *)

\* What waits in messageCh still waits when another message comes.
LEMMA HoldsAppend ==
  ASSUME NEW s \in Seq(Messages), NEW m \in Messages, NEW e, Holds(s, e)
  PROVE  Holds(Append(s, m), e)
<1>1. PICK i \in 1 .. Len(s) : s[i] = e
  BY DEF Holds
<1>2. Append(s, m)[i] = e /\ i \in 1 .. Len(Append(s, m))
  BY <1>1
<1> QED BY <1>2 DEF Holds

\* What a sequence holds is its head, or its tail holds it.
LEMMA HoldsTail ==
  ASSUME NEW S, NEW s \in Seq(S), s # <<>>, NEW e, Holds(s, e)
  PROVE  Head(s) = e \/ Holds(Tail(s), e)
<1>1. PICK i \in 1 .. Len(s) : s[i] = e
  BY DEF Holds
<1>2. CASE i = 1
  BY <1>1, <1>2
<1>3. CASE i # 1
  <2>1. i - 1 \in 1 .. Len(Tail(s)) /\ Tail(s)[i - 1] = s[i]
    BY <1>1, <1>3
  <2> QED BY <1>1, <2>1 DEF Holds
<1> QED BY <1>2, <1>3

\* A message more in messageCh takes no digest out of anyone's hands.
LEMMA AtHandArrival ==
  ASSUME TypeOK, NEW m \in Messages, inbox' = Append(inbox, m), UNCHANGED handlerVars,
         NEW d, AtHand(d)
  PROVE  AtHand(d)'
<1>1. CASE Holds(inbox, [kind |-> "digest", digest |-> d])
  BY <1>1, HoldsAppend DEF TypeOK, AtHand
<1>2. CASE \E h \in Handlers : at[h] \in {"learnSmac", "learnDmac", "ack"} /\ Digest(h) = d
  BY <1>2 DEF AtHand, handlerVars, Digest
<1> QED BY <1>1, <1>2 DEF AtHand

\* A handler that takes a message takes the digest in its hands.
LEMMA AtHandTake ==
  ASSUME TypeOK, NEW h \in Handlers, Take(h), NEW d, AtHand(d)
  PROVE  AtHand(d)'
<1>1. /\ at[h] = "range" /\ inbox # <<>> /\ inbox' = Tail(inbox) /\ inbox \in Seq(Messages)
      /\ at' = [at EXCEPT ![h] = First(Head(inbox))]
      /\ message' = [message EXCEPT ![h] = Head(inbox)]
      /\ at \in [Handlers -> Statement] /\ message \in [Handlers -> Messages]
  BY DEF Take, TypeOK
<1> DEFINE e == [kind |-> "digest", digest |-> d]
<1>2. CASE Head(inbox) = e
  <2>1. at'[h] = "learnSmac" /\ message'[h] = e
    BY <1>1, <1>2 DEF First
  <2> QED BY <2>1 DEF AtHand, Digest
<1>3. CASE Holds(Tail(inbox), e)
  BY <1>1, <1>3 DEF AtHand
<1>4. CASE \E g \in Handlers : at[g] \in {"learnSmac", "learnDmac", "ack"} /\ Digest(g) = d
  <2>1. PICK g \in Handlers : at[g] \in {"learnSmac", "learnDmac", "ack"} /\ Digest(g) = d
    BY <1>4
  <2>2. at'[g] = at[g] /\ message'[g] = message[g]
    BY <1>1, <2>1
  <2> QED BY <2>1, <2>2 DEF AtHand, Digest
<1>5. Holds(inbox, e) => Head(inbox) = e \/ Holds(Tail(inbox), e)
  BY <1>1, HoldsTail
<1> QED BY <1>2, <1>3, <1>4, <1>5 DEF AtHand

\* A handler that goes on after a Write, made or failed, still has its digest.
LEMMA AtHandWrite ==
  ASSUME TypeOK, Held, NEW h \in Handlers,
         LearnSmac(h) \/ LearnDmac(h) \/ ForgetDmac(h) \/ ForgetSmac(h),
         NEW d, AtHand(d)
  PROVE  AtHand(d)' /\ UNCHANGED unacked
<1>1. UNCHANGED <<inbox, message, unacked>>
  BY DEF LearnSmac, LearnDmac, ForgetDmac, ForgetSmac, GoTo
<1>2. PICK to \in Statement : at' = [at EXCEPT ![h] = to]
  BY DEF LearnSmac, LearnDmac, ForgetDmac, ForgetSmac, GoTo, Statement
<1>3. at \in [Handlers -> Statement] /\ at[h] # "ack"
      /\ (at[h] \in {"learnSmac", "learnDmac"} => at'[h] \in {"learnDmac", "ack"})
  BY DEF TypeOK, LearnSmac, LearnDmac, ForgetDmac, ForgetSmac, GoTo
<1>4. CASE Holds(inbox, [kind |-> "digest", digest |-> d])
  BY <1>1, <1>4 DEF AtHand
<1>5. CASE \E g \in Handlers : at[g] \in {"learnSmac", "learnDmac", "ack"} /\ Digest(g) = d
  <2>1. PICK g \in Handlers : at[g] \in {"learnSmac", "learnDmac", "ack"} /\ Digest(g) = d
    BY <1>5
  <2>2. at'[g] \in {"learnSmac", "learnDmac", "ack"}
    BY <1>2, <1>3, <2>1
  <2> QED BY <1>1, <2>1, <2>2 DEF AtHand, Digest
<1> QED BY <1>1, <1>4, <1>5 DEF AtHand

\* A handler that puts its message down has had no digest but its own.
LEMMA AtHandAck ==
  ASSUME TypeOK, NEW h \in Handlers, at[h] = "ack", GoTo(h, "range"),
         NEW d, AtHand(d), d # Digest(h)
  PROVE  AtHand(d)'
<1>1. /\ at' = [at EXCEPT ![h] = "range"] /\ UNCHANGED <<inbox, message>>
      /\ at \in [Handlers -> Statement]
  BY DEF GoTo, TypeOK
<1>2. CASE Holds(inbox, [kind |-> "digest", digest |-> d])
  BY <1>1, <1>2 DEF AtHand
<1>3. CASE \E g \in Handlers : at[g] \in {"learnSmac", "learnDmac", "ack"} /\ Digest(g) = d
  <2>1. PICK g \in Handlers : at[g] \in {"learnSmac", "learnDmac", "ack"} /\ Digest(g) = d
    BY <1>3
  <2>2. g # h
    BY <2>1
  <2>3. at'[g] = at[g]
    BY <1>1, <2>2
  <2> QED BY <1>1, <2>1, <2>3 DEF AtHand, Digest
<1> QED BY <1>2, <1>3 DEF AtHand

\* A packet's digest is at hand, like those before it.
LEMMA AtHandPacket ==
  ASSUME TypeOK, NEW m \in Macs, NEW p \in Ports, Packet(m, p)
  PROVE  /\ \A d : AtHand(d) => AtHand(d)'
         /\ AtHand(<<m, p>>)' /\ unacked' = unacked \cup {<<m, p>>}
<1> DEFINE e == [kind |-> "digest", digest |-> <<m, p>>]
<1>1. e \in Messages /\ inbox' = Append(inbox, e) /\ UNCHANGED handlerVars
  BY DEF Packet, Messages, Digests
<1>2. ASSUME NEW d, AtHand(d) PROVE AtHand(d)'
  BY <1>1, <1>2, AtHandArrival
<1>3. Append(inbox, e)[Len(inbox) + 1] = e /\ Len(Append(inbox, e)) = Len(inbox) + 1
      /\ Len(inbox) \in Nat
  BY <1>1 DEF TypeOK
<1>4. Holds(inbox', e)
  BY <1>1, <1>3 DEF Holds
<1> QED BY <1>2, <1>4 DEF Packet, AtHand

\* A step leaves every digest the switch withholds on its way to its acknowledgement.
LEMMA WithheldStep ==
  TypeOK /\ Held /\ NoDigestWithheld /\ [Next]_vars => NoDigestWithheld'
<1> SUFFICES ASSUME TypeOK, Held, NoDigestWithheld, [Next]_vars, NEW d \in unacked'
             PROVE  AtHand(d)'
  BY DEF NoDigestWithheld
<1>1. ASSUME NEW m \in Macs, NEW p \in Ports, Packet(m, p) PROVE AtHand(d)'
  <2>1. d \in unacked \/ d = <<m, p>>
    BY <1>1 DEF Packet
  <2> QED BY <1>1, <2>1, AtHandPacket DEF NoDigestWithheld
<1>2. ASSUME NEW e \in Digests, AckTimeout(e) PROVE AtHand(d)'
  <2>1. AtHand(d) /\ UNCHANGED <<inbox, handlerVars>>
    BY <1>2 DEF AckTimeout, NoDigestWithheld
  <2> QED BY <2>1 DEF AtHand, handlerVars, Digest
<1>3. ASSUME NEW macs \in IdleLists, IdleTimeout(macs) PROVE AtHand(d)'
  <2>1. [kind |-> "idle", macs |-> macs] \in Messages
    BY DEF Messages
  <2> QED BY <1>3, <2>1, AtHandArrival DEF IdleTimeout, NoDigestWithheld, switchVars
<1>4. CASE OtherMessage
  <2>1. Nothing \in Messages
    BY DEF Nothing, Messages
  <2> QED BY <1>4, <2>1, AtHandArrival DEF OtherMessage, NoDigestWithheld, switchVars
<1>5. ASSUME NEW h \in Handlers, Take(h) PROVE AtHand(d)'
  <2>1. AtHand(d)
    BY <1>5 DEF Take, switchVars, NoDigestWithheld
  <2> QED BY <1>5, <2>1, AtHandTake
<1>6. ASSUME NEW h \in Handlers, LearnSmac(h) \/ LearnDmac(h) \/ ForgetDmac(h) \/ ForgetSmac(h)
      PROVE  AtHand(d)'
  <2>1. AtHand(d)
    BY <1>6 DEF LearnSmac, LearnDmac, ForgetDmac, ForgetSmac, NoDigestWithheld
  <2> QED BY <1>6, <2>1, AtHandWrite
<1>7. ASSUME NEW h \in Handlers, Ack(h) PROVE AtHand(d)'
  <2>1. AtHand(d) /\ d # Digest(h) /\ at[h] = "ack" /\ GoTo(h, "range")
    BY <1>7 DEF Ack, NoDigestWithheld
  <2> QED BY <2>1, AtHandAck
<1>8. CASE UNCHANGED vars
  BY <1>8 DEF vars, switchVars, handlerVars, NoDigestWithheld, AtHand, Digest
<1> QED BY <1>1, <1>2, <1>3, <1>4, <1>5, <1>6, <1>7, <1>8 DEF Next, SwitchStep, HandlerStep

\* However many handlers there are and whatever Writes fail, the switch withholds only
\* digests whose acknowledgement is still to come.
THEOREM NothingWithheld == Spec => []NoDigestWithheld
<1>1. Init => TypeOK /\ Held /\ NoDigestWithheld
  BY TypeInit DEF Init, NoDigestWithheld
<1>2. TypeOK /\ Held /\ NoDigestWithheld /\ [Next]_vars
      => TypeOK' /\ Held' /\ NoDigestWithheld'
  BY TypeStep, WithheldStep
<1> QED BY <1>1, <1>2, PTL DEF Spec

-----------------------------------------------------------------------------
(* With one handler, MAC learning is a single table                         *)

\* The handler that the refinement mapping looks at is the only one.
LEMMA OneHandler ==
  ASSUME NEW h \in Handlers, Handlers = {h}
  PROVE  TheHandler = h
  BY DEF TheHandler

\* Initial states map to initial states.
LEMMA TableInit ==
  ASSUME NEW h \in Handlers, Handlers = {h}, Init
  PROVE  Table!Init
<1>1. at[h] = "range" /\ message[h] = Nothing /\ Nothing.kind = "other"
  BY DEF Init, Nothing
<1>2. MadeBy(h) = 0
  BY <1>1 DEF MadeBy
<1> QED BY <1>1, <1>2, OneHandler DEF Init, Nothing, Table!Init

\* A host whose entry in smac times out is known, or is the one the handler is at work
\* on: learning has put it in smac only so far, forgetting has deleted it from dmac.
LEMMA IdleConcerned ==
  ASSUME NEW h \in Handlers, Handlers = {h}, TypeOK, Held, Apart(h), NEW m \in smac
  PROVE  Table!Concerned(m)
<1> USE OneHandler DEF Table!Concerned, Table!Learnt, Apart, Known
<1>1. at[h] \in Statement
  BY DEF TypeOK
<1>2. CASE at[h] = "learnDmac"
  <2>1. message[h].kind = "digest"
    BY <1>2 DEF Held
  <2> QED BY <1>2, <2>1 DEF Digest
<1>3. CASE at[h] = "forgetSmac"
  <2>1. message[h].kind = "idle" /\ index[h] \in 1 .. Len(message[h].macs)
    BY <1>3 DEF Held
  <2> QED BY <1>3, <2>1 DEF Forgotten
<1>4. CASE at[h] \notin {"learnDmac", "forgetSmac"}
  BY <1>4
<1> QED BY <1>2, <1>3, <1>4

\* What the switch sends is a report of the abstract table.
LEMMA SwitchReports ==
  ASSUME NEW h \in Handlers, Handlers = {h}, TypeOK, Held, Apart(h), SwitchStep
  PROVE  [Table!Next]_(Table!vars)
<1>1. TheHandler = h
  BY OneHandler
<1>2. UNCHANGED <<dmac, message[h], MadeBy(h)>>
  BY DEF SwitchStep, Packet, AckTimeout, IdleTimeout, OtherMessage, switchVars, handlerVars, MadeBy
<1> SUFFICES ASSUME inbox' # inbox
             PROVE  \E r \in Messages : Table!Report(r)
  BY <1>1, <1>2 DEF Table!Next, Table!vars
<1>3. ASSUME NEW m \in Macs, NEW p \in Ports, Packet(m, p)
      PROVE  \E r \in Messages : Table!Report(r)
  <2> DEFINE r == [kind |-> "digest", digest |-> <<m, p>>]
  <2>1. r \in Messages /\ r.kind = "digest" /\ r.digest[1] = m
    BY DEF Messages, Digests
  <2>2. m \notin DOMAIN dmac
    BY <1>3 DEF Packet, Apart, Known, Forgotten, Digest
  <2>3. Table!Report(r)
    BY <1>1, <1>2, <1>3, <2>1, <2>2 DEF Packet, Table!Report, Table!Learnt
  <2> QED BY <2>1, <2>3
<1>4. ASSUME NEW macs \in IdleLists, IdleTimeout(macs)
      PROVE  \E r \in Messages : Table!Report(r)
  <2> DEFINE r == [kind |-> "idle", macs |-> macs]
  <2>1. r \in Messages /\ r.kind = "idle" /\ r.macs = macs
    BY DEF Messages
  <2>2. \A i \in 1 .. Len(macs) : Table!Concerned(macs[i])
    BY <1>4, IdleConcerned DEF IdleTimeout
  <2>3. Table!Report(r)
    BY <1>1, <1>2, <1>4, <2>1, <2>2 DEF IdleTimeout, Table!Report
  <2> QED BY <2>1, <2>3
<1>5. CASE OtherMessage
  <2>1. Nothing \in Messages /\ Nothing.kind = "other"
    BY DEF Nothing, Messages
  <2>2. Table!Report(Nothing)
    BY <1>1, <1>2, <1>5, <2>1 DEF OtherMessage, Table!Report
  <2> QED BY <2>1, <2>2
<1>6. ASSUME NEW d \in Digests, AckTimeout(d) PROVE FALSE
  BY <1>6 DEF AckTimeout
<1> QED BY <1>3, <1>4, <1>5, <1>6 DEF SwitchStep

\* The handler takes a report when it has made all the changes of the one before.
LEMMA TakeBegins ==
  ASSUME NEW h \in Handlers, Handlers = {h}, TypeOK, Take(h)
  PROVE  Table!Begin
<1>1. /\ at[h] = "range" /\ inbox # <<>> /\ inbox' = Tail(inbox) /\ dmac' = dmac
      /\ message'[h] = Head(inbox) /\ index'[h] = 1 /\ at'[h] = First(Head(inbox))
  BY DEF Take, TypeOK, switchVars
<1>2. message[h] \in Messages /\ Head(inbox) \in Messages
  BY <1>1, HeadTailProperties DEF TypeOK
<1>3. MadeBy(h) = Table!Changes(message[h])
  BY <1>1, <1>2, MessageKinds DEF MadeBy, Table!Changes
<1>4. MadeBy(h)' = 0
  BY <1>1, <1>2, MessageKinds DEF MadeBy, First
<1> QED BY <1>1, <1>3, <1>4, OneHandler DEF Table!Begin

\* Of the two Writes a host costs, the one to dmac is the change of the table; the one
\* to smac and the acknowledgement are not seen.
LEMMA WriteChanges ==
  ASSUME NEW h \in Handlers, Handlers = {h}, ~WritesFail, TypeOK, Held,
         LearnSmac(h) \/ LearnDmac(h) \/ Ack(h) \/ ForgetDmac(h) \/ ForgetSmac(h)
  PROVE  [Table!Next]_(Table!vars)
<1>1. TheHandler = h
  BY OneHandler
<1>2. UNCHANGED <<inbox, message>> /\ at \in [Handlers -> Statement]
      /\ index \in [Handlers -> 1 .. MaxIdle + 1] /\ MaxIdle \in Nat
  BY SizeAssumption DEF LearnSmac, LearnDmac, Ack, ForgetDmac, ForgetSmac, GoTo, TypeOK
<1>3. CASE LearnSmac(h)
  <2>1. at[h] = "learnSmac" /\ at'[h] = "learnDmac" /\ dmac' = dmac
    BY <1>2, <1>3 DEF LearnSmac, GoTo, MayFail
  <2>2. MadeBy(h) = 0 /\ MadeBy(h)' = 0
    BY <2>1 DEF MadeBy
  <2> QED BY <1>1, <1>2, <2>1, <2>2 DEF Table!vars
<1>4. CASE LearnDmac(h)
  <2>1. at[h] = "learnDmac" /\ at'[h] = "ack" /\ InsertDmac(Digest(h)[1], Digest(h)[2])
    BY <1>2, <1>4 DEF LearnDmac, GoTo, MayFail
  <2>2. MadeBy(h) = 0 /\ MadeBy(h)' = 1 /\ message[h].kind = "digest"
    BY <2>1 DEF MadeBy, Held
  <2>3. Table!Learn
    BY <1>1, <1>2, <2>1, <2>2 DEF Table!Learn, Table!Learnt, InsertDmac, Digest, Known, Full,
                                          Cardinality, Table!Cardinality
  <2> QED BY <2>3 DEF Table!Next
<1>5. CASE Ack(h)
  <2>1. at[h] = "ack" /\ at'[h] = "range" /\ dmac' = dmac /\ message[h].kind = "digest"
    BY <1>2, <1>5 DEF Ack, GoTo, Held
  <2>2. MadeBy(h) = 1 /\ MadeBy(h)' = 1
    BY <1>2, <2>1 DEF MadeBy
  <2> QED BY <1>1, <1>2, <2>1, <2>2 DEF Table!vars
<1>6. CASE ForgetDmac(h)
  <2>1. /\ at[h] = "forgetDmac" /\ at'[h] = "forgetSmac" /\ index' = index
        /\ DeleteDmac(Forgotten(h))
    BY <1>2, <1>6 DEF ForgetDmac, GoTo, MayFail
  <2>2. message[h].kind = "idle" /\ index[h] \in 1 .. Len(message[h].macs)
    BY <2>1 DEF Held
  <2>3. MadeBy(h) = index[h] - 1 /\ MadeBy(h)' = index[h]
    BY <2>1 DEF MadeBy
  <2>4. index[h] \in Nat /\ Len(message[h].macs) \in Nat
    BY <1>2, <2>2, MessageKinds DEF TypeOK
  <2>5. /\ MadeBy(h) < Len(message[h].macs) /\ MadeBy(h)' = MadeBy(h) + 1
        /\ MadeBy(h) + 1 = index[h]
    BY <2>2, <2>3, <2>4
  <2>6. Table!Forget
    BY <1>1, <1>2, <2>1, <2>2, <2>5 DEF Table!Forget, Table!Learnt, DeleteDmac, Forgotten, Known
  <2> QED BY <2>6 DEF Table!Next
<1>7. CASE ForgetSmac(h)
  <2> DEFINE n == Len(message[h].macs)
  <2>1. /\ at[h] = "forgetSmac" /\ at'[h] = IF index[h] = n THEN "range" ELSE "forgetDmac"
        /\ index'[h] = index[h] + 1 /\ dmac' = dmac
    BY <1>2, <1>7 DEF ForgetSmac, MayFail
  <2>2. message[h].kind = "idle" /\ index[h] \in Int
    BY <1>2, <2>1 DEF Held
  <2>3. MadeBy(h) = index[h] /\ MadeBy(h)' = index[h]
    BY <1>2, <2>1, <2>2 DEF MadeBy
  <2> QED BY <1>1, <1>2, <2>1, <2>3 DEF Table!vars
<1> QED BY <1>3, <1>4, <1>5, <1>6, <1>7

\* With one handler, and no Write that fails for a reason of its own, the two tables are
\* as good as one that is changed at once: whatever is repeated, moves or finds a table
\* full, the switch reports only hosts dmac does not have, and dmac follows the reports,
\* each once and in their order.
THEOREM LearningIsOneTable ==
  ASSUME NEW h \in Handlers, Handlers = {h}, ~WritesFail
  PROVE  Spec => TableSpec
<1> DEFINE I == TypeOK /\ Held /\ Apart(h)
<1>1. Init => Table!Init
  BY TableInit
<1>2. ASSUME I, [Next]_vars PROVE [Table!Next]_(Table!vars)
  <2>1. CASE UNCHANGED vars
    <3>1. UNCHANGED <<dmac, inbox, message, MadeBy(h)>>
      BY <2>1 DEF vars, switchVars, handlerVars, MadeBy
    <3> QED BY <3>1, OneHandler DEF Table!vars
  <2>2. CASE Take(h)
    BY <1>2, <2>2, TakeBegins DEF Table!Next
  <2> QED BY <1>2, <2>1, <2>2, SwitchReports, WriteChanges DEF Next, HandlerStep
<1>3. Spec => []I
  BY ApartInvariant
<1> HIDE DEF I
<1> QED BY <1>1, <1>2, <1>3, PTL DEF Spec, TableSpec, Table!Spec
=============================================================================
