----------------------------- MODULE L2Learning -----------------------------
(***************************************************************************)
(* MAC learning in cmd/l2_switch: the goroutines of handleStreamMessages,  *)
(* with learnMacs and forgetEntries, and the tables smac and dmac of       *)
(* l2_switch.p4 they keep.  main starts one handler; a comment there says  *)
(* that several would be safe too.                                         *)
(*                                                                         *)
(* Messages come through messageCh, in the order the switch sent them.  A  *)
(* digest list holds one digest, <<mac, port>> (initialize configures      *)
(* MaxListSize 1); an idle notification holds entries of smac, <<mac>>.    *)
(***************************************************************************)
EXTENDS Naturals, Sequences, FiniteSets

CONSTANTS
  Macs, Ports,
  Handlers,    \* the goroutines in handleStreamMessages
  TableSize,   \* size of smac and of dmac (4096 in the P4 program)
  WritesFail,  \* TRUE iff a Write may fail for a reason of its own
  MaxInbox,    \* bound on the messages that wait in messageCh
  MaxIdle      \* bound on the entries of one idle notification

ASSUME SizeAssumption == TableSize \in Nat /\ MaxInbox \in Nat /\ MaxIdle \in Nat
ASSUME FinAssumption == IsFiniteSet(Macs) /\ WritesFail \in BOOLEAN

Digests   == Macs \X Ports
IdleLists == UNION {[1 .. n -> Macs] : n \in 1 .. MaxIdle}
Messages  == [kind : {"digest"}, digest : Digests]
             \cup [kind : {"idle"}, macs : IdleLists] \cup [kind : {"other"}]

VARIABLES
  smac,     \* the source addresses the switch does not report
  dmac,     \* dmac[m]: the port the switch forwards to, where m has an entry
  unacked,  \* the digests the switch sends no second time
  inbox,    \* messageCh
  at,       \* at[h]: the statement handler h is at
  message,  \* message[h]: the message h is handling
  index     \* index[h]: the entry of the idle notification h is at

switchVars  == <<smac, dmac, unacked>>
handlerVars == <<at, message, index>>
vars == <<switchVars, inbox, handlerVars>>

Statement ==
  {"range", "learnSmac", "learnDmac", "ack", "forgetDmac", "forgetSmac"}
Nothing == [kind |-> "other"]

Init ==
  /\ smac = {} /\ dmac = <<>> /\ unacked = {}
  /\ inbox = <<>>
  /\ at = [h \in Handlers |-> "range"]
  /\ message = [h \in Handlers |-> Nothing]
  /\ index = [h \in Handlers |-> 1]

Known == DOMAIN dmac

-----------------------------------------------------------------------------
(* The switch: Write requests are atomic; an insert fails when the entry    *)
(* is there already or the table is full, a delete when it is not there.    *)

Full(S) == Cardinality(S) >= TableSize

InsertSmac(m) == smac' = IF m \in smac \/ Full(smac) THEN smac ELSE smac \cup {m}
DeleteSmac(m) == smac' = smac \ {m}

\* Mutants of InsertDmac: dmac has room for one entry less than smac; ...
InsertDmacSmaller(m, p) ==
  dmac' = IF m \in Known \/ Cardinality(Known) + 1 >= TableSize THEN dmac
          ELSE [a \in Known \cup {m} |-> IF a = m THEN p ELSE dmac[a]]

\* ... an entry that is there is changed.
InsertDmacChanges(m, p) ==
  dmac' = IF m \notin Known /\ Full(Known) THEN dmac
          ELSE [a \in Known \cup {m} |-> IF a = m THEN p ELSE dmac[a]]

InsertDmac(m, p) ==
  dmac' = IF m \in Known \/ Full(Known) THEN dmac
          ELSE [a \in Known \cup {m} |-> IF a = m THEN p ELSE dmac[a]]
DeleteDmac(m) == dmac' = [a \in Known \ {m} |-> dmac[a]]

\* A packet of m comes in on p: on a miss in smac, learn_mac makes a digest, which the
\* switch sends unless the same digest is still to be acknowledged.  A host may have
\* moved between two packets.
Packet(m, p) ==
  /\ m \notin smac /\ <<m, p>> \notin unacked /\ Len(inbox) < MaxInbox
  /\ inbox' = Append(inbox, [kind |-> "digest", digest |-> <<m, p>>])
  /\ unacked' = unacked \cup {<<m, p>>}
  /\ UNCHANGED <<smac, dmac, handlerVars>>

\* AckTimeoutNs has passed: the digest may be sent again.
AckTimeout(d) ==
  /\ d \in unacked
  /\ unacked' = unacked \ {d}
  /\ UNCHANGED <<smac, dmac, inbox, handlerVars>>

\* Entries of smac have had no hit for macTimeout.  They stay until the client
\* deletes them, and the switch may send the notification again.
IdleTimeout(macs) ==
  /\ \A i \in 1 .. Len(macs) : macs[i] \in smac
  /\ \A i, j \in 1 .. Len(macs) : macs[i] = macs[j] => i = j
  /\ Len(inbox) < MaxInbox
  /\ inbox' = Append(inbox, [kind |-> "idle", macs |-> macs])
  /\ UNCHANGED <<switchVars, handlerVars>>

\* A packet-in, an error or something unknown.
OtherMessage ==
  /\ Len(inbox) < MaxInbox
  /\ inbox' = Append(inbox, Nothing)
  /\ UNCHANGED <<switchVars, handlerVars>>

-----------------------------------------------------------------------------
(* handleStreamMessages: the range loop over messageCh                      *)

First(m) == CASE m.kind = "digest" -> "learnSmac"
              [] m.kind = "idle"   -> "forgetDmac"
              [] m.kind = "other"  -> "range"

Take(h) ==
  /\ at[h] = "range" /\ inbox # <<>>
  /\ inbox' = Tail(inbox)
  /\ message' = [message EXCEPT ![h] = Head(inbox)]
  /\ index' = [index EXCEPT ![h] = 1]
  /\ at' = [at EXCEPT ![h] = First(Head(inbox))]
  /\ UNCHANGED switchVars

GoTo(h, statement) ==
  at' = [at EXCEPT ![h] = statement] /\ UNCHANGED <<inbox, message, index>>

\* A Write that fails for a reason of its own (the connection, the role) changes
\* nothing; like any failed Write it is logged and the handler goes on.
MayFail == WritesFail /\ UNCHANGED <<smac, dmac>>

\* learnMacs: insert in smac, insert in dmac, acknowledge.
Digest(h) == message[h].digest

\* Mutant of LearnSmac: dmac is forgotten.
LearnSmacOnly(h) ==
  /\ at[h] = "learnSmac" /\ GoTo(h, "ack")
  /\ (InsertSmac(Digest(h)[1]) /\ UNCHANGED dmac) \/ MayFail
  /\ UNCHANGED unacked

LearnSmac(h) ==
  /\ at[h] = "learnSmac" /\ GoTo(h, "learnDmac")
  /\ (InsertSmac(Digest(h)[1]) /\ UNCHANGED dmac) \/ MayFail
  /\ UNCHANGED unacked

\* Mutant of LearnDmac: after a failed insert the digest is not acknowledged.
LearnDmacGivesUp(h) ==
  /\ at[h] = "learnDmac"
  /\ \/ InsertDmac(Digest(h)[1], Digest(h)[2]) /\ UNCHANGED smac /\ GoTo(h, "ack")
     \/ MayFail /\ GoTo(h, "range")
  /\ UNCHANGED unacked

LearnDmac(h) ==
  /\ at[h] = "learnDmac" /\ GoTo(h, "ack")
  /\ (InsertDmac(Digest(h)[1], Digest(h)[2]) /\ UNCHANGED smac) \/ MayFail
  /\ UNCHANGED unacked

\* AckDigestList.  The switch reads it at once: reading it later is the same as not
\* having another packet of that host in the meantime.
Ack(h) ==
  /\ at[h] = "ack" /\ GoTo(h, "range")
  /\ unacked' = unacked \ {Digest(h)}
  /\ UNCHANGED <<smac, dmac>>

\* forgetEntries: for each entry, delete from dmac, then from smac.
Forgotten(h) == message[h].macs[index[h]]

\* Mutant of ForgetDmac: the delete from dmac is skipped.
ForgetDmacNot(h) ==
  /\ at[h] = "forgetDmac" /\ GoTo(h, "forgetSmac") /\ UNCHANGED switchVars

ForgetDmac(h) ==
  /\ at[h] = "forgetDmac" /\ GoTo(h, "forgetSmac")
  /\ (DeleteDmac(Forgotten(h)) /\ UNCHANGED smac) \/ MayFail
  /\ UNCHANGED unacked

\* Mutant of ForgetSmac: only the first entry of a notification is handled.
ForgetSmacOnce(h) ==
  /\ at[h] = "forgetSmac" /\ GoTo(h, "range")
  /\ (DeleteSmac(Forgotten(h)) /\ UNCHANGED dmac) \/ MayFail
  /\ UNCHANGED unacked

ForgetSmac(h) ==
  /\ at[h] = "forgetSmac"
  /\ index' = [index EXCEPT ![h] = @ + 1]
  /\ at' = [at EXCEPT ![h] = IF index[h] = Len(message[h].macs) THEN "range" ELSE "forgetDmac"]
  /\ (DeleteSmac(Forgotten(h)) /\ UNCHANGED dmac) \/ MayFail
  /\ UNCHANGED <<inbox, message, unacked>>

-----------------------------------------------------------------------------
HandlerStep(h) ==
  Take(h) \/ LearnSmac(h) \/ LearnDmac(h) \/ Ack(h) \/ ForgetDmac(h) \/ ForgetSmac(h)

SwitchStep ==
  \/ \E m \in Macs, p \in Ports : Packet(m, p)
  \/ \E d \in Digests : AckTimeout(d)
  \/ \E macs \in IdleLists : IdleTimeout(macs)
  \/ OtherMessage

Next == SwitchStep \/ \E h \in Handlers : HandlerStep(h)

Spec == Init /\ [][Next]_vars

\* The handlers run.  Nobody has to send a packet, no entry has to time out.
Fairness == \A h \in Handlers : WF_vars(HandlerStep(h))

FairSpec == Spec /\ Fairness

-----------------------------------------------------------------------------
TypeOK ==
  /\ smac \subseteq Macs /\ Known \subseteq Macs /\ dmac \in [Known -> Ports]
  /\ unacked \subseteq Digests
  /\ inbox \in Seq(Messages) /\ Len(inbox) <= MaxInbox
  /\ at \in [Handlers -> Statement] /\ message \in [Handlers -> Messages]
  /\ index \in [Handlers -> 1 .. MaxIdle + 1]

AllIdle == \A h \in Handlers : at[h] = "range"

\* A host is forwarded to only while it is not being learnt: a stale entry of dmac
\* would survive the next learning, because an insert changes no existing entry.
ForwardOnlyLearnt == Known \subseteq smac

\* Between two messages the tables agree, whatever failed inserts a full table, a
\* repeated digest or a repeated notification has caused.
TablesAgreeAtRest == AllIdle => smac = Known

Holds(s, e) == \E i \in 1 .. Len(s) : s[i] = e

\* The digest waits in messageCh or is in the hands of a handler.
AtHand(d) ==
  \/ Holds(inbox, [kind |-> "digest", digest |-> d])
  \/ \E h \in Handlers : at[h] \in {"learnSmac", "learnDmac", "ack"} /\ Digest(h) = d

\* No digest is withheld for ever: the switch waits for an acknowledgement only while
\* the digest is on its way to it.  A Write that fails keeps no host from being
\* reported again.
NoDigestWithheld == \A d \in unacked : AtHand(d)

\* How many of the changes its message asks for the handler has made to dmac.
MadeBy(h) ==
  CASE at[h] \in {"learnSmac", "learnDmac"} -> 0
    [] at[h] = "ack" -> 1
    [] at[h] = "forgetDmac" -> index[h] - 1
    [] at[h] = "forgetSmac" -> index[h]
    [] OTHER -> IF message[h].kind = "digest" THEN 1
                ELSE IF message[h].kind = "idle" THEN Len(message[h].macs) ELSE 0

TheHandler == CHOOSE h \in Handlers : TRUE

Table == INSTANCE LearningTable WITH
  Reports <- Messages, Size <- TableSize, table <- dmac, reports <- inbox,
  current <- message[TheHandler], done <- MadeBy(TheHandler)

\* With one handler the two tables, kept by two Writes a host, are as good as one that
\* every Write changes at once: a host is reported while it is not in dmac, and dmac
\* follows the reports, each once and in their order.
TableSpec == Table!Spec

\* A host that was reported gets its entry in dmac, if there is room.
ReportedIsLearnt ==
  \A m \in Macs :
    (\E i \in 1 .. Len(inbox) : inbox[i].kind = "digest" /\ inbox[i].digest[1] = m)
      ~> m \in Known \/ Full(Known)

\* A host whose entry timed out is learnt anew at its next packet.
IdleIsForgotten ==
  \A m \in Macs :
    (\E i \in 1 .. Len(inbox) :
       inbox[i].kind = "idle" /\ \E k \in 1 .. Len(inbox[i].macs) : inbox[i].macs[k] = m)
      ~> m \notin smac
=============================================================================
