# Verification of p4runtime-go-client

TLA+ models of the P4Runtime client library in `pkg/` and of the programs in `cmd/` that
are built on it, above all the MAC-learning `l2_switch`, TLC configurations that check them on small
instances, and TLAPS proofs for every value of the constants. Paths and line numbers are
those of the repository; `PROJECT.json` maps each definition to the lines it models.

## 1. The system

| Component | State | Operations | Talks to |
|---|---|---|---|
| Stream client, `pkg/client/client.go` `Run` and the goroutine it starts, `SendMessage`, `SendPacketOut` | `streamSendCh` (1000 messages), `connStatusCh` (unbuffered, one per Run), the stream | open, announce, forward a message, receive, hand over, stop, return | callers by `streamSendCh`, the application by `arbitrationCh` and `messageCh`, the server by gRPC |
| Reads, `ReadEntityWildcard`, `ReadEntitySingle` and their callers in `tables.go`, `counters.go`, `meters.go` | `readEntityCh` (100 entities), the consumer's `out` and `err`, a wait group; the count of a single read | look up, read, copy or count each entity, close, wait | caller goroutine and consumer goroutine |
| MAC learning, `cmd/l2_switch/main.go` `handleStreamMessages`, and `smac`, `dmac` of `l2_switch.p4` | two tables in the switch, digests not yet acknowledged, messages in `messageCh` | learn (two inserts, an acknowledgement), forget (two deletes per entry) | the switch by Write requests and by the stream client |
| Match encoding, `get` of the match types in `tables.go`, `conversion.go` | the caller's byte slices, which are modified and shared | exact, LPM, ternary, range, optional; canonical byte strings | callers of `NewTableEntry` |
| Life of the programs, `main` of `l2_switch`, `wcmp` and `example`, and `pkg/signals` | `stopCh`, `notifyCh` (2 signals), `waitCh`, `messageCh`; on the switch the multicast group and the test groups of `wcmp` | start, wait to be primary, set pipeline and defaults, insert and delete test groups, stop, clean up | Run, the signal goroutine, the switch |
| Pipeline configuration and names, `fwd_pipe.go`, `p4info.go` | `Client.p4Info`, without a lock | set, get, commit a pipeline; look up ids | every helper that needs an id |
| Writes, entity helpers, `client.go`, `pre.go`, `action_profiles.go`, `digests.go`, `port.go` | none | build one message, send one RPC | server |
| Port counters of `l2_switch`, mininet scripts | none of their own | sequences of the above | — |

### What is hard, and what is to be true

* **Stream client.** Three kinds of goroutine meet in four channels, two of them
  unbuffered and one that may be nil. The result of `stream.Send` is ignored, an EOF is
  reported to nobody, a stopped Run does not wait for the goroutine it started, and the
  same `Client` can be Run again. *True should be:* the arbitration update goes out
  first, accepted messages go out in order and once, nothing is lost while the streams
  last, only a stop leaves a goroutine behind, only an EOF leaves a deaf Run, statuses of
  old and new streams are not mixed up, incoming messages are handled in order, each once
  and with its meaning, stopping and breaking end a Run, senders are served.
* **Reads.** A bounded channel between two goroutines, errors on both sides and a
  caller that in one case does not wait; an answer to a single read that has several
  entities, in one reply or in many. *True should be:* the caller sees the whole
  answer in its order or an error, and nobody blocks for ever.
* **MAC learning.** Two tables without a transaction; messages that are stale when they
  are handled, repeated, or meet a full table; a comment that allows several handlers.
  *True should be:* between two messages the tables agree, no host is kept from being
  reported again, what was reported is learnt and what timed out is forgotten.
* **Learning through the stream.** A digest goes from the switch to `messageCh`, a handler,
  `streamSendCh`, Run and back as its acknowledgement; each stage is bounded and blocks the
  one before it. The stream may end and another client become primary, and `main` drops the
  error of Run and whatever `arbitrationCh` says after the first time. *True should be:* no
  acknowledgement is lost while the switch is ours, the round never waits for itself, and
  a change of the primary client spoils no more entries than there were changes.
* **Match encoding.** Masks at byte boundaries, values and masks of different lengths,
  slices of one array in several entries. *True should be:* the bits a match does not care
  for are zero, and sharing a slice does not change an entry except by narrower matches.
* **Pipeline configuration.** Goroutines replace and read one pointer without a lock; a
  lookup reads it twice, an entry takes several lookups; a pipeline may be saved and not
  yet committed, an answer be lost, the switch restart. *True should be:* nobody searches
  a nil P4Info, the cached P4Info is that of the switch when the results of the calls say
  so, and an entry built from it goes into the table it was built for.
* **Life of the programs.** A timeout races the answer it waits for, signals come at any
  moment, three goroutines outlive the one that closes their channels, what is left on the
  switch meets the next start, a Write may have been made whose answer was lost, `wcmp`
  looks at no stop while it writes and has nobody read `messageCh`. *True should be:* a ready
  program ends when told to, two signals end any program, no status blocks its receiver, no
  panic comes before cleanup, what a program leaves on the switch it has reported.

`PROJECT.json` lists each of these hazards at its line with the properties that cover it,
and says why where none does.

## 2. Modules

| Module | Of | Role |
|---|---|---|
| `StreamClient` | stream client | senders, Runs, receiving goroutines; transport and server external |
| `StreamService` | | what the stream promises: the abstract specification |
| `RunOutside` | | one Run as the rest of its process sees it: a second abstract specification |
| `MCStreamClient` | | names of senders for TLC |
| `StreamClientProofs` | | its six theorems |
| `StreamServiceProofs` | | `StreamClient` implements `StreamService` and, Run by Run, `RunOutside` |
| `WildcardRead` | reads | caller, channel, consumer; the single read without them |
| `AtomicRead` | | what a read promises: the abstract specification |
| `WildcardReadProofs` | | type correctness, the refinement, and that nobody waits alone |
| `L2Learning` | MAC learning | handlers, two tables, the messages between them |
| `LearningTable` | | what learning promises the hosts: the abstract specification |
| `MCL2Learning` | | names and symmetry for TLC |
| `L2LearningProofs` | | its four invariants and the refinement |
| `L2Stream` | MAC learning with the stream client | `L2Learning` composed with `streamSendCh`, Run and a change of the primary client |
| `MCL2Stream` | | names for TLC |
| `L2StreamProofs` | | its three theorems |
| `MatchEncoding` | match encoding | entries built from one buffer |
| `MatchEncodingProofs` | | its four theorems |
| `PipelineConfig` | pipeline configuration, names | goroutines that set, save, commit and get pipelines and build entries |
| `MCPipelineConfig` | | ids and symmetry for TLC |
| `PipelineConfigProofs` | | its three theorems |
| `Lifecycle` | life of the programs | main, signals, Run (an instance of `RunOutside`), restarts |
| `LifecycleProofs` | | its six theorems |

A definition whose comment calls it a *mutant* is not part of the system: it is a
plausible mistake in the definition that follows it, kept to show that a property can
fail. `PROJECT.json` pairs every property of every run with one.

### StreamClient

A message of `SendMessage` is named by its *ticket*, its rank among those `streamSendCh`
has accepted; ticket 0 is the arbitration update. `sendCh` is the content of
`streamSendCh`. `run[r]` is the place of the r-th call of Run, `outgoing[r]` the message
in its hands, `recv[r]` the place of its receiving goroutine. `toServer[r]` and
`fromServer[r]` are what went over the stream, with `serverRead[r]` and `taken[r]` marking
how far each was read.

* `Call`, `Accept`, `GiveUp`: the select of `SendMessage` (lines 217-225).
* `Open`, `OpenFails`, `SendDone`, `SendFails`: lines 71-88 and the two calls of
  `stream.Send`, whose result the code ignores; `SendFails` therefore goes on to the
  select like `SendDone`.
* `SelectMessage`, `SelectStop`, `SelectError`: the three cases of lines 125-132.
  `connStatusCh` is unbuffered, so `SelectError` moves both goroutines at once.
* `RecvMessage`, `RecvEOF`, `RecvError`, `DeliverArbitration`, `DeliverMessage`: lines
  88-115. A nil `messageCh` is a capacity of 0, on which a send never succeeds; a nil
  `arbitrationCh` is `ArbitrationCh = FALSE`, and the code then skips the send.
* External: `ServerRead`, `ServerSend` (after the server has read the arbitration update),
  `StreamEnds` (EOF or broken), `Stop` and `ReadMessage` of the application.

Runs follow one another, as the documentation's callers do; two concurrent Runs of one
Client are not modelled. `stream.Send` on a broken stream and one that the transport's
flow control holds up are both in the model (`Window`).

`StreamService` is what is left when goroutines, channels and capacities are taken away: two
counters of accepted and departed messages, what each stream carried, and how much of what
the server said has been handled. The mapping counts a message as gone when it is neither in
`streamSendCh` nor in Run's hands (`Gone`), and as handled when the receiving goroutine is
done with it (`Handled`). A loss is then a step of its own, which only a stream that is over
allows, and a `SendFails` or the pick-up of a message are stutters or that loss.

`RunOutside` is one Run for the rest of its process: when it is up, when it returns, what
its goroutine hands over. `Outside(r)` maps the r-th Run to it. The goroutine that has an
error to tell counts as one that receives (`RecvSeen`), since the error and the return are one
step for everybody else, or the goroutine stays there for ever behind a Run that has been
stopped.

### WildcardRead and AtomicRead

A single read (`single`) has no consumer and no channel: it counts what it receives, and
`CheckSingle` is the end of `ReadEntitySingle` together with the type check of its caller.

The three callers of `ReadEntityWildcard` are one pattern; they differ in what an unknown
name does (an error for a meter, a nil dereference for a counter, table id 0 for a table),
and the model allows all three. `received` are the entities of the stream, each *good* or
*bad* (not of the kind asked for); `sent` and `consumed` say how many went in and out of
the channel. `AtomicRead` has neither channel nor goroutine: the server lists, the list
ends, one answer is given. The mapping takes the list of the server from `received` and
the answer from `result`; `complete` is that the stream ended well.

### L2Learning

A handler's statement `at[h]` is the RPC it is at. Each Write is atomic in the switch, so
each is one action: `LearnSmac`, `LearnDmac`, `Ack` for learnMacs (88-136), `ForgetDmac`,
`ForgetSmac` for each entry of forgetEntries (138-166). The code logs a failed Write and
goes on; in the model an insert into a full table or over an existing entry, or a delete
of nothing, leaves the table as it is, and with `WritesFail` any Write may do nothing.
`Packet`, `AckTimeout`, `IdleTimeout` and `OtherMessage` are the switch. A digest that is
not acknowledged is not repeated until its timer runs out; an idle notification may be
repeated at any time.

`LearningTable` has one table, changed by one report after the other, and none of the
Writes, acknowledgements and messages between. The mapping for one handler takes `table`
from `dmac`, `reports` from the messages that wait, `current` from the one in hand, and `done`
(`MadeBy`) from the handler's place: a learning counts as made by its Write to `dmac`, a
forgetting by the first of its two. `smac` is in none of it, so the refinement says that the
two tables look like one to whoever sends packets, entries that the switch refuses included.

### L2Stream

EXTENDS `L2Learning` and replaces its environment: `Ack` becomes `QueueAck`, which waits for
room in `streamSendCh`; `PassAck` is Run, `ReadsAck` the switch. What `StreamClient` says of Run
is used in its coarsest form: take a message, send it or lose it on a stream that is over,
return on a broken one (`RunReturns`), never on an EOF. `primary` is who the switch holds for
its primary client; `LosesPrimary` and `RegainsPrimary` are another client's arrival and
departure, or the switch noticing the end of the stream. A handler's Write is refused without
it (`WriteRefused`, the Write of `L2Learning` instantiated with failures allowed). `changes`
counts for the properties only.

### MatchEncoding

A byte is the set of its one bits, `&` is intersection, a slice is a pair of indices into
the one buffer. Every step builds one more entry from the buffer. `GetLpm` masks the
buffer in place and `GetTernary` masks it from the point where the mask begins, and
the entry keeps a slice of it, as `get` does. What an entry would send *now* is `Wire`. The
byte counts in the model are the code's divisions and remainders with `W` for 8.

### PipelineConfig

A pipeline stands for its P4Info, `Ids` for what the P4Info says. Each caller is at one
statement: `Start` sends the request of `SetFwdPipeFromBytesWithAction` (`op` is its
action), `CommitFwdPipe` or `GetFwdPipe` (`get` asks for the P4Info, `cookie` does not);
`Serve` is the switch, which answers, `Fail` an error before or after the request was
served; `ReturnSet`, `ReturnCommit`, `ReturnGet` and `ReturnError` are the lines behind
the RPC, with the assignment of `c.p4Info` where the code has one. `CheckTable` and
`ReadTable`, `CheckField` and `ReadField` are `tableId` and `matchFieldId`, which read the
shared pointer once for nil and once more to search it; a read sees the latest write.
`Write` is the insert of the entry, refused by the switch at will and if the ids are not
those of a table and its field.

`due` and `alone` are history variables, which no action of the code reads: what the
results of the calls so far say the cached P4Info is (that of the pipeline that runs, of
the one that was saved, or unknown), and whose call no other one has overlapped with.
They put into a formula what a caller may rely on. A `Restart` of the switch, which also
stands for another client's taking it over, is visible to nobody and makes both unknown.

Roles are not modelled: `CommitFwdPipe` names none, and how a server treats that is not
in the repository. A table has one match field.

### Lifecycle

`program` is the one of the three that runs, `main` the RPC or channel operation its main is
at. `End(how)` ends a process and with it its goroutines and its connection; only what is on
the switch survives, `group`, the multicast group of `l2_switch`, and `groups`, the entries of
`wcmp`'s table. `ended` says how the last process ended until the next one starts. `Start` stands for the
flags, the files and the dial (a failure there has touched nothing yet), `Capabilities` to
`SetDefault` are lines 288-346 of `l2_switch`, whose first part all programs share; `Stop`,
`Cleanup`, `CloseMessageCh`, `Return` are the deferred calls in their order (`Deferred` says which
program has which). `InstallGroup` and `DeleteGroup` are one round each of the two loops of
`wcmp`, `failed` the groups whose delete it logged as an error; a Write that returns an error may
have been made. Run and its receiving goroutine are those of `RunOutside`, which `StreamClient`
implements: `RunOpens`, `RunStops`, `StreamEnds`, `ReceivesStatus`, `ReceivesMessage`,
`DeliverStatus` and `DeliverMessage` take its steps and add what they mean to the program.
`Arbitrates` is the switch making up its mind; the status that says so arrives later, perhaps
when it is no longer true or when Run has closed its side. `HasRoom`
tells the programs' `messageCh` apart: one that is read, one that only fills up, none.
`waiter` is the goroutine behind `arbitrationCh`, which hands the first positive status to main
over the unbuffered `waitCh`. `Signal`, `FirstSignal`, `SecondSignal` are `pkg/signals`. Of the
switch it is assumed, as external, that a new pipeline empties the tables and keeps the
multicast group, the latter from the comment of `cleanup` in `l2_switch` about
behavioral-model issue 891. Programs run one after another: two clients with one election id
at the same time are not modelled.

## 3. Runs

| Run | Question | Bounds |
|---|---|---|
| `stream_outbound` | order and fate of accepted messages; the outbound half of `StreamService` | 2 senders, 4 calls, capacity 2, window 2, 2 Runs, no incoming messages |
| `stream_reconnect` | what one Run leaves to the next; the inbound half of `StreamService`; `RunOutside` | 2 Runs, 2 incoming messages per stream, `messageCh` of 1 |
| `stream_liveness` | stop, break, delivery, under fairness | 2 senders, 2 calls, 2 incoming messages |
| `stream_nil_channel` | stop and senders when both channels are nil, under fairness | 2 senders, 3 calls, 1 incoming message |
| `wildcard_read` | refinement of `AtomicRead`, who waits for whom, and liveness | capacity 2, replies of up to 3, 8 entities |
| `match_encoding` | meaning of each match on a shared buffer | 2 bytes of 2 bits, masks of up to 3 bytes, 2 entries |
| `lifecycle` | safety and liveness over restarts of the three programs | 3 starts, 3 signals each, 2 test groups, `messageCh` of 1 |
| `pipeline` | the cached P4Info and what is built from it | 2 goroutines, 2 pipelines, of 2 tables and of 1, 1 entry |
| `l2_single` | agreement of the tables, one handler; what is reported is learnt, what is idle is forgotten; refinement of `LearningTable` | 3 hosts, 2 ports, tables of 2, 2 messages waiting, 2 entries per notification |
| `l2_failures` | digests, two handlers, failing writes | 2 hosts, 1 port, 2 messages waiting |
| `l2_stream` | learning through the stream while the primary client changes and the stream ends | 2 hosts, tables of 1, 2 messages waiting, every queue of 1, 2 changes |
| `l2_two_handlers` | agreement with two handlers: *violated* | 2 hosts, 1 port, 2 messages waiting |

Why the bounds are enough. Every queue both fills up and empties: the calls exceed
`SendCap`, a reply exceeds `ChSize`, the incoming messages exceed `messageCh`, the hosts
exceed the table of `l2_single`, the signals exceed `notifyCh`. Order and duplication
need two messages and two streams; a stale goroutine needs two Runs; a race of handlers
needs two handlers and one host. A cached P4Info is overtaken by one other goroutine and
one other pipeline; in the second pipeline of `pipeline` an id stands for another table
than in the first one, and one name has no id. A match of two bytes has boundaries before, inside and
after a byte, and masks that are shorter than, as long as and longer than the value.
`stream_outbound` has no incoming messages because no outgoing action reads them, and
`stream_reconnect` no calls of SendMessage because nothing incoming depends on senders but
for the arbitration update, which Run itself sends; the refinement of `StreamService` is
checked in both and proved for the two together. `stream_liveness` has two incoming messages,
one to fill `messageCh` and one to wait behind it; a third takes TLC beyond the few minutes a
run is meant to take. In `l2_stream` the client loses the switch and gets it back once, which
is one pair of each kind that the tables can be left with; a table of one entry is full while
the second host is learnt. Two starts show what one process leaves to the next, the third
that a program between two of `l2_switch` is of no help. The capacities 1000 and 100 of the code are the constants 1 and 2 here; the proofs
hold for all.

Deadlock checking is off where the system may really stop: a stream that ended, a read
that returned, a program nobody starts again, or the bound on the entries.

### What the runs show

* Everything above that is said to be true holds, with the limits the properties state:
  a message may be lost once some stream has ended (`NoLossWhileUp`), a stopped Run may
  leave its goroutine behind (`LeftBehindOnlyByStop`) and that goroutine may report an old
  status after a new one (`NoStaleArbitration`); a Run whose stream met an EOF stays
  (`DeafOnlyAfterEOF`).
* `lifecycle`: `LeftoverIsForEver` is a cost, not a promise. An `l2_switch` that ends after the
  insert of the multicast group and before its deletion leaves the group behind, and
  then no later `l2_switch` gets ready, whatever `wcmp` and `example` do in between, since initialize fails on the group and cleanup is
  deferred behind initialize. Fatal errors and a second signal do so; so does a graceful
  stop, because `stopCh` also ends Run, and once the switch has dropped the client as
  primary the delete fails, which is only logged. The panic of a late message on the
  closed `messageCh` comes only behind cleanup. `wcmp` has no cleanup, and an install it counts as
  failed may have been made; but since its second loop tries every group, a `wcmp` that is
  through leaves at most groups whose delete it has logged (`LeavesOnlyReported`).
* `l2_stream`: a change of the primary client between the two Writes of a pair, or of several
  pairs, leaves a host in one table only. `ChangesSpoilFew` bounds how many: one host known to
  `dmac` only for each time the client becomes primary again, one known to `smac` only for each
  time it ceases to be, besides the one in the handler's hands. The first kind is never aged
  out, because only `smac` reports idle entries. `RoundGoesOn` has the limit that a Run that has
  returned, whose error `main` discards, leaves the handler waiting in `AckDigestList` for ever.
* `pipeline`: the Client's P4Info is reliable only by the rule `due` states. After
  `SaveFwdPipeFromBytes` it is that of a pipeline the switch does not run, and since
  `CommitFwdPipe` does not touch it, a `GetFwdPipe` or another set between the save and
  the commit leaves that of the wrong pipeline behind: `Conclusion` has to say *unknown*
  there. So it does after a verification, after an overlap of two calls, whose answers may
  be handled in the other order than the switch served them, and after an error, which
  leaves open what the switch has done. Within the rule entries go where they are meant
  to, and no goroutine dereferences nil in any case.
* `l2_two_handlers` finds a violation, a divergence between a comment and the code.
  `main.go:322` says that several goroutines may handle messages. One handler inserts a
  host in `smac`, another, at an idle notification of that entry, deletes the host from
  `dmac`, the first inserts it there, the second deletes it from `smac`. The host is
  then in `dmac` but not in `smac`. If it has moved, its next learning does not replace
  the old port, because an insert over an existing entry fails and is only logged. With
  the one handler `main` starts, `l2_single` and two theorems show agreement.

### Fairness

* `StreamClient`: a goroutine that can run runs (weak fairness). A select whose case is
  ready again and again takes it, and a sender on a channel that has room again and again
  gets in (strong fairness): Go chooses at random among ready cases and wakes the senders
  of a channel in the order they blocked. The application reads its channels and the
  server reads an open stream, as the callers in `cmd/` do. Nothing makes anybody call,
  cancel, stop, end a stream or send.
* `WildcardRead`: weak fairness of both goroutines; none of the server.
* `L2Learning` (in `l2_single`): weak fairness of the handlers; none of the switch.
* `L2Stream`: the goroutines run; the handler that waits for `streamSendCh` gets in when there is room again
  and again (strong fairness, as for a sender), and the switch reads an open stream. Nobody has
  to report, time out, end the stream or become primary.
* `Lifecycle`: weak fairness of the goroutines and of the two waits with a deadline of
  five seconds. None of the RPCs without a deadline, so that `SecondSignalEnds` is about
  a main that may wait for ever.

## 4. Proofs

All are for any values of the constants allowed by the named assumptions, which only say
that capacities and bounds are natural numbers (a send channel, a window and a read
channel at least 1) and that the sets are finite where their sizes are compared.

* **`StreamClientProofs`**: `TypeCorrect`, `OutboundOrdered`, `NoLoss`, `DeafRun`,
  `NoGoroutineLeft`, `ArbitrationFresh`. None of the invariants is inductive alone. `IInv`
  adds that Runs follow one another (`Sequential`), that one that has not started has
  touched nothing (`Untouched`), that an active Run has announced itself before it turns
  to `streamSendCh` (`Announced`), and where the tickets are: those in `streamSendCh` are
  the last ones without a gap (`Numbered`), the one in Run's hands is the one before them
  (`InHand`), and all on any stream are before both (`Behind`). `HeardStarted` relates
  what the application heard to the Runs that have started. Frame lemmas first reduce a
  step to the actions that touch one group of variables.
* **`StreamServiceProofs`**: `StreamRefinement`, that `StreamClient` implements `StreamService`. It
  rests on the invariant of `StreamClientProofs`, which says that the message in Run's hands is
  the next to leave, and on `Addressed`: what the receiving goroutine is handing over is the last
  message it took, and goes to the channel of its kind. One lemma per group of actions names
  the step of `StreamService` each of them is. `RunsSeen`,
  for every Run, that it is a `RunOutside`: a Run that returns an error does so in
  the step that takes its goroutine away, and after any other return the goroutine goes on by itself.
* **`WildcardReadProofs`**: `TypeCorrect` and `ReadIsAtomic`, that `WildcardRead`, both kinds of
  read, implements `AtomicRead`. The invariant has two parts. `Phases` relates the caller's
  place to the channel: closed behind the stream only, consumer done only when closed
  and empty. `Consumed` says that `out` is exactly the entities taken so far, or that one
  of these is bad. At `Wait` the two give the complete list or an entity to blame.
  `NobodyAlone` is the safety core of `NobodyWaitsForEver`: whoever waits has a partner that is
  still able to come. Its invariant `Partners` adds that the consumer is there while the
  caller receives.
* **`PipelineConfigProofs`**: `TypeCorrect` (with the absence of a nil search),
  `P4InfoCorrect`, `EntryCorrect`, for any goroutines, pipelines and ids. While a call is
  under way the cached P4Info need not be what is due, so `IInv` says what makes up for it
  (`Answered`): the answer in the hands of the caller, if it is alone. `Apart` says that
  whoever is alone sees no other call, `Builders` and `LookedUp` that the ids in the hands
  of a goroutine that builds an entry alone are those of the pipeline that runs, and
  `Tables` that there are no entries without a pipeline.
* **`L2LearningProofs`**: `TypeCorrect` and `NothingWithheld` for any number of handlers and
  whatever Writes fail, the latter inductive with the types: each step that takes a digest out
  of a place puts it into the next or acknowledges it;
  `SingleHandlerForwards` and `SingleHandlerAgrees` under the assumption of one handler
  and writes that fail only because of the tables. The invariant `Apart` says how far the
  tables differ at each statement: at most by the host in hand, inserted in `smac` only if
  there is room for it in both. `l2_two_handlers` shows why one handler is assumed; that
  writes do not fail otherwise is needed because nothing in the code repairs half a pair.
  `LearningIsOneTable`, under the same assumption, is the refinement of `LearningTable`. It rests
  on that agreement: between the two Writes of a learning `smac` differs from `dmac` by the host in hand at most, so that
  both inserts find room or neither does.
* **`L2StreamProofs`**: `StreamTypeCorrect` and `WithheldOnItsWay`, for any capacities and any
  number of handlers. The second reuses the lemmas about handlers of `L2LearningProofs` for the
  part up to `QueueAck` and follows the acknowledgement through `sendCh` and `passed`; a refused
  Write moves a handler as a failed one does.
  `ChangesCost` is `ChangesSpoilFew` for one handler, tables of any size and any number
  of changes of the primary client. The invariant `Spoilt` splits the bound by direction: every loss may have
  cost a host of `smac`, every gain one of `dmac`, and while the client is primary the host in
  hand is not spoilt yet, because its second Write is still to come. When that Write may
  spoil it after all, the bound of the other kind has a host to spare, or `smac` is full, and
  then `dmac` has room only where `smac` has more spoilt hosts (`Fits`, and the lemma that
  compares the differences of two finite sets).
* **`MatchEncodingProofs`**: `TypeCorrect`, `DontCareZero`, `SharingNarrows` and `WidthCorrect`, for bytes,
  values, masks and numbers of entries of any size. The lemmas are about positions: a bit of a
  number has one place in its byte string (`PosUnique`), what `ToCanonicalIf` cuts off is zero
  (`SliceIsSlice`), so a slice stands for the number its string is from there on (`NumberOfSlice`). One lemma
  per match type (`WholeIsNew`, `LpmIsNew`, `TernaryIsNew`) says that it takes from the buffer
  exactly the bits it does not care for. `IInv` then says of every entry that its slice holds only bits
  its match cares for and has cut off none of them (`Fits`), which losing more bits cannot
  change, and of the buffer that it keeps every bit all matches care for (`Kin`).
* **`LifecycleProofs`**: `TypeCorrect`; `NoPanicBeforeCleanup`, by the invariant that
  `messageCh` is closed only when main has only to return; `LeftoverBlocks`, for any number of
  later starts, by the invariant that the main of an `l2_switch` does not get past the insert
  while the group is there (`Stuck`), which holds from the moment a process has left the group and is
  preserved by every step; `LeavesReported`, by the invariant that in the second loop of `wcmp` the
  groups below `i` that are still on the switch are among the failed ones. `StatusIsHeard`: the
  goroutine behind `arbitrationCh` sends to `waitCh` only while main waits there; the
  invariant `Heard` says that main gets past its wait only by taking what that goroutine sends, and
  that it does so once. `SecondSignalStays`: of two signals one is in `notifyCh` for as long as the
  process runs; the invariant `Kept` counts the one that has closed `stopCh`.

The types of `StreamClient`, `PipelineConfig` and `L2Stream` (with those of `L2Learning`) are also
checked by runs, since capacities or a nil dereference depend on them; the other type invariants are
what the proofs start from and are only proved.

Only model-checked: everything under fairness (`RunEnds`, `StopEndsRun`, `InboundDelivered`,
`SenderServed`, `NobodyWaitsForEver`, `StatusTaken`, `StopEndsReady`, `SecondSignalEnds`,
`ReportedIsLearnt`, `IdleIsForgotten`, `RoundGoesOn`), which the provers do not handle. Of three of
them the part that is about states is an invariant of its own and proved: `NoMutualWait` of
`NobodyWaitsForEver`, `WaiterIsHeard` of `StatusTaken`, `SecondSignalKept` of `SecondSignalEnds`.
What is left to TLC there is that the partner does come.

## 5. Not modelled

* Roles, and what a server does with a request that names none.
* Write helpers: one message each, no state; their effect on tables is in `L2Learning`,
  `PipelineConfig` and `Lifecycle`. Entries with several match fields or several lookups of
  actions: `PipelineConfig` has one table and one field to an entry, the smallest number of
  lookups a replacement of the P4Info can come between. `ReadTableEntry` numbers match fields by
  their position, `NewTableEntry` by the ids of the P4Info: both agree for the tables of `cmd/`.
* Options, ports, `UInt32ToBinary`, `MacToBinary`, `IpToBinary`: parsing without state.
  `UInt32ToBinary` cuts `numBytes` bytes off the front where it would have to keep as many,
  which is the same for 2, the only value in use.
* The port counters of `l2_switch`: a ticker around two wildcard reads, which only logs. The
  mininet scripts: no logic of the client.
* Programs that run at the same time with one election id.
* `*_data.go`: generated.
* gRPC, the server and the switch are external and appear only as far as the client uses
  them. Go's memory model matters in one place, the unlocked `Client.p4Info`, whose
  reads see the latest write in the model; `out` and `err` of a wildcard read are ordered by the
  wait group, as the model has it.

## 6. Plan

1. Done: all the components above, four abstract specifications (`StreamService`, `RunOutside`,
   `AtomicRead`, `LearningTable`) with their refinements, the composition of learning and stream,
   the Run of `Lifecycle` as an instance of `RunOutside`, and the proofs of section 4: every
   invariant and every refinement that a passing run checks is proved.
2. Next: the outbound half of `L2Stream` as an instance of `StreamService`; entries with several
   match fields in `PipelineConfig`, with `ReadTableEntry`; safety cores of the other liveness
   properties.
3. Then: two programs with the same election id at once, and the members of `wcmp`'s groups.
