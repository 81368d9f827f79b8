# hfua in TLA+

`hfua` is a Java SIP user agent: the *peers* softphone
(`src/main/java/net/sourceforge/peers`, about 14 000 lines), with the stubs of a
web application around it. These modules model its signalling and the life of its media: what happens to
a call, a request or a registration when its peer, the network, the timers and the
application act on it at the same time.

Paths below are relative to `src/src/main/java/net/sourceforge/peers`.

## 1. The system

### Components

| Component | State | Operations | Correct when |
|---|---|---|---|
| INVITE server transaction (`sip/transaction/InviteServerTransaction*`) | state object, responses, tasks of timers G, H, I | receivedRequest, sendReponse, timerX | the application's answer reaches the wire; retransmissions repeat what was sent; it ends |
| INVITE client transaction (`InviteClientTransaction*`) | state object, last response, tasks of timers A, B, D | start, receivedResponse, timerX | an INVITE is repeated until answered and not for ever; each kind of response is reported once |
| Non-INVITE transactions (`NonInvite*`) | as above, timers E, F, J, K | as above | a request gets one answer, repeated when the request is |
| Transaction table (`TransactionManager`) | two hash tables, one `java.util.Timer` | create, get, remove | a lookup finds what is alive, and nothing else |
| Dialogs (`sip/transactionuser`) | state object, tags, CSeq numbers, route set; list of dialogs | receivedOrSent1xx, 2xx, 300To699, Bye; getDialog, createDialog, removeDialog | no event that its state rejects; early dialogs end |
| User agent cores (`sip/core/useragent`: `UAC`, `UAS`, `InitialRequestManager`, `MidDialogRequestManager`, `UserAgent`) | `guiClosedCallIds`, CSeq counter, peers | register, invite, terminate, acceptCall, rejectCall; requestReceived | a call that one side ends is ended on the other |
| Method handlers (`handlers/`: `InviteHandler`, `CancelHandler`, `ByeHandler`, `OptionsHandler`, `RegisterHandler`) | `mediaDestination`, `challenged`, `initialIncomingInvite`, timers | one callback per message | handlers of different calls do not disturb each other |
| Challenges (`ChallengeManager`) | realm, nonce, nonce count | handleChallenge, postProcess | a challenged request is repeated with credentials |
| Transport (`sip/transport`) | cache of senders and receivers per connection, keep-alive tasks | createServerTransport, createClientTransport, sendResponse; `MessageReceiver.run` | the receiver thread survives every message |
| Media manager (`media/MediaManager`) | `datagramSocket`, `rtpSession`, capture and reader threads | setDatagramSocket, handleAck, successResponseReceived, stopSession | sound goes to the peer of the call in progress, and ends with it |
| Media pipeline, RTP (`media`, `rtp`) | pipes, latches, packet counters | capture, encode, send, stop | threads stop; every frame is sent once |
| Syntax, SDP, NAT, configuration, logging | values | parsing and printing | |
| Web application, JAIN SIP demonstration, pages | | stubs | |

### Threads and how they meet

One **receiver** thread per UDP socket reads a datagram, finds its transaction and
runs the handlers to the end (`MessageReceiver.run`, `processMessage`). One
**`java.util.Timer`** thread runs the tasks of all transactions. The
**application** calls `invite`, `acceptCall`, `rejectCall` and `terminate` in
threads of its own. Each has direct access to the transactions, to the dialogs
and to the fields of the handlers and of the media manager, which exist once and
are shared by all calls. The locks are few: `receivedResponse` of a client
transaction and one block of `terminate` hold the transaction's monitor, and the
block of `sendSuccessfulResponse` that prepares the 200 holds one of its own;
timer tasks, server transactions and dialogs have none.

What is hard, then: the order in which a handler's steps interleave with those of
another thread; responses and CANCEL, ACK or BYE requests that are lost,
duplicated or late; timer tasks that race with an answer; state that is read and
used after it changed; and an unchecked exception in the receiver thread, which
`run` does not catch and which ends the reception of all messages. The list of
these hazards, line by line, with the properties that cover each, is in
`PROJECT.json` under `hazards`.

## 2. The modules

| Module | Models |
|---|---|
| `DialogStates` | the states of a dialog, the event each of them accepts or throws on, and what a state that was read before makes of the dialog; used by the call modules |
| `IncomingCall` | calls received: INVITE server transaction, dialog, handlers, receiver, timers and application, thread by thread |
| `OutgoingCall` | calls made: INVITE client transactions, challenges, dialog, `UAC.terminate`, thread by thread |
| `EndToEnd` | both at once: a caller and a callee that run this code, over a network that reorders, loses and copies |
| `PhoneCall` | abstract: what one call is to the two people who make it; implemented by every leg of `EndToEnd` |
| `MidDialog` | requests in a dialog, in and out of order: ACK, re-INVITE, OPTIONS, BYE, and the fields that all calls share |
| `NonInviteTransactions` | client transactions of REGISTER, BYE and CANCEL, and the server transaction at the other end |
| `RequestOutcome` | abstract: a request that was started is given one outcome; implemented by `NonInviteTransactions` |
| `Registration` | register, unregister, refresh timers, challenges; takes of a transaction what `RequestOutcome` promises |
| `MediaSession` | the four fields of `MediaManager`, the RTP socket and the receive task, step by step |
| `CapturePipeline` | the threads behind the sound of one session: two bounded pipes, three flags and a latch |
| `Transport` | the tables of sockets, senders and receivers, keep-alive timers, receiver threads, `closeTransports` |
| `<Module>_proofs` | the theorems about one module; `Media_proofs` those about `MediaSession` and `CapturePipeline` |
| `MCEndToEnd` | the sets of messages that the network of the two `EndToEnd` runs may lose or copy |
| `MCNonInviteTransactions` | how often each request of the `NonInviteTransactions` run is repeated |

### How the modules divide the code

`IncomingCall` and `OutgoingCall` have every interleaving of one agent's threads, and a
peer that may send whatever the protocol lets it. `EndToEnd` has two agents, where a peer
can only send what this code does send; each handler is one step there, so that the
interplay of the two ends can be followed to the end of the call. `MidDialog` has one
agent whose peers send requests inside dialogs, which the other three leave out.
`MediaSession` opens up what these four take as one step (`stopSession`, starting a
session), and `CapturePipeline` what `MediaSession` takes as one step (start and stop of a
`CaptureRtpSender`). `Transport` opens up the sending and receiving of messages.

### How a Java method becomes actions

`thread[t]` says what each thread is doing. A handler is cut in steps where another
thread can observe or change the state between them, and only there:

- A call of a **state object** (`state.receivedInvite()`, `state.timerGFires()`,
  `dialog.receivedOrSentBye()`) is two steps, one that reads the field `state` and
  remembers it in `seen`, and one that runs the method of the state that was read.
  It is where the code's check-then-act races come from. The methods that assign a
  state do so whatever the state has become since.
- A **lookup** and the use of what it returned are separate steps where another
  thread can change the result in between (`Lookup` then `EndDialog` in `OutgoingCall`;
  `LookupSender`, and the creation of a sender, in `Transport`).
- What happens **under a monitor** that every other user of the state takes is one
  step. In `OutgoingCall` the receiver keeps the transaction's monitor throughout
  `receivedResponse`, callbacks included; `MayLock` makes `terminate` wait for it. In
  `Registration`, `preProcessRegister` and `successResponseReceived` hold the handler's
  monitor and the other two methods do not.
- The **receiver** begins a message only when it is idle. `dead`, and `up` in
  `EndToEnd`, `fatal` in `MidDialog`, are the end of `run` by an exception.

In `EndToEnd` and `MidDialog` a handler is one step: there is one receiver thread per
agent, and what the application's threads do between its steps is the subject of the
modules above. `Registration`, `Transport`, `MediaSession` and `CapturePipeline` are cut
as the first two modules are.

The network may lose, delay, reorder and copy: everything a peer may have sent can
be received at any later time. Timer delays are abstracted: a task may run at any
moment after it was scheduled.

### State and simplifications, module by module

**`IncomingCall`.** A call stands for its Call-ID, its branch and its one dialog; a
response is its status code. Every state and timer (G, H, I) of the server transaction is
there. The media manager is reduced to `datagramSocket` and to the RTP session in its
field (which call it sends to, over whose socket). Whether an offer names a codec is a
choice (`CodecCalls`, `MuteCalls`); a message without SDP is not told from one whose SDP
has no codec. The application answers a call once, and not after `remoteHangup`, and hangs
up after `acceptCall` has returned; a copy of the INVITE after timer I is in `EndToEnd`,
a re-INVITE in `MidDialog`.

**`OutgoingCall`.** `Txns` is a call and the number of its INVITE, because every challenge
that is answered creates a transaction. `invites` holds the transactions whose request
still names INVITE in its CSeq header: `createAndSendAck` rewrites this header to build
the ACK, and lookups by method then miss the transaction. Digests are not computed, a
challenge is answered when there is a password; the removal of the dialog with the answer
to a BYE is one step. `revived` records, for the properties, the transactions that had ended
and that a timer A task has put back into Calling. Peers give one final response per INVITE and send no BYE before they
have seen the ACK; `EndToEnd` drops the second of these assumptions, because this code's
own callee does not keep to it.

**`EndToEnd`.** Messages are a kind, an addressee and the leg their To tag names: each run of
`handleInitialInvite` makes a tag, a dialog, and so a leg. The second leg is the ghost that
a copy of the INVITE rings when timer I has removed the transaction of the first.
The network is a set, so that messages are never in order; `MayLose` and `MayCopy` say
which kinds may be lost or stay there to be delivered again. Non-INVITE transactions are
their requests' and answers' retransmissions.

**`MidDialog`.** The peers are external: they number their requests, acknowledge what is
accepted, and start no INVITE before the last one is settled. A destination is named by
the INVITE it was agreed with. `ACK` of a late offer carries the answer.

**`NonInviteTransactions`.** `requests` counts the copies of a request under way. A request
in `RacingRequests` may have a timer task and a response on their way at once, each with
the state it has read; the others are *punctual*. Our server transaction does not send its
first final answer (`Serve` only records it); it is sent when a copy of the request comes
(`CompletedReceivedRequest`). The Proceeding state of the server and
timer J are unreachable (no caller sends a provisional answer to such a request) and left
out.

**`Registration`.** A REGISTER has a kind (register, refresh, unregister), credentials or not,
and the Contact it was built with; the answers are three successes (with Contact, without,
with a lifetime shorter than `REFRESH_MARGIN`) and four failures (Digest challenge, another
scheme, behind a NAT, any other). `asked`, `told` and `missed` record what the application
did and heard, for the properties.

**`MediaSession`.** Mode `captureAndPlayback`. `mishaps` records which of the races that the
properties name has happened: two threads in the media manager at once, a session started
over another, a field cleared while it held a socket, a receive that failed, an update
after the end, a port that cannot be bound (`BindFails`: with a configured `rtpPort` the
socket that nobody closed is in the way, `getDatagramSocket` uses the null it got, and the
thread ends).

**`CapturePipeline`.** Data are units; the files of the media debug mode are left out, and
`isStopped`, which is not volatile, is taken to become visible.

**`Transport`.** UDP. Two connections are equal when their local address and port are, so
that each table has one entry. An unchecked exception of a handler ends the thread of a receiver
and leaves the receiver in the table (`HandlerThrows`). A datagram of blank lines, which our own
keep-alive sends, and a message that cannot be parsed lead to nothing (`ReturnAtOnce`); any
other line that is no SIP is echoed. `jobs` counts what all threads do; `wire` has the last
message only.

## 3. What is checked

| Run | Instance | Shows |
|---|---|---|
| `incoming_one_call` | 1 call with everything that can happen to it, 1 application thread, 2 timer I tasks | what remains true in every race of CANCEL, BYE, ACK, timers and application: no call is left ringing, established calls are real, which races end the receiver, which dialog can come back to life, some final response is sent |
| `outgoing_races` | 1 call, 1 INVITE, timers A, B, D racing with responses | the INVITE is not repeated for ever; a call that is ended ends, with a BYE if it was acknowledged; the receiver ends only after a late timer A task has revived a transaction |
| `outgoing_two_calls` | 2 calls, 2 INVITEs each, proxy challenges, 1 call that may be answered with a codec | a call ended at any moment is cancelled or ended with a BYE, not before the answer; a challenge is answered; whose sound goes on |
| `noninvite_outcomes` | 1 request served by this code with racing tasks, 1 served by another peer | each punctual request gets one outcome (`RequestOutcome`); in every race a request without an outcome keeps its timer F, and what its user is told does not contradict itself |
| `registration` | 3 requests, 3 timers, 7 kinds of answer | the flags and the timers agree, unregister ends a registration, and every register is answered |
| `capture_pipeline` | pipes of 4, chunks of 3, packets of 2 units | the latch keeps the other end of a pipe alive; packets flow; what a stop leaves behind |
| `media_sessions` | 2 sessions, 2 sockets, 2 stops, receives that fail, a port that is taken | no thread dies, no port leaks and no capture goes on, but for the races it names; `stopSession` returns |
| `transport` | 2 threads, one of them still busy at the closing, 3 jobs | one thread, never two, takes and handles messages on the socket the agent sends from, until a handler throws; closing leaves nothing behind; receivers end |
| `transport_echo` | 2 peers, 1 thread | **violated**: a line that is no SIP is echoed to another peer |
| `end_to_end_ghosts` | 2 legs, any message copied or late, old INVITEs, timers B, F, H | each leg is a `PhoneCall`; what ends a receiver; the only way to a mute session |
| `end_to_end_reliable` | 2 legs, only a BYE or its answer lost, nothing copied | an answered call connects, and a hang-up reaches the other side |
| `mid_dialog` | 2 calls, 3 requests of one peer, reordered and copied, late offers | a BYE is final; which ACK ends the receiver; a re-INVITE takes effect, and sound goes where the last INVITE asked |

### Bounds

- **Calls.** Transactions and dialogs of different calls touch only through the shared
  fields (`mediaDestination`, `initialIncomingInvite`, `challenged`, `datagramSocket`,
  `rtpSession`) and the receiver thread. One call shows every race on a call; two show one
  call disturbing another. A third only adds more of the same.
- **`ImpatientCalls`, `LossyCalls`, `RacingCalls`, `RacingRequests`, `CodecCalls`, `MuteCalls`,
  `Talkers`, `Reordered`, `LateOffers`, `Made`, `Incoming`, `LateThreads`, `OwnPeers`** say
  what can happen to which call, request or thread. The run with one incoming call has everything; the
  outgoing ones divide the challenges (no racing timers) from the racing timers (no
  challenge).
- **`MaxTasks`**: no ACK is received while so many tasks of timer I are scheduled; two are
  enough for a task that finds its transaction removed.
- **`Codes`, `DueTimers`, `MaxAttempts`**: one code per branch of the handlers; the timers that
  may fire; the INVITEs of a call. A response that would need one INVITE more than the
  bound is not received. `HasPassword` is true in the runs: without it a challenge is a
  refusal.
- **`MaxRetrans`, `MaxReports`**: one repetition of a request is enough for a second copy; a
  request whose tasks race has one more, so that a copy may come after one was answered. Two
  reports are the first number at which an outcome is told twice.
- **`MaxRequests`, `Timers`**: a register, its refresh or its repetition with credentials, and
  an unregister: three. Every success with a positive delay takes a timer.
- **`PipeSize`, `Chunk`, `Packet`**: neither divides another, so that writers and readers
  block in the middle of a chunk or a packet.
- **`Sockets`, `Sessions`, `MaxStops`**: two, the first number with one over another. When they
  are used up nothing more is started.
- **`MaxJobs`**: two creations that race and one more after them.
- **`MaxLegs`**: the call and one ghost. **`MaxCSeq`**: three requests of a peer, an INVITE, a
  re-INVITE and one that overtakes it.

The theorems of section 4 hold for every value of these bounds.

Deadlock is not checked in any run: an agent that nobody calls, or whose bounded number
of requests is used up, has stopped, and that is no error. That something goes on where
it must is said by the liveness properties.

Every property of a passing run has a mutant in the modules (`Mutant: ...` in its comment):
a small bug that the run finds. They are listed in `PROJECT.json`.

### Fairness

There is no fairness for peers, for the network beyond what is said here, for what the
application decides, or for taking a monitor: Java monitors are not fair, and a thread can
be kept out of one.

| Module | Fair | Why |
|---|---|---|
| `IncomingCall` | the steps that a thread has begun, weakly | the virtual machine runs every runnable thread |
| `OutgoingCall` | the same; each timer task strongly | a `java.util.Timer` runs tasks in the order in which they become due: none is overtaken for ever |
| `NonInviteTransactions` | a begun task or response weakly; timer F strongly | as above; F is due once, however often E runs before it |
| `Registration` | the receiver's callbacks, a request being created, the timeout of a transaction, weakly | threads go on; the timeout is what `RequestOutcome` promises |
| `CapturePipeline` | the steps of each thread, the latch, and the rest of a `stop` that has begun, weakly | threads go on; a source that is silent for ever is allowed |
| `MediaSession` | starting, stopping and the return of a receive, weakly | threads go on; the socket has a timeout (`InviteHandler.java:184`) |
| `Transport` | begun jobs, a begun `closeTransports`, and the end of a loop whose receiver was stopped, weakly | threads go on; the socket has a timeout (`SOCKET_TIMEOUT`) |
| `EndToEnd` (reliable run) | the arrival of each message weakly, of a BYE strongly; timer tasks that repeat weakly | a message that is not lost arrives; a BYE that is repeated is not lost every time (it is repeated for 32 seconds, which the model does not count) |
| `MidDialog` | the arrival of the first request under way, and the peer's ACK of a 200, weakly | a peer of another make follows the protocol |

### What the code does against its words

`transport_echo` is violated. `MessageReceiver.java:107` says of a datagram without a SIP
start line "keep-alive, send back to sender". The sender is looked up by a connection whose
equality compares local address and port only (`SipTransportConnection.java:57-60`), so
that it is the one `UdpMessageSender` of the port, which keeps the address of the peer
it was created for: such a datagram of a second peer goes to the first. Datagrams of blank lines
only, which are the keep-alives that `MessageSender` itself sends, return before
(`MessageReceiver.java:100-105`) and are not echoed. Requests and responses use the same lookup.

The exceptions in the properties name behaviour that a reader of the code would not expect.
The more important ones:

1. `DialogStateEarly.java:50` throws on a BYE. A BYE that is received between the sending of
   the 200 and the confirmation of the dialog (`InviteHandler.java:294-296`), or that
   overtakes the 200 on its way to the caller, ends the receiver thread
   (`ReceiverDiesOnlyInARace`, `ReceiverDiesOnlyByStrays`).
2. `InviteServerTransactionStateCompleted` "retransmits" the last response *appended*; a
   crossed CANCEL or answer has appended one that was never sent.
3. `UAC.java:192` takes a transaction it does not find for "Terminated and removed".
   Client transactions are never removed; it is not found because its CSeq says ACK.
4. A timer A task that has read Calling before the 200 sets Calling after it
   (`InviteClientTransactionStateCalling.java:34`). The next copy of the 200 is
   handled as the first, and `DialogStateConfirmed.java:38` throws
   (`ReceiverDiesOnlyAfterRevival`, where `revived` has the transaction).
5. After two challenges `terminate` may work with the refused one of two INVITEs with
   credentials (`UAC.java:155`), and then sends a BYE to a callee that rings, or nothing
   (`ChallengedTwice`); the sound may go on then (`SessionOfEndedCallHasReason`). And `challenged` is one flag for all calls (`InviteHandler.java:412`),
   so that a challenge is reported as a refusal while that of another call is being
   answered (`ChallengeIsAnswered`). In `RegisterHandler` the flag survives a timeout and two
   kinds of answer (`ChallengedHasReason`).
6. `NonInviteServerTransactionStateTrying.java:42` does not send the first final answer; it is
   sent when the request is repeated. No property says so, because it is what the code always
   does; `Promise` shows that the request has its one outcome all the same.
7. A registration that expires in less than `REFRESH_MARGIN` gives a negative delay, whose
   exception ends the receiver (`RegisterHandler.java:251`, `RegisteredIsRefreshed`).
8. `MidDialogRequestManager.java:173` answers a request that comes too late with 500 and
   carries it out all the same.
9. `initialIncomingInvite` is one flag for all calls: a re-INVITE that overtakes the first
   ACK, or a hang-up before it, makes that ACK update a session that does not exist, and the
   receiver ends (`ReceiverDiesExplained`). An answer that comes in an ACK is used only if
   there is no destination yet (`SessionFollowsAnswer`).
10. `stop` may strand a thread in a pipe, a writer of a full one or the reader of an empty
    one, whose other end waits for it at the latch (`StopEndsOrStrands`), and `stopSession` waits for ever for a session whose receive has
    failed (`StopReturns`).
11. A refused call clears the socket that all calls share without closing it
    (`InviteHandler.java:334`, `NoSocketLeaks`); with a configured RTP port the next call cannot
    bind it and its thread ends (`ThreadsDieOnlyInARace`). An ACK after the callee's hang-up
    starts a session without a socket (`MuteSessionExplained`).
12. `TransportManager.java:341-342` says that a transport that sends "must also be able to
    receive". A receiver whose thread was ended by a handler's exception stays in the table,
    so that nothing starts another: the agent goes on sending and hears no more. This end is
    the one that `OneThreadHears` allows. That a second thread never runs beside the first
    is what the other modules assume of their one receiver thread.

## 4. What is proved

The theorems hold for every set of calls, threads, requests, timers and messages and every
bound. They assume what the modules state of their constants: `None` names nothing else, the
threads are different, the sets of special calls are sets of calls, and the bounds are
numbers. Three theorems have a hypothesis more, in their statement:

| Theorem | Hypothesis | Why |
|---|---|---|
| `OnlyRevivalKills` | `CodecCalls = Calls` | a 200 without a codec ends the receiver thread too, in another way |
| `NothingForgotten`, `SessionsEnd` | every call is `Orderly`: it does not race, or timer A is not due | a late timer A task makes the code forget that a call was answered, and the two properties are false then; `outgoing_two_calls` has the same instance |

`TypeOK` of all nine concrete modules is a theorem, and for that reason no run repeats it. So
is every safety invariant and every action property that a passing run checks, and the
safety part of both refinements.

`TypeOK` alone is never inductive. Each module of proofs names the strengthening part by
part, proves `Init => IInv`, one lemma per action (or per group of actions that leave the
same things alone) for `IInv /\ Next => IInv'`, and takes the theorems from there. Where a
property needs more history a second invariant stands on the first, with lemmas of its own.
Each of these was checked by TLC on the instance of the run before it was proved.

**`IncomingCall_proofs`**: `IInv == TypeOK /\ Anchored /\ Owner /\ Ringing`. `Anchored`: a thread
that works does so on a call that has responses; a call that never rang has left no trace.
`Owner`: which thread can be in which step of which operation, and what the application
knows of the call then; an application thread at work on a call excludes that it still
rings. `Ringing`: while a call rings it is in both tables, no 200 exists for it, no task of
timer I is scheduled, and a final response can only be that of a CANCEL being handled.
Without it nothing would exclude that a task of timer I removes the transaction under the
application's feet. Result: `AnswerFindsItsCall`.

`CallInv == IInv /\ Progress /\ Offers /\ Calm` stands on it. `Progress`: one thread answers a
call; its dialog and what the application knows of it move together (`Told`); and what a
thread may rely on however stale the state it has read (`FramesTold`), so that a thread that
is about to run a dialog's method with `CONFIRMED` in hand knows that the dialog has left its
early state for good. `Offers`: who was sent a 200 had offered a codec, unless it offered
none, which is why the ACK of an accepted call finds a destination. `Calm`: the transaction
of a call that no CANCEL disturbs has sent 180s and 200s only, and no timer runs for it.
Results: `NobodyLeavesItRinging`, `EstablishedIsReal`, `ReceiverDiesOnlyInThreeRaces`, and of
the steps `RevivedOnlyByCrossedCancel`.

**`OutgoingCall_proofs`**: `TypeOK /\ Anchored /\ Records /\ Handling /\ Room /\ Dialogs /\
ByeFollowsFinal`. `Records`: only an INVITE that was sent is answered; one whose CSeq was
rewritten was refused; all INVITEs of a call but the last were challenged; what rang was not
challenged. `Handling`: the response that the receiver handles is still the last one of its
transaction, and was heard. `Room`: a challenge is within the bound. `Dialogs`: a dialog, and a
thread of `terminate` that has found one, come after an answer with a tag; a confirmed one
after a 200. `NoEarlyBye` then rests on `NotFoundIsSettled`: if `terminate` finds a dialog and
not the transaction of the INVITE it works with, that INVITE was refused, and the one that
opened the dialog was not challenged; if the refusal was a challenge these are two INVITEs,
and as one with credentials is preferred, both have them.

Three more invariants stand on it. `Answering`: a transaction hears one final answer, the flag
`challenged` remembers a challenge that was answered, and every challenge was answered, is
about to be, or another call's was in the way (`ChallengesAreAnswered`). `Order`: the
transaction that is open is the last of its call and no 200 has ended the call (`Latest`); a
dialog in the table is in the state that the answers heard so far require (`Sane`,
`Confirmed`); a task of timer A that does not race has not been overtaken (`Punctual`); it
holds in racing calls too, less what `Steady` guards (no transaction of the call was revived),
and gives `OnlyRevivalKills`. A call that is `Orderly` stays `Steady` (`Unrevived`). `Ending`: of
a call that the application has closed, some thread of `terminate`, or the receiver thread
once it has read that the call is closed, has still to send the BYE (`Bidden`) or the CANCEL
(`Tended`) and to stop the sound (`Silenced`), unless it is done. When the threads are quiet
nobody has, so that it is done: `NothingForgotten`, `SessionsEnd`.

**`NonInviteTransactions_proofs`**: for every request, `Unstarted` (before it is started nobody
has heard of it), `Working` (a thread works on a request that was started, and if it does not
race, the state that was read is still the state), `Reported` (an outcome is told exactly when
the transaction ends) and `Copies` (every copy was sent; the server has taken one before it
has a transaction, and another before it answers). `Telling` stands on it, for racing requests too:
who has no outcome yet has its timer F (`Deadline`), timer F is scheduled once and tells once
(`TimedOutOnce`), and a server that answers the copies of a request gives them all one kind of answer
(`OneAnswer`), so that what is told can be traced to what was answered. Results: `OutcomeOnce`,
`DeadlineKept`, `OutcomesNeverClash`, `Silence`, and `Refinement`: seen through the punctual requests, the first state and every step is one of `RequestOutcome`. The fairness of
`RequestOutcome`, which the run checks with `Promise`, is not part of the theorem.

**`Registration_proofs`**: `CallbacksOfReceiver`, `TimerBeforeUnregister` (whatever lets an
unregister through follows a timer), `RegisteredIsRefreshed`, `ChallengedHasReason`. Results:
`RefreshKept`, `TimerExists`, `ChallengedExplained`.

`Sticks` stands on it, an invariant that counts. `Chances` are what can still lead to a refresh
timer: timers that are due, frames and requests of register and refresh, the answer the
receiver thread handles. `Begun` are the registrations that were begun. `Counted` says
`Chances <= Begun`; no step adds a chance without a registration (`Spares`), and the
interceptor of an unregister that meets no other request cancels the timer that `Tended`
says is due, so that a chance is lost for good (`Withdrawn`). Sets of frames, timers and
requests are counted with the theorems on cardinalities. Result: `UnregisterEndsOne`.

**`Media_proofs`**: `MInv` for `MediaSession`. `Made`: a socket that a field or a session holds was
created, a session that a frame is about exists. `Held`: one socket is open at a time. `Solo`:
one thread at a time is between the first and the last step of start and `stopSession`.
`Whole`, `Ordered`, `Closing`: what the fields, the senders and the sockets are at each of these
steps, and with nobody at work. `PortLost`: a port that cannot be bound takes a field that was
cleared over an open socket. Each part names the mishaps that end it; a step that makes
one of them need not keep the part. Results: `DieOnlyInARace`, `CaptureStopped`,
`SocketsKept`. The second half of the module is about `CapturePipeline`, whose names
differ from those of `MediaSession` for this purpose: `LatchCounts` (the latch is the number of threads that have not come to it) and
`Writing`. Result: `PeersAlive`, for pipes, chunks and packets of any size.

**`Transport_proofs`**: `FirstInUse` (before the closing, the objects of `Init` are in use, and
their receiver has one thread, in its loop or at a message: `OneReceiver`, `SameHandler`),
`FirstIsClosed` (as long as nothing was created since, the closing is in step with the
first socket) and `KeepAliveHasReason`. Results: `OneThreadUntilClosed`, `KeepAliveExplained`,
`ClosedForGood`.

**`EndToEnd_proofs`**: `NotCalled`, `Waiting`, `Unrefused`, `Refused` and `CallerKnows` say what the
caller's transaction, dialogs and application know of each other; `MessagesSound` says the
same of messages under way (an ACK, or a BYE of the caller, only for a leg that was
answered); `LastLeg`, `Ringing` and `CalleeSound` are the callee's side; `MuteHasLeg` and
`MuteSessionExplained` the sound. Results: `RingingIsReal`, `MuteExplained`, and `PromiseKept`:
for any faults of the network and any number of ghosts, each leg implements `PhoneCall`.
The step simulation needs `MessagesSound`, since a handler at one phone is allowed by the
abstract call only because of what the other had done before it sent the message.
`Strays` stands on it: the states of the dialogs in the tables (`Tables`), and for the two
messages that can end a receiver thread who sent them and when (`Traced`). Result:
`OnlyStraysKill`.

**`MidDialog_proofs`**: `Sent`, `Fresh` (nothing happens before a call is accepted), `Answers` (an
INVITE with an offer that was answered has left its destination, or a later one has),
`AckIsFirst` (in order, the ACK of the INVITE comes first), `OneCall` (the shared fields, as
long as there is one call). Results: `ByeSilences`, `AckIsSafe`. `Order` stands on it: as long
as nothing in a call was overtaken, its channel is sorted by CSeq but for ACKs, no request
waits that the agent would take for stale, and the destination that all calls share is the
one of the INVITE that is to be acknowledged (`InOrder`, `Agreed`). Result: `SoundFollowsAnswer`.

**Only model-checked.** Liveness (`AnsweredCallGetsFinal`, `RetransmissionsEnd`,
`ClosedCallEnds`, `RegisterIsAnswered`, `PacketsFlow`, `StopEndsOrStrands`, `StopReturns`,
`ReceiversEnd`, `CallerEndsForBoth`, `AnswerConnects`, `NobodyTalksAlone`,
`ReinviteTakesEffect`, the fairness of `RequestOutcome`): TLAPS does not reason about fairness
and `ENABLED` here. Nothing is proved of recursive operators or by induction over data: the
models have none.

## 5. What is not modelled

- **Third-party scripts** (`src/site/js`: jQuery, jQuery UI, Bootstrap, Backbone, Underscore,
  RequireJS and their like). They hold most lines of JavaScript in the repository, and are
  copies of libraries that its page loads; nothing in the agent's behaviour depends on
  them. A model of them would be one of those projects, not of this one.
- **Web application, server stubs, JAIN SIP demonstration, pages**: wiring and stubs, or a
  demonstration over a library whose transactions are not in this repository.
- **Text**: `SipParser`, `SdpParser`, printing of messages, digests, tags and branches. They are
  data: a message is its kind, an offer the question whether it names a codec.
- **TCP and transport errors**: the code has no TCP transport, and a UDP sender reports no
  error to a transaction, so that `transportError` is unreachable.
- **Proceeding of the non-INVITE server and timer J**: unreachable.
- **Media modes echo and file, DTMF, the files of the media debug mode, coding of sound**:
  data, or a single thread of its own. That `isStopped` is not volatile, so that a thread
  might never see it, is not modelled either.
- **`AckTimerTask`** (`InviteHandler.java:516`), which 32 seconds after the first 200 ends the
  dialogs of its peer that are not confirmed. It looks them up by the text of a To header,
  which the models do not have.
- **A write to a hash table of transactions while another thread iterates over it**: the
  exception it may throw is left out.
- **NAT traversal, configuration, logging**: a command line experiment, and values that are
  read once or text that is written.
