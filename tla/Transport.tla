----------------------------- MODULE Transport -----------------------------
(***************************************************************************)
(* The transport layer (sip/transport): the UDP socket of the SIP port,    *)
(* its sender with the keep-alive timer, its receiver with its thread, and *)
(* the three hash tables of TransportManager that remember them.  Two UDP  *)
(* connections are equal when their local addresses and ports are          *)
(* (SipTransportConnection.equals): each table holds one entry.            *)
(*                                                                         *)
(* The lookup of an entry and its creation are separate calls of           *)
(* synchronized tables, with no lock around them; threads that send, the   *)
(* thread that receives, and closeTransports meet between them.            *)
(***************************************************************************)
EXTENDS Integers, Sequences, SequencesExt

CONSTANTS
  Threads,      \* threads that send: of the application, of timers, receivers
  LateThreads,  \* those that may still begin something when the agent is closed
  Peers,        \* addresses and ports that messages come from and go to
  MaxJobs       \* bound: things that all threads do

None == 0

ASSUME ThreadsAssumption == LateThreads \subseteq Threads
ASSUME MaxJobsAssumption == MaxJobs \in Nat

VARIABLES
  table,      \* datagramSockets, messageSenders, messageReceivers: numbers
  sockets,    \* number of sockets created
  open,       \* the one that is bound to the port, or None
  senders,    \* the UdpMessageSenders created, in order
  receivers,  \* the UdpMessageReceivers created, in order
  loops,      \* loops[r]: threads in the run method of receiver r, not handling
  thread,     \* what each thread is doing
  jobs,       \* the number of things that threads have begun
  closing,    \* how far closeTransports is
  mishaps,    \* "overwritten": a sender replaced another; "late": something
              \* was created, or put in a table, after closeTransports began
  wire        \* the last message: its job, the peer it was for, the peer it went to

vars == <<table, sockets, open, senders, receivers, loops, thread, jobs,
          closing, mishaps, wire>>

Jobs == {"request", "response", "server", "echo", "nothing"}
CloseSteps == <<"no", "receivers", "senders", "sockets", "clearSockets",
                "clearReceivers", "clearSenders", "closed">>

Idle == [job |-> "none", peer |-> None, step |-> "idle", on |-> None,
         socket |-> None, sender |-> None]
Creating == {"bind", "putSocket", "newSender", "putSender", "receiver",
             "newReceiver"}
Steps == Creating \cup {"idle", "look", "socket", "send", "dead", "threw"}

Closing == closing # "no"
Closed == closing = "closed"
Late == IF Closing THEN mishaps \cup {"late"} ELSE mishaps

(***************************************************************************)
(* Every property is about a user agent that is there: UAS has called      *)
(* createServerTransport in the constructor, and nothing was sent.         *)
(***************************************************************************)
Init ==
  /\ table = [socket |-> 1, sender |-> None, receiver |-> 1]
  /\ sockets = 1 /\ open = 1
  /\ senders = <<>>
  /\ receivers = <<[socket |-> 1, listening |-> TRUE]>>
  /\ loops = <<1>>
  /\ thread = [t \in Threads |-> Idle]
  /\ jobs = 0
  /\ closing = "no"
  /\ mishaps = {} /\ wire = {}

At(t, s) == thread[t].step = s
Goto(t, s) == thread' = [thread EXCEPT ![t].step = s]

(***************************************************************************)
(* The end of a job: the thread of a receiver returns to its loop.         *)
(***************************************************************************)
Back(t) == loops' = IF thread[t].on = None THEN loops
                    ELSE [loops EXCEPT ![thread[t].on] = @ + 1]
Finish(t) == thread' = [thread EXCEPT ![t] = Idle] /\ Back(t)

(***************************************************************************)
(* A thread begins to send a request (createClientTransport) or a response *)
(* (sendResponse).                                                         *)
(***************************************************************************)
Begin(t, job, p) ==
  /\ At(t, "idle") /\ jobs < MaxJobs
  /\ Closing => t \in LateThreads
  /\ job \in {"request", "response"}
  /\ thread' = [thread EXCEPT ![t] = [Idle EXCEPT !.job = job, !.peer = p,
                                                  !.step = "look"]]
  /\ jobs' = jobs + 1
  /\ UNCHANGED <<table, sockets, open, senders, receivers, loops, closing,
                 mishaps, wire>>

(***************************************************************************)
(* The thread of a receiver takes a datagram: a line that is no SIP (which *)
(* the code takes for a keep-alive and echoes), a message whose handling   *)
(* sends a request or a response or starts a server transaction            *)
(* (createServerTransport), or something that leads to none of these:      *)
(* blank lines, as our own keep-alive sends, or what cannot be parsed.     *)
(***************************************************************************)
Receive(t, r, job, p) ==
  /\ At(t, "idle") /\ jobs < MaxJobs
  /\ loops[r] > 0 /\ receivers[r].socket = open
  /\ thread' = [thread EXCEPT ![t] = [Idle EXCEPT !.job = job, !.peer = p,
                                        !.on = r, !.step = "look"]]
  /\ loops' = [loops EXCEPT ![r] = @ - 1]
  /\ jobs' = jobs + 1
  /\ UNCHANGED <<table, sockets, open, senders, receivers, closing, mishaps,
                 wire>>

(***************************************************************************)
(* run tests isListening before each listen, which returns after at most   *)
(* SOCKET_TIMEOUT.                                                         *)
(***************************************************************************)
LoopEnds(r) ==
  /\ loops[r] > 0 /\ ~receivers[r].listening
  /\ loops' = [loops EXCEPT ![r] = @ - 1]
  /\ UNCHANGED <<table, sockets, open, senders, receivers, thread, jobs,
                 closing, mishaps, wire>>

(***************************************************************************)
(* messageSenders.get, in createClientTransport and in sendResponse.       *)
(***************************************************************************)
LookupSender(t) ==
  /\ At(t, "look") /\ thread[t].job \in {"request", "response"}
  /\ thread' = [thread EXCEPT ![t].sender = table.sender,
                  ![t].step = IF table.sender = None THEN "socket" ELSE "send"]
  /\ UNCHANGED <<table, sockets, open, senders, receivers, loops, jobs,
                 closing, mishaps, wire>>

(***************************************************************************)
(* Nothing to answer: processMessage returns.                              *)
(***************************************************************************)
ReturnAtOnce(t) ==
  /\ At(t, "look") /\ thread[t].job = "nothing"
  /\ Finish(t)
  /\ UNCHANGED <<table, sockets, open, senders, receivers, jobs, closing,
                 mishaps, wire>>

(***************************************************************************)
(* The handler of a message throws: run catches IOExceptions only, and the *)
(* thread of the receiver ends.  A handler that throws after it has sent   *)
(* something is one that sends, and then another that throws.              *)
(***************************************************************************)
HandlerThrows(t) ==
  /\ At(t, "look") /\ thread[t].on # None
  /\ thread[t].job \in {"request", "response", "server"}
  /\ Goto(t, "threw")
  /\ UNCHANGED <<table, sockets, open, senders, receivers, loops, jobs,
                 closing, mishaps, wire>>

(***************************************************************************)
(* What is no SIP is sent back by the sender of the table, if there is one.*)
(***************************************************************************)
LookupEcho(t) ==
  /\ At(t, "look") /\ thread[t].job = "echo"
  /\ \/ /\ table.sender # None
        /\ thread' = [thread EXCEPT ![t].sender = table.sender,
                                    ![t].step = "send"]
        /\ UNCHANGED loops
     \/ table.sender = None /\ Finish(t)
  /\ UNCHANGED <<table, sockets, open, senders, receivers, jobs, closing,
                 mishaps, wire>>

\* Mutant: a thread is started whether the receiver listens or not.
LookupServerStarts(t) ==
  /\ At(t, "look") /\ thread[t].job = "server"
  /\ \/ table.receiver = None /\ Goto(t, "socket") /\ UNCHANGED loops
     \/ /\ table.receiver # None /\ thread' = [thread EXCEPT ![t] = Idle]
        /\ loops' = [r \in DOMAIN loops |-> loops[r]
                       + (IF r = thread[t].on THEN 1 ELSE 0)
                       + (IF r = table.receiver THEN 1 ELSE 0)]
  /\ UNCHANGED <<table, sockets, open, senders, receivers, jobs, closing,
                 mishaps, wire>>

(***************************************************************************)
(* createServerTransport creates what is missing.  The second thread that  *)
(* it starts on a receiver that is not listening ends at once.             *)
(***************************************************************************)
LookupServer(t) ==
  /\ At(t, "look") /\ thread[t].job = "server"
  /\ \/ table.receiver = None /\ Goto(t, "socket") /\ UNCHANGED loops
     \/ table.receiver # None /\ Finish(t)
  /\ UNCHANGED <<table, sockets, open, senders, receivers, jobs, closing,
                 mishaps, wire>>

(***************************************************************************)
(* datagramSockets.get, in createMessageSender and createMessageReceiver.  *)
(***************************************************************************)
AfterSocket(t) == IF thread[t].job = "server" THEN "newReceiver" ELSE "newSender"
LookupSocket(t) ==
  /\ At(t, "socket")
  /\ thread' = [thread EXCEPT ![t].socket = table.socket,
                  ![t].step = IF table.socket = None THEN "bind"
                              ELSE AfterSocket(t)]
  /\ UNCHANGED <<table, sockets, open, senders, receivers, loops, jobs,
                 closing, mishaps, wire>>

Bind(t) ==
  /\ At(t, "bind") /\ open = None
  /\ sockets' = sockets + 1 /\ open' = sockets + 1
  /\ thread' = [thread EXCEPT ![t].socket = sockets + 1,
                              ![t].step = "putSocket"]
  /\ mishaps' = Late
  /\ UNCHANGED <<table, senders, receivers, loops, jobs, closing, wire>>

(***************************************************************************)
(* The port is in use.  A response is given up; the client transaction of  *)
(* a request is left without a sender, which start uses, and               *)
(* createMessageReceiver uses the socket it did not get: the thread dies   *)
(* of a NullPointerException.                                              *)
(***************************************************************************)
BindFails(t) ==
  /\ At(t, "bind") /\ open # None
  /\ \/ thread[t].job = "response" /\ Finish(t)
     \/ thread[t].job # "response" /\ Goto(t, "dead") /\ UNCHANGED loops
  /\ UNCHANGED <<table, sockets, open, senders, receivers, jobs, closing,
                 mishaps, wire>>

PutSocket(t) ==
  /\ At(t, "putSocket")
  /\ table' = [table EXCEPT !.socket = thread[t].socket]
  /\ Goto(t, AfterSocket(t))
  /\ mishaps' = Late
  /\ UNCHANGED <<sockets, open, senders, receivers, loops, jobs, closing, wire>>

(***************************************************************************)
(* The constructor of a sender starts its keep-alive timer.                *)
(***************************************************************************)
NewSender(t) ==
  /\ At(t, "newSender")
  /\ senders' = Append(senders, [to |-> thread[t].peer,
                          socket |-> thread[t].socket, keepAlive |-> TRUE])
  /\ thread' = [thread EXCEPT ![t].sender = Len(senders) + 1,
                              ![t].step = "putSender"]
  /\ mishaps' = Late
  /\ UNCHANGED <<table, sockets, open, receivers, loops, jobs, closing, wire>>

PutSender(t) ==
  /\ At(t, "putSender")
  /\ mishaps' = IF table.sender = None THEN Late ELSE Late \cup {"overwritten"}
  /\ table' = [table EXCEPT !.sender = thread[t].sender]
  /\ Goto(t, "receiver")
  /\ UNCHANGED <<sockets, open, senders, receivers, loops, jobs, closing, wire>>

LookupReceiver(t) ==
  /\ At(t, "receiver")
  /\ Goto(t, IF table.receiver = None THEN "newReceiver" ELSE "send")
  /\ UNCHANGED <<table, sockets, open, senders, receivers, loops, jobs,
                 closing, mishaps, wire>>

(***************************************************************************)
(* A receiver, its entry in the table, and its thread.                     *)
(***************************************************************************)
NewReceiver(t) ==
  /\ At(t, "newReceiver")
  /\ receivers' = Append(receivers, [socket |-> thread[t].socket,
                                     listening |-> TRUE])
  /\ table' = [table EXCEPT !.receiver = Len(receivers) + 1]
  /\ LET started == Append(loops, 1) IN
     \/ /\ thread[t].job = "server"
        /\ thread' = [thread EXCEPT ![t] = Idle]
        /\ loops' = IF thread[t].on = None THEN started
                    ELSE [started EXCEPT ![thread[t].on] = @ + 1]
     \/ thread[t].job # "server" /\ Goto(t, "send") /\ loops' = started
  /\ mishaps' = Late
  /\ UNCHANGED <<sockets, open, senders, jobs, closing, wire>>

(***************************************************************************)
(* A sender knows one peer.  What cannot be sent, because the socket is    *)
(* closed, is logged: no exception leaves sendBytes.                       *)
(***************************************************************************)
Send(t) ==
  /\ At(t, "send")
  /\ LET sender == senders[thread[t].sender] IN
     wire' = IF sender.socket # open THEN wire
             ELSE {<<thread[t].job, thread[t].peer, sender.to>>}
  /\ Finish(t)
  /\ UNCHANGED <<table, sockets, open, senders, receivers, jobs, closing,
                 mishaps>>
-----------------------------------------------------------------------------
(***************************************************************************)
(* closeTransports: a loop over each table, then the tables are emptied.   *)
(***************************************************************************)
CloseAt(i) == closing = CloseSteps[i] /\ closing' = CloseSteps[i + 1]

CloseBegins ==
  /\ CloseAt(1)
  /\ UNCHANGED <<table, sockets, open, senders, receivers, loops, thread,
                 jobs, mishaps, wire>>

\* Mutant: the receivers are left to notice that their socket is closed.
KeepListening ==
  /\ CloseAt(2)
  /\ UNCHANGED <<table, sockets, open, senders, receivers, loops, thread,
                 jobs, mishaps, wire>>

StopListening ==
  /\ CloseAt(2)
  /\ receivers' = IF table.receiver = None THEN receivers
                  ELSE [receivers EXCEPT ![table.receiver].listening = FALSE]
  /\ UNCHANGED <<table, sockets, open, senders, loops, thread, jobs, mishaps,
                 wire>>

StopKeepAlives ==
  /\ CloseAt(3)
  /\ senders' = IF table.sender = None THEN senders
                ELSE [senders EXCEPT ![table.sender].keepAlive = FALSE]
  /\ UNCHANGED <<table, sockets, open, receivers, loops, thread, jobs,
                 mishaps, wire>>

\* Mutant: the tables are emptied and the socket is not closed.
LeaveSocketOpen ==
  /\ CloseAt(4)
  /\ UNCHANGED <<table, sockets, open, senders, receivers, loops, thread,
                 jobs, mishaps, wire>>

CloseSockets ==
  /\ CloseAt(4)
  /\ open' = IF table.socket = open THEN None ELSE open
  /\ UNCHANGED <<table, sockets, senders, receivers, loops, thread, jobs,
                 mishaps, wire>>

ClearTables ==
  /\ \/ CloseAt(5) /\ table' = [table EXCEPT !.socket = None]
     \/ CloseAt(6) /\ table' = [table EXCEPT !.receiver = None]
     \/ CloseAt(7) /\ table' = [table EXCEPT !.sender = None]
  /\ UNCHANGED <<sockets, open, senders, receivers, loops, thread, jobs,
                 mishaps, wire>>
-----------------------------------------------------------------------------
Work(t) ==
  \/ HandlerThrows(t) \/ ReturnAtOnce(t)
  \/ LookupSender(t) \/ LookupEcho(t) \/ LookupServer(t) \/ LookupSocket(t)
  \/ Bind(t) \/ BindFails(t) \/ PutSocket(t) \/ NewSender(t) \/ PutSender(t)
  \/ LookupReceiver(t) \/ NewReceiver(t) \/ Send(t)

Close == StopListening \/ StopKeepAlives \/ CloseSockets \/ ClearTables

Next ==
  \/ \E t \in Threads, p \in Peers, job \in Jobs :
        \/ Begin(t, job, p)
        \/ \E r \in DOMAIN receivers : Receive(t, r, job, p)
  \/ \E t \in Threads : Work(t)
  \/ \E r \in DOMAIN receivers : LoopEnds(r)
  \/ CloseBegins \/ Close

Spec == Init /\ [][Next]_vars

(***************************************************************************)
(* Threads that have begun something go on, and a receive returns after    *)
(* SOCKET_TIMEOUT.  Nothing else need happen.                              *)
(***************************************************************************)
FairSpec ==
  /\ Spec
  /\ \A t \in Threads : WF_vars(Work(t))
  /\ WF_vars(Close)
  /\ WF_vars(\E r \in DOMAIN receivers : LoopEnds(r))
-----------------------------------------------------------------------------
Numbers(s) == {None} \cup DOMAIN s

(***************************************************************************)
(* The tables and the threads name objects that exist.                     *)
(***************************************************************************)
TypeOK ==
  /\ table \in [socket : Nat, sender : Nat, receiver : Nat]
  /\ sockets \in Nat /\ open \in 0..sockets
  /\ senders \in Seq([to : Peers, socket : Nat, keepAlive : BOOLEAN])
  /\ receivers \in Seq([socket : Nat, listening : BOOLEAN])
  /\ loops \in [DOMAIN receivers -> Nat]
  /\ thread \in [Threads -> [job : Jobs \cup {"none"}, peer : Peers \cup {None},
                   step : Steps, on : Nat, socket : Nat, sender : Nat]]
  /\ jobs \in Nat
  /\ closing \in ToSet(CloseSteps)
  /\ mishaps \subseteq {"overwritten", "late"}
  /\ wire \in SUBSET (Jobs \X Peers \X Peers)
  /\ table.socket <= sockets /\ table.sender \in Numbers(senders)
  /\ table.receiver \in Numbers(receivers)
  /\ \A t \in Threads :
       /\ thread[t].sender \in Numbers(senders)
       /\ thread[t].on \in Numbers(receivers)
       /\ IF At(t, "idle") THEN thread[t] = Idle
          ELSE thread[t].job \in Jobs /\ thread[t].peer \in Peers
       /\ thread[t].step \in {"putSender", "receiver", "send"} =>
            thread[t].sender # None
       /\ At(t, "newReceiver") /\ thread[t].job # "server" =>
            thread[t].sender # None
       /\ thread[t].socket <= sockets

(***************************************************************************)
(* Receiver r has one thread: it waits in its loop, or handles a message,  *)
(* or a handler's exception has ended it.                                  *)
(***************************************************************************)
HandledBy(r) == {t \in Threads : thread[t].on = r}
OneThread(r) ==
  \/ loops[r] = 1 /\ HandledBy(r) = {}
  \/ loops[r] = 0 /\ \E t \in Threads : HandledBy(r) = {t} /\ ~At(t, "dead")

(***************************************************************************)
(* Until the agent is closed, what it sends with is the socket it hears    *)
(* (createMessageSender: "the transport layer must also be able to receive *)
(* messages on this transport"), and one thread, never two, takes messages *)
(* from it and handles them, whichever threads send and create servers at  *)
(* once.  It ends before only by an exception of a handler; then nothing   *)
(* starts another, and the agent sends but hears no more.                  *)
(***************************************************************************)
OneThreadHears ==
  ~Closing =>
    /\ open # None /\ table.socket = open
    /\ table.sender # None => senders[table.sender].socket = open
    /\ DOMAIN receivers = {table.receiver}
    /\ receivers[table.receiver] = [socket |-> open, listening |-> TRUE]
    /\ OneThread(table.receiver)

(***************************************************************************)
(* A keep-alive timer that runs is the one of the sender in the table, or  *)
(* of one that is being created, unless a sender replaced another, which   *)
(* takes two threads that both found none, or closeTransports began before *)
(* a sender was in the table.  Such a timer is never stopped.              *)
(***************************************************************************)
KeepAliveHasReason ==
  mishaps = {} =>
    \A s \in DOMAIN senders :
       senders[s].keepAlive =>
         \/ s = table.sender /\ closing \in {"no", "receivers", "senders"}
         \/ \E t \in Threads : thread[t].sender = s /\ At(t, "putSender")

(***************************************************************************)
(* When closeTransports is over and nothing was created since it began,    *)
(* the socket is closed and no thread has died for want of one; the        *)
(* keep-alives that go on are those of senders that were replaced.         *)
(***************************************************************************)
CloseIsFinal ==
  Closed /\ "late" \notin mishaps =>
    /\ open = None
    /\ \A s \in DOMAIN senders :
         senders[s].keepAlive =>
           \/ "overwritten" \in mishaps
           \/ \E t \in Threads : thread[t].sender = s /\ At(t, "putSender")
    /\ \A t \in Threads : ~At(t, "dead")

(***************************************************************************)
(* Once the agent is closed, the receiver threads end, in their loops or   *)
(* in a handler, unless something was created since the closing began.     *)
(***************************************************************************)
Deaf ==
  /\ \A r \in DOMAIN receivers : loops[r] = 0
  /\ \A t \in Threads : thread[t].on # None => At(t, "dead") \/ At(t, "threw")
ReceiversEnd == Closing ~> (Deaf \/ "late" \in mishaps)

(***************************************************************************)
(* A keep-alive goes back to the peer it came from (MessageReceiver:       *)
(* "keep-alive, send back to sender").                                     *)
(***************************************************************************)
EchoGoesBack == \A w \in wire : w[1] = "echo" => w[2] = w[3]
=============================================================================
