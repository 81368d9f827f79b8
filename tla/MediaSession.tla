---------------------------- MODULE MediaSession ----------------------------
(***************************************************************************)
(* MediaManager in the mode captureAndPlayback: its four fields, which the *)
(* SIP receiver thread sets step by step when an ACK or a 200 starts a     *)
(* session and which every thread that ends a call clears step by step in  *)
(* stopSession, without a monitor.  A session has an RTP socket, a receive *)
(* task that submits itself again and closes the socket when its executor  *)
(* was shut down, and a CaptureRtpSender, here running or stopped          *)
(* (CapturePipeline has its threads).  An exception ends its thread.       *)
(*                                                                         *)
(* The media manager is one for all calls of the agent: what follows what  *)
(* is not restricted here to the order of a single call.                   *)
(***************************************************************************)
EXTENDS Naturals, FiniteSets

CONSTANTS
    Sockets,     \* bound: the RTP sockets that are created
    Sessions,    \* bound: the sessions that are started
    AppThreads,  \* the application's threads, that end calls
    ReadFails,   \* a receive on an open socket may fail
    MaxStops,    \* bound: the calls of stopSession
    None         \* null

Session == [socket : Sockets \cup {None}, executor : {"running", "shutdown"},
            task : {"none", "receiving", "ended"}]

ASSUME MediaAssumption ==
    /\ ReadFails \in BOOLEAN
    /\ MaxStops \in Nat
    /\ None \notin Sockets \cup Sessions
    /\ None \notin Session
    /\ "receiver" \notin AppThreads

Receiver == "receiver"
Threads == AppThreads \cup {Receiver}

VARIABLES
    datagramSocket,     \* MediaManager.datagramSocket
    rtpSession,         \* MediaManager.rtpSession
    captureRtpSender,   \* MediaManager.captureRtpSender: the session it was created for
    incomingRtpReader,  \* MediaManager.incomingRtpReader: the same
    socket,             \* the state of each socket
    session,            \* the socket, executor and receive task of each session
    capture,            \* the CaptureRtpSender of each session
    stops,              \* how often stopSession was called
    mishaps,            \* what happened that the code does not provide for
    thread              \* what each thread is doing

fields == <<datagramSocket, rtpSession, captureRtpSender, incomingRtpReader>>
vars == <<fields, socket, session, capture, stops, mishaps, thread>>

Mishap == {"overlap",     \* stopSession ran beside another stopSession, or a start
           "superseded",  \* a session was started while there was one
           "dropped",     \* the field datagramSocket was cleared, its socket open
           "lateUpdate",  \* the session of a re-INVITE was not there any more
           "noPort",      \* the configured rtpPort could not be bound
           "readFailed"}  \* a receive failed

(* session, remote, sender, start, reader, submit: in handleAck or         *)
(* successResponseReceived.  stop, wait, forget, unread, capture, halt,    *)
(* drop: in stopSession.                                                   *)
Starting == {"session", "remote", "sender", "start", "reader", "submit"}
Stopping == {"stop", "wait", "forget", "unread", "capture", "halt", "drop"}
Frame == [step : {"idle", "dead"} \cup Starting \cup Stopping,
          by : {"ack", "success"}, on : Sessions \cup {None}, bare : BOOLEAN]
Idle == [step |-> "idle", by |-> "ack", on |-> None, bare |-> FALSE]

TypeOK ==
    /\ datagramSocket \in Sockets \cup {None}
    /\ rtpSession \in Sessions \cup {None}
    /\ captureRtpSender \in Sessions \cup {None}
    /\ incomingRtpReader \in Sessions \cup {None}
    /\ socket \in [Sockets -> {"none", "open", "closed"}]
    /\ session \in [Sessions -> Session \cup {None}]
    /\ capture \in [Sessions -> {"none", "created", "running", "stopped"}]
    /\ stops \in 0 .. MaxStops
    /\ mishaps \subseteq Mishap
    /\ thread \in [Threads -> Frame]
    /\ \A s \in {rtpSession, captureRtpSender, incomingRtpReader} \ {None} : session[s] # None
    /\ \A t \in Threads : thread[t].step \in Starting \ {"session"} => thread[t].on # None

Init ==
    /\ datagramSocket = None
    /\ rtpSession = None
    /\ captureRtpSender = None
    /\ incomingRtpReader = None
    /\ socket = [k \in Sockets |-> "none"]
    /\ session = [s \in Sessions |-> None]
    /\ capture = [s \in Sessions |-> "none"]
    /\ stops = 0
    /\ mishaps = {}
    /\ thread = [t \in Threads |-> Idle]

At(t, step) == thread[t].step = step
Goto(t, frame) == thread' = [thread EXCEPT ![t] = frame]
Advance(t, step) == Goto(t, [thread[t] EXCEPT !.step = step])
Busy(steps) == {t \in Threads : thread[t].step \in steps}
Happened(m) == mishaps' = mishaps \cup {m}

(* isSocketClosed of a session.                                            *)
IsSocketClosed(s) == session[s].socket \in {None} \cup {k \in Sockets : socket[k] = "closed"}

-----------------------------------------------------------------------------
(***************************************************************************)
(* The socket                                                              *)
(***************************************************************************)

(* Mutant: a socket is created although there is one.                      *)
GetNewSocket(t, k) ==
    /\ At(t, "idle")
    /\ socket[k] = "none"
    /\ datagramSocket' = k
    /\ socket' = [socket EXCEPT ![k] = "open"]
    /\ UNCHANGED <<rtpSession, captureRtpSender, incomingRtpReader, session, capture, stops,
                   mishaps, thread>>

(* InviteHandler.getDatagramSocket, before a 200 or an INVITE is sent: one *)
(* socket is kept for all calls.  Whether rtpPort is configured is left    *)
(* open: without it, another socket can be created beside an open one.     *)
GetDatagramSocket(t, k) ==
    /\ At(t, "idle")
    /\ datagramSocket = None
    /\ socket[k] = "none"
    /\ datagramSocket' = k
    /\ socket' = [socket EXCEPT ![k] = "open"]
    /\ UNCHANGED <<rtpSession, captureRtpSender, incomingRtpReader, session, capture, stops,
                   mishaps, thread>>

(* With a configured rtpPort the bind fails while another socket of ours   *)
(* has the port; the socket that was not created is used in the next line, *)
(* and the thread dies of a NullPointerException.                          *)
BindFails(t) ==
    /\ At(t, "idle")
    /\ datagramSocket = None
    /\ \E k \in Sockets : socket[k] = "open"
    /\ Happened("noPort")
    /\ Advance(t, "dead")
    /\ UNCHANGED <<fields, socket, session, capture, stops>>

(* A call that was refused, by us or by the peer: setDatagramSocket(null). *)
CallRefused(t) ==
    /\ At(t, "idle")
    /\ datagramSocket # None
    /\ datagramSocket' = None
    /\ Happened("dropped")
    /\ UNCHANGED <<rtpSession, captureRtpSender, incomingRtpReader, socket, session, capture,
                   stops, thread>>

-----------------------------------------------------------------------------
(***************************************************************************)
(* handleAck and successResponseReceived                                   *)
(***************************************************************************)

StartBegins(by) ==
    /\ At(Receiver, "idle")
    /\ \E s \in Sessions : session[s] = None
    /\ mishaps' = mishaps \cup (IF rtpSession # None THEN {"superseded"} ELSE {})
                          \cup (IF Busy(Stopping) # {} THEN {"overlap"} ELSE {})
    /\ Goto(Receiver, [Idle EXCEPT !.step = "session", !.by = by])
    /\ UNCHANGED <<fields, socket, session, capture, stops>>

(* new RtpSession, with an executor of its own.                            *)
NewSession(s) ==
    /\ At(Receiver, "session")
    /\ session[s] = None
    /\ session' = [session EXCEPT ![s] = [socket |-> datagramSocket, executor |-> "running",
                                          task |-> "none"]]
    /\ rtpSession' = s
    /\ Goto(Receiver, [thread[Receiver] EXCEPT !.step = "remote", !.on = s])
    /\ UNCHANGED <<datagramSocket, captureRtpSender, incomingRtpReader, socket, capture, stops,
                   mishaps>>

SetRemote ==
    /\ At(Receiver, "remote")
    /\ Advance(Receiver, IF rtpSession = None THEN "dead" ELSE "sender")
    /\ UNCHANGED <<fields, socket, session, capture, stops, mishaps>>

(* The sender is given the field, which may be null by now (bare).         *)
NewSender ==
    /\ At(Receiver, "sender")
    /\ captureRtpSender' = thread[Receiver].on
    /\ capture' = [capture EXCEPT ![thread[Receiver].on] = "created"]
    /\ Goto(Receiver, [thread[Receiver] EXCEPT !.step = "start", !.bare = (rtpSession = None)])
    /\ UNCHANGED <<datagramSocket, rtpSession, incomingRtpReader, socket, session, stops, mishaps>>

(* start clears the flags that stop may have set, and starts the threads.  *)
StartSender ==
    /\ At(Receiver, "start")
    /\ IF captureRtpSender = None
       THEN Advance(Receiver, "dead") /\ UNCHANGED capture
       ELSE /\ capture' = [capture EXCEPT ![captureRtpSender] = "running"]
            /\ Advance(Receiver, "reader")
    /\ UNCHANGED <<fields, socket, session, stops, mishaps>>

(* The reader registers with the session: the field's for an ACK, the      *)
(* sender's for a 200.                                                     *)
NewReader ==
    /\ At(Receiver, "reader")
    /\ LET missing == IF thread[Receiver].by = "ack" THEN rtpSession = None
                      ELSE captureRtpSender = None \/ thread[Receiver].bare
       IN  IF missing
           THEN Advance(Receiver, "dead") /\ UNCHANGED incomingRtpReader
           ELSE /\ incomingRtpReader' = thread[Receiver].on
                /\ Advance(Receiver, "submit")
    /\ UNCHANGED <<datagramSocket, rtpSession, captureRtpSender, socket, session, capture, stops,
                   mishaps>>

(* RtpSession.start: an executor that was shut down rejects the task.      *)
Submit ==
    /\ At(Receiver, "submit")
    /\ IF \/ incomingRtpReader = None
          \/ session[incomingRtpReader].executor = "shutdown"
       THEN Advance(Receiver, "dead") /\ UNCHANGED session
       ELSE /\ session' = [session EXCEPT ![incomingRtpReader].task = "receiving"]
            /\ Goto(Receiver, Idle)
    /\ UNCHANGED <<fields, socket, capture, stops, mishaps>>

(* The ACK of a re-INVITE: updateRemote.                                   *)
UpdateRemote ==
    /\ At(Receiver, "idle")
    /\ \E s \in Sessions : session[s] # None
    /\ rtpSession = None
    /\ Happened("lateUpdate")
    /\ Advance(Receiver, "dead")
    /\ UNCHANGED <<fields, socket, session, capture, stops>>

-----------------------------------------------------------------------------
(***************************************************************************)
(* RtpSession.Receiver                                                     *)
(***************************************************************************)

Receiving(s) == session[s] # None /\ session[s].task = "receiving"

(* A packet or a timeout, after the executor was shut down: the task cannot*)
(* be submitted again, and closes the socket.                              *)
ReceiveEnds(s) ==
    /\ Receiving(s)
    /\ session[s].socket # None
    /\ socket[session[s].socket] = "open"
    /\ session[s].executor = "shutdown"
    /\ session' = [session EXCEPT ![s].task = "ended"]
    /\ socket' = [socket EXCEPT ![session[s].socket] = "closed"]
    /\ UNCHANGED <<fields, capture, stops, mishaps, thread>>

(* A receive without a socket, or on one that another session closed.      *)
ReceiveOnNoSocket(s) ==
    /\ Receiving(s)
    /\ IsSocketClosed(s)
    /\ session' = [session EXCEPT ![s].task = "ended"]
    /\ UNCHANGED <<fields, socket, capture, stops, mishaps, thread>>

ReceiveFails(s) ==
    /\ ReadFails
    /\ Receiving(s)
    /\ ~IsSocketClosed(s)
    /\ session' = [session EXCEPT ![s].task = "ended"]
    /\ Happened("readFailed")
    /\ UNCHANGED <<fields, socket, capture, stops, thread>>

-----------------------------------------------------------------------------
(***************************************************************************)
(* stopSession                                                             *)
(***************************************************************************)

(* Mutant: nobody looks whether there is a session.                        *)
StopBeginsUnchecked(t) ==
    /\ At(t, "idle")
    /\ stops < MaxStops
    /\ stops' = stops + 1
    /\ mishaps' = mishaps \cup (IF Busy(Starting \cup Stopping) # {} THEN {"overlap"} ELSE {})
    /\ Advance(t, "stop")
    /\ UNCHANGED <<fields, socket, session, capture>>

StopBegins(t) ==
    /\ At(t, "idle")
    /\ stops < MaxStops
    /\ stops' = stops + 1
    /\ mishaps' = mishaps \cup (IF Busy(Starting \cup Stopping) # {} THEN {"overlap"} ELSE {})
    /\ Advance(t, IF rtpSession = None THEN "unread" ELSE "stop")
    /\ UNCHANGED <<fields, socket, session, capture>>

(* Mutant: the executor is not shut down.                                  *)
StopWithoutShutdown(t) ==
    /\ At(t, "stop")
    /\ Advance(t, IF rtpSession = None THEN "dead" ELSE "wait")
    /\ UNCHANGED <<fields, socket, session, capture, stops, mishaps>>

StopRtpSession(t) ==
    /\ At(t, "stop")
    /\ IF rtpSession = None
       THEN Advance(t, "dead") /\ UNCHANGED session
       ELSE /\ session' = [session EXCEPT ![rtpSession].executor = "shutdown"]
            /\ Advance(t, "wait")
    /\ UNCHANGED <<fields, socket, capture, stops, mishaps>>

(* The loop that waits for the socket to be closed reads the field anew.   *)
WaitForSocket(t) ==
    /\ At(t, "wait")
    /\ \/ rtpSession = None /\ Advance(t, "dead")
       \/ rtpSession # None /\ IsSocketClosed(rtpSession) /\ Advance(t, "forget")
    /\ UNCHANGED <<fields, socket, session, capture, stops, mishaps>>

ForgetSession(t) ==
    /\ At(t, "forget")
    /\ rtpSession' = None
    /\ Advance(t, "unread")
    /\ UNCHANGED <<datagramSocket, captureRtpSender, incomingRtpReader, socket, session, capture,
                   stops, mishaps>>

ForgetReader(t) ==
    /\ At(t, "unread")
    /\ incomingRtpReader' = None
    /\ Advance(t, IF captureRtpSender = None THEN "drop" ELSE "capture")
    /\ UNCHANGED <<datagramSocket, rtpSession, captureRtpSender, socket, session, capture, stops,
                   mishaps>>

(* Mutant: the field is cleared, but the sender not stopped.               *)
StopSenderForgets(t) ==
    /\ At(t, "capture")
    /\ Advance(t, IF captureRtpSender = None THEN "dead" ELSE "halt")
    /\ UNCHANGED <<fields, socket, session, capture, stops, mishaps>>

StopSender(t) ==
    /\ At(t, "capture")
    /\ IF captureRtpSender = None
       THEN Advance(t, "dead") /\ UNCHANGED capture
       ELSE /\ capture' = [capture EXCEPT ![captureRtpSender] = "stopped"]
            /\ Advance(t, "halt")
    /\ UNCHANGED <<fields, socket, session, stops, mishaps>>

ForgetSender(t) ==
    /\ At(t, "halt")
    /\ captureRtpSender' = None
    /\ Advance(t, "drop")
    /\ UNCHANGED <<datagramSocket, rtpSession, incomingRtpReader, socket, session, capture, stops,
                   mishaps>>

DropSocket(t) ==
    /\ At(t, "drop")
    /\ datagramSocket' = None
    /\ mishaps' = mishaps \cup (IF datagramSocket # None /\ socket[datagramSocket] = "open"
                                THEN {"dropped"} ELSE {})
    /\ Goto(t, Idle)
    /\ UNCHANGED <<rtpSession, captureRtpSender, incomingRtpReader, socket, session, capture,
                   stops>>

-----------------------------------------------------------------------------
StartSession ==
    \/ \E s \in Sessions : NewSession(s)
    \/ SetRemote
    \/ NewSender
    \/ StartSender
    \/ NewReader
    \/ Submit

ReceiveReturns(s) == ReceiveEnds(s) \/ ReceiveOnNoSocket(s)

StopSession(t) ==
    \/ StopRtpSession(t)
    \/ WaitForSocket(t)
    \/ ForgetSession(t)
    \/ ForgetReader(t)
    \/ StopSender(t)
    \/ ForgetSender(t)
    \/ DropSocket(t)

Next ==
    \/ \E t \in Threads :
          \/ \E k \in Sockets : GetDatagramSocket(t, k)
          \/ BindFails(t)
          \/ CallRefused(t)
          \/ StopBegins(t)
          \/ StopSession(t)
    \/ \E by \in {"ack", "success"} : StartBegins(by)
    \/ StartSession
    \/ UpdateRemote
    \/ \E s \in Sessions : ReceiveReturns(s) \/ ReceiveFails(s)

(* A thread inside the media manager goes on; a receive returns, because   *)
(* the socket has a timeout.                                               *)
Fairness ==
    /\ WF_vars(StartSession)
    /\ \A t \in Threads : WF_vars(StopSession(t))
    /\ \A s \in Sessions : WF_vars(ReceiveReturns(s))

Spec == Init /\ [][Next]_vars /\ Fairness

-----------------------------------------------------------------------------
(***************************************************************************)
(* Properties                                                              *)
(***************************************************************************)

Without(ms) == mishaps \cap ms = {}
Quiescent == \A t \in Threads : At(t, "idle")

(* No field is null when it is used and no executor rejects a task, unless *)
(* two threads are in the media manager at once, the ACK of a re-INVITE    *)
(* comes after the session has ended, or the port of the next call cannot  *)
(* be bound, which takes a field that was cleared while it held a socket   *)
(* that nobody closed: stopSession leaves the port free in time.           *)
ThreadsDieOnlyInARace ==
    /\ Without({"overlap", "lateUpdate", "noPort"}) => \A t \in Threads : ~At(t, "dead")
    /\ "noPort" \in mishaps => "dropped" \in mishaps

(* After stopSession nothing goes on: a sender that runs belongs to the    *)
(* session that there is, unless another was started over it.              *)
CaptureStops ==
    Quiescent /\ Without({"overlap", "superseded"}) =>
        \A s \in Sessions : capture[s] = "running" => rtpSession = s /\ captureRtpSender = s

(* When the media manager is at rest, the socket of its field, which the   *)
(* next call will use, is open, and no other is: no port is leaked, unless *)
(* the field was cleared while it held a socket that nobody will close.    *)
NoSocketLeaks ==
    Quiescent /\ Without({"overlap", "superseded"}) =>
        /\ datagramSocket # None => socket[datagramSocket] = "open"
        /\ Without({"dropped"}) => \A k \in Sockets : socket[k] = "open" => datagramSocket = k

(* stopSession waits for the socket to be closed, which happens or will,   *)
(* unless the receive task has failed or was never submitted.              *)
StopReturns ==
    \A t \in Threads :
        At(t, "wait") ~> ~At(t, "wait") \/ ~Without({"overlap", "readFailed"})

===============================================================================
