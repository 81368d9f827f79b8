-------------------------- MODULE Transport_proofs --------------------------
(***************************************************************************)
(* Theorems about Transport, for any threads, peers and number of jobs:    *)
(* until it is closed the agent sends with the socket it hears, and the     *)
(* messages that arrive there are handled by one thread, which only a      *)
(* handler's exception ends; closeTransports leaves nothing behind unless  *)
(* a thread created something meanwhile, or two created a sender at once.  *)
(***************************************************************************)
EXTENDS Transport, SequenceTheorems, TLAPS

(* Before the closing, the objects of Init are the ones in use.            *)
FirstInUse ==
  ~Closing =>
    /\ open = 1 /\ table.socket = 1 /\ table.receiver = 1
    /\ Len(receivers) = 1
    /\ receivers[1].socket = 1 /\ receivers[1].listening
    /\ OneThread(1)
    /\ \A s \in DOMAIN senders : senders[s].socket = 1
    /\ \A t \in Threads :
         /\ ~(At(t, "bind") \/ At(t, "putSocket") \/ At(t, "newReceiver")
              \/ At(t, "dead"))
         /\ At(t, "newSender") => thread[t].socket = 1
         /\ At(t, "socket") => thread[t].job # "server"

(* As long as nothing was created since, the closing is in step with the   *)
(* socket of Init.                                                         *)
BeforeClosed(s) == closing \in {"no", "receivers", "senders", s}
FirstIsClosed ==
  "late" \notin mishaps =>
    /\ open = IF BeforeClosed("sockets") THEN 1 ELSE None
    /\ BeforeClosed("sockets") => table.socket = 1
    /\ \A t \in Threads : ~(At(t, "putSocket") \/ At(t, "dead"))
    /\ \A t \in Threads : At(t, "bind") => ~BeforeClosed("sockets")

IInv == TypeOK /\ FirstInUse /\ FirstIsClosed /\ KeepAliveHasReason

-----------------------------------------------------------------------------
LEMMA Closings ==
  ToSet(CloseSteps) = {"no", "receivers", "senders", "sockets",
                       "clearSockets", "clearReceivers", "clearSenders",
                       "closed"}
<1>1. DOMAIN CloseSteps = 1..8
  BY DEF CloseSteps
<1>2. \A i \in 1..8 : i = 1 \/ i = 2 \/ i = 3 \/ i = 4 \/ i = 5 \/ i = 6 \/ i = 7 \/ i = 8
  OBVIOUS
<1>3. ToSet(CloseSteps) = {CloseSteps[i] : i \in 1..8}
  BY <1>1 DEF ToSet
<1>4. /\ CloseSteps[1] = "no" /\ CloseSteps[2] = "receivers"
      /\ CloseSteps[3] = "senders" /\ CloseSteps[4] = "sockets"
      /\ CloseSteps[5] = "clearSockets" /\ CloseSteps[6] = "clearReceivers"
      /\ CloseSteps[7] = "clearSenders" /\ CloseSteps[8] = "closed"
  BY DEF CloseSteps
<1> HIDE DEF CloseSteps
<1>5. \A x : x \in {CloseSteps[i] : i \in 1..8} <=>
        x \in {"no", "receivers", "senders", "sockets", "clearSockets",
               "clearReceivers", "clearSenders", "closed"}
  BY <1>2, <1>4
<1> QED BY <1>3, <1>5

(* What each way of assigning thread leaves: a record for t, and the       *)
(* others as they were.                                                    *)
ThreadRecord == [job : Jobs \cup {"none"}, peer : Peers \cup {None}, step : Steps,
                 on : Nat, socket : Nat, sender : Nat]

IsNow(t, j, p, s, o, k, n) ==
  /\ thread' \in [Threads -> ThreadRecord]
  /\ thread'[t].job = j /\ thread'[t].peer = p /\ thread'[t].step = s
  /\ thread'[t].on = o /\ thread'[t].socket = k /\ thread'[t].sender = n
  /\ \A u \in Threads \ {t} : thread'[u] = thread[u]

LEMMA ThreadType == ASSUME TypeOK PROVE thread \in [Threads -> ThreadRecord]
BY DEF TypeOK, ThreadRecord

LEMMA GotoFrame ==
  ASSUME TypeOK, NEW t \in Threads, NEW s \in Steps, Goto(t, s)
  PROVE  IsNow(t, thread[t].job, thread[t].peer, s, thread[t].on,
               thread[t].socket, thread[t].sender)
BY ThreadType DEF Goto, IsNow, ThreadRecord

LEMMA SenderFrame ==
  ASSUME TypeOK, NEW t \in Threads, NEW s \in Steps, NEW n \in Nat,
         thread' = [thread EXCEPT ![t].sender = n, ![t].step = s]
  PROVE  IsNow(t, thread[t].job, thread[t].peer, s, thread[t].on,
               thread[t].socket, n)
BY ThreadType DEF IsNow, ThreadRecord

LEMMA SocketFrame ==
  ASSUME TypeOK, NEW t \in Threads, NEW s \in Steps, NEW k \in Nat,
         thread' = [thread EXCEPT ![t].socket = k, ![t].step = s]
  PROVE  IsNow(t, thread[t].job, thread[t].peer, s, thread[t].on, k,
               thread[t].sender)
BY ThreadType DEF IsNow, ThreadRecord

LEMMA IdleFrame ==
  ASSUME TypeOK, NEW t \in Threads, thread' = [thread EXCEPT ![t] = Idle]
  PROVE  IsNow(t, "none", None, "idle", None, None, None) /\ thread'[t] = Idle
BY ThreadType DEF IsNow, ThreadRecord, Idle, None, Steps

LEMMA BeginFrame ==
  ASSUME TypeOK, NEW t \in Threads, NEW j \in Jobs, NEW p \in Peers, NEW o \in Nat,
         thread' = [thread EXCEPT ![t] = [Idle EXCEPT !.job = j, !.peer = p,
                                            !.on = o, !.step = "look"]]
  PROVE  IsNow(t, j, p, "look", o, None, None)
BY ThreadType DEF IsNow, ThreadRecord, Idle, None, Steps

LEMMA BeginIdleFrame ==
  ASSUME TypeOK, NEW t \in Threads, NEW j \in Jobs, NEW p \in Peers,
         thread' = [thread EXCEPT ![t] = [Idle EXCEPT !.job = j, !.peer = p,
                                            !.step = "look"]]
  PROVE  IsNow(t, j, p, "look", None, None, None)
BY ThreadType DEF IsNow, ThreadRecord, Idle, None, Steps

LEMMA InitInv == Init => IInv
<1> SUFFICES ASSUME Init PROVE IInv
  OBVIOUS
<1>1. TypeOK
  BY Closings DEF Init, TypeOK, Idle, Numbers, None, Steps, Creating, At
<1>2. FirstInUse
  BY DEF Init, FirstInUse, Idle, At, None, OneThread, HandledBy
<1>3. FirstIsClosed
  BY DEF Init, FirstIsClosed, BeforeClosed, Idle, At
<1>4. KeepAliveHasReason
  BY DEF Init, KeepAliveHasReason
<1> QED BY <1>1, <1>2, <1>3, <1>4 DEF IInv

LEMMA Lists ==
  ASSUME TypeOK
  PROVE  /\ DOMAIN receivers = 1..Len(receivers) /\ Len(receivers) \in Nat
         /\ DOMAIN senders = 1..Len(senders) /\ Len(senders) \in Nat
         /\ \A r \in DOMAIN receivers : r \in Nat /\ r # None
         /\ \A s \in DOMAIN senders : /\ s \in Nat /\ s # None
                                      /\ senders[s].to \in Peers
         /\ loops \in [DOMAIN receivers -> Nat]
         /\ \A t \in Threads : /\ thread[t].on \in Numbers(receivers)
                               /\ thread[t].sender \in Numbers(senders)
<1>1. /\ senders \in Seq([to : Peers, socket : Nat, keepAlive : BOOLEAN])
      /\ receivers \in Seq([socket : Nat, listening : BOOLEAN])
      /\ loops \in [DOMAIN receivers -> Nat]
      /\ \A t \in Threads : /\ thread[t].on \in Numbers(receivers)
                            /\ thread[t].sender \in Numbers(senders)
  BY DEF TypeOK
<1>2. DOMAIN receivers = 1..Len(receivers) /\ Len(receivers) \in Nat
  BY <1>1
<1>3. DOMAIN senders = 1..Len(senders) /\ Len(senders) \in Nat
  BY <1>1, LenProperties
<1>4. \A s \in DOMAIN senders :
        senders[s] \in [to : Peers, socket : Nat, keepAlive : BOOLEAN]
  BY <1>1, <1>3, ElementOfSeq
<1> QED BY <1>1, <1>2, <1>3, <1>4 DEF None

(* What a thread needs to go on.                                           *)
Named(t) ==
  /\ IF At(t, "idle") THEN thread[t] = Idle
     ELSE thread[t].job \in Jobs /\ thread[t].peer \in Peers
  /\ thread[t].step \in {"putSender", "receiver", "send"} =>
       thread[t].sender # None
  /\ At(t, "newReceiver") /\ thread[t].job # "server" =>
       thread[t].sender # None
  /\ thread[t].socket <= sockets

(* What a step leaves of the objects.                                      *)
Grows ==
  /\ senders' \in Seq([to : Peers, socket : Nat, keepAlive : BOOLEAN])
  /\ receivers' \in Seq([socket : Nat, listening : BOOLEAN])
  /\ Len(senders) <= Len(senders') /\ Len(receivers) <= Len(receivers')
  /\ sockets' \in Nat /\ sockets <= sockets'

(* What the threads look like when t has moved on.                         *)
LEMMA ThreadsTyped ==
  ASSUME TypeOK, NEW t \in Threads, NEW j, NEW p, NEW s, NEW o \in Numbers(receivers)',
         NEW k, NEW n \in Numbers(senders)', IsNow(t, j, p, s, o, k, n),
         IF s = "idle" THEN thread'[t] = Idle ELSE j \in Jobs /\ p \in Peers,
         s \in {"putSender", "receiver", "send"} => n # None,
         s = "newReceiver" /\ j # "server" => n # None,
         k <= sockets', Grows
  PROVE  /\ thread' \in [Threads -> ThreadRecord]
         /\ \A u \in Threads :
              /\ thread'[u].sender \in Numbers(senders)'
              /\ thread'[u].on \in Numbers(receivers)'
              /\ Named(u)'
<1>1. thread' \in [Threads -> ThreadRecord]
  BY DEF IsNow
<1>2. DOMAIN senders \subseteq DOMAIN senders' /\ DOMAIN receivers \subseteq DOMAIN receivers'
  <2>1. /\ senders \in Seq([to : Peers, socket : Nat, keepAlive : BOOLEAN])
        /\ receivers \in Seq([socket : Nat, listening : BOOLEAN])
    BY DEF TypeOK
  <2>2. /\ Len(senders) \in Nat /\ DOMAIN senders = 1..Len(senders)
        /\ Len(receivers) \in Nat /\ DOMAIN receivers = 1..Len(receivers)
    BY <2>1, LenProperties
  <2>3. /\ Len(senders') \in Nat /\ DOMAIN senders' = 1..Len(senders')
        /\ Len(receivers') \in Nat /\ DOMAIN receivers' = 1..Len(receivers')
    BY LenProperties DEF Grows
  <2> QED BY <2>2, <2>3 DEF Grows
<1>3. Numbers(senders) \subseteq Numbers(senders)' /\ Numbers(receivers) \subseteq Numbers(receivers)'
  BY <1>2 DEF Numbers
<1>4. ASSUME NEW u \in Threads
      PROVE  /\ thread'[u].sender \in Numbers(senders)'
             /\ thread'[u].on \in Numbers(receivers)'
             /\ Named(u)'
  <2>1. CASE u = t
    BY <2>1 DEF IsNow, Named, At
  <2>2. CASE u # t
    <3>1. thread'[u] = thread[u]
      BY <2>2 DEF IsNow
    <3>2. /\ thread[u].sender \in Numbers(senders) /\ thread[u].on \in Numbers(receivers)
          /\ Named(u) /\ thread[u].socket \in Nat /\ sockets \in Nat
      BY DEF TypeOK, Named
    <3>3. thread[u].socket <= sockets'
      BY <3>2 DEF Named, Grows
    <3> QED BY <3>1, <3>2, <3>3, <1>3 DEF Named, At
  <2> QED BY <2>1, <2>2
<1> QED BY <1>1, <1>4

(* A thread that stays on its receiver leaves the receiver its one thread. *)
LEMMA SameHandler ==
  ASSUME OneThread(1), NEW t \in Threads, NEW j, NEW p, NEW s, NEW k, NEW n,
         IsNow(t, j, p, s, thread[t].on, k, n), s # "dead", UNCHANGED loops
  PROVE  OneThread(1)'
<1>1. \A u \in Threads : thread'[u].on = thread[u].on
  BY DEF IsNow
<1>2. HandledBy(1)' = HandledBy(1)
  BY <1>1 DEF HandledBy
<1>3. \A u \in Threads : ~At(u, "dead") => ~At(u, "dead")'
  BY DEF IsNow, At
<1> QED BY <1>2, <1>3 DEF OneThread

(* Before the closing there is one receiver.                               *)
LEMMA OneReceiver ==
  ASSUME IInv, ~Closing
  PROVE  /\ DOMAIN receivers = {1}
         /\ loops \in [{1} -> Nat]
         /\ \A t \in Threads : thread[t].on \in {None, 1}
<1>1. Len(receivers) = 1
  BY DEF IInv, FirstInUse
<1>2. DOMAIN receivers = {1}
  BY <1>1, Lists DEF IInv
<1> QED BY <1>2, Lists DEF IInv, Numbers

(* A step that only moves a thread.                                        *)
LEMMA ThreadStep ==
  ASSUME IInv, NEW t \in Threads, NEW s \in Steps, NEW k \in Nat, NEW n \in Numbers(senders),
         IsNow(t, thread[t].job, thread[t].peer, s, thread[t].on, k, n),
         UNCHANGED <<table, sockets, open, senders, receivers, loops, jobs,
                     closing, mishaps, wire>>,
         ~At(t, "dead"), ~At(t, "putSender"),
         ~At(t, "idle"), s # "idle",
         s \in {"putSender", "receiver", "send"} => n # None,
         s = "newReceiver" /\ thread[t].job # "server" => n # None,
         k <= sockets,
         ~Closing => s \notin {"bind", "putSocket", "newReceiver", "dead"},
         ~Closing /\ s = "newSender" => k = 1,
         ~Closing /\ s = "socket" => thread[t].job # "server",
         "late" \notin mishaps => s \notin {"putSocket", "dead"},
         "late" \notin mishaps /\ s = "bind" => ~BeforeClosed("sockets")
  PROVE  IInv'
<1> USE DEF IInv
<1>0. /\ thread[t].on \in Numbers(receivers)' /\ n \in Numbers(senders)'
      /\ thread[t].job \in Jobs /\ thread[t].peer \in Peers
  BY DEF TypeOK, Numbers
<1>1. TypeOK'
  <2>1. Grows /\ thread[t].socket <= sockets'
    BY DEF TypeOK, Grows
  <2>2. /\ thread' \in [Threads -> ThreadRecord]
        /\ \A u \in Threads :
             /\ thread'[u].sender \in Numbers(senders)'
             /\ thread'[u].on \in Numbers(receivers)'
             /\ Named(u)'
    BY <1>0, <2>1, ThreadsTyped
  <2> QED BY <2>2 DEF TypeOK, ThreadRecord, Numbers, Named
<1>2. FirstInUse'
  <2> SUFFICES ASSUME ~Closing PROVE FirstInUse'
    BY DEF FirstInUse, Closing
  <2>1. \A u \in Threads : u = t \/ thread'[u] = thread[u]
    BY DEF IsNow
  <2>2. OneThread(1)'
    BY SameHandler DEF FirstInUse
  <2> QED BY <2>1, <2>2 DEF FirstInUse, IsNow, At
<1>3. FirstIsClosed'
  BY DEF FirstIsClosed, BeforeClosed, IsNow, At
<1>4. KeepAliveHasReason'
  BY DEF KeepAliveHasReason, IsNow, At
<1> QED BY <1>1, <1>2, <1>3, <1>4

(* The end of a job.                                                       *)
LEMMA FinishStep ==
  ASSUME IInv, NEW t \in Threads, Finish(t),
         UNCHANGED <<table, sockets, open, senders, receivers, jobs, closing, mishaps>>,
         wire' \in SUBSET (Jobs \X Peers \X Peers),
         ~At(t, "dead"), ~At(t, "putSender")
  PROVE  IInv'
<1> USE DEF IInv
<1>0. IsNow(t, "none", None, "idle", None, None, None) /\ thread'[t] = Idle
  BY IdleFrame DEF Finish
<1>a. loops' \in [DOMAIN receivers -> Nat]
  BY Lists DEF Finish, Back, Numbers, None
<1>b. None \in Numbers(receivers)' /\ None \in Numbers(senders)' /\ None \in Nat
      /\ None <= sockets'
  BY DEF Numbers, None, TypeOK
<1>1. TypeOK'
  <2>1. Grows /\ thread[t].socket <= sockets'
    BY DEF TypeOK, Grows
  <2>2. /\ thread' \in [Threads -> ThreadRecord]
        /\ \A u \in Threads :
             /\ thread'[u].sender \in Numbers(senders)'
             /\ thread'[u].on \in Numbers(receivers)'
             /\ Named(u)'
    BY <1>0, <1>b, <2>1, ThreadsTyped
  <2> QED BY <1>a, <2>2 DEF TypeOK, ThreadRecord, Numbers, Named
<1>2. FirstInUse'
  <2> SUFFICES ASSUME ~Closing PROVE FirstInUse'
    BY DEF FirstInUse, Closing
  <2>1. \A u \in Threads : u = t \/ thread'[u] = thread[u]
    BY <1>0 DEF IsNow
  <2>2. OneThread(1) /\ thread[t].on \in {None, 1} /\ loops \in [{1} -> Nat]
    BY OneReceiver DEF FirstInUse
  <2>3. OneThread(1)'
    <3>1. CASE thread[t].on = None
      <4>1. IsNow(t, "none", None, "idle", thread[t].on, None, None) /\ UNCHANGED loops
        BY <1>0, <3>1 DEF Finish, Back
      <4> QED BY <4>1, <2>2, SameHandler
    <3>2. CASE thread[t].on = 1
      <4>1. t \in HandledBy(1)
        BY <3>2 DEF HandledBy
      <4>2. HandledBy(1) = {t} /\ loops[1] = 0
        BY <4>1, <2>2 DEF OneThread
      <4>3. loops'[1] = 1
        BY <4>2, <3>2, <2>2 DEF Finish, Back, None
      <4>4. \A u \in Threads : thread'[u].on # 1
        BY <4>2, <2>1, <1>0 DEF HandledBy, IsNow, None
      <4> QED BY <4>3, <4>4 DEF OneThread, HandledBy
    <3> QED BY <3>1, <3>2, <2>2
  <2> QED BY <1>0, <2>1, <2>3 DEF FirstInUse, IsNow, At
<1>3. FirstIsClosed'
  BY <1>0 DEF FirstIsClosed, BeforeClosed, IsNow, At
<1>4. KeepAliveHasReason'
  BY <1>0 DEF KeepAliveHasReason, IsNow, At
<1> QED BY <1>1, <1>2, <1>3, <1>4

LEMMA LookupSenderInv == ASSUME IInv, NEW t \in Threads, LookupSender(t) PROVE IInv'
<1> USE DEF IInv, LookupSender
<1> DEFINE s == IF table.sender = None THEN "socket" ELSE "send"
<1>1. s \in Steps /\ s \in {"socket", "send"} /\ (s = "send" => table.sender # None)
  BY DEF Steps, Creating
<1>2. table.sender \in Nat /\ table.sender \in Numbers(senders) /\ thread[t].socket \in Nat
      /\ thread[t].socket <= sockets
  BY DEF TypeOK
<1>3. thread' = [thread EXCEPT ![t].sender = table.sender, ![t].step = s]
  OBVIOUS
<1> HIDE DEF s
<1>4. IsNow(t, thread[t].job, thread[t].peer, s, thread[t].on, thread[t].socket, table.sender)
  BY <1>1, <1>2, <1>3, SenderFrame
<1>5. /\ ~At(t, "idle") /\ ~At(t, "dead") /\ ~At(t, "putSender") /\ thread[t].job # "server"
      /\ s \notin {"bind", "putSocket", "newReceiver", "dead", "newSender"}
  BY <1>1 DEF At
<1> QED BY <1>1, <1>2, <1>4, <1>5, ThreadStep

LEMMA LookupEchoInv == ASSUME IInv, NEW t \in Threads, LookupEcho(t) PROVE IInv'
<1> USE DEF IInv, LookupEcho
<1>1. ~At(t, "idle") /\ ~At(t, "dead") /\ ~At(t, "putSender") /\ "send" \in Steps
  BY DEF At, Steps
<1>2. CASE table.sender # None /\ thread' = [thread EXCEPT ![t].sender = table.sender, ![t].step = "send"]
           /\ UNCHANGED loops
  <2>1. table.sender \in Nat /\ table.sender \in Numbers(senders) /\ thread[t].socket \in Nat
        /\ thread[t].socket <= sockets
    BY DEF TypeOK
  <2>2. IsNow(t, thread[t].job, thread[t].peer, "send", thread[t].on, thread[t].socket, table.sender)
    BY <1>1, <1>2, <2>1, SenderFrame
  <2> QED BY <1>1, <1>2, <2>1, <2>2, ThreadStep
<1>3. CASE Finish(t)
  BY <1>1, <1>3, FinishStep DEF TypeOK
<1> QED BY <1>2, <1>3

LEMMA HandlerThrowsInv == ASSUME IInv, NEW t \in Threads, HandlerThrows(t) PROVE IInv'
<1> USE DEF IInv, HandlerThrows
<1>1. ~At(t, "idle") /\ ~At(t, "dead") /\ ~At(t, "putSender") /\ "threw" \in Steps
  BY DEF At, Steps
<1>2. thread[t].sender \in Numbers(senders) /\ thread[t].socket \in Nat
      /\ thread[t].socket <= sockets
  BY DEF TypeOK
<1>3. IsNow(t, thread[t].job, thread[t].peer, "threw", thread[t].on, thread[t].socket, thread[t].sender)
  BY <1>1, GotoFrame
<1> QED BY <1>1, <1>2, <1>3, ThreadStep

LEMMA ReturnAtOnceInv == ASSUME IInv, NEW t \in Threads, ReturnAtOnce(t) PROVE IInv'
<1>1. ~At(t, "dead") /\ ~At(t, "putSender")
  BY DEF ReturnAtOnce, At
<1> QED BY <1>1, FinishStep DEF ReturnAtOnce, IInv, TypeOK

LEMMA LookupServerInv == ASSUME IInv, NEW t \in Threads, LookupServer(t) PROVE IInv'
<1> USE DEF IInv, LookupServer
<1>1. ~At(t, "idle") /\ ~At(t, "dead") /\ ~At(t, "putSender") /\ "socket" \in Steps
  BY DEF At, Steps
<1>2. CASE table.receiver = None /\ Goto(t, "socket") /\ UNCHANGED loops
  <2>1. thread[t].sender \in Numbers(senders) /\ thread[t].socket \in Nat
        /\ thread[t].socket <= sockets
    BY DEF TypeOK
  <2>2. IsNow(t, thread[t].job, thread[t].peer, "socket", thread[t].on, thread[t].socket, thread[t].sender)
    BY <1>1, <1>2, GotoFrame
  <2>3. ~Closing => FALSE
    BY <1>2 DEF FirstInUse, Goto, At, IsNow, None
  <2> QED BY <1>1, <1>2, <2>1, <2>2, <2>3, ThreadStep
<1>3. CASE Finish(t)
  BY <1>1, <1>3, FinishStep DEF TypeOK
<1> QED BY <1>2, <1>3

LEMMA LookupSocketInv == ASSUME IInv, NEW t \in Threads, LookupSocket(t) PROVE IInv'
<1> USE DEF IInv, LookupSocket
<1> DEFINE s == IF table.socket = None THEN "bind" ELSE AfterSocket(t)
<1>1. s \in Steps /\ s \in {"bind", "newSender", "newReceiver"}
  BY DEF Steps, Creating, AfterSocket
<1>2. ~Closing => table.socket = 1 /\ s = "newSender"
  BY DEF FirstInUse, AfterSocket, None, At
<1>3. "late" \notin mishaps /\ s = "bind" => ~BeforeClosed("sockets")
  BY DEF FirstIsClosed, AfterSocket, None
<1>4. thread' = [thread EXCEPT ![t].socket = table.socket, ![t].step = s]
  OBVIOUS
<1> HIDE DEF s
<1>5. /\ table.socket \in Nat /\ thread[t].sender \in Numbers(senders)
      /\ table.socket <= sockets
  BY DEF TypeOK
<1>6. IsNow(t, thread[t].job, thread[t].peer, s, thread[t].on, table.socket, thread[t].sender)
  BY <1>1, <1>4, <1>5, SocketFrame
<1>7. ~At(t, "idle") /\ ~At(t, "dead") /\ ~At(t, "putSender")
  BY DEF At
<1>8. s \notin {"idle", "dead", "putSocket", "putSender", "receiver", "send", "socket"}
  BY <1>1
<1>9. s = "newReceiver" => thread[t].job = "server"
  BY DEF s, AfterSocket
<1>10. ~Closing => s \notin {"bind", "newReceiver"}
  BY <1>2
<1> QED BY <1>1, <1>2, <1>3, <1>5, <1>6, <1>7, <1>8, <1>9, <1>10, ThreadStep

LEMMA BindFailsInv == ASSUME IInv, NEW t \in Threads, BindFails(t) PROVE IInv'
<1> USE DEF IInv, BindFails
<1>1. ~At(t, "idle") /\ ~At(t, "dead") /\ ~At(t, "putSender") /\ "dead" \in Steps
  BY DEF At, Steps
<1>2. CASE Finish(t)
  BY <1>1, <1>2, FinishStep DEF TypeOK
<1>3. CASE Goto(t, "dead") /\ UNCHANGED loops
  <2>1. thread[t].sender \in Numbers(senders) /\ thread[t].socket \in Nat
        /\ thread[t].socket <= sockets
    BY DEF TypeOK
  <2>2. IsNow(t, thread[t].job, thread[t].peer, "dead", thread[t].on, thread[t].socket, thread[t].sender)
    BY <1>1, <1>3, GotoFrame
  <2>3. Closing
    BY DEF FirstInUse
  <2>4. "late" \in mishaps
    BY DEF FirstIsClosed
  <2> QED BY <1>1, <1>3, <2>1, <2>2, <2>3, <2>4, ThreadStep
<1> QED BY <1>2, <1>3

LEMMA LookupReceiverInv == ASSUME IInv, NEW t \in Threads, LookupReceiver(t) PROVE IInv'
<1> USE DEF IInv, LookupReceiver
<1> DEFINE s == IF table.receiver = None THEN "newReceiver" ELSE "send"
<1>a. TRUE
  OBVIOUS
<1>1. s \in Steps /\ s \in {"newReceiver", "send"} /\ Goto(t, s)
  BY DEF Steps, Creating
<1>2. ~Closing => s = "send"
  BY DEF FirstInUse, None
<1> HIDE DEF s
<1>3. thread[t].sender \in Numbers(senders) /\ thread[t].socket \in Nat
      /\ thread[t].socket <= sockets
  BY DEF TypeOK
<1>4. IsNow(t, thread[t].job, thread[t].peer, s, thread[t].on, thread[t].socket, thread[t].sender)
  BY <1>1, GotoFrame
<1>5. ~At(t, "idle") /\ ~At(t, "dead") /\ ~At(t, "putSender") /\ thread[t].sender # None
  BY DEF At, TypeOK
<1> QED BY <1>1, <1>2, <1>3, <1>4, <1>5, ThreadStep

LEMMA SendInv == ASSUME IInv, NEW t \in Threads, Send(t) PROVE IInv'
<1> USE DEF IInv, Send
<1>1. ~At(t, "idle") /\ ~At(t, "dead") /\ ~At(t, "putSender")
  BY DEF At
<1>2. wire' \in SUBSET (Jobs \X Peers \X Peers)
  <2>1. thread[t].sender \in DOMAIN senders
    BY DEF TypeOK, Numbers, None, At
  <2>2. senders[thread[t].sender].to \in Peers
    BY <2>1, Lists
  <2>3. thread[t].job \in Jobs /\ thread[t].peer \in Peers
    BY DEF TypeOK, At
  <2>4. wire' = wire \/ wire' = {<<thread[t].job, thread[t].peer, senders[thread[t].sender].to>>}
    OBVIOUS
  <2>5. <<thread[t].job, thread[t].peer, senders[thread[t].sender].to>> \in Jobs \X Peers \X Peers
    BY <2>2, <2>3
  <2>6. wire \in SUBSET (Jobs \X Peers \X Peers)
    BY DEF TypeOK
  <2> QED BY <2>4, <2>5, <2>6
<1> QED BY <1>1, <1>2, FinishStep

LEMMA BeginInv ==
  ASSUME IInv, NEW t \in Threads, NEW job \in Jobs, NEW p \in Peers, Begin(t, job, p)
  PROVE  IInv'
<1> USE DEF IInv, Begin
<1>1. IsNow(t, job, p, "look", None, None, None)
  BY BeginIdleFrame
<1>2. None \in Numbers(receivers)' /\ None \in Numbers(senders)' /\ None \in Nat
      /\ None <= sockets'
  BY DEF Numbers, None, TypeOK
<1>3. TypeOK'
  <2>1. Grows /\ thread[t].socket <= sockets'
    BY DEF TypeOK, Grows
  <2>2. /\ thread' \in [Threads -> ThreadRecord]
        /\ \A u \in Threads :
             /\ thread'[u].sender \in Numbers(senders)'
             /\ thread'[u].on \in Numbers(receivers)'
             /\ Named(u)'
    BY <1>1, <1>2, <2>1, ThreadsTyped
  <2>3. jobs' \in Nat
    BY DEF TypeOK
  <2> QED BY <2>2, <2>3 DEF TypeOK, ThreadRecord, Numbers, Named
<1>4. FirstInUse'
  <2> SUFFICES ASSUME ~Closing PROVE FirstInUse'
    BY DEF FirstInUse, Closing
  <2>1. \A u \in Threads : u = t \/ thread'[u] = thread[u]
    BY <1>1 DEF IsNow
  <2>2. thread[t].on = None
    BY DEF TypeOK, At, Idle
  <2>3. OneThread(1)'
    BY <1>1, <2>2, SameHandler DEF FirstInUse
  <2> QED BY <1>1, <2>1, <2>3 DEF FirstInUse, IsNow, At
<1>5. FirstIsClosed'
  BY <1>1 DEF FirstIsClosed, BeforeClosed, IsNow, At
<1>6. KeepAliveHasReason'
  BY <1>1 DEF KeepAliveHasReason, IsNow, At
<1> QED BY <1>3, <1>4, <1>5, <1>6

LEMMA ReceiveInv ==
  ASSUME IInv, NEW t \in Threads, NEW r \in DOMAIN receivers, NEW job \in Jobs, NEW p \in Peers,
         Receive(t, r, job, p)
  PROVE  IInv'
<1> USE DEF IInv, Receive
<1>0. r \in Nat /\ r \in Numbers(receivers)' /\ None \in Numbers(senders)' /\ r # None
      /\ None <= sockets'
  BY Lists DEF Numbers, None, TypeOK
<1>1. IsNow(t, job, p, "look", r, None, None)
  BY <1>0, BeginFrame
<1>2. loops' \in [DOMAIN receivers -> Nat] /\ \A q \in DOMAIN receivers \ {r} : loops'[q] = loops[q]
  BY DEF TypeOK
<1>3. TypeOK'
  <2>1. Grows /\ thread[t].socket <= sockets'
    BY DEF TypeOK, Grows
  <2>2. /\ thread' \in [Threads -> ThreadRecord]
        /\ \A u \in Threads :
             /\ thread'[u].sender \in Numbers(senders)'
             /\ thread'[u].on \in Numbers(receivers)'
             /\ Named(u)'
    BY <1>0, <1>1, <2>1, ThreadsTyped
  <2>3. jobs' \in Nat
    BY DEF TypeOK
  <2> QED BY <1>2, <2>2, <2>3 DEF TypeOK, ThreadRecord, Numbers, Named
<1>4. FirstInUse'
  <2> SUFFICES ASSUME ~Closing PROVE FirstInUse'
    BY DEF FirstInUse, Closing
  <2>1. \A u \in Threads : u = t \/ thread'[u] = thread[u]
    BY <1>1 DEF IsNow
  <2>2. OneThread(1) /\ r = 1 /\ loops \in [{1} -> Nat]
    BY OneReceiver DEF FirstInUse
  <2>3. OneThread(1)'
    <3>1. loops[1] = 1 /\ HandledBy(1) = {}
      BY <2>2 DEF OneThread
    <3>2. loops'[1] = 0
      BY <2>2, <3>1
    <3>3. HandledBy(1)' = {t} /\ ~At(t, "dead")'
      BY <1>1, <2>1, <2>2, <3>1 DEF HandledBy, IsNow, At
    <3> QED BY <3>2, <3>3 DEF OneThread
  <2> QED BY <1>1, <2>1, <2>3 DEF FirstInUse, IsNow, At
<1>5. FirstIsClosed'
  BY <1>1 DEF FirstIsClosed, BeforeClosed, IsNow, At
<1>6. KeepAliveHasReason'
  BY <1>1 DEF KeepAliveHasReason, IsNow, At
<1> QED BY <1>3, <1>4, <1>5, <1>6

LEMMA LoopEndsInv == ASSUME IInv, NEW r \in DOMAIN receivers, LoopEnds(r) PROVE IInv'
<1> USE DEF IInv, LoopEnds
<1>1. TypeOK'
  BY DEF TypeOK, Numbers, At
<1>2. FirstInUse'
  <2>1. ~Closing => FALSE
    BY OneReceiver DEF FirstInUse
  <2> QED BY <2>1 DEF FirstInUse, Closing
<1>3. FirstIsClosed'
  BY DEF FirstIsClosed, BeforeClosed, At
<1>4. KeepAliveHasReason'
  BY DEF KeepAliveHasReason, At
<1> QED BY <1>1, <1>2, <1>3, <1>4

LEMMA BindInv == ASSUME IInv, NEW t \in Threads, Bind(t) PROVE IInv'
<1> USE DEF IInv, Bind
<1>1. sockets + 1 \in Nat /\ "putSocket" \in Steps
  BY DEF TypeOK, Steps, Creating
<1>2. IsNow(t, thread[t].job, thread[t].peer, "putSocket", thread[t].on, sockets + 1, thread[t].sender)
  BY <1>1, SocketFrame
<1>3. Closing /\ "late" \in mishaps'
  BY DEF FirstInUse, Late
<1>4. TypeOK'
  <2>1. /\ thread[t].on \in Numbers(receivers)' /\ thread[t].sender \in Numbers(senders)'
        /\ thread[t].job \in Jobs /\ thread[t].peer \in Peers
    BY DEF TypeOK, Numbers, At
  <2>2. Grows /\ sockets + 1 <= sockets'
    BY DEF TypeOK, Grows
  <2>3. /\ thread' \in [Threads -> ThreadRecord]
        /\ \A u \in Threads :
             /\ thread'[u].sender \in Numbers(senders)'
             /\ thread'[u].on \in Numbers(receivers)'
             /\ Named(u)'
    <3> DEFINE k == sockets + 1
               s == "putSocket"
    <3>1. s \notin {"idle", "putSender", "receiver", "send", "newReceiver"} /\ k <= sockets'
      BY <2>2
    <3>2. IsNow(t, thread[t].job, thread[t].peer, s, thread[t].on, k, thread[t].sender)
      BY <1>2
    <3> HIDE DEF k, s, Bind
    <3> QED BY <3>1, <3>2, <2>1, <2>2, ThreadsTyped
  <2>4. sockets' \in Nat /\ open' \in 0..sockets' /\ mishaps' \subseteq {"overwritten", "late"}
        /\ table'.socket <= sockets'
    BY DEF TypeOK, Late
  <2> QED BY <2>3, <2>4 DEF TypeOK, ThreadRecord, Numbers, Named
<1>5. FirstInUse' /\ FirstIsClosed' /\ KeepAliveHasReason'
  BY <1>3 DEF FirstInUse, FirstIsClosed, KeepAliveHasReason, Closing
<1> QED BY <1>4, <1>5

LEMMA PutSocketInv == ASSUME IInv, NEW t \in Threads, PutSocket(t) PROVE IInv'
<1> USE DEF IInv, PutSocket
<1>1. AfterSocket(t) \in Steps /\ AfterSocket(t) \in {"newSender", "newReceiver"}
  BY DEF AfterSocket, Steps, Creating
<1>a. AfterSocket(t) = "newReceiver" => thread[t].job = "server"
  BY DEF AfterSocket
<1>2. IsNow(t, thread[t].job, thread[t].peer, AfterSocket(t), thread[t].on, thread[t].socket, thread[t].sender)
  BY <1>1, GotoFrame
<1>3. Closing /\ "late" \in mishaps'
  BY DEF FirstInUse, Late
<1>4. TypeOK'
  <2>1. /\ thread[t].on \in Numbers(receivers)' /\ thread[t].sender \in Numbers(senders)'
        /\ thread[t].job \in Jobs /\ thread[t].peer \in Peers /\ thread[t].socket \in Nat
        /\ thread[t].socket <= sockets
    BY DEF TypeOK, Numbers, At
  <2>2. Grows /\ thread[t].socket <= sockets'
    BY DEF TypeOK, Grows
  <2>3. /\ thread' \in [Threads -> ThreadRecord]
        /\ \A u \in Threads :
             /\ thread'[u].sender \in Numbers(senders)'
             /\ thread'[u].on \in Numbers(receivers)'
             /\ Named(u)'
    BY <1>1, <1>a, <1>2, <2>1, <2>2, ThreadsTyped
  <2>4. table' \in [socket : Nat, sender : Nat, receiver : Nat] /\ table'.socket = thread[t].socket
        /\ table'.sender = table.sender /\ table'.receiver = table.receiver
        /\ mishaps' \subseteq {"overwritten", "late"}
    BY <2>1 DEF TypeOK, Late
  <2>5. thread[t].socket <= sockets
    BY DEF TypeOK
  <2> QED BY <2>3, <2>4, <2>5 DEF TypeOK, ThreadRecord, Numbers, Named
<1>5. FirstInUse' /\ FirstIsClosed' /\ KeepAliveHasReason'
  BY <1>3 DEF FirstInUse, FirstIsClosed, KeepAliveHasReason, Closing
<1> QED BY <1>4, <1>5

LEMMA NewSenderInv == ASSUME IInv, NEW t \in Threads, NewSender(t) PROVE IInv'
<1> USE DEF IInv, NewSender
<1> DEFINE n == Len(senders) + 1
           new == [to |-> thread[t].peer, socket |-> thread[t].socket, keepAlive |-> TRUE]
<1>1. n \in Nat /\ "putSender" \in Steps /\ n # None
  BY Lists DEF Steps, Creating, None
<1>2. IsNow(t, thread[t].job, thread[t].peer, "putSender", thread[t].on, thread[t].socket, n)
  BY <1>1, SenderFrame
<1>3. new \in [to : Peers, socket : Nat, keepAlive : BOOLEAN] /\ thread[t].job \in Jobs
      /\ thread[t].peer \in Peers
  BY DEF TypeOK, At
<1>4. senders \in Seq([to : Peers, socket : Nat, keepAlive : BOOLEAN])
  BY DEF TypeOK
<1>a. senders' = Append(senders, new)
  OBVIOUS
<1> HIDE DEF new
<1>5. /\ senders' \in Seq([to : Peers, socket : Nat, keepAlive : BOOLEAN])
      /\ Len(senders') = n /\ DOMAIN senders' = 1..n /\ senders'[n] = new
      /\ \A s \in DOMAIN senders : senders'[s] = senders[s]
      /\ \A s \in DOMAIN senders' : s \in DOMAIN senders \/ s = n
  BY <1>3, <1>4, <1>a
<1>6. TypeOK'
  <2>1. thread[t].on \in Numbers(receivers)' /\ n \in Numbers(senders)'
    BY <1>1, <1>5, Lists DEF Numbers
  <2>a. Len(senders) \in Nat /\ DOMAIN senders = 1..Len(senders)
    BY Lists
  <2>2. Grows /\ thread[t].socket <= sockets'
    BY <1>5, <2>a DEF TypeOK, Grows
  <2>3. /\ thread' \in [Threads -> ThreadRecord]
        /\ \A u \in Threads :
             /\ thread'[u].sender \in Numbers(senders)'
             /\ thread'[u].on \in Numbers(receivers)'
             /\ Named(u)'
    BY <1>1, <1>2, <1>3, <1>5, <2>1, <2>2, ThreadsTyped
  <2>4. mishaps' \subseteq {"overwritten", "late"}
    BY DEF TypeOK, Late
  <2>5. table.sender \in Numbers(senders)'
    <3>1. table.sender \in {None} \cup 1..Len(senders)
      BY <2>a DEF TypeOK, Numbers
    <3> QED BY <1>5, <2>a, <3>1 DEF Numbers
  <2> QED BY <1>5, <2>3, <2>4, <2>5 DEF TypeOK, ThreadRecord, Numbers, Named
<1>7. FirstInUse'
  <2> SUFFICES ASSUME ~Closing PROVE FirstInUse'
    BY DEF FirstInUse, Closing
  <2>1. \A u \in Threads : u = t \/ thread'[u] = thread[u]
    BY <1>2 DEF IsNow
  <2>2. OneThread(1)'
    BY <1>2, SameHandler DEF FirstInUse
  <2>3. senders'[n].socket = 1
    BY <1>5 DEF new, FirstInUse
  <2> QED BY <1>2, <1>5, <2>1, <2>2, <2>3 DEF FirstInUse, IsNow, At
<1>8. FirstIsClosed'
  BY <1>2 DEF FirstIsClosed, BeforeClosed, IsNow, At, Late
<1>9. KeepAliveHasReason'
  <2> SUFFICES ASSUME mishaps' = {}, NEW s \in DOMAIN senders', senders'[s].keepAlive
               PROVE  \/ s = table'.sender /\ closing' \in {"no", "receivers", "senders"}
                      \/ \E u \in Threads : thread'[u].sender = s /\ At(u, "putSender")'
    BY DEF KeepAliveHasReason
  <2>1. mishaps = {}
    BY DEF Late
  <2>2. CASE s = n
    BY <1>2, <2>2 DEF IsNow, At
  <2>3. CASE s \in DOMAIN senders
    <3>1. \/ s = table.sender /\ closing \in {"no", "receivers", "senders"}
          \/ \E u \in Threads : thread[u].sender = s /\ At(u, "putSender")
      BY <1>5, <2>1, <2>3 DEF KeepAliveHasReason
    <3>2. ASSUME NEW u \in Threads, At(u, "putSender") PROVE thread'[u] = thread[u]
      BY <1>2, <3>2 DEF IsNow, At
    <3> QED BY <3>1, <3>2 DEF At
  <2> QED BY <1>5, <2>2, <2>3
<1> QED BY <1>6, <1>7, <1>8, <1>9

LEMMA PutSenderInv == ASSUME IInv, NEW t \in Threads, PutSender(t) PROVE IInv'
<1> USE DEF IInv, PutSender
<1>1. "receiver" \in Steps /\ thread[t].sender # None /\ thread[t].job \in Jobs
      /\ thread[t].peer \in Peers
  BY DEF TypeOK, Steps, Creating, At
<1>2. IsNow(t, thread[t].job, thread[t].peer, "receiver", thread[t].on, thread[t].socket, thread[t].sender)
  BY <1>1, GotoFrame
<1>3. /\ table' \in [socket : Nat, sender : Nat, receiver : Nat]
      /\ table'.sender = thread[t].sender
      /\ table'.socket = table.socket /\ table'.receiver = table.receiver
  BY DEF TypeOK
<1>4. TypeOK'
  <2>1. thread[t].on \in Numbers(receivers)' /\ thread[t].sender \in Numbers(senders)'
    BY Lists DEF Numbers
  <2>2. Grows /\ thread[t].socket <= sockets'
    BY DEF TypeOK, Grows
  <2>3. /\ thread' \in [Threads -> ThreadRecord]
        /\ \A u \in Threads :
             /\ thread'[u].sender \in Numbers(senders)'
             /\ thread'[u].on \in Numbers(receivers)'
             /\ Named(u)'
    BY <1>1, <1>2, <2>1, <2>2, ThreadsTyped
  <2>4. mishaps' \subseteq {"overwritten", "late"}
    BY DEF TypeOK, Late
  <2> QED BY <1>3, <2>1, <2>3, <2>4 DEF TypeOK, ThreadRecord, Numbers, Named
<1>5. FirstInUse'
  <2> SUFFICES ASSUME ~Closing PROVE FirstInUse'
    BY DEF FirstInUse, Closing
  <2>1. \A u \in Threads : u = t \/ thread'[u] = thread[u]
    BY <1>2 DEF IsNow
  <2>2. OneThread(1)'
    BY <1>2, SameHandler DEF FirstInUse
  <2> QED BY <1>2, <1>3, <2>1, <2>2 DEF FirstInUse, IsNow, At
<1>6. FirstIsClosed'
  <2>1. "late" \in mishaps => "late" \in mishaps'
    BY DEF Late
  <2> QED BY <1>2, <1>3, <2>1 DEF FirstIsClosed, BeforeClosed, IsNow, At
<1>7. KeepAliveHasReason'
  <2> SUFFICES ASSUME mishaps' = {}, NEW s \in DOMAIN senders, senders[s].keepAlive
               PROVE  \/ s = table'.sender /\ closing' \in {"no", "receivers", "senders"}
                      \/ \E u \in Threads : thread'[u].sender = s /\ At(u, "putSender")'
    BY DEF KeepAliveHasReason
  <2>1. mishaps = {} /\ ~Closing /\ table.sender = None
    BY DEF Late
  <2>2. s # None
    BY Lists
  <2>3. PICK u \in Threads : thread[u].sender = s /\ At(u, "putSender")
    BY <2>1, <2>2 DEF KeepAliveHasReason
  <2>4. CASE u = t
    BY <1>3, <2>1, <2>3, <2>4 DEF Closing
  <2>5. CASE u # t
    BY <1>2, <2>3, <2>5 DEF IsNow, At
  <2> QED BY <2>4, <2>5
<1> QED BY <1>4, <1>5, <1>6, <1>7

LEMMA NewReceiverInv == ASSUME IInv, NEW t \in Threads, NewReceiver(t) PROVE IInv'
<1> USE DEF IInv, NewReceiver
<1> DEFINE n == Len(receivers) + 1
           new == [socket |-> thread[t].socket, listening |-> TRUE]
           started == Append(loops, 1)
<1>1. Closing /\ "late" \in mishaps'
  BY DEF FirstInUse, Late
<1>2. receivers \in Seq([socket : Nat, listening : BOOLEAN]) /\ new \in [socket : Nat, listening : BOOLEAN]
      /\ receivers' = Append(receivers, new)
  BY DEF TypeOK
<1> HIDE DEF new
<1>3. /\ receivers' \in Seq([socket : Nat, listening : BOOLEAN])
      /\ Len(receivers') = n /\ DOMAIN receivers' = 1..n
  BY <1>2
<1>4. loops \in Seq(Nat) /\ Len(loops) = Len(receivers)
  <2>1. loops \in [1..Len(receivers) -> Nat] /\ Len(receivers) \in Nat
    BY Lists
  <2> QED BY <2>1
<1>5. started \in [1..n -> Nat]
  <2>1. started \in Seq(Nat) /\ Len(started) = n
    BY <1>4, AppendProperties
  <2> QED BY <2>1, LenProperties, ElementOfSeq
<1>6. DOMAIN receivers \subseteq DOMAIN receivers' /\ n \in DOMAIN receivers' /\ n \in Nat
  BY <1>3, Lists
<1>s. \/ /\ thread[t].job = "server" /\ thread' = [thread EXCEPT ![t] = Idle]
         /\ loops' = IF thread[t].on = None THEN started
                     ELSE [started EXCEPT ![thread[t].on] = @ + 1]
      \/ thread[t].job # "server" /\ Goto(t, "send") /\ loops' = started
  OBVIOUS
<1> HIDE DEF started
<1>r. ASSUME loops' \in [1..n -> Nat], thread' \in [Threads -> ThreadRecord],
                \A u \in Threads :
                  /\ thread'[u].sender \in Numbers(senders)'
                  /\ thread'[u].on \in Numbers(receivers)'
                  /\ Named(u)'
         PROVE  IInv'
  <2>1. TypeOK'
    <3>1. table' \in [socket : Nat, sender : Nat, receiver : Nat] /\ table'.receiver = n
          /\ table'.socket = table.socket /\ table'.sender = table.sender
      BY <1>6 DEF TypeOK
    <3>2. mishaps' \subseteq {"overwritten", "late"}
      BY DEF TypeOK, Late
    <3> QED BY <1>3, <1>6, <1>r, <3>1, <3>2 DEF TypeOK, ThreadRecord, Numbers, Named
  <2>2. FirstInUse' /\ FirstIsClosed' /\ KeepAliveHasReason'
    BY <1>1 DEF FirstInUse, FirstIsClosed, KeepAliveHasReason, Closing
  <2> QED BY <2>1, <2>2
<1>7. CASE thread[t].job = "server" /\ thread' = [thread EXCEPT ![t] = Idle]
           /\ loops' = IF thread[t].on = None THEN started
                       ELSE [started EXCEPT ![thread[t].on] = @ + 1]
  <2>1. loops' \in [1..n -> Nat]
    <3>1. thread[t].on \in {None} \cup 1..n
      BY <1>3, <1>6, Lists DEF Numbers
    <3> QED BY <1>5, <1>7, <3>1
  <2>2. IsNow(t, "none", None, "idle", None, None, None) /\ thread'[t] = Idle
    BY <1>7, IdleFrame
  <2>3. None \in Numbers(receivers)' /\ None \in Numbers(senders)' /\ None <= sockets'
    BY DEF Numbers, None, TypeOK
  <2>4. Grows
    BY <1>3, Lists DEF TypeOK, Grows
  <2>5. /\ thread' \in [Threads -> ThreadRecord]
        /\ \A u \in Threads :
             /\ thread'[u].sender \in Numbers(senders)'
             /\ thread'[u].on \in Numbers(receivers)'
             /\ Named(u)'
    BY <1>3, <2>2, <2>3, <2>4, ThreadsTyped
  <2> QED BY <2>1, <2>5, <1>r
<1>8. CASE thread[t].job # "server" /\ Goto(t, "send") /\ loops' = started
  <2>1. IsNow(t, thread[t].job, thread[t].peer, "send", thread[t].on, thread[t].socket, thread[t].sender)
    BY <1>8, GotoFrame DEF Steps
  <2>2. thread[t].on \in Numbers(receivers)' /\ thread[t].sender \in Numbers(senders)'
    BY <1>6, Lists DEF Numbers
  <2>3. thread[t].job \in Jobs /\ thread[t].peer \in Peers /\ thread[t].sender # None
        /\ thread[t].socket <= sockets'
    BY <1>8 DEF TypeOK, At
  <2>4. Grows
    BY <1>3, Lists DEF TypeOK, Grows
  <2>5. /\ thread' \in [Threads -> ThreadRecord]
        /\ \A u \in Threads :
             /\ thread'[u].sender \in Numbers(senders)'
             /\ thread'[u].on \in Numbers(receivers)'
             /\ Named(u)'
    BY <1>3, <2>1, <2>2, <2>3, <2>4, ThreadsTyped
  <2> QED BY <1>5, <2>5, <1>r, <1>8
<1> QED BY <1>s, <1>7, <1>8

LEMMA CloseBeginsInv == ASSUME IInv, CloseBegins PROVE IInv'
<1> USE DEF IInv, CloseBegins
<1>1. closing = "no" /\ closing' = "receivers"
  BY DEF CloseAt, CloseSteps
<1>2. TypeOK'
  BY <1>1, Closings DEF TypeOK, Numbers, At
<1>3. FirstInUse'
  BY <1>1 DEF FirstInUse, Closing
<1>4. FirstIsClosed'
  BY <1>1 DEF FirstIsClosed, BeforeClosed, At
<1>5. KeepAliveHasReason'
  BY <1>1 DEF KeepAliveHasReason, At
<1> QED BY <1>2, <1>3, <1>4, <1>5

LEMMA StopListeningInv == ASSUME IInv, StopListening PROVE IInv'
<1> USE DEF IInv, StopListening
<1>1. closing = "receivers" /\ closing' = "senders"
  BY DEF CloseAt, CloseSteps
<1>a. /\ receivers' \in Seq([socket : Nat, listening : BOOLEAN])
      /\ DOMAIN receivers' = DOMAIN receivers
  <2>1. CASE table.receiver = None
    BY <2>1 DEF TypeOK
  <2>2. CASE table.receiver # None
    <3> DEFINE new == [receivers[table.receiver] EXCEPT !.listening = FALSE]
    <3>1. receivers \in Seq([socket : Nat, listening : BOOLEAN])
          /\ table.receiver \in 1..Len(receivers) /\ DOMAIN receivers = 1..Len(receivers)
      BY <2>2, Lists DEF TypeOK, Numbers
    <3>2. receivers[table.receiver] \in [socket : Nat, listening : BOOLEAN]
      BY <3>1, ElementOfSeq
    <3>3. new \in [socket : Nat, listening : BOOLEAN]
      BY <3>2
    <3>4. receivers' = [receivers EXCEPT ![table.receiver] = new]
      BY <2>2
    <3> HIDE DEF new
    <3>a. ASSUME NEW S, receivers \in Seq(S), new \in S
          PROVE  [receivers EXCEPT ![table.receiver] = new] \in Seq(S)
      BY <3>1, <3>a, ExceptSeq
    <3>5. receivers' \in Seq([socket : Nat, listening : BOOLEAN])
      BY <3>1, <3>3, <3>4, <3>a
    <3> QED BY <3>4, <3>5
  <2> QED BY <2>1, <2>2
<1>2. TypeOK'
  BY <1>1, <1>a, Closings DEF TypeOK, Numbers, At
<1>3. FirstInUse'
  BY <1>1 DEF FirstInUse, Closing
<1>4. FirstIsClosed'
  BY <1>1 DEF FirstIsClosed, BeforeClosed, At
<1>5. KeepAliveHasReason'
  BY <1>1 DEF KeepAliveHasReason, At
<1> QED BY <1>2, <1>3, <1>4, <1>5

LEMMA StopKeepAlivesInv == ASSUME IInv, StopKeepAlives PROVE IInv'
<1> USE DEF IInv, StopKeepAlives
<1>1. closing = "senders" /\ closing' = "sockets"
  BY DEF CloseAt, CloseSteps
<1>a. /\ senders' \in Seq([to : Peers, socket : Nat, keepAlive : BOOLEAN])
      /\ DOMAIN senders' = DOMAIN senders
      /\ \A s \in DOMAIN senders \ {table.sender} : senders'[s] = senders[s]
      /\ table.sender \in DOMAIN senders => ~senders'[table.sender].keepAlive
  <2>1. CASE table.sender = None
    BY <2>1, Lists DEF TypeOK
  <2>2. CASE table.sender # None
    <3> DEFINE new == [senders[table.sender] EXCEPT !.keepAlive = FALSE]
    <3>1. senders \in Seq([to : Peers, socket : Nat, keepAlive : BOOLEAN])
          /\ table.sender \in 1..Len(senders) /\ DOMAIN senders = 1..Len(senders)
      BY <2>2, Lists DEF TypeOK, Numbers
    <3>2. senders[table.sender] \in [to : Peers, socket : Nat, keepAlive : BOOLEAN]
      BY <3>1, ElementOfSeq
    <3>3. new \in [to : Peers, socket : Nat, keepAlive : BOOLEAN] /\ ~new.keepAlive
      BY <3>2
    <3>4. senders' = [senders EXCEPT ![table.sender] = new]
      BY <2>2
    <3> HIDE DEF new
    <3>a. ASSUME NEW S, senders \in Seq(S), new \in S
          PROVE  [senders EXCEPT ![table.sender] = new] \in Seq(S)
      BY <3>1, <3>a, ExceptSeq
    <3>5. senders' \in Seq([to : Peers, socket : Nat, keepAlive : BOOLEAN])
      BY <3>1, <3>3, <3>4, <3>a
    <3> QED BY <3>1, <3>3, <3>4, <3>5
  <2> QED BY <2>1, <2>2
<1>2. TypeOK'
  BY <1>1, <1>a, Closings DEF TypeOK, Numbers, At
<1>3. FirstInUse'
  BY <1>1 DEF FirstInUse, Closing
<1>4. FirstIsClosed'
  BY <1>1 DEF FirstIsClosed, BeforeClosed, At
<1>5. KeepAliveHasReason'
  BY <1>1, <1>a DEF KeepAliveHasReason, At
<1> QED BY <1>2, <1>3, <1>4, <1>5

LEMMA CloseSocketsInv == ASSUME IInv, CloseSockets PROVE IInv'
<1> USE DEF IInv, CloseSockets
<1>1. closing = "sockets" /\ closing' = "clearSockets"
  BY DEF CloseAt, CloseSteps
<1>2. TypeOK'
  BY <1>1, Closings DEF TypeOK, Numbers, At, None
<1>3. FirstInUse'
  BY <1>1 DEF FirstInUse, Closing
<1>4. FirstIsClosed'
  BY <1>1 DEF FirstIsClosed, BeforeClosed, At, None
<1>5. KeepAliveHasReason'
  BY <1>1 DEF KeepAliveHasReason, At
<1> QED BY <1>2, <1>3, <1>4, <1>5

LEMMA ClearTablesInv == ASSUME IInv, ClearTables PROVE IInv'
<1> USE DEF IInv, ClearTables
<1>1. /\ closing \in {"clearSockets", "clearReceivers", "clearSenders"}
      /\ closing' \in {"clearReceivers", "clearSenders", "closed"}
  BY DEF CloseAt, CloseSteps
<1>a. \/ table' = [table EXCEPT !.socket = None]
      \/ table' = [table EXCEPT !.receiver = None]
      \/ table' = [table EXCEPT !.sender = None]
  OBVIOUS
<1>2. TypeOK'
  <2>a. /\ table \in [socket : Nat, sender : Nat, receiver : Nat] /\ sockets \in Nat
        /\ table.socket <= sockets /\ table.sender \in Numbers(senders)
        /\ table.receiver \in Numbers(receivers)
        /\ None \in Nat /\ None \in Numbers(senders) /\ None \in Numbers(receivers)
        /\ None <= sockets
    BY DEF TypeOK, Numbers, None
  <2>1. /\ table' \in [socket : Nat, sender : Nat, receiver : Nat]
        /\ table'.socket <= sockets /\ table'.sender \in Numbers(senders)
        /\ table'.receiver \in Numbers(receivers)
    <3>1. CASE table' = [table EXCEPT !.socket = None]
      BY <2>a, <3>1
    <3>2. CASE table' = [table EXCEPT !.receiver = None]
      BY <2>a, <3>2
    <3>3. CASE table' = [table EXCEPT !.sender = None]
      BY <2>a, <3>3
    <3> QED BY <1>a, <3>1, <3>2, <3>3
  <2>2. closing' \in ToSet(CloseSteps)
    BY <1>1, Closings
  <2> QED BY <2>1, <2>2 DEF TypeOK, Numbers, At
<1>3. FirstInUse'
  BY <1>1 DEF FirstInUse, Closing
<1>4. FirstIsClosed'
  BY <1>1 DEF FirstIsClosed, BeforeClosed, At
<1>5. KeepAliveHasReason'
  BY <1>1 DEF KeepAliveHasReason, At
<1> QED BY <1>2, <1>3, <1>4, <1>5

LEMMA NextInv == ASSUME IInv, [Next]_vars PROVE IInv'
<1>1. CASE Next
  <2>1. CASE \E t \in Threads, p \in Peers, job \in Jobs :
               \/ Begin(t, job, p)
               \/ \E r \in DOMAIN receivers : Receive(t, r, job, p)
    BY <2>1, BeginInv, ReceiveInv
  <2>2. CASE \E t \in Threads : Work(t)
    BY <2>2, LookupSenderInv, LookupEchoInv, LookupServerInv, LookupSocketInv, BindInv,
       BindFailsInv, PutSocketInv, NewSenderInv, PutSenderInv, LookupReceiverInv,
       NewReceiverInv, SendInv, HandlerThrowsInv, ReturnAtOnceInv DEF Work
  <2>3. CASE \E r \in DOMAIN receivers : LoopEnds(r)
    BY <2>3, LoopEndsInv
  <2>4. CASE CloseBegins \/ Close
    BY <2>4, CloseBeginsInv, StopListeningInv, StopKeepAlivesInv, CloseSocketsInv,
       ClearTablesInv DEF Close
  <2> QED BY <1>1, <2>1, <2>2, <2>3, <2>4 DEF Next
<1>2. CASE UNCHANGED vars
  <2> USE <1>2 DEF vars, IInv
  <2>1. TypeOK'
    BY DEF TypeOK, At, Numbers
  <2>2. FirstInUse'
    BY DEF FirstInUse, OneThread, HandledBy, Closing, At
  <2>3. FirstIsClosed'
    BY DEF FirstIsClosed, BeforeClosed, At
  <2>4. KeepAliveHasReason'
    BY DEF KeepAliveHasReason, At
  <2> QED BY <2>1, <2>2, <2>3, <2>4
<1> QED BY <1>1, <1>2

THEOREM Invariant == Spec => []IInv
BY InitInv, NextInv, PTL DEF Spec

(* The tables and the threads name objects that exist.                     *)
THEOREM TypeCorrect == Spec => []TypeOK
<1>1. IInv => TypeOK
  BY DEF IInv
<1> QED BY <1>1, Invariant, PTL

(* Until it is closed, the agent sends with the socket it hears, and one   *)
(* thread, never two, receives and handles what arrives there, until a     *)
(* handler's exception ends it (MessageReceiver.run).                      *)
THEOREM OneThreadUntilClosed == Spec => []OneThreadHears
<1>1. IInv => OneThreadHears
  <2> SUFFICES ASSUME IInv, ~Closing PROVE OneThreadHears
    BY DEF OneThreadHears
  <2>1. DOMAIN receivers = {1}
    BY OneReceiver
  <2>2. table.sender # None => table.sender \in DOMAIN senders
    BY DEF IInv, TypeOK, Numbers
  <2>3. receivers[1] = [socket |-> 1, listening |-> TRUE]
    <3>a. receivers \in Seq([socket : Nat, listening : BOOLEAN]) /\ 1 \in 1..Len(receivers)
      BY <2>1, Lists DEF IInv, TypeOK
    <3>1. receivers[1] \in [socket : Nat, listening : BOOLEAN]
      BY <3>a, ElementOfSeq
    <3>2. receivers[1].socket = 1 /\ receivers[1].listening = TRUE
      BY <3>1 DEF IInv, FirstInUse
    <3> QED BY <3>1, <3>2
  <2>4. /\ open = 1 /\ table.socket = 1 /\ table.receiver = 1 /\ OneThread(1)
        /\ \A s \in DOMAIN senders : senders[s].socket = 1
    BY DEF IInv, FirstInUse
  <2>5. OneThread(table.receiver)
    BY <2>4 DEF OneThread
  <2> QED BY <2>1, <2>2, <2>3, <2>4, <2>5 DEF OneThreadHears, None
<1> QED BY <1>1, Invariant, PTL

(* Only what replaced another sender, or came after closeTransports began, *)
(* keeps its timer.                                                        *)
THEOREM KeepAliveExplained == Spec => []KeepAliveHasReason
<1>1. IInv => KeepAliveHasReason
  BY DEF IInv
<1> QED BY <1>1, Invariant, PTL

(* A closing that nothing interfered with leaves nothing behind.           *)
THEOREM ClosedForGood == Spec => []CloseIsFinal
<1>1. IInv => CloseIsFinal
  <2> SUFFICES ASSUME IInv, Closed, "late" \notin mishaps PROVE CloseIsFinal
    BY DEF CloseIsFinal
  <2>1. open = None /\ \A t \in Threads : ~At(t, "dead")
    BY DEF IInv, FirstIsClosed, BeforeClosed, Closed
  <2>2. "overwritten" \in mishaps \/ mishaps = {}
    BY DEF IInv, TypeOK
  <2>3. closing \notin {"no", "receivers", "senders"}
    BY DEF Closed
  <2> QED BY <2>1, <2>2, <2>3 DEF IInv, KeepAliveHasReason, CloseIsFinal
<1> QED BY <1>1, Invariant, PTL
=============================================================================
