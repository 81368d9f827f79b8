----------------------------- MODULE Media_proofs -----------------------------
(***************************************************************************)
(* Theorems about the media manager, for every set of sessions, sockets    *)
(* and application threads and every number of stops: what its threads     *)
(* leave in the fields, the senders and the sockets when they are done.    *)
(* And about the three threads of a sender, for every size of the pipes, of*)
(* the source's data and of the packets: the pipes keep their bounds, and  *)
(* no thread outlives the other end of its pipe.                           *)
(*                                                                         *)
(* MInv says that one thread at a time is between the first and the last   *)
(* step of start and stopSession, and what the fields hold at each of these*)
(* steps.  Overlaps and the other mishaps end what it promises: each part  *)
(* names those that it excludes.                                           *)
(***************************************************************************)
EXTENDS MediaSession, CapturePipeline, TLAPS

Occupied == Starting \cup Stopping
Ending == {"wait", "forget", "unread", "capture", "halt", "drop"}

(* A socket that a field or a session holds was created; a session that a  *)
(* frame is about exists; only the receiver thread starts sessions.        *)
Made ==
    /\ datagramSocket # None => socket[datagramSocket] # "none"
    /\ \A s \in Sessions : session[s] # None /\ session[s].socket # None => socket[session[s].socket] # "none"
    /\ \A t \in Threads :
          /\ thread[t].step \in Starting => t = Receiver
          /\ thread[t].on # None => session[thread[t].on] # None

(* One socket is open at a time, that of the field.                        *)
Held == Without({"dropped"}) => \A k \in Sockets : socket[k] = "open" => datagramSocket = k

(* One thread is in the media manager at a time.                           *)
Solo ==
    Without({"overlap"}) =>
        \A t, u \in Threads : thread[t].step \in Occupied /\ thread[u].step \in Occupied => t = u

(* What a thread may die of without another one.                           *)
Struck == ~Without({"lateUpdate", "noPort"})

(* The fields that the thread in the media manager will use are set.       *)
Whole ==
    Without({"overlap"}) =>
        \A t \in Threads :
            /\ thread[t].step \in {"remote", "sender", "start", "reader", "submit"} =>
                  rtpSession = thread[t].on /\ session[thread[t].on].executor = "running"
            /\ thread[t].step \in {"start", "reader", "submit"} =>
                  captureRtpSender = thread[t].on /\ ~thread[t].bare
            /\ At(t, "submit") => incomingRtpReader = thread[t].on
            /\ thread[t].step \in {"stop", "wait", "forget"} => rtpSession # None
            /\ At(t, "capture") => captureRtpSender # None
            /\ At(t, "dead") => Struck

(* How far start and stopSession have come, by the fields and the senders. *)
Ordered ==
    Without({"overlap", "superseded"}) =>
        /\ Busy(Occupied) = {} => rtpSession = captureRtpSender
        /\ \A t \in Threads :
              /\ At(t, "session") => rtpSession = None
              /\ thread[t].step \in {"session", "remote", "sender", "drop"} => captureRtpSender = None
              /\ thread[t].step \in {"stop", "wait", "forget"} => rtpSession = captureRtpSender
              /\ thread[t].step \in {"unread", "capture", "halt", "drop"} => rtpSession = None
        /\ \A s \in Sessions :
              capture[s] = "running" => captureRtpSender = s /\ Busy({"start", "halt"}) = {}

(* The socket of the field is closed by the session that ends, and the     *)
(* socket of a session that was shut down is closed or waited for.         *)
Closing ==
    Without({"overlap", "superseded"}) =>
        /\ datagramSocket # None /\ socket[datagramSocket] = "closed" => Busy(Ending) # {}
        /\ \A s \in Sessions :
              session[s] # None /\ session[s].executor = "shutdown" =>
                  IsSocketClosed(s) \/ (rtpSession = s /\ Busy({"wait"}) # {})

MInv == TypeOK /\ Made /\ Held /\ Solo /\ Whole /\ Ordered /\ Closing

LEMMA MediaFacts ==
    /\ Receiver \in Threads
    /\ None \notin Sockets /\ None \notin Sessions /\ None \notin Session
BY MediaAssumption DEF Threads

LEMMA MediaIdle == Idle \in Frame /\ Idle.step = "idle" /\ Idle.on = None
BY DEF Idle, Frame

LEMMA MediaGoto ==
    ASSUME TypeOK, NEW t \in Threads, NEW f \in Frame, Goto(t, f)
    PROVE  /\ thread' \in [Threads -> Frame]
           /\ thread'[t] = f
           /\ \A u \in Threads \ {t} : thread'[u] = thread[u]
BY DEF Goto, TypeOK

LEMMA MediaAdvance ==
    ASSUME TypeOK, NEW t \in Threads, NEW s \in {"idle", "dead"} \cup Occupied, Advance(t, s)
    PROVE  /\ thread' \in [Threads -> Frame]
           /\ thread'[t].step = s
           /\ thread'[t].by = thread[t].by /\ thread'[t].on = thread[t].on /\ thread'[t].bare = thread[t].bare
           /\ \A u \in Threads \ {t} : thread'[u] = thread[u]
<1>1. thread[t] \in Frame
  BY DEF TypeOK
<1>2. /\ [thread[t] EXCEPT !.step = s] \in Frame
      /\ [thread[t] EXCEPT !.step = s].step = s
      /\ [thread[t] EXCEPT !.step = s].by = thread[t].by
      /\ [thread[t] EXCEPT !.step = s].on = thread[t].on
      /\ [thread[t] EXCEPT !.step = s].bare = thread[t].bare
  BY <1>1 DEF Frame, Occupied
<1> QED BY <1>1, <1>2, MediaGoto DEF Advance

LEMMA Fewer ==
    ASSUME mishaps \subseteq mishaps', NEW ms, Without(ms)'
    PROVE  Without(ms)
BY DEF Without

LEMMA WithoutBoth == Without({"overlap", "superseded"}) => Without({"overlap"}) /\ Without({"superseded"})
BY DEF Without

(* A thread in the media manager is alone there, and what it does tells    *)
(* nothing of the others.                                                  *)
LEMMA Others ==
    ASSUME MInv, NEW t \in Threads, thread[t].step \in Occupied, Without({"overlap"})
    PROVE  \A u \in Threads \ {t} : thread[u].step \in {"idle", "dead"}
BY DEF MInv, Solo, TypeOK, Frame, Occupied

LEMMA SoloKept ==
    ASSUME MInv, NEW t \in Threads, thread[t].step \in Occupied, mishaps \subseteq mishaps',
           \A u \in Threads \ {t} : thread'[u] = thread[u]
    PROVE  Solo'
<1> SUFFICES ASSUME Without({"overlap"})' PROVE \A u, v \in Threads :
               thread'[u].step \in Occupied /\ thread'[v].step \in Occupied => u = v
  BY DEF Solo
<1>1. Without({"overlap"})
  BY Fewer
<1>2. \A u \in Threads \ {t} : thread[u].step \in {"idle", "dead"}
  BY <1>1, Others
<1>3. "idle" \notin Occupied /\ "dead" \notin Occupied
  BY DEF Occupied, Starting, Stopping
<1> QED BY <1>2, <1>3

(* What the invariant says of the thread that is in the media manager is   *)
(* all that must be shown of a step of it.                                 *)
LEMMA WholeKept ==
    ASSUME MInv, NEW t \in Threads, thread[t].step \in Occupied, mishaps \subseteq mishaps',
           \A u \in Threads \ {t} : thread'[u] = thread[u],
           Without({"overlap"}) =>
            /\ thread'[t].step \in {"remote", "sender", "start", "reader", "submit"} =>
                  rtpSession' = thread'[t].on /\ session'[thread'[t].on].executor = "running"
            /\ thread'[t].step \in {"start", "reader", "submit"} =>
                  captureRtpSender' = thread'[t].on /\ ~thread'[t].bare
            /\ thread'[t].step = "submit" => incomingRtpReader' = thread'[t].on
            /\ thread'[t].step \in {"stop", "wait", "forget"} => rtpSession' # None
            /\ thread'[t].step = "capture" => captureRtpSender' # None
            /\ thread'[t].step = "dead" => Struck'
    PROVE  Whole'
<1> SUFFICES ASSUME Without({"overlap"})', NEW u \in Threads
             PROVE
            /\ thread'[u].step \in {"remote", "sender", "start", "reader", "submit"} =>
                  rtpSession' = thread'[u].on /\ session'[thread'[u].on].executor = "running"
            /\ thread'[u].step \in {"start", "reader", "submit"} =>
                  captureRtpSender' = thread'[u].on /\ ~thread'[u].bare
            /\ thread'[u].step = "submit" => incomingRtpReader' = thread'[u].on
            /\ thread'[u].step \in {"stop", "wait", "forget"} => rtpSession' # None
            /\ thread'[u].step = "capture" => captureRtpSender' # None
            /\ thread'[u].step = "dead" => Struck'
  BY DEF Whole, At
<1>1. Without({"overlap"})
  BY Fewer
<1>2. \A v \in Threads \ {t} : thread[v].step \in {"idle", "dead"}
  BY <1>1, Others
<1>3. CASE u = t
  BY <1>1, <1>3
<1>4. CASE u # t
  <2>1. thread[u].step = "dead" => Struck
    BY <1>1 DEF MInv, Whole, At
  <2>2. Struck => Struck'
    BY DEF Struck, Without
  <2> QED BY <1>2, <1>4, <2>1, <2>2
<1> QED BY <1>3, <1>4

LEMMA OrderedKept ==
    ASSUME MInv, NEW t \in Threads, thread[t].step \in Occupied, mishaps \subseteq mishaps',
           thread'[t].step \in {"idle", "dead"} \cup Occupied,
           \A u \in Threads \ {t} : thread'[u] = thread[u],
           Without({"overlap"}) /\ Without({"superseded"}) =>
              /\ thread'[t].step \notin Occupied => rtpSession' = captureRtpSender'
              /\ thread'[t].step = "session" => rtpSession' = None
              /\ thread'[t].step \in {"session", "remote", "sender", "drop"} => captureRtpSender' = None
              /\ thread'[t].step \in {"stop", "wait", "forget"} => rtpSession' = captureRtpSender'
              /\ thread'[t].step \in {"unread", "capture", "halt", "drop"} => rtpSession' = None
              /\ \A s \in Sessions :
                   capture'[s] = "running" => captureRtpSender' = s /\ thread'[t].step \notin {"start", "halt"}
    PROVE  Ordered'
<1> SUFFICES ASSUME Without({"overlap", "superseded"})'
             PROVE
        /\ (\A v \in Threads : thread'[v].step \notin Occupied) => rtpSession' = captureRtpSender'
        /\ \A u \in Threads :
              /\ thread'[u].step = "session" => rtpSession' = None
              /\ thread'[u].step \in {"session", "remote", "sender", "drop"} => captureRtpSender' = None
              /\ thread'[u].step \in {"stop", "wait", "forget"} => rtpSession' = captureRtpSender'
              /\ thread'[u].step \in {"unread", "capture", "halt", "drop"} => rtpSession' = None
        /\ \A s \in Sessions :
              capture'[s] = "running" =>
                captureRtpSender' = s /\ \A u \in Threads : thread'[u].step \notin {"start", "halt"}
  BY DEF Ordered, At, Busy
<1>1. Without({"overlap"}) /\ Without({"superseded"})
  BY Fewer, WithoutBoth
<1>2. \A v \in Threads \ {t} : thread[v].step \in {"idle", "dead"}
  BY <1>1, Others
<1> QED BY <1>1, <1>2

LEMMA ClosingKept ==
    ASSUME MInv, NEW t \in Threads, thread[t].step \in Occupied, mishaps \subseteq mishaps',
           \A u \in Threads \ {t} : thread'[u] = thread[u],
           Without({"overlap"}) /\ Without({"superseded"}) =>
              /\ datagramSocket' # None /\ socket'[datagramSocket'] = "closed" => thread'[t].step \in Ending
              /\ \A s \in Sessions :
                    session'[s] # None /\ session'[s].executor = "shutdown" =>
                        IsSocketClosed(s)' \/ (rtpSession' = s /\ thread'[t].step = "wait")
    PROVE  Closing'
<1> SUFFICES ASSUME Without({"overlap", "superseded"})'
             PROVE
              /\ datagramSocket' # None /\ socket'[datagramSocket'] = "closed" =>
                    \E u \in Threads : thread'[u].step \in Ending
              /\ \A s \in Sessions :
                    session'[s] # None /\ session'[s].executor = "shutdown" =>
                        IsSocketClosed(s)' \/ (rtpSession' = s /\ \E u \in Threads : thread'[u].step = "wait")
  BY DEF Closing, Busy
<1>1. Without({"overlap"}) /\ Without({"superseded"})
  BY Fewer, WithoutBoth
<1> QED BY <1>1

(* What Ordered and Closing say when the thread t is in the media manager. *)
LEMMA Now ==
    ASSUME MInv, NEW t \in Threads, thread[t].step \in Occupied, Without({"overlap"}), Without({"superseded"})
    PROVE  /\ datagramSocket # None /\ socket[datagramSocket] = "closed" => thread[t].step \in Ending
           /\ \A s \in Sessions :
                 session[s] # None /\ session[s].executor = "shutdown" =>
                     IsSocketClosed(s) \/ (rtpSession = s /\ thread[t].step = "wait")
           /\ thread[t].step = "session" => rtpSession = None
           /\ thread[t].step \in {"session", "remote", "sender", "drop"} => captureRtpSender = None
           /\ thread[t].step \in {"stop", "wait", "forget"} => rtpSession = captureRtpSender
           /\ thread[t].step \in {"unread", "capture", "halt", "drop"} => rtpSession = None
           /\ \A s \in Sessions :
                 capture[s] = "running" => captureRtpSender = s /\ thread[t].step \notin {"start", "halt"}
<1>1. Without({"overlap", "superseded"})
  BY DEF Without
<1>2. \A u \in Threads \ {t} : thread[u].step \in {"idle", "dead"}
  BY Others
<1>3. /\ Busy(Ending) # {} => thread[t].step \in Ending
      /\ Busy({"wait"}) # {} => thread[t].step = "wait"
      /\ Busy({"start", "halt"}) = {} => thread[t].step \notin {"start", "halt"}
  BY <1>2 DEF Busy, Ending
<1>4. /\ datagramSocket # None /\ socket[datagramSocket] = "closed" => Busy(Ending) # {}
      /\ \A s \in Sessions :
            session[s] # None /\ session[s].executor = "shutdown" =>
               IsSocketClosed(s) \/ (rtpSession = s /\ Busy({"wait"}) # {})
  BY <1>1 DEF MInv, Closing
<1>5. /\ \A u \in Threads :
              /\ At(u, "session") => rtpSession = None
              /\ thread[u].step \in {"session", "remote", "sender", "drop"} => captureRtpSender = None
              /\ thread[u].step \in {"stop", "wait", "forget"} => rtpSession = captureRtpSender
              /\ thread[u].step \in {"unread", "capture", "halt", "drop"} => rtpSession = None
      /\ \A s \in Sessions :
              capture[s] = "running" => captureRtpSender = s /\ Busy({"start", "halt"}) = {}
  BY <1>1 DEF MInv, Ordered
<1> QED BY <1>3, <1>4, <1>5 DEF At

LEMMA NowWhole ==
    ASSUME MInv, NEW t \in Threads, Without({"overlap"})
    PROVE   /\ thread[t].step \in {"remote", "sender", "start", "reader", "submit"} =>
                  rtpSession = thread[t].on /\ session[thread[t].on].executor = "running"
            /\ thread[t].step \in {"start", "reader", "submit"} =>
                  captureRtpSender = thread[t].on /\ ~thread[t].bare
            /\ thread[t].step = "submit" => incomingRtpReader = thread[t].on
            /\ thread[t].step \in {"stop", "wait", "forget"} => rtpSession # None
            /\ thread[t].step = "capture" => captureRtpSender # None
            /\ thread[t].step = "dead" => Struck
BY DEF MInv, Whole, At

-----------------------------------------------------------------------------
LEMMA StepIn ==
    /\ Starting \subseteq Occupied /\ Stopping \subseteq Occupied /\ Ending \subseteq Occupied
    /\ "idle" \notin Occupied /\ "dead" \notin Occupied
    /\ Starting = {"session", "remote", "sender", "start", "reader", "submit"}
    /\ Stopping = {"stop", "wait", "forget", "unread", "capture", "halt", "drop"}
BY DEF Occupied, Starting, Stopping, Ending

(* A thread goes on in the media manager, and no field, socket or session  *)
(* changes but those that are named.                                       *)
LEMMA SetRemoteMedia == ASSUME MInv, SetRemote PROVE MInv'
<1>1. /\ At(Receiver, "remote")
      /\ Advance(Receiver, IF rtpSession = None THEN "dead" ELSE "sender")
      /\ UNCHANGED <<fields, socket, session, capture, stops, mishaps>>
  BY DEF SetRemote
<1>2. Receiver \in Threads /\ thread[Receiver].step = "remote" /\ "remote" \in Occupied
  BY <1>1, MediaFacts, StepIn DEF At
<1>3. /\ thread' \in [Threads -> Frame]
      /\ thread'[Receiver].step = IF rtpSession = None THEN "dead" ELSE "sender"
      /\ thread'[Receiver].by = thread[Receiver].by /\ thread'[Receiver].on = thread[Receiver].on
      /\ thread'[Receiver].bare = thread[Receiver].bare
      /\ \A u \in Threads \ {Receiver} : thread'[u] = thread[u]
  BY <1>1, <1>2, MediaAdvance, StepIn DEF MInv
<1> USE <1>1, <1>2, <1>3 DEF fields
<1>4. TypeOK'
  BY StepIn DEF MInv, TypeOK
<1>5. Made' /\ Held'
  BY StepIn DEF MInv, Made, Held, Without
<1>6. Solo'
  BY SoloKept
<1>7. ASSUME Without({"overlap"})
      PROVE  rtpSession = thread[Receiver].on /\ rtpSession # None /\ session[rtpSession].executor = "running"
  <2>1. rtpSession = thread[Receiver].on /\ session[rtpSession].executor = "running"
    BY <1>7, NowWhole
  <2>2. thread[Receiver].on # None
    BY StepIn DEF MInv, TypeOK
  <2> QED BY <2>1, <2>2
<1>8. Whole'
  BY <1>7, WholeKept
<1>9. ASSUME Without({"overlap"}), Without({"superseded"})
       PROVE  captureRtpSender = None /\ \A s \in Sessions : capture[s] # "running"
  BY <1>9, Now, MediaFacts
<1>10. Ordered'
  BY <1>7, <1>9, OrderedKept, StepIn
<1>11. Closing'
  BY Now, ClosingKept DEF Ending, IsSocketClosed
<1> QED BY <1>4, <1>5, <1>6, <1>8, <1>10, <1>11 DEF MInv

LEMMA NewSessionMedia == ASSUME MInv, NEW s \in Sessions, NewSession(s) PROVE MInv'
<1> DEFINE r == [socket |-> datagramSocket, executor |-> "running", task |-> "none"]
           f == [thread[Receiver] EXCEPT !.step = "remote", !.on = s]
<1>1. /\ At(Receiver, "session")
      /\ session[s] = None
      /\ session' = [session EXCEPT ![s] = r]
      /\ rtpSession' = s
      /\ Goto(Receiver, f)
      /\ UNCHANGED <<datagramSocket, captureRtpSender, incomingRtpReader, socket, capture, stops, mishaps>>
  BY DEF NewSession
<1>2. Receiver \in Threads /\ thread[Receiver].step = "session" /\ "session" \in Occupied
  BY <1>1, MediaFacts, StepIn DEF At
<1>3. r \in Session /\ r # None /\ r.executor = "running" /\ r.socket = datagramSocket
  BY MediaFacts DEF Session, MInv, TypeOK
<1>4. f \in Frame /\ f.step = "remote" /\ f.on = s
  BY <1>2 DEF MInv, TypeOK, Frame, Starting
<1> HIDE DEF r, f
<1>5. /\ thread' \in [Threads -> Frame]
      /\ thread'[Receiver].step = "remote" /\ thread'[Receiver].on = s
      /\ \A u \in Threads \ {Receiver} : thread'[u] = thread[u]
  BY <1>1, <1>2, <1>4, MediaGoto DEF MInv
<1>6. /\ session' \in [Sessions -> Session \cup {None}]
      /\ session'[s] = r
      /\ \A x \in Sessions \ {s} : session'[x] = session[x]
  BY <1>1, <1>3 DEF MInv, TypeOK
<1> USE <1>1, <1>2, <1>3, <1>5, <1>6, MediaFacts
<1>7. TypeOK'
  <2>1. \A x \in Sessions : session[x] # None => session'[x] # None
    OBVIOUS
  <2>2. \A x \in {rtpSession', captureRtpSender', incomingRtpReader'} \ {None} : session'[x] # None
    BY <2>1 DEF MInv, TypeOK
  <2> QED BY <2>2, StepIn DEF MInv, TypeOK
<1>8. Made'
  <2>1. \A x \in Sessions : session'[x] # None /\ session'[x].socket # None => socket[session'[x].socket] # "none"
    BY DEF MInv, Made
  <2>2. \A x \in Sessions : session[x] # None => session'[x] # None
    OBVIOUS
  <2>3. \A u \in Threads : thread'[u].on # None => session'[thread'[u].on] # None
    BY <2>2 DEF MInv, Made, TypeOK, Frame
  <2> QED BY <2>1, <2>3, StepIn DEF MInv, Made
<1>9. Held'
  BY DEF MInv, Held, Without
<1>10. Solo'
  BY SoloKept
<1>11. Whole'
  BY WholeKept
<1>12. ASSUME Without({"overlap"}), Without({"superseded"})
       PROVE  captureRtpSender = None /\ \A x \in Sessions : capture[x] # "running"
  BY <1>12, Now
<1>13. Ordered'
  BY <1>12, OrderedKept, StepIn
<1>14. ASSUME Without({"overlap"}), Without({"superseded"})
       PROVE  /\ datagramSocket # None => socket[datagramSocket] # "closed"
              /\ \A x \in Sessions : session'[x] # None /\ session'[x].executor = "shutdown" => IsSocketClosed(x)'
  <2>1. /\ datagramSocket # None => socket[datagramSocket] # "closed"
        /\ \A x \in Sessions : session[x] # None /\ session[x].executor = "shutdown" => IsSocketClosed(x)
    BY <1>14, Now DEF Ending
  <2> QED BY <2>1 DEF IsSocketClosed
<1>15. Closing'
  BY <1>14, ClosingKept
<1> QED BY <1>7, <1>8, <1>9, <1>10, <1>11, <1>13, <1>15 DEF MInv

LEMMA NewSenderMedia == ASSUME MInv, NewSender PROVE MInv'
<1> DEFINE f == [thread[Receiver] EXCEPT !.step = "start", !.bare = (rtpSession = None)]
<1>1. /\ At(Receiver, "sender")
      /\ captureRtpSender' = thread[Receiver].on
      /\ capture' = [capture EXCEPT ![thread[Receiver].on] = "created"]
      /\ Goto(Receiver, f)
      /\ UNCHANGED <<datagramSocket, rtpSession, incomingRtpReader, socket, session, stops, mishaps>>
  BY DEF NewSender
<1>2. Receiver \in Threads /\ thread[Receiver].step = "sender" /\ "sender" \in Occupied
  BY <1>1, MediaFacts, StepIn DEF At
<1>3. PICK o \in Sessions : o = thread[Receiver].on
  BY <1>2, StepIn DEF MInv, TypeOK, Frame
<1>4. f \in Frame /\ f.step = "start" /\ f.on = o /\ f.bare = (rtpSession = None)
  BY <1>2, <1>3 DEF MInv, TypeOK, Frame, Starting
<1> HIDE DEF f
<1>5. /\ thread' \in [Threads -> Frame]
      /\ thread'[Receiver].step = "start" /\ thread'[Receiver].on = o
      /\ thread'[Receiver].bare = (rtpSession = None)
      /\ \A u \in Threads \ {Receiver} : thread'[u] = thread[u]
  BY <1>1, <1>2, <1>4, MediaGoto DEF MInv
<1>6. /\ capture' \in [Sessions -> {"none", "created", "running", "stopped"}]
      /\ capture'[o] = "created"
      /\ \A x \in Sessions \ {o} : capture'[x] = capture[x]
      /\ session[o] # None
  BY <1>1, <1>2, <1>3, MediaFacts DEF MInv, TypeOK, Made
<1> USE <1>1, <1>2, <1>3, <1>5, <1>6, MediaFacts
<1>7. TypeOK'
  BY StepIn DEF MInv, TypeOK
<1>8. Made' /\ Held'
  BY StepIn DEF MInv, Made, Held, Without
<1>9. Solo'
  BY SoloKept
<1>10. ASSUME Without({"overlap"})
       PROVE  rtpSession = o /\ session[o].executor = "running" /\ ~thread'[Receiver].bare
  <2>1. rtpSession = o /\ session[o].executor = "running"
    BY <1>10, NowWhole
  <2> QED BY <2>1
<1>11. Whole'
  BY <1>10, WholeKept
<1>12. ASSUME Without({"overlap"}), Without({"superseded"})
       PROVE  \A x \in Sessions : capture'[x] # "running"
  <2>1. \A x \in Sessions : capture[x] # "running"
    BY <1>12, Now
  <2> QED BY <2>1
<1>13. Ordered'
  BY <1>12, OrderedKept, StepIn
<1>14. Closing'
  BY Now, ClosingKept DEF Ending, IsSocketClosed
<1> QED BY <1>7, <1>8, <1>9, <1>11, <1>13, <1>14 DEF MInv

LEMMA StartSenderMedia == ASSUME MInv, StartSender PROVE MInv'
<1>1. /\ At(Receiver, "start")
      /\ UNCHANGED <<fields, socket, session, stops, mishaps>>
  BY DEF StartSender
<1>2. Receiver \in Threads /\ thread[Receiver].step = "start" /\ "start" \in Occupied
  BY <1>1, MediaFacts, StepIn DEF At
<1>3. /\ thread' \in [Threads -> Frame]
      /\ thread'[Receiver].step = IF captureRtpSender = None THEN "dead" ELSE "reader"
      /\ thread'[Receiver].by = thread[Receiver].by /\ thread'[Receiver].on = thread[Receiver].on
      /\ thread'[Receiver].bare = thread[Receiver].bare
      /\ \A u \in Threads \ {Receiver} : thread'[u] = thread[u]
  <2>1. CASE captureRtpSender = None
    BY <2>1, <1>2, MediaAdvance DEF StartSender, MInv
  <2>2. CASE captureRtpSender # None
    BY <2>2, <1>2, MediaAdvance, StepIn DEF StartSender, MInv
  <2> QED BY <2>1, <2>2
<1>4. /\ capture' \in [Sessions -> {"none", "created", "running", "stopped"}]
      /\ \A x \in Sessions : x # captureRtpSender => capture'[x] = capture[x]
  BY DEF StartSender, MInv, TypeOK
<1> USE <1>1, <1>2, <1>3, <1>4, MediaFacts DEF fields
<1>5. TypeOK'
  BY StepIn DEF MInv, TypeOK
<1>6. Made' /\ Held'
  BY StepIn DEF MInv, Made, Held, Without
<1>7. Solo'
  BY SoloKept
<1>8. ASSUME Without({"overlap"})
      PROVE  /\ rtpSession = thread[Receiver].on /\ session[rtpSession].executor = "running"
             /\ captureRtpSender = thread[Receiver].on /\ ~thread[Receiver].bare /\ captureRtpSender # None
  <2>1. thread[Receiver].on # None
    BY StepIn DEF MInv, TypeOK
  <2> QED BY <2>1, <1>8, NowWhole
<1>9. Whole'
  BY <1>8, WholeKept
<1>10. ASSUME Without({"overlap"}), Without({"superseded"})
       PROVE  \A x \in Sessions : capture'[x] = "running" => x = captureRtpSender
  <2>1. \A x \in Sessions : capture[x] # "running"
    BY <1>10, Now
  <2> QED BY <2>1
<1>11. Ordered'
  BY <1>8, <1>10, OrderedKept, StepIn
<1>12. Closing'
  BY Now, ClosingKept DEF Ending, IsSocketClosed
<1> QED BY <1>5, <1>6, <1>7, <1>9, <1>11, <1>12 DEF MInv

LEMMA NewReaderMedia == ASSUME MInv, NewReader PROVE MInv'
<1> DEFINE missing == IF thread[Receiver].by = "ack" THEN rtpSession = None
                      ELSE captureRtpSender = None \/ thread[Receiver].bare
<1>1. /\ At(Receiver, "reader")
      /\ IF missing
           THEN Advance(Receiver, "dead") /\ UNCHANGED incomingRtpReader
           ELSE /\ incomingRtpReader' = thread[Receiver].on
                /\ Advance(Receiver, "submit")
      /\ UNCHANGED <<datagramSocket, rtpSession, captureRtpSender, socket, session, capture, stops, mishaps>>
  BY DEF NewReader
<1>2. Receiver \in Threads /\ thread[Receiver].step = "reader" /\ "reader" \in Occupied
  BY <1>1, MediaFacts, StepIn DEF At
<1>3. /\ thread' \in [Threads -> Frame]
      /\ thread'[Receiver].step = IF missing THEN "dead" ELSE "submit"
      /\ thread'[Receiver].by = thread[Receiver].by /\ thread'[Receiver].on = thread[Receiver].on
      /\ thread'[Receiver].bare = thread[Receiver].bare
      /\ \A u \in Threads \ {Receiver} : thread'[u] = thread[u]
  <2>1. CASE missing
    <3>1. Advance(Receiver, "dead")
      BY <1>1, <2>1
    <3> HIDE DEF missing
    <3> QED BY <2>1, <3>1, <1>2, MediaAdvance DEF MInv
  <2>2. CASE ~missing
    <3>1. Advance(Receiver, "submit")
      BY <1>1, <2>2
    <3> HIDE DEF missing
    <3> QED BY <2>2, <3>1, <1>2, MediaAdvance, StepIn DEF MInv
  <2> QED BY <2>1, <2>2
<1>4. incomingRtpReader' = IF missing THEN incomingRtpReader ELSE thread[Receiver].on
  BY <1>1
<1>5. thread[Receiver].on \in Sessions /\ session[thread[Receiver].on] # None
  BY <1>2, StepIn DEF MInv, TypeOK, Frame, Made
<1>6. ASSUME Without({"overlap"})
      PROVE  /\ rtpSession = thread[Receiver].on /\ session[rtpSession].executor = "running"
             /\ captureRtpSender = thread[Receiver].on /\ ~missing
  BY <1>2, <1>5, <1>6, MediaFacts, NowWhole
<1>7. UNCHANGED <<datagramSocket, rtpSession, captureRtpSender, socket, session, capture, stops, mishaps>>
  BY <1>1
<1> HIDE DEF missing
<1> USE <1>2, <1>3, <1>4, <1>5, <1>7, MediaFacts
<1>8. TypeOK'
  BY StepIn DEF MInv, TypeOK
<1>9. Made' /\ Held'
  BY StepIn DEF MInv, Made, Held, Without
<1>10. Solo'
  BY SoloKept
<1>11. Whole'
  BY <1>6, NowWhole, WholeKept
<1>12. Ordered'
  BY <1>6, Now, OrderedKept, StepIn
<1>13. Closing'
  BY Now, ClosingKept DEF Ending, IsSocketClosed
<1> QED BY <1>8, <1>9, <1>10, <1>11, <1>12, <1>13 DEF MInv

LEMMA SubmitMedia == ASSUME MInv, Submit PROVE MInv'
<1> DEFINE rejected == \/ incomingRtpReader = None
                       \/ session[incomingRtpReader].executor = "shutdown"
<1>1. /\ At(Receiver, "submit")
      /\ IF rejected
         THEN Advance(Receiver, "dead") /\ UNCHANGED session
         ELSE /\ session' = [session EXCEPT ![incomingRtpReader].task = "receiving"]
              /\ Goto(Receiver, Idle)
      /\ UNCHANGED <<fields, socket, capture, stops, mishaps>>
  BY DEF Submit
<1>2. Receiver \in Threads /\ thread[Receiver].step = "submit" /\ "submit" \in Occupied
  BY <1>1, MediaFacts, StepIn DEF At
<1>3. /\ thread' \in [Threads -> Frame]
      /\ thread'[Receiver].step = IF rejected THEN "dead" ELSE "idle"
      /\ thread'[Receiver].on \in {thread[Receiver].on, None}
      /\ \A u \in Threads \ {Receiver} : thread'[u] = thread[u]
  <2>1. CASE rejected
    <3>1. Advance(Receiver, "dead")
      BY <1>1, <2>1
    <3> HIDE DEF rejected
    <3> QED BY <2>1, <3>1, <1>2, MediaAdvance DEF MInv
  <2>2. CASE ~rejected
    <3>1. Goto(Receiver, Idle)
      BY <1>1, <2>2
    <3> HIDE DEF rejected
    <3> QED BY <2>2, <3>1, <1>2, MediaGoto, MediaIdle DEF MInv
  <2> QED BY <2>1, <2>2
<1>4. /\ session' \in [Sessions -> Session \cup {None}]
      /\ \A x \in Sessions : /\ session'[x] # None <=> session[x] # None
                             /\ session[x] # None =>
                                   session'[x].socket = session[x].socket /\ session'[x].executor = session[x].executor
  <2>1. CASE rejected
    BY <1>1, <2>1 DEF MInv, TypeOK
  <2>2. CASE ~rejected
    <3>1. incomingRtpReader \in Sessions /\ session[incomingRtpReader] \in Session /\ session[incomingRtpReader] # None
      BY <2>2 DEF MInv, TypeOK
    <3>2. PICK q : q = [session[incomingRtpReader] EXCEPT !.task = "receiving"]
      OBVIOUS
    <3>3. q \in Session /\ q # None /\ q.socket = session[incomingRtpReader].socket
          /\ q.executor = session[incomingRtpReader].executor
      BY <3>1, <3>2, MediaFacts DEF Session
    <3>4. session' = [session EXCEPT ![incomingRtpReader] = q]
      BY <1>1, <2>2, <3>2
    <3> QED BY <3>1, <3>3, <3>4 DEF MInv, TypeOK
  <2> QED BY <2>1, <2>2
<1>5. ASSUME Without({"overlap"})
      PROVE  /\ rtpSession = thread[Receiver].on /\ captureRtpSender = thread[Receiver].on /\ ~rejected
  <2>1. thread[Receiver].on # None
    BY <1>2, StepIn DEF MInv, TypeOK
  <2> QED BY <2>1, <1>2, <1>5, NowWhole
<1>6. UNCHANGED <<fields, socket, capture, stops, mishaps>>
  BY <1>1
<1> HIDE DEF rejected
<1> USE <1>2, <1>3, <1>4, <1>6, MediaFacts DEF fields
<1>7. TypeOK'
  BY StepIn DEF MInv, TypeOK
<1>8. Made' /\ Held'
  <2>1. \A u \in Threads : thread'[u].on # None => session'[thread'[u].on] # None
    BY DEF MInv, Made, TypeOK, Frame
  <2> QED BY <2>1, StepIn DEF MInv, Made, Held, Without
<1>9. Solo'
  BY SoloKept
<1>10. Whole'
  BY <1>5, WholeKept
<1>11. Ordered'
  BY <1>5, Now, OrderedKept, StepIn
<1>12. Closing'
  BY Now, ClosingKept DEF Ending, IsSocketClosed
<1> QED BY <1>7, <1>8, <1>9, <1>10, <1>11, <1>12 DEF MInv

LEMMA StopRtpSessionMedia == ASSUME MInv, NEW t \in Threads, StopRtpSession(t) PROVE MInv'
<1>1. /\ At(t, "stop")
      /\ IF rtpSession = None
         THEN Advance(t, "dead") /\ UNCHANGED session
         ELSE /\ session' = [session EXCEPT ![rtpSession].executor = "shutdown"]
              /\ Advance(t, "wait")
      /\ UNCHANGED <<fields, socket, capture, stops, mishaps>>
  BY DEF StopRtpSession
<1>2. thread[t].step = "stop" /\ "stop" \in Occupied
  BY <1>1, StepIn DEF At
<1>3. /\ thread' \in [Threads -> Frame]
      /\ thread'[t].step = IF rtpSession = None THEN "dead" ELSE "wait"
      /\ thread'[t].on = thread[t].on
      /\ \A u \in Threads \ {t} : thread'[u] = thread[u]
  <2>1. CASE rtpSession = None
    BY <1>1, <2>1, MediaAdvance DEF MInv
  <2>2. CASE rtpSession # None
    BY <1>1, <2>2, MediaAdvance, StepIn DEF MInv
  <2> QED BY <2>1, <2>2
<1>4. /\ session' \in [Sessions -> Session \cup {None}]
      /\ \A x \in Sessions : /\ session'[x] # None <=> session[x] # None
                             /\ session[x] # None => session'[x].socket = session[x].socket
                             /\ x # rtpSession => session'[x] = session[x]
  <2>1. CASE rtpSession = None
    BY <1>1, <2>1 DEF MInv, TypeOK
  <2>2. CASE rtpSession # None
    <3>1. rtpSession \in Sessions /\ session[rtpSession] \in Session /\ session[rtpSession] # None
      BY <2>2 DEF MInv, TypeOK
    <3>2. PICK q : q = [session[rtpSession] EXCEPT !.executor = "shutdown"]
      OBVIOUS
    <3>3. q \in Session /\ q # None /\ q.socket = session[rtpSession].socket
      BY <3>1, <3>2, MediaFacts DEF Session
    <3>4. session' = [session EXCEPT ![rtpSession] = q]
      BY <1>1, <2>2, <3>2
    <3> QED BY <3>1, <3>3, <3>4 DEF MInv, TypeOK
  <2> QED BY <2>1, <2>2
<1>5. ASSUME Without({"overlap"})
      PROVE  rtpSession # None
  BY <1>2, <1>5, NowWhole
<1>6. UNCHANGED <<fields, socket, capture, stops, mishaps>>
  BY <1>1
<1> USE <1>2, <1>3, <1>4, <1>6, MediaFacts DEF fields
<1>7. TypeOK'
  BY StepIn DEF MInv, TypeOK
<1>8. Made' /\ Held'
  <2>1. \A u \in Threads : thread'[u].on # None => session'[thread'[u].on] # None
    BY DEF MInv, Made, TypeOK, Frame
  <2> QED BY <2>1, StepIn DEF MInv, Made, Held, Without
<1>9. Solo'
  BY SoloKept
<1>10. Whole'
  BY <1>5, WholeKept
<1>11. Ordered'
  BY <1>5, Now, OrderedKept, StepIn
<1>12. ASSUME Without({"overlap"}), Without({"superseded"})
       PROVE  /\ datagramSocket' # None => socket'[datagramSocket'] # "closed"
              /\ \A x \in Sessions : session'[x] # None /\ session'[x].executor = "shutdown" =>
                    IsSocketClosed(x)' \/ rtpSession' = x
  <2>1. /\ datagramSocket # None => socket[datagramSocket] # "closed"
        /\ \A x \in Sessions : session[x] # None /\ session[x].executor = "shutdown" => IsSocketClosed(x)
    BY <1>12, Now DEF Ending
  <2> QED BY <2>1 DEF IsSocketClosed
<1>13. Closing'
  BY <1>5, <1>12, ClosingKept
<1> QED BY <1>7, <1>8, <1>9, <1>10, <1>11, <1>13 DEF MInv

LEMMA WaitForSocketMedia == ASSUME MInv, NEW t \in Threads, WaitForSocket(t) PROVE MInv'
<1>1. /\ At(t, "wait")
      /\ \/ rtpSession = None /\ Advance(t, "dead")
         \/ rtpSession # None /\ IsSocketClosed(rtpSession) /\ Advance(t, "forget")
      /\ UNCHANGED <<fields, socket, session, capture, stops, mishaps>>
  BY DEF WaitForSocket
<1>2. thread[t].step = "wait" /\ "wait" \in Occupied
  BY <1>1, StepIn DEF At
<1>3. /\ thread' \in [Threads -> Frame]
      /\ \/ rtpSession = None /\ thread'[t].step = "dead"
         \/ rtpSession # None /\ IsSocketClosed(rtpSession) /\ thread'[t].step = "forget"
      /\ thread'[t].on = thread[t].on
      /\ \A u \in Threads \ {t} : thread'[u] = thread[u]
  <2>1. CASE rtpSession = None
    BY <1>1, <2>1, MediaAdvance DEF MInv
  <2>2. CASE rtpSession # None
    BY <1>1, <2>2, MediaAdvance, StepIn DEF MInv
  <2> QED BY <2>1, <2>2
<1>4. ASSUME Without({"overlap"})
      PROVE  rtpSession # None
  BY <1>2, <1>4, NowWhole
<1> USE <1>1, <1>2, <1>3, MediaFacts DEF fields
<1>5. TypeOK'
  BY StepIn DEF MInv, TypeOK
<1>6. Made' /\ Held'
  BY StepIn DEF MInv, Made, Held, Without
<1>7. Solo'
  BY SoloKept
<1>8. Whole'
  BY <1>4, WholeKept
<1>9. Ordered'
  BY <1>4, Now, OrderedKept, StepIn
<1>10. Closing'
  BY <1>4, Now, ClosingKept DEF Ending, IsSocketClosed
<1> QED BY <1>5, <1>6, <1>7, <1>8, <1>9, <1>10 DEF MInv

LEMMA ForgetSessionMedia == ASSUME MInv, NEW t \in Threads, ForgetSession(t) PROVE MInv'
<1>1. /\ At(t, "forget")
      /\ rtpSession' = None
      /\ Advance(t, "unread")
      /\ UNCHANGED <<datagramSocket, captureRtpSender, incomingRtpReader, socket, session, capture,
                     stops, mishaps>>
  BY DEF ForgetSession
<1>2. thread[t].step = "forget" /\ "forget" \in Occupied
  BY <1>1, StepIn DEF At
<1>3. /\ thread' \in [Threads -> Frame]
      /\ thread'[t].step = "unread"
      /\ thread'[t].on = thread[t].on
      /\ \A u \in Threads \ {t} : thread'[u] = thread[u]
  BY <1>1, MediaAdvance, StepIn DEF MInv
<1> USE <1>1, <1>2, <1>3, MediaFacts DEF fields
<1>5. TypeOK'
  BY StepIn DEF MInv, TypeOK
<1>6. Made' /\ Held'
  BY StepIn DEF MInv, Made, Held, Without
<1>7. Solo'
  BY SoloKept
<1>8. Whole'
  BY WholeKept
<1>9. Ordered'
  BY Now, OrderedKept, StepIn
<1>10. Closing'
  BY Now, ClosingKept DEF Ending, IsSocketClosed
<1> QED BY <1>5, <1>6, <1>7, <1>8, <1>9, <1>10 DEF MInv

LEMMA ForgetReaderMedia == ASSUME MInv, NEW t \in Threads, ForgetReader(t) PROVE MInv'
<1>1. /\ At(t, "unread")
      /\ incomingRtpReader' = None
      /\ Advance(t, IF captureRtpSender = None THEN "drop" ELSE "capture")
      /\ UNCHANGED <<datagramSocket, rtpSession, captureRtpSender, socket, session, capture, stops,
                     mishaps>>
  BY DEF ForgetReader
<1>2. thread[t].step = "unread" /\ "unread" \in Occupied
  BY <1>1, StepIn DEF At
<1>3. /\ thread' \in [Threads -> Frame]
      /\ thread'[t].step = IF captureRtpSender = None THEN "drop" ELSE "capture"
      /\ thread'[t].on = thread[t].on
      /\ \A u \in Threads \ {t} : thread'[u] = thread[u]
  BY <1>1, MediaAdvance, StepIn DEF MInv
<1> USE <1>1, <1>2, <1>3, MediaFacts DEF fields
<1>5. TypeOK'
  BY StepIn DEF MInv, TypeOK
<1>6. Made' /\ Held'
  BY StepIn DEF MInv, Made, Held, Without
<1>7. Solo'
  BY SoloKept
<1>8. Whole'
  BY WholeKept
<1>9. Ordered'
  BY Now, OrderedKept, StepIn
<1>10. Closing'
  BY Now, ClosingKept DEF Ending, IsSocketClosed
<1> QED BY <1>5, <1>6, <1>7, <1>8, <1>9, <1>10 DEF MInv

LEMMA StopSenderMedia == ASSUME MInv, NEW t \in Threads, StopSender(t) PROVE MInv'
<1>1. /\ At(t, "capture")
      /\ UNCHANGED <<fields, socket, session, stops, mishaps>>
  BY DEF StopSender
<1>2. thread[t].step = "capture" /\ "capture" \in Occupied
  BY <1>1, StepIn DEF At
<1>3. /\ thread' \in [Threads -> Frame]
      /\ thread'[t].step = IF captureRtpSender = None THEN "dead" ELSE "halt"
      /\ thread'[t].on = thread[t].on
      /\ \A u \in Threads \ {t} : thread'[u] = thread[u]
  <2>1. CASE captureRtpSender = None
    BY <2>1, MediaAdvance DEF StopSender, MInv
  <2>2. CASE captureRtpSender # None
    BY <2>2, MediaAdvance, StepIn DEF StopSender, MInv
  <2> QED BY <2>1, <2>2
<1>4. /\ capture' \in [Sessions -> {"none", "created", "running", "stopped"}]
      /\ \A x \in Sessions : IF x = captureRtpSender THEN capture'[x] = "stopped" ELSE capture'[x] = capture[x]
  BY MediaFacts DEF StopSender, MInv, TypeOK
<1> USE <1>1, <1>2, <1>3, <1>4, MediaFacts DEF fields
<1>5. TypeOK'
  BY StepIn DEF MInv, TypeOK
<1>6. Made' /\ Held'
  BY StepIn DEF MInv, Made, Held, Without
<1>7. Solo'
  BY SoloKept
<1>8. ASSUME Without({"overlap"})
      PROVE  captureRtpSender # None
  BY <1>8, NowWhole
<1>9. Whole'
  BY <1>8, WholeKept
<1>10. ASSUME Without({"overlap"}), Without({"superseded"})
       PROVE  rtpSession = None /\ \A x \in Sessions : capture'[x] # "running"
  <2>1. rtpSession = None /\ \A x \in Sessions : capture[x] = "running" => x = captureRtpSender
    BY <1>10, Now
  <2> QED BY <2>1
<1>11. Ordered'
  BY <1>8, <1>10, OrderedKept, StepIn
<1>12. Closing'
  BY <1>8, Now, ClosingKept DEF Ending, IsSocketClosed
<1> QED BY <1>5, <1>6, <1>7, <1>9, <1>11, <1>12 DEF MInv

LEMMA ForgetSenderMedia == ASSUME MInv, NEW t \in Threads, ForgetSender(t) PROVE MInv'
<1>1. /\ At(t, "halt")
      /\ captureRtpSender' = None
      /\ Advance(t, "drop")
      /\ UNCHANGED <<datagramSocket, rtpSession, incomingRtpReader, socket, session, capture, stops,
                     mishaps>>
  BY DEF ForgetSender
<1>2. thread[t].step = "halt" /\ "halt" \in Occupied
  BY <1>1, StepIn DEF At
<1>3. /\ thread' \in [Threads -> Frame]
      /\ thread'[t].step = "drop"
      /\ thread'[t].on = thread[t].on
      /\ \A u \in Threads \ {t} : thread'[u] = thread[u]
  BY <1>1, MediaAdvance, StepIn DEF MInv
<1> USE <1>1, <1>2, <1>3, MediaFacts DEF fields
<1>5. TypeOK'
  BY StepIn DEF MInv, TypeOK
<1>6. Made' /\ Held'
  BY StepIn DEF MInv, Made, Held, Without
<1>7. Solo'
  BY SoloKept
<1>8. Whole'
  BY WholeKept
<1>9. Ordered'
  BY Now, OrderedKept, StepIn
<1>10. Closing'
  BY Now, ClosingKept DEF Ending, IsSocketClosed
<1> QED BY <1>5, <1>6, <1>7, <1>8, <1>9, <1>10 DEF MInv

LEMMA DropSocketMedia == ASSUME MInv, NEW t \in Threads, DropSocket(t) PROVE MInv'
<1>1. /\ At(t, "drop")
      /\ datagramSocket' = None
      /\ mishaps' = mishaps \cup (IF datagramSocket # None /\ socket[datagramSocket] = "open"
                                  THEN {"dropped"} ELSE {})
      /\ Goto(t, Idle)
      /\ UNCHANGED <<rtpSession, captureRtpSender, incomingRtpReader, socket, session, capture, stops>>
  BY DEF DropSocket
<1>2. thread[t].step = "drop" /\ "drop" \in Occupied
  BY <1>1, StepIn DEF At
<1>3. /\ thread' \in [Threads -> Frame]
      /\ thread'[t].step = "idle" /\ thread'[t].on = None
      /\ \A u \in Threads \ {t} : thread'[u] = thread[u]
  BY <1>1, MediaGoto, MediaIdle DEF MInv
<1>4. mishaps \subseteq mishaps' /\ mishaps' \subseteq Mishap
  BY <1>1 DEF MInv, TypeOK, Mishap
<1>5. UNCHANGED <<rtpSession, captureRtpSender, incomingRtpReader, socket, session, capture, stops>>
  BY <1>1
<1>6. Held'
  <2> SUFFICES ASSUME Without({"dropped"})', NEW k \in Sockets, socket[k] = "open" PROVE FALSE
    BY <1>5 DEF Held
  <2>1. Without({"dropped"}) /\ ~(datagramSocket # None /\ socket[datagramSocket] = "open")
    BY <1>1 DEF Without
  <2>2. datagramSocket = k
    BY <2>1 DEF MInv, Held
  <2> QED BY <2>1, <2>2, MediaFacts
<1> USE <1>2, <1>3, <1>4, <1>5, MediaFacts
<1>7. TypeOK'
  BY <1>1, StepIn DEF MInv, TypeOK
<1>8. Made'
  BY <1>1, StepIn DEF MInv, Made
<1>9. Solo'
  BY SoloKept
<1>10. Whole'
  BY WholeKept
<1>11. Ordered'
  BY Now, OrderedKept, StepIn
<1>12. Closing'
  BY <1>1, Now, ClosingKept DEF Ending, IsSocketClosed
<1> QED BY <1>6, <1>7, <1>8, <1>9, <1>10, <1>11, <1>12 DEF MInv

(* An idle thread enters the media manager.                                *)
LEMMA EntersMedia ==
    ASSUME MInv, NEW t \in Threads, thread[t].step = "idle",
           thread' \in [Threads -> Frame],
           thread'[t].step \in {"session", "stop", "unread"},
           thread'[t].on \in {thread[t].on, None},
           \A u \in Threads \ {t} : thread'[u] = thread[u],
           mishaps \subseteq mishaps', mishaps' \subseteq Mishap, stops' \in 0 .. MaxStops,
           UNCHANGED <<fields, socket, session, capture>>,
           Without({"overlap"})' => \A u \in Threads : thread[u].step \notin Occupied,
           thread'[t].step = "session" => t = Receiver /\ (Without({"superseded"})' => rtpSession = None),
           thread'[t].step = "stop" => rtpSession # None,
           thread'[t].step = "unread" => rtpSession = None
    PROVE  MInv'
<1> USE MediaFacts DEF fields
<1>1. TypeOK'
  BY StepIn DEF MInv, TypeOK
<1>2. Made'
  BY StepIn DEF MInv, Made
<1>3. Held'
  BY Fewer DEF MInv, Held
<1>4. Solo'
  BY DEF Solo
<1>5. Whole'
  <2> SUFFICES ASSUME Without({"overlap"})', NEW u \in Threads
               PROVE  /\ thread'[u].step \notin {"remote", "sender", "start", "reader", "submit", "wait", "forget", "capture"}
                      /\ thread'[u].step = "stop" => rtpSession # None
                      /\ thread'[u].step = "dead" => Struck'
    BY DEF Whole, At
  <2>1. Without({"overlap"})
    BY Fewer
  <2>2. CASE u = t
    BY <2>2
  <2>3. CASE u # t
    <3>1. thread'[u] = thread[u] /\ thread[u].step \notin Occupied
      BY <2>3
    <3>2. thread[u].step = "dead" => Struck
      BY <2>1 DEF MInv, Whole, At
    <3>3. Struck => Struck'
      BY DEF Struck, Without
    <3> QED BY <3>1, <3>2, <3>3, StepIn
  <2> QED BY <2>2, <2>3
<1>6. ASSUME Without({"overlap", "superseded"})'
      PROVE  /\ Without({"overlap", "superseded"}) /\ Without({"superseded"})'
             /\ \A u \in Threads \ {t} : thread'[u].step \notin Occupied
             /\ rtpSession = captureRtpSender
             /\ \A s \in Sessions : capture[s] = "running" => captureRtpSender = s
             /\ datagramSocket # None => socket[datagramSocket] # "closed"
             /\ \A s \in Sessions : session[s] # None /\ session[s].executor = "shutdown" => IsSocketClosed(s)
  <2>1. Without({"overlap", "superseded"}) /\ Without({"overlap"})' /\ Without({"superseded"})'
    BY <1>6, Fewer DEF Without
  <2>2. \A u \in Threads : thread[u].step \notin Occupied
    BY <2>1
  <2>3. Busy(Occupied) = {} /\ Busy(Ending) = {} /\ Busy({"wait"}) = {}
    BY <2>2, StepIn DEF Busy
  <2>4. rtpSession = captureRtpSender /\ \A s \in Sessions : capture[s] = "running" => captureRtpSender = s
    BY <2>1, <2>3 DEF MInv, Ordered
  <2>5. /\ datagramSocket # None => socket[datagramSocket] # "closed"
        /\ \A s \in Sessions : session[s] # None /\ session[s].executor = "shutdown" => IsSocketClosed(s)
    BY <2>1, <2>3 DEF MInv, Closing
  <2> QED BY <2>1, <2>2, <2>4, <2>5
<1>7. Ordered'
  <2> SUFFICES ASSUME Without({"overlap", "superseded"})'
               PROVE
        /\ ~(\A v \in Threads : thread'[v].step \notin Occupied)
        /\ \A u \in Threads :
              /\ thread'[u].step = "session" => rtpSession = None
              /\ thread'[u].step \in {"session", "remote", "sender", "drop"} => captureRtpSender = None
              /\ thread'[u].step \in {"stop", "wait", "forget"} => rtpSession = captureRtpSender
              /\ thread'[u].step \in {"unread", "capture", "halt", "drop"} => rtpSession = None
        /\ \A s \in Sessions :
              capture[s] = "running" =>
                captureRtpSender = s /\ \A u \in Threads : thread'[u].step \notin {"start", "halt"}
    BY DEF Ordered, At, Busy
  <2>1. "session" \in Occupied /\ "stop" \in Occupied /\ "unread" \in Occupied
        /\ {"remote", "sender", "drop", "wait", "forget", "capture", "halt", "start"} \subseteq Occupied
    BY StepIn
  <2> QED BY <1>6, <2>1
<1>8. Closing'
  BY <1>6 DEF Closing, IsSocketClosed
<1> QED BY <1>1, <1>2, <1>3, <1>4, <1>5, <1>7, <1>8 DEF MInv

LEMMA StartBeginsMedia == ASSUME MInv, NEW by \in {"ack", "success"}, StartBegins(by) PROVE MInv'
<1> DEFINE f == [Idle EXCEPT !.step = "session", !.by = by]
<1>1. /\ At(Receiver, "idle")
      /\ mishaps' = mishaps \cup (IF rtpSession # None THEN {"superseded"} ELSE {})
                            \cup (IF Busy(Stopping) # {} THEN {"overlap"} ELSE {})
      /\ Goto(Receiver, f)
      /\ UNCHANGED <<fields, socket, session, capture, stops>>
  BY DEF StartBegins
<1>2. f \in Frame /\ f.step = "session" /\ f.on = None
  BY DEF Idle, Frame, Starting
<1> HIDE DEF f
<1>3. /\ thread' \in [Threads -> Frame]
      /\ thread'[Receiver] = f
      /\ \A u \in Threads \ {Receiver} : thread'[u] = thread[u]
  BY <1>1, <1>2, MediaGoto, MediaFacts DEF MInv
<1>4. mishaps \subseteq mishaps' /\ mishaps' \subseteq Mishap /\ stops' \in 0 .. MaxStops
  BY <1>1 DEF MInv, TypeOK, Mishap
<1>5. ASSUME Without({"overlap"})' PROVE \A u \in Threads : thread[u].step \notin Occupied
  <2>1. Busy(Stopping) = {}
    BY <1>1, <1>5 DEF Without
  <2>2. \A u \in Threads : thread[u].step \notin Starting
    BY <1>1, StepIn DEF MInv, Made, At
  <2> QED BY <2>1, <2>2 DEF Busy, Occupied
<1>6. Without({"superseded"})' => rtpSession = None
  BY <1>1 DEF Without
<1> QED BY <1>1, <1>2, <1>3, <1>4, <1>5, <1>6, EntersMedia, MediaFacts DEF At

LEMMA StopBeginsMedia == ASSUME MInv, NEW t \in Threads, StopBegins(t) PROVE MInv'
<1>1. /\ At(t, "idle")
      /\ mishaps' = mishaps \cup (IF Busy(Starting \cup Stopping) # {} THEN {"overlap"} ELSE {})
      /\ Advance(t, IF rtpSession = None THEN "unread" ELSE "stop")
      /\ UNCHANGED <<fields, socket, session, capture>>
  BY DEF StopBegins
<1>2. stops' \in 0 .. MaxStops
  BY MediaAssumption DEF StopBegins, MInv, TypeOK
<1>3. /\ thread' \in [Threads -> Frame]
      /\ thread'[t].step = IF rtpSession = None THEN "unread" ELSE "stop"
      /\ thread'[t].on = thread[t].on
      /\ \A u \in Threads \ {t} : thread'[u] = thread[u]
  BY <1>1, MediaAdvance, StepIn DEF MInv
<1>4. mishaps \subseteq mishaps' /\ mishaps' \subseteq Mishap
  BY <1>1 DEF MInv, TypeOK, Mishap
<1>5. Without({"overlap"})' => \A u \in Threads : thread[u].step \notin Occupied
  BY <1>1 DEF Without, Busy, Occupied
<1> QED BY <1>1, <1>2, <1>3, <1>4, <1>5, EntersMedia DEF At

(* A thread that was outside the media manager dies.                       *)
LEMMA DiesMedia ==
    ASSUME MInv, NEW t \in Threads, NEW m \in {"lateUpdate", "noPort"}, At(t, "idle"), Advance(t, "dead"),
           mishaps' = mishaps \cup {m}, UNCHANGED <<fields, socket, session, capture, stops>>
    PROVE  MInv'
<1>1. Struck'
  BY DEF Struck, Without
<1>2. /\ thread' \in [Threads -> Frame]
      /\ thread'[t].step = "dead" /\ thread'[t].on = thread[t].on
      /\ \A u \in Threads \ {t} : thread'[u] = thread[u]
  BY <1>1, MediaAdvance, MediaFacts DEF MInv
<1>3. /\ \A X \in SUBSET Occupied : Busy(X)' = Busy(X)
      /\ {"start", "halt"} \in SUBSET Occupied /\ {"wait"} \in SUBSET Occupied /\ Ending \in SUBSET Occupied
      /\ \A ms : m \notin ms => (Without(ms)' <=> Without(ms))
  <2>1. \A X \in SUBSET Occupied : Busy(X)' = Busy(X)
    BY <1>1, <1>2, StepIn DEF Busy, At
  <2>2. \A ms : m \notin ms => (Without(ms)' <=> Without(ms))
    BY <1>1 DEF Without
  <2> QED BY <2>1, <2>2, StepIn
<1>4. /\ Without({"overlap"})' <=> Without({"overlap"})
      /\ Without({"dropped"})' <=> Without({"dropped"})
      /\ Without({"overlap", "superseded"})' <=> Without({"overlap", "superseded"})
      /\ Busy(Occupied)' = Busy(Occupied) /\ Busy({"start", "halt"})' = Busy({"start", "halt"})
      /\ Busy({"wait"})' = Busy({"wait"}) /\ Busy(Ending)' = Busy(Ending)
  BY <1>3
<1> USE <1>1, <1>2, MediaFacts DEF fields, At
<1>5. TypeOK'
  BY StepIn DEF MInv, TypeOK, Mishap
<1>6. Made' /\ Held'
  BY <1>4, StepIn DEF MInv, Made, Held
<1>7. Solo'
  BY <1>4, StepIn DEF MInv, Solo
<1>8. Whole'
  BY <1>4 DEF MInv, Whole
<1>9. Ordered'
  BY <1>4 DEF MInv, Ordered
<1>10. Closing'
  BY <1>4 DEF MInv, Closing, IsSocketClosed
<1> QED BY <1>5, <1>6, <1>7, <1>8, <1>9, <1>10 DEF MInv

LEMMA UpdateRemoteMedia == ASSUME MInv, UpdateRemote PROVE MInv'
BY DiesMedia, MediaFacts DEF UpdateRemote, Happened

LEMMA BindFailsMedia == ASSUME MInv, NEW t \in Threads, BindFails(t) PROVE MInv'
BY DiesMedia DEF BindFails, Happened

LEMMA GetDatagramSocketMedia ==
    ASSUME MInv, NEW t \in Threads, NEW k \in Sockets, GetDatagramSocket(t, k)
    PROVE  MInv'
<1>1. /\ datagramSocket = None /\ socket[k] = "none"
      /\ datagramSocket' = k
      /\ UNCHANGED <<rtpSession, captureRtpSender, incomingRtpReader, session, capture, stops, mishaps, thread>>
  BY DEF GetDatagramSocket
<1>2. /\ socket' \in [Sockets -> {"none", "open", "closed"}]
      /\ socket'[k] = "open"
      /\ \A j \in Sockets \ {k} : socket'[j] = socket[j]
  BY DEF GetDatagramSocket, MInv, TypeOK
<1>3. \A s \in Sessions : session[s] # None => session[s].socket \in Sockets \cup {None}
  BY DEF MInv, TypeOK, Session
<1>4. \A s \in Sessions : IsSocketClosed(s) => IsSocketClosed(s)'
  BY <1>1, <1>2 DEF IsSocketClosed
<1> USE <1>1, <1>2, MediaFacts
<1>5. TypeOK'
  BY DEF MInv, TypeOK
<1>6. Made'
  <2>1. \A j \in Sockets : socket[j] # "none" => socket'[j] # "none"
    OBVIOUS
  <2>2. \A s \in Sessions : session[s] # None /\ session[s].socket # None => socket'[session[s].socket] # "none"
    BY <1>3, <2>1 DEF MInv, Made
  <2> QED BY <2>2 DEF MInv, Made
<1>7. Held'
  BY DEF MInv, Held, Without
<1>8. Solo' /\ Whole'
  BY DEF MInv, Solo, Whole, Struck, Without, At
<1>9. Ordered'
  BY DEF MInv, Ordered, Without, Busy, At
<1>10. Closing'
  BY <1>4 DEF MInv, Closing, Without, Busy
<1> QED BY <1>5, <1>6, <1>7, <1>8, <1>9, <1>10 DEF MInv

LEMMA CallRefusedMedia == ASSUME MInv, NEW t \in Threads, CallRefused(t) PROVE MInv'
<1>1. /\ datagramSocket' = None
      /\ mishaps' = mishaps \cup {"dropped"}
      /\ UNCHANGED <<rtpSession, captureRtpSender, incomingRtpReader, socket, session, capture, stops, thread>>
  BY DEF CallRefused, Happened
<1>2. ~Without({"dropped"})'
  BY <1>1 DEF Without
<1>3. /\ Without({"overlap"})' <=> Without({"overlap"})
      /\ Without({"overlap", "superseded"})' <=> Without({"overlap", "superseded"})
  BY <1>1 DEF Without
<1>s. Struck' <=> Struck
  BY <1>1 DEF Struck, Without
<1> USE <1>1, MediaFacts
<1>4. TypeOK'
  BY DEF MInv, TypeOK, Mishap
<1>5. Made' /\ Held'
  BY <1>2 DEF MInv, Made, Held
<1>6. Solo' /\ Whole'
  BY <1>3, <1>s DEF MInv, Solo, Whole, At
<1>7. Ordered'
  BY <1>3 DEF MInv, Ordered, Busy, At
<1>8. Closing'
  BY <1>3 DEF MInv, Closing, Busy, IsSocketClosed
<1> QED BY <1>4, <1>5, <1>6, <1>7, <1>8 DEF MInv

(* A receive task ends.                                                    *)
LEMMA TaskEndsMedia ==
    ASSUME MInv, NEW s \in Sessions, Receiving(s),
           session' = [session EXCEPT ![s].task = "ended"],
           socket' \in [Sockets -> {"none", "open", "closed"}],
           \A k \in Sockets : socket'[k] # socket[k] => socket'[k] = "closed" /\ socket[k] # "none",
           mishaps' \in {mishaps, mishaps \cup {"readFailed"}},
           UNCHANGED <<fields, capture, stops, thread>>,
           Without({"overlap", "superseded"}) =>
              (datagramSocket # None /\ socket'[datagramSocket] # socket[datagramSocket] => Busy(Ending) # {})
    PROVE  MInv'
<1>1. PICK q : q = [session[s] EXCEPT !.task = "ended"]
  OBVIOUS
<1>2. session[s] \in Session /\ session[s] # None
  BY DEF Receiving, MInv, TypeOK
<1>3. q \in Session /\ q # None /\ q.socket = session[s].socket /\ q.executor = session[s].executor
  BY <1>1, <1>2, MediaFacts DEF Session
<1>4. session' = [session EXCEPT ![s] = q]
  BY <1>1
<1>5. /\ session' \in [Sessions -> Session \cup {None}]
      /\ \A x \in Sessions : /\ session'[x] # None <=> session[x] # None
                             /\ session[x] # None =>
                                   session'[x].socket = session[x].socket /\ session'[x].executor = session[x].executor
  BY <1>2, <1>3, <1>4 DEF MInv, TypeOK
<1>6. /\ Without({"overlap"})' <=> Without({"overlap"})
      /\ Without({"dropped"})' <=> Without({"dropped"})
      /\ Without({"overlap", "superseded"})' <=> Without({"overlap", "superseded"})
      /\ Struck' <=> Struck
      /\ mishaps' \subseteq Mishap
  BY DEF Without, Struck, MInv, TypeOK, Mishap
<1>7. \A x \in Sessions : session[x] # None => session[x].socket \in Sockets \cup {None}
  BY DEF MInv, TypeOK, Session
<1>8. \A x \in Sessions : session[x] # None /\ IsSocketClosed(x) => IsSocketClosed(x)'
  BY <1>5, <1>7 DEF IsSocketClosed
<1> USE <1>5, <1>6, MediaFacts DEF fields
<1>9. TypeOK'
  BY StepIn DEF MInv, TypeOK
<1>10. Made'
  <2>1. \A k \in Sockets : socket[k] # "none" => socket'[k] # "none"
    BY DEF MInv, TypeOK
  <2>2. \A x \in Sessions : session'[x] # None /\ session'[x].socket # None => socket'[session'[x].socket] # "none"
    BY <1>7, <2>1 DEF MInv, Made
  <2>3. datagramSocket # None => socket'[datagramSocket] # "none"
    BY <2>1 DEF MInv, Made, TypeOK
  <2>4. \A u \in Threads : thread[u].on # None => session'[thread[u].on] # None
    BY DEF MInv, Made, TypeOK, Frame
  <2> QED BY <2>2, <2>3, <2>4 DEF MInv, Made
<1>11. Held'
  <2>1. \A k \in Sockets : socket'[k] = "open" => socket[k] = "open"
    OBVIOUS
  <2> QED BY <2>1 DEF MInv, Held
<1>12. Solo'
  BY DEF MInv, Solo
<1>13. Whole'
  <2>1. \A u \in Threads : thread[u].step \in Starting \ {"session"} => thread[u].on \in Sessions /\ session[thread[u].on] # None
    BY DEF MInv, TypeOK, Frame, Made
  <2> QED BY <2>1, StepIn DEF MInv, Whole, At
<1>14. Ordered'
  BY DEF MInv, Ordered, Busy, At
<1>15. Closing'
  <2> SUFFICES ASSUME Without({"overlap", "superseded"})
               PROVE  /\ datagramSocket # None /\ socket'[datagramSocket] = "closed" => Busy(Ending) # {}
                      /\ \A x \in Sessions :
                            session'[x] # None /\ session'[x].executor = "shutdown" =>
                                IsSocketClosed(x)' \/ (rtpSession = x /\ Busy({"wait"}) # {})
    BY DEF Closing, Busy
  <2>1. /\ datagramSocket # None /\ socket[datagramSocket] = "closed" => Busy(Ending) # {}
        /\ \A x \in Sessions :
              session[x] # None /\ session[x].executor = "shutdown" =>
                  IsSocketClosed(x) \/ (rtpSession = x /\ Busy({"wait"}) # {})
    BY DEF MInv, Closing
  <2> QED BY <2>1, <1>8
<1> QED BY <1>9, <1>10, <1>11, <1>12, <1>13, <1>14, <1>15 DEF MInv

LEMMA ReceiveEndsMedia == ASSUME MInv, NEW s \in Sessions, ReceiveEnds(s) PROVE MInv'
<1>1. /\ Receiving(s)
      /\ session[s].socket # None
      /\ socket[session[s].socket] = "open"
      /\ session[s].executor = "shutdown"
      /\ session' = [session EXCEPT ![s].task = "ended"]
      /\ socket' = [socket EXCEPT ![session[s].socket] = "closed"]
      /\ UNCHANGED <<fields, capture, stops, mishaps, thread>>
  BY DEF ReceiveEnds
<1>2. PICK k \in Sockets : k = session[s].socket
  BY <1>1 DEF Receiving, MInv, TypeOK, Session
<1>3. /\ socket' \in [Sockets -> {"none", "open", "closed"}]
      /\ \A j \in Sockets : socket'[j] # socket[j] => socket'[j] = "closed" /\ socket[j] # "none"
  BY <1>1, <1>2 DEF MInv, TypeOK
<1>4. ASSUME Without({"overlap", "superseded"})
      PROVE  Busy(Ending) # {}
  <2>1. ~IsSocketClosed(s)
    BY <1>1 DEF IsSocketClosed
  <2>2. Busy({"wait"}) # {}
    BY <1>1, <1>4, <2>1 DEF MInv, Closing, Receiving
  <2> QED BY <2>2 DEF Busy, Ending
<1> QED BY <1>1, <1>3, <1>4, TaskEndsMedia

-----------------------------------------------------------------------------
LEMMA InitMedia == Init => MInv
<1> SUFFICES ASSUME Init PROVE MInv
  OBVIOUS
<1> USE MediaFacts, MediaIdle, MediaAssumption DEF Init
<1>1. thread \in [Threads -> Frame] /\ \A t \in Threads : thread[t].step = "idle" /\ thread[t].on = None
  OBVIOUS
<1>2. TypeOK
  BY <1>1, StepIn DEF TypeOK
<1>3. Made /\ Held
  BY <1>1, StepIn DEF Made, Held
<1>4. Solo /\ Whole
  BY <1>1, StepIn DEF Solo, Whole, At
<1>5. Ordered /\ Closing
  BY <1>1, StepIn DEF Ordered, Closing, At
<1> QED BY <1>2, <1>3, <1>4, <1>5 DEF MInv

LEMMA NextMedia == MInv /\ [Next]_vars => MInv'
<1> SUFFICES ASSUME MInv, [Next]_vars PROVE MInv'
  OBVIOUS
<1>1. ASSUME NEW t \in Threads,
             \/ \E k \in Sockets : GetDatagramSocket(t, k)
             \/ BindFails(t)
             \/ CallRefused(t)
             \/ StopBegins(t)
             \/ StopSession(t)
      PROVE  MInv'
  <2>1. CASE StopSession(t)
    BY <2>1, StopRtpSessionMedia, WaitForSocketMedia, ForgetSessionMedia, ForgetReaderMedia, StopSenderMedia,
       ForgetSenderMedia, DropSocketMedia DEF StopSession
  <2> QED BY <1>1, <2>1, GetDatagramSocketMedia, BindFailsMedia, CallRefusedMedia, StopBeginsMedia
<1>2. CASE \E by \in {"ack", "success"} : StartBegins(by)
  BY <1>2, StartBeginsMedia
<1>3. CASE StartSession
  BY <1>3, NewSessionMedia, SetRemoteMedia, NewSenderMedia, StartSenderMedia, NewReaderMedia, SubmitMedia
     DEF StartSession
<1>4. CASE UpdateRemote
  BY <1>4, UpdateRemoteMedia
<1>5. ASSUME NEW s \in Sessions, ReceiveReturns(s) \/ ReceiveFails(s)
      PROVE  MInv'
  <2>1. CASE ReceiveEnds(s)
    BY <2>1, ReceiveEndsMedia
  <2>2. CASE ReceiveOnNoSocket(s) \/ ReceiveFails(s)
    <3>1. /\ Receiving(s)
          /\ session' = [session EXCEPT ![s].task = "ended"]
          /\ mishaps' \in {mishaps, mishaps \cup {"readFailed"}}
          /\ UNCHANGED <<fields, socket, capture, stops, thread>>
      BY <2>2 DEF ReceiveOnNoSocket, ReceiveFails, Happened
    <3>2. socket' \in [Sockets -> {"none", "open", "closed"}]
      BY <3>1 DEF MInv, TypeOK
    <3> QED BY <3>1, <3>2, TaskEndsMedia
  <2> QED BY <1>5, <2>1, <2>2 DEF ReceiveReturns
<1>6. CASE UNCHANGED vars
  <2>1. UNCHANGED <<datagramSocket, rtpSession, captureRtpSender, incomingRtpReader, socket, session, capture,
                    stops, mishaps, thread>>
    BY <1>6 DEF vars, fields
  <2>2. TypeOK' /\ Made' /\ Held'
    BY <2>1 DEF MInv, TypeOK, Made, Held, Without
  <2>3. Solo' /\ Whole'
    BY <2>1 DEF MInv, Solo, Whole, Struck, Without, At
  <2>4. Ordered' /\ Closing'
    BY <2>1 DEF MInv, Ordered, Closing, Without, Busy, At, IsSocketClosed
  <2> QED BY <2>2, <2>3, <2>4 DEF MInv
<1> QED BY <1>1, <1>2, <1>3, <1>4, <1>5, <1>6 DEF Next

-----------------------------------------------------------------------------
(* Every reachable state of the media manager satisfies MInv.              *)
THEOREM MediaInductive == Spec => []MInv
BY InitMedia, NextMedia, PTL DEF Spec

(* Every variable of the media manager keeps its type.                     *)
THEOREM TypeCorrect == Spec => []TypeOK
<1>1. MInv => TypeOK
  BY DEF MInv
<1> QED BY <1>1, MediaInductive, PTL

(* A port that cannot be bound is that of a socket that the field lost.    *)
PortLost == "noPort" \in mishaps => "dropped" \in mishaps

LEMMA NextPort == ASSUME MInv, PortLost, [Next]_vars PROVE PortLost'
<1>1. ASSUME NEW t \in Threads, BindFails(t) PROVE "dropped" \in mishaps'
  <2>1. PICK k \in Sockets : socket[k] = "open" /\ datagramSocket # k
    BY <1>1, MediaFacts DEF BindFails
  <2>2. ~Without({"dropped"})
    BY <2>1 DEF MInv, Held
  <2> QED BY <1>1, <2>2 DEF BindFails, Happened, Without
<1>2. ASSUME NEW t \in Threads, StopSession(t) PROVE PortLost'
  <2>1. mishaps' = mishaps \/ mishaps' = mishaps \cup {"dropped"}
    BY <1>2 DEF StopSession, StopRtpSession, WaitForSocket, ForgetSession, ForgetReader, StopSender,
                ForgetSender, DropSocket
  <2> QED BY <2>1 DEF PortLost
<1>3. ASSUME StartSession PROVE PortLost'
  BY <1>3 DEF StartSession, NewSession, SetRemote, NewSender, StartSender, NewReader, Submit, PortLost
<1>4. ASSUME NEW t \in Threads, \/ \E k \in Sockets : GetDatagramSocket(t, k)
                                \/ CallRefused(t) \/ StopBegins(t)
      PROVE  PortLost'
  BY <1>4 DEF GetDatagramSocket, CallRefused, StopBegins, Happened, PortLost
<1>5. ASSUME NEW by, StartBegins(by) PROVE PortLost'
  BY <1>5 DEF StartBegins, PortLost
<1>6. ASSUME UpdateRemote PROVE PortLost'
  BY <1>6 DEF UpdateRemote, Happened, PortLost
<1>7. ASSUME NEW s \in Sessions, ReceiveReturns(s) \/ ReceiveFails(s) PROVE PortLost'
  BY <1>7 DEF ReceiveReturns, ReceiveEnds, ReceiveOnNoSocket, ReceiveFails, Happened, PortLost
<1>8. CASE UNCHANGED vars
  BY <1>8 DEF vars, PortLost
<1> QED BY <1>1, <1>2, <1>3, <1>4, <1>5, <1>6, <1>7, <1>8 DEF Next, PortLost

(* MediaManager: no thread finds a null field or an executor that rejects  *)
(* its task, unless two threads are in the media manager at once, the ACK  *)
(* of a re-INVITE comes after the session has ended, or the port cannot be *)
(* bound, which takes a field that was cleared while its socket was open.  *)
THEOREM DieOnlyInARace == Spec => []ThreadsDieOnlyInARace
<1>1. MInv /\ PortLost => ThreadsDieOnlyInARace
  BY DEF MInv, Whole, Struck, PortLost, ThreadsDieOnlyInARace, Without
<1>2. Init => PortLost
  BY DEF Init, PortLost
<1>3. MInv /\ PortLost /\ [Next]_vars => PortLost'
  BY NextPort
<1> QED BY <1>1, <1>2, <1>3, MediaInductive, PTL DEF Spec

(* MediaManager.stopSession: when nothing is under way, the sound that is  *)
(* captured is that of the session in the fields: the senders of sessions  *)
(* that ended were told to stop.                                           *)
THEOREM CaptureStopped == Spec => []CaptureStops
<1>1. MInv => CaptureStops
  <2> SUFFICES ASSUME MInv, Quiescent, Without({"overlap", "superseded"}), NEW s \in Sessions, capture[s] = "running"
               PROVE  rtpSession = s /\ captureRtpSender = s
    BY DEF CaptureStops
  <2>1. Busy(Occupied) = {}
    BY StepIn DEF Quiescent, Busy, At
  <2> QED BY <2>1 DEF MInv, Ordered
<1> QED BY <1>1, MediaInductive, PTL

(* MediaManager.waitReceiveSocket, getDatagramSocket: at rest the socket of*)
(* the field is open, and no other is, unless the field was cleared while  *)
(* it held a socket that nobody will close.                                *)
THEOREM SocketsKept == Spec => []NoSocketLeaks
<1>1. MInv => NoSocketLeaks
  <2> SUFFICES ASSUME MInv, Quiescent, Without({"overlap", "superseded"})
               PROVE  /\ datagramSocket # None => socket[datagramSocket] = "open"
                      /\ Without({"dropped"}) => \A k \in Sockets : socket[k] = "open" => datagramSocket = k
    BY DEF NoSocketLeaks
  <2>1. Busy(Ending) = {}
    BY DEF Quiescent, Busy, At, Ending
  <2>2. datagramSocket # None => socket[datagramSocket] \notin {"none", "closed"}
    BY <2>1 DEF MInv, Made, Closing
  <2> QED BY <2>2 DEF MInv, Held, TypeOK
<1> QED BY <1>1, MediaInductive, PTL

-----------------------------------------------------------------------------
(***************************************************************************)
(* The three threads of a sender                                           *)
(***************************************************************************)

Gone(t) == pc[t] \in {"await", "ended"}

(* The latch counts the threads that have not come to it.                  *)
Missing(t) == IF Gone(t) THEN 0 ELSE 1

LatchCounts ==
    /\ latch = Missing("capture") + Missing("encoder") + Missing("rtpSender")
    /\ \A t \in Workers : Doing(t, "ended") => latch = 0

(* A writer has something to write, and each thread keeps to its own steps.*)
Writing ==
    /\ \A t \in Workers : Doing(t, "write") => left[t] \in Nat \ {0}
    /\ ~Doing("rtpSender", "write")

PipeInv == PipeTypeOK /\ LatchCounts /\ Writing

-----------------------------------------------------------------------------
LEMMA PipeWorkers ==
    /\ "capture" \in Workers /\ "encoder" \in Workers /\ "rtpSender" \in Workers
    /\ \A t \in Workers : t \in {"capture", "encoder", "rtpSender"}
BY DEF Workers

LEMMA PipeSetPc ==
    ASSUME PipeTypeOK, NEW t \in Workers, NEW s \in Step, SetPc(t, s)
    PROVE  /\ pc' \in [Workers -> Step]
           /\ pc'[t] = s
           /\ \A u \in Workers \ {t} : pc'[u] = pc[u]
BY DEF PipeTypeOK, SetPc

LEMMA PipeSetLeft ==
    ASSUME PipeTypeOK, NEW t \in Workers, NEW n \in Nat, SetLeft(t, n)
    PROVE  /\ left' \in [Workers -> Nat]
           /\ left'[t] = n
           /\ \A u \in Workers \ {t} : left'[u] = left[u]
BY DEF PipeTypeOK, SetLeft

LEMMA InitPipe == PipeInit => PipeInv
<1> SUFFICES ASSUME PipeInit PROVE PipeInv
  OBVIOUS
<1>1. PipeTypeOK
  <2>1. pc \in [Workers -> Step] /\ left \in [Workers -> Nat]
    BY DEF PipeInit, Step
  <2>2. 0 \in 0 .. PipeSize /\ 3 \in 0 .. 3 /\ FALSE \in BOOLEAN
    BY PipelineAssumption
  <2> QED BY <2>1, <2>2 DEF PipeInit, PipeTypeOK
<1>2. Missing("capture") = 1 /\ Missing("encoder") = 1 /\ Missing("rtpSender") = 1
  BY PipeWorkers DEF PipeInit, Missing, Gone
<1>3. LatchCounts
  BY <1>2 DEF PipeInit, LatchCounts, Doing
<1>4. Writing
  BY PipeWorkers DEF PipeInit, Writing, Doing
<1> QED BY <1>1, <1>3, <1>4 DEF PipeInv

(* A step of one thread that keeps away from the latch.                    *)
LEMMA PipeLoopStep ==
    ASSUME PipeInv, NEW t \in Workers, NEW s \in Step \ {"write", "await", "ended"}, NEW n \in Nat,
           SetPc(t, s), ~Gone(t), left' = left \/ SetLeft(t, n),
           raw' \in 0 .. PipeSize, encoded' \in 0 .. PipeSize, silent' \in BOOLEAN,
           UNCHANGED <<isStopped, latch>>
    PROVE  PipeInv'
<1> USE DEF PipeInv
<1>1. /\ pc' \in [Workers -> Step]
      /\ pc'[t] = s
      /\ \A u \in Workers \ {t} : pc'[u] = pc[u]
  BY PipeSetPc
<1>2. left' \in [Workers -> Nat] /\ \A u \in Workers \ {t} : left'[u] = left[u]
  BY PipeSetLeft DEF PipeTypeOK
<1>3. PipeTypeOK'
  BY <1>1, <1>2 DEF PipeTypeOK
<1>4. \A u \in Workers : Gone(u)' <=> Gone(u)
  BY <1>1 DEF Gone
<1>5. LatchCounts'
  BY <1>1, <1>4, PipeWorkers DEF LatchCounts, Missing, Doing
<1>6. Writing'
  BY <1>1, <1>2, PipeWorkers DEF Writing, Doing
<1> QED BY <1>3, <1>5, <1>6

(* A step of a writer, which goes on or has given all away.                *)
LEMMA PipeWriteStep ==
    ASSUME PipeInv, NEW t \in Workers \ {"rtpSender"}, NEW n \in Nat, NEW s \in {"loop", "write"},
           SetPc(t, s), ~Gone(t), SetLeft(t, n), s = "write" => n # 0,
           raw' \in 0 .. PipeSize, encoded' \in 0 .. PipeSize,
           UNCHANGED <<isStopped, silent, latch>>
    PROVE  PipeInv'
<1> USE DEF PipeInv
<1>1. /\ pc' \in [Workers -> Step]
      /\ pc'[t] = s
      /\ \A u \in Workers \ {t} : pc'[u] = pc[u]
  BY PipeSetPc DEF Step
<1>2. left' \in [Workers -> Nat] /\ left'[t] = n /\ \A u \in Workers \ {t} : left'[u] = left[u]
  BY PipeSetLeft
<1>3. PipeTypeOK'
  BY <1>1, <1>2 DEF PipeTypeOK
<1>4. \A u \in Workers : Gone(u)' <=> Gone(u)
  BY <1>1 DEF Gone
<1>5. LatchCounts'
  BY <1>1, <1>4, PipeWorkers DEF LatchCounts, Missing, Doing
<1>6. Writing'
  BY <1>1, <1>2, PipeWorkers DEF Writing, Doing
<1> QED BY <1>3, <1>5, <1>6

LEMMA CapturePipe == ASSUME PipeInv, Capture PROVE PipeInv'
<1> USE DEF PipeInv
<1>0. raw \in 0 .. PipeSize /\ encoded \in 0 .. PipeSize /\ silent \in BOOLEAN /\ 0 \in Nat
      /\ PipeSize \in Nat
  BY PipelineAssumption DEF PipeTypeOK
<1>1. CASE CaptureLoop
  <2> DEFINE s == IF "capture" \in isStopped THEN "latch" ELSE "source"
  <2>1. s \in Step \ {"write", "await", "ended"} /\ SetPc("capture", s) /\ ~Gone("capture")
    BY <1>1 DEF CaptureLoop, Step, Gone, Doing
  <2> HIDE DEF s
  <2> QED BY <1>0, <1>1, <2>1, PipeLoopStep, PipeWorkers DEF CaptureLoop
<1>2. CASE ReadData
  <2>1. Chunk \in Nat /\ Chunk # 0
    BY PipelineAssumption
  <2>2. "write" \in {"loop", "write"} /\ ~Gone("capture") /\ "capture" \in Workers \ {"rtpSender"}
    BY <1>2 DEF ReadData, Gone, Doing, Workers
  <2> QED BY <1>0, <1>2, <2>1, <2>2, PipeWriteStep DEF ReadData
<1>3. CASE ReadNull
  <2>1. "latch" \in Step \ {"write", "await", "ended"} /\ ~Gone("capture")
    BY <1>3 DEF ReadNull, Step, Gone, Doing
  <2> QED BY <1>0, <1>3, <2>1, PipeLoopStep, PipeWorkers DEF ReadNull
<1>4. CASE CaptureWrites
  <2> DEFINE s == IF left["capture"] = 1 THEN "loop" ELSE "write"
             n == left["capture"] - 1
  <2>1. left["capture"] \in Nat \ {0}
    BY <1>4, PipeWorkers DEF CaptureWrites, Writing
  <2>2. n \in Nat /\ s \in {"loop", "write"} /\ (s = "write" => n # 0)
    BY <2>1
  <2>3. SetPc("capture", s) /\ SetLeft("capture", n) /\ ~Gone("capture")
        /\ "capture" \in Workers \ {"rtpSender"}
    BY <1>4 DEF CaptureWrites, Gone, Doing, Workers
  <2>4. raw' \in 0 .. PipeSize /\ encoded' \in 0 .. PipeSize /\ UNCHANGED <<isStopped, silent, latch>>
    BY <1>0, <1>4 DEF CaptureWrites
  <2> HIDE DEF s, n
  <2> QED BY <2>2, <2>3, <2>4, PipeWriteStep
<1> QED BY <1>1, <1>2, <1>3, <1>4 DEF Capture

LEMMA EncoderPipe == ASSUME PipeInv, Encoder PROVE PipeInv'
<1> USE DEF PipeInv
<1>0. raw \in 0 .. PipeSize /\ encoded \in 0 .. PipeSize /\ silent \in BOOLEAN /\ 0 \in Nat
      /\ PipeSize \in Nat
  BY PipelineAssumption DEF PipeTypeOK
<1>1. CASE EncoderLoop
  <2> DEFINE s == IF "encoder" \in isStopped THEN "latch" ELSE "poll"
  <2>1. s \in Step \ {"write", "await", "ended"} /\ SetPc("encoder", s) /\ ~Gone("encoder")
    BY <1>1 DEF EncoderLoop, Step, Gone, Doing
  <2> HIDE DEF s
  <2> QED BY <1>0, <1>1, <2>1, PipeLoopStep, PipeWorkers DEF EncoderLoop
<1>2. CASE EncoderReads
  <2>1. raw \in Nat /\ raw # 0 /\ 0 \in 0 .. PipeSize
    BY <1>0, <1>2 DEF EncoderReads
  <2>2. "write" \in {"loop", "write"} /\ ~Gone("encoder") /\ "encoder" \in Workers \ {"rtpSender"}
    BY <1>2 DEF EncoderReads, Gone, Doing, Workers
  <2> QED BY <1>0, <1>2, <2>1, <2>2, PipeWriteStep DEF EncoderReads
<1>3. CASE EncoderStopsPolling
  <2>1. "latch" \in Step \ {"write", "await", "ended"} /\ ~Gone("encoder")
    BY <1>3 DEF EncoderStopsPolling, Step, Gone, Doing
  <2> QED BY <1>0, <1>3, <2>1, PipeLoopStep, PipeWorkers DEF EncoderStopsPolling
<1>4. CASE EncoderWrites
  <2> DEFINE s == IF left["encoder"] = 1 THEN "loop" ELSE "write"
             n == left["encoder"] - 1
  <2>1. left["encoder"] \in Nat \ {0}
    BY <1>4, PipeWorkers DEF EncoderWrites, Writing
  <2>2. n \in Nat /\ s \in {"loop", "write"} /\ (s = "write" => n # 0)
    BY <2>1
  <2>3. SetPc("encoder", s) /\ SetLeft("encoder", n) /\ ~Gone("encoder")
        /\ "encoder" \in Workers \ {"rtpSender"}
    BY <1>4 DEF EncoderWrites, Gone, Doing, Workers
  <2>4. raw' \in 0 .. PipeSize /\ encoded' \in 0 .. PipeSize /\ UNCHANGED <<isStopped, silent, latch>>
    BY <1>0, <1>4 DEF EncoderWrites
  <2> HIDE DEF s, n
  <2> QED BY <2>2, <2>3, <2>4, PipeWriteStep
<1> QED BY <1>1, <1>2, <1>3, <1>4 DEF Encoder

LEMMA RtpSenderPipe == ASSUME PipeInv, RtpSender PROVE PipeInv'
<1> USE DEF PipeInv
<1>0. raw \in 0 .. PipeSize /\ encoded \in 0 .. PipeSize /\ silent \in BOOLEAN
      /\ PipeSize \in Nat /\ Packet \in Nat /\ left["rtpSender"] \in Nat
  BY PipelineAssumption, PipeWorkers DEF PipeTypeOK
<1>1. CASE SenderLoop
  <2>1. ~Gone("rtpSender") /\ {"latch", "check"} \subseteq Step \ {"write", "await", "ended"}
    BY <1>1 DEF SenderLoop, Step, Gone, Doing
  <2>2. CASE "rtpSender" \in isStopped
    BY <1>0, <1>1, <2>1, <2>2, PipeLoopStep, PipeWorkers DEF SenderLoop
  <2>3. CASE "rtpSender" \notin isStopped
    BY <1>0, <1>1, <2>1, <2>3, PipeLoopStep, PipeWorkers DEF SenderLoop
  <2> QED BY <2>2, <2>3
<1>2. CASE SenderChecks
  <2> DEFINE s == IF "rtpSender" \in isStopped \/ left["rtpSender"] = 0 THEN "send" ELSE "read"
  <2>1. s \in Step \ {"write", "await", "ended"} /\ SetPc("rtpSender", s) /\ ~Gone("rtpSender")
    BY <1>2 DEF SenderChecks, Step, Gone, Doing
  <2> HIDE DEF s
  <2> QED BY <1>0, <1>2, <2>1, PipeLoopStep, PipeWorkers DEF SenderChecks
<1>3. CASE SenderReads
  <2> DEFINE n == IF encoded < left["rtpSender"] THEN encoded ELSE left["rtpSender"]
             k == left["rtpSender"] - n
  <2>1. n \in Nat /\ k \in Nat /\ encoded - n \in 0 .. PipeSize
    BY <1>0
  <2>2. encoded' = encoded - n /\ SetLeft("rtpSender", k) /\ SetPc("rtpSender", "check")
        /\ UNCHANGED <<raw, isStopped, silent, latch>>
    BY <1>3 DEF SenderReads
  <2>3. "check" \in Step \ {"write", "await", "ended"} /\ ~Gone("rtpSender")
    BY <1>3 DEF SenderReads, Step, Gone, Doing
  <2> HIDE DEF n, k
  <2> QED BY <1>0, <2>1, <2>2, <2>3, PipeLoopStep, PipeWorkers
<1>4. CASE SenderSends
  <2>1. "loop" \in Step \ {"write", "await", "ended"} /\ ~Gone("rtpSender")
    BY <1>4 DEF SenderSends, Step, Gone, Doing
  <2> QED BY <1>0, <1>4, <2>1, PipeLoopStep, PipeWorkers DEF SenderSends
<1> QED BY <1>1, <1>2, <1>3, <1>4 DEF RtpSender

LEMMA CountDownPipe ==
    ASSUME PipeInv, NEW t \in Workers, CountDown(t)
    PROVE  PipeInv'
<1> USE DEF PipeInv
<1>1. /\ pc' \in [Workers -> Step]
      /\ pc'[t] = "await"
      /\ \A u \in Workers \ {t} : pc'[u] = pc[u]
  BY PipeSetPc DEF CountDown, Step
<1>2. Doing(t, "latch") /\ latch' = latch - 1 /\ UNCHANGED <<left, raw, encoded, isStopped, silent>>
  BY DEF CountDown
<1>3. ~Gone(t) /\ Gone(t)' /\ \A u \in Workers \ {t} : Gone(u)' <=> Gone(u)
  BY <1>1, <1>2 DEF Gone, Doing
<1>4. Missing(t) = 1 /\ Missing(t)' = 0
      /\ \A u \in Workers \ {t} : Missing(u)' = Missing(u) /\ Missing(u) \in {0, 1}
  BY <1>3 DEF Missing
<1>5. latch' = Missing("capture")' + Missing("encoder")' + Missing("rtpSender")'
      /\ latch >= 1 /\ latch \in 0 .. 3
  <2>1. latch = Missing("capture") + Missing("encoder") + Missing("rtpSender")
    BY DEF LatchCounts
  <2>2. CASE t = "capture"
    BY <1>2, <1>4, <2>1, <2>2, PipeWorkers DEF PipeTypeOK
  <2>3. CASE t = "encoder"
    BY <1>2, <1>4, <2>1, <2>3, PipeWorkers DEF PipeTypeOK
  <2>4. CASE t = "rtpSender"
    BY <1>2, <1>4, <2>1, <2>4, PipeWorkers DEF PipeTypeOK
  <2> QED BY <2>2, <2>3, <2>4, PipeWorkers
<1>6. PipeTypeOK'
  BY <1>1, <1>2, <1>5 DEF PipeTypeOK
<1>7. LatchCounts'
  BY <1>1, <1>5 DEF LatchCounts, Doing
<1>8. Writing'
  BY <1>1, <1>2, PipeWorkers DEF Writing, Doing
<1> QED BY <1>6, <1>7, <1>8

LEMMA AwaitPipe ==
    ASSUME PipeInv, NEW t \in Workers, Await(t)
    PROVE  PipeInv'
<1> USE DEF PipeInv
<1>1. /\ pc' \in [Workers -> Step]
      /\ pc'[t] = "ended"
      /\ \A u \in Workers \ {t} : pc'[u] = pc[u]
  BY PipeSetPc DEF Await, Step
<1>2. Doing(t, "await") /\ latch = 0 /\ UNCHANGED <<left, raw, encoded, isStopped, silent, latch>>
  BY DEF Await
<1>3. \A u \in Workers : Gone(u)' <=> Gone(u)
  BY <1>1, <1>2 DEF Gone, Doing
<1>4. PipeTypeOK'
  BY <1>1, <1>2 DEF PipeTypeOK
<1>5. LatchCounts'
  BY <1>2, <1>3, PipeWorkers DEF LatchCounts, Missing
<1>6. Writing'
  BY <1>1, <1>2, PipeWorkers DEF Writing, Doing
<1> QED BY <1>4, <1>5, <1>6

LEMMA NextPipe == PipeInv /\ [PipeNext]_pipeVars => PipeInv'
<1> SUFFICES ASSUME PipeInv, [PipeNext]_pipeVars PROVE PipeInv'
  OBVIOUS
<1>1. CASE Capture \/ Encoder \/ RtpSender
  BY <1>1, CapturePipe, EncoderPipe, RtpSenderPipe
<1>2. ASSUME NEW t \in Workers, Stop(t)
      PROVE  PipeInv'
  BY <1>2 DEF Stop, PipeInv, PipeTypeOK, LatchCounts, Missing, Gone, Writing, Doing
<1>3. ASSUME NEW t \in Workers, CountDown(t) \/ Await(t)
      PROVE  PipeInv'
  BY <1>3, CountDownPipe, AwaitPipe
<1>4. CASE UNCHANGED pipeVars
  BY <1>4 DEF pipeVars, PipeInv, PipeTypeOK, LatchCounts, Missing, Gone, Writing, Doing
<1> QED BY <1>1, <1>2, <1>3, <1>4 DEF PipeNext

(* Every reachable state of the three threads satisfies PipeInv.           *)
THEOREM PipeInductive == PipeSpec => []PipeInv
BY InitPipe, NextPipe, PTL DEF PipeSpec

(* The pipes keep their bounds and the variables their types.              *)
THEOREM PipeTypes == PipeSpec => []PipeTypeOK
<1>1. PipeInv => PipeTypeOK
  BY DEF PipeInv
<1> QED BY <1>1, PipeInductive, PTL

(* CaptureRtpSender: the latch keeps each of the three threads alive until *)
(* the others have left their pipes.                                       *)
THEOREM PeersAlive == PipeSpec => []NoDeadEnd
<1>1. ASSUME PipeInv
      PROVE  NoDeadEnd
  <2>1. SUFFICES ASSUME latch = 0 PROVE \A u \in Workers : Gone(u)
    BY <1>1 DEF PipeInv, LatchCounts, NoDeadEnd, Gone
  <2>2. Missing("capture") = 0 /\ Missing("encoder") = 0 /\ Missing("rtpSender") = 0
    BY <1>1, <2>1 DEF PipeInv, LatchCounts, Missing
  <2> QED BY <2>2, PipeWorkers DEF Missing
<1> QED BY <1>1, PipeInductive, PTL
===============================================================================
