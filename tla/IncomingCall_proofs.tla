------------------------ MODULE IncomingCall_proofs ------------------------
(***************************************************************************)
(* Theorems about IncomingCall, for every set of calls and of application  *)
(* threads: the variables keep their types; what acceptCall and rejectCall *)
(* look up without a check is there while the call rings; nobody leaves a  *)
(* call ringing; a call the application has is established; the receiver   *)
(* thread ends, and a dialog is revived, in the listed races only.         *)
(***************************************************************************)
EXTENDS IncomingCall, SequenceTheorems, TLAPS

(* A call that anything refers to has at least the 180 among its           *)
(* responses, so that there is a last response to send.                    *)
Known(c) == responses[c] # <<>>

Anchored ==
    /\ \A t \in Threads : thread[t].step # "idle" =>
            thread[t].call \in Calls /\ Known(thread[t].call)
    /\ \A c \in Calls :
            \/ app[c] # "none" /\ Known(c)
            \/ /\ app[c] = "none" /\ ~Known(c)
               /\ c \notin table /\ c \notin dialogs /\ c \notin byeOut
               /\ \A x \in Timer : timers[c][x] = 0

(* The steps each operation takes.                                         *)
StepsOf(op) ==
    CASE op = "none" -> {"idle"}
      [] op \in {"invite", "ack"} -> {"request", "dead"}
      [] op = "cancel" -> {"append", "dispatch", "response", "dialog", "dialogRun", "dead"}
      [] op \in {"bye", "byeOk"} -> {"dialog", "dialogRun", "dead"}
      [] op \in {"accept", "reject"} ->
            {"request", "append", "dispatch", "response", "dialog", "dialogRun"}
      [] op = "hangup" -> {"terminate"}
      [] OTHER -> {"timer"}

(* Who works on a call, given what the application knows of it.  Only the  *)
(* application's threads answer and hang up, and they record it first;     *)
(* only the receiver thread handles requests; only the timer's thread runs *)
(* tasks; only a call that is over has a BYE of ours.                      *)
FrameOK(t) ==
    LET f == thread[t]
    IN  /\ f.step \in StepsOf(f.op)
        /\ f.op \in {"invite", "ack", "cancel", "bye", "byeOk"} => t = Receiver
        /\ f.op \in Timer => t = TimerThread
        /\ f.op \in {"accept", "reject", "hangup"} =>
              t \in AppThreads /\ app[f.call] # "ringing"
        /\ f.op \in {"hangup", "byeOk"} => app[f.call] = "over"

Owner ==
    /\ \A t \in Threads : FrameOK(t)
    /\ \A c \in byeOut : app[c] = "over"

(* The receiver thread is handling the CANCEL of call c.                   *)
Cancelling(c) == thread[Receiver].op = "cancel" /\ thread[Receiver].call = c

(* While a call rings nothing but a CANCEL that is being handled can have  *)
(* given its transaction a final response, so no ACK of one is on its way  *)
(* and no timer I will remove the transaction.                             *)
Undecided(c) ==
    /\ c \in table
    /\ c \in dialogs
    /\ timers[c]["I"] = 0
    /\ \A t \in Threads : thread[t].call = c => thread[t].op \notin {"ack", "I"}
    /\ 200 \notin sent[c]
    /\ \A i \in DOMAIN responses[c] : responses[c][i] # 200
    /\ ~Cancelling(c) => /\ sent[c] \subseteq {180}
                         /\ \A i \in DOMAIN responses[c] : responses[c][i] = 180

Ringing == \A c \in Calls : app[c] = "ringing" => Undecided(c)

IInv == TypeOK /\ Anchored /\ Owner /\ Ringing

-----------------------------------------------------------------------------
(***************************************************************************)
(* Lemmas about the helpers                                                *)
(***************************************************************************)

(* The last response of a transaction that has one is a response.          *)
LEMMA LastIsCode ==
    ASSUME NEW s \in Seq(Codes), s # <<>>
    PROVE  /\ Last(s) \in Codes
           /\ Len(s) \in DOMAIN s
<1>1. Len(s) \in 1..Len(s)
  BY EmptySeq, LenProperties
<1> QED BY <1>1, ElementOfSeq DEF Last

(* Every state of a dialog's state machine leads to one of its states.     *)
LEMMA DialogAfterType ==
    /\ \A st, e : DialogAfter(st, e) \in DialogState
    /\ \A now \in DialogState : \A st, e : DialogSet(now, st, e) \in DialogState
BY DEF DialogAfter, DialogSet, DialogState

(* Advance and Return keep frames well formed.                             *)
LEMMA AdvanceType ==
    ASSUME TypeOK, NEW t \in Threads, NEW step \in Step,
           NEW seen \in IstState \cup DialogState \cup {"-"},
           Advance(t, step, seen)
    PROVE  /\ thread' \in [Threads -> Frame]
           /\ thread'[t].step = step
           /\ thread'[t].call = thread[t].call
           /\ thread'[t].op = thread[t].op
           /\ \A u \in Threads \ {t} : thread'[u] = thread[u]
<1>1. thread \in [Threads -> Frame]
  BY DEF TypeOK
<1>2. [thread[t] EXCEPT !.step = step, !.seen = seen] \in Frame
  BY <1>1 DEF Frame
<1>3. thread' = [thread EXCEPT ![t] = [thread[t] EXCEPT !.step = step, !.seen = seen]]
  BY DEF Advance, Goto
<1> QED BY <1>1, <1>2, <1>3 DEF Frame

LEMMA IdleType == Idle \in Frame /\ Idle.step = "idle" /\ Idle.op = "none" /\ Idle.call = None
BY DEF Idle, Frame, Op, Step, Timer

LEMMA ReturnType ==
    ASSUME TypeOK, NEW t \in Threads, Return(t)
    PROVE  /\ thread' \in [Threads -> Frame]
           /\ \A u \in Threads \ {t} : thread'[u] = thread[u]
           /\ \/ thread'[t] = Idle
              \/ /\ thread'[t].call = thread[t].call
                 /\ thread'[t].op = thread[t].op
                 /\ \/ /\ thread[t].step = "request"
                       /\ thread[t].op \in {"accept", "reject"}
                       /\ thread'[t].step = "append"
                    \/ /\ thread[t].step = "response"
                       /\ thread'[t].step = "dialog"
<1>1. CASE thread[t].step = "request" /\ thread[t].op \in {"accept", "reject"}
  <2>1. Advance(t, "append", "-")
    BY <1>1 DEF Return
  <2> QED BY <1>1, <2>1, AdvanceType DEF Step
<1>2. CASE /\ ~(thread[t].step = "request" /\ thread[t].op \in {"accept", "reject"})
           /\ thread[t].step = "response"
  <2>1. Advance(t, "dialog", "-")
    BY <1>2 DEF Return
  <2> QED BY <1>2, <2>1, AdvanceType DEF Step
<1>3. CASE /\ ~(thread[t].step = "request" /\ thread[t].op \in {"accept", "reject"})
           /\ thread[t].step # "response"
  <2>1. thread' = [thread EXCEPT ![t] = Idle]
    BY <1>3 DEF Return, Goto
  <2> QED BY <2>1, IdleType DEF TypeOK
<1> QED BY <1>1, <1>2, <1>3

(* A thread inside an operation works on a call that has a last response.  *)
LEMMA BusyFacts ==
    ASSUME TypeOK, Anchored, NEW t \in Threads, thread[t].step # "idle"
    PROVE  /\ thread[t].call \in Calls
           /\ Known(thread[t].call)
           /\ Last(responses[thread[t].call]) \in Codes
<1>1. thread[t].call \in Calls /\ Known(thread[t].call)
  BY DEF Anchored
<1>2. responses[thread[t].call] \in Seq(Codes) /\ responses[thread[t].call] # <<>>
  BY <1>1 DEF TypeOK, Known
<1> QED BY <1>1, <1>2, LastIsCode

(* What a thread that runs a method of a transaction's state is doing.     *)
LEMMA HandlingFacts ==
    ASSUME TypeOK, Anchored, Owner, NEW t \in Threads, NEW st, NEW e, e # "-",
           Handling(t, st, e)
    PROVE  /\ thread[t].step \in {"request", "response", "timer"}
           /\ thread[t].call \in Calls
           /\ Known(thread[t].call)
           /\ Last(responses[thread[t].call]) \in Codes
           /\ e = "ack" => thread[t].step = "request" /\ thread[t].op = "ack"
           /\ e \in Timer => thread[t].step = "timer" /\ thread[t].op = e
<1>1. thread[t].step \in {"request", "response", "timer"}
  BY DEF Handling, EventOf
<1>2. /\ e = "ack" => thread[t].step = "request" /\ thread[t].op = "ack"
      /\ e \in Timer => thread[t].step = "timer" /\ thread[t].op = e
  <2>1. thread[t].step \in StepsOf(thread[t].op)
    BY DEF Owner, FrameOK
  <2>2. thread[t].step = "timer" => thread[t].op \notin {"ack"}
    BY <2>1 DEF StepsOf
  <2> QED BY <2>2 DEF Handling, EventOf, Timer
<1> QED BY <1>1, <1>2, BusyFacts

LEMMA ScheduleType ==
    ASSUME TypeOK, NEW c \in Calls, NEW tasks, Schedule(c, tasks)
    PROVE  /\ timers' \in [Calls -> [Timer -> Nat]]
           /\ \A d \in Calls : d # c => timers'[d] = timers[d]
           /\ \A x \in Timer \ tasks : timers'[c][x] = timers[c][x]
<1>1. timers \in [Calls -> [Timer -> Nat]]
  BY DEF TypeOK
<1>2. timers' = [timers EXCEPT ![c] =
                   [x \in Timer |-> timers[c][x] + (IF x \in tasks THEN 1 ELSE 0)]]
  BY DEF Schedule
<1>3. \A x \in Timer : timers[c][x] + (IF x \in tasks THEN 1 ELSE 0) \in Nat
  BY <1>1
<1>4. [x \in Timer |-> timers[c][x] + (IF x \in tasks THEN 1 ELSE 0)] \in [Timer -> Nat]
  BY <1>3
<1>5. \A x \in Timer \ tasks : timers'[c][x] = timers[c][x]
  BY <1>1, <1>2
<1> QED BY <1>1, <1>2, <1>4, <1>5

(* A status code that is given to sendReponse is appended.                 *)
LEMMA AppendType ==
    ASSUME TypeOK, NEW c \in Calls, NEW op,
           responses' = [responses EXCEPT ![c] = Append(@, CodeOf(op))]
    PROVE  /\ responses' \in [Calls -> Seq(Codes)]
           /\ \A d \in Calls : d # c => responses'[d] = responses[d]
           /\ responses'[c] = Append(responses[c], CodeOf(op))
           /\ responses'[c] # <<>>
<1>1. CodeOf(op) \in Codes
  BY DEF CodeOf, Codes
<1>2. responses \in [Calls -> Seq(Codes)] /\ responses[c] \in Seq(Codes)
  BY DEF TypeOK
<1>3. /\ Append(responses[c], CodeOf(op)) \in Seq(Codes)
      /\ Append(responses[c], CodeOf(op)) # <<>>
  BY <1>1, <1>2, AppendProperties
<1> QED BY <1>2, <1>3

-----------------------------------------------------------------------------
(***************************************************************************)
(* The types                                                               *)
(***************************************************************************)

(* Every action keeps the types, given that a thread works on known calls  *)
(* only.                                                                   *)
LEMMA TypeStep ==
    ASSUME TypeOK, Anchored, Owner, [Next]_vars
    PROVE  TypeOK'
<1>1. ASSUME NEW c \in Calls, HandleInitialInvite(c) PROVE TypeOK'
  <2>1. dialog' \in [Calls -> DialogState]
    BY <1>1, DialogAfterType DEF HandleInitialInvite, TypeOK
  <2>2. ist' \in [Calls -> IstState] /\ app' \in [Calls -> AppState]
    BY <1>1 DEF HandleInitialInvite, SetState, TypeOK, IstState, AppState
  <2>3. responses' \in [Calls -> Seq(Codes)] /\ sent' \in [Calls -> SUBSET
      Codes]
    BY <1>1 DEF HandleInitialInvite, TypeOK, Codes
  <2> QED BY <1>1, <2>1, <2>2, <2>3 DEF HandleInitialInvite, TypeOK, mediaVars,
      requestVars
<1>2. ASSUME NEW c \in Calls, ReceiveInviteAgain(c) PROVE TypeOK'
  BY <1>2, IdleType DEF ReceiveInviteAgain, Frame, Op, Step, Goto, TypeOK,
      Threads, IstState, AppState, Timer, istVars, dialogVars, mediaVars,
      requestVars
<1>3. ASSUME NEW c \in Calls, ReceiveAckOfError(c) PROVE TypeOK'
  BY <1>3, IdleType DEF ReceiveAckOfError, Frame, Op, Step, Goto, TypeOK,
      Threads, IstState, AppState, Timer, istVars, dialogVars, mediaVars,
      requestVars
<1>4. ASSUME NEW c \in Calls, HandleAck(c) PROVE TypeOK'
  BY <1>4, IdleType DEF HandleAck, Frame, Op, Step, Goto, TypeOK, Threads,
      IstState, AppState, Timer, istVars, dialogVars, mediaVars, requestVars,
      RtpSession
<1>5. ASSUME NEW c \in Calls, HandleCancel(c) PROVE TypeOK'
  BY <1>5, IdleType DEF HandleCancel, Frame, Op, Step, Goto, TypeOK, Threads,
      IstState, AppState, Timer, istVars, dialogVars, mediaVars, requestVars
<1>6. ASSUME NEW c \in Calls, HandleBye(c) PROVE TypeOK'
  BY <1>6, IdleType DEF HandleBye, Frame, Op, Step, Goto, TypeOK, Threads,
      IstState, AppState, Timer, istVars, dialogVars, mediaVars, requestVars
<1>7. ASSUME NEW c \in Calls, ByeSuccessResponseReceived(c) PROVE TypeOK'
  BY <1>7, IdleType DEF ByeSuccessResponseReceived, Frame, Op, Step, Goto,
      TypeOK, Threads, IstState, AppState, Timer, istVars, dialogVars,
      mediaVars, requestVars
<1>8. ASSUME NEW t \in AppThreads, NEW c \in Calls, AcceptCall(t, c) PROVE
    TypeOK'
  BY <1>8, IdleType DEF AcceptCall, Frame, Op, Step, Goto, TypeOK, Threads,
      IstState, AppState, Timer, istVars, dialogVars, mediaVars, requestVars
<1>9. ASSUME NEW t \in AppThreads, NEW c \in Calls, RejectCall(t, c) PROVE
    TypeOK'
  BY <1>9, IdleType DEF RejectCall, Frame, Op, Step, Goto, TypeOK, Threads,
      IstState, AppState, Timer, istVars, dialogVars, mediaVars, requestVars
<1>10. ASSUME NEW t \in AppThreads, NEW c \in Calls, Terminate(t, c) PROVE
    TypeOK'
  BY <1>10, IdleType DEF Terminate, Frame, Op, Step, Goto, TypeOK, Threads,
      IstState, AppState, Timer, istVars, dialogVars, mediaVars, requestVars
<1>11. ASSUME NEW c \in Calls, NEW x \in Timer, TimerFires(c, x) PROVE TypeOK'
  <2>1. timers' \in [Calls -> [Timer -> Nat]]
    <3>1. timers[c] \in [Timer -> Nat] /\ timers[c][x] - 1 \in Nat
      BY <1>11 DEF TimerFires, TypeOK
    <3>2. timers' = [timers EXCEPT ![c] = [timers[c] EXCEPT ![x] = timers[c][x]
        - 1]]
      BY <1>11 DEF TimerFires
    <3>3. [timers[c] EXCEPT ![x] = timers[c][x] - 1] \in [Timer -> Nat]
      BY <3>1
    <3> QED BY <3>2, <3>3 DEF TypeOK
  <2>2. thread' \in [Threads -> Frame]
    BY <1>11 DEF TimerFires, Goto, TypeOK, Frame, Op, Step, Timer
  <2> QED BY <1>11, <2>1, <2>2 DEF TimerFires, TypeOK, dialogVars, mediaVars,
      requestVars
<1>12. ASSUME NEW t \in Threads, AppendResponse(t) PROVE TypeOK'
  <2>1. thread[t].call \in Calls
    BY <1>12, BusyFacts DEF AppendResponse, At
  <2>2. responses' \in [Calls -> Seq(Codes)]
    BY <1>12, <2>1, AppendType DEF AppendResponse
  <2>3. thread' \in [Threads -> Frame]
    BY <1>12, AdvanceType DEF AppendResponse, Step
  <2> QED BY <1>12, <2>2, <2>3 DEF AppendResponse, TypeOK, dialogVars,
      mediaVars, requestVars
<1>13. ASSUME NEW t \in Threads, DispatchResponse(t) PROVE TypeOK'
  <2>1. ist[thread[t].call] \in IstState
    BY <1>13, BusyFacts DEF DispatchResponse, At, TypeOK
  <2>2. thread' \in [Threads -> Frame]
    BY <1>13, <2>1, AdvanceType DEF DispatchResponse, Step
  <2> QED BY <1>13, <2>2 DEF DispatchResponse, TypeOK, istVars, dialogVars,
      mediaVars, requestVars
<1>14. ASSUME NEW t \in Threads, GenerateBye(t) PROVE TypeOK'
  BY <1>14, IdleType, BusyFacts DEF GenerateBye, At, StopSession, Frame, Op,
      Step, Goto, TypeOK, Threads, IstState, AppState, Timer, istVars,
      dialogVars, mediaVars, requestVars
<1>15. ASSUME NEW t \in Threads, ProceedingReceivedInvite(t) PROVE TypeOK'
  <2>1. thread[t].call \in Calls /\ Last(responses[thread[t].call]) \in Codes
    BY <1>15, HandlingFacts DEF ProceedingReceivedInvite
  <2>2. ist' \in [Calls -> IstState]
    BY <1>15, <2>1 DEF ProceedingReceivedInvite, SetState, TypeOK, IstState
  <2>3. thread' \in [Threads -> Frame]
    BY <1>15, ReturnType DEF ProceedingReceivedInvite
  <2> QED BY <1>15, <2>2, <2>3 DEF ProceedingReceivedInvite, TypeOK,
      dialogVars, mediaVars, requestVars
<1>16. ASSUME NEW t \in Threads, ProceedingReceived2xx(t) PROVE TypeOK'
  <2>1. thread[t].call \in Calls /\ Last(responses[thread[t].call]) \in Codes
    BY <1>16, HandlingFacts DEF ProceedingReceived2xx
  <2>2. ist' \in [Calls -> IstState]
    BY <1>16, <2>1 DEF ProceedingReceived2xx, SetState, TypeOK, IstState
  <2>3. thread' \in [Threads -> Frame]
    BY <1>16, ReturnType DEF ProceedingReceived2xx
  <2>4. sent' \in [Calls -> SUBSET Codes]
    BY <1>16, <2>1 DEF ProceedingReceived2xx, SendLastResponse, TypeOK
  <2> QED BY <1>16, <2>2, <2>3, <2>4 DEF ProceedingReceived2xx, TypeOK,
      dialogVars, mediaVars, requestVars
<1>17. ASSUME NEW t \in Threads, ProceedingReceived300To699(t) PROVE TypeOK'
  <2>1. thread[t].call \in Calls /\ Last(responses[thread[t].call]) \in Codes
    BY <1>17, HandlingFacts DEF ProceedingReceived300To699
  <2>2. ist' \in [Calls -> IstState]
    BY <1>17, <2>1 DEF ProceedingReceived300To699, SetState, TypeOK, IstState
  <2>3. thread' \in [Threads -> Frame]
    BY <1>17, ReturnType DEF ProceedingReceived300To699
  <2>4. sent' \in [Calls -> SUBSET Codes]
    BY <1>17, <2>1 DEF ProceedingReceived300To699, SendLastResponse, TypeOK
  <2>5. timers' \in [Calls -> [Timer -> Nat]]
    BY <1>17, <2>1, ScheduleType DEF ProceedingReceived300To699
  <2> QED BY <1>17, <2>2, <2>3, <2>4, <2>5 DEF ProceedingReceived300To699,
      TypeOK, dialogVars, mediaVars, requestVars
<1>18. ASSUME NEW t \in Threads, CompletedReceivedInvite(t) PROVE TypeOK'
  <2>1. thread[t].call \in Calls /\ Last(responses[thread[t].call]) \in Codes
    BY <1>18, HandlingFacts DEF CompletedReceivedInvite
  <2>2. ist' \in [Calls -> IstState]
    BY <1>18, <2>1 DEF CompletedReceivedInvite, SetState, TypeOK, IstState
  <2>3. thread' \in [Threads -> Frame]
    BY <1>18, ReturnType DEF CompletedReceivedInvite
  <2>4. sent' \in [Calls -> SUBSET Codes]
    BY <1>18, <2>1 DEF CompletedReceivedInvite, SendLastResponse, TypeOK
  <2> QED BY <1>18, <2>2, <2>3, <2>4 DEF CompletedReceivedInvite, TypeOK,
      dialogVars, mediaVars, requestVars
<1>19. ASSUME NEW t \in Threads, CompletedReceivedAck(t) PROVE TypeOK'
  <2>1. thread[t].call \in Calls /\ Last(responses[thread[t].call]) \in Codes
    BY <1>19, HandlingFacts DEF CompletedReceivedAck
  <2>2. ist' \in [Calls -> IstState]
    BY <1>19, <2>1 DEF CompletedReceivedAck, SetState, TypeOK, IstState
  <2>3. thread' \in [Threads -> Frame]
    BY <1>19, ReturnType DEF CompletedReceivedAck
  <2>4. timers' \in [Calls -> [Timer -> Nat]]
    BY <1>19, <2>1, ScheduleType DEF CompletedReceivedAck
  <2> QED BY <1>19, <2>2, <2>3, <2>4 DEF CompletedReceivedAck, TypeOK,
      dialogVars, mediaVars, requestVars
<1>20. ASSUME NEW t \in Threads, CompletedTimerG(t) PROVE TypeOK'
  <2>1. thread[t].call \in Calls /\ Last(responses[thread[t].call]) \in Codes
    BY <1>20, HandlingFacts DEF CompletedTimerG
  <2>2. ist' \in [Calls -> IstState]
    BY <1>20, <2>1 DEF CompletedTimerG, SetState, TypeOK, IstState
  <2>3. thread' \in [Threads -> Frame]
    BY <1>20, ReturnType DEF CompletedTimerG
  <2>4. sent' \in [Calls -> SUBSET Codes]
    BY <1>20, <2>1 DEF CompletedTimerG, SendLastResponse, TypeOK
  <2>5. timers' \in [Calls -> [Timer -> Nat]]
    BY <1>20, <2>1, ScheduleType DEF CompletedTimerG
  <2> QED BY <1>20, <2>2, <2>3, <2>4, <2>5 DEF CompletedTimerG, TypeOK,
      dialogVars, mediaVars, requestVars
<1>21. ASSUME NEW t \in Threads, CompletedTimerH(t) PROVE TypeOK'
  <2>1. thread[t].call \in Calls /\ Last(responses[thread[t].call]) \in Codes
    BY <1>21, HandlingFacts DEF CompletedTimerH
  <2>2. ist' \in [Calls -> IstState]
    BY <1>21, <2>1 DEF CompletedTimerH, SetState, TypeOK, IstState
  <2>3. thread' \in [Threads -> Frame]
    BY <1>21, ReturnType DEF CompletedTimerH
  <2> QED BY <1>21, <2>2, <2>3 DEF CompletedTimerH, TypeOK, dialogVars,
      mediaVars, requestVars
<1>22. ASSUME NEW t \in Threads, ConfirmedTimerI(t) PROVE TypeOK'
  <2>1. thread[t].call \in Calls /\ Last(responses[thread[t].call]) \in Codes
    BY <1>22, HandlingFacts DEF ConfirmedTimerI
  <2>2. ist' \in [Calls -> IstState]
    BY <1>22, <2>1 DEF ConfirmedTimerI, SetState, TypeOK, IstState
  <2>3. thread' \in [Threads -> Frame]
    BY <1>22, ReturnType DEF ConfirmedTimerI
  <2> QED BY <1>22, <2>2, <2>3 DEF ConfirmedTimerI, TypeOK, dialogVars,
      mediaVars, requestVars
<1>23. ASSUME NEW t \in Threads, Ignored(t) PROVE TypeOK'
  BY <1>23, ReturnType, HandlingFacts, ScheduleType DEF Ignored, SetState,
      SendLastResponse, TypeOK, istVars, dialogVars, mediaVars, requestVars
<1>24. ASSUME NEW t \in Threads, DialogDispatch(t) PROVE TypeOK'
  <2>1. dialog[thread[t].call] \in DialogState
    BY <1>24, BusyFacts DEF DialogDispatch, At, TypeOK
  <2>2. thread' \in [Threads -> Frame]
    BY <1>24, <2>1, AdvanceType DEF DialogDispatch, Step
  <2> QED BY <1>24, <2>2 DEF DialogDispatch, TypeOK, istVars, dialogVars,
      mediaVars, requestVars
<1>25. ASSUME NEW t \in Threads, FinishAccept(t) PROVE TypeOK'
  BY <1>25, IdleType, DialogAfterType, BusyFacts DEF FinishAccept,
      SetDialogState, StopSession, At, Frame, Op, Step, Goto, TypeOK, Threads,
      IstState, AppState, Timer, istVars, dialogVars, mediaVars, requestVars
<1>26. ASSUME NEW t \in Threads, FinishRefusal(t) PROVE TypeOK'
  BY <1>26, IdleType, DialogAfterType, BusyFacts DEF FinishRefusal,
      SetDialogState, StopSession, At, Frame, Op, Step, Goto, TypeOK, Threads,
      IstState, AppState, Timer, istVars, dialogVars, mediaVars, requestVars
<1>27. ASSUME NEW t \in Threads, FinishBye(t) PROVE TypeOK'
  <2>1. thread[t].call \in Calls
    BY <1>27, BusyFacts DEF FinishBye, SetDialogState, At
  <2>2. dialog' \in [Calls -> DialogState] /\ app' \in [Calls -> AppState]
    BY <1>27, <2>1, DialogAfterType DEF FinishBye, SetDialogState, TypeOK,
        AppState
  <2>3. thread' \in [Threads -> Frame]
    BY <1>27, IdleType DEF FinishBye, Goto, TypeOK
  <2> QED BY <1>27, <2>1, <2>2, <2>3 DEF FinishBye, StopSession, TypeOK,
      istVars
<1>28. ASSUME NEW t \in Threads, FinishOwnBye(t) PROVE TypeOK'
  BY <1>28, IdleType, DialogAfterType, BusyFacts DEF FinishOwnBye,
      SetDialogState, StopSession, At, Frame, Op, Step, Goto, TypeOK, Threads,
      IstState, AppState, Timer, istVars, dialogVars, mediaVars, requestVars
<1>29. ASSUME NEW t \in Threads, InvalidDialogTransition(t) PROVE TypeOK'
  <2>1. thread[t] \in Frame /\ thread[t].call \in Calls
    BY <1>29, BusyFacts DEF InvalidDialogTransition, At, TypeOK
  <2>2. app' \in [Calls -> AppState]
    BY <1>29, <2>1 DEF InvalidDialogTransition, TypeOK, AppState
  <2>3. thread' \in [Threads -> Frame]
    <3>1. CASE t = Receiver
      <4>1. Advance(t, "dead", thread[t].seen)
        BY <1>29, <3>1 DEF InvalidDialogTransition, Die
      <4>2. thread[t].seen \in IstState \cup DialogState \cup {"-"}
        BY <2>1 DEF Frame
      <4> QED BY <4>1, <4>2, AdvanceType DEF Step
    <3>2. CASE t # Receiver
      BY <1>29, <3>2, IdleType DEF InvalidDialogTransition, Goto, TypeOK
    <3> QED BY <3>1, <3>2
  <2> QED BY <1>29, <2>2, <2>3 DEF InvalidDialogTransition, TypeOK, istVars,
      dialogVars, mediaVars, requestVars
<1>30. ASSUME UNCHANGED vars PROVE TypeOK'
  BY <1>30 DEF TypeOK, vars, istVars, dialogVars, mediaVars, requestVars
<1> QED
  BY <1>1, <1>2, <1>3, <1>4, <1>5, <1>6, <1>7, <1>8, <1>9, <1>10, <1>11, <1>12,
      <1>13, <1>14, <1>15, <1>16, <1>17, <1>18, <1>19, <1>20, <1>21, <1>22,
      <1>23, <1>24, <1>25, <1>26, <1>27, <1>28, <1>29, <1>30
  DEF Next, Peer, Application, Work, TransactionStep, DialogStep

(* A step of thread t on a known call keeps every reference to a known     *)
(* call: t stays on its call or becomes idle.                              *)
LEMMA AnchoredPreserved ==
    ASSUME TypeOK, Anchored, NEW t \in Threads, thread[t].step # "idle",
           \A u \in Threads \ {t} : thread'[u] = thread[u],
           thread'[t].step = "idle" \/ thread'[t].call = thread[t].call,
           UNCHANGED <<responses, dialogs, byeOut, app>>,
           table' \subseteq table,
           \A c \in Calls \ {thread[t].call} : timers'[c] = timers[c]
    PROVE  Anchored'
<1>1. thread[t].call \in Calls /\ Known(thread[t].call)
  BY DEF Anchored
<1>2. \A u \in Threads : thread'[u].step # "idle" =>
            thread'[u].call \in Calls /\ responses'[thread'[u].call] # <<>>
  BY <1>1 DEF Anchored, Known
<1>3. \A c \in Calls : (Known(c))' <=> Known(c)
  BY DEF Known
<1>4. ASSUME NEW c \in Calls
      PROVE  \/ app'[c] # "none" /\ (Known(c))'
             \/ /\ app'[c] = "none" /\ ~(Known(c))'
                /\ c \notin table' /\ c \notin dialogs' /\ c \notin byeOut'
                /\ \A x \in Timer : timers'[c][x] = 0
  <2>1. CASE Known(c)
    BY <1>3, <2>1 DEF Anchored
  <2>2. CASE ~Known(c)
    <3>1. timers'[c] = timers[c]
      BY <1>1, <2>2
    <3> QED BY <1>3, <2>2, <3>1 DEF Anchored
  <2> QED BY <2>1, <2>2
<1> QED BY <1>2, <1>4 DEF Anchored, Known

(* Every action works on known calls only, and leaves them known.           *)
LEMMA AnchoredStep ==
    ASSUME TypeOK, Anchored, Owner, [Next]_vars
    PROVE  Anchored'
<1>1. ASSUME NEW c \in Calls, HandleInitialInvite(c) PROVE Anchored'
  BY <1>1, IdleType DEF HandleInitialInvite, At, Goto, Threads, Anchored,
      Known, TypeOK, Frame, istVars, dialogVars, mediaVars, requestVars
<1>2. ASSUME NEW c \in Calls, ReceiveInviteAgain(c) PROVE Anchored'
  BY <1>2, IdleType DEF ReceiveInviteAgain, At, Goto, Threads, Anchored, Known,
      TypeOK, Frame, istVars, dialogVars, mediaVars, requestVars
<1>3. ASSUME NEW c \in Calls, ReceiveAckOfError(c) PROVE Anchored'
  BY <1>3, IdleType DEF ReceiveAckOfError, At, Goto, Threads, Anchored, Known,
      TypeOK, Frame, istVars, dialogVars, mediaVars, requestVars
<1>4. ASSUME NEW c \in Calls, HandleAck(c) PROVE Anchored'
  BY <1>4, IdleType DEF HandleAck, At, Goto, Threads, Anchored, Known, TypeOK,
      Frame, istVars, dialogVars, mediaVars, requestVars
<1>5. ASSUME NEW c \in Calls, HandleCancel(c) PROVE Anchored'
  BY <1>5, IdleType DEF HandleCancel, At, Goto, Threads, Anchored, Known,
      TypeOK, Frame, istVars, dialogVars, mediaVars, requestVars
<1>6. ASSUME NEW c \in Calls, HandleBye(c) PROVE Anchored'
  BY <1>6, IdleType DEF HandleBye, At, Goto, Threads, Anchored, Known, TypeOK,
      Frame, istVars, dialogVars, mediaVars, requestVars
<1>7. ASSUME NEW c \in Calls, ByeSuccessResponseReceived(c) PROVE Anchored'
  BY <1>7, IdleType DEF ByeSuccessResponseReceived, At, Goto, Threads,
      Anchored, Known, TypeOK, Frame, istVars, dialogVars, mediaVars,
      requestVars
<1>8. ASSUME NEW t \in AppThreads, NEW c \in Calls, AcceptCall(t, c)
      PROVE Anchored'
  BY <1>8, IdleType DEF AcceptCall, At, Goto, Threads, Anchored, Known, TypeOK,
      Frame, istVars, dialogVars, mediaVars, requestVars
<1>9. ASSUME NEW t \in AppThreads, NEW c \in Calls, RejectCall(t, c)
      PROVE Anchored'
  BY <1>9, IdleType DEF RejectCall, At, Goto, Threads, Anchored, Known, TypeOK,
      Frame, istVars, dialogVars, mediaVars, requestVars
<1>10. ASSUME NEW t \in AppThreads, NEW c \in Calls, Terminate(t, c)
      PROVE Anchored'
  BY <1>10, IdleType DEF Terminate, At, Goto, Threads, Anchored, Known, TypeOK,
      Frame, istVars, dialogVars, mediaVars, requestVars
<1>11. ASSUME NEW c \in Calls, NEW x \in Timer, TimerFires(c, x)
      PROVE Anchored'
  BY <1>11, IdleType DEF TimerFires, At, Goto, Threads, Anchored, Known,
      TypeOK, Frame, istVars, dialogVars, mediaVars, requestVars
<1>12. ASSUME NEW t \in Threads, AppendResponse(t) PROVE Anchored'
  <2>1. thread[t].call \in Calls /\ Known(thread[t].call)
    BY <1>12, BusyFacts DEF AppendResponse, At
  <2>2. /\ \A u \in Threads \ {t} : thread'[u] = thread[u]
        /\ thread'[t].call = thread[t].call
    BY <1>12, AdvanceType DEF AppendResponse, Step
  <2>3. \A c \in Calls : (Known(c))' <=> Known(c)
    BY <1>12, <2>1, AppendType DEF AppendResponse, Known
  <2> QED BY <1>12, <2>1, <2>2, <2>3 DEF AppendResponse, At, Anchored,
      dialogVars, requestVars
<1>13. ASSUME NEW t \in Threads, DispatchResponse(t) PROVE Anchored'
  <2>1. ist[thread[t].call] \in IstState /\ thread[t].step # "idle"
    BY <1>13, BusyFacts DEF DispatchResponse, At, TypeOK
  <2>2. /\ \A u \in Threads \ {t} : thread'[u] = thread[u]
        /\ thread'[t].call = thread[t].call
    BY <1>13, <2>1, AdvanceType DEF DispatchResponse, Step
  <2> QED BY <1>13, <2>1, <2>2, AnchoredPreserved DEF DispatchResponse,
      istVars, dialogVars, requestVars
<1>14. ASSUME NEW t \in Threads, GenerateBye(t) PROVE Anchored'
  BY <1>14, IdleType, BusyFacts DEF GenerateBye, At, Goto, StopSession,
      Anchored, Known, TypeOK, Frame, istVars, dialogVars, mediaVars,
      requestVars
<1>15. ASSUME NEW t \in Threads, ProceedingReceivedInvite(t) PROVE Anchored'
  <2>1. thread[t].step # "idle" /\ thread[t].call \in Calls
    BY <1>15, HandlingFacts DEF ProceedingReceivedInvite
  <2>2. /\ \A u \in Threads \ {t} : thread'[u] = thread[u]
        /\ thread'[t].step = "idle" \/ thread'[t].call = thread[t].call
    BY <1>15, ReturnType, IdleType DEF ProceedingReceivedInvite
  <2> QED BY <1>15, <2>1, <2>2, AnchoredPreserved DEF ProceedingReceivedInvite,
      istVars, dialogVars, mediaVars, requestVars
<1>16. ASSUME NEW t \in Threads, ProceedingReceived2xx(t) PROVE Anchored'
  <2>1. thread[t].step # "idle" /\ thread[t].call \in Calls
    BY <1>16, HandlingFacts DEF ProceedingReceived2xx
  <2>2. /\ \A u \in Threads \ {t} : thread'[u] = thread[u]
        /\ thread'[t].step = "idle" \/ thread'[t].call = thread[t].call
    BY <1>16, ReturnType, IdleType DEF ProceedingReceived2xx
  <2> QED BY <1>16, <2>1, <2>2, AnchoredPreserved DEF ProceedingReceived2xx,
      istVars, dialogVars, mediaVars, requestVars
<1>17. ASSUME NEW t \in Threads, ProceedingReceived300To699(t) PROVE Anchored'
  <2>1. thread[t].step # "idle" /\ thread[t].call \in Calls
    BY <1>17, HandlingFacts DEF ProceedingReceived300To699
  <2>2. /\ \A u \in Threads \ {t} : thread'[u] = thread[u]
        /\ thread'[t].step = "idle" \/ thread'[t].call = thread[t].call
    BY <1>17, ReturnType, IdleType DEF ProceedingReceived300To699
  <2>3. \A c \in Calls \ {thread[t].call} : timers'[c] = timers[c]
    BY <1>17, <2>1, ScheduleType DEF ProceedingReceived300To699
  <2> QED BY <1>17, <2>1, <2>2, <2>3, AnchoredPreserved DEF
      ProceedingReceived300To699, istVars, dialogVars, mediaVars, requestVars
<1>18. ASSUME NEW t \in Threads, CompletedReceivedInvite(t) PROVE Anchored'
  <2>1. thread[t].step # "idle" /\ thread[t].call \in Calls
    BY <1>18, HandlingFacts DEF CompletedReceivedInvite
  <2>2. /\ \A u \in Threads \ {t} : thread'[u] = thread[u]
        /\ thread'[t].step = "idle" \/ thread'[t].call = thread[t].call
    BY <1>18, ReturnType, IdleType DEF CompletedReceivedInvite
  <2> QED BY <1>18, <2>1, <2>2, AnchoredPreserved DEF CompletedReceivedInvite,
      istVars, dialogVars, mediaVars, requestVars
<1>19. ASSUME NEW t \in Threads, CompletedReceivedAck(t) PROVE Anchored'
  <2>1. thread[t].step # "idle" /\ thread[t].call \in Calls
    BY <1>19, HandlingFacts DEF CompletedReceivedAck
  <2>2. /\ \A u \in Threads \ {t} : thread'[u] = thread[u]
        /\ thread'[t].step = "idle" \/ thread'[t].call = thread[t].call
    BY <1>19, ReturnType, IdleType DEF CompletedReceivedAck
  <2>3. \A c \in Calls \ {thread[t].call} : timers'[c] = timers[c]
    BY <1>19, <2>1, ScheduleType DEF CompletedReceivedAck
  <2> QED BY <1>19, <2>1, <2>2, <2>3, AnchoredPreserved DEF
      CompletedReceivedAck, istVars, dialogVars, mediaVars, requestVars
<1>20. ASSUME NEW t \in Threads, CompletedTimerG(t) PROVE Anchored'
  <2>1. thread[t].step # "idle" /\ thread[t].call \in Calls
    BY <1>20, HandlingFacts DEF CompletedTimerG
  <2>2. /\ \A u \in Threads \ {t} : thread'[u] = thread[u]
        /\ thread'[t].step = "idle" \/ thread'[t].call = thread[t].call
    BY <1>20, ReturnType, IdleType DEF CompletedTimerG
  <2>3. \A c \in Calls \ {thread[t].call} : timers'[c] = timers[c]
    BY <1>20, <2>1, ScheduleType DEF CompletedTimerG
  <2> QED BY <1>20, <2>1, <2>2, <2>3, AnchoredPreserved DEF CompletedTimerG,
      istVars, dialogVars, mediaVars, requestVars
<1>21. ASSUME NEW t \in Threads, CompletedTimerH(t) PROVE Anchored'
  <2>1. thread[t].step # "idle" /\ thread[t].call \in Calls
    BY <1>21, HandlingFacts DEF CompletedTimerH
  <2>2. /\ \A u \in Threads \ {t} : thread'[u] = thread[u]
        /\ thread'[t].step = "idle" \/ thread'[t].call = thread[t].call
    BY <1>21, ReturnType, IdleType DEF CompletedTimerH
  <2> QED BY <1>21, <2>1, <2>2, AnchoredPreserved DEF CompletedTimerH, istVars,
      dialogVars, mediaVars, requestVars
<1>22. ASSUME NEW t \in Threads, ConfirmedTimerI(t) PROVE Anchored'
  <2>1. thread[t].step # "idle" /\ thread[t].call \in Calls
    BY <1>22, HandlingFacts DEF ConfirmedTimerI
  <2>2. /\ \A u \in Threads \ {t} : thread'[u] = thread[u]
        /\ thread'[t].step = "idle" \/ thread'[t].call = thread[t].call
    BY <1>22, ReturnType, IdleType DEF ConfirmedTimerI
  <2> QED BY <1>22, <2>1, <2>2, AnchoredPreserved DEF ConfirmedTimerI, istVars,
      dialogVars, mediaVars, requestVars
<1>23. ASSUME NEW t \in Threads, Ignored(t) PROVE Anchored'
  <2>1. thread[t].step # "idle"
    BY <1>23 DEF Ignored
  <2>2. /\ \A u \in Threads \ {t} : thread'[u] = thread[u]
        /\ thread'[t].step = "idle" \/ thread'[t].call = thread[t].call
    BY <1>23, ReturnType, IdleType DEF Ignored
  <2> QED BY <1>23, <2>1, <2>2, AnchoredPreserved DEF Ignored, istVars,
      dialogVars, mediaVars, requestVars
<1>24. ASSUME NEW t \in Threads, DialogDispatch(t) PROVE Anchored'
  <2>1. dialog[thread[t].call] \in DialogState /\ thread[t].step # "idle"
    BY <1>24, BusyFacts DEF DialogDispatch, At, TypeOK
  <2>2. /\ \A u \in Threads \ {t} : thread'[u] = thread[u]
        /\ thread'[t].call = thread[t].call
    BY <1>24, <2>1, AdvanceType DEF DialogDispatch, Step
  <2> QED BY <1>24, <2>1, <2>2, AnchoredPreserved DEF DialogDispatch, istVars,
      dialogVars, requestVars
<1>25. ASSUME NEW t \in Threads, FinishAccept(t) PROVE Anchored'
  BY <1>25, IdleType, AdvanceType, BusyFacts DEF FinishAccept, SetDialogState,
      Die, Goto, StopSession, At, Step, Anchored, Known, TypeOK, Frame,
      istVars, dialogVars, mediaVars, requestVars
<1>26. ASSUME NEW t \in Threads, FinishRefusal(t) PROVE Anchored'
  BY <1>26, IdleType, AdvanceType, BusyFacts DEF FinishRefusal, SetDialogState,
      Die, Goto, StopSession, At, Step, Anchored, Known, TypeOK, Frame,
      istVars, dialogVars, mediaVars, requestVars
<1>27. ASSUME NEW t \in Threads, FinishBye(t) PROVE Anchored'
  BY <1>27, IdleType, AdvanceType, BusyFacts DEF FinishBye, SetDialogState,
      Die, Goto, StopSession, At, Step, Anchored, Known, TypeOK, Frame,
      istVars, dialogVars, mediaVars, requestVars
<1>28. ASSUME NEW t \in Threads, FinishOwnBye(t) PROVE Anchored'
  BY <1>28, IdleType, AdvanceType, BusyFacts DEF FinishOwnBye, SetDialogState,
      Die, Goto, StopSession, At, Step, Anchored, Known, TypeOK, Frame,
      istVars, dialogVars, mediaVars, requestVars
<1>29. ASSUME NEW t \in Threads, InvalidDialogTransition(t) PROVE Anchored'
  <2>1. thread[t] \in Frame /\ thread[t].call \in Calls /\
      Known(thread[t].call)
    BY <1>29, BusyFacts DEF InvalidDialogTransition, At, TypeOK
  <2>2. CASE t = Receiver
    <3>1. Advance(t, "dead", thread[t].seen) /\ UNCHANGED app /\ thread[t].step
        # "idle"
      BY <1>29, <2>2 DEF InvalidDialogTransition, Die, At
    <3>2. thread[t].seen \in IstState \cup DialogState \cup {"-"}
      BY <2>1 DEF Frame
    <3>3. /\ \A u \in Threads \ {t} : thread'[u] = thread[u]
          /\ thread'[t].call = thread[t].call
      BY <3>1, <3>2, AdvanceType DEF Step
    <3> QED BY <1>29, <3>1, <3>3, AnchoredPreserved
            DEF InvalidDialogTransition, istVars, dialogVars, requestVars
  <2>3. CASE t # Receiver
    BY <1>29, <2>1, <2>3, IdleType
    DEF InvalidDialogTransition, Goto, Anchored, Known, TypeOK, istVars,
        dialogVars, requestVars
  <2> QED BY <2>2, <2>3
<1>30. ASSUME UNCHANGED vars PROVE Anchored'
  BY <1>30 DEF Anchored, Known, vars, istVars, dialogVars, mediaVars,
      requestVars
<1> QED
  BY <1>1, <1>2, <1>3, <1>4, <1>5, <1>6, <1>7, <1>8, <1>9, <1>10, <1>11, <1>12,
      <1>13, <1>14, <1>15, <1>16, <1>17, <1>18, <1>19, <1>20, <1>21, <1>22,
      <1>23, <1>24, <1>25, <1>26, <1>27, <1>28, <1>29, <1>30
  DEF Next, Peer, Application, Work, TransactionStep, DialogStep

(* What the application knows of a call whose thread is known changes in   *)
(* two ways that frames may rely on: it does not ring again, and once over *)
(* it stays over.                                                          *)
AppAdvances ==
    \A c \in Calls : Known(c) =>
        /\ app'[c] = "ringing" => app[c] = "ringing"
        /\ app[c] = "over" => app'[c] = "over"

LEMMA FrameKept ==
    ASSUME Anchored, Owner, AppAdvances, NEW u \in Threads, thread'[u] = thread[u]
    PROVE  FrameOK(u)'
<1>1. FrameOK(u)
  BY DEF Owner
<1>2. CASE thread[u].step = "idle"
  BY <1>1, <1>2 DEF FrameOK, StepsOf, Timer
<1>3. CASE thread[u].step # "idle"
  BY <1>1, <1>3 DEF FrameOK, Anchored, AppAdvances
<1> QED BY <1>2, <1>3

(* It is enough to look at the thread that moves.                          *)
LEMMA OwnerPreserved ==
    ASSUME Anchored, Owner, AppAdvances, NEW t \in Threads, FrameOK(t)',
           \A u \in Threads \ {t} : thread'[u] = thread[u],
           \A c \in byeOut' : c \in Calls /\ (c \in byeOut \/ app'[c] = "over")
    PROVE  Owner'
<1>1. \A u \in Threads : FrameOK(u)'
  BY FrameKept
<1>2. \A c \in byeOut' : app'[c] = "over"
  BY DEF Owner, Anchored, AppAdvances
<1> QED BY <1>1, <1>2 DEF Owner

LEMMA IdleFrame ==
    ASSUME NEW t \in Threads, thread'[t] = Idle
    PROVE  FrameOK(t)'
BY DEF FrameOK, StepsOf, Idle, Timer

LEMMA AdvanceFrame ==
    ASSUME Owner, UNCHANGED app, NEW t \in Threads, NEW step,
           step \in StepsOf(thread[t].op),
           thread'[t].step = step, thread'[t].op = thread[t].op,
           thread'[t].call = thread[t].call
    PROVE  FrameOK(t)'
BY DEF Owner, FrameOK

LEMMA ReturnFrame ==
    ASSUME TypeOK, Owner, UNCHANGED app, NEW t \in Threads, Return(t)
    PROVE  FrameOK(t)'
<1>1. thread[t].step \in StepsOf(thread[t].op)
  BY DEF Owner, FrameOK
<1>2. CASE thread'[t] = Idle
  BY <1>2, IdleFrame
<1>3. CASE thread'[t] # Idle
  <2>1. /\ thread'[t].op = thread[t].op
        /\ thread'[t].call = thread[t].call
        /\ thread'[t].step \in StepsOf(thread[t].op)
    BY <1>1, <1>3, ReturnType DEF StepsOf, Timer
  <2> QED BY <2>1, AdvanceFrame
<1> QED BY <1>2, <1>3

(* Every action leaves the frames consistent with what the application     *)
(* knows of their calls.                                                   *)
LEMMA OwnerStep ==
    ASSUME TypeOK, Anchored, Owner, [Next]_vars
    PROVE  Owner'
<1>1. ASSUME NEW c \in Calls, HandleInitialInvite(c) PROVE Owner'
  <2>1. AppAdvances
    BY <1>1 DEF HandleInitialInvite, AppAdvances, Anchored, TypeOK
  <2>2. FrameOK(Receiver)'
    BY <1>1, <2>1, FrameKept DEF HandleInitialInvite, Threads
  <2> QED BY <1>1, <2>1, <2>2, OwnerPreserved DEF HandleInitialInvite, Threads,
      TypeOK, requestVars
<1>2. ASSUME NEW c \in Calls, ReceiveInviteAgain(c) PROVE Owner'
  <2>1. AppAdvances
    BY <1>2 DEF ReceiveInviteAgain, AppAdvances
  <2>2. \A u \in Threads \ {Receiver} : thread'[u] = thread[u]
    BY <1>2 DEF ReceiveInviteAgain, Goto, TypeOK
  <2>3. FrameOK(Receiver)'
    BY <1>2, <2>1, FrameKept DEF ReceiveInviteAgain, Goto, TypeOK, Owner,
        FrameOK, StepsOf, Timer, Threads
  <2> QED BY <1>2, <2>1, <2>2, <2>3, OwnerPreserved DEF ReceiveInviteAgain,
      Threads, TypeOK, requestVars
<1>3. ASSUME NEW c \in Calls, ReceiveAckOfError(c) PROVE Owner'
  <2>1. AppAdvances
    BY <1>3 DEF ReceiveAckOfError, AppAdvances
  <2>2. \A u \in Threads \ {Receiver} : thread'[u] = thread[u]
    BY <1>3 DEF ReceiveAckOfError, Goto, TypeOK
  <2>3. FrameOK(Receiver)'
    BY <1>3, <2>1, FrameKept DEF ReceiveAckOfError, Goto, TypeOK, Owner,
        FrameOK, StepsOf, Timer, Threads
  <2> QED BY <1>3, <2>1, <2>2, <2>3, OwnerPreserved DEF ReceiveAckOfError,
      Threads, TypeOK, requestVars
<1>4. ASSUME NEW c \in Calls, HandleAck(c) PROVE Owner'
  <2>1. AppAdvances
    BY <1>4 DEF HandleAck, AppAdvances
  <2>2. \A u \in Threads \ {Receiver} : thread'[u] = thread[u]
    BY <1>4 DEF HandleAck, Goto, TypeOK
  <2>3. FrameOK(Receiver)'
    BY <1>4, <2>1, FrameKept DEF HandleAck, Goto, TypeOK, Owner, FrameOK,
        StepsOf, Timer, Threads
  <2> QED BY <1>4, <2>1, <2>2, <2>3, OwnerPreserved DEF HandleAck, Threads,
      TypeOK, requestVars
<1>5. ASSUME NEW c \in Calls, HandleCancel(c) PROVE Owner'
  <2>1. AppAdvances
    BY <1>5 DEF HandleCancel, AppAdvances
  <2>2. \A u \in Threads \ {Receiver} : thread'[u] = thread[u]
    BY <1>5 DEF HandleCancel, Goto, TypeOK
  <2>3. FrameOK(Receiver)'
    BY <1>5, <2>1, FrameKept DEF HandleCancel, Goto, TypeOK, Owner, FrameOK,
        StepsOf, Timer, Threads
  <2> QED BY <1>5, <2>1, <2>2, <2>3, OwnerPreserved DEF HandleCancel, Threads,
      TypeOK, requestVars
<1>6. ASSUME NEW c \in Calls, HandleBye(c) PROVE Owner'
  <2>1. AppAdvances
    BY <1>6 DEF HandleBye, AppAdvances
  <2>2. \A u \in Threads \ {Receiver} : thread'[u] = thread[u]
    BY <1>6 DEF HandleBye, Goto, TypeOK
  <2>3. FrameOK(Receiver)'
    BY <1>6, <2>1, FrameKept DEF HandleBye, Goto, TypeOK, Owner, FrameOK,
        StepsOf, Timer, Threads
  <2> QED BY <1>6, <2>1, <2>2, <2>3, OwnerPreserved DEF HandleBye, Threads,
      TypeOK, requestVars
<1>7. ASSUME NEW c \in Calls, ByeSuccessResponseReceived(c) PROVE Owner'
  <2>1. AppAdvances
    BY <1>7 DEF ByeSuccessResponseReceived, AppAdvances
  <2>2. \A u \in Threads \ {Receiver} : thread'[u] = thread[u]
    BY <1>7 DEF ByeSuccessResponseReceived, Goto, TypeOK
  <2>3. FrameOK(Receiver)'
    BY <1>7, <2>1, FrameKept DEF ByeSuccessResponseReceived, Goto, TypeOK,
        Owner, FrameOK, StepsOf, Timer, Threads
  <2> QED BY <1>7, <2>1, <2>2, <2>3, OwnerPreserved DEF
      ByeSuccessResponseReceived, Threads, TypeOK, requestVars
<1>8. ASSUME NEW t \in AppThreads, NEW c \in Calls, AcceptCall(t, c)
      PROVE Owner'
  <2>1. AppAdvances
    BY <1>8 DEF AcceptCall, AppAdvances, TypeOK
  <2>2. \A u \in Threads \ {t} : thread'[u] = thread[u]
    BY <1>8 DEF AcceptCall, Goto, TypeOK
  <2>3. FrameOK(t)'
    BY <1>8 DEF AcceptCall, Goto, TypeOK, FrameOK, StepsOf, Timer, Threads
  <2> QED BY <1>8, <2>1, <2>2, <2>3, OwnerPreserved DEF AcceptCall, Threads,
      TypeOK, requestVars
<1>9. ASSUME NEW t \in AppThreads, NEW c \in Calls, RejectCall(t, c)
      PROVE Owner'
  <2>1. AppAdvances
    BY <1>9 DEF RejectCall, AppAdvances, TypeOK
  <2>2. \A u \in Threads \ {t} : thread'[u] = thread[u]
    BY <1>9 DEF RejectCall, Goto, TypeOK
  <2>3. FrameOK(t)'
    BY <1>9 DEF RejectCall, Goto, TypeOK, FrameOK, StepsOf, Timer, Threads
  <2> QED BY <1>9, <2>1, <2>2, <2>3, OwnerPreserved DEF RejectCall, Threads,
      TypeOK, requestVars
<1>10. ASSUME NEW t \in AppThreads, NEW c \in Calls, Terminate(t, c)
      PROVE Owner'
  <2>1. AppAdvances
    BY <1>10 DEF Terminate, AppAdvances, TypeOK
  <2>2. \A u \in Threads \ {t} : thread'[u] = thread[u]
    BY <1>10 DEF Terminate, Goto, TypeOK
  <2>3. FrameOK(t)'
    BY <1>10 DEF Terminate, Goto, TypeOK, FrameOK, StepsOf, Timer, Threads
  <2> QED BY <1>10, <2>1, <2>2, <2>3, OwnerPreserved DEF Terminate, Threads,
      TypeOK, requestVars
<1>11. ASSUME NEW c \in Calls, NEW x \in Timer, TimerFires(c, x) PROVE Owner'
  <2>1. AppAdvances
    BY <1>11 DEF TimerFires, AppAdvances
  <2>2. \A u \in Threads \ {TimerThread} : thread'[u] = thread[u]
    BY <1>11 DEF TimerFires, Goto, TypeOK
  <2>3. FrameOK(TimerThread)'
    BY <1>11 DEF TimerFires, Goto, TypeOK, FrameOK, StepsOf, Timer, Threads
  <2> QED BY <1>11, <2>1, <2>2, <2>3, OwnerPreserved DEF TimerFires, Threads,
      TypeOK, requestVars
<1>12. ASSUME NEW t \in Threads, AppendResponse(t) PROVE Owner'
  <2>1. /\ \A u \in Threads \ {t} : thread'[u] = thread[u]
        /\ thread'[t].call = thread[t].call
        /\ thread'[t].op = thread[t].op
        /\ thread'[t].step = "dispatch"
    BY <1>12, AdvanceType DEF AppendResponse, Step
  <2>2. "dispatch" \in StepsOf(thread[t].op)
    BY <1>12 DEF AppendResponse, At, Owner, FrameOK, StepsOf, Timer
  <2>3. FrameOK(t)' /\ AppAdvances
    BY <1>12, <2>1, <2>2, AdvanceFrame DEF AppendResponse, AppAdvances
  <2> QED BY <1>12, <2>1, <2>3, OwnerPreserved DEF AppendResponse, TypeOK,
      requestVars
<1>13. ASSUME NEW t \in Threads, DispatchResponse(t) PROVE Owner'
  <2>1. ist[thread[t].call] \in IstState
    BY <1>13, BusyFacts DEF DispatchResponse, At, TypeOK
  <2>2. /\ \A u \in Threads \ {t} : thread'[u] = thread[u]
        /\ thread'[t].call = thread[t].call
        /\ thread'[t].op = thread[t].op
        /\ thread'[t].step = "response"
    BY <1>13, <2>1, AdvanceType DEF DispatchResponse, Step
  <2>3. "response" \in StepsOf(thread[t].op)
    BY <1>13 DEF DispatchResponse, At, Owner, FrameOK, StepsOf, Timer
  <2>4. FrameOK(t)' /\ AppAdvances
    BY <1>13, <2>2, <2>3, AdvanceFrame DEF DispatchResponse, AppAdvances
  <2> QED BY <1>13, <2>2, <2>4, OwnerPreserved DEF DispatchResponse, TypeOK,
      requestVars
<1>14. ASSUME NEW t \in Threads, GenerateBye(t) PROVE Owner'
  <2>1. AppAdvances
    BY <1>14 DEF GenerateBye, AppAdvances
  <2>2. thread'[t] = Idle /\ \A u \in Threads \ {t} : thread'[u] = thread[u]
    BY <1>14 DEF GenerateBye, Goto, TypeOK
  <2>3. thread[t].op = "hangup"
    <3>1. "terminate" \in StepsOf(thread[t].op)
      BY <1>14 DEF GenerateBye, At, Owner, FrameOK
    <3> QED BY <3>1 DEF StepsOf
  <2>4. thread[t].call \in Calls /\ app[thread[t].call] = "over"
    BY <1>14, <2>3, BusyFacts DEF GenerateBye, At, Owner, FrameOK
  <2> QED BY <1>14, <2>1, <2>2, <2>4, IdleFrame, OwnerPreserved DEF
      GenerateBye, TypeOK
<1>15. ASSUME NEW t \in Threads, ProceedingReceivedInvite(t) PROVE Owner'
  <2>1. FrameOK(t)' /\ AppAdvances
    BY <1>15, ReturnFrame DEF ProceedingReceivedInvite, AppAdvances
  <2>2. \A u \in Threads \ {t} : thread'[u] = thread[u]
    BY <1>15, ReturnType DEF ProceedingReceivedInvite
  <2> QED BY <1>15, <2>1, <2>2, OwnerPreserved DEF ProceedingReceivedInvite,
      TypeOK, istVars, requestVars
<1>16. ASSUME NEW t \in Threads, ProceedingReceived2xx(t) PROVE Owner'
  <2>1. FrameOK(t)' /\ AppAdvances
    BY <1>16, ReturnFrame DEF ProceedingReceived2xx, AppAdvances
  <2>2. \A u \in Threads \ {t} : thread'[u] = thread[u]
    BY <1>16, ReturnType DEF ProceedingReceived2xx
  <2> QED BY <1>16, <2>1, <2>2, OwnerPreserved DEF ProceedingReceived2xx,
      TypeOK, istVars, requestVars
<1>17. ASSUME NEW t \in Threads, ProceedingReceived300To699(t) PROVE Owner'
  <2>1. FrameOK(t)' /\ AppAdvances
    BY <1>17, ReturnFrame DEF ProceedingReceived300To699, AppAdvances
  <2>2. \A u \in Threads \ {t} : thread'[u] = thread[u]
    BY <1>17, ReturnType DEF ProceedingReceived300To699
  <2> QED BY <1>17, <2>1, <2>2, OwnerPreserved DEF ProceedingReceived300To699,
      TypeOK, istVars, requestVars
<1>18. ASSUME NEW t \in Threads, CompletedReceivedInvite(t) PROVE Owner'
  <2>1. FrameOK(t)' /\ AppAdvances
    BY <1>18, ReturnFrame DEF CompletedReceivedInvite, AppAdvances
  <2>2. \A u \in Threads \ {t} : thread'[u] = thread[u]
    BY <1>18, ReturnType DEF CompletedReceivedInvite
  <2> QED BY <1>18, <2>1, <2>2, OwnerPreserved DEF CompletedReceivedInvite,
      TypeOK, istVars, requestVars
<1>19. ASSUME NEW t \in Threads, CompletedReceivedAck(t) PROVE Owner'
  <2>1. FrameOK(t)' /\ AppAdvances
    BY <1>19, ReturnFrame DEF CompletedReceivedAck, AppAdvances
  <2>2. \A u \in Threads \ {t} : thread'[u] = thread[u]
    BY <1>19, ReturnType DEF CompletedReceivedAck
  <2> QED BY <1>19, <2>1, <2>2, OwnerPreserved DEF CompletedReceivedAck,
      TypeOK, istVars, requestVars
<1>20. ASSUME NEW t \in Threads, CompletedTimerG(t) PROVE Owner'
  <2>1. FrameOK(t)' /\ AppAdvances
    BY <1>20, ReturnFrame DEF CompletedTimerG, AppAdvances
  <2>2. \A u \in Threads \ {t} : thread'[u] = thread[u]
    BY <1>20, ReturnType DEF CompletedTimerG
  <2> QED BY <1>20, <2>1, <2>2, OwnerPreserved DEF CompletedTimerG, TypeOK,
      istVars, requestVars
<1>21. ASSUME NEW t \in Threads, CompletedTimerH(t) PROVE Owner'
  <2>1. FrameOK(t)' /\ AppAdvances
    BY <1>21, ReturnFrame DEF CompletedTimerH, AppAdvances
  <2>2. \A u \in Threads \ {t} : thread'[u] = thread[u]
    BY <1>21, ReturnType DEF CompletedTimerH
  <2> QED BY <1>21, <2>1, <2>2, OwnerPreserved DEF CompletedTimerH, TypeOK,
      istVars, requestVars
<1>22. ASSUME NEW t \in Threads, ConfirmedTimerI(t) PROVE Owner'
  <2>1. FrameOK(t)' /\ AppAdvances
    BY <1>22, ReturnFrame DEF ConfirmedTimerI, AppAdvances
  <2>2. \A u \in Threads \ {t} : thread'[u] = thread[u]
    BY <1>22, ReturnType DEF ConfirmedTimerI
  <2> QED BY <1>22, <2>1, <2>2, OwnerPreserved DEF ConfirmedTimerI, TypeOK,
      istVars, requestVars
<1>23. ASSUME NEW t \in Threads, Ignored(t) PROVE Owner'
  <2>1. FrameOK(t)' /\ AppAdvances
    BY <1>23, ReturnFrame DEF Ignored, AppAdvances
  <2>2. \A u \in Threads \ {t} : thread'[u] = thread[u]
    BY <1>23, ReturnType DEF Ignored
  <2> QED BY <1>23, <2>1, <2>2, OwnerPreserved DEF Ignored, TypeOK, istVars,
      requestVars
<1>24. ASSUME NEW t \in Threads, DialogDispatch(t) PROVE Owner'
  <2>1. dialog[thread[t].call] \in DialogState
    BY <1>24, BusyFacts DEF DialogDispatch, At, TypeOK
  <2>2. /\ \A u \in Threads \ {t} : thread'[u] = thread[u]
        /\ thread'[t].call = thread[t].call
        /\ thread'[t].op = thread[t].op
        /\ thread'[t].step = "dialogRun"
    BY <1>24, <2>1, AdvanceType DEF DialogDispatch, Step
  <2>3. "dialogRun" \in StepsOf(thread[t].op)
    BY <1>24 DEF DialogDispatch, At, Owner, FrameOK, StepsOf, Timer
  <2>4. FrameOK(t)' /\ AppAdvances
    BY <1>24, <2>2, <2>3, AdvanceFrame DEF DialogDispatch, AppAdvances
  <2> QED BY <1>24, <2>2, <2>4, OwnerPreserved DEF DialogDispatch, TypeOK,
      requestVars
<1>25. ASSUME NEW t \in Threads, FinishAccept(t) PROVE Owner'
  <2>1. AppAdvances
    BY <1>25 DEF FinishAccept, AppAdvances, TypeOK
  <2>2. thread'[t] = Idle /\ \A u \in Threads \ {t} : thread'[u] = thread[u]
    BY <1>25 DEF FinishAccept, Goto, TypeOK
  <2>3. thread[t].call \in Calls
    BY <1>25, BusyFacts DEF FinishAccept, SetDialogState, At
  <2> QED BY <1>25, <2>1, <2>2, <2>3, IdleFrame, OwnerPreserved DEF
      FinishAccept, TypeOK, requestVars
<1>26. ASSUME NEW t \in Threads, FinishRefusal(t) PROVE Owner'
  <2>1. AppAdvances
    BY <1>26 DEF FinishRefusal, AppAdvances, TypeOK
  <2>2. thread'[t] = Idle /\ \A u \in Threads \ {t} : thread'[u] = thread[u]
    BY <1>26 DEF FinishRefusal, Goto, TypeOK
  <2>3. thread[t].call \in Calls
    BY <1>26, BusyFacts DEF FinishRefusal, SetDialogState, At
  <2> QED BY <1>26, <2>1, <2>2, <2>3, IdleFrame, OwnerPreserved DEF
      FinishRefusal, TypeOK, requestVars
<1>27. ASSUME NEW t \in Threads, FinishBye(t) PROVE Owner'
  <2>1. AppAdvances
    BY <1>27 DEF FinishBye, AppAdvances, TypeOK
  <2>2. thread'[t] = Idle /\ \A u \in Threads \ {t} : thread'[u] = thread[u]
    BY <1>27 DEF FinishBye, Goto, TypeOK
  <2>3. thread[t].call \in Calls
    BY <1>27, BusyFacts DEF FinishBye, SetDialogState, At
  <2> QED BY <1>27, <2>1, <2>2, <2>3, IdleFrame, OwnerPreserved DEF FinishBye,
      TypeOK, requestVars
<1>28. ASSUME NEW t \in Threads, FinishOwnBye(t) PROVE Owner'
  <2>1. AppAdvances
    BY <1>28 DEF FinishOwnBye, AppAdvances, TypeOK
  <2>2. thread'[t] = Idle /\ \A u \in Threads \ {t} : thread'[u] = thread[u]
    BY <1>28 DEF FinishOwnBye, Goto, TypeOK
  <2>3. thread[t].call \in Calls
    BY <1>28, BusyFacts DEF FinishOwnBye, SetDialogState, At
  <2> QED BY <1>28, <2>1, <2>2, <2>3, IdleFrame, OwnerPreserved DEF
      FinishOwnBye, TypeOK, requestVars
<1>29. ASSUME NEW t \in Threads, InvalidDialogTransition(t) PROVE Owner'
  <2>1. thread[t] \in Frame /\ thread[t].call \in Calls /\ thread[t].step =
      "dialogRun"
    BY <1>29, BusyFacts DEF InvalidDialogTransition, At, TypeOK
  <2>2. CASE t = Receiver
    <3>1. Advance(t, "dead", thread[t].seen) /\ UNCHANGED app
      BY <1>29, <2>2 DEF InvalidDialogTransition, Die
    <3>2. thread[t].seen \in IstState \cup DialogState \cup {"-"}
      BY <2>1 DEF Frame
    <3>3. /\ \A u \in Threads \ {t} : thread'[u] = thread[u]
          /\ thread'[t].call = thread[t].call
          /\ thread'[t].op = thread[t].op
          /\ thread'[t].step = "dead"
      BY <3>1, <3>2, AdvanceType DEF Step
    <3>4. "dead" \in StepsOf(thread[t].op)
      BY <2>1, <2>2, ThreadsAssumption DEF Owner, FrameOK, StepsOf, Timer
    <3>5. FrameOK(t)' /\ AppAdvances
      BY <3>1, <3>3, <3>4, AdvanceFrame DEF AppAdvances
    <3> QED BY <1>29, <3>3, <3>5, OwnerPreserved DEF InvalidDialogTransition,
        TypeOK, requestVars
  <2>3. CASE t # Receiver
    <3>1. AppAdvances
      BY <1>29, <2>3 DEF InvalidDialogTransition, AppAdvances, TypeOK
    <3>2. thread'[t] = Idle /\ \A u \in Threads \ {t} : thread'[u] = thread[u]
      BY <1>29, <2>3 DEF InvalidDialogTransition, Goto, TypeOK
    <3> QED BY <1>29, <3>1, <3>2, IdleFrame, OwnerPreserved
            DEF InvalidDialogTransition, TypeOK, requestVars
  <2> QED BY <2>2, <2>3
<1>30. ASSUME UNCHANGED vars PROVE Owner'
  BY <1>30 DEF Owner, FrameOK, vars, requestVars
<1> QED
  BY <1>1, <1>2, <1>3, <1>4, <1>5, <1>6, <1>7, <1>8, <1>9, <1>10, <1>11, <1>12,
      <1>13, <1>14, <1>15, <1>16, <1>17, <1>18, <1>19, <1>20, <1>21, <1>22,
      <1>23, <1>24, <1>25, <1>26, <1>27, <1>28, <1>29, <1>30
  DEF Next, Peer, Application, Work, TransactionStep, DialogStep

-----------------------------------------------------------------------------
(***************************************************************************)
(* A ringing call                                                          *)
(***************************************************************************)

(* An action of thread t on call d leaves every other ringing call as it   *)
(* is, so that only d has to be looked at.                                 *)
LEMMA OthersKept ==
    ASSUME TypeOK, Ringing, NEW t \in Threads, NEW d \in Calls,
           \A u \in Threads \ {t} : thread'[u] = thread[u],
           thread[t].call = d \/ thread[t].op = "none",
           thread'[t].call = d \/ thread'[t] = Idle \/ thread'[t] = thread[t],
           \A c \in Calls \ {d} :
               /\ app'[c] = app[c]
               /\ c \in table => c \in table'
               /\ c \in dialogs => c \in dialogs'
               /\ timers'[c] = timers[c]
               /\ responses'[c] = responses[c]
               /\ sent'[c] = sent[c],
           app'[d] = "ringing" => Undecided(d)'
    PROVE  Ringing'
<1> SUFFICES ASSUME NEW c \in Calls, app'[c] = "ringing"
             PROVE  Undecided(c)'
  BY DEF Ringing
<1>1. CASE c = d
  BY <1>1
<1>2. CASE c # d
  <2>1. Undecided(c)
    BY <1>2 DEF Ringing
  <2>2. thread'[t].call # c \/ thread'[t] = thread[t]
    BY <1>2, IdleType, CallsAssumption
  <2>3. \A u \in Threads : thread'[u].call = c => thread'[u].op \notin {"ack", "I"}
    BY <2>1, <2>2 DEF Undecided
  <2>4. Cancelling(c) => Cancelling(c)'
    BY <1>2 DEF Cancelling, Threads
  <2> QED BY <1>2, <2>1, <2>3, <2>4 DEF Undecided
<1> QED BY <1>1, <1>2

(* A ringing call stays undecided when the last response is sent for it,   *)
(* or nothing.                                                             *)
LEMMA UndecidedKept ==
    ASSUME TypeOK, NEW t \in Threads, NEW d \in Calls, Undecided(d), Known(d),
           \A u \in Threads \ {t} : thread'[u] = thread[u],
           thread'[t].call = d => thread'[t].op \notin {"ack", "I"},
           Cancelling(d) => Cancelling(d)',
           d \in table' /\ d \in dialogs' /\ timers'[d]["I"] = timers[d]["I"],
           responses'[d] = responses[d],
           sent'[d] = sent[d] \/ sent'[d] = sent[d] \cup {Last(responses[d])}
    PROVE  Undecided(d)'
<1>1. responses[d] \in Seq(Codes) /\ responses[d] # <<>>
  BY DEF TypeOK, Known
<1>2. Len(responses[d]) \in DOMAIN responses[d]
  BY <1>1, LastIsCode
<1>3. Last(responses[d]) # 200 /\ (~Cancelling(d) => Last(responses[d]) = 180)
  BY <1>2 DEF Last, Undecided
<1>4. 200 \notin sent'[d] /\ (~Cancelling(d) => sent'[d] \subseteq {180})
  BY <1>3 DEF Undecided
<1>5. \A u \in Threads : thread'[u].call = d => thread'[u].op \notin {"ack", "I"}
  BY DEF Undecided
<1> QED BY <1>4, <1>5 DEF Undecided

(* The only operation that appends a response to a ringing call is the     *)
(* handling of a CANCEL.                                                   *)
LEMMA UndecidedAppend ==
    ASSUME TypeOK, NEW d \in Calls, Undecided(d), Cancelling(d)',
           \A u \in Threads : thread'[u].call = d => thread'[u].op \notin {"ack", "I"},
           UNCHANGED <<table, dialogs, timers, sent>>,
           responses'[d] = Append(responses[d], 487)
    PROVE  Undecided(d)'
<1>1. responses[d] \in Seq(Codes)
  BY DEF TypeOK
<1>2. \A i \in DOMAIN responses'[d] : responses'[d][i] # 200
  BY <1>1, AppendProperties DEF Undecided
<1> QED BY <1>2 DEF Undecided

(* Every action leaves a ringing call undecided.                           *)
LEMMA RingingStep ==
    ASSUME TypeOK, Anchored, Owner, Ringing, [Next]_vars
    PROVE  Ringing'
<1>1. ASSUME NEW c \in Calls, HandleInitialInvite(c) PROVE Ringing'
  <2>1. thread[Receiver].op = "none" /\ ~Known(c)
    BY <1>1 DEF HandleInitialInvite, At, Anchored, Owner, FrameOK, StepsOf,
        Timer, Threads
  <2>2. \A u \in Threads : thread[u].call = c => thread[u].op = "none"
    BY <2>1 DEF Anchored, Owner, FrameOK, StepsOf, Timer
  <2>3. /\ c \in table' /\ c \in dialogs' /\ timers'[c]["I"] = 0
        /\ sent'[c] = {180} /\ responses'[c] = <<180>> /\ UNCHANGED thread
    BY <1>1, <2>1 DEF HandleInitialInvite, Anchored, Timer, TypeOK
  <2>4. Undecided(c)'
    BY <2>2, <2>3 DEF Undecided
  <2> QED BY <1>1, <2>1, <2>3, <2>4, OthersKept DEF HandleInitialInvite,
      SetState, TypeOK, Threads
<1>2. ASSUME NEW c \in Calls, ReceiveInviteAgain(c) PROVE Ringing'
  <2>1. thread[Receiver].op = "none" /\ ~Cancelling(c)
    BY <1>2 DEF ReceiveInviteAgain, At, Owner, FrameOK, StepsOf, Timer,
        Threads, Cancelling
  <2>2. \A u \in Threads \ {Receiver} : thread'[u] = thread[u]
    BY <1>2 DEF ReceiveInviteAgain, Goto, TypeOK
  <2>3. thread'[Receiver].op = "invite" /\ thread'[Receiver].call = c
    BY <1>2 DEF ReceiveInviteAgain, Goto, TypeOK, Threads
  <2>4. app[c] = "ringing" => Undecided(c)'
    BY <1>2, <2>1, <2>2, <2>3 DEF ReceiveInviteAgain, Ringing, Undecided,
        Cancelling, istVars, dialogVars, Threads
  <2> QED BY <1>2, <2>1, <2>2, <2>3, <2>4, OthersKept DEF ReceiveInviteAgain,
      Threads, istVars, dialogVars
<1>3. ASSUME NEW c \in Calls, ReceiveAckOfError(c) PROVE Ringing'
  <2>1. thread[Receiver].op = "none" /\ ~Cancelling(c)
    BY <1>3 DEF ReceiveAckOfError, At, Owner, FrameOK, StepsOf, Timer, Threads,
        Cancelling
  <2>2. \A u \in Threads \ {Receiver} : thread'[u] = thread[u]
    BY <1>3 DEF ReceiveAckOfError, Goto, TypeOK
  <2>3. thread'[Receiver].op = "ack" /\ thread'[Receiver].call = c
    BY <1>3 DEF ReceiveAckOfError, Goto, TypeOK, Threads
  <2>4. app[c] = "ringing" => Undecided(c)'
    BY <1>3, <2>1, <2>2, <2>3 DEF ReceiveAckOfError, Ringing, Undecided,
        Cancelling, istVars, dialogVars, Threads
  <2> QED BY <1>3, <2>1, <2>2, <2>3, <2>4, OthersKept DEF ReceiveAckOfError,
      Threads, istVars, dialogVars
<1>4. ASSUME NEW c \in Calls, HandleAck(c) PROVE Ringing'
  <2>1. thread[Receiver].op = "none" /\ ~Cancelling(c)
    BY <1>4 DEF HandleAck, At, Owner, FrameOK, StepsOf, Timer, Threads,
        Cancelling
  <2>2. \A u \in Threads \ {Receiver} : thread'[u] = thread[u]
    BY <1>4 DEF HandleAck, Goto, TypeOK
  <2>3. \/ thread'[Receiver] = thread[Receiver]
        \/ thread'[Receiver].op = "ack" /\ thread'[Receiver].call = c
    BY <1>4 DEF HandleAck, Goto, TypeOK, Threads
  <2>4. app[c] = "ringing" => Undecided(c)'
    BY <1>4, <2>1, <2>2, <2>3 DEF HandleAck, AckReachesDialog, Ringing,
        Undecided, Cancelling, istVars, dialogVars, Threads
  <2> QED BY <1>4, <2>1, <2>2, <2>3, <2>4, OthersKept DEF HandleAck, Threads,
      istVars, dialogVars
<1>5. ASSUME NEW c \in Calls, HandleCancel(c) PROVE Ringing'
  <2>1. thread[Receiver].op = "none" /\ ~Cancelling(c)
    BY <1>5 DEF HandleCancel, At, Owner, FrameOK, StepsOf, Timer, Threads,
        Cancelling
  <2>2. \A u \in Threads \ {Receiver} : thread'[u] = thread[u]
    BY <1>5 DEF HandleCancel, Goto, TypeOK
  <2>3. \/ thread'[Receiver] = thread[Receiver]
        \/ thread'[Receiver].op = "cancel" /\ thread'[Receiver].call = c
    BY <1>5 DEF HandleCancel, Goto, TypeOK, Threads
  <2>4. app[c] = "ringing" => Undecided(c)'
    BY <1>5, <2>1, <2>2, <2>3 DEF HandleCancel, Ringing, Undecided, Cancelling,
        istVars, dialogVars, Threads
  <2> QED BY <1>5, <2>1, <2>2, <2>3, <2>4, OthersKept DEF HandleCancel,
      Threads, istVars, dialogVars
<1>6. ASSUME NEW c \in Calls, HandleBye(c) PROVE Ringing'
  <2>1. thread[Receiver].op = "none" /\ ~Cancelling(c)
    BY <1>6 DEF HandleBye, At, Owner, FrameOK, StepsOf, Timer, Threads,
        Cancelling
  <2>2. \A u \in Threads \ {Receiver} : thread'[u] = thread[u]
    BY <1>6 DEF HandleBye, Goto, TypeOK
  <2>3. thread'[Receiver].op = "bye" /\ thread'[Receiver].call = c
    BY <1>6 DEF HandleBye, Goto, TypeOK, Threads
  <2>4. app[c] = "ringing" => Undecided(c)'
    BY <1>6, <2>1, <2>2, <2>3 DEF HandleBye, Ringing, Undecided, Cancelling,
        istVars, dialogVars, Threads
  <2> QED BY <1>6, <2>1, <2>2, <2>3, <2>4, OthersKept DEF HandleBye, Threads,
      istVars, dialogVars
<1>7. ASSUME NEW c \in Calls, ByeSuccessResponseReceived(c) PROVE Ringing'
  <2>1. thread[Receiver].op = "none" /\ ~Cancelling(c)
    BY <1>7 DEF ByeSuccessResponseReceived, At, Owner, FrameOK, StepsOf, Timer,
        Threads, Cancelling
  <2>2. \A u \in Threads \ {Receiver} : thread'[u] = thread[u]
    BY <1>7 DEF ByeSuccessResponseReceived, Goto, TypeOK
  <2>3. \/ thread'[Receiver] = thread[Receiver]
        \/ thread'[Receiver].op = "byeOk" /\ thread'[Receiver].call = c
    BY <1>7 DEF ByeSuccessResponseReceived, Goto, TypeOK, Threads
  <2>4. app[c] = "ringing" => Undecided(c)'
    BY <1>7, <2>1, <2>2, <2>3 DEF ByeSuccessResponseReceived, Ringing,
        Undecided, Cancelling, istVars, dialogVars, Threads
  <2> QED BY <1>7, <2>1, <2>2, <2>3, <2>4, OthersKept DEF
      ByeSuccessResponseReceived, Threads, istVars, dialogVars
<1>8. ASSUME NEW t \in AppThreads, NEW c \in Calls, AcceptCall(t, c)
      PROVE Ringing'
  <2>1. /\ \A u \in Threads \ {t} : thread'[u] = thread[u]
        /\ thread'[t].call = c /\ thread[t].op = "none" /\ t \in Threads
    BY <1>8 DEF AcceptCall, At, Goto, TypeOK, Owner, FrameOK, StepsOf, Timer,
        Threads
  <2>2. app'[c] # "ringing" /\ \A d \in Calls \ {c} : app'[d] = app[d]
    BY <1>8 DEF AcceptCall, TypeOK
  <2> QED BY <1>8, <2>1, <2>2, OthersKept DEF AcceptCall, istVars, dialogVars
<1>9. ASSUME NEW t \in AppThreads, NEW c \in Calls, RejectCall(t, c)
      PROVE Ringing'
  <2>1. /\ \A u \in Threads \ {t} : thread'[u] = thread[u]
        /\ thread'[t].call = c /\ thread[t].op = "none" /\ t \in Threads
    BY <1>9 DEF RejectCall, At, Goto, TypeOK, Owner, FrameOK, StepsOf, Timer,
        Threads
  <2>2. app'[c] # "ringing" /\ \A d \in Calls \ {c} : app'[d] = app[d]
    BY <1>9 DEF RejectCall, TypeOK
  <2> QED BY <1>9, <2>1, <2>2, OthersKept DEF RejectCall, istVars, dialogVars
<1>10. ASSUME NEW t \in AppThreads, NEW c \in Calls, Terminate(t, c)
      PROVE Ringing'
  <2>1. /\ \A u \in Threads \ {t} : thread'[u] = thread[u]
        /\ thread'[t].call = c /\ thread[t].op = "none" /\ t \in Threads
    BY <1>10 DEF Terminate, At, Goto, TypeOK, Owner, FrameOK, StepsOf, Timer,
        Threads
  <2>2. app'[c] # "ringing" /\ \A d \in Calls \ {c} : app'[d] = app[d]
    BY <1>10 DEF Terminate, TypeOK
  <2> QED BY <1>10, <2>1, <2>2, OthersKept DEF Terminate, istVars, dialogVars
<1>11. ASSUME NEW c \in Calls, NEW x \in Timer, TimerFires(c, x) PROVE Ringing'
  <2>1. /\ \A u \in Threads \ {TimerThread} : thread'[u] = thread[u]
        /\ thread'[TimerThread].call = c /\ thread'[TimerThread].op = x
        /\ thread[TimerThread].op = "none"
    BY <1>11 DEF TimerFires, At, Goto, TypeOK, Owner, FrameOK, StepsOf, Timer,
        Threads
  <2>2. \A d \in Calls : d # c => timers'[d] = timers[d]
    BY <1>11 DEF TimerFires, TypeOK
  <2>3. ASSUME app[c] = "ringing" PROVE Undecided(c)'
    <3>1. Undecided(c)
      BY <2>3 DEF Ringing
    <3>2. x # "I"
      BY <1>11, <3>1 DEF TimerFires, Undecided
    <3>3. timers'[c]["I"] = timers[c]["I"]
      BY <1>11, <3>2 DEF TimerFires, TypeOK, Timer
    <3>4. Known(c)
      BY <2>3 DEF Anchored
    <3>5. Cancelling(c) => Cancelling(c)'
      BY <2>1 DEF Cancelling, Threads, Receiver, TimerThread
    <3> QED BY <1>11, <2>1, <3>1, <3>2, <3>3, <3>4, <3>5, UndecidedKept
            DEF TimerFires, Undecided, Threads, dialogVars, Timer
  <2> QED BY <1>11, <2>1, <2>2, <2>3, OthersKept DEF TimerFires, Threads,
      dialogVars
<1>12. ASSUME NEW t \in Threads, AppendResponse(t) PROVE Ringing'
  <2>1. PICK d \in Calls : d = thread[t].call /\ Known(d)
    BY <1>12, BusyFacts DEF AppendResponse, At
  <2>2. /\ Known(d)
        /\ d \in Calls
        /\ thread[t].op \in {"accept", "reject", "cancel"}
    BY <1>12, <2>1, BusyFacts DEF AppendResponse, At, Owner, FrameOK, StepsOf,
        Timer
  <2>3. /\ \A u \in Threads \ {t} : thread'[u] = thread[u]
        /\ thread'[t].call = d
        /\ thread'[t].op = thread[t].op
    BY <1>12, <2>1, AdvanceType DEF AppendResponse, Step
  <2>4. /\ \A c \in Calls : c # d => responses'[c] = responses[c]
        /\ responses'[d] = Append(responses[d], CodeOf(thread[t].op))
    BY <1>12, <2>1, <2>2, AppendType DEF AppendResponse
  <2>5. ASSUME app[d] = "ringing" PROVE Undecided(d)'
    <3>1. thread[t].op = "cancel" /\ t = Receiver
      BY <2>1, <2>2, <2>5 DEF Owner, FrameOK
    <3>2. Undecided(d)
      BY <2>1, <2>2, <2>5 DEF Ringing
    <3>3. \A u \in Threads :
              thread'[u].call = d => thread'[u].op \notin {"ack", "I"}
      BY <2>1, <2>3, <3>2 DEF Undecided
    <3> QED BY <1>12, <2>1, <2>2, <2>3, <2>4, <3>1, <3>2, <3>3, UndecidedAppend
            DEF AppendResponse, CodeOf, Cancelling, dialogVars
  <2> QED BY <1>12, <2>1, <2>2, <2>3, <2>4, <2>5, OthersKept DEF
      AppendResponse, dialogVars
<1>13. ASSUME NEW t \in Threads, DispatchResponse(t) PROVE Ringing'
  <2>1. PICK d \in Calls : d = thread[t].call /\ Known(d)
    BY <1>13, BusyFacts DEF DispatchResponse, At
  <2>2. ist[d] \in IstState /\ d \in Calls /\ Known(d)
    BY <1>13, <2>1, BusyFacts DEF DispatchResponse, At, TypeOK
  <2>3. /\ \A u \in Threads \ {t} : thread'[u] = thread[u]
        /\ thread'[t].call = d
        /\ thread'[t].op = thread[t].op
    BY <1>13, <2>1, <2>2, AdvanceType DEF DispatchResponse, Step
  <2>4. ASSUME app[d] = "ringing" PROVE Undecided(d)'
    <3>1. Undecided(d)
      BY <2>1, <2>2, <2>4 DEF Ringing
    <3> QED BY <1>13, <2>1, <2>2, <2>3, <3>1, UndecidedKept DEF
        DispatchResponse, Undecided, Cancelling, istVars, dialogVars, Threads
  <2> QED BY <1>13, <2>1, <2>2, <2>3, <2>4, OthersKept DEF DispatchResponse,
      istVars, dialogVars
<1>14. ASSUME NEW t \in Threads, GenerateBye(t) PROVE Ringing'
  <2>1. PICK d \in Calls : d = thread[t].call /\ Known(d)
    BY <1>14, BusyFacts DEF GenerateBye, At
  <2>2. /\ \A u \in Threads \ {t} : thread'[u] = thread[u]
        /\ thread'[t] = Idle /\ d \in Calls
    BY <1>14, <2>1, BusyFacts DEF GenerateBye, At, Goto, TypeOK
  <2>3. app[d] # "ringing"
    BY <1>14, <2>1 DEF GenerateBye, At, Owner, FrameOK, StepsOf, Timer
  <2> QED BY <1>14, <2>1, <2>2, <2>3, OthersKept DEF GenerateBye, istVars,
      dialogVars
<1>15. ASSUME NEW t \in Threads, ProceedingReceivedInvite(t) PROVE Ringing'
  <2>1. PICK d \in Calls : d = thread[t].call /\ Known(d)
    BY <1>15, HandlingFacts DEF ProceedingReceivedInvite
  <2>2. /\ \A u \in Threads \ {t} : thread'[u] = thread[u]
        /\ \/ thread'[t] = Idle
           \/ thread'[t].call = d /\ thread'[t].op = thread[t].op
    BY <1>15, <2>1, ReturnType DEF ProceedingReceivedInvite
  <2>3. ASSUME app[d] = "ringing" PROVE Undecided(d)'
    <3>1. Undecided(d)
      BY <2>1, <2>3 DEF Ringing
    <3>2. ~Cancelling(d) \/ t # Receiver
      BY <1>15, <2>1 DEF ProceedingReceivedInvite, Handling, EventOf, Owner,
          FrameOK, StepsOf, Timer, Cancelling
    <3>3. Cancelling(d) => Cancelling(d)'
      BY <2>1, <2>2, <3>2 DEF Cancelling, Threads
    <3>4. thread'[t].call = d => thread'[t].op \notin {"ack", "I"}
      BY <2>1, <2>2, <3>1, IdleType DEF Undecided
    <3>5. /\ d \in table' /\ d \in dialogs' /\ timers'[d]["I"] = timers[d]["I"]
          /\ responses'[d] = responses[d]
      BY <1>15, <2>1, <3>1 DEF ProceedingReceivedInvite, Undecided, Timer,
          istVars, dialogVars
    <3>6. sent'[d] = sent[d] \/ sent'[d] = sent[d] \cup {Last(responses[d])}
      BY <1>15, <2>1 DEF ProceedingReceivedInvite, istVars
    <3> QED BY <2>1, <2>2, <3>1, <3>3, <3>4, <3>5, <3>6, UndecidedKept
  <2> QED BY <1>15, <2>1, <2>2, <2>3, OthersKept DEF ProceedingReceivedInvite,
      istVars, dialogVars
<1>16. ASSUME NEW t \in Threads, ProceedingReceived2xx(t) PROVE Ringing'
  <2>1. PICK d \in Calls : d = thread[t].call /\ Known(d)
    BY <1>16, HandlingFacts DEF ProceedingReceived2xx
  <2>2. /\ \A u \in Threads \ {t} : thread'[u] = thread[u]
        /\ \/ thread'[t] = Idle
           \/ thread'[t].call = d /\ thread'[t].op = thread[t].op
    BY <1>16, <2>1, ReturnType DEF ProceedingReceived2xx
  <2>3. /\ \A c \in Calls : c # d => sent'[c] = sent[c]
        /\ sent'[d] =
              sent[d] \cup {Last(responses[d])}
    BY <1>16, <2>1 DEF ProceedingReceived2xx, SendLastResponse, TypeOK
  <2>4. app[d] # "ringing"
    BY <1>16, <2>1 DEF ProceedingReceived2xx, Handling, EventOf, Owner,
        FrameOK, StepsOf, Timer, TypeOK, Frame, Op
  <2> QED BY <1>16, <2>1, <2>2, <2>3, <2>4, OthersKept DEF
      ProceedingReceived2xx, istVars, dialogVars
<1>17. ASSUME NEW t \in Threads, ProceedingReceived300To699(t) PROVE Ringing'
  <2>1. PICK d \in Calls : d = thread[t].call /\ Known(d)
    BY <1>17, HandlingFacts DEF ProceedingReceived300To699
  <2>2. /\ \A u \in Threads \ {t} : thread'[u] = thread[u]
        /\ \/ thread'[t] = Idle
           \/ thread'[t].call = d /\ thread'[t].op = thread[t].op
    BY <1>17, <2>1, ReturnType DEF ProceedingReceived300To699
  <2>3. /\ \A c \in Calls : c # d => timers'[c] = timers[c]
        /\ \A x \in Timer \ {"G", "H"} : timers'[d][x] = timers[d][x]
    BY <1>17, <2>1, ScheduleType DEF ProceedingReceived300To699
  <2>4. /\ \A c \in Calls : c # d => sent'[c] = sent[c]
        /\ sent'[d] =
              sent[d] \cup {Last(responses[d])}
    BY <1>17, <2>1 DEF ProceedingReceived300To699, SendLastResponse, TypeOK
  <2>5. ASSUME app[d] = "ringing" PROVE Undecided(d)'
    <3>1. Undecided(d)
      BY <2>1, <2>5 DEF Ringing
    <3>2. thread[t].step = "response"
      BY <1>17, <2>1 DEF ProceedingReceived300To699, Handling, EventOf, Owner,
          FrameOK, StepsOf, Timer, TypeOK, Frame, Op
    <3>3. Advance(t, "dialog", "-")
      BY <1>17, <2>1, <3>2 DEF ProceedingReceived300To699, Return
    <3>4. Cancelling(d) => Cancelling(d)'
      BY <2>1, <2>2, <3>3, AdvanceType DEF Cancelling, Step, Threads
    <3>5. thread'[t].call = d => thread'[t].op \notin {"ack", "I"}
      BY <2>1, <2>2, <3>1, IdleType DEF Undecided
    <3>6. /\ d \in table' /\ d \in dialogs' /\ timers'[d]["I"] = timers[d]["I"]
          /\ responses'[d] = responses[d]
      BY <1>17, <2>1, <2>3, <3>1 DEF ProceedingReceived300To699, Undecided,
          Timer, istVars, dialogVars
    <3>7. sent'[d] = sent[d] \/ sent'[d] = sent[d] \cup {Last(responses[d])}
      BY <1>17, <2>1, <2>4 DEF ProceedingReceived300To699, istVars
    <3> QED BY <2>1, <2>2, <3>1, <3>4, <3>5, <3>6, <3>7, UndecidedKept
  <2> QED BY <1>17, <2>1, <2>2, <2>3, <2>4, <2>5, OthersKept DEF
      ProceedingReceived300To699, istVars, dialogVars
<1>18. ASSUME NEW t \in Threads, CompletedReceivedInvite(t) PROVE Ringing'
  <2>1. PICK d \in Calls : d = thread[t].call /\ Known(d)
    BY <1>18, HandlingFacts DEF CompletedReceivedInvite
  <2>2. /\ \A u \in Threads \ {t} : thread'[u] = thread[u]
        /\ \/ thread'[t] = Idle
           \/ thread'[t].call = d /\ thread'[t].op = thread[t].op
    BY <1>18, <2>1, ReturnType DEF CompletedReceivedInvite
  <2>3. /\ \A c \in Calls : c # d => sent'[c] = sent[c]
        /\ sent'[d] =
              sent[d] \cup {Last(responses[d])}
    BY <1>18, <2>1 DEF CompletedReceivedInvite, SendLastResponse, TypeOK
  <2>4. ASSUME app[d] = "ringing" PROVE Undecided(d)'
    <3>1. Undecided(d)
      BY <2>1, <2>4 DEF Ringing
    <3>2. ~Cancelling(d) \/ t # Receiver
      BY <1>18, <2>1 DEF CompletedReceivedInvite, Handling, EventOf, Owner,
          FrameOK, StepsOf, Timer, Cancelling
    <3>3. Cancelling(d) => Cancelling(d)'
      BY <2>1, <2>2, <3>2 DEF Cancelling, Threads
    <3>4. thread'[t].call = d => thread'[t].op \notin {"ack", "I"}
      BY <2>1, <2>2, <3>1, IdleType DEF Undecided
    <3>5. /\ d \in table' /\ d \in dialogs' /\ timers'[d]["I"] = timers[d]["I"]
          /\ responses'[d] = responses[d]
      BY <1>18, <2>1, <3>1 DEF CompletedReceivedInvite, Undecided, Timer,
          istVars, dialogVars
    <3>6. sent'[d] = sent[d] \/ sent'[d] = sent[d] \cup {Last(responses[d])}
      BY <1>18, <2>1, <2>3 DEF CompletedReceivedInvite, istVars
    <3> QED BY <2>1, <2>2, <3>1, <3>3, <3>4, <3>5, <3>6, UndecidedKept
  <2> QED BY <1>18, <2>1, <2>2, <2>3, <2>4, OthersKept DEF
      CompletedReceivedInvite, istVars, dialogVars
<1>19. ASSUME NEW t \in Threads, CompletedReceivedAck(t) PROVE Ringing'
  <2>1. PICK d \in Calls : d = thread[t].call /\ Known(d)
    BY <1>19, HandlingFacts DEF CompletedReceivedAck
  <2>2. /\ \A u \in Threads \ {t} : thread'[u] = thread[u]
        /\ \/ thread'[t] = Idle
           \/ thread'[t].call = d /\ thread'[t].op = thread[t].op
    BY <1>19, <2>1, ReturnType DEF CompletedReceivedAck
  <2>3. /\ \A c \in Calls : c # d => timers'[c] = timers[c]
        /\ \A x \in Timer \ {"I"} : timers'[d][x] = timers[d][x]
    BY <1>19, <2>1, ScheduleType DEF CompletedReceivedAck
  <2>4. app[d] # "ringing"
    BY <1>19, <2>1, HandlingFacts DEF CompletedReceivedAck, Ringing, Undecided
  <2> QED BY <1>19, <2>1, <2>2, <2>3, <2>4, OthersKept DEF
      CompletedReceivedAck, istVars, dialogVars
<1>20. ASSUME NEW t \in Threads, CompletedTimerG(t) PROVE Ringing'
  <2>1. PICK d \in Calls : d = thread[t].call /\ Known(d)
    BY <1>20, HandlingFacts DEF CompletedTimerG
  <2>2. /\ \A u \in Threads \ {t} : thread'[u] = thread[u]
        /\ \/ thread'[t] = Idle
           \/ thread'[t].call = d /\ thread'[t].op = thread[t].op
    BY <1>20, <2>1, ReturnType DEF CompletedTimerG
  <2>3. /\ \A c \in Calls : c # d => timers'[c] = timers[c]
        /\ \A x \in Timer \ {"G"} : timers'[d][x] = timers[d][x]
    BY <1>20, <2>1, ScheduleType DEF CompletedTimerG
  <2>4. /\ \A c \in Calls : c # d => sent'[c] = sent[c]
        /\ sent'[d] =
              sent[d] \cup {Last(responses[d])}
    BY <1>20, <2>1 DEF CompletedTimerG, SendLastResponse, TypeOK
  <2>5. ASSUME app[d] = "ringing" PROVE Undecided(d)'
    <3>1. Undecided(d)
      BY <2>1, <2>5 DEF Ringing
    <3>2. t # Receiver
      BY <1>20, <2>1, HandlingFacts DEF CompletedTimerG, Owner, FrameOK, Timer,
          Receiver, TimerThread
    <3>3. Cancelling(d) => Cancelling(d)'
      BY <2>1, <2>2, <3>2 DEF Cancelling, Threads
    <3>4. thread'[t].call = d => thread'[t].op \notin {"ack", "I"}
      BY <2>1, <2>2, <3>1, IdleType DEF Undecided
    <3>5. /\ d \in table' /\ d \in dialogs' /\ timers'[d]["I"] = timers[d]["I"]
          /\ responses'[d] = responses[d]
      BY <1>20, <2>1, <2>3, <3>1 DEF CompletedTimerG, Undecided, Timer,
          istVars, dialogVars
    <3>6. sent'[d] = sent[d] \/ sent'[d] = sent[d] \cup {Last(responses[d])}
      BY <1>20, <2>1, <2>4 DEF CompletedTimerG, istVars
    <3> QED BY <2>1, <2>2, <3>1, <3>3, <3>4, <3>5, <3>6, UndecidedKept
  <2> QED BY <1>20, <2>1, <2>2, <2>3, <2>4, <2>5, OthersKept DEF
      CompletedTimerG, istVars, dialogVars
<1>21. ASSUME NEW t \in Threads, CompletedTimerH(t) PROVE Ringing'
  <2>1. PICK d \in Calls : d = thread[t].call /\ Known(d)
    BY <1>21, HandlingFacts DEF CompletedTimerH
  <2>2. /\ \A u \in Threads \ {t} : thread'[u] = thread[u]
        /\ \/ thread'[t] = Idle
           \/ thread'[t].call = d /\ thread'[t].op = thread[t].op
    BY <1>21, <2>1, ReturnType DEF CompletedTimerH
  <2>3. ASSUME app[d] = "ringing" PROVE Undecided(d)'
    <3>1. Undecided(d)
      BY <2>1, <2>3 DEF Ringing
    <3>2. t # Receiver
      BY <1>21, <2>1, HandlingFacts DEF CompletedTimerH, Owner, FrameOK, Timer,
          Receiver, TimerThread
    <3>3. Cancelling(d) => Cancelling(d)'
      BY <2>1, <2>2, <3>2 DEF Cancelling, Threads
    <3>4. thread'[t].call = d => thread'[t].op \notin {"ack", "I"}
      BY <2>1, <2>2, <3>1, IdleType DEF Undecided
    <3>5. /\ d \in table' /\ d \in dialogs' /\ timers'[d]["I"] = timers[d]["I"]
          /\ responses'[d] = responses[d]
      BY <1>21, <2>1, <3>1 DEF CompletedTimerH, Undecided, Timer, istVars,
          dialogVars
    <3>6. sent'[d] = sent[d] \/ sent'[d] = sent[d] \cup {Last(responses[d])}
      BY <1>21, <2>1 DEF CompletedTimerH, istVars
    <3> QED BY <2>1, <2>2, <3>1, <3>3, <3>4, <3>5, <3>6, UndecidedKept
  <2> QED BY <1>21, <2>1, <2>2, <2>3, OthersKept DEF CompletedTimerH, istVars,
      dialogVars
<1>22. ASSUME NEW t \in Threads, ConfirmedTimerI(t) PROVE Ringing'
  <2>1. PICK d \in Calls : d = thread[t].call /\ Known(d)
    BY <1>22, HandlingFacts DEF ConfirmedTimerI
  <2>2. /\ \A u \in Threads \ {t} : thread'[u] = thread[u]
        /\ \/ thread'[t] = Idle
           \/ thread'[t].call = d /\ thread'[t].op = thread[t].op
    BY <1>22, <2>1, ReturnType DEF ConfirmedTimerI
  <2>3. app[d] # "ringing"
    BY <1>22, <2>1, HandlingFacts DEF ConfirmedTimerI, Ringing, Undecided,
        Timer
  <2> QED BY <1>22, <2>1, <2>2, <2>3, OthersKept DEF ConfirmedTimerI, istVars,
      dialogVars
<1>23. ASSUME NEW t \in Threads, Ignored(t) PROVE Ringing'
  <2>1. PICK d \in Calls : d = thread[t].call /\ Known(d)
    BY <1>23, BusyFacts DEF Ignored, At
  <2>2. /\ \A u \in Threads \ {t} : thread'[u] = thread[u]
        /\ \/ thread'[t] = Idle
           \/ thread'[t].call = d /\ thread'[t].op = thread[t].op
    BY <1>23, <2>1, ReturnType DEF Ignored
  <2>3. ASSUME app[d] = "ringing" PROVE Undecided(d)'
    <3>1. Undecided(d)
      BY <2>1, <2>3 DEF Ringing
    <3>2. Cancelling(d) => Cancelling(d)'
      <4>1. CASE t = Receiver /\ thread[t].op = "cancel"
        <5>1. thread[t].step = "response"
          BY <1>23, <2>1, <4>1 DEF Ignored, Owner, FrameOK, StepsOf
        <5>2. Advance(t, "dialog", "-")
          BY <1>23, <2>1, <5>1 DEF Ignored, Return
        <5> QED BY <2>1, <4>1, <5>2, AdvanceType DEF Cancelling, Step
      <4>2. CASE t # Receiver \/ thread[t].op # "cancel"
        BY <2>1, <2>2, <4>2 DEF Cancelling, Threads
      <4> QED BY <2>1, <4>1, <4>2
    <3>3. Cancelling(d) => Cancelling(d)'
      BY <2>1, <2>2, <3>2 DEF Cancelling, Threads
    <3>4. thread'[t].call = d => thread'[t].op \notin {"ack", "I"}
      BY <2>1, <2>2, <3>1, IdleType DEF Undecided
    <3>5. /\ d \in table' /\ d \in dialogs' /\ timers'[d]["I"] = timers[d]["I"]
          /\ responses'[d] = responses[d]
      BY <1>23, <2>1, <3>1 DEF Ignored, Undecided, Timer, istVars, dialogVars
    <3>6. sent'[d] = sent[d] \/ sent'[d] = sent[d] \cup {Last(responses[d])}
      BY <1>23, <2>1 DEF Ignored, istVars
    <3> QED BY <2>1, <2>2, <3>1, <3>3, <3>4, <3>5, <3>6, UndecidedKept
  <2> QED BY <1>23, <2>1, <2>2, <2>3, OthersKept DEF Ignored, istVars,
      dialogVars
<1>24. ASSUME NEW t \in Threads, DialogDispatch(t) PROVE Ringing'
  <2>1. PICK d \in Calls : d = thread[t].call /\ Known(d)
    BY <1>24, BusyFacts DEF DialogDispatch, At
  <2>2. dialog[d] \in DialogState /\ d \in Calls /\ Known(d)
    BY <1>24, <2>1, BusyFacts DEF DialogDispatch, At, TypeOK
  <2>3. /\ \A u \in Threads \ {t} : thread'[u] = thread[u]
        /\ thread'[t].call = d
        /\ thread'[t].op = thread[t].op
    BY <1>24, <2>1, <2>2, AdvanceType DEF DialogDispatch, Step
  <2>4. ASSUME app[d] = "ringing" PROVE Undecided(d)'
    <3>1. Undecided(d)
      BY <2>1, <2>2, <2>4 DEF Ringing
    <3> QED BY <1>24, <2>1, <2>2, <2>3, <3>1, UndecidedKept DEF DialogDispatch,
        Undecided, Cancelling, istVars, dialogVars, Threads
  <2> QED BY <1>24, <2>1, <2>2, <2>3, <2>4, OthersKept DEF DialogDispatch,
      istVars, dialogVars
<1>25. ASSUME NEW t \in Threads, FinishAccept(t) PROVE Ringing'
  <2>1. PICK d \in Calls : d = thread[t].call /\ Known(d)
    BY <1>25, BusyFacts DEF FinishAccept, At, SetDialogState
  <2>2. /\ \A u \in Threads \ {t} : thread'[u] = thread[u]
        /\ thread'[t] = Idle /\ d \in Calls
    BY <1>25, <2>1, BusyFacts DEF FinishAccept, SetDialogState, At, Goto,
        TypeOK
  <2>3. app'[d] # "ringing"
    BY <1>25, <2>1, <2>2 DEF FinishAccept, TypeOK, Owner, FrameOK
  <2>4. \A c \in Calls \ {d} : app'[c] = app[c]
    BY <1>25, <2>1 DEF FinishAccept, TypeOK
  <2> QED BY <1>25, <2>1, <2>2, <2>3, <2>4, OthersKept DEF FinishAccept,
      istVars
<1>26. ASSUME NEW t \in Threads, FinishRefusal(t) PROVE Ringing'
  <2>1. PICK d \in Calls : d = thread[t].call /\ Known(d)
    BY <1>26, BusyFacts DEF FinishRefusal, At, SetDialogState
  <2>2. /\ \A u \in Threads \ {t} : thread'[u] = thread[u]
        /\ thread'[t] = Idle /\ d \in Calls
    BY <1>26, <2>1, BusyFacts DEF FinishRefusal, SetDialogState, At, Goto,
        TypeOK
  <2>3. app'[d] # "ringing"
    BY <1>26, <2>1, <2>2 DEF FinishRefusal, TypeOK
  <2>4. \A c \in Calls \ {d} : app'[c] = app[c]
    BY <1>26, <2>1 DEF FinishRefusal, TypeOK
  <2> QED BY <1>26, <2>1, <2>2, <2>3, <2>4, OthersKept DEF FinishRefusal,
      istVars
<1>27. ASSUME NEW t \in Threads, FinishBye(t) PROVE Ringing'
  <2>1. PICK d \in Calls : d = thread[t].call /\ Known(d)
    BY <1>27, BusyFacts DEF FinishBye, At, SetDialogState
  <2>2. /\ \A u \in Threads \ {t} : thread'[u] = thread[u]
        /\ thread'[t] = Idle /\ d \in Calls
    BY <1>27, <2>1, BusyFacts DEF FinishBye, SetDialogState, At, Goto, TypeOK
  <2>3. app'[d] # "ringing"
    BY <1>27, <2>1, <2>2 DEF FinishBye, TypeOK
  <2>4. \A c \in Calls \ {d} : app'[c] = app[c]
    BY <1>27, <2>1 DEF FinishBye, TypeOK
  <2> QED BY <1>27, <2>1, <2>2, <2>3, <2>4, OthersKept DEF FinishBye, istVars
<1>28. ASSUME NEW t \in Threads, FinishOwnBye(t) PROVE Ringing'
  <2>1. PICK d \in Calls : d = thread[t].call /\ Known(d)
    BY <1>28, BusyFacts DEF FinishOwnBye, At, SetDialogState
  <2>2. /\ \A u \in Threads \ {t} : thread'[u] = thread[u]
        /\ thread'[t] = Idle /\ d \in Calls
    BY <1>28, <2>1, BusyFacts DEF FinishOwnBye, SetDialogState, At, Goto,
        TypeOK
  <2>3. app'[d] # "ringing"
    BY <1>28, <2>1, <2>2 DEF FinishOwnBye, Owner, FrameOK
  <2>4. \A c \in Calls \ {d} : app'[c] = app[c]
    BY <1>28, <2>1 DEF FinishOwnBye, TypeOK
  <2> QED BY <1>28, <2>1, <2>2, <2>3, <2>4, OthersKept DEF FinishOwnBye,
      istVars
<1>29. ASSUME NEW t \in Threads, InvalidDialogTransition(t) PROVE Ringing'
  <2>1. PICK d \in Calls : d = thread[t].call /\ Known(d)
    BY <1>29, BusyFacts DEF InvalidDialogTransition, At
  <2>2. thread[t] \in Frame /\ d \in Calls /\ Known(d)
    BY <1>29, <2>1, BusyFacts DEF InvalidDialogTransition, At, TypeOK
  <2>3. CASE t = Receiver
    <3>1. Advance(t, "dead", thread[t].seen) /\ UNCHANGED app
      BY <1>29, <2>1, <2>3 DEF InvalidDialogTransition, Die
    <3>2. thread[t].seen \in IstState \cup DialogState \cup {"-"}
      BY <2>1, <2>2 DEF Frame
    <3>3. /\ \A u \in Threads \ {t} : thread'[u] = thread[u]
          /\ thread'[t].call = d
          /\ thread'[t].op = thread[t].op
      BY <2>1, <3>1, <3>2, AdvanceType DEF Step
    <3>4. ASSUME app[d] = "ringing" PROVE Undecided(d)'
      <4>1. Undecided(d)
        BY <2>1, <2>2, <3>4 DEF Ringing
      <4> QED BY <1>29, <2>1, <2>2, <3>3, <4>1, UndecidedKept
              DEF InvalidDialogTransition, Undecided, Cancelling, istVars,
                  dialogVars, Threads
    <3> QED BY <1>29, <2>1, <2>2, <3>1, <3>3, <3>4, OthersKept
            DEF InvalidDialogTransition, istVars, dialogVars
  <2>4. CASE t # Receiver
    <3>1. /\ \A u \in Threads \ {t} : thread'[u] = thread[u]
          /\ thread'[t] = Idle
          /\ app'[d] # "ringing"
          /\ \A c \in Calls \ {d} : app'[c] = app[c]
      BY <1>29, <2>1, <2>2, <2>4 DEF InvalidDialogTransition, Goto, TypeOK
    <3> QED BY <1>29, <2>1, <2>2, <3>1, OthersKept DEF InvalidDialogTransition,
        istVars, dialogVars
  <2> QED BY <2>1, <2>3, <2>4
<1>30. ASSUME UNCHANGED vars PROVE Ringing'
  BY <1>30 DEF Ringing, Undecided, Cancelling, vars, istVars, dialogVars,
      mediaVars, requestVars
<1> QED
  BY <1>1, <1>2, <1>3, <1>4, <1>5, <1>6, <1>7, <1>8, <1>9, <1>10, <1>11, <1>12,
      <1>13, <1>14, <1>15, <1>16, <1>17, <1>18, <1>19, <1>20, <1>21, <1>22,
      <1>23, <1>24, <1>25, <1>26, <1>27, <1>28, <1>29, <1>30
  DEF Next, Peer, Application, Work, TransactionStep, DialogStep

-----------------------------------------------------------------------------
(***************************************************************************)
(* How far each call has come                                              *)
(***************************************************************************)

(* The dialog has left its early state.                                    *)
Left(c) == dialog[c] \in {"CONFIRMED", "TERMINATED"}

(* Thread t runs acceptCall or rejectCall.                                 *)
Answering(t) == thread[t].op \in {"accept", "reject"}

(* Only one thread answers a call.                                         *)
OneAnswer ==
    \A t, u \in Threads :
        Answering(t) /\ Answering(u) /\ thread[t].call = thread[u].call => t = u

(* The states of the dialog, by what the application knows of the call.    *)
DialogsOf(a) ==
    CASE a = "none" -> {"INIT"}
      [] a \in {"ringing", "accepting", "rejecting"} -> {"EARLY"}
      [] a = "inCall" -> {"CONFIRMED"}
      [] OTHER -> {"CONFIRMED", "TERMINATED"}

(* The dialog and the application move together: a call that is being      *)
(* answered has a thread that answers it, a dialog leaves its early state  *)
(* because of an answer or of a CANCEL that was carried through, and a     *)
(* cancelled call rings only while its CANCEL is being handled.            *)
CallTold(c) ==
    /\ dialog[c] \in DialogsOf(app[c])
    /\ app[c] \notin {"none", "over"} => c \in dialogs
    /\ app[c] \in {"accepting", "rejecting"} =>
          \E t \in Threads : Answering(t) /\ thread[t].call = c
    /\ Left(c) => Answered(c) \/ (c \in cancelled /\ ~Cancelling(c))
    /\ c \in cancelled => Known(c)
    /\ c \in cancelled /\ app[c] = "ringing" => Cancelling(c) /\ ~At(Receiver, "dead")

Told == \A c \in Calls : CallTold(c)

(* What a thread can rely on, however stale what it read is.               *)
FrameTold(t) ==
    LET f == thread[t]
    IN  /\ f.op = "accept" => app[f.call] \in {"accepting", "over"}
        /\ f.op = "reject" => app[f.call] \in {"rejecting", "over"}
        /\ Answering(t) /\ app[f.call] = "over" => f.call \in cancelled
        /\ (Answering(t) /\ f.step \in {"dispatch", "response", "dialog", "dialogRun"}) =>
              Answered(f.call)
        /\ f.step = "dialogRun" =>
              /\ f.seen \in {"EARLY", "CONFIRMED", "TERMINATED"}
              /\ f.seen # "EARLY" => Left(f.call)
              /\ f.op = "byeOk" => f.seen # "EARLY"
        /\ f.op = "cancel" => f.call \in cancelled
        /\ f.op = "bye" => 200 \in sent[f.call] \/ f.call \in ImpatientCalls
        /\ f.step = "dead" =>
              /\ f.op \in {"bye", "cancel", "ack"}
              /\ f.op = "bye" => f.seen = "EARLY"
              /\ f.op = "cancel" => Left(f.call)

FramesTold == \A t \in Threads : FrameTold(t)

Progress == OneAnswer /\ Told /\ FramesTold

(* What no step takes back.                                                *)
Onward ==
    /\ cancelled \subseteq cancelled'
    /\ \A c \in Calls : Known(c) =>
          /\ Known(c)'
          /\ app[c] = "over" => app'[c] = "over"
          /\ app[c] # "ringing" => app'[c] # "ringing"
          /\ sent[c] \subseteq sent'[c]
          /\ Left(c) => Left(c)'
          /\ Answered(c) => Answered(c)'

(* The elements of a sequence of responses to which one is appended.       *)
LEMMA AppendElements ==
    ASSUME NEW s \in Seq(Codes), NEW e \in Codes
    PROVE  /\ \A i \in DOMAIN s : i \in DOMAIN Append(s, e) /\ Append(s, e)[i] = s[i]
           /\ \A i \in DOMAIN Append(s, e) :
                 Append(s, e)[i] = e \/ (i \in DOMAIN s /\ Append(s, e)[i] = s[i])
           /\ \E i \in DOMAIN Append(s, e) : Append(s, e)[i] = e
           /\ Last(Append(s, e)) = e
<1>1. /\ Len(s) \in Nat /\ DOMAIN s = 1..Len(s)
      /\ Len(Append(s, e)) = Len(s) + 1
      /\ DOMAIN Append(s, e) = 1..(Len(s) + 1)
      /\ \A i \in 1..Len(s) : Append(s, e)[i] = s[i]
      /\ Append(s, e)[Len(s) + 1] = e
  BY AppendProperties, LenProperties
<1> QED BY <1>1 DEF Last

(* A thread moves on to another step of its operation.                     *)
LEMMA AdvanceFacts ==
    ASSUME TypeOK, NEW t \in Threads, NEW step, NEW seen, Advance(t, step, seen)
    PROVE  /\ \A u \in Threads \ {t} : thread'[u] = thread[u]
           /\ thread'[t].op = thread[t].op
           /\ thread'[t].call = thread[t].call
           /\ thread'[t].step = step
           /\ thread'[t].seen = seen
<1>1. thread[t] \in Frame /\ thread \in [Threads -> Frame]
  BY DEF TypeOK
<1>2. thread' = [thread EXCEPT ![t] = [thread[t] EXCEPT !.step = step, !.seen = seen]]
  BY DEF Advance, Goto
<1> QED BY <1>1, <1>2 DEF Frame

(* A thread that does not move can still rely on the same, as long as      *)
(* whoever ends a call that it answers handles a CANCEL.                   *)
LEMMA FrameToldKept ==
    ASSUME Anchored, Owner, Onward, NEW u \in Threads, FrameTold(u),
           thread'[u] = thread[u],
           Answering(u) => \/ app'[thread[u].call] = app[thread[u].call]
                           \/ /\ app'[thread[u].call] = "over"
                              /\ thread[u].call \in cancelled'
    PROVE  FrameTold(u)'
<1>1. CASE thread[u].step = "idle"
  <2>1. thread[u].op = "none"
    BY <1>1 DEF Owner, FrameOK, StepsOf, Timer
  <2> QED BY <1>1, <2>1 DEF FrameTold, Answering
<1>2. CASE thread[u].step # "idle"
  <2>1. thread[u].call \in Calls /\ Known(thread[u].call)
    BY <1>2 DEF Anchored
  <2> QED BY <2>1 DEF FrameTold, Answering, Onward
<1> QED BY <1>1, <1>2

LEMMA IdleTold ==
    ASSUME NEW t \in Threads, thread'[t] = Idle
    PROVE  FrameTold(t)' /\ ~Answering(t)'
BY DEF FrameTold, Answering, Idle

(* An idle thread answers nothing.                                         *)
LEMMA IdleAnswersNothing ==
    ASSUME Owner, NEW t \in Threads, At(t, "idle")
    PROVE  thread[t].op = "none" /\ ~Answering(t)
BY DEF At, Owner, FrameOK, StepsOf, Timer, Answering

(* A thread begins an operation.                                           *)
LEMMA BeginFacts ==
    ASSUME TypeOK, NEW t \in Threads, NEW f, Goto(t, f)
    PROVE  thread'[t] = f /\ \A u \in Threads \ {t} : thread'[u] = thread[u]
BY DEF Goto, TypeOK

(* A call whose dialog, tables and threads are left alone.                 *)
LEMMA CallToldKept ==
    ASSUME NEW c \in Calls, CallTold(c),
           dialog'[c] = dialog[c], app'[c] = app[c],
           c \in dialogs => c \in dialogs',
           c \in cancelled' <=> c \in cancelled,
           Known(c) => Known(c)', Answered(c) => Answered(c)',
           Cancelling(c)' <=> Cancelling(c),
           Cancelling(c) /\ At(Receiver, "dead")' /\ app[c] = "ringing"
               => At(Receiver, "dead"),
           \A t \in Threads : Answering(t) /\ thread[t].call = c
               => Answering(t)' /\ thread'[t].call = c
    PROVE  CallTold(c)'
BY DEF CallTold, Left

(* The methods of the transaction's states leave the dialogs, the media    *)
(* and the application alone.                                              *)
LEMMA TransactionStepFacts ==
    ASSUME TypeOK, Anchored, Owner, NEW t \in Threads, TransactionStep(t)
    PROVE  /\ UNCHANGED <<responses, dialog, dialogs, mediaDest, app, cancelled>>
           /\ \A c \in Calls : /\ sent[c] \subseteq sent'[c]
                               /\ sent'[c] \subseteq sent[c] \cup {Last(responses[c])}
                               /\ c # thread[t].call => sent'[c] = sent[c]
           /\ thread[t].call \in Calls /\ Known(thread[t].call)
           /\ \A u \in Threads \ {t} : thread'[u] = thread[u]
           /\ thread[t].step \in {"request", "response", "timer"}
           /\ \/ /\ thread'[t] = Idle
                 /\ ~(thread[t].step = "request" /\ Answering(t))
                 /\ thread[t].step # "response"
              \/ /\ thread'[t].call = thread[t].call
                 /\ thread'[t].op = thread[t].op
                 /\ \/ /\ thread[t].step = "request" /\ Answering(t)
                       /\ thread'[t].step = "append"
                    \/ thread[t].step = "response" /\ thread'[t].step = "dialog"
<1>1. Return(t) /\ thread[t].step \in {"request", "response", "timer"}
  BY HandlingFacts DEF TransactionStep, ProceedingReceivedInvite, ProceedingReceived2xx,
     ProceedingReceived300To699, CompletedReceivedInvite, CompletedReceivedAck,
     CompletedTimerG, CompletedTimerH, ConfirmedTimerI, Ignored, Timer
<1>2. thread[t].call \in Calls /\ Known(thread[t].call)
  BY <1>1, BusyFacts
<1>3. /\ UNCHANGED <<responses, dialog, dialogs, mediaDest, app, cancelled>>
      /\ \/ UNCHANGED sent
         \/ SendLastResponse(thread[t].call)
  BY DEF TransactionStep, ProceedingReceivedInvite, ProceedingReceived2xx,
     ProceedingReceived300To699, CompletedReceivedInvite, CompletedReceivedAck,
     CompletedTimerG, CompletedTimerH, ConfirmedTimerI, Ignored, istVars,
     dialogVars, mediaVars, requestVars
<1>4. \A c \in Calls : /\ sent[c] \subseteq sent'[c]
                       /\ sent'[c] \subseteq sent[c] \cup {Last(responses[c])}
                       /\ c # thread[t].call => sent'[c] = sent[c]
  BY <1>2, <1>3 DEF SendLastResponse, TypeOK
<1>5. /\ \A u \in Threads \ {t} : thread'[u] = thread[u]
      /\ \/ /\ thread'[t] = Idle
            /\ ~(thread[t].step = "request" /\ Answering(t))
            /\ thread[t].step # "response"
         \/ /\ thread'[t].call = thread[t].call
            /\ thread'[t].op = thread[t].op
            /\ \/ /\ thread[t].step = "request" /\ Answering(t)
                  /\ thread'[t].step = "append"
               \/ thread[t].step = "response" /\ thread'[t].step = "dialog"
  <2>1. CASE thread[t].step = "request" /\ thread[t].op \in {"accept", "reject"}
    <3>1. Advance(t, "append", "-")
      BY <1>1, <2>1 DEF Return
    <3> QED BY <2>1, <3>1, AdvanceType DEF Step, Answering
  <2>2. CASE thread[t].step = "response"
    <3>1. Advance(t, "dialog", "-")
      BY <1>1, <2>2 DEF Return
    <3> QED BY <2>2, <3>1, AdvanceType DEF Step, Answering
  <2>3. CASE /\ ~(thread[t].step = "request" /\ thread[t].op \in {"accept", "reject"})
             /\ thread[t].step # "response"
    <3>1. Goto(t, Idle)
      BY <1>1, <2>3 DEF Return
    <3> QED BY <2>3, <3>1, BeginFacts DEF Answering
  <2> QED BY <2>1, <2>2, <2>3
<1> QED BY <1>1, <1>2, <1>3, <1>4, <1>5

(* A thread that runs a method of the dialog's states.                     *)
LEMMA DialogRunFacts ==
    ASSUME TypeOK, Anchored, Owner, Progress, NEW t \in Threads, SetDialogState(t)
    PROVE  /\ thread[t].call \in Calls /\ Known(thread[t].call)
           /\ thread[t].step = "dialogRun"
           /\ thread[t].op \in {"bye", "byeOk"} => Left(thread[t].call)
           /\ dialog' \in [Calls -> DialogState]
           /\ thread[t].op = "accept" => dialog'[thread[t].call] = "CONFIRMED"
           /\ thread[t].op \notin {"accept", "bye", "byeOk"} =>
                 dialog'[thread[t].call] = "TERMINATED"
           /\ thread[t].op \in {"bye", "byeOk"} =>
                 dialog'[thread[t].call] \in {"TERMINATED", dialog[thread[t].call]}
           /\ dialog'[thread[t].call] \in {"CONFIRMED", "TERMINATED"}
           /\ \A c \in Calls \ {thread[t].call} : dialog'[c] = dialog[c]
<1>1. thread[t].call \in Calls /\ Known(thread[t].call) /\ thread[t].step = "dialogRun"
  BY BusyFacts DEF SetDialogState, At
<1>2. PICK s : /\ s = DialogSet(dialog[thread[t].call], thread[t].seen, DialogEventOf(thread[t].op))
               /\ dialog' = [dialog EXCEPT ![thread[t].call] = s]
  BY DEF SetDialogState
<1>3. thread[t].op \in {"bye", "byeOk"} => thread[t].seen # "EARLY"
  BY DEF SetDialogState, DialogEventOf, InvalidTransition
<1>4. thread[t].op \in {"bye", "byeOk"} => Left(thread[t].call)
  BY <1>1, <1>3 DEF Progress, FramesTold, FrameTold
<1>5. /\ thread[t].op = "accept" => s = "CONFIRMED"
      /\ thread[t].op \notin {"accept", "bye", "byeOk"} => s = "TERMINATED"
      /\ thread[t].op \in {"bye", "byeOk"} => s \in {"TERMINATED", dialog[thread[t].call]}
  BY <1>2 DEF DialogSet, DialogAfter, DialogEventOf
<1>6. s \in {"CONFIRMED", "TERMINATED"}
  BY <1>4, <1>5 DEF Left
<1>7. /\ dialog' \in [Calls -> DialogState] /\ dialog'[thread[t].call] = s
      /\ \A c \in Calls \ {thread[t].call} : dialog'[c] = dialog[c]
  BY <1>1, <1>2, <1>6 DEF TypeOK, DialogState
<1> QED BY <1>1, <1>4, <1>5, <1>6, <1>7

LEMMA OnwardStep ==
    ASSUME IInv, Progress, Next
    PROVE  Onward
<1> USE DEF IInv
<1>1. ASSUME NEW c \in Calls, Peer(c) PROVE Onward
  <2>1. CASE HandleInitialInvite(c)
    <3>1. ~Known(c)
      BY <2>1 DEF HandleInitialInvite, Anchored
    <3>2. /\ cancelled' = cancelled
          /\ \A d \in Calls \ {c} : /\ app'[d] = app[d] /\ sent'[d] = sent[d]
                                    /\ dialog'[d] = dialog[d]
                                    /\ responses'[d] = responses[d]
      BY <2>1 DEF HandleInitialInvite, TypeOK, requestVars
    <3> QED BY <3>1, <3>2 DEF Onward, Known, Left, Answered
  <2>2. CASE ~HandleInitialInvite(c)
    BY <1>1, <2>2 DEF Peer, ReceiveInviteAgain, ReceiveAckOfError, HandleAck,
       HandleCancel, HandleBye, ByeSuccessResponseReceived, Onward, Known,
       Left, Answered, istVars, dialogVars, mediaVars, requestVars
  <2> QED BY <2>1, <2>2
<1>2. ASSUME NEW t \in AppThreads, NEW c \in Calls, Application(t, c) PROVE Onward
  BY <1>2 DEF Application, AcceptCall, RejectCall, Terminate, Onward, Known,
     Left, Answered, TypeOK, istVars, dialogVars, mediaVars, requestVars
<1>3. ASSUME NEW c \in Calls, NEW x \in Timer, TimerFires(c, x) PROVE Onward
  BY <1>3 DEF TimerFires, Onward, Known, Left, Answered, dialogVars, mediaVars,
     requestVars
<1>4. ASSUME NEW t \in Threads, AppendResponse(t) PROVE Onward
  <2>1. PICK d \in Calls : d = thread[t].call
    BY <1>4, BusyFacts DEF AppendResponse, At
  <2>2. /\ \A c \in Calls : c # d => responses'[c] = responses[c]
        /\ responses'[d] = Append(responses[d], CodeOf(thread[t].op))
        /\ responses'[d] # <<>>
    BY <1>4, <2>1, AppendType DEF AppendResponse
  <2>3. responses[d] \in Seq(Codes) /\ CodeOf(thread[t].op) \in Codes
    BY <2>1 DEF TypeOK, CodeOf, Codes
  <2>4. Answered(d) => Answered(d)'
    BY <2>2, <2>3, AppendProperties DEF Answered
  <2> QED BY <1>4, <2>2, <2>4 DEF AppendResponse, Onward, Known, Left, Answered,
      dialogVars, mediaVars, requestVars
<1>5. ASSUME NEW t \in Threads, DispatchResponse(t) \/ GenerateBye(t) \/ DialogDispatch(t)
      PROVE Onward
  BY <1>5 DEF DispatchResponse, GenerateBye, DialogDispatch, Onward, Known, Left,
     Answered, StopSession, istVars, dialogVars, mediaVars, requestVars
<1>6. ASSUME NEW t \in Threads, TransactionStep(t) PROVE Onward
  BY <1>6, TransactionStepFacts DEF Onward, Known, Left, Answered
<1>7. ASSUME NEW t \in Threads,
             FinishAccept(t) \/ FinishRefusal(t) \/ FinishBye(t) \/ FinishOwnBye(t)
      PROVE Onward
  <2>1. SetDialogState(t)
    BY <1>7 DEF FinishAccept, FinishRefusal, FinishBye, FinishOwnBye
  <2>2. \A c \in Calls : Left(c) => Left(c)'
    BY <2>1, DialogRunFacts DEF Left
  <2>3. /\ cancelled' = cancelled /\ responses' = responses /\ sent' = sent
    BY <1>7 DEF FinishAccept, FinishRefusal, FinishBye, FinishOwnBye, istVars,
       requestVars
  <2>4. \A c \in Calls : /\ app[c] = "over" => app'[c] = "over"
                         /\ app[c] # "ringing" => app'[c] # "ringing"
    BY <1>7 DEF FinishAccept, FinishRefusal, FinishBye, FinishOwnBye, TypeOK
  <2> QED BY <2>2, <2>3, <2>4 DEF Onward, Known, Answered
<1>8. ASSUME NEW t \in Threads, InvalidDialogTransition(t) PROVE Onward
  BY <1>8 DEF InvalidDialogTransition, Onward, Known, Left, Answered, TypeOK,
     istVars, dialogVars, mediaVars, requestVars
<1> QED BY <1>1, <1>2, <1>3, <1>4, <1>5, <1>6, <1>7, <1>8
        DEF Next, Work, DialogStep

(* Only a thread that takes up a ringing call becomes one that answers.    *)
LEMMA OneAnswerStep ==
    ASSUME IInv, Progress, Next
    PROVE  OneAnswer'
<1> USE DEF IInv
<1>1. ASSUME NEW t \in Threads, \A u \in Threads \ {t} : thread'[u] = thread[u],
             Answering(t)' => Answering(t) /\ thread'[t].call = thread[t].call
      PROVE  OneAnswer'
  BY <1>1 DEF Progress, OneAnswer, Answering
<1>2. ASSUME NEW c \in Calls, Peer(c) PROVE OneAnswer'
  <2>1. /\ \A u \in Threads \ {Receiver} : thread'[u] = thread[u]
        /\ thread'[Receiver] = thread[Receiver] \/ ~Answering(Receiver)'
    BY <1>2 DEF Peer, HandleInitialInvite, ReceiveInviteAgain, ReceiveAckOfError,
       HandleAck, HandleCancel, HandleBye, ByeSuccessResponseReceived, Goto,
       TypeOK, Answering, Threads
  <2> QED BY <1>1, <2>1 DEF Threads, Answering
<1>3. ASSUME NEW t \in AppThreads, NEW c \in Calls, Application(t, c) PROVE OneAnswer'
  <2>1. CASE Terminate(t, c)
    <3>1. /\ \A u \in Threads \ {t} : thread'[u] = thread[u]
          /\ ~Answering(t)'
      BY <2>1 DEF Terminate, Goto, TypeOK, Answering, Threads
    <3> QED BY <1>1, <3>1 DEF Threads
  <2>2. CASE AcceptCall(t, c) \/ RejectCall(t, c)
    <3>1. /\ \A u \in Threads \ {t} : thread'[u] = thread[u]
          /\ thread'[t].call = c
          /\ app[c] = "ringing"
      BY <2>2 DEF AcceptCall, RejectCall, Goto, TypeOK, Threads
    <3>2. \A u \in Threads : Answering(u) => thread[u].call # c
      BY <3>1 DEF Owner, FrameOK, Answering
    <3> QED BY <3>1, <3>2 DEF Progress, OneAnswer, Answering, Threads
  <2> QED BY <1>3, <2>1, <2>2 DEF Application
<1>4. ASSUME NEW c \in Calls, NEW x \in Timer, TimerFires(c, x) PROVE OneAnswer'
  <2>1. /\ \A u \in Threads \ {TimerThread} : thread'[u] = thread[u]
        /\ ~Answering(TimerThread)'
    BY <1>4 DEF TimerFires, Goto, TypeOK, Answering, Threads, Timer
  <2> QED BY <1>1, <2>1 DEF Threads
<1>5. ASSUME NEW t \in Threads, AppendResponse(t) PROVE OneAnswer'
  <2>1. /\ \A u \in Threads \ {t} : thread'[u] = thread[u]
        /\ thread'[t].call = thread[t].call /\ thread'[t].op = thread[t].op
    BY <1>5, AdvanceType DEF AppendResponse, Step
  <2> QED BY <1>1, <2>1 DEF Answering
<1>6. ASSUME NEW t \in Threads, DispatchResponse(t) PROVE OneAnswer'
  <2>1. ist[thread[t].call] \in IstState
    BY <1>6, BusyFacts DEF DispatchResponse, At, TypeOK
  <2>2. /\ \A u \in Threads \ {t} : thread'[u] = thread[u]
        /\ thread'[t].call = thread[t].call /\ thread'[t].op = thread[t].op
    BY <1>6, <2>1, AdvanceType DEF DispatchResponse, Step
  <2> QED BY <1>1, <2>2 DEF Answering
<1>7. ASSUME NEW t \in Threads, DialogDispatch(t) PROVE OneAnswer'
  <2>1. dialog[thread[t].call] \in DialogState
    BY <1>7, BusyFacts DEF DialogDispatch, At, TypeOK
  <2>2. /\ \A u \in Threads \ {t} : thread'[u] = thread[u]
        /\ thread'[t].call = thread[t].call /\ thread'[t].op = thread[t].op
    BY <1>7, <2>1, AdvanceType DEF DialogDispatch, Step
  <2> QED BY <1>1, <2>2 DEF Answering
<1>8. ASSUME NEW t \in Threads, TransactionStep(t) PROVE OneAnswer'
  <2>1. /\ \A u \in Threads \ {t} : thread'[u] = thread[u]
        /\ \/ thread'[t] = Idle
           \/ thread'[t].call = thread[t].call /\ thread'[t].op = thread[t].op
    BY <1>8, TransactionStepFacts
  <2> QED BY <1>1, <2>1, IdleTold DEF Answering
<1>9. ASSUME NEW t \in Threads, InvalidDialogTransition(t) PROVE OneAnswer'
  <2>1. CASE t = Receiver
    <3>1. thread[t].seen \in IstState \cup DialogState \cup {"-"}
      BY DEF TypeOK, Frame
    <3>2. /\ \A u \in Threads \ {t} : thread'[u] = thread[u]
          /\ thread'[t].call = thread[t].call /\ thread'[t].op = thread[t].op
      BY <1>9, <2>1, <3>1, AdvanceType DEF InvalidDialogTransition, Die, Step
    <3> QED BY <1>1, <3>2 DEF Answering
  <2>2. CASE t # Receiver
    BY <1>1, <1>9, <2>2, BeginFacts, IdleTold DEF InvalidDialogTransition
  <2> QED BY <2>1, <2>2
<1>10. ASSUME NEW t \in Threads,
             \/ GenerateBye(t) \/ FinishAccept(t) \/ FinishRefusal(t)
             \/ FinishBye(t) \/ FinishOwnBye(t)
      PROVE OneAnswer'
  <2>1. Goto(t, Idle)
    BY <1>10 DEF GenerateBye, FinishAccept, FinishRefusal, FinishBye, FinishOwnBye
  <2> QED BY <1>1, <2>1, BeginFacts, IdleTold
<1> QED BY <1>2, <1>3, <1>4, <1>5, <1>6, <1>7, <1>8, <1>9, <1>10
        DEF Next, Work, DialogStep

(* What a thread relies on holds when it takes its next step, and nobody   *)
(* takes it away in between.                                               *)
LEMMA FramesToldStep ==
    ASSUME IInv, Progress, Next
    PROVE  FramesTold'
<1> USE DEF IInv
<1>0. Onward /\ FramesTold
  BY OnwardStep DEF Progress
<1>1. ASSUME NEW t \in Threads, \A u \in Threads \ {t} : thread'[u] = thread[u],
             FrameTold(t)',
             \A c \in Calls : \/ app'[c] = app[c]
                              \/ app'[c] = "over" /\ c \in cancelled'
                              \/ \A u \in Threads \ {t} : Answering(u) => thread[u].call # c
      PROVE  FramesTold'
  <2>1. ASSUME NEW u \in Threads \ {t} PROVE FrameTold(u)'
    <3>1. Answering(u) => thread[u].call \in Calls
      BY IdleAnswersNothing DEF Anchored, At
    <3> QED BY <1>0, <1>1, <3>1, FrameToldKept DEF FramesTold
  <2> QED BY <1>1, <2>1 DEF FramesTold
<1>2. ASSUME NEW c \in Calls, Peer(c) PROVE FramesTold'
  <2>1. CASE HandleInitialInvite(c)
    <3>1. \A u \in Threads : Answering(u) => thread[u].call # c
      BY <2>1, IdleAnswersNothing DEF HandleInitialInvite, Anchored, At
    <3>2. FrameTold(Receiver)'
      BY <2>1, <1>0, <3>1, FrameToldKept DEF HandleInitialInvite, FramesTold, Threads
    <3> QED BY <1>1, <2>1, <3>1, <3>2 DEF HandleInitialInvite, TypeOK, Threads
  <2>2. CASE HandleAck(c)
    <3>1. /\ \A u \in Threads \ {Receiver} : thread'[u] = thread[u]
          /\ app' = app
          /\ \/ thread'[Receiver] = thread[Receiver]
             \/ thread'[Receiver].op = "ack" /\ thread'[Receiver].step = "dead"
      BY <2>2, BeginFacts DEF HandleAck, Threads
    <3>2. ~Answering(Receiver)
      BY <2>2, IdleAnswersNothing DEF HandleAck, Threads
    <3>3. FrameTold(Receiver)'
      <4>1. CASE thread'[Receiver] = thread[Receiver]
        BY <4>1, <3>2, <1>0, FrameToldKept DEF FramesTold, Threads
      <4>2. CASE thread'[Receiver].op = "ack" /\ thread'[Receiver].step = "dead"
        BY <4>2 DEF FrameTold, Answering
      <4> QED BY <3>1, <4>1, <4>2
    <3> QED BY <1>1, <3>1, <3>3 DEF Threads
  <2>3. CASE ReceiveInviteAgain(c) \/ ReceiveAckOfError(c)
    <3>1. /\ \A u \in Threads \ {Receiver} : thread'[u] = thread[u]
          /\ app' = app
          /\ thread'[Receiver].op \in {"invite", "ack"}
          /\ thread'[Receiver].step = "request"
      BY <2>3, BeginFacts DEF ReceiveInviteAgain, ReceiveAckOfError, Threads
    <3>2. FrameTold(Receiver)'
      BY <3>1 DEF FrameTold, Answering
    <3> QED BY <1>1, <3>1, <3>2 DEF Threads
  <2>4. CASE HandleCancel(c) \/ HandleBye(c) \/ ByeSuccessResponseReceived(c)
    <3>1. CASE thread' = thread
      <4>1. ~Answering(Receiver) /\ app' = app
        BY <2>4, IdleAnswersNothing DEF HandleCancel, HandleBye,
           ByeSuccessResponseReceived, Threads
      <4>2. FrameTold(Receiver)'
        BY <1>0, <3>1, <4>1, FrameToldKept DEF FramesTold, Threads
      <4> QED BY <1>1, <3>1, <4>1, <4>2 DEF Threads
    <3>2. CASE thread' # thread
      <4>1. /\ \A u \in Threads \ {Receiver} : thread'[u] = thread[u]
            /\ app' = app
            /\ thread'[Receiver].call = c
            /\ thread'[Receiver].step \in {"append", "dialog"}
            /\ thread'[Receiver].op \in {"cancel", "bye", "byeOk"}
            /\ thread'[Receiver].op = "cancel" => c \in cancelled'
            /\ thread'[Receiver].op = "bye" => 200 \in sent'[c] \/ c \in ImpatientCalls
        BY <2>4, <3>2, BeginFacts DEF HandleCancel, HandleBye,
           ByeSuccessResponseReceived, Threads, istVars
      <4>2. FrameTold(Receiver)'
        BY <4>1 DEF FrameTold, Answering
      <4> QED BY <1>1, <4>1, <4>2 DEF Threads
    <3> QED BY <3>1, <3>2
  <2> QED BY <1>2, <2>1, <2>2, <2>3, <2>4 DEF Peer
<1>3. ASSUME NEW t \in AppThreads, NEW c \in Calls, Application(t, c) PROVE FramesTold'
  <2>1. /\ \A u \in Threads \ {t} : thread'[u] = thread[u]
        /\ thread'[t].call = c
        /\ thread'[t].step \in {"request", "terminate"}
        /\ thread'[t].op \in {"accept", "reject", "hangup"}
        /\ thread'[t].op = "accept" => app'[c] = "accepting"
        /\ thread'[t].op = "reject" => app'[c] = "rejecting"
        /\ \A d \in Calls : d # c => app'[d] = app[d]
        /\ app[c] \in {"ringing", "inCall"}
    BY <1>3, BeginFacts DEF Application, AcceptCall, RejectCall, Terminate, Threads, TypeOK
  <2>2. FrameTold(t)'
    BY <2>1 DEF FrameTold, Answering
  <2>3. \A u \in Threads : Answering(u) => thread[u].call # c
    BY <1>0, <2>1 DEF FramesTold, FrameTold, Answering
  <2> QED BY <1>1, <2>1, <2>2, <2>3 DEF Threads
<1>4. ASSUME NEW c \in Calls, NEW x \in Timer, TimerFires(c, x) PROVE FramesTold'
  <2>1. /\ \A u \in Threads \ {TimerThread} : thread'[u] = thread[u]
        /\ thread'[TimerThread].op \in Timer /\ thread'[TimerThread].step = "timer"
        /\ app' = app
    BY <1>4, BeginFacts DEF TimerFires, Threads
  <2>2. FrameTold(TimerThread)'
    BY <2>1 DEF FrameTold, Answering, Timer
  <2> QED BY <1>1, <2>1, <2>2 DEF Threads
<1>5. ASSUME NEW t \in Threads, AppendResponse(t) PROVE FramesTold'
  <2>1. /\ \A u \in Threads \ {t} : thread'[u] = thread[u]
        /\ thread'[t].call = thread[t].call /\ thread'[t].op = thread[t].op
        /\ thread'[t].step = "dispatch"
    BY <1>5, AdvanceFacts DEF AppendResponse
  <2>2. PICK d \in Calls : d = thread[t].call
    BY <1>5, BusyFacts DEF AppendResponse, At
  <2>3. Answering(t) => Answered(d)'
    <3>1. responses'[d] = Append(responses[d], CodeOf(thread[t].op))
      BY <1>5, <2>2, AppendType DEF AppendResponse
    <3>2. responses[d] \in Seq(Codes) /\ CodeOf(thread[t].op) \in Codes
      BY <2>2 DEF TypeOK, CodeOf, Codes
    <3>3. Answering(t) => CodeOf(thread[t].op) \in {200, 486}
      BY DEF Answering, CodeOf
    <3> QED BY <3>1, <3>2, <3>3, AppendProperties DEF Answered
  <2>4. FrameTold(t)'
    BY <1>0, <1>5, <2>1, <2>2, <2>3
    DEF AppendResponse, FramesTold, FrameTold, Answering, Onward, dialogVars, mediaVars,
        requestVars, Left
  <2> QED BY <1>1, <1>5, <2>1, <2>4 DEF AppendResponse
<1>6. ASSUME NEW t \in Threads, DispatchResponse(t) PROVE FramesTold'
  <2>1. /\ \A u \in Threads \ {t} : thread'[u] = thread[u]
        /\ thread'[t].call = thread[t].call /\ thread'[t].op = thread[t].op
        /\ thread'[t].step = "response" /\ thread[t].step = "dispatch"
        /\ UNCHANGED <<app, cancelled, sent, responses, dialog>>
    BY <1>6, AdvanceFacts DEF DispatchResponse, At, istVars, dialogVars, requestVars
  <2>2. FrameTold(t)'
    BY <1>0, <2>1 DEF FramesTold, FrameTold, Answering, Answered
  <2> QED BY <1>1, <2>1, <2>2
<1>7. ASSUME NEW t \in Threads, DialogDispatch(t) PROVE FramesTold'
  <2>1. PICK d \in Calls : d = thread[t].call /\ Known(d)
    BY <1>7, BusyFacts DEF DialogDispatch, At
  <2>2. /\ \A u \in Threads \ {t} : thread'[u] = thread[u]
        /\ thread'[t].call = d /\ thread'[t].op = thread[t].op
        /\ thread'[t].step = "dialogRun" /\ thread[t].step = "dialog"
        /\ thread'[t].seen = dialog[d]
        /\ UNCHANGED <<app, cancelled, sent, responses, dialog>>
    BY <1>7, <2>1, AdvanceFacts DEF DialogDispatch, At, istVars, dialogVars, requestVars
  <2>3. dialog[d] \in {"EARLY", "CONFIRMED", "TERMINATED"}
    BY <2>1 DEF Progress, Told, CallTold, DialogsOf, Anchored
  <2>4. thread[t].op = "byeOk" => dialog[d] # "EARLY"
    BY <2>1 DEF Progress, Told, CallTold, DialogsOf, Owner, FrameOK
  <2>5. FrameTold(t)'
    BY <1>0, <2>1, <2>2, <2>3, <2>4 DEF FramesTold, FrameTold, Answering, Answered, Left
  <2> QED BY <1>1, <2>2, <2>5
<1>8. ASSUME NEW t \in Threads, TransactionStep(t) PROVE FramesTold'
  <2>1. CASE thread'[t] = Idle
    BY <1>1, <1>8, <2>1, IdleTold, TransactionStepFacts
  <2>2. CASE thread'[t] # Idle
    <3>1. /\ thread'[t].call = thread[t].call
          /\ thread'[t].op = thread[t].op
          /\ thread'[t].step \in {"append", "dialog"}
          /\ thread'[t].step = "dialog" => thread[t].step = "response"
          /\ UNCHANGED <<app, cancelled, responses>>
          /\ thread[t].call \in Calls /\ Known(thread[t].call)
      BY <1>8, <2>2, TransactionStepFacts
    <3>2. FrameTold(t)'
      BY <1>0, <3>1 DEF FramesTold, FrameTold, Answering, Answered, Onward
    <3> QED BY <1>1, <1>8, <3>2, TransactionStepFacts
  <2> QED BY <2>1, <2>2
<1>9. ASSUME NEW t \in Threads,
             \/ GenerateBye(t) \/ FinishAccept(t) \/ FinishRefusal(t)
             \/ FinishBye(t) \/ FinishOwnBye(t)
      PROVE FramesTold'
  <2>1. Goto(t, Idle)
    BY <1>9 DEF GenerateBye, FinishAccept, FinishRefusal, FinishBye, FinishOwnBye
  <2>2. FrameTold(t)' /\ \A u \in Threads \ {t} : thread'[u] = thread[u]
    BY <2>1, BeginFacts, IdleTold
  <2>3. CASE GenerateBye(t) \/ FinishOwnBye(t)
    BY <1>1, <2>2, <2>3 DEF GenerateBye, FinishOwnBye
  <2>4. CASE FinishAccept(t) \/ FinishRefusal(t)
    <3>1. thread[t].call \in Calls /\ \A d \in Calls \ {thread[t].call} : app'[d] = app[d]
      BY <2>4, DialogRunFacts DEF FinishAccept, FinishRefusal, TypeOK
    <3>2. thread[t].op = "cancel" \/ Answering(t)
      BY <2>4 DEF FinishAccept, FinishRefusal, Answering
    <3>3. CASE thread[t].op = "cancel"
      <4>1. app'[thread[t].call] = "over" /\ thread[t].call \in cancelled'
        BY <1>0, <2>4, <3>1, <3>3
        DEF FinishAccept, FinishRefusal, TypeOK, FramesTold, FrameTold, requestVars
      <4> QED BY <1>1, <2>2, <3>1, <4>1
    <3>4. CASE Answering(t)
      <4>1. \A u \in Threads \ {t} : Answering(u) => thread[u].call # thread[t].call
        BY <3>4 DEF Progress, OneAnswer
      <4> QED BY <1>1, <2>2, <3>1, <4>1
    <3> QED BY <3>2, <3>3, <3>4
  <2>5. CASE FinishBye(t)
    <3>1. /\ thread[t].call \in Calls
          /\ \A d \in Calls \ {thread[t].call} : app'[d] = app[d]
          /\ Left(thread[t].call)
          /\ app'[thread[t].call] = "over"
      BY <2>5, DialogRunFacts DEF FinishBye, TypeOK
    <3>2. \A u \in Threads : Answering(u) /\ thread[u].call = thread[t].call =>
              thread[t].call \in cancelled
      BY <1>0, <3>1 DEF FramesTold, FrameTold, Answering, Progress, Told, CallTold,
         DialogsOf, Left
    <3> QED BY <1>0, <1>1, <2>2, <3>1, <3>2 DEF Onward
  <2> QED BY <1>9, <2>3, <2>4, <2>5
<1>10. ASSUME NEW t \in Threads, InvalidDialogTransition(t) PROVE FramesTold'
  <2>1. PICK d \in Calls : d = thread[t].call /\ Known(d)
    BY <1>10, BusyFacts DEF InvalidDialogTransition, At
  <2>2. CASE t = Receiver
    <3>1. /\ \A u \in Threads \ {t} : thread'[u] = thread[u]
          /\ thread'[t].call = d /\ thread'[t].op = thread[t].op
          /\ thread'[t].step = "dead" /\ thread[t].step = "dialogRun"
          /\ thread'[t].seen = thread[t].seen
          /\ UNCHANGED <<app, cancelled, sent, responses, dialog>>
      BY <1>10, <2>1, <2>2, AdvanceFacts
      DEF InvalidDialogTransition, Die, At, istVars, dialogVars, requestVars
    <3>2. InvalidTransition(thread[t].seen, DialogEventOf(thread[t].op))
      BY <1>10 DEF InvalidDialogTransition
    <3>3. /\ thread[t].seen \in {"EARLY", "CONFIRMED", "TERMINATED"}
          /\ thread[t].seen # "EARLY" => Left(d)
          /\ thread[t].op = "byeOk" => thread[t].seen # "EARLY"
      BY <1>0, <2>1, <3>1 DEF FramesTold, FrameTold
    <3>4. /\ thread[t].op \in {"bye", "cancel"}
          /\ thread[t].op = "bye" => thread[t].seen = "EARLY"
          /\ thread[t].op = "cancel" => Left(d)
      <4>1. thread[t].op \in {"bye", "byeOk", "cancel"}
        BY <2>2, <3>1, ThreadsAssumption DEF Owner, FrameOK, StepsOf, Timer
      <4> QED BY <3>2, <3>3, <4>1 DEF InvalidTransition, DialogEventOf
    <3>5. FrameTold(t)'
      BY <1>0, <2>1, <3>1, <3>4 DEF FramesTold, FrameTold, Answering, Answered, Left
    <3> QED BY <1>1, <3>1, <3>5
  <2>3. CASE t # Receiver
    <3>1. /\ FrameTold(t)' /\ \A u \in Threads \ {t} : thread'[u] = thread[u]
          /\ app'[d] = "over" /\ \A c \in Calls \ {d} : app'[c] = app[c]
      BY <1>10, <2>1, <2>3, BeginFacts, IdleTold DEF InvalidDialogTransition, TypeOK
    <3>2. Answering(t)
      <4>1. thread[t].step = "dialogRun"
        BY <1>10 DEF InvalidDialogTransition, At
      <4> QED BY <2>3, <4>1 DEF Owner, FrameOK, StepsOf, Timer, Answering
    <3>3. \A u \in Threads \ {t} : Answering(u) => thread[u].call # d
      BY <2>1, <3>2 DEF Progress, OneAnswer
    <3> QED BY <1>1, <3>1, <3>3
  <2> QED BY <2>2, <2>3
<1> QED BY <1>2, <1>3, <1>4, <1>5, <1>6, <1>7, <1>8, <1>9, <1>10
        DEF Next, Work, DialogStep

(* Each call's dialog follows its answer, its refusal or its CANCEL.       *)
LEMMA ToldStep ==
    ASSUME IInv, Progress, Next
    PROVE  Told'
<1> USE DEF IInv
<1>0. Onward /\ FramesTold /\ FramesTold' /\ Told /\ Anchored'
  BY OnwardStep, FramesToldStep, AnchoredStep DEF Progress
<1>1. ASSUME NEW d, NEW t \in Threads,
             \A u \in Threads \ {t} : thread'[u] = thread[u],
             \A c \in Calls \ {d} : /\ dialog'[c] = dialog[c] /\ app'[c] = app[c]
                                    /\ c \in dialogs => c \in dialogs'
                                    /\ c \in cancelled' <=> c \in cancelled,
             thread[t].step # "idle" => thread[t].call = d,
             thread'[t].step # "idle" => thread'[t].call = d,
             thread'[t].step = "idle" => thread'[t].op = "none",
             d \in Calls => CallTold(d)'
      PROVE  Told'
  <2>1. ASSUME NEW c \in Calls \ {d} PROVE CallTold(c)'
    <3>1. /\ thread[t].call = c => thread[t].op = "none"
          /\ thread'[t].call = c => thread'[t].op = "none"
      BY <1>1, IdleAnswersNothing DEF At
    <3>2. CallTold(c)
      BY <1>0 DEF Told
    <3>3. Answered(c) => Answered(c)'
      <4>1. CASE Known(c)
        BY <1>0, <4>1 DEF Onward
      <4>2. CASE ~Known(c)
        BY <4>2 DEF Answered, Known, TypeOK
      <4> QED BY <4>1, <4>2
    <3>4. Known(c) => Known(c)'
      BY <1>0 DEF Onward
    <3>5. Cancelling(c)' <=> Cancelling(c)
      BY <1>1, <3>1 DEF Cancelling, Threads
    <3>6. Cancelling(c) /\ At(Receiver, "dead")' => At(Receiver, "dead")
      BY <1>1, <3>1 DEF Cancelling, Threads, At
    <3>7. \A u \in Threads : Answering(u) /\ thread[u].call = c
              => Answering(u)' /\ thread'[u].call = c
      BY <1>1, <3>1 DEF Answering
    <3> QED BY <1>1, <3>2, <3>3, <3>4, <3>5, <3>6, <3>7, CallToldKept
  <2> QED BY <1>1, <2>1 DEF Told
<1>2. ASSUME NEW c \in Calls, HandleInitialInvite(c) PROVE Told'
  <2>1. /\ thread' = thread /\ cancelled' = cancelled /\ app'[c] = "ringing"
        /\ c \in dialogs' /\ dialog'[c] = "EARLY" /\ thread[Receiver].step = "idle"
    BY <1>2 DEF HandleInitialInvite, DialogAfter, TypeOK, At, requestVars
  <2>2. c \notin cancelled
    BY <1>0, <1>2 DEF HandleInitialInvite, Told, CallTold, Anchored
  <2>3. CallTold(c)'
    BY <2>1, <2>2 DEF CallTold, DialogsOf, Left
  <2>4. \A d \in Calls \ {c} : /\ dialog'[d] = dialog[d] /\ app'[d] = app[d]
                               /\ d \in dialogs => d \in dialogs'
    BY <1>2 DEF HandleInitialInvite, TypeOK
  <2> QED BY <1>1, <2>1, <2>3, <2>4, IdleAnswersNothing DEF Threads, At
<1>3. ASSUME NEW c \in Calls,
             \/ ReceiveInviteAgain(c) \/ ReceiveAckOfError(c) \/ HandleAck(c)
             \/ HandleBye(c) \/ ByeSuccessResponseReceived(c)
      PROVE Told'
  <2>1. /\ UNCHANGED <<responses, dialog, dialogs, app, cancelled>>
        /\ \A u \in Threads \ {Receiver} : thread'[u] = thread[u]
        /\ \/ thread'[Receiver] = thread[Receiver]
           \/ /\ thread'[Receiver].op \in {"invite", "ack", "bye", "byeOk"}
              /\ thread'[Receiver].step # "idle" /\ thread'[Receiver].call = c
        /\ At(Receiver, "idle")
    BY <1>3, BeginFacts DEF ReceiveInviteAgain, ReceiveAckOfError, HandleAck, HandleBye,
       ByeSuccessResponseReceived, istVars, dialogVars, requestVars, Threads
  <2>2. thread[Receiver].op = "none" /\ ~Answering(Receiver)
    BY <2>1, IdleAnswersNothing DEF Threads
  <2>3. ~Cancelling(c) /\ ~Cancelling(c)'
    BY <2>1, <2>2 DEF Cancelling
  <2>4. CallTold(c)'
    BY <1>0, <2>1, <2>2, <2>3, CallToldKept DEF Told, Answering, Threads, Known, Answered
  <2> QED BY <1>1, <2>1, <2>2, <2>4 DEF Threads, At
<1>4. ASSUME NEW c \in Calls, HandleCancel(c) PROVE Told'
  <2>1. /\ UNCHANGED <<responses, dialog, dialogs, app, sent>>
        /\ \A u \in Threads \ {Receiver} : thread'[u] = thread[u]
        /\ \/ thread'[Receiver] = thread[Receiver] /\ Last(responses[c]) >= 200
           \/ /\ thread'[Receiver].op = "cancel" /\ thread'[Receiver].step = "append"
              /\ thread'[Receiver].call = c
        /\ At(Receiver, "idle") /\ c \notin cancelled /\ c \in table
        /\ cancelled' = cancelled \cup {c}
    BY <1>4, BeginFacts DEF HandleCancel, istVars, dialogVars, Threads
  <2>2. thread[Receiver].op = "none" /\ ~Answering(Receiver) /\ ~Cancelling(c)
    BY <2>1, IdleAnswersNothing DEF Threads, Cancelling
  <2>3. Known(c)
    BY <2>1 DEF Anchored
  <2>4. app[c] = "ringing" => Last(responses[c]) = 180
    <3>1. responses[c] \in Seq(Codes) /\ responses[c] # <<>>
      BY <2>3 DEF Known, TypeOK
    <3> QED BY <2>2, <3>1, LastIsCode DEF Ringing, Undecided, Last
  <2>5. app[c] = "ringing" => Cancelling(c)' /\ ~At(Receiver, "dead")'
    BY <2>1, <2>4 DEF Cancelling, At
  <2>6. app[c] \in {"accepting", "rejecting"} =>
            \E u \in Threads : Answering(u)' /\ thread'[u].call = c
    BY <1>0, <2>1, <2>2 DEF Told, CallTold, Answering
  <2>7. Left(c)' => Answered(c)'
    BY <1>0, <2>1 DEF Told, CallTold, Left, Answered
  <2>8. CallTold(c)'
    BY <1>0, <2>1, <2>3, <2>5, <2>6, <2>7 DEF Told, CallTold, Onward, Answering
  <2> QED BY <1>1, <2>1, <2>2, <2>8 DEF Threads, At
<1>5. ASSUME NEW t \in AppThreads, NEW c \in Calls, AcceptCall(t, c) \/ RejectCall(t, c)
      PROVE Told'
  <2>1. /\ UNCHANGED <<responses, dialog, dialogs, cancelled>>
        /\ \A u \in Threads \ {t} : thread'[u] = thread[u]
        /\ Answering(t)' /\ thread'[t].call = c /\ thread'[t].step # "idle"
        /\ app[c] = "ringing" /\ app'[c] \in {"accepting", "rejecting"}
        /\ \A d \in Calls \ {c} : app'[d] = app[d]
        /\ At(t, "idle") /\ t \in Threads /\ t # Receiver
    BY <1>5, BeginFacts, ThreadsAssumption
    DEF AcceptCall, RejectCall, istVars, dialogVars, requestVars, Threads, Answering, TypeOK
  <2>2. Cancelling(c)' <=> Cancelling(c)
    BY <2>1 DEF Cancelling, Threads
  <2>3. CallTold(c)'
    BY <1>0, <2>1, <2>2 DEF Told, CallTold, DialogsOf, Left, Answered, Known
  <2> QED BY <1>1, <2>1, <2>3 DEF At
<1>6. ASSUME NEW t \in AppThreads, NEW c \in Calls, Terminate(t, c) PROVE Told'
  <2>1. /\ UNCHANGED <<responses, dialog, dialogs, cancelled>>
        /\ \A u \in Threads \ {t} : thread'[u] = thread[u]
        /\ thread'[t].call = c /\ thread'[t].step # "idle"
        /\ app[c] = "inCall" /\ app'[c] = "over"
        /\ \A d \in Calls \ {c} : app'[d] = app[d]
        /\ At(t, "idle") /\ t \in Threads /\ t # Receiver
    BY <1>6, BeginFacts, ThreadsAssumption
    DEF Terminate, istVars, dialogVars, requestVars, Threads, TypeOK
  <2>2. Cancelling(c)' <=> Cancelling(c)
    BY <2>1 DEF Cancelling, Threads
  <2>3. CallTold(c)'
    BY <1>0, <2>1, <2>2 DEF Told, CallTold, DialogsOf, Left, Answered, Known
  <2> QED BY <1>1, <2>1, <2>3 DEF At
<1>7. ASSUME NEW c \in Calls, NEW x \in Timer, TimerFires(c, x) PROVE Told'
  <2>1. /\ UNCHANGED <<responses, dialog, dialogs, app, cancelled>>
        /\ \A u \in Threads \ {TimerThread} : thread'[u] = thread[u]
        /\ thread'[TimerThread].call = c /\ thread'[TimerThread].step # "idle"
        /\ At(TimerThread, "idle") /\ TimerThread # Receiver
    BY <1>7, BeginFacts DEF TimerFires, dialogVars, requestVars, Threads, TimerThread, Receiver
  <2>2. thread[TimerThread].op = "none" /\ ~Answering(TimerThread)
    BY <2>1, IdleAnswersNothing DEF Threads
  <2>3. CallTold(c)'
    BY <1>0, <2>1, <2>2, CallToldKept DEF Told, Cancelling, At, Threads, Known, Answered,
       Answering
  <2> QED BY <1>1, <2>1, <2>3 DEF At, Threads
<1>8. ASSUME NEW t \in Threads, NEW d \in Calls, d = thread[t].call,
             UNCHANGED <<dialog, dialogs, app, cancelled>>, thread[t].step # "idle",
             \A u \in Threads \ {t} : thread'[u] = thread[u],
             \/ /\ thread'[t].call = d /\ thread'[t].op = thread[t].op
                /\ thread'[t].step \notin {"idle", "dead"}
             \/ thread'[t] = Idle /\ ~Answering(t) /\ thread[t].op # "cancel"
      PROVE Told'
  <2>1. /\ Answered(d) => Answered(d)'
        /\ Known(d)'
        /\ CallTold(d)
    BY <1>0, <1>8, BusyFacts DEF Told, Onward
  <2>2. Cancelling(d)' <=> Cancelling(d)
    BY <1>8, IdleType DEF Cancelling, Threads
  <2>3. Cancelling(d) /\ At(Receiver, "dead")' => At(Receiver, "dead")
    BY <1>8, IdleType DEF Cancelling, Threads, At
  <2>4. \A u \in Threads : Answering(u) /\ thread[u].call = d
            => Answering(u)' /\ thread'[u].call = d
    BY <1>8 DEF Answering
  <2>5. CallTold(d)'
    BY <1>8, <2>1, <2>2, <2>3, <2>4, CallToldKept
  <2> QED BY <1>1, <1>8, <2>5, IdleType
<1>9. ASSUME NEW t \in Threads,
             AppendResponse(t) \/ DispatchResponse(t) \/ DialogDispatch(t) \/ GenerateBye(t)
      PROVE Told'
  <2>1. thread[t].step # "idle" /\ thread[t].call \in Calls
    BY <1>9, BusyFacts DEF AppendResponse, DispatchResponse, DialogDispatch, GenerateBye, At
  <2>2. UNCHANGED <<dialog, dialogs, app, cancelled>>
    BY <1>9 DEF AppendResponse, DispatchResponse, DialogDispatch, GenerateBye, dialogVars,
       requestVars
  <2>3. CASE GenerateBye(t)
    <3>1. ~Answering(t) /\ thread[t].op # "cancel"
      BY <2>3 DEF GenerateBye, At, Owner, FrameOK, StepsOf, Timer, Answering
    <3> QED BY <1>8, <2>1, <2>2, <2>3, <3>1, BeginFacts DEF GenerateBye
  <2>4. CASE AppendResponse(t) \/ DispatchResponse(t) \/ DialogDispatch(t)
    BY <1>8, <2>1, <2>2, <2>4, AdvanceFacts DEF AppendResponse, DispatchResponse, DialogDispatch
  <2> QED BY <1>9, <2>3, <2>4
<1>10. ASSUME NEW t \in Threads, TransactionStep(t) PROVE Told'
  <2>1. CASE thread'[t] = Idle
    <3>1. ~Answering(t) /\ thread[t].op # "cancel"
      BY <1>10, <2>1, IdleType, TransactionStepFacts DEF Owner, FrameOK, StepsOf, Timer, Answering
    <3> QED BY <1>8, <1>10, <2>1, <3>1, TransactionStepFacts
  <2>2. CASE thread'[t] # Idle
    BY <1>8, <1>10, <2>2, TransactionStepFacts
  <2> QED BY <2>1, <2>2
<1>11. ASSUME NEW t \in Threads,
             FinishAccept(t) \/ FinishRefusal(t) \/ FinishBye(t) \/ FinishOwnBye(t)
      PROVE Told'
  <2>1. SetDialogState(t) /\ Goto(t, Idle)
    BY <1>11 DEF FinishAccept, FinishRefusal, FinishBye, FinishOwnBye
  <2>2. PICK d \in Calls : d = thread[t].call /\ Known(d)
    BY <2>1, DialogRunFacts
  <2>3. /\ thread[t].step = "dialogRun"
        /\ thread[t].op = "accept" => dialog'[d] = "CONFIRMED"
        /\ thread[t].op \notin {"accept", "bye", "byeOk"} => dialog'[d] = "TERMINATED"
        /\ dialog'[d] \in {"CONFIRMED", "TERMINATED"}
        /\ \A c \in Calls \ {d} : dialog'[c] = dialog[c]
        /\ \A u \in Threads \ {t} : thread'[u] = thread[u]
        /\ thread'[t] = Idle
        /\ cancelled' = cancelled /\ responses' = responses
    BY <1>11, <2>1, <2>2, DialogRunFacts, BeginFacts
    DEF FinishAccept, FinishRefusal, FinishBye, FinishOwnBye, istVars, requestVars
  <2>4. \A c \in Calls \ {d} : /\ app'[c] = app[c]
                               /\ c \in dialogs => c \in dialogs'
    BY <1>11, <2>2 DEF FinishAccept, FinishRefusal, FinishBye, FinishOwnBye, TypeOK
  <2>5. CASE FinishAccept(t)
    <3>1. app'[d] = IF app[d] = "accepting" THEN "inCall" ELSE app[d]
      BY <2>2, <2>5 DEF FinishAccept, TypeOK
    <3>2. app[d] \in {"accepting", "over"} /\ Answered(d) /\ dialogs' = dialogs
      BY <1>0, <2>2, <2>3, <2>5 DEF FinishAccept, FramesTold, FrameTold, Answering
    <3>3. dialog'[d] = "CONFIRMED"
      BY <2>3, <2>5 DEF FinishAccept
    <3>4. CallTold(d)'
      BY <1>0, <2>2, <2>3, <3>1, <3>2, <3>3 DEF Told, CallTold, DialogsOf, Answered, Known
    <3> QED BY <1>1, <2>2, <2>3, <2>4, <3>4, IdleType
  <2>6. CASE FinishRefusal(t)
    <3>1. app'[d] = "over"
      BY <2>2, <2>6 DEF FinishRefusal, TypeOK
    <3>2. dialog'[d] = "TERMINATED"
      BY <2>3, <2>6 DEF FinishRefusal
    <3>3. Answered(d)' \/ (d \in cancelled' /\ ~Cancelling(d)')
      <4>1. CASE thread[t].op = "reject"
        BY <1>0, <2>2, <2>3, <4>1 DEF FramesTold, FrameTold, Answering, Answered
      <4>2. CASE thread[t].op = "cancel"
        <5>1. t = Receiver
          BY <4>2 DEF Owner, FrameOK
        <5> QED BY <1>0, <2>2, <2>3, <4>2, <5>1, IdleType
                DEF FramesTold, FrameTold, Cancelling
      <4> QED BY <2>6, <4>1, <4>2 DEF FinishRefusal
    <3>4. CallTold(d)'
      BY <1>0, <2>2, <2>3, <3>1, <3>2, <3>3 DEF Told, CallTold, DialogsOf, Known
    <3> QED BY <1>1, <2>2, <2>3, <2>4, <3>4, IdleType
  <2>7. CASE FinishBye(t) \/ FinishOwnBye(t)
    <3>1. Left(d) /\ thread[t].op \in {"bye", "byeOk"} /\ t = Receiver
      BY <2>1, <2>2, <2>7, DialogRunFacts DEF FinishBye, FinishOwnBye, Owner, FrameOK
    <3>2. app'[d] = "over" /\ dialog'[d] \in {"CONFIRMED", "TERMINATED"}
      BY <2>2, <2>3, <2>7, <3>1 DEF FinishBye, FinishOwnBye, TypeOK, Owner, FrameOK
    <3>3. ~Cancelling(d)'
      BY <2>3, <3>1, IdleType DEF Cancelling
    <3>4. CallTold(d)'
      BY <1>0, <2>2, <2>3, <3>1, <3>2, <3>3 DEF Told, CallTold, DialogsOf, Known, Answered
    <3> QED BY <1>1, <2>2, <2>3, <2>4, <3>4, IdleType
  <2> QED BY <1>11, <2>5, <2>6, <2>7
<1>12. ASSUME NEW t \in Threads, InvalidDialogTransition(t) PROVE Told'
  <2>1. PICK d \in Calls : d = thread[t].call /\ Known(d)
    BY <1>12, BusyFacts DEF InvalidDialogTransition, At
  <2>2. /\ UNCHANGED <<responses, dialog, dialogs, cancelled>>
        /\ thread[t].step = "dialogRun"
        /\ InvalidTransition(thread[t].seen, DialogEventOf(thread[t].op))
    BY <1>12 DEF InvalidDialogTransition, At, istVars, dialogVars, requestVars
  <2>3. thread[t].op \in {"cancel", "accept", "reject"} => Left(d)
    BY <1>0, <2>1, <2>2 DEF FramesTold, FrameTold, InvalidTransition, DialogEventOf
  <2>4. CallTold(d)
    BY <1>0 DEF Told
  <2>5. CASE t = Receiver
    <3>1. /\ \A u \in Threads \ {t} : thread'[u] = thread[u]
          /\ thread'[t].call = d /\ thread'[t].op = thread[t].op
          /\ thread'[t].step = "dead"
          /\ app' = app
      BY <1>12, <2>1, <2>5, AdvanceFacts DEF InvalidDialogTransition, Die
    <3>2. Cancelling(d)' <=> Cancelling(d)
      BY <2>1, <2>5, <3>1 DEF Cancelling
    <3>3. Cancelling(d) => app[d] # "ringing"
      BY <2>1, <2>3, <2>4, <2>5 DEF Cancelling, CallTold, DialogsOf, Left
    <3>4. CallTold(d)'
      BY <2>1, <2>2, <2>4, <3>1, <3>2, <3>3, CallToldKept DEF Answering, Known, Answered
    <3> QED BY <1>1, <2>1, <2>2, <3>1, <3>4
  <2>6. CASE t # Receiver
    <3>1. /\ thread'[t] = Idle /\ \A u \in Threads \ {t} : thread'[u] = thread[u]
          /\ app'[d] = "over" /\ \A c \in Calls \ {d} : app'[c] = app[c]
      BY <1>12, <2>1, <2>6, BeginFacts DEF InvalidDialogTransition, TypeOK
    <3>2. Answering(t)
      BY <2>2, <2>6 DEF Owner, FrameOK, StepsOf, Timer, Answering
    <3>3. Cancelling(d)' <=> Cancelling(d)
      BY <2>6, <3>1 DEF Cancelling, Threads
    <3>4. CallTold(d)'
      BY <2>2, <2>3, <2>4, <3>1, <3>2, <3>3
      DEF CallTold, DialogsOf, Left, Answering, Known, Answered
    <3> QED BY <1>1, <2>1, <2>2, <3>1, <3>4, IdleType
  <2> QED BY <2>5, <2>6
<1> QED BY <1>2, <1>3, <1>4, <1>5, <1>6, <1>7, <1>9, <1>10, <1>11, <1>12
        DEF Next, Peer, Application, Work, DialogStep

-----------------------------------------------------------------------------
(***************************************************************************)
(* The offers of the calls that are accepted                               *)
(***************************************************************************)

(* A 200 was given to sendReponse for call c.                              *)
Accepted(c) == \E i \in DOMAIN responses[c] : responses[c][i] = 200

(* A thread runs acceptCall for call c.                                    *)
Accepting(c) == \E t \in Threads : thread[t].op = "accept" /\ thread[t].call = c

(* handleAck finds a media destination, or the call may lack a codec.      *)
Offered(c) == mediaDest # None \/ c \in MuteCalls

(* An ACK of call c has ended the receiver thread.                         *)
DeadOnAck(c) ==
    /\ At(Receiver, "dead")
    /\ thread[Receiver].op = "ack"
    /\ thread[Receiver].call = c

(* acceptCall takes the offer before it gives the 200, so an accepted call *)
(* has a destination for its media unless it offered no codec; a call with *)
(* a codec whose ACK ended the receiver thread is never accepted.          *)
Offers ==
    \A c \in Calls :
        /\ 200 \in sent[c] => Accepted(c)
        /\ Accepted(c) \/ Accepting(c) => Offered(c)
        /\ DeadOnAck(c) =>
              \/ c \in MuteCalls
              \/ app[c] # "ringing" /\ ~Accepting(c) /\ ~Accepted(c)

(* What a step changes of the things the offers are about.                 *)
LEMMA OfferFacts ==
    ASSUME IInv, Progress, Next, NEW c \in Calls
    PROVE  /\ mediaDest # None => mediaDest' # None
           /\ Accepted(c)' => Accepted(c) \/ Accepting(c)
           /\ 200 \in sent'[c] => 200 \in sent[c] \/ Accepted(c)
           /\ Accepting(c)' => \/ Accepting(c)
                               \/ app[c] = "ringing" /\ Offered(c)'
           /\ DeadOnAck(c)' => \/ DeadOnAck(c)
                               \/ HandleAck(c) /\ mediaDest = None
<1> USE DEF IInv
<1>1. ASSUME NEW t \in Threads,
             UNCHANGED <<responses, mediaDest>>,
             200 \in sent'[c] => 200 \in sent[c] \/ Accepted(c),
             \A u \in Threads \ {t} : thread'[u] = thread[u],
             \/ thread'[t] = Idle
             \/ /\ thread'[t].op = thread[t].op /\ thread'[t].call = thread[t].call
                /\ thread'[t].step # "dead" \/ thread[t].op # "ack"
             \/ /\ thread'[t].op # "accept"
                /\ thread'[t].step # "dead"
      PROVE  /\ mediaDest # None => mediaDest' # None
             /\ Accepted(c)' => Accepted(c)
             /\ 200 \in sent'[c] => 200 \in sent[c] \/ Accepted(c)
             /\ Accepting(c)' => Accepting(c)
             /\ DeadOnAck(c)' => DeadOnAck(c)
  BY <1>1, IdleType DEF Accepted, Accepting, DeadOnAck, At, Threads
<1>2. CASE \E d \in Calls : Peer(d)
  <2>1. PICK d \in Calls : Peer(d)
    BY <1>2
  <2>2. CASE HandleInitialInvite(d)
    <3>1. /\ UNCHANGED <<mediaDest, thread>>
          /\ responses' = [responses EXCEPT ![d] = <<180>>]
          /\ sent' = [sent EXCEPT ![d] = {180}]
      BY <2>2 DEF HandleInitialInvite, mediaVars
    <3>2. Accepted(c)' => Accepted(c)
      BY <3>1 DEF Accepted, TypeOK
    <3>3. 200 \in sent'[c] => 200 \in sent[c]
      BY <3>1 DEF TypeOK
    <3> QED BY <3>1, <3>2, <3>3 DEF Accepting, DeadOnAck, At
  <2>3. CASE HandleAck(d)
    <3>1. /\ UNCHANGED <<responses, sent>>
          /\ mediaDest' # mediaDest => mediaDest' = d
          /\ \A u \in Threads \ {Receiver} : thread'[u] = thread[u]
          /\ \/ thread'[Receiver] = thread[Receiver]
             \/ /\ thread'[Receiver].op = "ack" /\ thread'[Receiver].call = d
                /\ mediaDest = None
          /\ At(Receiver, "idle")
      BY <2>3, BeginFacts DEF HandleAck, istVars, Threads
    <3>2. thread[Receiver].op = "none" /\ None \notin Calls
      BY <3>1, IdleAnswersNothing, CallsAssumption DEF Threads
    <3>3. Accepting(c)' => Accepting(c)
      BY <3>1 DEF Accepting, Threads
    <3>4. DeadOnAck(c)' => d = c /\ mediaDest = None /\ UNCHANGED mediaDest
      BY <2>3, <3>1, <3>2 DEF DeadOnAck, At, HandleAck
    <3> QED BY <2>3, <3>1, <3>2, <3>3, <3>4 DEF Accepted
  <2>4. CASE \/ ReceiveInviteAgain(d) \/ ReceiveAckOfError(d) \/ HandleCancel(d)
             \/ HandleBye(d) \/ ByeSuccessResponseReceived(d)
    <3>1. /\ UNCHANGED <<responses, mediaDest, sent>>
          /\ \A u \in Threads \ {Receiver} : thread'[u] = thread[u]
          /\ At(Receiver, "idle")
          /\ \/ thread'[Receiver] = thread[Receiver]
             \/ thread'[Receiver].op # "accept" /\ thread'[Receiver].step # "dead"
      BY <2>4, BeginFacts
      DEF ReceiveInviteAgain, ReceiveAckOfError, HandleCancel, HandleBye,
          ByeSuccessResponseReceived, istVars, mediaVars, Threads
    <3>2. thread[Receiver].step # "dead"
      BY <3>1 DEF At
    <3> QED BY <1>1, <3>1, <3>2 DEF Threads
  <2> QED BY <2>1, <2>2, <2>3, <2>4 DEF Peer
<1>3. CASE \E t \in AppThreads, d \in Calls : Application(t, d)
  <2>1. PICK t \in AppThreads, d \in Calls : Application(t, d)
    BY <1>3
  <2>2. CASE AcceptCall(t, d)
    <3>1. /\ UNCHANGED <<responses, sent>>
          /\ mediaDest' = d \/ (d \in MuteCalls /\ mediaDest' = mediaDest)
          /\ \A u \in Threads \ {t} : thread'[u] = thread[u]
          /\ thread'[t].call = d /\ thread'[t].op = "accept"
          /\ app[d] = "ringing" /\ t # Receiver
      BY <2>2, BeginFacts, ThreadsAssumption DEF AcceptCall, istVars, Threads
    <3>2. mediaDest' = d => mediaDest' # None
      BY CallsAssumption
    <3>3. Accepting(c)' => Accepting(c) \/ c = d
      BY <3>1 DEF Accepting, Threads
    <3>4. DeadOnAck(c)' => DeadOnAck(c)
      BY <3>1 DEF DeadOnAck, At, Threads
    <3>5. Accepted(c)' => Accepted(c)
      BY <3>1 DEF Accepted
    <3> QED BY <3>1, <3>2, <3>3, <3>4, <3>5 DEF Offered
  <2>3. CASE RejectCall(t, d) \/ Terminate(t, d)
    <3>1. /\ UNCHANGED <<responses, mediaDest, sent>>
          /\ \A u \in Threads \ {t} : thread'[u] = thread[u]
          /\ thread'[t].op # "accept" /\ thread'[t].step # "dead"
      BY <2>3, BeginFacts DEF RejectCall, Terminate, istVars, mediaVars, Threads
    <3> QED BY <1>1, <3>1 DEF Threads
  <2> QED BY <2>1, <2>2, <2>3 DEF Application
<1>4. CASE \E d \in Calls, x \in Timer : TimerFires(d, x)
  <2>1. PICK d \in Calls, x \in Timer : TimerFires(d, x)
    BY <1>4
  <2>2. /\ UNCHANGED <<responses, mediaDest, sent>>
        /\ \A u \in Threads \ {TimerThread} : thread'[u] = thread[u]
        /\ thread'[TimerThread].op # "accept" /\ thread'[TimerThread].step # "dead"
    BY <2>1, BeginFacts DEF TimerFires, mediaVars, Threads, Timer
  <2> QED BY <1>1, <2>2 DEF Threads
<1>5. CASE \E t \in Threads : AppendResponse(t)
  <2>1. PICK t \in Threads : AppendResponse(t)
    BY <1>5
  <2>2. PICK d \in Calls : d = thread[t].call
    BY <2>1, BusyFacts DEF AppendResponse, At
  <2>3. /\ UNCHANGED <<mediaDest, sent>>
        /\ \A u \in Threads \ {t} : thread'[u] = thread[u]
        /\ thread'[t].op = thread[t].op /\ thread'[t].call = thread[t].call
        /\ thread'[t].step = "dispatch"
    BY <2>1, AdvanceFacts DEF AppendResponse, mediaVars
  <2>4. /\ \A e \in Calls : e # d => responses'[e] = responses[e]
        /\ responses'[d] = Append(responses[d], CodeOf(thread[t].op))
    BY <2>1, <2>2, AppendType DEF AppendResponse
  <2>5. responses[d] \in Seq(Codes) /\ CodeOf(thread[t].op) \in Codes
    BY <2>2 DEF TypeOK, CodeOf, Codes
  <2>6. Accepted(c)' => Accepted(c) \/ Accepting(c)
    <3>1. CodeOf(thread[t].op) = 200 => thread[t].op = "accept"
      BY DEF CodeOf
    <3>2. /\ \A i \in DOMAIN responses[d] :
                 i \in DOMAIN responses'[d] /\ responses'[d][i] = responses[d][i]
          /\ \A i \in DOMAIN responses'[d] :
                 \/ responses'[d][i] = CodeOf(thread[t].op)
                 \/ i \in DOMAIN responses[d] /\ responses'[d][i] = responses[d][i]
      BY <2>4, <2>5, AppendElements
    <3>3. CASE c = d
      BY <2>2, <3>1, <3>2, <3>3 DEF Accepted, Accepting
    <3>4. CASE c # d
      BY <2>4, <3>4 DEF Accepted
    <3> QED BY <3>3, <3>4
  <2>7. Accepting(c)' => Accepting(c)
    BY <2>3 DEF Accepting
  <2>8. DeadOnAck(c)' => DeadOnAck(c)
    BY <2>3 DEF DeadOnAck, At, Threads
  <2> QED BY <2>3, <2>6, <2>7, <2>8
<1>6. CASE \E t \in Threads :
              \/ DispatchResponse(t) \/ DialogDispatch(t)
              \/ InvalidDialogTransition(t)
  <2>1. PICK t \in Threads :
              \/ DispatchResponse(t) \/ DialogDispatch(t)
              \/ InvalidDialogTransition(t)
    BY <1>6
  <2>2. /\ UNCHANGED <<responses, mediaDest, sent>>
        /\ \A u \in Threads \ {t} : thread'[u] = thread[u]
        /\ \/ thread'[t] = Idle
           \/ thread'[t].op = thread[t].op /\ thread'[t].call = thread[t].call
        /\ thread[t].step \in {"dispatch", "dialog", "dialogRun"}
    BY <2>1, AdvanceFacts, BeginFacts
    DEF DispatchResponse, DialogDispatch, InvalidDialogTransition, Die, At, istVars,
        mediaVars
  <2>3. thread[t].op # "ack"
    BY <2>2 DEF Owner, FrameOK, StepsOf
  <2> QED BY <1>1, <2>2, <2>3
<1>7. CASE \E t \in Threads : TransactionStep(t)
  <2>1. PICK t \in Threads : TransactionStep(t)
    BY <1>7
  <2>2. 200 \in sent'[c] => 200 \in sent[c] \/ Accepted(c)
    <3>1. CASE c = thread[t].call
      <4>1. responses[c] \in Seq(Codes) /\ responses[c] # <<>>
        BY <2>1, <3>1, TransactionStepFacts DEF TypeOK, Known
      <4>2. Len(responses[c]) \in DOMAIN responses[c]
        BY <4>1, LastIsCode
      <4> QED BY <2>1, <4>2, TransactionStepFacts DEF Accepted, Last
    <3>2. CASE c # thread[t].call
      BY <2>1, <3>2, TransactionStepFacts
    <3> QED BY <3>1, <3>2
  <2> QED BY <1>1, <2>1, <2>2, TransactionStepFacts
<1>8. CASE \E t \in Threads :
              \/ GenerateBye(t) \/ FinishAccept(t) \/ FinishRefusal(t)
              \/ FinishBye(t) \/ FinishOwnBye(t)
  <2>1. PICK t \in Threads :
              \/ GenerateBye(t) \/ FinishAccept(t) \/ FinishRefusal(t)
              \/ FinishBye(t) \/ FinishOwnBye(t)
    BY <1>8
  <2>2. Goto(t, Idle) /\ UNCHANGED <<responses, mediaDest, sent>>
    BY <2>1 DEF GenerateBye, FinishAccept, FinishRefusal, FinishBye, FinishOwnBye,
       istVars, mediaVars
  <2> QED BY <1>1, <2>2, BeginFacts
<1> QED BY <1>2, <1>3, <1>4, <1>5, <1>6, <1>7, <1>8 DEF Next, Work, DialogStep

LEMMA OffersStep ==
    ASSUME IInv, Progress, Offers, Next
    PROVE  Offers'
<1> SUFFICES ASSUME NEW c \in Calls
             PROVE  /\ 200 \in sent'[c] => Accepted(c)'
                    /\ Accepted(c)' \/ Accepting(c)' => Offered(c)'
                    /\ DeadOnAck(c)' =>
                          \/ c \in MuteCalls
                          \/ app'[c] # "ringing" /\ ~Accepting(c)' /\ ~Accepted(c)'
  BY DEF Offers
<1>1. /\ mediaDest # None => mediaDest' # None
      /\ Accepted(c)' => Accepted(c) \/ Accepting(c)
      /\ 200 \in sent'[c] => 200 \in sent[c] \/ Accepted(c)
      /\ Accepting(c)' => Accepting(c) \/ (app[c] = "ringing" /\ Offered(c)')
      /\ DeadOnAck(c)' => \/ DeadOnAck(c)
                          \/ HandleAck(c) /\ mediaDest = None
  BY OfferFacts
<1>2. /\ 200 \in sent[c] => Accepted(c)
      /\ Accepted(c) \/ Accepting(c) => Offered(c)
      /\ DeadOnAck(c) =>
            \/ c \in MuteCalls
            \/ app[c] # "ringing" /\ ~Accepting(c) /\ ~Accepted(c)
  BY DEF Offers
<1>3. Accepted(c) => Accepted(c)'
  <2>1. CASE \E t \in Threads : AppendResponse(t)
    <3>1. PICK t \in Threads : AppendResponse(t)
      BY <2>1
    <3>2. PICK d \in Calls : d = thread[t].call
      BY <3>1, BusyFacts DEF AppendResponse, At, IInv
    <3>3. /\ \A e \in Calls : e # d => responses'[e] = responses[e]
          /\ responses'[d] = Append(responses[d], CodeOf(thread[t].op))
      BY <3>1, <3>2, AppendType DEF AppendResponse, IInv
    <3>4. responses[d] \in Seq(Codes) /\ CodeOf(thread[t].op) \in Codes
      BY <3>2 DEF TypeOK, CodeOf, Codes, IInv
    <3>5. /\ \A i \in DOMAIN responses[d] :
                 i \in DOMAIN responses'[d] /\ responses'[d][i] = responses[d][i]
          /\ \A i \in DOMAIN responses'[d] :
                 \/ responses'[d][i] = CodeOf(thread[t].op)
                 \/ i \in DOMAIN responses[d] /\ responses'[d][i] = responses[d][i]
      BY <3>3, <3>4, AppendElements
    <3> QED BY <3>3, <3>5 DEF Accepted
  <2>2. CASE ~(\E t \in Threads : AppendResponse(t))
    <3>1. responses' = responses \/ (\E d \in Calls : HandleInitialInvite(d))
      BY <2>2, TransactionStepFacts
      DEF IInv, Next, Peer, Application, Work, DialogStep, ReceiveInviteAgain, ReceiveAckOfError, HandleAck,
          HandleCancel, HandleBye, ByeSuccessResponseReceived, AcceptCall, RejectCall,
          Terminate, TimerFires, DispatchResponse, GenerateBye, DialogDispatch, FinishAccept,
          FinishRefusal, FinishBye, FinishOwnBye, InvalidDialogTransition, istVars
    <3>2. ASSUME NEW d \in Calls, HandleInitialInvite(d) PROVE Accepted(c) => Accepted(c)'
      <4>1. ~Known(d) /\ responses' = [responses EXCEPT ![d] = <<180>>]
        BY <3>2 DEF HandleInitialInvite, Anchored, IInv
      <4> QED BY <4>1 DEF Accepted, Known, TypeOK, IInv
    <3> QED BY <3>1, <3>2 DEF Accepted
  <2> QED BY <2>1, <2>2
<1>4. HandleAck(c) => app[c] # "ringing" /\ UNCHANGED <<app, responses>>
  <2>1. HandleAck(c) => thread[Receiver].op = "none"
    BY IdleAnswersNothing DEF HandleAck, Threads, IInv
  <2> QED BY <2>1 DEF HandleAck, AckReachesDialog, Ringing, Undecided, Cancelling, IInv,
      istVars
<1>5. DeadOnAck(c) => Known(c) /\ Onward
  BY OnwardStep DEF DeadOnAck, At, Threads, Anchored, IInv
<1> QED BY <1>1, <1>2, <1>3, <1>4, <1>5 DEF Offered, Onward, Accepted

-----------------------------------------------------------------------------
(***************************************************************************)
(* The answer of a call that no CANCEL disturbs                            *)
(***************************************************************************)

(* What a thread that works on call c does when nothing but the peer's     *)
(* INVITEs and acceptCall drives the call's transaction.                   *)
FrameUndisturbed(t, c) ==
    LET f == thread[t]
    IN  /\ f.op \notin Timer
        /\ f.op = "ack" => f.step = "dead"
        /\ f.op = "invite" => f.seen \in {"PROCEEDING", "TERMINATED"}
        /\ f.op = "accept" =>
             /\ f.step \in {"request", "response"} => f.seen = "PROCEEDING"
             /\ f.step \in {"request", "append", "dispatch", "response"} =>
                   ist[c] = "PROCEEDING"
             /\ f.step \in {"dispatch", "response", "dialog", "dialogRun"} =>
                   Last(responses[c]) = 200
             /\ f.step \in {"dialog", "dialogRun"} => 200 \in sent[c]

(* The transaction of such a call sends 180s and 200s only: no timer runs, *)
(* no ACK is on its way, and it leaves PROCEEDING when the 200 is sent.    *)
Undisturbed(c) ==
    /\ sent[c] \subseteq {180, 200}
    /\ \A i \in DOMAIN responses[c] : responses[c][i] \in {180, 200}
    /\ \A x \in Timer : timers[c][x] = 0
    /\ ist[c] \in {"PROCEEDING", "TERMINATED"}
    /\ app[c] = "ringing" => ist[c] = "PROCEEDING"
    /\ app[c] = "inCall" => 200 \in sent[c]
    /\ \A t \in Threads : thread[t].call = c => FrameUndisturbed(t, c)

(* The call may still be established.                                      *)
Live(c) == app[c] \in {"ringing", "accepting", "inCall"}

Calm == \A c \in Calls : Live(c) /\ ~Cancelling(c) => Undisturbed(c)

(* A call that is neither cancelled nor over after a step was not before.  *)
LEMMA StillCalm ==
    ASSUME IInv, Progress, Calm, Next, NEW c \in Calls, Known(c),
           Live(c)', ~Cancelling(c)'
    PROVE  Live(c) /\ ~Cancelling(c) /\ Undisturbed(c)
<1> USE DEF IInv
<1>1. Live(c)
  <2>1. ASSUME NEW d \in Calls, Peer(d) PROVE app'[c] = app[c]
    <3>1. HandleInitialInvite(d) => d # c
      BY DEF HandleInitialInvite, Anchored
    <3> QED BY <2>1, <3>1
            DEF Peer, HandleInitialInvite, ReceiveInviteAgain, ReceiveAckOfError, HandleAck,
                HandleCancel, HandleBye, ByeSuccessResponseReceived, TypeOK
  <2>2. ASSUME NEW t \in AppThreads, NEW d \in Calls, Application(t, d)
        PROVE  app'[c] = app[c] \/ app[c] \in {"ringing", "inCall"}
    BY <2>2 DEF Application, AcceptCall, RejectCall, Terminate, TypeOK
  <2>3. ASSUME NEW t \in Threads, Work(t)
        PROVE  app'[c] = app[c] \/ app'[c] = "over" \/ app[c] = "accepting"
    <3>1. CASE DialogStep(t)
      BY <3>1 DEF DialogStep, DialogDispatch, FinishAccept, FinishRefusal, FinishBye,
         FinishOwnBye, InvalidDialogTransition, TypeOK
    <3>2. CASE ~DialogStep(t)
      BY <2>3, <3>2, TransactionStepFacts
      DEF Work, AppendResponse, DispatchResponse, GenerateBye
    <3> QED BY <3>1, <3>2
  <2>4. \A d \in Calls, x \in Timer : TimerFires(d, x) => app' = app
    BY DEF TimerFires
  <2> QED BY <2>1, <2>2, <2>3, <2>4 DEF Next, Live
<1>2. Cancelling(c) => thread'[Receiver] # thread[Receiver]
  BY DEF Cancelling
<1>3. ~Cancelling(c)
  <2> SUFFICES ASSUME Cancelling(c) PROVE FALSE
    OBVIOUS
  <2>1. thread[Receiver].step # "idle"
    BY IdleAnswersNothing DEF Cancelling, Threads, At
  <2>2. \A d \in Calls : ~Peer(d)
    BY <2>1, <1>2 DEF Peer, HandleInitialInvite, ReceiveInviteAgain, ReceiveAckOfError,
       HandleAck, HandleCancel, HandleBye, ByeSuccessResponseReceived, At
  <2>3. ASSUME NEW t \in AppThreads, NEW d \in Calls, Application(t, d) PROVE FALSE
    <3>1. t \in Threads /\ t # Receiver
      BY ThreadsAssumption DEF Threads
    <3> QED BY <1>2, <2>3, <3>1, BeginFacts
            DEF Application, AcceptCall, RejectCall, Terminate, Threads
  <2>4. ASSUME NEW d \in Calls, NEW x \in Timer, TimerFires(d, x) PROVE FALSE
    <3>1. TimerThread \in Threads /\ TimerThread # Receiver
      BY DEF Threads, TimerThread, Receiver
    <3> QED BY <1>2, <2>4, <3>1, BeginFacts DEF TimerFires, Threads
  <2>5. PICK t \in Threads : Work(t)
    BY <2>2, <2>3, <2>4 DEF Next
  <2>6. t = Receiver
    BY <2>5, <1>2, TransactionStepFacts, AdvanceFacts, BeginFacts
    DEF Work, DialogStep, AppendResponse, DispatchResponse, GenerateBye, DialogDispatch,
        FinishAccept, FinishRefusal, FinishBye, FinishOwnBye, InvalidDialogTransition, Threads
  <2>7. thread[t].op = "cancel" /\ thread[t].call = c
    BY <2>6 DEF Cancelling
  <2>8. CASE FinishRefusal(t)
    BY <2>7, <2>8 DEF FinishRefusal, TypeOK, Live
  <2>9. CASE \/ AppendResponse(t) \/ DispatchResponse(t) \/ DialogDispatch(t)
             \/ InvalidDialogTransition(t)
    BY <2>6, <2>7, <2>9, AdvanceFacts
    DEF AppendResponse, DispatchResponse, DialogDispatch, InvalidDialogTransition, Die,
        Cancelling
  <2>10. CASE TransactionStep(t)
    <3>1. thread'[t] # Idle
      BY <2>7, <2>10, IdleType, TransactionStepFacts DEF Owner, FrameOK, StepsOf, Timer
    <3> QED BY <2>6, <2>7, <2>10, <3>1, TransactionStepFacts DEF Cancelling
  <2>11. ~GenerateBye(t)
    BY <2>7 DEF GenerateBye, At, Owner, FrameOK, StepsOf
  <2> QED BY <2>5, <2>7, <2>8, <2>9, <2>10, <2>11
          DEF Work, DialogStep, FinishAccept, FinishBye, FinishOwnBye
<1> QED BY <1>1, <1>3 DEF Calm

(* Steps that leave the transaction of a call alone.                       *)
LEMMA UndisturbedKept ==
    ASSUME NEW c \in Calls, Undisturbed(c),
           UNCHANGED <<ist[c], responses[c], timers[c], sent[c]>>,
           app'[c] = "ringing" => app[c] = "ringing",
           app'[c] = "inCall" => app[c] = "inCall" \/ 200 \in sent[c],
           \A t \in Threads : thread'[t].call = c =>
               \/ thread'[t] = thread[t]
               \/ FrameUndisturbed(t, c)'
    PROVE  Undisturbed(c)'
BY DEF Undisturbed, FrameUndisturbed

LEMMA CalmStep ==
    ASSUME IInv, Progress, Calm, Next
    PROVE  Calm'
<1> USE DEF IInv
<1> SUFFICES ASSUME NEW c \in Calls, Live(c)', ~Cancelling(c)'
             PROVE  Undisturbed(c)'
  BY DEF Calm
<1>1. CASE ~Known(c)
  <2>1. app[c] = "none" /\ \A x \in Timer : timers[c][x] = 0
    BY <1>1 DEF Anchored
  <2>2. \A t \in Threads : thread[t].call = c => thread[t].op = "none"
    BY <1>1, IdleAnswersNothing DEF Anchored, At
  <2>3. HandleInitialInvite(c)
    <3>1. ASSUME NEW t \in Threads, Work(t) PROVE app'[c] = "none"
      <4>1. thread[t].step # "idle" => thread[t].call # c
        BY <1>1 DEF Anchored
      <4> QED BY <2>1, <3>1, <4>1, TransactionStepFacts
              DEF Work, DialogStep, AppendResponse, DispatchResponse, GenerateBye,
                  DialogDispatch, FinishAccept, FinishRefusal, FinishBye, FinishOwnBye,
                  InvalidDialogTransition, SetDialogState, At, TypeOK
    <3>2. \A d \in Calls : Peer(d) => app'[c] = "none" \/ HandleInitialInvite(c)
      BY <2>1 DEF Peer, HandleInitialInvite, ReceiveInviteAgain, ReceiveAckOfError,
         HandleAck, HandleCancel, HandleBye, ByeSuccessResponseReceived, TypeOK
    <3>3. \A t \in AppThreads, d \in Calls : Application(t, d) => app'[c] = "none"
      BY <2>1 DEF Application, AcceptCall, RejectCall, Terminate, TypeOK
    <3> QED BY <2>1, <3>1, <3>2, <3>3 DEF Next, TimerFires, Live
  <2>4. /\ responses'[c] = <<180>> /\ sent'[c] = {180} /\ ist'[c] = "PROCEEDING"
        /\ app'[c] = "ringing" /\ UNCHANGED <<timers, thread>>
    BY <2>3 DEF HandleInitialInvite, SetState, TypeOK
  <2> QED BY <2>1, <2>2, <2>4 DEF Undisturbed, FrameUndisturbed, Timer
<1> SUFFICES ASSUME Known(c) PROVE Undisturbed(c)'
  BY <1>1
<1>2. Live(c) /\ ~Cancelling(c) /\ Undisturbed(c)
  BY StillCalm
<1>3. ASSUME NEW t \in Threads, thread[t].call = c
      PROVE  /\ thread[t].op \in {"none", "invite", "ack", "accept", "bye"}
             /\ thread[t].op = "accept" => app[c] = "accepting"
             /\ FrameUndisturbed(t, c)
  <2>1. thread[t].op \notin {"reject", "cancel", "hangup", "byeOk"}
    BY <1>2, <1>3
    DEF Progress, FramesTold, FrameTold, Live, Cancelling, Owner, FrameOK
  <2>2. thread[t].op = "accept" => app[c] = "accepting"
    BY <1>2, <1>3 DEF Progress, FramesTold, FrameTold, Live
  <2>3. FrameUndisturbed(t, c) /\ thread[t].op \in Op
    BY <1>2, <1>3 DEF Undisturbed, TypeOK, Frame
  <2> QED BY <2>1, <2>2, <2>3 DEF FrameUndisturbed, Op
<1>4. \A t, u \in Threads : /\ thread[t].op = "accept" /\ thread[t].call = c
                            /\ thread[u].op = "accept" /\ thread[u].call = c
                            => t = u
  BY DEF Progress, OneAnswer, Answering
<1>5. ASSUME NEW d \in Calls, Peer(d) PROVE Undisturbed(c)'
  <2>1. CASE HandleInitialInvite(d)
    <3>1. d # c
      BY <2>1 DEF HandleInitialInvite, Anchored
    <3>2. /\ UNCHANGED <<timers, thread>>
          /\ ist'[c] = ist[c] /\ responses'[c] = responses[c]
          /\ sent'[c] = sent[c] /\ app'[c] = app[c]
      BY <2>1, <3>1 DEF HandleInitialInvite, SetState, TypeOK
    <3> QED BY <1>2, <3>2, UndisturbedKept
  <2>2. CASE ~HandleInitialInvite(d)
    <3>1. UNCHANGED <<ist, responses, timers, sent, app>>
      BY <1>5, <2>2 DEF Peer, ReceiveInviteAgain, ReceiveAckOfError, HandleAck, HandleCancel,
         HandleBye, ByeSuccessResponseReceived, istVars
    <3>2. /\ \A u \in Threads \ {Receiver} : thread'[u] = thread[u]
          /\ \/ thread'[Receiver] = thread[Receiver]
             \/ /\ thread'[Receiver].call = d
                /\ \/ thread'[Receiver].op \in {"bye", "byeOk", "cancel"}
                   \/ thread'[Receiver].op = "ack" /\ thread'[Receiver].step = "dead"
                   \/ thread'[Receiver].op = "ack" /\ sent[d] \cap {486, 487} # {}
                   \/ thread'[Receiver].op = "invite" /\ thread'[Receiver].seen = ist[d]
      BY <1>5, <2>2, BeginFacts
      DEF Peer, ReceiveInviteAgain, ReceiveAckOfError, HandleAck, HandleCancel, HandleBye,
          ByeSuccessResponseReceived, Threads
    <3>3. \/ thread'[Receiver] = thread[Receiver] \/ d # c
          \/ FrameUndisturbed(Receiver, c)'
      BY <1>2, <3>1, <3>2 DEF Undisturbed, FrameUndisturbed, Timer
    <3> QED BY <1>2, <3>1, <3>2, <3>3, UndisturbedKept
  <2> QED BY <2>1, <2>2
<1>6. ASSUME NEW t \in AppThreads, NEW d \in Calls, Application(t, d)
      PROVE  Undisturbed(c)'
  <2>1. /\ UNCHANGED <<ist, responses, timers, sent>>
        /\ \A u \in Threads \ {t} : thread'[u] = thread[u]
        /\ thread'[t].call = d /\ t \in Threads
    BY <1>6, BeginFacts DEF Application, AcceptCall, RejectCall, Terminate, istVars, Threads
  <2>2. CASE d # c
    <3>1. app'[c] = app[c]
      BY <1>6, <2>2 DEF Application, AcceptCall, RejectCall, Terminate, TypeOK
    <3> QED BY <1>2, <2>1, <2>2, <3>1, UndisturbedKept
  <2>3. CASE d = c
    <3>1. AcceptCall(t, c)
      BY <1>6, <2>3 DEF Application, RejectCall, Terminate, TypeOK, Live
    <3>2. /\ app[c] = "ringing" /\ app'[c] = "accepting"
          /\ thread'[t].op = "accept" /\ thread'[t].step = "request"
          /\ thread'[t].seen = ist[c]
      BY <2>1, <3>1, BeginFacts DEF AcceptCall, TypeOK
    <3>3. FrameUndisturbed(t, c)'
      BY <1>2, <2>1, <3>2 DEF Undisturbed, FrameUndisturbed, Timer
    <3> QED BY <1>2, <2>1, <3>2, <3>3, UndisturbedKept
  <2> QED BY <2>2, <2>3
<1>7. ASSUME NEW d \in Calls, NEW x \in Timer, TimerFires(d, x) PROVE Undisturbed(c)'
  <2>1. d # c
    BY <1>2, <1>7 DEF TimerFires, Undisturbed
  <2>2. /\ UNCHANGED <<ist, responses, sent, app>> /\ timers'[c] = timers[c]
        /\ \A u \in Threads \ {TimerThread} : thread'[u] = thread[u]
        /\ thread'[TimerThread].call = d
    BY <1>7, <2>1, BeginFacts DEF TimerFires, TypeOK, Threads
  <2> QED BY <1>2, <2>1, <2>2, UndisturbedKept DEF Threads
<1>8. ASSUME NEW t \in Threads, thread[t].call # c,
             \/ AppendResponse(t) \/ DispatchResponse(t) \/ GenerateBye(t)
             \/ TransactionStep(t) \/ DialogStep(t)
      PROVE  Undisturbed(c)'
  <2>1. /\ \A u \in Threads \ {t} : thread'[u] = thread[u]
        /\ thread'[t] = Idle \/ thread'[t].call = thread[t].call
    BY <1>8, AdvanceFacts, TransactionStepFacts, BeginFacts
    DEF AppendResponse, DispatchResponse, GenerateBye, DialogStep, DialogDispatch,
        FinishAccept, FinishRefusal, FinishBye, FinishOwnBye, InvalidDialogTransition, Die
  <2>2. thread[t].call \in Calls
    BY <1>8, BusyFacts, TransactionStepFacts
    DEF AppendResponse, DispatchResponse, GenerateBye, DialogStep, DialogDispatch,
        FinishAccept, FinishRefusal, FinishBye, FinishOwnBye, InvalidDialogTransition,
        SetDialogState, At
  <2>3. app'[c] = app[c]
    BY <1>8, TransactionStepFacts
    DEF AppendResponse, DispatchResponse, GenerateBye, DialogStep, DialogDispatch,
        FinishAccept, FinishRefusal, FinishBye, FinishOwnBye, InvalidDialogTransition, TypeOK
  <2>4. UNCHANGED <<ist[c], responses[c], timers[c], sent[c]>>
    <3>1. CASE TransactionStep(t)
      BY <1>8, <2>2, <3>1, ScheduleType
      DEF TransactionStep, ProceedingReceivedInvite, ProceedingReceived2xx,
          ProceedingReceived300To699, CompletedReceivedInvite, CompletedReceivedAck,
          CompletedTimerG, CompletedTimerH, ConfirmedTimerI, Ignored, SetState,
          SendLastResponse, istVars, TypeOK
    <3>2. CASE ~TransactionStep(t)
      BY <1>8, <2>2, <3>2, AppendType
      DEF AppendResponse, DispatchResponse, GenerateBye, DialogStep, DialogDispatch,
          FinishAccept, FinishRefusal, FinishBye, FinishOwnBye, InvalidDialogTransition,
          istVars
    <3> QED BY <3>1, <3>2
  <2>5. thread'[t].call # c
    BY <1>8, <2>1, IdleType, CallsAssumption
  <2> QED BY <1>2, <2>1, <2>3, <2>4, <2>5, UndisturbedKept
<1>9. ASSUME NEW t \in Threads, thread[t].call = c, AppendResponse(t)
      PROVE  Undisturbed(c)'
  <2>1. /\ UNCHANGED <<ist, timers, sent, app>>
        /\ \A u \in Threads \ {t} : thread'[u] = thread[u]
        /\ thread'[t].op = thread[t].op /\ thread'[t].call = c
        /\ thread[t].step = "append" /\ thread'[t].step = "dispatch"
    BY <1>9, AdvanceFacts DEF AppendResponse, At
  <2>2. thread[t].op = "accept"
    <3>1. "append" \in StepsOf(thread[t].op)
      BY <2>1 DEF Owner, FrameOK
    <3> QED BY <1>3, <1>9, <3>1 DEF StepsOf
  <2>3. responses'[c] = Append(responses[c], 200) /\ responses[c] \in Seq(Codes) /\ 200 \in Codes
    BY <1>9, <2>2, AppendType DEF AppendResponse, CodeOf, TypeOK, Codes
  <2>4. /\ \A i \in DOMAIN responses'[c] :
              responses'[c][i] = 200 \/ (i \in DOMAIN responses[c] /\ responses'[c][i] = responses[c][i])
        /\ Last(responses'[c]) = 200
    BY <2>3, AppendElements
  <2>5. ist[c] = "PROCEEDING"
    BY <1>3, <1>9, <2>1, <2>2 DEF FrameUndisturbed
  <2>6. ASSUME NEW u \in Threads, thread'[u].call = c PROVE FrameUndisturbed(u, c)'
    <3>1. CASE u = t
      BY <2>1, <2>2, <2>4, <2>5, <3>1 DEF FrameUndisturbed, Timer
    <3>2. CASE u # t
      <4>1. thread[u].op # "accept" /\ FrameUndisturbed(u, c)
        BY <1>3, <1>4, <1>9, <2>1, <2>2, <2>6, <3>2
      <4> QED BY <2>1, <3>2, <4>1 DEF FrameUndisturbed
    <3> QED BY <3>1, <3>2
  <2>7. \A i \in DOMAIN responses'[c] : responses'[c][i] \in {180, 200}
    BY <1>2, <2>4 DEF Undisturbed
  <2> QED BY <1>2, <2>1, <2>6, <2>7 DEF Undisturbed
<1>10. ASSUME NEW t \in Threads, thread[t].call = c, DispatchResponse(t)
       PROVE  Undisturbed(c)'
  <2>1. /\ UNCHANGED <<ist, responses, timers, sent, app>>
        /\ \A u \in Threads \ {t} : thread'[u] = thread[u]
        /\ thread'[t].op = thread[t].op /\ thread'[t].call = c
        /\ thread[t].step = "dispatch" /\ thread'[t].step = "response"
        /\ thread'[t].seen = ist[c]
    BY <1>10, AdvanceFacts DEF DispatchResponse, At, istVars
  <2>2. FrameUndisturbed(t, c)'
    <3>1. FrameUndisturbed(t, c) /\ thread[t].op \in {"none", "invite", "ack", "accept", "bye"}
      BY <1>3, <1>10
    <3>2. thread[t].op = "accept"
      BY <2>1, <3>1 DEF Owner, FrameOK, StepsOf
    <3> QED BY <2>1, <3>1, <3>2 DEF FrameUndisturbed, Timer
  <2> QED BY <1>2, <2>1, <2>2, UndisturbedKept
<1>11. ASSUME NEW t \in Threads, thread[t].call = c, DialogDispatch(t)
       PROVE  Undisturbed(c)'
  <2>1. /\ UNCHANGED <<ist, responses, timers, sent, app>>
        /\ \A u \in Threads \ {t} : thread'[u] = thread[u]
        /\ thread'[t].op = thread[t].op /\ thread'[t].call = c
        /\ thread[t].step = "dialog" /\ thread'[t].step = "dialogRun"
    BY <1>11, AdvanceFacts DEF DialogDispatch, At, istVars
  <2>2. FrameUndisturbed(t, c)'
    <3>1. FrameUndisturbed(t, c) /\ thread[t].op \in {"none", "invite", "ack", "accept", "bye"}
      BY <1>3, <1>11
    <3>2. thread[t].op \in {"accept", "bye"}
      BY <2>1, <3>1 DEF Owner, FrameOK, StepsOf
    <3> QED BY <2>1, <3>1, <3>2 DEF FrameUndisturbed, Timer
  <2> QED BY <1>2, <2>1, <2>2, UndisturbedKept
<1>12. ASSUME NEW t \in Threads, thread[t].call = c,
              \/ GenerateBye(t) \/ FinishAccept(t) \/ FinishRefusal(t)
              \/ FinishBye(t) \/ FinishOwnBye(t) \/ InvalidDialogTransition(t)
       PROVE  Undisturbed(c)'
  <2>1. UNCHANGED <<ist, responses, timers, sent>>
    BY <1>12 DEF GenerateBye, FinishAccept, FinishRefusal, FinishBye, FinishOwnBye,
       InvalidDialogTransition, istVars
  <2>2. app'[c] = app[c] \/ (FinishAccept(t) /\ app'[c] = "inCall")
    BY <1>12 DEF GenerateBye, FinishAccept, FinishRefusal, FinishBye, FinishOwnBye,
       InvalidDialogTransition, TypeOK, Live
  <2>3. FinishAccept(t) => 200 \in sent[c]
    BY <1>3, <1>12 DEF FinishAccept, SetDialogState, At, FrameUndisturbed
  <2>4. /\ \A u \in Threads \ {t} : thread'[u] = thread[u]
        /\ \/ thread'[t].op = "none"
           \/ /\ thread'[t].op = thread[t].op /\ thread[t].step = "dialogRun"
              /\ t = Receiver
    BY <1>12, AdvanceFacts, BeginFacts, IdleType
    DEF GenerateBye, FinishAccept, FinishRefusal, FinishBye, FinishOwnBye,
        InvalidDialogTransition, Die, At
  <2>5. thread'[t].op \in {"none", "bye"}
    <3>1. CASE thread'[t].op = "none"
      BY <3>1
    <3>2. CASE thread'[t].op = thread[t].op /\ thread[t].step = "dialogRun" /\ t = Receiver
      BY <1>3, <1>12, <3>2, ThreadsAssumption DEF Owner, FrameOK, StepsOf
    <3> QED BY <2>4, <3>1, <3>2
  <2>6. FrameUndisturbed(t, c)'
    BY <2>5 DEF FrameUndisturbed, Timer
  <2> QED BY <1>2, <2>1, <2>2, <2>3, <2>4, <2>6, UndisturbedKept
<1>13. ASSUME NEW t \in Threads, thread[t].call = c, TransactionStep(t)
       PROVE  Undisturbed(c)'
  <2>1. /\ UNCHANGED <<responses, app>>
        /\ \A u \in Threads \ {t} : thread'[u] = thread[u]
        /\ thread[t].step \in {"request", "response", "timer"}
        /\ \/ thread'[t] = Idle
           \/ /\ thread'[t].call = c /\ thread'[t].op = thread[t].op
              /\ \/ thread[t].step = "request" /\ thread'[t].step = "append"
                 \/ thread[t].step = "response" /\ thread'[t].step = "dialog"
    BY <1>13, TransactionStepFacts
  <2>2. /\ thread[t].op \in {"invite", "accept"}
        /\ thread[t].op = "invite" =>
              thread[t].step = "request" /\ thread[t].seen \in {"PROCEEDING", "TERMINATED"}
        /\ thread[t].op = "accept" =>
              thread[t].step \in {"request", "response"} /\ thread[t].seen = "PROCEEDING"
    <3>1. FrameUndisturbed(t, c) /\ thread[t].op \in {"none", "invite", "ack", "accept", "bye"}
      BY <1>3, <1>13
    <3>2. thread[t].op \in {"invite", "accept"} /\ thread[t].step # "timer"
      BY <2>1, <3>1 DEF Owner, FrameOK, StepsOf, FrameUndisturbed
    <3>3. thread[t].op = "invite" => thread[t].step = "request"
      BY <2>1 DEF Owner, FrameOK, StepsOf
    <3> QED BY <2>1, <3>1, <3>2, <3>3 DEF FrameUndisturbed
  <2>3. CASE ProceedingReceivedInvite(t)
    <3>1. UNCHANGED <<timers, sent>> /\ ist'[c] = "PROCEEDING" /\ thread[t].step = "request"
      BY <1>13, <2>2, <2>3
      DEF ProceedingReceivedInvite, SetState, TypeOK, Handling, EventOf
    <3>2. FrameUndisturbed(t, c)'
      <4>1. CASE thread'[t] = Idle
        BY <4>1, IdleType DEF FrameUndisturbed, Timer
      <4>2. CASE thread'[t] # Idle
        <5>1. thread[t].op = "accept"
          BY <1>13, <2>2, <4>2, TransactionStepFacts, <3>1 DEF Answering
        <5> QED BY <2>1, <3>1, <4>2, <5>1 DEF FrameUndisturbed, Timer
      <4> QED BY <4>1, <4>2
    <3>3. ASSUME NEW u \in Threads, thread'[u].call = c PROVE FrameUndisturbed(u, c)'
      BY <1>3, <2>1, <3>1, <3>2, <3>3 DEF FrameUndisturbed
    <3> QED BY <1>2, <2>1, <3>1, <3>3 DEF Undisturbed
  <2>4. CASE ProceedingReceived2xx(t)
    <3>1. /\ UNCHANGED timers /\ ist'[c] = "TERMINATED"
          /\ sent'[c] = sent[c] \cup {Last(responses[c])}
          /\ thread[t].op = "accept" /\ thread[t].step = "response"
      BY <1>13, <2>2, <2>4
      DEF ProceedingReceived2xx, SetState, SendLastResponse, TypeOK, Handling, EventOf
    <3>2. Last(responses[c]) = 200 /\ app[c] = "accepting"
      BY <1>3, <1>13, <3>1 DEF FrameUndisturbed
    <3>3. thread'[t] # Idle
      BY <1>13, <3>1, IdleType, TransactionStepFacts
    <3>4. FrameUndisturbed(t, c)'
      BY <2>1, <3>1, <3>2, <3>3 DEF FrameUndisturbed, Timer
    <3>5. ASSUME NEW u \in Threads, thread'[u].call = c PROVE FrameUndisturbed(u, c)'
      <4>1. CASE u # t
        <5>1. thread[u].op # "accept" /\ FrameUndisturbed(u, c)
          BY <1>3, <1>4, <1>13, <2>1, <3>1, <3>5, <4>1
        <5> QED BY <2>1, <4>1, <5>1 DEF FrameUndisturbed
      <4> QED BY <3>4, <4>1
    <3> QED BY <1>2, <2>1, <3>1, <3>2, <3>5 DEF Undisturbed
  <2>5. CASE Ignored(t)
    <3>1. UNCHANGED <<ist, timers, sent>>
      BY <2>5 DEF Ignored, istVars
    <3>2. thread[t].op = "invite"
      BY <1>13, <2>2, <2>5 DEF Ignored, Handled, EventOf
    <3>3. thread'[t] = Idle
      BY <1>13, <2>2, <3>2, TransactionStepFacts DEF Answering
    <3>4. FrameUndisturbed(t, c)'
      BY <3>3, IdleType DEF FrameUndisturbed, Timer
    <3> QED BY <1>2, <2>1, <3>1, <3>4, UndisturbedKept
  <2>6. ~(\/ CompletedReceivedInvite(t) \/ CompletedReceivedAck(t) \/ CompletedTimerG(t)
          \/ CompletedTimerH(t) \/ ConfirmedTimerI(t) \/ ProceedingReceived300To699(t))
    BY <2>2 DEF CompletedReceivedInvite, CompletedReceivedAck, CompletedTimerG,
       CompletedTimerH, ConfirmedTimerI, ProceedingReceived300To699, Handling, EventOf
  <2> QED BY <1>13, <2>3, <2>4, <2>5, <2>6 DEF TransactionStep
<1> QED BY <1>5, <1>6, <1>7, <1>8, <1>9, <1>10, <1>11, <1>12, <1>13
        DEF Next, Work, DialogStep

-----------------------------------------------------------------------------
(***************************************************************************)
(* The theorems                                                            *)
(***************************************************************************)

LEMMA InitIInv == Init => IInv
<1> SUFFICES ASSUME Init PROVE IInv
  OBVIOUS
<1>1. TypeOK
  <2>1. [t \in Threads |-> Idle] \in [Threads -> Frame]
    BY IdleType
  <2>2. <<>> \in Seq(Codes)
    BY EmptySeq
  <2> QED BY <2>1, <2>2 DEF Init, TypeOK, IstState, DialogState, AppState, Codes
<1>2. \A t \in Threads : thread[t] = Idle
  BY DEF Init
<1>3. Anchored
  BY <1>2, IdleType DEF Init, Anchored, Known
<1>4. Owner
  BY <1>2 DEF Init, Owner, FrameOK, StepsOf, Idle, Timer
<1>5. Ringing
  BY DEF Init, Ringing
<1> QED BY <1>1, <1>3, <1>4, <1>5 DEF IInv

LEMMA NextIInv == IInv /\ [Next]_vars => IInv'
BY TypeStep, AnchoredStep, OwnerStep, RingingStep DEF IInv

(* The inductive invariant holds in every reachable state.                 *)
THEOREM Inductive == Spec => []IInv
BY InitIInv, NextIInv, PTL DEF Spec

(* Every variable keeps its type: in particular the transaction that a     *)
(* thread sends the last response of always has one.                       *)
THEOREM TypeCorrect == Spec => []TypeOK
<1>1. IInv => TypeOK
  BY DEF IInv
<1> QED BY <1>1, Inductive, PTL

(* What acceptCall and rejectCall look up, and use without a check, is     *)
(* there as long as the application may answer: no CANCEL, ACK or timer of *)
(* any call removes the transaction or the dialog of a call that rings.    *)
THEOREM AnswerFindsItsCall == Spec => []RingingCallIsInTheTables
<1>1. IInv => RingingCallIsInTheTables
  BY DEF IInv, Ringing, Undecided, RingingCallIsInTheTables
<1> QED BY <1>1, Inductive, PTL

(* The invariant of the calls' stories: what every property below needs.   *)
CallInv == IInv /\ Progress /\ Offers /\ Calm

LEMMA InitCallInv == Init => CallInv
<1> SUFFICES ASSUME Init PROVE CallInv
  OBVIOUS
<1>1. \A t \in Threads : thread[t] = Idle /\ thread[t].op = "none" /\ thread[t].step = "idle"
  BY IdleType DEF Init
<1>2. \A c \in Calls : /\ app[c] = "none" /\ dialog[c] = "INIT" /\ responses[c] = <<>>
                       /\ sent[c] = {} /\ c \notin cancelled
  BY DEF Init
<1>3. OneAnswer /\ FramesTold
  BY <1>1 DEF OneAnswer, FramesTold, FrameTold, Answering
<1>4. Told
  BY <1>2 DEF Told, CallTold, DialogsOf, Left
<1>5. Offers
  <2>1. \A c \in Calls : ~Accepted(c) /\ ~Accepting(c) /\ ~DeadOnAck(c)
    BY <1>1, <1>2 DEF Accepted, Accepting, DeadOnAck, At, Threads
  <2> QED BY <1>2, <2>1 DEF Offers
<1>6. Calm
  BY <1>2 DEF Calm, Live
<1> QED BY <1>3, <1>4, <1>5, <1>6, InitIInv DEF CallInv, Progress

LEMMA NextCallInv == CallInv /\ [Next]_vars => CallInv'
<1> SUFFICES ASSUME CallInv, [Next]_vars PROVE CallInv'
  OBVIOUS
<1>1. IInv'
  BY NextIInv DEF CallInv
<1>2. CASE Next
  BY <1>1, <1>2, OneAnswerStep, FramesToldStep, ToldStep, OffersStep, CalmStep
  DEF CallInv, Progress
<1>3. CASE UNCHANGED vars
  <2>1. OneAnswer' /\ FramesTold'
    BY <1>3 DEF CallInv, Progress, OneAnswer, FramesTold, FrameTold, Answering, Answered,
       Left, vars, istVars, dialogVars, mediaVars, requestVars
  <2>2. Told'
    BY <1>3 DEF CallInv, Progress, Told, CallTold, Answering, Answered, Left, Known,
       Cancelling, At, vars, istVars, dialogVars, mediaVars, requestVars
  <2>3. Offers'
    BY <1>3 DEF CallInv, Offers, Accepted, Accepting, Offered, DeadOnAck, At, vars, istVars,
       dialogVars, mediaVars, requestVars
  <2>4. Calm'
    BY <1>3 DEF CallInv, Calm, Live, Cancelling, Undisturbed, FrameUndisturbed, vars,
       istVars, dialogVars, mediaVars, requestVars
  <2> QED BY <1>1, <2>1, <2>2, <2>3, <2>4 DEF CallInv, Progress
<1> QED BY <1>2, <1>3

(* The stories of all calls hold in every reachable state.                 *)
THEOREM CallsInductive == Spec => []CallInv
BY InitCallInv, NextCallInv, PTL DEF Spec

(* Nobody leaves a call ringing: once no thread works on a call that was   *)
(* answered or cancelled, its dialog is confirmed or terminated, in        *)
(* whatever order acceptCall, rejectCall, handleCancel and handleBye raced.*)
THEOREM NobodyLeavesItRinging == Spec => []AnsweredCallLeavesEarly
<1>1. CallInv => AnsweredCallLeavesEarly
  <2> SUFFICES ASSUME CallInv, NEW c \in Calls, ~Working(c),
                      app[c] \notin {"none", "ringing"} \/ c \in cancelled
               PROVE  dialog[c] \in {"CONFIRMED", "TERMINATED"}
    BY DEF AnsweredCallLeavesEarly
  <2>1. CallTold(c) /\ app[c] \in AppState
    BY DEF CallInv, Progress, Told, IInv, TypeOK
  <2>2. app[c] \notin {"accepting", "rejecting"}
    <3>1. \A t \in Threads : Answering(t) => thread[t].step # "dead"
      BY DEF CallInv, IInv, Owner, FrameOK, StepsOf, Answering
    <3> QED BY <2>1, <3>1 DEF CallTold, Working
  <2>3. app[c] # "ringing"
    BY <2>1 DEF CallTold, Cancelling, Working, At, Threads
  <2>4. app[c] # "none"
    BY <2>1, <2>3 DEF CallTold, CallInv, IInv, Anchored
  <2> QED BY <2>1, <2>2, <2>3, <2>4 DEF CallTold, DialogsOf, AppState
<1> QED BY <1>1, CallsInductive, PTL

(* What the application takes for a call is one: after acceptCall returned *)
(* and while the receiver thread lives, the 200 was sent, the dialog is    *)
(* confirmed and a BYE will find it.                                       *)
THEOREM EstablishedIsReal == Spec => []EstablishedCallIsReal
<1>1. CallInv => EstablishedCallIsReal
  <2> SUFFICES ASSUME CallInv, NEW c \in Calls, app[c] = "inCall", ~Working(c),
                      ~At(Receiver, "dead")
               PROVE  dialog[c] = "CONFIRMED" /\ c \in dialogs /\ 200 \in sent[c]
    BY DEF EstablishedCallIsReal
  <2>1. ~Cancelling(c)
    BY DEF Working, Cancelling, At, Threads
  <2>2. 200 \in sent[c]
    BY <2>1 DEF CallInv, Calm, Live, Undisturbed
  <2>3. CallTold(c)
    BY DEF CallInv, Progress, Told
  <2> QED BY <2>2, <2>3 DEF CallTold, DialogsOf
<1> QED BY <1>1, CallsInductive, PTL

(* The receiver thread ends in the three races only that the property      *)
(* lists: never by the answer to our own BYE, by a CANCEL that nobody      *)
(* raced with, or by the ACK of an accepted call with a codec.             *)
THEOREM ReceiverDiesOnlyInThreeRaces == Spec => []ReceiverDiesOnlyInARace
<1>1. CallInv => ReceiverDiesOnlyInARace
  <2> SUFFICES ASSUME CallInv, At(Receiver, "dead") PROVE ReceiverDiesOnlyInARace
    BY DEF ReceiverDiesOnlyInARace
  <2> DEFINE f == thread[Receiver]
  <2>1. f.call \in Calls /\ f.step = "dead"
    BY DEF CallInv, IInv, Anchored, At, Threads
  <2>2. FrameTold(Receiver) /\ CallTold(f.call)
    BY <2>1 DEF CallInv, Progress, FramesTold, Told, Threads
  <2>3. CASE f.op = "bye"
    BY <2>1, <2>2, <2>3 DEF ReceiverDiesOnlyInARace, FrameTold
  <2>4. CASE f.op = "cancel"
    BY <2>1, <2>2, <2>4 DEF ReceiverDiesOnlyInARace, FrameTold, CallTold, Cancelling
  <2>5. CASE f.op = "ack"
    BY <2>1, <2>5 DEF ReceiverDiesOnlyInARace, CallInv, Offers, DeadOnAck, At
  <2> QED BY <2>1, <2>2, <2>3, <2>4, <2>5 DEF FrameTold
<1> QED BY <1>1, CallsInductive, PTL

(* A terminated dialog is confirmed again only by an acceptCall that read  *)
(* it early before a CANCEL ended it: the application then knows that the  *)
(* call is over.                                                           *)
THEOREM RevivedOnlyByCrossedCancel == Spec => DialogRevivedOnlyByCrossedCancel
<1>1. CallInv /\ [Next]_vars =>
        [\A c \in Calls : (dialog[c] = "TERMINATED" /\ dialog'[c] # "TERMINATED")
              => c \in cancelled /\ app'[c] = "over"]_vars
  <2> SUFFICES ASSUME CallInv, Next, NEW c \in Calls,
                      dialog[c] = "TERMINATED", dialog'[c] # "TERMINATED"
               PROVE  c \in cancelled /\ app'[c] = "over"
    OBVIOUS
  <2> USE DEF CallInv, IInv
  <2>1. app[c] = "over"
    BY DEF Progress, Told, CallTold, DialogsOf, TypeOK, AppState
  <2>2. Known(c) /\ app'[c] = "over"
    BY <2>1, OnwardStep DEF Anchored, Onward
  <2>3. PICK t \in Threads : SetDialogState(t)
    BY <2>1, TransactionStepFacts
    DEF Next, Peer, Application, Work, DialogStep, HandleInitialInvite, ReceiveInviteAgain,
        ReceiveAckOfError, HandleAck, HandleCancel, HandleBye, ByeSuccessResponseReceived,
        AcceptCall, RejectCall, Terminate, TimerFires, AppendResponse, DispatchResponse,
        GenerateBye, DialogDispatch, FinishAccept, FinishRefusal, FinishBye, FinishOwnBye,
        InvalidDialogTransition, dialogVars, TypeOK
  <2>4. thread[t].op = "accept" /\ thread[t].call = c
    BY <2>3, DialogRunFacts
  <2>5. c \in cancelled
    BY <2>1, <2>4 DEF Progress, FramesTold, FrameTold, Answering
  <2> QED BY <2>2, <2>5
<1> QED BY <1>1, CallsInductive, PTL DEF Spec, DialogRevivedOnlyByCrossedCancel

=============================================================================
