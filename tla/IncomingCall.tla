---------------------------- MODULE IncomingCall ----------------------------
(***************************************************************************)
(* The calls a user agent receives: the INVITE server transaction of each  *)
(* call, its dialog, and the three kinds of threads that work on them      *)
(* without a common lock:                                                  *)
(*   - the SIP receiver thread (MessageReceiver.run), which processes one  *)
(*     message of the peers at a time;                                     *)
(*   - the thread of the one java.util.Timer of the TransactionManager;    *)
(*   - the application's threads, which answer and end calls.              *)
(*                                                                         *)
(* A handler is cut where another thread can see or change what it works   *)
(* on: a call of a state object is one step that reads the state (the      *)
(* dispatch) and one that runs the method of the state that was read.      *)
(* UDP may lose, duplicate, delay and reorder: a request that a peer may   *)
(* have sent can arrive at any later time, and as often as it likes.       *)
(* A timer fires at any time after it was scheduled; delays are abstracted.*)
(***************************************************************************)
EXTENDS DialogStates, Naturals, Sequences

CONSTANTS
    Calls,       \* incoming calls: one Call-ID, one Via branch, one dialog each
    CodecCalls,  \* the calls whose INVITE may offer a codec this user agent supports
    MuteCalls,   \* the calls whose INVITE may offer none
    ImpatientCalls, \* the calls whose peer may send a CANCEL, or a BYE while it rings
    LossyCalls,  \* the calls whose INVITE may arrive more than once
    AppThreads,  \* threads of the application that call acceptCall, rejectCall, terminate
    None,        \* no call
    MaxTasks     \* bound: no ACK arrives while this many timer I tasks are scheduled

Receiver == "receiver"
TimerThread == "timer"
Threads == {Receiver, TimerThread} \cup AppThreads

ASSUME CallsAssumption ==
    /\ CodecCalls \cup MuteCalls = Calls
    /\ ImpatientCalls \subseteq Calls
    /\ LossyCalls \subseteq Calls
    /\ None \notin Calls
    /\ MaxTasks \in Nat \ {0}

ASSUME ThreadsAssumption ==
    /\ Receiver \notin AppThreads
    /\ TimerThread \notin AppThreads

VARIABLES
    ist,        \* InviteServerTransaction.state of each call
    responses,  \* Transaction.responses, by status code
    table,      \* calls whose transaction is in TransactionManager.serverTransactions
    timers,     \* how many tasks of each timer are scheduled
    dialog,     \* Dialog.state of each call
    dialogs,    \* calls whose dialog is in DialogManager.dialogs
    mediaDest,  \* InviteHandler.mediaDestination: whose offer it was taken from
    socket,     \* MediaManager.datagramSocket, named by the call that opened it
    session,    \* MediaManager.rtpSession: the call whose peer it sends to, and its socket
    app,        \* what the application knows of each call
    cancelled,  \* calls whose CANCEL has a server transaction
    byeIn,      \* calls whose BYE has a server transaction
    byeOut,     \* calls that sent a BYE still waiting for its answer
    sent,       \* the responses to the INVITE put on the wire
    thread      \* what each thread is doing

istVars == <<ist, responses, table, timers, sent>>
dialogVars == <<dialog, dialogs>>
mediaVars == <<mediaDest, socket, session>>
requestVars == <<cancelled, byeIn, byeOut>>
vars == <<istVars, dialogVars, mediaVars, app, requestVars, thread>>

IstState == {"INIT", "PROCEEDING", "COMPLETED", "CONFIRMED", "TERMINATED"}
Timer == {"G", "H", "I"}
Codes == {180, 200, 486, 487}
Final == {200, 486, 487}
AppState == {"none", "ringing", "accepting", "rejecting", "inCall", "over"}

Op == {"none", "invite", "ack", "cancel", "bye", "byeOk",
       "accept", "reject", "hangup"} \cup Timer

(* Where a thread is in its operation.                                     *)
(*   request, response, timer: about to run the method of the transaction  *)
(*     state it read, for a request, for a response to send, for a timer;  *)
(*   append, dispatch: at the two halves of the beginning of sendReponse;  *)
(*   dialog, dialogRun: about to read Dialog.state, to run its method;     *)
(*   dead: an exception has ended MessageReceiver.run.                     *)
Step == {"idle", "request", "append", "dispatch", "response", "timer",
         "dialog", "dialogRun", "terminate", "dead"}

Frame == [op : Op, step : Step, call : Calls \cup {None},
          seen : IstState \cup DialogState \cup {"-"}]

RtpSession == [to : Calls, over : Calls \cup {None}]

Idle == [op |-> "none", step |-> "idle", call |-> None, seen |-> "-"]

-----------------------------------------------------------------------------
(***************************************************************************)
(* Helpers                                                                 *)
(***************************************************************************)

Last(s) == s[Len(s)]

At(t, step) == thread[t].step = step

Goto(t, frame) == thread' = [thread EXCEPT ![t] = frame]

(* Move thread t on to another step of the operation it is in.             *)
Advance(t, step, seen) ==
    Goto(t, [thread[t] EXCEPT !.step = step, !.seen = seen])

(* The status code an operation gives to sendReponse.                      *)
CodeOf(op) == CASE op = "accept" -> 200 [] op = "reject" -> 486 [] OTHER -> 487

(* Mutant: the answer to our own BYE is reported as a refusal of the call. *)
DialogEventOfByeOkIsRefusal(op) ==
    CASE op = "accept" -> "2xx" [] op = "bye" -> "bye" [] OTHER -> "3xx"

(* The event an operation raises in the dialog.                            *)
DialogEventOf(op) ==
    CASE op = "accept" -> "2xx" [] op \in {"bye", "byeOk"} -> "bye" [] OTHER -> "3xx"

(* The event of the transaction's state machine that thread t delivers.    *)
EventOf(f) ==
    CASE f.step = "request" -> IF f.op = "ack" THEN "ack" ELSE "invite"
      [] f.step = "response" -> IF f.op = "accept" THEN "2xx" ELSE "3xx"
      [] f.step = "timer" -> f.op
      [] OTHER -> "-"

(* Thread t has read state s and is about to run its method for event e.   *)
Handling(t, s, e) == thread[t].seen = s /\ EventOf(thread[t]) = e

(* InviteServerTransaction.setState, sendLastResponse and Timer.schedule.  *)
SetState(c, s) == ist' = [ist EXCEPT ![c] = s]

SendLastResponse(c) == sent' = [sent EXCEPT ![c] = @ \cup {Last(responses[c])}]

Schedule(c, tasks) ==
    timers' = [timers EXCEPT ![c] =
                  [x \in Timer |-> @[x] + (IF x \in tasks THEN 1 ELSE 0)]]

(* The thread ends; its frame says on what.                                *)
Die(t) == Advance(t, "dead", thread[t].seen)

(* MediaManager.stopSession: the session's socket is closed and both are   *)
(* forgotten.                                                              *)
StopSession == session' = None /\ socket' = None

(* The method of the transaction's state returns to what called it.        *)
Return(t) ==
    LET f == thread[t]
    IN  IF f.step = "request" /\ f.op \in {"accept", "reject"}
        THEN Advance(t, "append", "-")
        ELSE IF f.step = "response"
        THEN Advance(t, "dialog", "-")
        ELSE Goto(t, Idle)

-----------------------------------------------------------------------------
(***************************************************************************)
(* Messages that the receiver thread takes from the socket.  Each action   *)
(* is the handler up to the point where another thread can interfere.      *)
(***************************************************************************)

(* The first INVITE: a dialog and a server transaction are created, 180 is *)
(* sent and the application is told.  No other thread knows of the call    *)
(* before the listener is called, so the handler is one step.              *)
HandleInitialInvite(c) ==
    /\ At(Receiver, "idle")
    /\ app[c] = "none"
    /\ dialog' = [dialog EXCEPT ![c] = DialogAfter("INIT", "1xx")]
    /\ dialogs' = dialogs \cup {c}
    /\ SetState(c, "PROCEEDING")
    /\ responses' = [responses EXCEPT ![c] = <<180>>]
    /\ table' = table \cup {c}
    /\ sent' = [sent EXCEPT ![c] = {180}]
    /\ app' = [app EXCEPT ![c] = "ringing"]
    /\ UNCHANGED <<timers, mediaVars, requestVars, thread>>

(* A copy of the INVITE while the transaction is in the table.             *)
ReceiveInviteAgain(c) ==
    /\ At(Receiver, "idle")
    /\ c \in LossyCalls
    /\ c \in table
    /\ Goto(Receiver, [op |-> "invite", step |-> "request", call |-> c, seen |-> ist[c]])
    /\ UNCHANGED <<istVars, dialogVars, mediaVars, app, requestVars>>

(* The ACK of a 486 or 487, which has the branch of the INVITE.            *)
ReceiveAckOfError(c) ==
    /\ At(Receiver, "idle")
    /\ c \in table
    /\ sent[c] \cap {486, 487} # {}
    /\ timers[c]["I"] < MaxTasks
    /\ Goto(Receiver, [op |-> "ack", step |-> "request", call |-> c, seen |-> ist[c]])
    /\ UNCHANGED <<istVars, dialogVars, mediaVars, app, requestVars>>

(* An ACK that getServerTransaction does not find: the ACK of a 200 has a  *)
(* branch of its own, and a late copy of the ACK of an error finds its     *)
(* transaction gone.  Both are taken for a request of the dialog.          *)
AckReachesDialog(c) ==
    200 \in sent[c] \/ (c \notin table /\ sent[c] \cap {486, 487} # {})

(* handleAck starts an RTP session towards the last destination any offer  *)
(* gave; without one, the SDP of the ACK is used (one without a codec      *)
(* changes nothing), and an ACK without SDP ends the thread.               *)
HandleAck(c) ==
    /\ At(Receiver, "idle")
    /\ c \in dialogs
    /\ AckReachesDialog(c)
    /\ \/ /\ mediaDest # None
          /\ session' = [to |-> mediaDest, over |-> socket]
          /\ UNCHANGED <<mediaDest, thread>>
       \/ /\ mediaDest = None
          /\ 200 \in sent[c]
          /\ mediaDest' = c
          /\ session' = [to |-> c, over |-> socket]
          /\ UNCHANGED thread
       \/ /\ mediaDest = None
          /\ Goto(Receiver, [op |-> "ack", step |-> "dead", call |-> c, seen |-> "-"])
          /\ UNCHANGED <<mediaDest, session>>
    /\ UNCHANGED <<istVars, dialogVars, socket, app, requestVars>>

(* Mutant: the CANCEL removes the transaction before it is refused.        *)
HandleCancelRemovesTransaction(c) ==
    /\ At(Receiver, "idle")
    /\ c \in ImpatientCalls
    /\ c \in table
    /\ c \notin cancelled
    /\ cancelled' = cancelled \cup {c}
    /\ table' = table \ {c}
    /\ IF Last(responses[c]) >= 200
       THEN UNCHANGED thread
       ELSE Goto(Receiver, [op |-> "cancel", step |-> "append", call |-> c, seen |-> "-"])
    /\ UNCHANGED <<ist, responses, timers, sent, dialogVars, mediaVars, app, byeIn, byeOut>>

(* A CANCEL: it is answered by a transaction of its own; if the INVITE has *)
(* no final response yet, 487 will be sent for it.  A copy of the CANCEL   *)
(* finds that transaction and goes no further.                             *)
HandleCancel(c) ==
    /\ At(Receiver, "idle")
    /\ c \in ImpatientCalls
    /\ c \in table
    /\ c \notin cancelled
    /\ cancelled' = cancelled \cup {c}
    /\ IF Last(responses[c]) >= 200
       THEN UNCHANGED thread
       ELSE Goto(Receiver, [op |-> "cancel", step |-> "append", call |-> c, seen |-> "-"])
    /\ UNCHANGED <<istVars, dialogVars, mediaVars, app, byeIn, byeOut>>

(* The peer's BYE, which it sends once it has a 200; a caller may also end *)
(* an early dialog so.                                                     *)
HandleBye(c) ==
    /\ At(Receiver, "idle")
    /\ 200 \in sent[c] \/ c \in ImpatientCalls
    /\ c \in dialogs
    /\ c \notin byeIn
    /\ Goto(Receiver, [op |-> "bye", step |-> "dialog", call |-> c, seen |-> "-"])
    /\ UNCHANGED <<istVars, dialogVars, mediaVars, app, requestVars>>

(* The first success response to our BYE.                                  *)
ByeSuccessResponseReceived(c) ==
    /\ At(Receiver, "idle")
    /\ c \in byeOut
    /\ byeOut' = byeOut \ {c}
    /\ IF c \in dialogs
       THEN Goto(Receiver, [op |-> "byeOk", step |-> "dialog", call |-> c, seen |-> "-"])
       ELSE UNCHANGED thread
    /\ UNCHANGED <<istVars, dialogVars, mediaVars, app, cancelled, byeIn>>

-----------------------------------------------------------------------------
(***************************************************************************)
(* Operations of the application                                           *)
(***************************************************************************)

(* sendSuccessfulResponse is synchronized on the InviteHandler.            *)
InMonitor(t) ==
    thread[t].op = "accept" /\ thread[t].step \in {"request", "append", "dispatch", "response"}

(* acceptCall, up to the call of receivedRequest(INVITE) it makes itself:  *)
(* a socket is opened if there is none, and the offer is read.             *)
AcceptCall(t, c) ==
    /\ At(t, "idle")
    /\ app[c] = "ringing"
    /\ \A u \in AppThreads : ~InMonitor(u)
    /\ c \in table
    /\ app' = [app EXCEPT ![c] = "accepting"]
    /\ socket' = IF socket = None THEN c ELSE socket
    /\ \/ c \in CodecCalls /\ mediaDest' = c
       \/ c \in MuteCalls /\ UNCHANGED mediaDest
    /\ Goto(t, [op |-> "accept", step |-> "request", call |-> c, seen |-> ist[c]])
    /\ UNCHANGED <<istVars, dialogVars, session, requestVars>>

(* rejectCall, up to the same point.                                       *)
RejectCall(t, c) ==
    /\ At(t, "idle")
    /\ app[c] = "ringing"
    /\ c \in table
    /\ app' = [app EXCEPT ![c] = "rejecting"]
    /\ Goto(t, [op |-> "reject", step |-> "request", call |-> c, seen |-> ist[c]])
    /\ UNCHANGED <<istVars, dialogVars, mediaVars, requestVars>>

(* terminate of an established incoming call: the dialog is looked up ...  *)
Terminate(t, c) ==
    /\ At(t, "idle")
    /\ app[c] = "inCall"
    /\ c \in dialogs
    /\ app' = [app EXCEPT ![c] = "over"]
    /\ Goto(t, [op |-> "hangup", step |-> "terminate", call |-> c, seen |-> "-"])
    /\ UNCHANGED <<istVars, dialogVars, mediaVars, requestVars>>

(* ... and, as no client transaction has the branch of an incoming INVITE, *)
(* a BYE is sent whatever the dialog's state is, and the media is stopped. *)
GenerateBye(t) ==
    /\ At(t, "terminate")
    /\ byeOut' = byeOut \cup {thread[t].call}
    /\ StopSession
    /\ Goto(t, Idle)
    /\ UNCHANGED <<istVars, dialogVars, mediaDest, app, cancelled, byeIn>>

-----------------------------------------------------------------------------
(***************************************************************************)
(* sendReponse and the methods of the transaction's states                 *)
(***************************************************************************)

(* sendReponse: a response that was not given before is appended first ... *)
AppendResponse(t) ==
    /\ At(t, "append")
    /\ responses' = [responses EXCEPT ![thread[t].call] = Append(@, CodeOf(thread[t].op))]
    /\ Advance(t, "dispatch", "-")
    /\ UNCHANGED <<ist, table, timers, sent, dialogVars, mediaVars, app, requestVars>>

(* ... and then the state is read that decides what is done with it.       *)
DispatchResponse(t) ==
    /\ At(t, "dispatch")
    /\ Advance(t, "response", ist[thread[t].call])
    /\ UNCHANGED <<istVars, dialogVars, mediaVars, app, requestVars>>

ProceedingReceivedInvite(t) ==
    /\ Handling(t, "PROCEEDING", "invite")
    /\ SetState(thread[t].call, "PROCEEDING")
    /\ Return(t)
    /\ UNCHANGED <<responses, table, timers, sent, dialogVars, mediaVars, app, requestVars>>

(* Mutant: the 200 is not sent.                                            *)
ProceedingReceived2xxSendsNothing(t) ==
    /\ Handling(t, "PROCEEDING", "2xx")
    /\ SetState(thread[t].call, "TERMINATED")
    /\ Return(t)
    /\ UNCHANGED <<responses, table, timers, sent, dialogVars, mediaVars, app, requestVars>>

ProceedingReceived2xx(t) ==
    /\ Handling(t, "PROCEEDING", "2xx")
    /\ SetState(thread[t].call, "TERMINATED")
    /\ SendLastResponse(thread[t].call)
    /\ Return(t)
    /\ UNCHANGED <<responses, table, timers, dialogVars, mediaVars, app, requestVars>>

(* Mutant: the refusal is left to timer G.                                 *)
ProceedingReceived300To699SendsNothing(t) ==
    /\ Handling(t, "PROCEEDING", "3xx")
    /\ SetState(thread[t].call, "COMPLETED")
    /\ Schedule(thread[t].call, {"G", "H"})
    /\ Return(t)
    /\ UNCHANGED <<responses, table, sent, dialogVars, mediaVars, app, requestVars>>

ProceedingReceived300To699(t) ==
    /\ Handling(t, "PROCEEDING", "3xx")
    /\ SetState(thread[t].call, "COMPLETED")
    /\ SendLastResponse(thread[t].call)
    /\ Schedule(thread[t].call, {"G", "H"})
    /\ Return(t)
    /\ UNCHANGED <<responses, table, dialogVars, mediaVars, app, requestVars>>

CompletedReceivedInvite(t) ==
    /\ Handling(t, "COMPLETED", "invite")
    /\ SetState(thread[t].call, "COMPLETED")
    /\ SendLastResponse(thread[t].call)
    /\ Return(t)
    /\ UNCHANGED <<responses, table, timers, dialogVars, mediaVars, app, requestVars>>

CompletedReceivedAck(t) ==
    /\ Handling(t, "COMPLETED", "ack")
    /\ SetState(thread[t].call, "CONFIRMED")
    /\ Schedule(thread[t].call, {"I"})
    /\ Return(t)
    /\ UNCHANGED <<responses, table, sent, dialogVars, mediaVars, app, requestVars>>

CompletedTimerG(t) ==
    /\ Handling(t, "COMPLETED", "G")
    /\ SetState(thread[t].call, "COMPLETED")
    /\ SendLastResponse(thread[t].call)
    /\ Schedule(thread[t].call, {"G"})
    /\ Return(t)
    /\ UNCHANGED <<responses, table, dialogVars, mediaVars, app, requestVars>>

CompletedTimerH(t) ==
    /\ Handling(t, "COMPLETED", "H")
    /\ SetState(thread[t].call, "TERMINATED")
    /\ Return(t)
    /\ UNCHANGED <<responses, table, timers, sent, dialogVars, mediaVars, app, requestVars>>

ConfirmedTimerI(t) ==
    /\ Handling(t, "CONFIRMED", "I")
    /\ SetState(thread[t].call, "TERMINATED")
    /\ table' = table \ {thread[t].call}
    /\ Return(t)
    /\ UNCHANGED <<responses, timers, sent, dialogVars, mediaVars, app, requestVars>>

(* Every other pair: the empty method of InviteServerTransactionState.     *)
Handled ==
    ({"PROCEEDING"} \X {"invite", "2xx", "3xx"})
        \cup ({"COMPLETED"} \X {"invite", "ack", "G", "H"})
        \cup ({"CONFIRMED"} \X {"I"})

Ignored(t) ==
    /\ thread[t].step \in {"request", "response", "timer"}
    /\ <<thread[t].seen, EventOf(thread[t])>> \notin Handled
    /\ Return(t)
    /\ UNCHANGED <<istVars, dialogVars, mediaVars, app, requestVars>>

(* The Timer's thread takes a due task.                                    *)
TimerFires(c, x) ==
    /\ At(TimerThread, "idle")
    /\ timers[c][x] > 0
    /\ timers' = [timers EXCEPT ![c][x] = @ - 1]
    /\ Goto(TimerThread, [op |-> x, step |-> "timer", call |-> c, seen |-> ist[c]])
    /\ UNCHANGED <<ist, responses, table, sent, dialogVars, mediaVars, app, requestVars>>

-----------------------------------------------------------------------------
(***************************************************************************)
(* The dialog                                                              *)
(***************************************************************************)

(* The state of the dialog is read.                                        *)
DialogDispatch(t) ==
    /\ At(t, "dialog")
    /\ Advance(t, "dialogRun", dialog[thread[t].call])
    /\ UNCHANGED <<istVars, dialogVars, mediaVars, app, requestVars>>

(* The method of that state sets the next one.                             *)
SetDialogState(t) ==
    /\ At(t, "dialogRun")
    /\ ~InvalidTransition(thread[t].seen, DialogEventOf(thread[t].op))
    /\ dialog' = [dialog EXCEPT ![thread[t].call] =
                     DialogSet(@, thread[t].seen, DialogEventOf(thread[t].op))]

(* acceptCall returns: the application has a call, unless it was told in   *)
(* the meantime that the peer hung up.                                     *)
FinishAccept(t) ==
    /\ thread[t].op = "accept"
    /\ SetDialogState(t)
    /\ app' = [app EXCEPT ![thread[t].call] = IF @ = "accepting" THEN "inCall" ELSE @]
    /\ Goto(t, Idle)
    /\ UNCHANGED <<istVars, dialogs, mediaVars, requestVars>>

(* Mutant: the dialog is not told that the call was refused.               *)
FinishRefusalLeavesDialog(t) ==
    /\ thread[t].op \in {"reject", "cancel"}
    /\ At(t, "dialogRun")
    /\ socket' = IF thread[t].op = "reject" THEN None ELSE socket
    /\ app' = [app EXCEPT ![thread[t].call] = "over"]
    /\ Goto(t, Idle)
    /\ UNCHANGED <<istVars, dialogVars, mediaDest, session, requestVars>>

(* Mutant: the application is not told that the peer cancelled the call.   *)
FinishRefusalTellsNobody(t) ==
    /\ thread[t].op \in {"reject", "cancel"}
    /\ SetDialogState(t)
    /\ socket' = IF thread[t].op = "reject" THEN None ELSE socket
    /\ app' = [app EXCEPT ![thread[t].call] = IF thread[t].op = "reject" THEN "over" ELSE @]
    /\ Goto(t, Idle)
    /\ UNCHANGED <<istVars, dialogs, mediaDest, session, requestVars>>

(* rejectCall drops the RTP socket, whichever call opened it, and returns; *)
(* handleCancel calls remoteHangup.                                        *)
FinishRefusal(t) ==
    /\ thread[t].op \in {"reject", "cancel"}
    /\ SetDialogState(t)
    /\ socket' = IF thread[t].op = "reject" THEN None ELSE socket
    /\ app' = [app EXCEPT ![thread[t].call] = "over"]
    /\ Goto(t, Idle)
    /\ UNCHANGED <<istVars, dialogs, mediaDest, session, requestVars>>

(* The rest of handleBye: the dialog is removed, the media stopped, the    *)
(* BYE answered and the application told.                                  *)
FinishBye(t) ==
    /\ thread[t].op = "bye"
    /\ SetDialogState(t)
    /\ dialogs' = dialogs \ {thread[t].call}
    /\ StopSession
    /\ byeIn' = byeIn \cup {thread[t].call}
    /\ app' = [app EXCEPT ![thread[t].call] = "over"]
    /\ Goto(t, Idle)
    /\ UNCHANGED <<istVars, mediaDest, cancelled, byeOut>>

(* The rest of ByeHandler.successResponseReceived.                         *)
FinishOwnBye(t) ==
    /\ thread[t].op = "byeOk"
    /\ SetDialogState(t)
    /\ dialogs' = dialogs \ {thread[t].call}
    /\ Goto(t, Idle)
    /\ UNCHANGED <<istVars, mediaVars, app, requestVars>>

(* The state object throws.  MessageReceiver.run catches IOExceptions      *)
(* only, so the receiver thread ends; an application's thread gets the     *)
(* exception from the call it made, and takes the call for lost.           *)
InvalidDialogTransition(t) ==
    /\ At(t, "dialogRun")
    /\ InvalidTransition(thread[t].seen, DialogEventOf(thread[t].op))
    /\ IF t = Receiver
       THEN Die(t) /\ UNCHANGED app
       ELSE /\ Goto(t, Idle)
            /\ app' = [app EXCEPT ![thread[t].call] = "over"]
    /\ UNCHANGED <<istVars, dialogVars, mediaVars, requestVars>>

-----------------------------------------------------------------------------
Init ==
    /\ ist = [c \in Calls |-> "INIT"]
    /\ responses = [c \in Calls |-> <<>>]
    /\ table = {}
    /\ timers = [c \in Calls |-> [x \in Timer |-> 0]]
    /\ dialog = [c \in Calls |-> "INIT"]
    /\ dialogs = {}
    /\ mediaDest = None
    /\ socket = None
    /\ session = None
    /\ app = [c \in Calls |-> "none"]
    /\ cancelled = {}
    /\ byeIn = {}
    /\ byeOut = {}
    /\ sent = [c \in Calls |-> {}]
    /\ thread = [t \in Threads |-> Idle]

(* What the peers and the network decide.                                  *)
Peer(c) ==
    \/ HandleInitialInvite(c)
    \/ ReceiveInviteAgain(c)
    \/ ReceiveAckOfError(c)
    \/ HandleAck(c)
    \/ HandleCancel(c)
    \/ HandleBye(c)
    \/ ByeSuccessResponseReceived(c)

(* What the application decides.                                           *)
Application(t, c) ==
    \/ AcceptCall(t, c)
    \/ RejectCall(t, c)
    \/ Terminate(t, c)

(* The methods of the transaction's states.                                *)
TransactionStep(t) ==
    \/ ProceedingReceivedInvite(t)
    \/ ProceedingReceived2xx(t)
    \/ ProceedingReceived300To699(t)
    \/ CompletedReceivedInvite(t)
    \/ CompletedReceivedAck(t)
    \/ CompletedTimerG(t)
    \/ CompletedTimerH(t)
    \/ ConfirmedTimerI(t)
    \/ Ignored(t)

(* The methods of the dialog's states, and what their caller does next.    *)
DialogStep(t) ==
    \/ DialogDispatch(t)
    \/ FinishAccept(t)
    \/ FinishRefusal(t)
    \/ FinishBye(t)
    \/ FinishOwnBye(t)
    \/ InvalidDialogTransition(t)

(* What a thread that is inside an operation does next.                    *)
Work(t) ==
    \/ AppendResponse(t)
    \/ DispatchResponse(t)
    \/ GenerateBye(t)
    \/ TransactionStep(t)
    \/ DialogStep(t)

Next ==
    \/ \E c \in Calls : Peer(c)
    \/ \E t \in AppThreads, c \in Calls : Application(t, c)
    \/ \E c \in Calls, x \in Timer : TimerFires(c, x)
    \/ \E t \in Threads : Work(t)

(* The virtual machine schedules every thread that can run.  Nothing makes *)
(* a peer send, the network deliver, or the application decide.            *)
Fairness == \A t \in Threads : WF_vars(Work(t))

Spec == Init /\ [][Next]_vars

FairSpec == Spec /\ Fairness

-----------------------------------------------------------------------------
(***************************************************************************)
(* Properties                                                              *)
(***************************************************************************)

(* The values the variables take.                                          *)
TypeOK ==
    /\ ist \in [Calls -> IstState]
    /\ responses \in [Calls -> Seq(Codes)]
    /\ table \subseteq Calls
    /\ timers \in [Calls -> [Timer -> Nat]]
    /\ dialog \in [Calls -> DialogState]
    /\ dialogs \subseteq Calls
    /\ mediaDest \in Calls \cup {None}
    /\ socket \in Calls \cup {None}
    /\ session \in RtpSession \cup {None}
    /\ app \in [Calls -> AppState]
    /\ cancelled \subseteq Calls
    /\ byeIn \subseteq Calls
    /\ byeOut \subseteq Calls
    /\ sent \in [Calls -> SUBSET Codes]
    /\ thread \in [Threads -> Frame]

(* A thread is inside an operation on call c.                              *)
Working(c) == \E t \in Threads : thread[t].call = c /\ thread[t].step # "dead"

(* Nobody leaves a call ringing: when no thread is inside an operation on  *)
(* a call that was answered by the application or cancelled by the peer,   *)
(* its dialog is no longer early, whatever the order in which acceptCall,  *)
(* rejectCall, handleCancel and handleBye raced for it.                    *)
AnsweredCallLeavesEarly ==
    \A c \in Calls :
        (~Working(c) /\ (app[c] \notin {"none", "ringing"} \/ c \in cancelled))
            => dialog[c] \in {"CONFIRMED", "TERMINATED"}

(* What the application takes for a call is one: when acceptCall has       *)
(* returned without an exception, nobody works on the call and the race    *)
(* has not ended the receiver thread, a 200 has left, the dialog is        *)
(* confirmed and can still be found, whatever CANCEL or BYE crossed the    *)
(* answer.                                                                 *)
EstablishedCallIsReal ==
    \A c \in Calls :
        (app[c] = "inCall" /\ ~Working(c) /\ ~At(Receiver, "dead")) =>
            dialog[c] = "CONFIRMED" /\ c \in dialogs /\ 200 \in sent[c]

(* The application has begun to answer the call.                           *)
Answered(c) == \E i \in DOMAIN responses[c] : responses[c][i] \in {200, 486}

(* The SIP receiver thread, on which every call depends, ends in three     *)
(* ways only: a BYE overtakes the end of acceptCall or ends an early       *)
(* dialog; a CANCEL loses its race with the application's answer; the ACK  *)
(* is that of a call without a codec, or a late copy for a refused call.   *)
(* The answer to our own BYE never ends it.                                *)
ReceiverDiesOnlyInARace ==
    At(Receiver, "dead") =>
        LET f == thread[Receiver]
        IN  \/ /\ f.op = "bye" /\ f.seen = "EARLY"
               /\ 200 \in sent[f.call] \/ f.call \in ImpatientCalls
            \/ f.op = "cancel" /\ Answered(f.call) /\ f.call \in cancelled
            \/ f.op = "ack" /\ (f.call \in MuteCalls \/ 200 \notin sent[f.call])

(* What acceptCall and rejectCall look up and use unchecked is there as    *)
(* long as the application may answer the call.                            *)
RingingCallIsInTheTables ==
    \A c \in Calls : app[c] = "ringing" => c \in table /\ c \in dialogs

(* A terminated dialog becomes confirmed again only when acceptCall and a  *)
(* CANCEL have both read it early; the application then knows that the     *)
(* call is over.                                                           *)
DialogRevivedOnlyByCrossedCancel ==
    [][\A c \in Calls :
          (dialog[c] = "TERMINATED" /\ dialog'[c] # "TERMINATED")
              => c \in cancelled /\ app'[c] = "over"]_vars

(* The application's answer, or the refusal of a cancelled call, reaches   *)
(* the wire: some final response is sent.                                  *)
AnsweredCallGetsFinal ==
    \A c \in Calls :
        (app[c] \in {"accepting", "rejecting"}) ~> (sent[c] \cap Final # {})

=============================================================================
