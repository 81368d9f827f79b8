---------------------------- MODULE OutgoingCall ----------------------------
(***************************************************************************)
(* The calls a user agent makes: the INVITE client transactions of each    *)
(* call (the first INVITE, and one more for each challenge that is         *)
(* answered), its dialog, and what UAC.terminate does to end it at any     *)
(* moment.  The threads are those of IncomingCall:                         *)
(*   - the SIP receiver thread, one response at a time, which owns the     *)
(*     monitor of the transaction while it handles a response              *)
(*     (InviteClientTransaction.receivedResponse is synchronized);         *)
(*   - the thread of the java.util.Timer, which takes no monitor;          *)
(*   - the application's threads.                                          *)
(*                                                                         *)
(* A handler is cut where another thread can see or change what it works   *)
(* on.  UDP may lose, duplicate, delay and reorder: what a peer may have   *)
(* sent can arrive at any later time, and as often as it likes.  A timer   *)
(* fires at any time after it was scheduled; delays are abstracted.        *)
(***************************************************************************)
EXTENDS DialogStates, Naturals, FiniteSets

CONSTANTS
    Calls,        \* outgoing calls: one Call-ID and one From tag each
    CodecCalls,   \* the calls whose 200 names a codec this user agent supports
    RacingCalls,  \* the calls on whose transactions a response may overtake a
                  \* timer task that has read the state and not yet run its method
    AppThreads,   \* threads of the application that call terminate
    Codes,        \* bound: the status codes that peers answer with
    DueTimers,    \* bound: the timers that come due
    MaxAttempts,  \* bound: the INVITEs sent for one call
    HasPassword,  \* config.getPassword() is not empty
    None          \* no call

Receiver == "receiver"
TimerThread == "timer"
Threads == {Receiver, TimerThread} \cup AppThreads

(* An INVITE client transaction: its call, and the number of its INVITE.   *)
Txns == Calls \X (1 .. MaxAttempts)

ASSUME OutCallsAssumption ==
    /\ CodecCalls \subseteq Calls
    /\ RacingCalls \subseteq Calls
    /\ None \notin Calls
    /\ None \notin Txns
    /\ MaxAttempts \in Nat \ {0}
    /\ HasPassword \in BOOLEAN
    /\ Codes \subseteq {100, 180, 200, 401, 407, 486}
    /\ DueTimers \subseteq {"A", "B", "D"}

ASSUME OutThreadsAssumption ==
    /\ Receiver \notin AppThreads
    /\ TimerThread \notin AppThreads

VARIABLES
    ct,          \* InviteClientTransaction.state
    last,        \* getLastResponse, by status code; 0: no response
    heard,       \* what the peer has answered: 180, and a final response
    invites,     \* transactions whose request's CSeq still names INVITE
    timers,      \* the tasks scheduled for each transaction
    dialog,      \* Dialog.state
    dialogs,     \* calls whose dialog is in DialogManager.dialogs
    guiClosed,   \* UAC.guiClosedCallIds
    app,         \* what the application knows of each call
    cancels,     \* transactions whose INVITE a CANCEL was sent for
    bye,         \* our BYE of each call: not sent, sent, answered
    byeIn,       \* calls whose peer has sent a BYE
    acked,       \* calls whose 200 was acknowledged
    challenged,  \* InviteHandler.challenged
    mediaDest,   \* InviteHandler.mediaDestination: the call it was taken from
    socket,      \* MediaManager.datagramSocket, named by the call that opened it
    session,     \* MediaManager.rtpSession: the call it sends to, and its socket
    revived,     \* history: the transactions that had ended and that a late
                 \* timer A task put back into Calling; no guard reads it
    thread       \* what each thread is doing

ctVars == <<ct, last, heard, invites, timers, revived>>
dialogVars == <<dialog, dialogs>>
uacVars == <<guiClosed, cancels, bye, byeIn>>
handlerVars == <<acked, challenged, mediaDest>>
mediaVars == <<socket, session>>
vars == <<ctVars, dialogVars, uacVars, handlerVars, mediaVars, app, thread>>

CtState == {"none", "CALLING", "PROCEEDING", "COMPLETED", "TERMINATED"}
Timer == {"A", "B", "D"}
Challenge == {401, 407}
Prov == {100, 180}
Failure == {401, 407, 486}
Final == {200} \cup Failure
AppState == {"none", "calling", "closed", "over"}

(* Where a thread is.                                                      *)
(*   response, timer: about to run the method of the transaction's state   *)
(*     it read;                                                            *)
(*   ring, err, confirm, check: in provResponseReceived,                   *)
(*     errResponseReceived and successResponseReceived of InviteHandler;   *)
(*   close, lookup, found, lock, notFound, stop: in UAC.terminate;         *)
(*   dead: an exception has ended MessageReceiver.run.                     *)
Step == {"idle", "response", "timer", "ring", "err", "confirm", "check",
         "close", "lookup", "found", "lock", "notFound", "stop", "dead"}

(* txn is the transaction that is answered, whose timer fires, or whose    *)
(* call is ended; found is the one that terminate has looked up.           *)
Frame == [op : {"none", "response", "hangup"} \cup DueTimers, step : Step,
          txn : Txns \cup {None}, seen : CtState, found : Txns \cup {None}]

RtpSession == [to : Calls, over : Calls \cup {None}]

Idle == [op |-> "none", step |-> "idle", txn |-> None, seen |-> "none", found |-> None]

Begin(op, step, x, s) == [op |-> op, step |-> step, txn |-> x, seen |-> s, found |-> None]

-----------------------------------------------------------------------------
(***************************************************************************)
(* Helpers                                                                 *)
(***************************************************************************)

Call(x) == x[1]
Next1(x) == <<x[1], x[2] + 1>>
Attempts(c) == {x \in Txns : Call(x) = c /\ ct[x] # "none"}

At(t, step) == thread[t].step = step
On(t) == thread[t].txn
CallOf(t) == Call(On(t))

Goto(t, frame) == thread' = [thread EXCEPT ![t] = frame]
Advance(t, step) == Goto(t, [thread[t] EXCEPT !.step = step])

SetState(x, s) == ct' = [ct EXCEPT ![x] = s]

(* getInviteWithAuth: an INVITE with credentials if there is one, else the *)
(* first INVITE.                                                           *)
InviteWithAuth(c) ==
    LET withAuth == {x \in Attempts(c) : x[2] > 1}
    IN  IF withAuth = {} THEN Attempts(c) ELSE withAuth

(* The receiver thread is inside receivedResponse of x, which is           *)
(* synchronized; terminate takes the same monitor, and the receiver thread *)
(* may take it again.                                                      *)
Inside(x) == thread[Receiver].op = "response" /\ On(Receiver) = x /\ ~At(Receiver, "dead")

MayLock(t, x) == t = Receiver \/ ~Inside(x)

(* Thread t has read state s and is about to run its method for a response *)
(* of this class.                                                          *)
Receiving(s, class) ==
    /\ At(Receiver, "response")
    /\ thread[Receiver].seen = s
    /\ last[On(Receiver)] \in class

(* createInitialRequest, up to the end of start: the transaction is        *)
(* created and the INVITE sent.  The constructor of its Completed state    *)
(* schedules timer D.                                                      *)
StartInvite(x) ==
    /\ SetState(x, "CALLING")
    /\ timers' = [timers EXCEPT ![x] = DueTimers]
    /\ socket' = IF socket = None THEN Call(x) ELSE socket

-----------------------------------------------------------------------------
(***************************************************************************)
(* Responses                                                               *)
(***************************************************************************)

(* What the peer may send for x: one final response, and no tagged         *)
(* provisional response before a challenge.                                *)
MaySend(x, code) ==
    /\ code \in Final => heard[x] \cap Final \subseteq {code}
    /\ code = 180 => heard[x] \cap Challenge = {}
    /\ code \in Challenge => 180 \notin heard[x]

(* The timer's thread is between the two halves of a task of x.            *)
TimerInside(x) == thread[TimerThread].txn = x

(* Mutant: the challenge of a proxy is taken for a refusal.                *)
IsChallengeOfServerOnly(code) == code = 401

(* Whether errResponseReceived takes a failure for a challenge.            *)
IsChallenge(code) == code = 401 \/ (code = 407 /\ ~challenged)

(* Bound: no challenge is received that would need one INVITE too many.    *)
WithinBound(x, code) ==
    (HasPassword /\ IsChallenge(code) /\ ct[x] \in {"CALLING", "PROCEEDING"})
        => x[2] < MaxAttempts /\ ct[Next1(x)] = "none"

(* receivedResponse: the response is the last one from now on, and the     *)
(* state is read that decides what is done with it.                        *)
ReceiveResponse(x, code) ==
    /\ At(Receiver, "idle")
    /\ ct[x] # "none"
    /\ MaySend(x, code)
    /\ WithinBound(x, code)
    /\ Call(x) \notin RacingCalls => ~TimerInside(x)
    /\ last' = [last EXCEPT ![x] = code]
    /\ heard' = [heard EXCEPT ![x] = @ \cup ({code} \ {100})]
    /\ Goto(Receiver, Begin("response", "response", x, ct[x]))
    /\ UNCHANGED <<revived, ct, invites, timers, dialogVars, uacVars, handlerVars, mediaVars, app>>

(* A provisional response in Calling or Proceeding; provResponseReceived   *)
(* creates the dialog when it has a tag and is the first to have one.      *)
Received1xx(s) ==
    LET x == On(Receiver)
        first == last[x] = 180 /\ Call(x) \notin dialogs
    IN  /\ Receiving(s, Prov)
        /\ SetState(x, "PROCEEDING")
        /\ dialogs' = IF first THEN dialogs \cup {Call(x)} ELSE dialogs
        /\ dialog' = IF first THEN [dialog EXCEPT ![Call(x)] = "INIT"] ELSE dialog
        /\ Advance(Receiver, IF first THEN "ring" ELSE "check")
        /\ UNCHANGED <<revived, last, heard, invites, timers, uacVars, handlerVars, mediaVars, app>>

CallingReceived1xx == Received1xx("CALLING")
ProceedingReceived1xx == Received1xx("PROCEEDING")

(* The application is told of the ringing, and then the dialog.            *)
Ring ==
    /\ At(Receiver, "ring")
    /\ dialog' = [dialog EXCEPT ![CallOf(Receiver)] = DialogAfter(@, "1xx")]
    /\ Advance(Receiver, "check")
    /\ UNCHANGED <<ctVars, dialogs, uacVars, handlerVars, mediaVars, app>>

(* A success in Calling or Proceeding; successResponseReceived finds or    *)
(* creates the dialog, reads its SDP and starts the RTP session.  A 200    *)
(* without a codec leaves the destination of the last call that had one,   *)
(* and ends the thread if there was none.                                  *)
Received2xx(s) ==
    LET x == On(Receiver)
        c == Call(x)
    IN  /\ Receiving(s, {200})
        /\ SetState(x, "TERMINATED")
        /\ challenged' = FALSE
        /\ dialogs' = dialogs \cup {c}
        /\ dialog' = IF c \in dialogs THEN dialog ELSE [dialog EXCEPT ![c] = "INIT"]
        /\ mediaDest' = IF c \in CodecCalls THEN c ELSE mediaDest
        /\ IF mediaDest' = None
           THEN Advance(Receiver, "dead") /\ UNCHANGED session
           ELSE /\ session' = [to |-> mediaDest', over |-> socket]
                /\ Advance(Receiver, "confirm")
        /\ UNCHANGED <<revived, last, heard, invites, timers, uacVars, acked, socket, app>>

CallingReceived2xx == Received2xx("CALLING")
ProceedingReceived2xx == Received2xx("PROCEEDING")

(* The dialog is confirmed and the ACK sent.                               *)
Confirm ==
    /\ At(Receiver, "confirm")
    /\ ~InvalidTransition(dialog[CallOf(Receiver)], "2xx")
    /\ dialog' = [dialog EXCEPT ![CallOf(Receiver)] = DialogAfter(@, "2xx")]
    /\ acked' = acked \cup {CallOf(Receiver)}
    /\ Advance(Receiver, "check")
    /\ UNCHANGED <<ctVars, dialogs, uacVars, challenged, mediaDest, mediaVars, app>>

(* At the end of provResponseReceived and successResponseReceived the call *)
(* is ended if the application hung up while its state was unknown.        *)
CheckClosed ==
    /\ At(Receiver, "check")
    /\ IF CallOf(Receiver) \in guiClosed
       THEN Advance(Receiver, "close")
       ELSE Goto(Receiver, Idle)
    /\ UNCHANGED <<ctVars, dialogVars, uacVars, handlerVars, mediaVars, app>>

(* A failure in Calling or Proceeding: createAndSendAck builds the ACK out *)
(* of the INVITE's own CSeq header, so that the INVITE's method is gone.   *)
Received300To699(s) ==
    /\ Receiving(s, Failure)
    /\ SetState(On(Receiver), "COMPLETED")
    /\ invites' = invites \ {On(Receiver)}
    /\ Advance(Receiver, "err")
    /\ UNCHANGED <<revived, last, heard, timers, dialogVars, uacVars, handlerVars, mediaVars, app>>

CallingReceived300To699 == Received300To699("CALLING")
ProceedingReceived300To699 == Received300To699("PROCEEDING")

(* Mutant: the dialog of a refused call is not removed.                    *)
RefuseDialogKeepsIt(c) ==
    /\ c \in dialogs => ~InvalidTransition(dialog[c], "3xx")
    /\ dialog' = IF c \in dialogs THEN [dialog EXCEPT ![c] = DialogAfter(@, "3xx")] ELSE dialog
    /\ UNCHANGED dialogs

(* Both kinds of failures end the dialog that a provisional response has   *)
(* created, if there is one.                                               *)
RefuseDialog(c) ==
    /\ c \in dialogs => ~InvalidTransition(dialog[c], "3xx")
    /\ dialog' = IF c \in dialogs THEN [dialog EXCEPT ![c] = DialogAfter(@, "3xx")] ELSE dialog
    /\ dialogs' = dialogs \ {c}

(* errResponseReceived of a challenge: it is answered with a new INVITE if *)
(* there is a password, and the application is not told.                   *)
ChallengeReceived ==
    LET x == On(Receiver)
    IN  /\ At(Receiver, "err")
        /\ IsChallenge(last[x])
        /\ RefuseDialog(Call(x))
        /\ challenged' = TRUE
        /\ IF HasPassword
           THEN StartInvite(Next1(x)) /\ invites' = invites \cup {Next1(x)}
           ELSE UNCHANGED <<ct, invites, timers, socket>>
        /\ Goto(Receiver, Idle)
        /\ UNCHANGED <<revived, last, heard, uacVars, acked, mediaDest, session, app>>

(* errResponseReceived of any other failure.                               *)
CallRefused ==
    LET c == CallOf(Receiver)
    IN  /\ At(Receiver, "err")
        /\ ~IsChallenge(last[On(Receiver)])
        /\ RefuseDialog(c)
        /\ challenged' = FALSE
        /\ app' = [app EXCEPT ![c] = IF @ = "calling" THEN "over" ELSE @]
        /\ guiClosed' = guiClosed \ {c}
        /\ socket' = None
        /\ Goto(Receiver, Idle)
        /\ UNCHANGED <<ctVars, cancels, bye, byeIn, acked, mediaDest, session>>

(* A copy of the failure in Completed: the ACK is sent again.              *)
CompletedReceived300To699 ==
    /\ Receiving("COMPLETED", Failure)
    /\ SetState(On(Receiver), "COMPLETED")
    /\ Goto(Receiver, Idle)
    /\ UNCHANGED <<revived, last, heard, invites, timers, dialogVars, uacVars, handlerVars,
                   mediaVars, app>>

(* Every other pair: the empty method of InviteClientTransactionState.     *)
ResponseIgnored ==
    /\ At(Receiver, "response")
    /\ \/ thread[Receiver].seen = "TERMINATED"
       \/ thread[Receiver].seen = "COMPLETED" /\ last[On(Receiver)] \notin Failure
    /\ Goto(Receiver, Idle)
    /\ UNCHANGED <<ctVars, dialogVars, uacVars, handlerVars, mediaVars, app>>

(* A dialog state throws at an event it does not expect.  No one catches   *)
(* it below MessageReceiver.run, which catches IOExceptions only.          *)
InvalidDialogTransition ==
    /\ \/ At(Receiver, "confirm") /\ InvalidTransition(dialog[CallOf(Receiver)], "2xx")
       \/ /\ At(Receiver, "err")
          /\ CallOf(Receiver) \in dialogs
          /\ InvalidTransition(dialog[CallOf(Receiver)], "3xx")
    /\ Advance(Receiver, "dead")
    /\ UNCHANGED <<ctVars, dialogVars, uacVars, handlerVars, mediaVars, app>>

-----------------------------------------------------------------------------
(***************************************************************************)
(* Timers                                                                  *)
(***************************************************************************)

(* The Timer's thread takes a due task and reads the transaction's state.  *)
TimerFires(x, task) ==
    /\ At(TimerThread, "idle")
    /\ task \in timers[x]
    /\ Call(x) \notin RacingCalls => ~Inside(x)
    /\ timers' = [timers EXCEPT ![x] = @ \ {task}]
    /\ Goto(TimerThread, Begin(task, "timer", x, ct[x]))
    /\ UNCHANGED <<revived, ct, last, heard, invites, dialogVars, uacVars, handlerVars, mediaVars, app>>

Firing(task, s) ==
    /\ At(TimerThread, "timer")
    /\ thread[TimerThread].op = task
    /\ thread[TimerThread].seen = s

(* The INVITE is sent again, and timer A scheduled again.                  *)
CallingTimerA ==
    /\ Firing("A", "CALLING")
    /\ SetState(On(TimerThread), "CALLING")
    /\ revived' = IF ct[On(TimerThread)] \in {"COMPLETED", "TERMINATED"}
                  THEN revived \cup {On(TimerThread)} ELSE revived
    /\ timers' = [timers EXCEPT ![On(TimerThread)] = @ \cup {"A"}]
    /\ Goto(TimerThread, Idle)
    /\ UNCHANGED <<last, heard, invites, dialogVars, uacVars, handlerVars, mediaVars, app>>

(* Mutant: the time-out does not end the transaction.                      *)
CallingTimerBOnlyReports ==
    /\ Firing("B", "CALLING")
    /\ Goto(TimerThread, Idle)
    /\ UNCHANGED <<ctVars, dialogVars, uacVars, handlerVars, mediaVars, app>>

(* The call is given up; InviteHandler.transactionTimeout tells nobody.    *)
CallingTimerB ==
    /\ Firing("B", "CALLING")
    /\ SetState(On(TimerThread), "TERMINATED")
    /\ Goto(TimerThread, Idle)
    /\ UNCHANGED <<revived, last, heard, invites, timers, dialogVars, uacVars, handlerVars,
                   mediaVars, app>>

CompletedTimerD ==
    /\ Firing("D", "COMPLETED")
    /\ SetState(On(TimerThread), "TERMINATED")
    /\ Goto(TimerThread, Idle)
    /\ UNCHANGED <<revived, last, heard, invites, timers, dialogVars, uacVars, handlerVars,
                   mediaVars, app>>

TimerIgnored ==
    /\ At(TimerThread, "timer")
    /\ ~(Firing("A", "CALLING") \/ Firing("B", "CALLING") \/ Firing("D", "COMPLETED"))
    /\ Goto(TimerThread, Idle)
    /\ UNCHANGED <<ctVars, dialogVars, uacVars, handlerVars, mediaVars, app>>

-----------------------------------------------------------------------------
(***************************************************************************)
(* The application, and UAC.terminate                                      *)
(***************************************************************************)

(* UserAgent.invite, which the application calls in the thread it likes.   *)
Invite(c) ==
    /\ app[c] = "none"
    /\ StartInvite(<<c, 1>>)
    /\ invites' = invites \cup {<<c, 1>>}
    /\ app' = [app EXCEPT ![c] = "calling"]
    /\ UNCHANGED <<revived, last, heard, dialogVars, uacVars, handlerVars, session, thread>>

(* The application calls terminate, once, with the INVITE it was given.    *)
Hangup(t, c) ==
    /\ At(t, "idle")
    /\ app[c] = "calling"
    /\ app' = [app EXCEPT ![c] = "closed"]
    /\ Goto(t, Begin("hangup", "close", <<c, 1>>, "none"))
    /\ UNCHANGED <<ctVars, dialogVars, uacVars, handlerVars, mediaVars>>

(* Mutant: the receiver thread does not learn that the call is closed.     *)
CloseIsNotRecorded(t) ==
    /\ At(t, "close")
    /\ Advance(t, IF CallOf(t) \in dialogs THEN "found" ELSE "notFound")
    /\ UNCHANGED <<ctVars, dialogVars, uacVars, handlerVars, mediaVars, app>>

(* terminate first tells the receiver thread that the call is closed ...   *)
Close(t) ==
    /\ At(t, "close")
    /\ guiClosed' = guiClosed \cup {CallOf(t)}
    /\ Advance(t, "lookup")
    /\ UNCHANGED <<ctVars, dialogVars, cancels, bye, byeIn, handlerVars, mediaVars, app>>

(* ... and then looks the dialog up.                                       *)
Lookup(t) ==
    /\ At(t, "lookup")
    /\ Advance(t, IF CallOf(t) \in dialogs THEN "found" ELSE "notFound")
    /\ UNCHANGED <<ctVars, dialogVars, uacVars, handlerVars, mediaVars, app>>

(* createCancel: no CANCEL is sent for an INVITE that was answered.        *)
SendCancel(x) == cancels' = IF last[x] >= 200 THEN cancels ELSE cancels \cup {x}

SendBye(c) ==
    /\ bye' = [bye EXCEPT ![c] = "sent"]
    /\ guiClosed' = guiClosed \ {c}

(* A dialog, and no transaction with the branch and the method of the      *)
(* INVITE: a BYE is sent.                                                  *)
EndDialogWithoutTransaction(t) ==
    /\ At(t, "found")
    /\ \E x \in InviteWithAuth(CallOf(t)) : x \notin invites
    /\ SendBye(CallOf(t))
    /\ Advance(t, "stop")
    /\ UNCHANGED <<ctVars, dialogVars, cancels, byeIn, handlerVars, mediaVars, app>>

(* A dialog and its transaction, whose monitor must be taken.              *)
FindTransaction(t) ==
    /\ At(t, "found")
    /\ \E x \in InviteWithAuth(CallOf(t)) :
          /\ x \in invites
          /\ Goto(t, [thread[t] EXCEPT !.step = "lock", !.found = x])
    /\ UNCHANGED <<ctVars, dialogVars, uacVars, handlerVars, mediaVars, app>>

(* Mutant: an early dialog is ended like a confirmed one.                  *)
EndDialogSendsBye(t) ==
    /\ At(t, "lock")
    /\ MayLock(t, thread[t].found)
    /\ SendBye(CallOf(t))
    /\ Advance(t, "stop")
    /\ UNCHANGED <<ctVars, dialogVars, cancels, byeIn, handlerVars, mediaVars, app>>

(* Under the transaction's monitor, an early dialog is cancelled and a     *)
(* confirmed one is ended.                                                 *)
EndDialog(t) ==
    /\ At(t, "lock")
    /\ MayLock(t, thread[t].found)
    /\ CASE dialog[CallOf(t)] = "EARLY" ->
              SendCancel(thread[t].found) /\ UNCHANGED <<bye, byeIn, guiClosed>>
         [] dialog[CallOf(t)] = "CONFIRMED" ->
              SendBye(CallOf(t)) /\ UNCHANGED <<cancels, byeIn>>
         [] OTHER -> UNCHANGED uacVars
    /\ Advance(t, "stop")
    /\ UNCHANGED <<ctVars, dialogVars, handlerVars, mediaVars, app>>

(* No dialog: the INVITE is cancelled if all it got is a provisional       *)
(* response; it is left alone while it has no response.                    *)
EndTransaction(t) ==
    /\ At(t, "notFound")
    /\ \E x \in InviteWithAuth(CallOf(t)) :
          IF x \in invites /\ last[x] \in Prov
          THEN SendCancel(x)
          ELSE UNCHANGED cancels
    /\ Advance(t, "stop")
    /\ UNCHANGED <<ctVars, dialogVars, guiClosed, bye, byeIn, handlerVars, mediaVars, app>>

(* Mutant: the session goes on when its socket is given up.                *)
StopSessionKeepsSession(t) ==
    /\ At(t, "stop")
    /\ socket' = None
    /\ Goto(t, Idle)
    /\ UNCHANGED <<ctVars, dialogVars, uacVars, handlerVars, session, app>>

(* MediaManager.stopSession, and the return of terminate.                  *)
StopSession(t) ==
    /\ At(t, "stop")
    /\ session' = None
    /\ socket' = None
    /\ Goto(t, Idle)
    /\ UNCHANGED <<ctVars, dialogVars, uacVars, handlerVars, app>>

-----------------------------------------------------------------------------
(***************************************************************************)
(* The end of the dialog                                                   *)
(***************************************************************************)

(* The receiver thread raises the BYE in the dialog of call c, if it finds *)
(* one, and removes it; or the dialog's state throws.                      *)
DialogThrows(c) == c \in dialogs /\ InvalidTransition(dialog[c], "bye")

RemoveDialog(c) ==
    /\ dialogs' = dialogs \ {c}
    /\ dialog' = IF c \in dialogs THEN [dialog EXCEPT ![c] = DialogAfter(@, "bye")] ELSE dialog

DieOnBye(c) ==
    /\ Goto(Receiver, Begin("response", "dead", <<c, 1>>, "none"))
    /\ UNCHANGED dialogVars

(* The peer's answer to our BYE; ByeHandler.successResponseReceived.       *)
ByeSuccessResponseReceived(c) ==
    /\ At(Receiver, "idle")
    /\ bye[c] = "sent"
    /\ c \in acked
    /\ bye' = [bye EXCEPT ![c] = "answered"]
    /\ IF DialogThrows(c) THEN DieOnBye(c) ELSE RemoveDialog(c) /\ UNCHANGED thread
    /\ UNCHANGED <<ctVars, guiClosed, cancels, byeIn, handlerVars, mediaVars, app>>

(* The peer hangs up, once it has the ACK; ByeHandler.handleBye.           *)
HandleBye(c) ==
    /\ At(Receiver, "idle")
    /\ c \in acked
    /\ c \in dialogs
    /\ c \notin byeIn
    /\ IF DialogThrows(c)
       THEN DieOnBye(c) /\ UNCHANGED <<byeIn, mediaVars, app>>
       ELSE /\ RemoveDialog(c)
            /\ byeIn' = byeIn \cup {c}
            /\ session' = None
            /\ socket' = None
            /\ app' = [app EXCEPT ![c] = IF @ = "calling" THEN "over" ELSE @]
            /\ UNCHANGED thread
    /\ UNCHANGED <<ctVars, guiClosed, cancels, bye, handlerVars>>

-----------------------------------------------------------------------------
Init ==
    /\ ct = [x \in Txns |-> "none"]
    /\ last = [x \in Txns |-> 0]
    /\ heard = [x \in Txns |-> {}]
    /\ invites = {}
    /\ timers = [x \in Txns |-> {}]
    /\ dialog = [c \in Calls |-> "INIT"]
    /\ dialogs = {}
    /\ guiClosed = {}
    /\ app = [c \in Calls |-> "none"]
    /\ cancels = {}
    /\ bye = [c \in Calls |-> "none"]
    /\ byeIn = {}
    /\ acked = {}
    /\ challenged = FALSE
    /\ mediaDest = None
    /\ socket = None
    /\ session = None
    /\ revived = {}
    /\ thread = [t \in Threads |-> Idle]

(* What the peers and the network decide.                                  *)
Peer ==
    \/ \E x \in Txns, code \in Codes : ReceiveResponse(x, code)
    \/ \E c \in Calls : ByeSuccessResponseReceived(c) \/ HandleBye(c)

(* What the application decides.                                           *)
Application ==
    \E c \in Calls : Invite(c) \/ \E t \in AppThreads : Hangup(t, c)

(* UAC.terminate, in the thread of the application or of the receiver.     *)
TerminateStep(t) ==
    \/ Close(t)
    \/ Lookup(t)
    \/ EndDialogWithoutTransaction(t)
    \/ FindTransaction(t)
    \/ EndDialog(t)
    \/ EndTransaction(t)
    \/ StopSession(t)

(* The rest of receivedResponse.                                           *)
ReceiverStep ==
    \/ CallingReceived1xx
    \/ ProceedingReceived1xx
    \/ Ring
    \/ CallingReceived2xx
    \/ ProceedingReceived2xx
    \/ Confirm
    \/ CheckClosed
    \/ CallingReceived300To699
    \/ ProceedingReceived300To699
    \/ ChallengeReceived
    \/ CallRefused
    \/ CompletedReceived300To699
    \/ ResponseIgnored
    \/ InvalidDialogTransition
    \/ TerminateStep(Receiver)

(* The rest of a timer task.                                               *)
TimerStep ==
    \/ CallingTimerA
    \/ CallingTimerB
    \/ CompletedTimerD
    \/ TimerIgnored

Next ==
    \/ Peer
    \/ Application
    \/ \E t \in AppThreads : TerminateStep(t)
    \/ ReceiverStep
    \/ \E x \in Txns, task \in DueTimers : TimerFires(x, task)
    \/ TimerStep

(* The virtual machine schedules every thread that can run, and the Timer  *)
(* runs its tasks in the order in which they are due, so that each has its *)
(* turn.  Nothing makes a peer send, the network deliver, or the           *)
(* application decide, and no thread is sure to get a monitor.             *)
Fairness ==
    /\ WF_vars(ReceiverStep)
    /\ WF_vars(TimerStep)
    /\ \A t \in AppThreads : WF_vars(TerminateStep(t))
    /\ \A x \in Txns, task \in DueTimers : SF_vars(TimerFires(x, task))

Spec == Init /\ [][Next]_vars

FairSpec == Spec /\ Fairness

-----------------------------------------------------------------------------
(***************************************************************************)
(* Properties                                                              *)
(***************************************************************************)

(* The values the variables take.                                          *)
TypeOK ==
    /\ ct \in [Txns -> CtState]
    /\ last \in [Txns -> Codes \cup {0}]
    /\ heard \in [Txns -> SUBSET ({180} \cup Final)]
    /\ invites \subseteq Txns
    /\ timers \in [Txns -> SUBSET DueTimers]
    /\ dialog \in [Calls -> DialogState]
    /\ dialogs \subseteq Calls
    /\ guiClosed \subseteq Calls
    /\ app \in [Calls -> AppState]
    /\ cancels \subseteq Txns
    /\ bye \in [Calls -> {"none", "sent", "answered"}]
    /\ byeIn \subseteq Calls
    /\ acked \subseteq Calls
    /\ challenged \in BOOLEAN
    /\ mediaDest \in Calls \cup {None}
    /\ socket \in Calls \cup {None}
    /\ session \in RtpSession \cup {None}
    /\ revived \subseteq Txns
    /\ thread \in [Threads -> Frame]

ReceiverAlive == ~At(Receiver, "dead")

(* No thread is inside an operation on call c.                             *)
Quiet(c) == \A t \in Threads : On(t) = None \/ CallOf(t) # c

(* More than one INVITE of the call has credentials.  terminate then works *)
(* with any of them, one that was refused included: it may send a BYE to a *)
(* peer that rings, or nothing at all.                                     *)
ChallengedTwice(c) == \E x \in Attempts(c) : x[2] > 2

(* A call that the application has ended, at whatever moment, is not left  *)
(* open at the peer: once the threads are done with it, a confirmed dialog *)
(* was sent a BYE, or the peer's BYE was received, and an INVITE that got  *)
(* only provisional responses was sent a CANCEL (unless the call was       *)
(* challenged twice).                                                      *)
ClosedCallNotForgotten ==
    \A c \in Calls :
        (app[c] = "closed" /\ Quiet(c) /\ ReceiverAlive) =>
            /\ c \in acked => bye[c] # "none" \/ c \in byeIn
            /\ \A x \in Attempts(c) :
                  ct[x] = "PROCEEDING" => x \in cancels \/ ChallengedTwice(c)

(* A BYE is never sent before the peer has given its final answer, though  *)
(* terminate chooses between CANCEL and BYE by looking up a dialog and a   *)
(* transaction that the receiver thread changes meanwhile.                 *)
ByeFollowsFinal ==
    \A c \in Calls :
        bye[c] # "none" =>
            ChallengedTwice(c) \/ \E x \in Attempts(c) : heard[x] \cap {200, 486} # {}

(* With calls that offer a codec, the receiver thread ends in one way: a   *)
(* timer A task has put an answered transaction of the call back into      *)
(* Calling, so that a copy of the 200 is handled as the first and meets a  *)
(* dialog that is confirmed already.  No other response, hang-up or timer  *)
(* task leads a dialog of this side to an event it throws at.              *)
ReceiverDiesOnlyAfterRevival ==
    ~ReceiverAlive =>
        LET c == CallOf(Receiver)
        IN  c \in acked /\ \E x \in revived : Call(x) = c

(* The INVITE is not sent for ever: whatever responses and timer tasks     *)
(* overtake each other, a transaction stays out of Calling in the end.     *)
RetransmissionsEnd ==
    \A x \in Txns : <>[](ct[x] # "CALLING")

(* What ends a call for good: a CANCEL, a BYE of one side, a refusal, or   *)
(* that its last INVITE was given up, and no answer to it acknowledged.    *)
Concluded(c) ==
    \/ bye[c] # "none" \/ c \in byeIn
    \/ \E x \in Attempts(c) : x \in cancels \/ 486 \in heard[x]
    \/ /\ c \notin acked
       /\ \A x \in Attempts(c) :
             ct[x] = "TERMINATED" \/ \E y \in Attempts(c) : y[2] > x[2]

(* A call that the application ends, at whatever moment, ends and stays    *)
(* ended: a call that was acknowledged has a BYE, whatever the receiver    *)
(* thread was doing when the application hung up.  The thread that ends it *)
(* may wait for the transaction's monitor for ever, while copies of the    *)
(* response take it again and again.                                       *)
ClosedCallEnds ==
    \A c \in Calls :
        \/ <>[](app[c] = "closed" => Concluded(c))
        \/ <>[](\E t \in AppThreads : At(t, "lock") /\ CallOf(t) = c)

(* An INVITE that was refused because its credentials are missing is sent  *)
(* again with them, unless the challenge of another INVITE is what the     *)
(* handler remembers: all calls share one flag.                            *)
ChallengeIsAnswered ==
    \A c \in Calls :
        (HasPassword /\ Quiet(c) /\ ReceiverAlive /\ ct[<<c, 1>>] = "COMPLETED"
            /\ heard[<<c, 1>>] \cap {401, 407} # {})
        => \/ \E x \in Attempts(c) : x[2] > 1
           \/ \E d \in Calls \ {c} : heard[<<d, 1>>] \cap {401, 407} # {}

(* The RTP session does not go on to the peer of a call the application    *)
(* has ended, unless a call whose 200 named no codec has taken over the    *)
(* destination that all calls share (or the call was challenged twice).    *)
SessionOfEndedCallHasReason ==
    (session # None /\ app[session.to] = "closed" /\ Quiet(session.to) /\ ReceiverAlive)
        => \/ ChallengedTwice(session.to)
           \/ \E c \in Calls \ CodecCalls : \E x \in Attempts(c) : 200 \in heard[x]

=============================================================================
