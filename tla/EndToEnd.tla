----------------------------- MODULE EndToEnd ------------------------------
(***************************************************************************)
(* A call between two user agents that both run this code, over a network  *)
(* that may reorder messages and, as far as the constants say, lose and    *)
(* copy them.  IncomingCall and OutgoingCall interleave the threads of one *)
(* agent with whatever a peer may send; here each handler is one step, and *)
(* the peer is the code itself: what a peer can send is what it does send. *)
(*                                                                         *)
(* Every run of handleInitialInvite at the callee makes a new To tag, and  *)
(* with it a new dialog: a leg of the call.  The second leg is the ghost   *)
(* that a late copy of the INVITE rings.                                   *)
(***************************************************************************)
EXTENDS DialogStates, Naturals, FiniteSets

CONSTANTS
    MayLose,    \* the kinds of messages the network may lose
    MayCopy,    \* the kinds of messages the network may deliver more than once
    OldCopies,  \* copies of the INVITE may outlive timer I
    DueTimers,  \* which of the timers B, F and H may come due
    MaxLegs     \* bound: how often the callee's phone rings

Caller == "caller"
Callee == "callee"
Phones == {Caller, Callee}
Other(p) == IF p = Caller THEN Callee ELSE Caller

Legs == 1 .. MaxLegs

Requests == {"INVITE", "CANCEL", "ACK", "ACKerror", "BYE"}
Responses == {"180", "200", "486", "487", "200CANCEL", "200BYE"}
Kinds == Requests \cup Responses

ASSUME EndToEndAssumption ==
    /\ MayLose \subseteq Kinds
    /\ MayCopy \subseteq Kinds
    /\ OldCopies \in BOOLEAN
    /\ DueTimers \subseteq {"B", "F", "H"}
    /\ MaxLegs \in Nat \ {0}

VARIABLES
    txn,        \* InviteClientTransaction.state
    last,       \* the kind of its last response, or "none"
    ack,        \* the To tag of its ACK, which createAndSendAck has built, or NoAck
    closed,     \* the Call-ID is in UAC.guiClosedCallIds
    cancel,     \* the transaction of the CANCEL: none, trying, done, failed
    app,        \* what the calling application knows
    ist,        \* InviteServerTransaction.state, or "none": not in the table
    answer,     \* its last response
    leg,        \* the legs that have rung so far
    cancelIn,   \* a CANCEL has its server transaction
    rings,      \* what the application called knows of each leg
    mediaDest,  \* the callee's InviteHandler.mediaDestination is set
    dialog,     \* Dialog.state, at each phone
    dialogs,    \* the legs whose dialog is in DialogManager.dialogs
    media,      \* MediaManager.rtpSession: the leg it serves, or Off
    socket,     \* MediaManager.datagramSocket is set
    bye,        \* the transaction of the BYE each phone sent for each leg
    byeIn,      \* the legs whose BYE has a server transaction
    up,         \* MessageReceiver.run has not ended
    net         \* the messages in the network

callerVars == <<txn, last, ack, closed, cancel, app>>
calleeVars == <<ist, answer, leg, cancelIn, rings, mediaDest>>
dialogVars == <<dialog, dialogs>>
mediaVars == <<media, socket>>
byeVars == <<bye, byeIn>>
vars == <<callerVars, calleeVars, dialogVars, mediaVars, byeVars, up, net>>

TxnState == {"none", "CALLING", "PROCEEDING", "COMPLETED", "TERMINATED"}
IstState == {"none", "PROCEEDING", "COMPLETED", "CONFIRMED", "TERMINATED"}
RequestState == {"none", "trying", "done", "failed"}

(* A message: its kind, who it is for, and the leg its To tag names (0: no *)
(* tag, or one that names no dialog).                                      *)
Message == [kind : Kinds, to : Phones, leg : 0 .. MaxLegs]
Msg(kind, to, l) == [kind |-> kind, to |-> to, leg |-> l]
NoAck == MaxLegs + 1

(* An RTP session without a socket is mute.                                *)
Session == [leg : 0 .. MaxLegs, mute : BOOLEAN]
Off == [leg |-> 0, mute |-> FALSE]

-----------------------------------------------------------------------------
(***************************************************************************)
(* Helpers                                                                 *)
(***************************************************************************)

Send(messages) == net' = net \cup messages

(* Message m is handled, and messages are sent.                            *)
Take(m, messages) ==
    /\ m \in net
    /\ up[m.to]
    /\ \E rest \in {net \ {m}} \cup {net : x \in MayCopy \cap {m.kind}} :
           net' = rest \cup messages

Put(p, l, s) == dialog' = [dialog EXCEPT ![p][l] = s]

(* Mutant: the socket of a session that was stopped is used again.         *)
StopSessionOnly(p) == media' = [media EXCEPT ![p] = Off] /\ UNCHANGED socket

(* MediaManager.stopSession.                                               *)
StopSession(p) ==
    /\ media' = [media EXCEPT ![p] = Off]
    /\ socket' = [socket EXCEPT ![p] = FALSE]

(* An RTP session over the socket there is.                                *)
StartSession(p, l) ==
    /\ media' = [media EXCEPT ![p] = [leg |-> l, mute |-> ~socket[p]]]
    /\ UNCHANGED socket

(* Mutant: an answer after the first provisional response is not heard.    *)
ExpectingFirst == txn = "CALLING"

(* The states in which a response is handed to InviteHandler.              *)
Expecting == txn \in {"CALLING", "PROCEEDING"}

(* Mutant: terminate does not cancel a call that rings.                    *)
EndingAnsweredOnly(table, states, resp) ==
    LET Bye(d) == [sent |-> {Msg("BYE", Callee, d)}, closed |-> FALSE, bye |-> d]
        answered == {d \in table : states[d] = "CONFIRMED"}
    IN  IF answered = {} THEN {[sent |-> {}, closed |-> TRUE, bye |-> 0]}
        ELSE {Bye(d) : d \in answered}

(* How UAC.terminate may end the call when table and states are the        *)
(* dialogs and resp is the last response: what it sends, whether the       *)
(* Call-ID stays in guiClosedCallIds, and the leg of its BYE.  It takes    *)
(* any dialog of the Call-ID; a transaction whose CSeq says ACK is not     *)
(* found.  A CANCEL is not sent when there was a final response.           *)
Ending(table, states, resp) ==
    LET Nothing == [sent |-> {}, closed |-> TRUE, bye |-> 0]
        Cancel == [sent |-> {Msg("CANCEL", Callee, 0)}, closed |-> TRUE, bye |-> 0]
        Bye(d) == [sent |-> {Msg("BYE", Callee, d)}, closed |-> FALSE, bye |-> d]
        found == ack = NoAck
    IN  IF table = {}
        THEN {IF found /\ resp = "180" THEN Cancel ELSE Nothing}
        ELSE {IF ~found \/ states[d] = "CONFIRMED" THEN Bye(d)
              ELSE IF states[d] = "EARLY" /\ resp \in {"none", "180"} THEN Cancel
              ELSE Nothing : d \in table}

(* The transactions that an ending starts.                                 *)
Start(ending) ==
    /\ cancel' = IF \E m \in ending.sent : m.kind = "CANCEL" THEN "trying" ELSE cancel
    /\ bye' = IF ending.bye = 0 THEN bye
              ELSE [bye EXCEPT ![Caller][ending.bye] = "trying"]
    /\ closed' = ending.closed

-----------------------------------------------------------------------------
(***************************************************************************)
(* The caller                                                              *)
(***************************************************************************)

(* UserAgent.invite.                                                       *)
Invite ==
    /\ txn = "none"
    /\ txn' = "CALLING"
    /\ app' = "calling"
    /\ socket' = [socket EXCEPT ![Caller] = TRUE]
    /\ Send({Msg("INVITE", Callee, 0)})
    /\ UNCHANGED <<last, ack, closed, cancel, calleeVars, dialogVars, media, byeVars, up>>

(* Timer A.                                                                *)
RepeatInvite ==
    /\ txn = "CALLING"
    /\ Send({Msg("INVITE", Callee, 0)})
    /\ UNCHANGED <<callerVars, calleeVars, dialogVars, mediaVars, byeVars, up>>

(* Timers B and D.  InviteHandler.transactionTimeout does nothing.         *)
InviteEnds ==
    /\ \/ txn = "CALLING" /\ "B" \in DueTimers
       \/ txn = "COMPLETED"
    /\ txn' = "TERMINATED"
    /\ UNCHANGED <<last, ack, closed, cancel, app, calleeVars, dialogVars, mediaVars,
                   byeVars, up, net>>

(* The application ends the call, whatever its state.                      *)
HangUpCaller ==
    /\ app \in {"calling", "ringing", "talking"}
    /\ app' = "hungUp"
    /\ StopSession(Caller)
    /\ \E ending \in Ending(dialogs[Caller], dialog[Caller], last) :
          /\ Start(ending)
          /\ Send(ending.sent)
    /\ UNCHANGED <<txn, last, ack, calleeVars, dialogVars, byeIn, up>>

(* provResponseReceived: the dialog is created with the first 180 of a leg,*)
(* and a call that was ended meanwhile is cancelled.                       *)
ReceiveRinging(l) ==
    LET new == l \notin dialogs[Caller]
        states == [dialog[Caller] EXCEPT ![l] = IF new THEN "EARLY" ELSE @]
        table == dialogs[Caller] \cup {l}
    IN  /\ Expecting
        /\ txn' = "PROCEEDING"
        /\ last' = "180"
        /\ dialog' = [dialog EXCEPT ![Caller] = states]
        /\ dialogs' = [dialogs EXCEPT ![Caller] = table]
        /\ app' = IF app = "calling" THEN "ringing" ELSE app
        /\ \/ /\ ~closed
              /\ Take(Msg("180", Caller, l), {})
              /\ UNCHANGED <<closed, cancel, mediaVars, bye>>
           \/ /\ closed
              /\ \E ending \in Ending(table, states, "180") :
                    /\ Start(ending)
                    /\ Take(Msg("180", Caller, l), ending.sent)
              /\ StopSession(Caller)
        /\ UNCHANGED <<ack, calleeVars, byeIn, up>>

(* Mutant: a call that was ended before its answer goes on.                *)
AnsweredAnyway(l) ==
    LET states == [dialog[Caller] EXCEPT
                      ![l] = DialogAfter(IF l \in dialogs[Caller] THEN @ ELSE "INIT", "2xx")]
    IN  /\ Expecting
        /\ txn' = "TERMINATED"
        /\ last' = "200"
        /\ dialog' = [dialog EXCEPT ![Caller] = states]
        /\ dialogs' = [dialogs EXCEPT ![Caller] = @ \cup {l}]
        /\ app' = IF closed THEN app ELSE "talking"
        /\ Take(Msg("200", Caller, l), {Msg("ACK", Callee, l)})
        /\ StartSession(Caller, l)
        /\ UNCHANGED <<ack, closed, cancel, bye, calleeVars, byeIn, up>>

(* successResponseReceived: sound, dialog, ACK; then a call that was ended *)
(* meanwhile gets its BYE.                                                 *)
ReceiveOk(l) ==
    LET states == [dialog[Caller] EXCEPT
                      ![l] = DialogAfter(IF l \in dialogs[Caller] THEN @ ELSE "INIT", "2xx")]
        table == dialogs[Caller] \cup {l}
        acks == {Msg("ACK", Callee, l)}
    IN  /\ Expecting
        /\ txn' = "TERMINATED"
        /\ last' = "200"
        /\ dialog' = [dialog EXCEPT ![Caller] = states]
        /\ dialogs' = [dialogs EXCEPT ![Caller] = table]
        /\ app' = IF closed THEN app ELSE "talking"
        /\ \/ /\ ~closed
              /\ Take(Msg("200", Caller, l), acks)
              /\ StartSession(Caller, l)
              /\ UNCHANGED <<closed, cancel, bye>>
           \/ /\ closed
              /\ \E ending \in Ending(table, states, "200") :
                    /\ Start(ending)
                    /\ Take(Msg("200", Caller, l), acks \cup ending.sent)
              /\ StopSession(Caller)
        /\ UNCHANGED <<ack, calleeVars, byeIn, up>>

(* createAndSendAck and errResponseReceived: the dialog of the response's  *)
(* To tag, if there is one, ends.                                          *)
ReceiveRefusal(kind, l) ==
    /\ Expecting
    /\ Take(Msg(kind, Caller, l), {Msg("ACKerror", Callee, l)})
    /\ txn' = "COMPLETED"
    /\ last' = kind
    /\ ack' = l
    /\ closed' = FALSE
    /\ app' = "over"
    /\ \/ /\ l \in dialogs[Caller]
          /\ Put(Caller, l, DialogAfter(dialog[Caller][l], "3xx"))
          /\ dialogs' = [dialogs EXCEPT ![Caller] = @ \ {l}]
       \/ /\ l \notin dialogs[Caller]
          /\ UNCHANGED dialogVars
    /\ socket' = [socket EXCEPT ![Caller] = FALSE]
    /\ UNCHANGED <<cancel, calleeVars, media, byeVars, up>>

(* A response that the state of the transaction ignores is remembered all  *)
(* the same; Completed repeats its ACK for a refusal.                      *)
ReceiveLateResponse(m) ==
    /\ m.kind \in {"180", "200", "486", "487"}
    /\ ~Expecting
    /\ last' = m.kind
    /\ Take(m, {Msg("ACKerror", Callee, ack) :
                   x \in {"COMPLETED"} \cap IF m.kind \in {"486", "487"} THEN {txn} ELSE {}})
    /\ UNCHANGED <<txn, ack, closed, cancel, app, calleeVars, dialogVars, mediaVars,
                   byeVars, up>>

(* Timer E of the CANCEL, its answer, and timer F.                         *)
RepeatCancel ==
    /\ cancel = "trying"
    /\ Send({Msg("CANCEL", Callee, 0)})
    /\ UNCHANGED <<callerVars, calleeVars, dialogVars, mediaVars, byeVars, up>>

CancelAnswered ==
    /\ Take(Msg("200CANCEL", Caller, 0), {})
    /\ cancel' = IF cancel = "trying" THEN "done" ELSE cancel
    /\ UNCHANGED <<txn, last, ack, closed, app, calleeVars, dialogVars, mediaVars,
                   byeVars, up>>

CancelFails ==
    /\ "F" \in DueTimers
    /\ cancel = "trying"
    /\ cancel' = "failed"
    /\ UNCHANGED <<txn, last, ack, closed, app, calleeVars, dialogVars, mediaVars,
                   byeVars, up, net>>

-----------------------------------------------------------------------------
(***************************************************************************)
(* The callee                                                              *)
(***************************************************************************)

(* An INVITE without a transaction is a new call, with a new dialog;       *)
(* Completed repeats its response, and no other state answers a copy.      *)
ReceiveInvite ==
    LET m == Msg("INVITE", Callee, 0)
        new == leg + 1
        ringing == Msg("180", Caller, new)
    IN  \/ /\ ist = "none"
           /\ leg < MaxLegs
           /\ Take(m, {ringing})
           /\ leg' = new
           /\ ist' = "PROCEEDING"
           /\ answer' = ringing
           /\ Put(Callee, new, "EARLY")
           /\ dialogs' = [dialogs EXCEPT ![Callee] = @ \cup {new}]
           /\ rings' = [rings EXCEPT ![new] = "ringing"]
           /\ UNCHANGED <<callerVars, cancelIn, mediaDest, mediaVars, byeVars, up>>
        \/ /\ ist # "none"
           /\ Take(m, {answer} \cap IF ist = "COMPLETED" THEN {answer} ELSE {})
           /\ UNCHANGED <<callerVars, calleeVars, dialogVars, mediaVars, byeVars, up>>

(* Mutant: the offer's media destination is not kept.                      *)
AcceptWithoutDestination(l) ==
    /\ rings[l] = "ringing"
    /\ rings' = [rings EXCEPT ![l] = "accepted"]
    /\ socket' = [socket EXCEPT ![Callee] = TRUE]
    /\ ist' = "TERMINATED"
    /\ answer' = Msg("200", Caller, l)
    /\ Send({answer'})
    /\ Put(Callee, l, DialogAfter(dialog[Callee][l], "2xx"))
    /\ UNCHANGED <<callerVars, leg, cancelIn, mediaDest, dialogs, media, byeVars, up>>

(* acceptCall, with the dialog of the leg that rings.  A leg rings only    *)
(* while its transaction is in Proceeding (Ringing, below).                *)
Accept(l) ==
    /\ rings[l] = "ringing"
    /\ rings' = [rings EXCEPT ![l] = "accepted"]
    /\ mediaDest' = TRUE
    /\ socket' = [socket EXCEPT ![Callee] = TRUE]
    /\ ist' = "TERMINATED"
    /\ answer' = Msg("200", Caller, l)
    /\ Send({answer'})
    /\ Put(Callee, l, DialogAfter(dialog[Callee][l], "2xx"))
    /\ UNCHANGED <<callerVars, leg, cancelIn, dialogs, media, byeVars, up>>

(* rejectCall takes any dialog of the Call-ID: its tag goes into the 486,  *)
(* and its state may throw, with the transaction already in Completed.     *)
Reject(l) ==
    /\ rings[l] = "ringing"
    /\ rings' = [rings EXCEPT ![l] = "refused"]
    /\ ist' = "COMPLETED"
    /\ \E d \in dialogs[Callee] :
          /\ answer' = Msg("486", Caller, d)
          /\ \/ /\ ~InvalidTransition(dialog[Callee][d], "3xx")
                /\ Put(Callee, d, DialogAfter(dialog[Callee][d], "3xx"))
                /\ socket' = [socket EXCEPT ![Callee] = FALSE]
             \/ /\ InvalidTransition(dialog[Callee][d], "3xx")
                /\ UNCHANGED <<dialog, socket>>
    /\ Send({answer'})
    /\ UNCHANGED <<callerVars, leg, cancelIn, mediaDest, dialogs, media, byeVars, up>>

(* UAC.terminate of a call that was received: there is no client           *)
(* transaction, and any dialog of the Call-ID gets a BYE.                  *)
HangUpCallee(l) ==
    /\ rings[l] = "accepted"
    /\ rings' = [rings EXCEPT ![l] = "hungUp"]
    /\ \E d \in dialogs[Callee] :
          /\ bye' = [bye EXCEPT ![Callee][d] = "trying"]
          /\ Send({Msg("BYE", Caller, d)})
    /\ StopSession(Callee)
    /\ UNCHANGED <<callerVars, ist, answer, leg, cancelIn, mediaDest, dialogVars, byeIn, up>>

(* handleCancel.  The transaction of the CANCEL sends its answer when a    *)
(* copy comes, and not before (NonInviteTransactions).                     *)
ReceiveCancel ==
    LET m == Msg("CANCEL", Callee, 0)
    IN  \/ /\ cancelIn
           /\ Take(m, {Msg("200CANCEL", Caller, 0)})
           /\ UNCHANGED <<ist, answer, rings, dialog, cancelIn>>
        \/ /\ ~cancelIn
           /\ ist # "PROCEEDING"
           /\ Take(m, {})
           /\ cancelIn' = TRUE
           /\ UNCHANGED <<ist, answer, rings, dialog>>
        \/ /\ ~cancelIn
           /\ ist = "PROCEEDING"
           /\ Take(m, {Msg("487", Caller, 0)})
           /\ cancelIn' = TRUE
           /\ ist' = "COMPLETED"
           /\ answer' = Msg("487", Caller, 0)
           /\ Put(Callee, answer.leg, DialogAfter(dialog[Callee][answer.leg], "3xx"))
           /\ rings' = [rings EXCEPT ![answer.leg] = "refused"]

(* The rest of handleCancel.                                               *)
ReceiveAnyCancel ==
    /\ ReceiveCancel
    /\ UNCHANGED <<callerVars, leg, mediaDest, dialogs, mediaVars, byeVars, up>>

(* Timer G, timer H, and timer I, which removes the transaction.           *)
RepeatAnswer ==
    /\ ist = "COMPLETED"
    /\ Send({answer})
    /\ UNCHANGED <<callerVars, calleeVars, dialogVars, mediaVars, byeVars, up>>

AnswerEnds ==
    /\ \/ /\ "H" \in DueTimers
          /\ ist = "COMPLETED"
          /\ ist' = "TERMINATED"
       \/ /\ ist = "CONFIRMED"
          /\ OldCopies \/ Msg("INVITE", Callee, 0) \notin net
          /\ ist' = "none"
    /\ UNCHANGED <<callerVars, answer, leg, cancelIn, rings, mediaDest, dialogVars,
                   mediaVars, byeVars, up, net>>

(* handleAck.                                                              *)
HandleAck(l) ==
    \/ /\ mediaDest
       /\ StartSession(Callee, l)
       /\ UNCHANGED up
    \/ /\ ~mediaDest
       /\ up' = [up EXCEPT ![Callee] = FALSE]
       /\ UNCHANGED mediaVars

(* The ACK of a 200 is a request in the dialog; without one it is dropped. *)
ReceiveAck(l) ==
    /\ Take(Msg("ACK", Callee, l), {})
    /\ \/ l \in dialogs[Callee] /\ HandleAck(l)
       \/ l \notin dialogs[Callee] /\ UNCHANGED <<mediaVars, up>>
    /\ UNCHANGED <<callerVars, calleeVars, dialogVars, byeVars>>

(* The ACK of a refusal belongs to the transaction, while there is one;    *)
(* after that it is taken for a request in the refused dialog, which       *)
(* rejectCall has left in the table.                                       *)
ReceiveAckOfRefusal(l) ==
    /\ Take(Msg("ACKerror", Callee, l), {})
    /\ \/ /\ ist # "none"
          /\ ist' = IF ist = "COMPLETED" THEN "CONFIRMED" ELSE ist
          /\ UNCHANGED <<mediaVars, up>>
       \/ /\ ist = "none"
          /\ l \in dialogs[Callee]
          /\ HandleAck(l)
          /\ UNCHANGED ist
       \/ /\ ist = "none"
          /\ l \notin dialogs[Callee]
          /\ UNCHANGED <<ist, mediaVars, up>>
    /\ UNCHANGED <<callerVars, answer, leg, cancelIn, rings, mediaDest, dialogVars, byeVars>>

-----------------------------------------------------------------------------
(***************************************************************************)
(* BYE, either way                                                         *)
(***************************************************************************)

(* The application of phone p is told that the peer has hung up.           *)
Told(p, l) ==
    \/ /\ p = Caller
       /\ app' = "over"
       /\ UNCHANGED rings
    \/ /\ p = Callee
       /\ rings' = [rings EXCEPT ![l] = "over"]
       /\ UNCHANGED app

(* Mutant: the session of a call that the peer has ended goes on.          *)
HandleByeOnly(p, l) ==
    /\ up' = up
    /\ Put(p, l, "TERMINATED")
    /\ dialogs' = [dialogs EXCEPT ![p] = @ \ {l}]
    /\ byeIn' = [byeIn EXCEPT ![p] = @ \cup {l}]
    /\ Told(p, l)
    /\ UNCHANGED mediaVars

(* ByeHandler.handleBye of a dialog whose state allows it.                 *)
HandleBye(p, l) ==
    /\ up' = up
    /\ Put(p, l, "TERMINATED")
    /\ dialogs' = [dialogs EXCEPT ![p] = @ \ {l}]
    /\ byeIn' = [byeIn EXCEPT ![p] = @ \cup {l}]
    /\ StopSession(p)
    /\ Told(p, l)

(* A BYE without a dialog is dropped; the copy of one that was handled is  *)
(* answered; an early dialog throws.                                       *)
ReceiveBye(p, l) ==
    LET m == Msg("BYE", p, l)
        inDialog == l \notin byeIn[p] /\ l \in dialogs[p]
    IN  /\ \/ /\ ~inDialog
              /\ Take(m, {Msg("200BYE", Other(p), l) : x \in byeIn[p] \cap {l}})
              /\ UNCHANGED <<dialogVars, mediaVars, byeIn, app, rings, up>>
           \/ /\ inDialog
              /\ InvalidTransition(dialog[p][l], "bye")
              /\ Take(m, {})
              /\ up' = [up EXCEPT ![p] = FALSE]
              /\ UNCHANGED <<dialogVars, mediaVars, byeIn, app, rings>>
           \/ /\ inDialog
              /\ ~InvalidTransition(dialog[p][l], "bye")
              /\ Take(m, {})
              /\ HandleBye(p, l)
        /\ UNCHANGED <<txn, last, ack, closed, cancel, ist, answer, leg, cancelIn,
                       mediaDest, bye>>

(* ByeHandler.successResponseReceived.                                     *)
ByeAnswered(p, l) ==
    /\ Take(Msg("200BYE", p, l), {})
    /\ \/ /\ bye[p][l] = "trying"
          /\ bye' = [bye EXCEPT ![p][l] = "done"]
          /\ \/ /\ l \in dialogs[p]
                /\ Put(p, l, "TERMINATED")
                /\ dialogs' = [dialogs EXCEPT ![p] = @ \ {l}]
             \/ /\ l \notin dialogs[p]
                /\ UNCHANGED dialogVars
       \/ /\ bye[p][l] # "trying"
          /\ UNCHANGED <<bye, dialogVars>>
    /\ UNCHANGED <<callerVars, calleeVars, mediaVars, byeIn, up>>

(* Timers E and F of the BYE.                                              *)
RepeatBye(p, l) ==
    /\ bye[p][l] = "trying"
    /\ Send({Msg("BYE", Other(p), l)})
    /\ UNCHANGED <<callerVars, calleeVars, dialogVars, mediaVars, byeVars, up>>

ByeFails(p, l) ==
    /\ "F" \in DueTimers
    /\ bye[p][l] = "trying"
    /\ bye' = [bye EXCEPT ![p][l] = "failed"]
    /\ UNCHANGED <<callerVars, calleeVars, dialogVars, mediaVars, byeIn, up, net>>

-----------------------------------------------------------------------------
(***************************************************************************)
(* Specification                                                           *)
(***************************************************************************)

Init ==
    /\ txn = "none"
    /\ last = "none"
    /\ ack = NoAck
    /\ closed = FALSE
    /\ cancel = "none"
    /\ app = "none"
    /\ ist = "none"
    /\ answer = Msg("180", Caller, 0)
    /\ leg = 0
    /\ cancelIn = FALSE
    /\ rings = [l \in Legs |-> "none"]
    /\ mediaDest = FALSE
    /\ dialog = [p \in Phones |-> [l \in Legs |-> "INIT"]]
    /\ dialogs = [p \in Phones |-> {}]
    /\ media = [p \in Phones |-> Off]
    /\ socket = [p \in Phones |-> FALSE]
    /\ bye = [p \in Phones |-> [l \in Legs |-> "none"]]
    /\ byeIn = [p \in Phones |-> {}]
    /\ up = [p \in Phones |-> TRUE]
    /\ net = {}

(* The receiver of message m handles it.                                   *)
Handle(m) ==
    /\ m \in net
    /\ \/ m.kind = "180" /\ ReceiveRinging(m.leg)
       \/ m.kind = "200" /\ ReceiveOk(m.leg)
       \/ m.kind \in {"486", "487"} /\ ReceiveRefusal(m.kind, m.leg)
       \/ ReceiveLateResponse(m)
       \/ m.kind = "INVITE" /\ ReceiveInvite
       \/ m.kind = "CANCEL" /\ ReceiveAnyCancel
       \/ m.kind = "200CANCEL" /\ CancelAnswered
       \/ m.kind = "ACK" /\ ReceiveAck(m.leg)
       \/ m.kind = "ACKerror" /\ ReceiveAckOfRefusal(m.leg)
       \/ m.kind = "BYE" /\ ReceiveBye(m.to, m.leg)
       \/ m.kind = "200BYE" /\ ByeAnswered(m.to, m.leg)

(* The timers that repeat a message.                                       *)
Repeat ==
    \/ RepeatInvite
    \/ RepeatCancel
    \/ RepeatAnswer
    \/ \E p \in Phones, l \in Legs : RepeatBye(p, l)

Users ==
    \/ Invite
    \/ HangUpCaller
    \/ \E l \in Legs : Accept(l) \/ Reject(l) \/ HangUpCallee(l)

Timeouts ==
    \/ InviteEnds
    \/ CancelFails
    \/ AnswerEnds
    \/ \E p \in Phones, l \in Legs : ByeFails(p, l)

Lose ==
    /\ \E m \in net : m.kind \in MayLose /\ net' = net \ {m}
    /\ UNCHANGED <<callerVars, calleeVars, dialogVars, mediaVars, byeVars, up>>

Next ==
    \/ \E m \in net : Handle(m)
    \/ Repeat
    \/ Users
    \/ Timeouts
    \/ Lose

Spec == Init /\ [][Next]_vars

(* A message that stays in the network arrives, a BYE that is sent again   *)
(* and again does even if copies are lost, and the timers that repeat one  *)
(* run.  The users need do nothing.                                        *)
Fairness ==
    /\ \A m \in Message : WF_vars(Handle(m))
    /\ \A p \in Phones, l \in Legs : SF_vars(ReceiveBye(p, l))
    /\ WF_vars(RepeatInvite)
    /\ WF_vars(RepeatCancel)
    /\ WF_vars(RepeatAnswer)
    /\ \A p \in Phones, l \in Legs : WF_vars(RepeatBye(p, l))

FairSpec == Spec /\ Fairness

-----------------------------------------------------------------------------
(***************************************************************************)
(* Properties                                                              *)
(***************************************************************************)

TypeOK ==
    /\ txn \in TxnState
    /\ last \in {"none", "180", "200", "486", "487"}
    /\ ack \in 0 .. NoAck
    /\ closed \in BOOLEAN
    /\ cancel \in RequestState
    /\ app \in {"none", "calling", "ringing", "talking", "hungUp", "over"}
    /\ ist \in IstState
    /\ answer \in Message
    /\ leg \in 0 .. MaxLegs
    /\ cancelIn \in BOOLEAN
    /\ rings \in [Legs -> {"none", "ringing", "refused", "accepted", "hungUp", "over"}]
    /\ mediaDest \in BOOLEAN
    /\ dialog \in [Phones -> [Legs -> DialogState]]
    /\ dialogs \in [Phones -> SUBSET Legs]
    /\ media \in [Phones -> Session]
    /\ socket \in [Phones -> BOOLEAN]
    /\ bye \in [Phones -> [Legs -> RequestState]]
    /\ byeIn \in [Phones -> SUBSET Legs]
    /\ up \in [Phones -> BOOLEAN]
    /\ net \subseteq Message

(* A leg that rings is the last, its transaction waits for the answer, and *)
(* its dialog can still be confirmed.                                      *)
Ringing ==
    \A l \in Legs : rings[l] = "ringing" =>
        ist = "PROCEEDING" /\ l = leg /\ l \in dialogs[Callee] /\ dialog[Callee][l] = "EARLY"

Hears(p, l) == media[p] = [leg |-> l, mute |-> FALSE]

(* The call as its two users see it, for each leg.                         *)
CallerView(l) ==
    IF Hears(Caller, l) THEN "talking"
    ELSE IF app = "none" THEN "idle"
    ELSE IF app \in {"calling", "ringing"} THEN "calling"
    ELSE "over"

CalleeView(l) ==
    CASE Hears(Callee, l) -> "talking"
      [] ~Hears(Callee, l) /\ rings[l] = "none" -> "idle"
      [] ~Hears(Callee, l) /\ rings[l] = "accepted" -> "answered"
      [] ~Hears(Callee, l) /\ rings[l] = "hungUp" -> "over"
      [] OTHER -> rings[l]

Call(l) == INSTANCE PhoneCall WITH caller <- CallerView(l), callee <- CalleeView(l)

(* Each leg is a phone call (the abstract specification): nobody hears     *)
(* anything before the answer, nor after having hung up or having been     *)
(* told that the other did, whatever is lost, late or copied in between.   *)
Promise ==
    /\ \A l \in Legs : Call(l)!Init
    /\ [][\A l \in Legs : Call(l)!Next \/ UNCHANGED <<CallerView(l), CalleeView(l)>>]_vars

(* What ends a phone's receiver thread.  The caller's: the callee hung up  *)
(* before the caller has seen its 200.  The callee's: an ACK of a refusal  *)
(* that comes when timer I has removed the transaction, at a phone that    *)
(* has not accepted a call so far.                                         *)
ReceiverDiesOnlyByStrays ==
    /\ ~up[Caller] => \E l \in Legs : dialog[Caller][l] = "EARLY" /\ bye[Callee][l] # "none"
    /\ ~up[Callee] => \E l \in Legs : rings[l] = "refused" /\ ack = l

(* A session without a socket: the ACK came after the callee has hung up,  *)
(* and has opened the sound devices again for nobody.                      *)
MuteSessionExplained ==
    \A p \in Phones : media[p].mute => p = Callee /\ rings[media[p].leg] = "hungUp"

(* A call that the caller ends ends at the callee: it stops ringing, and   *)
(* if it has been answered the callee is told.                             *)
CallerEndsForBoth ==
    \A l \in Legs :
        (app = "hungUp" /\ rings[l] \in {"ringing", "accepted"}) ~>
            (rings[l] \notin {"ringing", "accepted"})

(* An answered call connects, or one of the two has ended it.              *)
AnswerConnects ==
    \A l \in Legs : (rings[l] = "accepted") ~>
        (Hears(Caller, l) \/ app \in {"hungUp", "over"} \/ rings[l] # "accepted")

(* Nobody goes on talking into a call that the other has hung up.          *)
NobodyTalksAlone ==
    \A p \in Phones, l \in Legs :
        (bye[p][l] = "trying" /\ Hears(Other(p), l)) ~> ~Hears(Other(p), l)
=============================================================================
