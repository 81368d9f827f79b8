----------------------------- MODULE MidDialog ------------------------------
(***************************************************************************)
(* Requests inside a dialog: what MidDialogRequestManager does with the    *)
(* ACK, re-INVITE, OPTIONS and BYE of its peers, in and out of order, and  *)
(* the fields of InviteHandler and MediaManager that all calls share:      *)
(* initialIncomingInvite, mediaDestination and rtpSession.                 *)
(*                                                                         *)
(* One thread receives, so that a handler is one step; IncomingCall        *)
(* interleaves it with the application's thread.  The peers are external:  *)
(* they number their requests, acknowledge what is accepted, and do not    *)
(* start an INVITE before the last one is settled.                         *)
(***************************************************************************)
EXTENDS Naturals, Sequences, SequencesExt

CONSTANTS
    Calls,      \* the calls
    Incoming,   \* those the agent may receive
    Made,       \* those it may make
    Talkers,    \* those in which the peer sends requests
    Reordered,  \* those whose requests may overtake each other
    LateOffers, \* those whose peer may leave the offer to the 200, and answer
                \* it in the ACK
    MayCopy,    \* the kinds of requests that may arrive more than once
    MaxCSeq     \* bound: the highest CSeq of a peer

Kinds == {"ACK", "INVITE", "OPTIONS", "BYE"}

ASSUME MidDialogAssumption ==
    /\ "none" \notin Calls /\ "nowhere" \notin Calls
    /\ Incoming \subseteq Calls
    /\ Made \subseteq Calls
    /\ Talkers \subseteq Calls
    /\ Reordered \subseteq Calls
    /\ LateOffers \subseteq Calls
    /\ MayCopy \subseteq Kinds
    /\ MaxCSeq \in Nat \ {0}

VARIABLES
    dialog,     \* Dialog.state; TERMINATED dialogs have left the table
    remote,     \* Dialog.remoteCSeq, or EmptyCSeq
    answer,     \* the last response of the server transaction of a CSeq
    told,       \* the final responses that have left, for each CSeq
    initial,    \* InviteHandler.initialIncomingInvite
    dest,       \* InviteHandler.mediaDestination: whose offer or answer it is
    session,    \* MediaManager.rtpSession: the call that started it, where it
                \* sends to
    hungUp,     \* the application has ended the call
    agreed,     \* history: the CSeq of the last ACK that was handled
    overtaken,  \* history: a request of the call has overtaken another
    fatal,      \* the request whose handling ended the receiver thread
    chan,       \* the requests on their way, in the order they were sent
    cseq,       \* the peer's CSeq; the INVITE of a call it makes has 1
    invites,    \* the CSeqs of its INVITEs
    late,       \* those of its INVITEs without an offer
    acked       \* the INVITEs it has acknowledged

dialogVars == <<dialog, remote, answer, told>>
mediaVars == <<initial, dest, session>>
peerVars == <<cseq, invites, late, acked>>
vars == <<dialogVars, mediaVars, hungUp, agreed, overtaken, fatal, chan, peerVars>>

EmptyCSeq == 0
CSeqs == 1 .. MaxCSeq

Request == [call : Calls, kind : Kinds, cseq : CSeqs]
Req(c, kind, n) == [call |-> c, kind |-> kind, cseq |-> n]
NoRequest == [call |-> "none", kind |-> "none", cseq |-> EmptyCSeq]

(* A destination is named by the INVITE it was agreed with; the one of a   *)
(* call the agent makes is in the answer to its own INVITE.                *)
Own == 0
Destination == Calls \X (CSeqs \cup {Own})
Nowhere == <<"nowhere", Own>>

Session == [call : Calls, dest : Destination]
Off == [call |-> "none", dest |-> Nowhere]

-----------------------------------------------------------------------------
(***************************************************************************)
(* A call begins                                                           *)
(***************************************************************************)

(* The peer decides whether its INVITE n has an offer.                     *)
LateChoice(c, n) ==
    \/ UNCHANGED late
    \/ c \in LateOffers /\ late' = [late EXCEPT ![c] = @ \cup {n}]

(* handleInitialInvite and buildDialogForUas.                              *)
Ring(c) ==
    /\ c \in Incoming
    /\ fatal = NoRequest
    /\ dialog[c] = "INIT"
    /\ dialog' = [dialog EXCEPT ![c] = "EARLY"]
    /\ remote' = [remote EXCEPT ![c] = 1]
    /\ initial' = TRUE
    /\ invites' = [invites EXCEPT ![c] = {1}]
    /\ LateChoice(c, 1)
    /\ UNCHANGED <<answer, told, dest, session, hungUp, agreed, overtaken, fatal, chan, cseq, acked>>

(* Mutant: the destination of the offer is not kept.                       *)
AcceptCallOnly(c) ==
    /\ dialog[c] = "EARLY"
    /\ dialog' = [dialog EXCEPT ![c] = "CONFIRMED"]
    /\ answer' = [answer EXCEPT ![c][1] = 200]
    /\ told' = [told EXCEPT ![c][1] = {200}]
    /\ UNCHANGED <<remote, mediaVars, hungUp, agreed, overtaken, fatal, chan, peerVars>>

(* acceptCall: the destination is taken from the offer, if there is one.   *)
AcceptCall(c) ==
    /\ dialog[c] = "EARLY"
    /\ dialog' = [dialog EXCEPT ![c] = "CONFIRMED"]
    /\ answer' = [answer EXCEPT ![c][1] = 200]
    /\ told' = [told EXCEPT ![c][1] = {200}]
    /\ dest' = IF 1 \in late[c] THEN dest ELSE <<c, 1>>
    /\ UNCHANGED <<remote, initial, session, hungUp, agreed, overtaken, fatal, chan, peerVars>>

(* successResponseReceived of a call the agent makes.                      *)
Answered(c) ==
    /\ c \in Made
    /\ fatal = NoRequest
    /\ dialog[c] = "INIT"
    /\ dialog' = [dialog EXCEPT ![c] = "CONFIRMED"]
    /\ dest' = <<c, Own>>
    /\ session' = [call |-> c, dest |-> <<c, Own>>]
    /\ UNCHANGED <<remote, answer, told, initial, hungUp, agreed, overtaken, fatal, chan, peerVars>>

-----------------------------------------------------------------------------
(***************************************************************************)
(* The requests of the peers                                               *)
(***************************************************************************)

(* The INVITEs of call c are settled: answered, and acknowledged.          *)
Settled(c) == \A n \in invites[c] : told[c][n] # {} /\ (200 \in told[c][n] => n \in acked[c])

Ended(c) == \E i \in 1 .. Len(chan[c]) : chan[c][i].kind = "BYE"

PeerSends(c, kind) ==
    LET n == cseq[c] + 1
    IN  /\ c \in Talkers
        /\ dialog[c] = "CONFIRMED"
        /\ ~Ended(c)
        /\ 1 \in invites[c] => 1 \in acked[c]
        /\ kind = "INVITE" => Settled(c)
        /\ n \in CSeqs
        /\ cseq' = [cseq EXCEPT ![c] = n]
        /\ chan' = [chan EXCEPT ![c] = Append(@, Req(c, kind, n))]
        /\ invites' = [invites EXCEPT ![c] = IF kind = "INVITE" THEN @ \cup {n} ELSE @]
        /\ IF kind = "INVITE" THEN LateChoice(c, n) ELSE UNCHANGED late
        /\ UNCHANGED <<dialogVars, mediaVars, hungUp, agreed, overtaken, fatal, acked>>

PeerAcks(c, n) ==
    /\ n \in invites[c] \ acked[c]
    /\ 200 \in told[c][n]
    /\ acked' = [acked EXCEPT ![c] = @ \cup {n}]
    /\ chan' = [chan EXCEPT ![c] = Append(@, Req(c, "ACK", n))]
    /\ UNCHANGED <<dialogVars, mediaVars, hungUp, agreed, overtaken, fatal, cseq, invites, late>>

-----------------------------------------------------------------------------
(***************************************************************************)
(* manageMidDialogRequest and the handlers                                 *)
(***************************************************************************)

(* The request is older than the last one of the dialog.                   *)
Stale(c, n) == remote[c] # EmptyCSeq /\ n < remote[c]

(* A stale request is refused; the CSeq of any other is remembered.        *)
CheckCSeq(c, n) == remote' = [remote EXCEPT ![c] = IF Stale(c, n) THEN @ ELSE n]

(* The last response of the transaction is repeated.  A re-INVITE that was *)
(* accepted has a Terminated transaction, which repeats nothing.           *)
AnswerCopy(r) ==
    told' = [told EXCEPT ![r.call][r.cseq] =
                IF r.kind # "INVITE" \/ 500 \in @ THEN @ \cup {answer[r.call][r.cseq]} ELSE @]

(* Mutant: the answer to a re-INVITE waits for a copy of it.               *)
HandleReInviteLater(c, n) ==
    /\ initial' = FALSE
    /\ dest' = IF n \in late[c] THEN dest ELSE <<c, n>>
    /\ answer' = [answer EXCEPT ![c][n] = 200]
    /\ UNCHANGED <<dialog, told, session, agreed, fatal>>

(* handleReInvite.  To a stale request the 500 is sent, and the 200 after  *)
(* it only becomes the last response of a transaction that is Completed.   *)
HandleReInvite(c, n) ==
    /\ initial' = FALSE
    /\ dest' = IF n \in late[c] THEN dest ELSE <<c, n>>
    /\ answer' = [answer EXCEPT ![c][n] = 200]
    /\ told' = [told EXCEPT ![c][n] = {IF Stale(c, n) THEN 500 ELSE 200}]
    /\ UNCHANGED <<dialog, session, agreed, fatal>>

(* Mutant: the sessions of calls that are updated are not started.         *)
HandleAckOnce(c, n) ==
    /\ agreed' = [agreed EXCEPT ![c] = n]
    /\ session' = IF initial /\ dest # Nowhere THEN [call |-> c, dest |-> dest] ELSE session
    /\ UNCHANGED <<dialog, answer, told, initial, dest, fatal>>

(* handleAck: the answer in an ACK is read if there is no destination yet; *)
(* then a session is started, or the one there is gets the destination.    *)
HandleAck(c, n) ==
    LET d == IF dest = Nowhere /\ n \in late[c] THEN <<c, n>> ELSE dest
    IN  /\ dest' = d
        /\ \/ /\ d # Nowhere
              /\ initial
              /\ session' = [call |-> c, dest |-> d]
              /\ agreed' = [agreed EXCEPT ![c] = n]
              /\ UNCHANGED fatal
           \/ /\ d # Nowhere
              /\ ~initial
              /\ session # Off
              /\ session' = [session EXCEPT !.dest = d]
              /\ agreed' = [agreed EXCEPT ![c] = n]
              /\ UNCHANGED fatal
           \/ /\ d = Nowhere \/ (~initial /\ session = Off)
              /\ fatal' = Req(c, "ACK", n)
              /\ UNCHANGED <<session, agreed>>
        /\ UNCHANGED <<dialog, answer, told, initial>>

(* handleOptions.  As to a BYE, the first answer waits for a copy of the   *)
(* request (NonInviteTransactions), and the 500 to a stale one is lost.    *)
HandleOptions(c, n) ==
    /\ answer' = [answer EXCEPT ![c][n] = 200]
    /\ UNCHANGED <<dialog, told, mediaVars, agreed, fatal>>

(* Mutant: the session is left alone.                                      *)
HandleByeOnly(c, n) ==
    /\ dialog' = [dialog EXCEPT ![c] = "TERMINATED"]
    /\ answer' = [answer EXCEPT ![c][n] = 200]
    /\ UNCHANGED <<told, mediaVars, agreed, fatal>>

(* handleBye: one session for all calls, which ends with any of them.      *)
HandleBye(c, n) ==
    /\ dialog' = [dialog EXCEPT ![c] = "TERMINATED"]
    /\ session' = Off
    /\ answer' = [answer EXCEPT ![c][n] = 200]
    /\ UNCHANGED <<told, initial, dest, agreed, fatal>>

(* A request in a dialog of the table, without a transaction.              *)
Manage(r) ==
    /\ CheckCSeq(r.call, r.cseq)
    /\ \/ r.kind = "INVITE" /\ HandleReInvite(r.call, r.cseq)
       \/ r.kind = "ACK" /\ HandleAck(r.call, r.cseq)
       \/ r.kind = "OPTIONS" /\ HandleOptions(r.call, r.cseq)
       \/ r.kind = "BYE" /\ HandleBye(r.call, r.cseq)

(* The receiver takes a request: the first, or any if they are reordered.  *)
Receive(c, i) ==
    LET r == chan[c][i]
        copy == r.kind # "ACK" /\ answer[c][r.cseq] # 0
    IN  /\ fatal = NoRequest
        /\ i \in 1 .. Len(chan[c])
        /\ i = 1 \/ c \in Reordered
        /\ overtaken' = [overtaken EXCEPT ![c] = @ \/ i # 1]
        /\ \/ chan' = [chan EXCEPT ![c] = RemoveAt(@, i)]
           \/ r.kind \in MayCopy /\ UNCHANGED chan
        /\ \/ /\ copy
              /\ AnswerCopy(r)
              /\ UNCHANGED <<dialog, remote, answer, mediaVars, agreed, fatal>>
           \/ /\ ~copy
              /\ dialog[c] = "TERMINATED"
              /\ UNCHANGED <<dialogVars, mediaVars, agreed, fatal>>
           \/ /\ ~copy
              /\ dialog[c] # "TERMINATED"
              /\ Manage(r)
        /\ UNCHANGED <<hungUp, peerVars>>

(* Timer G of a re-INVITE that was refused.                                *)
RepeatAnswer(c, n) ==
    /\ 500 \in told[c][n]
    /\ told' = [told EXCEPT ![c][n] = @ \cup {answer[c][n]}]
    /\ UNCHANGED <<dialog, remote, answer, mediaVars, hungUp, agreed, overtaken, fatal, chan, peerVars>>

(* terminate: the dialog stays in the table until the BYE is answered.     *)
HangUp(c) ==
    /\ dialog[c] = "CONFIRMED"
    /\ ~hungUp[c]
    /\ hungUp' = [hungUp EXCEPT ![c] = TRUE]
    /\ session' = Off
    /\ UNCHANGED <<dialogVars, initial, dest, agreed, overtaken, fatal, chan, peerVars>>

ByeAnswered(c) ==
    /\ fatal = NoRequest
    /\ hungUp[c]
    /\ dialog[c] = "CONFIRMED"
    /\ dialog' = [dialog EXCEPT ![c] = "TERMINATED"]
    /\ UNCHANGED <<remote, answer, told, mediaVars, hungUp, agreed, overtaken, fatal, chan, peerVars>>

-----------------------------------------------------------------------------
Init ==
    /\ dialog = [c \in Calls |-> "INIT"]
    /\ remote = [c \in Calls |-> EmptyCSeq]
    /\ answer = [c \in Calls |-> [n \in CSeqs |-> 0]]
    /\ told = [c \in Calls |-> [n \in CSeqs |-> {}]]
    /\ initial = FALSE
    /\ dest = Nowhere
    /\ session = Off
    /\ hungUp = [c \in Calls |-> FALSE]
    /\ agreed = [c \in Calls |-> EmptyCSeq]
    /\ overtaken = [c \in Calls |-> FALSE]
    /\ fatal = NoRequest
    /\ chan = [c \in Calls |-> <<>>]
    /\ cseq = [c \in Calls |-> 1]
    /\ invites = [c \in Calls |-> {}]
    /\ late = [c \in Calls |-> {}]
    /\ acked = [c \in Calls |-> {}]

Next ==
    \E c \in Calls :
        \/ Ring(c)
        \/ AcceptCall(c)
        \/ Answered(c)
        \/ \E kind \in Kinds \ {"ACK"} : PeerSends(c, kind)
        \/ \E n \in CSeqs : PeerAcks(c, n) \/ RepeatAnswer(c, n)
        \/ \E i \in 1 .. Len(chan[c]) : Receive(c, i)
        \/ HangUp(c)
        \/ ByeAnswered(c)

Spec == Init /\ [][Next]_vars

(* A request that was sent arrives, and a 200 is acknowledged.             *)
Fairness ==
    \A c \in Calls :
        /\ WF_vars(Receive(c, 1))
        /\ \A n \in CSeqs : WF_vars(PeerAcks(c, n))

FairSpec == Spec /\ Fairness

-----------------------------------------------------------------------------
(***************************************************************************)
(* Properties                                                              *)
(***************************************************************************)

(* The types of the agent's and of the peers' state.                       *)
TypeOK ==
    /\ dialog \in [Calls -> {"INIT", "EARLY", "CONFIRMED", "TERMINATED"}]
    /\ remote \in [Calls -> CSeqs \cup {EmptyCSeq}]
    /\ answer \in [Calls -> [CSeqs -> {0, 200}]]
    /\ told \in [Calls -> [CSeqs -> SUBSET {200, 500}]]
    /\ initial \in BOOLEAN
    /\ dest \in Destination \cup {Nowhere}
    /\ session \in Session \cup {Off}
    /\ hungUp \in [Calls -> BOOLEAN]
    /\ agreed \in [Calls -> CSeqs \cup {EmptyCSeq}]
    /\ overtaken \in [Calls -> BOOLEAN]
    /\ fatal \in Request \cup {NoRequest}
    /\ chan \in [Calls -> Seq(Request)]
    /\ cseq \in [Calls -> CSeqs]
    /\ invites \in [Calls -> SUBSET CSeqs]
    /\ late \in [Calls -> SUBSET CSeqs]
    /\ acked \in [Calls -> SUBSET CSeqs]

(* Copies and late requests of a call that its BYE has ended do not start  *)
(* a session again.                                                        *)
SilentAfterBye ==
    \A c \in Calls : dialog[c] = "TERMINATED" /\ ~hungUp[c] => session.call # c

(* No other call has begun, to change the fields that all calls share.     *)
Alone(c) == \A d \in Calls \ {c} : dialog[d] = "INIT"

(* An ACK ends the receiver thread when initialIncomingInvite asks for the *)
(* update of a session that does not exist.  Unless another call has begun *)
(* the application has hung up, or a re-INVITE has overtaken the ACK of    *)
(* the INVITE.                                                             *)
ReceiverDiesExplained ==
    fatal # NoRequest =>
        LET c == fatal.call
        IN  \/ hungUp[c]
            \/ agreed[c] = EmptyCSeq /\ overtaken[c]
            \/ ~Alone(c)

(* Sound goes where the INVITE that was acknowledged last asks for, unless *)
(* requests overtake each other, an offer is left to the agent (the answer *)
(* in the ACK is read when there is no destination yet, and at no other    *)
(* time) or another call has begun.                                        *)
SessionFollowsAnswer ==
    \A c \in Calls :
        /\ session.call = c /\ agreed[c] # EmptyCSeq
        /\ ~overtaken[c] /\ late[c] = {} /\ Alone(c)
        => session.dest = <<c, agreed[c]>>

(* A re-INVITE is accepted, acknowledged and put into effect, or the call  *)
(* ends; or its ACK is overtaken, or another call has begun.               *)
ReinviteTakesEffect ==
    \A c \in Calls, n \in CSeqs :
        (n \in invites[c] /\ dialog[c] = "CONFIRMED") ~>
            \/ agreed[c] >= n
            \/ hungUp[c] \/ dialog[c] = "TERMINATED"
            \/ overtaken[c] \/ ~Alone(c)
=============================================================================
