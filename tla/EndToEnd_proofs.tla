-------------------------- MODULE EndToEnd_proofs --------------------------
(***************************************************************************)
(* EndToEnd implements PhoneCall, leg by leg, whatever the network loses,  *)
(* copies and delays, however often the phone rings; and what it takes for *)
(* a receiver thread to end.                                               *)
(***************************************************************************)
EXTENDS EndToEnd, TLAPS

-----------------------------------------------------------------------------
(***************************************************************************)
(* The inductive invariant                                                 *)
(***************************************************************************)

WaitingApp == {"calling", "ringing"}

(* Leg l was answered at some time.                                        *)
Answered(l) == rings[l] \in {"accepted", "hungUp", "over"}

(* Before the call there is nothing.                                       *)
NotCalled ==
    /\ txn = "none" <=> app = "none"
    /\ txn = "none" =>
          /\ net = {}
          /\ ist = "none"
          /\ cancel = "none"
          /\ ~closed
          /\ dialogs[Caller] = {}
          /\ \A l \in Legs : rings[l] = "none"
          /\ \A p \in Phones, l \in Legs : bye[p][l] = "none"

(* A transaction that has no final response: the caller hears nothing, has *)
(* no dialog but early ones, and has ended the call or is still waiting.   *)
Waiting ==
    txn \in {"none", "CALLING", "PROCEEDING"} =>
        /\ ack = NoAck
        /\ media[Caller] = Off
        /\ \A l \in dialogs[Caller] : dialog[Caller][l] = "EARLY"
        /\ \A l \in Legs : bye[Caller][l] = "none"
        /\ app \in {"none", "hungUp"} \cup WaitingApp
        /\ Expecting /\ ~closed => app \in WaitingApp /\ socket[Caller]
        /\ closed => app = "hungUp"

(* Until it is told of a refusal, the caller's application has a call      *)
(* whose INVITE was not refused.                                           *)
Unrefused == app \in {"calling", "ringing", "talking"} => ack = NoAck

(* The ACK of a refusal has been built.                                    *)
Refused == txn = "COMPLETED" => ack \in 0 .. MaxLegs

(* The caller confirms, and ends with a BYE, only a leg that was answered. *)
CallerKnows ==
    \A l \in Legs :
        /\ l \in dialogs[Caller] /\ dialog[Caller][l] = "CONFIRMED" => Answered(l)
        /\ bye[Caller][l] # "none" => Answered(l)

(* So do its messages, and an ACK is sent when the caller has heard of the *)
(* answer.  The messages of a dialog name a leg.                           *)
Sound(m) ==
    /\ m.kind \in {"180", "200", "ACK", "BYE", "200BYE"} => m.leg \in Legs
    /\ m.kind = "200" => Answered(m.leg)
    /\ m.kind = "BYE" /\ m.to = Callee => Answered(m.leg)
    /\ m.kind = "ACK" =>
          Answered(m.leg) /\ ~Expecting /\ app \in {"talking", "hungUp", "over"}

MessagesSound == \A m \in net : Sound(m)

(* The last leg is the one that rings or was answered; once it was, there  *)
(* is no other: the transaction stays in the table.                        *)
LastLeg ==
    /\ \A l \in Legs : l > leg => rings[l] = "none"
    /\ \A l \in Legs : Answered(l) => l = leg /\ ist = "TERMINATED"
    /\ mediaDest => ist = "TERMINATED"
    /\ \A l \in Legs : bye[Callee][l] # "none" => ist = "TERMINATED"
    /\ ist = "PROCEEDING" =>
          answer = Msg("180", Caller, leg) /\ leg \in Legs /\ rings[leg] = "ringing"
    /\ ist = "COMPLETED" => answer.kind \in {"486", "487"}

(* What the callee hears, and when its socket and dialog are gone.         *)
CalleeSound ==
    /\ \A l \in Legs : Hears(Callee, l) =>
          rings[l] = "accepted" /\ app \in {"talking", "hungUp", "over"}
    /\ \A l \in Legs :
          /\ rings[l] = "accepted" => socket[Callee]
          /\ rings[l] = "hungUp" => ~socket[Callee]
          /\ rings[l] = "over" => l \notin dialogs[Callee]

(* A session without a socket serves a leg.                                *)
MuteHasLeg == \A p \in Phones : media[p].mute => media[p].leg \in Legs

IInv ==
    /\ TypeOK
    /\ NotCalled
    /\ Waiting
    /\ Unrefused
    /\ Refused
    /\ CallerKnows
    /\ MessagesSound
    /\ LastLeg
    /\ Ringing
    /\ CalleeSound
    /\ MuteSessionExplained
    /\ MuteHasLeg

-----------------------------------------------------------------------------
(***************************************************************************)
(* Helpers                                                                 *)
(***************************************************************************)

LEMMA MsgFields ==
    \A k, p, l : Msg(k, p, l).kind = k /\ Msg(k, p, l).to = p /\ Msg(k, p, l).leg = l
BY DEF Msg

LEMMA MsgType ==
    ASSUME NEW k \in Kinds, NEW p \in Phones, NEW l \in 0 .. MaxLegs
    PROVE  Msg(k, p, l) \in Message
BY DEF Msg, Message

LEMMA MessageFields ==
    \A m \in Message : /\ m.kind \in Kinds /\ m.to \in Phones /\ m.leg \in 0 .. MaxLegs
                       /\ m = Msg(m.kind, m.to, m.leg)
BY DEF Msg, Message

LEMMA TwoPhones ==
    /\ Phones = {Caller, Callee} /\ Caller # Callee
    /\ Other(Caller) = Callee /\ Other(Callee) = Caller
BY DEF Phones, Caller, Callee, Other

LEMMA LegFacts ==
    /\ MaxLegs \in Nat /\ MaxLegs > 0 /\ NoAck \in Nat /\ NoAck > MaxLegs
    /\ \A l : l \in Legs <=> l \in 0 .. MaxLegs /\ l # 0
    /\ \A l \in Legs : l \in Nat /\ l # NoAck
BY EndToEndAssumption DEF Legs, NoAck

(* What the network holds after a step.                                    *)
LEMMA TakeFacts ==
    ASSUME NEW m, NEW S, Take(m, S)
    PROVE  m \in net /\ up[m.to] /\ \A x \in net' : x \in net \/ x \in S
BY DEF Take

LEMMA SendFacts ==
    ASSUME NEW S, Send(S)
    PROVE  \A x \in net' : x \in net \/ x \in S
BY DEF Send

LEMMA PutFacts ==
    ASSUME TypeOK, NEW p \in Phones, NEW l \in Legs, NEW s \in DialogState, Put(p, l, s)
    PROVE  /\ dialog' \in [Phones -> [Legs -> DialogState]]
           /\ dialog'[p][l] = s
           /\ \A q \in Phones, k \in Legs :
                 q # p \/ k # l => dialog'[q][k] = dialog[q][k]
<1>1. dialog \in [Phones -> [Legs -> DialogState]]
  BY DEF TypeOK
<1>2. dialog' = [dialog EXCEPT ![p][l] = s]
  BY DEF Put
<1> QED BY <1>1, <1>2

(* Every session is Off, or names a leg.                                   *)
LEMMA SessionFacts ==
    /\ Off \in Session /\ Off.leg = 0 /\ ~Off.mute
    /\ \A l \in 0 .. MaxLegs, b \in BOOLEAN :
          /\ [leg |-> l, mute |-> b] \in Session
          /\ [leg |-> l, mute |-> b].leg = l
          /\ [leg |-> l, mute |-> b].mute = b
    /\ \A l \in Legs : Off # [leg |-> l, mute |-> FALSE]
<1>1. Off \in Session /\ Off.leg = 0 /\ ~Off.mute
  BY EndToEndAssumption DEF Off, Session
<1>2. ASSUME NEW l \in 0 .. MaxLegs, NEW b \in BOOLEAN
      PROVE  /\ [leg |-> l, mute |-> b] \in Session
             /\ [leg |-> l, mute |-> b].leg = l
             /\ [leg |-> l, mute |-> b].mute = b
  BY DEF Session
<1>3. \A l \in Legs : l # 0
  BY LegFacts
<1>4. \A l : [leg |-> l, mute |-> FALSE].leg = l
  OBVIOUS
<1> QED BY <1>1, <1>2, <1>3, <1>4

(* To hear the peer is to have a session for the leg, with a socket.       *)
LEMMA HearsFacts ==
    ASSUME TypeOK, NEW p \in Phones, NEW l \in Legs
    PROVE  Hears(p, l) <=> media[p].leg = l /\ ~media[p].mute
<1>1. media[p] \in Session
  BY DEF TypeOK
<1>2. media[p] = [leg |-> media[p].leg, mute |-> media[p].mute] /\ media[p].mute \in BOOLEAN
  BY <1>1 DEF Session
<1>3. Hears(p, l) => media[p].leg = l /\ media[p].mute = FALSE
  BY DEF Hears
<1>4. media[p].leg = l /\ media[p].mute = FALSE => Hears(p, l)
  BY <1>2 DEF Hears
<1> QED BY <1>2, <1>3, <1>4

LEMMA StopFacts ==
    ASSUME TypeOK, NEW p \in Phones, StopSession(p)
    PROVE  /\ media' \in [Phones -> Session] /\ socket' \in [Phones -> BOOLEAN]
           /\ media'[p] = Off /\ ~socket'[p]
           /\ \A q \in Phones \ {p} : media'[q] = media[q] /\ socket'[q] = socket[q]
BY SessionFacts DEF TypeOK, StopSession

LEMMA StartFacts ==
    ASSUME TypeOK, NEW p \in Phones, NEW l \in Legs, StartSession(p, l)
    PROVE  /\ media' \in [Phones -> Session] /\ socket' = socket
           /\ media'[p] = [leg |-> l, mute |-> ~socket[p]]
           /\ media'[p].leg = l /\ media'[p].mute = ~socket[p]
           /\ \A q \in Phones \ {p} : media'[q] = media[q]
<1>1. media \in [Phones -> Session] /\ socket[p] \in BOOLEAN /\ l \in 0 .. MaxLegs
  BY LegFacts DEF TypeOK
<1>2. [leg |-> l, mute |-> ~socket[p]] \in Session
  BY <1>1, SessionFacts
<1>3. media' = [media EXCEPT ![p] = [leg |-> l, mute |-> ~socket[p]]] /\ socket' = socket
  BY DEF StartSession
<1> QED BY <1>1, <1>2, <1>3

(* An ending sends a CANCEL or a BYE to the callee, and the BYE is for a   *)
(* confirmed dialog.                                                       *)
Ends(ending, table, states) ==
    /\ ending.closed \in BOOLEAN
    /\ ending.bye \in {0} \cup table
    /\ ending.bye # 0 => states[ending.bye] = "CONFIRMED"
    /\ ending.closed <=> ending.bye = 0
    /\ \A m \in ending.sent :
          \/ m = Msg("CANCEL", Callee, 0)
          \/ ending.bye # 0 /\ m = Msg("BYE", Callee, ending.bye)

LEMMA EndingFacts ==
    ASSUME ack = NoAck, NEW table \in SUBSET Legs, NEW states, NEW resp,
           NEW ending \in Ending(table, states, resp)
    PROVE  Ends(ending, table, states)
<1> USE DEF Ends
<1> DEFINE Nothing == [sent |-> {}, closed |-> TRUE, bye |-> 0]
           Cancel == [sent |-> {Msg("CANCEL", Callee, 0)}, closed |-> TRUE, bye |-> 0]
           Bye(d) == [sent |-> {Msg("BYE", Callee, d)}, closed |-> FALSE, bye |-> d]
<1>1. \/ ending \in {Nothing, Cancel}
      \/ \E d \in table : states[d] = "CONFIRMED" /\ ending = Bye(d)
  BY DEF Ending
<1>2. CASE ending = Nothing \/ ending = Cancel
  <2>1. CASE ending = Nothing
    BY <2>1
  <2>2. CASE ending = Cancel
    BY <2>2
  <2> QED BY <1>2, <2>1, <2>2
<1>3. CASE \E d \in table : states[d] = "CONFIRMED" /\ ending = Bye(d)
  <2>1. PICK d \in table : states[d] = "CONFIRMED" /\ ending = Bye(d)
    BY <1>3
  <2>2. d # 0
    BY LegFacts
  <2> QED BY <2>1, <2>2
<1> QED BY <1>1, <1>2, <1>3

LEMMA StatesAfter ==
    /\ \A s, e : DialogAfter(s, e) \in DialogState
    /\ \A s : DialogAfter(s, "2xx") = "CONFIRMED"
    /\ "EARLY" \in DialogState /\ "TERMINATED" \in DialogState
BY DEF DialogAfter, DialogState

LEMMA EndingStarts ==
    ASSUME TypeOK, NEW ending, Start(ending),
           ending.closed \in BOOLEAN, ending.bye \in {0} \cup Legs
    PROVE  /\ cancel' \in RequestState
           /\ closed' \in BOOLEAN /\ closed' = ending.closed
           /\ bye' \in [Phones -> [Legs -> RequestState]]
           /\ \A q \in Phones, k \in Legs :
                 bye'[q][k] # bye[q][k] => q = Caller /\ k = ending.bye
<1>1. cancel' \in RequestState
  BY DEF Start, TypeOK, RequestState
<1>2. CASE ending.bye = 0
  BY <1>1, <1>2 DEF Start, TypeOK
<1>3. CASE ending.bye # 0
  <2>1. bye' = [bye EXCEPT ![Caller][ending.bye] = "trying"]
    BY <1>3 DEF Start
  <2>2. bye \in [Phones -> [Legs -> RequestState]] /\ "trying" \in RequestState
    BY DEF TypeOK, RequestState
  <2>3. closed' = ending.closed
    BY DEF Start
  <2> QED BY <1>1, <1>3, <2>1, <2>2, <2>3, TwoPhones
<1> QED BY <1>2, <1>3

-----------------------------------------------------------------------------
(***************************************************************************)
(* Each action keeps the invariant                                         *)
(***************************************************************************)

(* A step that changes nothing but the network and the receivers.          *)
LEMMA NetOnlyInv ==
    ASSUME IInv, UNCHANGED <<callerVars, calleeVars, dialogVars, mediaVars, byeVars>>,
           UNCHANGED up \/ up' \in [Phones -> BOOLEAN],
           txn # "none" \/ net' = {},
           NEW S, \A x \in net' : x \in net \/ x \in S,
           \A x \in S : x \in Message /\ Sound(x)
    PROVE  IInv'
<1> USE MsgFields, TwoPhones DEF IInv
<1>1. UNCHANGED <<txn, last, ack, closed, cancel, app, ist, answer, leg, cancelIn, rings,
                  mediaDest, dialog, dialogs, media, socket, bye, byeIn>>
  BY DEF callerVars, calleeVars, dialogVars, mediaVars, byeVars
<1> USE <1>1
<1>2. TypeOK'
  BY DEF TypeOK
<1>3. NotCalled'
  BY DEF NotCalled
<1>4. Waiting'
  BY DEF Waiting, Expecting, WaitingApp
<1>5. Unrefused'
  BY DEF Unrefused
<1>6. Refused'
  BY DEF Refused
<1>7. CallerKnows'
  BY DEF CallerKnows, Answered
<1>8. MessagesSound'
  BY DEF MessagesSound, Sound, Answered, Expecting
<1>9. LastLeg'
  BY DEF LastLeg, Answered
<1>10. Ringing'
  BY DEF Ringing
<1>11. CalleeSound'
  BY DEF CalleeSound, Hears
<1>12. MuteSessionExplained'
  BY DEF MuteSessionExplained
<1>13. MuteHasLeg'
  BY DEF MuteHasLeg
<1> QED BY <1>2, <1>3, <1>4, <1>5, <1>6, <1>7, <1>8, <1>9, <1>10, <1>11, <1>12, <1>13

LEMMA NothingSentInv ==
    ASSUME IInv, UNCHANGED <<callerVars, calleeVars, dialogVars, mediaVars, byeVars>>,
           UNCHANGED up \/ up' \in [Phones -> BOOLEAN],
           \A x \in net' : x \in net
    PROVE  IInv'
<1>1. txn # "none" \/ net' = {}
  BY DEF IInv, NotCalled
<1> DEFINE S == {}
<1>2. \A x \in net' : x \in net \/ x \in S
  OBVIOUS
<1>3. \A x \in S : x \in Message /\ Sound(x)
  OBVIOUS
<1> HIDE DEF S
<1> QED BY <1>1, <1>2, <1>3, NetOnlyInv

LEMMA InviteInv ==
    ASSUME IInv, Invite
    PROVE  IInv'
<1> USE MsgFields, TwoPhones DEF IInv
<1>1. txn = "none" /\ txn' = "CALLING" /\ app' = "calling" /\ net = {}
  BY DEF Invite, NotCalled
<1>2. socket' \in [Phones -> BOOLEAN] /\ socket'[Caller] /\ socket'[Callee] = socket[Callee]
  BY DEF Invite, TypeOK
<1>3. \A x \in net' : x = Msg("INVITE", Callee, 0) /\ x \in Message
  BY SendFacts, MsgType, LegFacts, <1>1 DEF Invite, Kinds, Requests
<1>4. UNCHANGED <<last, ack, closed, cancel, ist, answer, leg, cancelIn, rings,
                  mediaDest, dialog, dialogs, media, bye, byeIn, up>>
  BY DEF Invite, calleeVars, dialogVars, byeVars
<1> USE <1>1, <1>2, <1>3, <1>4
<1>5. TypeOK'
  BY DEF TypeOK, TxnState
<1>6. NotCalled'
  BY DEF NotCalled
<1>7. Waiting'
  BY DEF Waiting, NotCalled, Expecting, WaitingApp
<1>8. Unrefused'
  BY DEF Unrefused, Waiting
<1>9. Refused'
  BY DEF Refused
<1>10. CallerKnows'
  BY DEF CallerKnows, Answered
<1>11. MessagesSound'
  BY DEF MessagesSound, Sound, Answered, Expecting
<1>12. LastLeg'
  BY DEF LastLeg, Answered
<1>13. Ringing'
  BY DEF Ringing
<1>14. CalleeSound'
  BY DEF CalleeSound, NotCalled, Hears
<1>15. MuteSessionExplained'
  BY DEF MuteSessionExplained
<1>16. MuteHasLeg'
  BY DEF MuteHasLeg
<1> QED BY <1>5, <1>6, <1>7, <1>8, <1>9, <1>10, <1>11, <1>12, <1>13, <1>14, <1>15, <1>16

LEMMA InviteEndsInv ==
    ASSUME IInv, InviteEnds
    PROVE  IInv'
<1> USE MsgFields, TwoPhones DEF IInv
<1>1. txn \in {"CALLING", "COMPLETED"} /\ txn' = "TERMINATED"
  BY DEF InviteEnds
<1>2. UNCHANGED <<last, ack, closed, cancel, app, ist, answer, leg, cancelIn, rings,
                  mediaDest, dialog, dialogs, media, socket, bye, byeIn, up, net>>
  BY DEF InviteEnds, calleeVars, dialogVars, mediaVars, byeVars
<1> USE <1>1, <1>2
<1>3. TypeOK'
  BY DEF TypeOK, TxnState
<1>4. NotCalled'
  BY DEF NotCalled
<1>5. Waiting'
  BY DEF Waiting, Expecting, WaitingApp
<1>6. Unrefused'
  BY DEF Unrefused
<1>7. Refused'
  BY DEF Refused
<1>8. CallerKnows'
  BY DEF CallerKnows, Answered
<1>9. MessagesSound'
  BY DEF MessagesSound, Sound, Answered, Expecting
<1>10. LastLeg'
  BY DEF LastLeg, Answered
<1>11. Ringing'
  BY DEF Ringing
<1>12. CalleeSound'
  BY DEF CalleeSound, Hears
<1>13. MuteSessionExplained'
  BY DEF MuteSessionExplained
<1>14. MuteHasLeg'
  BY DEF MuteHasLeg
<1> QED BY <1>3, <1>4, <1>5, <1>6, <1>7, <1>8, <1>9, <1>10, <1>11, <1>12, <1>13, <1>14

LEMMA HangUpCallerInv ==
    ASSUME IInv, HangUpCaller
    PROVE  IInv'
<1> USE MsgFields, TwoPhones, SessionFacts DEF IInv
<1>1. app \in {"calling", "ringing", "talking"} /\ app' = "hungUp" /\ ack = NoAck
      /\ txn # "none"
  BY DEF HangUpCaller, Unrefused, NotCalled
<1>2. PICK ending \in Ending(dialogs[Caller], dialog[Caller], last) :
         Start(ending) /\ Send(ending.sent)
  BY DEF HangUpCaller
<1>3. dialogs[Caller] \in SUBSET Legs
  BY DEF TypeOK
<1>4. Ends(ending, dialogs[Caller], dialog[Caller])
  BY <1>1, <1>2, <1>3, EndingFacts
<1>5. ending.bye # 0 =>
         ending.bye \in Legs /\ Answered(ending.bye) /\ ~Expecting
  <2> SUFFICES ASSUME ending.bye # 0
               PROVE  ending.bye \in Legs /\ Answered(ending.bye) /\ ~Expecting
    OBVIOUS
  <2>1. ending.bye \in Legs /\ ending.bye \in dialogs[Caller]
    BY <1>3, <1>4 DEF Ends
  <2>2. dialog[Caller][ending.bye] = "CONFIRMED"
    BY <1>4 DEF Ends
  <2>3. Answered(ending.bye)
    BY <2>1, <2>2 DEF CallerKnows
  <2>4. ~Expecting
    BY <2>1, <2>2 DEF Waiting, Expecting
  <2> QED BY <2>1, <2>3, <2>4
<1>6. media' \in [Phones -> Session] /\ socket' \in [Phones -> BOOLEAN]
      /\ media'[Caller] = Off /\ media'[Callee] = media[Callee] /\ socket'[Callee] = socket[Callee]
  BY StopFacts DEF HangUpCaller
<1>7. cancel' \in RequestState /\ closed' \in BOOLEAN /\ closed' = ending.closed
      /\ bye' \in [Phones -> [Legs -> RequestState]]
      /\ \A q \in Phones, k \in Legs : bye'[q][k] # bye[q][k] => q = Caller /\ k = ending.bye
  BY <1>2, <1>3, <1>4, EndingStarts DEF Ends
<1>8. \A x \in net' : x \in net \/ x \in ending.sent
  BY <1>2, SendFacts
<1>9. \A x \in ending.sent : x \in Message
  BY <1>4, <1>5, MsgType, LegFacts DEF Ends, Kinds, Requests
<1>10. UNCHANGED <<txn, last, ack, ist, answer, leg, cancelIn, rings,
                   mediaDest, dialog, dialogs, byeIn, up>>
  BY DEF HangUpCaller, calleeVars, dialogVars
<1> USE <1>1, <1>2, <1>3, <1>4, <1>5, <1>6, <1>7, <1>8, <1>9, <1>10
<1>11. TypeOK'
  BY DEF TypeOK, Ends
<1>12. NotCalled'
  BY DEF NotCalled
<1>13. Waiting'
  BY LegFacts DEF Waiting, Expecting, WaitingApp, Ends
<1>14. Unrefused'
  BY DEF Unrefused
<1>15. Refused'
  BY DEF Refused
<1>16. CallerKnows'
  BY LegFacts DEF CallerKnows, Answered
<1>17. MessagesSound'
  BY DEF MessagesSound, Sound, Answered, Expecting, Ends
<1>18. LastLeg'
  BY DEF LastLeg, Answered
<1>19. Ringing'
  BY DEF Ringing
<1>20. CalleeSound'
  BY DEF CalleeSound, Hears
<1>21. MuteSessionExplained'
  BY DEF MuteSessionExplained
<1>22. MuteHasLeg'
  BY DEF MuteHasLeg
<1> QED BY <1>11, <1>12, <1>13, <1>14, <1>15, <1>16, <1>17, <1>18, <1>19, <1>20, <1>21, <1>22

LEMMA ReceiveRingingInv ==
    ASSUME IInv, NEW l \in Legs, ReceiveRinging(l)
    PROVE  IInv'
<1> USE MsgFields, TwoPhones DEF IInv
<1>1. Expecting /\ ack = NoAck /\ txn' = "PROCEEDING" /\ last' = "180" /\ media[Caller] = Off
  BY DEF ReceiveRinging, Waiting, Expecting
<1>2. dialogs' = [dialogs EXCEPT ![Caller] = dialogs[Caller] \cup {l}]
      /\ dialogs[Caller] \cup {l} \in SUBSET Legs
  BY DEF ReceiveRinging, TypeOK
<1>3. PICK states : /\ states = [dialog[Caller] EXCEPT ![l] = IF l \notin dialogs[Caller] THEN "EARLY" ELSE @]
                    /\ dialog' = [dialog EXCEPT ![Caller] = states]
  BY DEF ReceiveRinging
<1>4. states \in [Legs -> DialogState] /\ \A k \in dialogs[Caller] \cup {l} : states[k] = "EARLY"
  BY <1>1, <1>2, <1>3, StatesAfter DEF TypeOK, Waiting, Expecting
<1>5. dialog' \in [Phones -> [Legs -> DialogState]] /\ dialog'[Caller] = states /\ dialog'[Callee] = dialog[Callee]
  BY <1>3, <1>4, TwoPhones DEF TypeOK
<1>6. app' = IF app = "calling" THEN "ringing" ELSE app
  BY DEF ReceiveRinging
<1>7. /\ cancel' \in RequestState /\ closed' \in BOOLEAN /\ closed' = closed
      /\ bye' = bye /\ media' = media /\ socket' \in [Phones -> BOOLEAN]
      /\ socket'[Callee] = socket[Callee] /\ (~closed => socket' = socket)
      /\ \A x \in net' : x \in net \/ x = Msg("CANCEL", Callee, 0)
  <2>1. CASE ~closed
    <3>1. UNCHANGED <<closed, cancel, media, socket, bye>> /\ Take(Msg("180", Caller, l), {})
      BY <2>1 DEF ReceiveRinging, mediaVars
    <3> QED BY <2>1, <3>1, TakeFacts DEF TypeOK
  <2>2. CASE closed
    <3>1. PICK ending \in Ending(dialogs[Caller] \cup {l}, states, "180") :
             Start(ending) /\ Take(Msg("180", Caller, l), ending.sent)
      BY <2>2, <1>3 DEF ReceiveRinging
    <3>2. Ends(ending, dialogs[Caller] \cup {l}, states)
      BY <1>1, <1>2, <3>1, EndingFacts
    <3>3. ending.bye = 0 /\ ending.closed = TRUE
      BY <1>4, <3>2 DEF Ends
    <3>4. cancel' \in RequestState /\ closed' = TRUE /\ bye' = bye
      BY <3>1, <3>3, EndingStarts DEF Start
    <3>5. StopSession(Caller)
      BY <2>2 DEF ReceiveRinging
    <3>6. media' = media /\ socket' \in [Phones -> BOOLEAN] /\ socket'[Callee] = socket[Callee]
      BY <1>1, <3>5, StopFacts DEF StopSession, TypeOK
    <3>7. \A x \in net' : x \in net \/ x = Msg("CANCEL", Callee, 0)
      BY <3>1, <3>2, <3>3, TakeFacts DEF Ends
    <3> QED BY <2>2, <3>4, <3>6, <3>7 DEF TypeOK
  <2> QED BY <2>1, <2>2
<1>8. Msg("CANCEL", Callee, 0) \in Message
  BY MsgType, LegFacts DEF Kinds, Requests
<1>9. UNCHANGED <<ack, ist, answer, leg, cancelIn, rings, mediaDest, byeIn, up>>
  BY DEF ReceiveRinging, calleeVars
<1> USE <1>1, <1>2, <1>3, <1>4, <1>5, <1>6, <1>7, <1>8, <1>9
<1>10. TypeOK'
  BY TwoPhones DEF TypeOK, TxnState
<1>11. NotCalled'
  BY DEF NotCalled, Expecting
<1>12. Waiting'
  BY DEF Waiting, Expecting, WaitingApp
<1>13. Unrefused'
  BY DEF Unrefused
<1>14. Refused'
  BY DEF Refused
<1>15. CallerKnows'
  BY DEF CallerKnows, Answered
<1>16. MessagesSound'
  BY DEF MessagesSound, Sound, Answered, Expecting
<1>17. LastLeg'
  BY DEF LastLeg, Answered
<1>18. Ringing'
  BY DEF Ringing
<1>19. CalleeSound'
  BY DEF CalleeSound, Hears
<1>20. MuteSessionExplained'
  BY DEF MuteSessionExplained
<1>21. MuteHasLeg'
  BY DEF MuteHasLeg
<1> QED BY <1>10, <1>11, <1>12, <1>13, <1>14, <1>15, <1>16, <1>17, <1>18, <1>19, <1>20, <1>21

LEMMA ReceiveOkInv ==
    ASSUME IInv, NEW l \in Legs, ReceiveOk(l)
    PROVE  IInv'
<1> USE MsgFields, TwoPhones DEF IInv
<1>1. Expecting /\ ack = NoAck /\ txn' = "TERMINATED" /\ last' = "200" /\ media[Caller] = Off
  BY DEF ReceiveOk, Waiting, Expecting
<1>2. dialogs' = [dialogs EXCEPT ![Caller] = dialogs[Caller] \cup {l}]
      /\ dialogs[Caller] \cup {l} \in SUBSET Legs
  BY DEF ReceiveOk, TypeOK
<1>3. PICK states : /\ states = [dialog[Caller] EXCEPT
                         ![l] = DialogAfter(IF l \in dialogs[Caller] THEN @ ELSE "INIT", "2xx")]
                    /\ dialog' = [dialog EXCEPT ![Caller] = states]
  BY DEF ReceiveOk
<1>4. /\ states \in [Legs -> DialogState]
      /\ \A k \in dialogs[Caller] \cup {l} : states[k] = IF k = l THEN "CONFIRMED" ELSE "EARLY"
  BY <1>1, <1>2, <1>3, StatesAfter DEF TypeOK, Waiting, Expecting
<1>5. dialog' \in [Phones -> [Legs -> DialogState]] /\ dialog'[Caller] = states /\ dialog'[Callee] = dialog[Callee]
  BY <1>3, <1>4, TwoPhones DEF TypeOK
<1>6. app' = IF closed THEN app ELSE "talking"
  BY DEF ReceiveOk
<1>7. Msg("200", Caller, l) \in net /\ Answered(l)
  <2>1. PICK S : Take(Msg("200", Caller, l), S)
    <3>1. CASE ~closed
      BY <3>1 DEF ReceiveOk
    <3>2. CASE closed
      BY <3>2 DEF ReceiveOk
    <3> QED BY <3>1, <3>2
  <2>2. Msg("200", Caller, l) \in net
    BY <2>1, TakeFacts
  <2> QED BY <2>2 DEF MessagesSound, Sound, Answered
<1>8. /\ cancel' \in RequestState /\ closed' \in BOOLEAN
      /\ bye' \in [Phones -> [Legs -> RequestState]]
      /\ \A q \in Phones, k \in Legs : bye'[q][k] # bye[q][k] => q = Caller /\ k = l
      /\ media' \in [Phones -> Session] /\ socket' \in [Phones -> BOOLEAN]
      /\ media'[Callee] = media[Callee] /\ socket'[Callee] = socket[Callee] /\ ~media'[Caller].mute
      /\ \A x \in net' : x \in net \/ x \in {Msg("CANCEL", Callee, 0), Msg("BYE", Callee, l), Msg("ACK", Callee, l)}
  <2>1. CASE ~closed
    <3>1. /\ UNCHANGED <<closed, cancel, bye>> /\ StartSession(Caller, l)
          /\ Take(Msg("200", Caller, l), {Msg("ACK", Callee, l)})
      BY <2>1 DEF ReceiveOk
    <3>2. socket[Caller]
      BY <1>1, <2>1 DEF Waiting, Expecting
    <3>3. \A x \in net' : x \in net \/ x = Msg("ACK", Callee, l)
      BY <3>1, TakeFacts
    <3>4. /\ media' \in [Phones -> Session] /\ socket' = socket
          /\ media'[Callee] = media[Callee] /\ ~media'[Caller].mute
      BY <3>1, <3>2, StartFacts
    <3> QED BY <3>1, <3>3, <3>4 DEF TypeOK
  <2>2. CASE closed
    <3>1. PICK ending \in Ending(dialogs[Caller] \cup {l}, states, "200") :
             Start(ending) /\ Take(Msg("200", Caller, l), {Msg("ACK", Callee, l)} \cup ending.sent)
      BY <2>2, <1>3 DEF ReceiveOk
    <3>2. Ends(ending, dialogs[Caller] \cup {l}, states)
      BY <1>1, <1>2, <3>1, EndingFacts
    <3>3. ending.bye \in {0, l} /\ ending.closed \in BOOLEAN
      BY <1>4, <3>2 DEF Ends
    <3>4. cancel' \in RequestState /\ closed' \in BOOLEAN
          /\ bye' \in [Phones -> [Legs -> RequestState]]
          /\ \A q \in Phones, k \in Legs : bye'[q][k] # bye[q][k] => q = Caller /\ k = l
      <4>1. ending.bye \in {0} \cup Legs /\ Start(ending)
        BY <3>1, <3>3
      <4> HIDE DEF IInv
      <4>2. TypeOK
        BY DEF IInv
      <4>3. /\ cancel' \in RequestState /\ closed' \in BOOLEAN
            /\ bye' \in [Phones -> [Legs -> RequestState]]
            /\ \A q \in Phones, k \in Legs :
                  bye'[q][k] # bye[q][k] => q = Caller /\ k = ending.bye
        BY <3>3, <4>1, <4>2, EndingStarts
      <4>4. \A k \in Legs : k # 0
        BY LegFacts
      <4> QED BY <3>3, <4>3, <4>4
    <3>5. StopSession(Caller)
      BY <2>2 DEF ReceiveOk
    <3>6. \A x \in net' : x \in net \/ x \in {Msg("CANCEL", Callee, 0), Msg("BYE", Callee, l), Msg("ACK", Callee, l)}
      BY <3>1, <3>2, <3>3, TakeFacts DEF Ends
    <3> QED BY <3>4, <3>5, <3>6, StopFacts, SessionFacts
  <2> QED BY <2>1, <2>2
<1>9. \A x \in {Msg("CANCEL", Callee, 0), Msg("BYE", Callee, l), Msg("ACK", Callee, l)} : x \in Message
  BY MsgType, LegFacts DEF Kinds, Requests
<1>10. UNCHANGED <<ack, ist, answer, leg, cancelIn, rings, mediaDest, byeIn, up>>
  BY DEF ReceiveOk, calleeVars
<1> USE <1>1, <1>2, <1>3, <1>4, <1>5, <1>6, <1>7, <1>8, <1>9, <1>10
<1>11. TypeOK'
  BY TwoPhones DEF TypeOK, TxnState
<1>12. NotCalled'
  BY DEF NotCalled
<1>13. Waiting'
  BY DEF Waiting
<1>14. Unrefused'
  BY DEF Unrefused
<1>15. Refused'
  BY DEF Refused
<1>16. CallerKnows'
  BY DEF CallerKnows, Answered
<1>17. MessagesSound'
  <2> SUFFICES ASSUME NEW x \in net' PROVE Sound(x)'
    BY DEF MessagesSound
  <2>1. CASE x \in net
    BY <2>1 DEF MessagesSound, Sound, Answered, Expecting
  <2>2. CASE x = Msg("ACK", Callee, l)
    <3>1. app' \in {"talking", "hungUp", "over"}
      BY DEF Waiting, NotCalled, Expecting, WaitingApp
    <3> QED BY <2>2, <3>1 DEF Sound, Answered, Expecting
  <2>3. CASE x \in {Msg("CANCEL", Callee, 0), Msg("BYE", Callee, l)}
    BY <2>3 DEF Sound, Answered
  <2> QED BY <2>1, <2>2, <2>3
<1>18. LastLeg'
  BY DEF LastLeg, Answered
<1>19. Ringing'
  BY DEF Ringing
<1>20. CalleeSound'
  BY DEF CalleeSound, Hears
<1>21. MuteSessionExplained'
  BY DEF MuteSessionExplained
<1>22. MuteHasLeg'
  BY DEF MuteHasLeg
<1> QED BY <1>11, <1>12, <1>13, <1>14, <1>15, <1>16, <1>17, <1>18, <1>19, <1>20, <1>21, <1>22

LEMMA ReceiveRefusalInv ==
    ASSUME IInv, NEW kind \in {"486", "487"}, NEW l \in 0 .. MaxLegs, ReceiveRefusal(kind, l)
    PROVE  IInv'
<1> USE MsgFields, TwoPhones DEF IInv
<1>1. Expecting /\ txn' = "COMPLETED" /\ last' = kind /\ ack' = l /\ closed' = FALSE /\ app' = "over"
      /\ media[Caller] = Off
  BY DEF ReceiveRefusal, Waiting, Expecting
<1>2. /\ dialogs' \in [Phones -> SUBSET Legs] /\ dialogs'[Caller] \subseteq dialogs[Caller]
      /\ dialogs'[Callee] = dialogs[Callee]
      /\ dialog' \in [Phones -> [Legs -> DialogState]] /\ dialog'[Callee] = dialog[Callee]
      /\ \A k \in dialogs'[Caller] : dialog'[Caller][k] = dialog[Caller][k]
  <2>1. CASE l \in dialogs[Caller]
    <3>1. /\ Put(Caller, l, DialogAfter(dialog[Caller][l], "3xx"))
          /\ dialogs' = [dialogs EXCEPT ![Caller] = @ \ {l}]
      BY <2>1 DEF ReceiveRefusal
    <3>2. l \in Legs
      BY <2>1 DEF TypeOK
    <3>3. /\ dialog' \in [Phones -> [Legs -> DialogState]]
          /\ \A q \in Phones, k \in Legs : q # Caller \/ k # l => dialog'[q][k] = dialog[q][k]
      <4>1. DialogAfter(dialog[Caller][l], "3xx") \in DialogState
        BY StatesAfter
      <4> HIDE DEF IInv
      <4>2. TypeOK
        BY DEF IInv
      <4>3. Caller \in Phones
        BY TwoPhones
      <4> DEFINE new == DialogAfter(dialog[Caller][l], "3xx")
      <4>4. new \in DialogState /\ Put(Caller, l, new)
        BY <3>1, <4>1
      <4> HIDE DEF new
      <4> QED BY <3>2, <4>2, <4>3, <4>4, PutFacts
    <3>4. dialog'[Callee] = dialog[Callee]
      BY <3>1, TwoPhones DEF Put, TypeOK
    <3> QED BY <3>1, <3>3, <3>4, TwoPhones DEF TypeOK
  <2>2. CASE l \notin dialogs[Caller]
    BY <2>2 DEF ReceiveRefusal, dialogVars, TypeOK
  <2> QED BY <2>1, <2>2
<1>3. socket' \in [Phones -> BOOLEAN] /\ socket'[Callee] = socket[Callee]
  BY DEF ReceiveRefusal, TypeOK
<1>4. \A x \in net' : x \in net \/ x = Msg("ACKerror", Callee, l)
  BY TakeFacts DEF ReceiveRefusal
<1>5. Msg("ACKerror", Callee, l) \in Message
  BY MsgType DEF Kinds, Requests
<1>6. UNCHANGED <<cancel, ist, answer, leg, cancelIn, rings, mediaDest, media, bye,
                  byeIn, up>>
  BY DEF ReceiveRefusal, calleeVars, byeVars
<1> USE <1>1, <1>2, <1>3, <1>4, <1>5, <1>6
<1>7. TypeOK'
  <2>1. l \in 0 .. NoAck
    BY LegFacts
  <2>2. net' \subseteq Message
    BY DEF TypeOK
  <2> QED BY <2>1, <2>2 DEF TypeOK, TxnState
<1>8. NotCalled'
  BY DEF NotCalled
<1>9. Waiting'
  BY DEF Waiting, Expecting, WaitingApp
<1>10. Unrefused'
  BY DEF Unrefused
<1>11. Refused'
  BY DEF Refused
<1>12. CallerKnows'
  BY DEF CallerKnows, Answered
<1>13. MessagesSound'
  BY DEF MessagesSound, Sound, Answered, Expecting
<1>14. LastLeg'
  BY DEF LastLeg, Answered
<1>15. Ringing'
  BY DEF Ringing
<1>16. CalleeSound'
  BY DEF CalleeSound, Hears
<1>17. MuteSessionExplained'
  BY DEF MuteSessionExplained
<1>18. MuteHasLeg'
  BY DEF MuteHasLeg
<1> QED BY <1>7, <1>8, <1>9, <1>10, <1>11, <1>12, <1>13, <1>14, <1>15, <1>16, <1>17, <1>18

LEMMA ReceiveLateResponseInv ==
    ASSUME IInv, NEW m \in Message, ReceiveLateResponse(m)
    PROVE  IInv'
<1> USE MsgFields, TwoPhones DEF IInv
<1>1. m.kind \in {"180", "200", "486", "487"} /\ ~Expecting /\ last' = m.kind /\ txn # "none"
  BY TakeFacts DEF ReceiveLateResponse, NotCalled
<1>2. \A x \in net' : x \in net \/ x = Msg("ACKerror", Callee, ack)
  BY TakeFacts DEF ReceiveLateResponse
<1>3. net' \subseteq Message
  <2>1. CASE txn = "COMPLETED" /\ m.kind \in {"486", "487"}
    <3>1. ack \in 0 .. MaxLegs
      BY <2>1 DEF Refused
    <3> QED BY <1>2, <3>1, MsgType DEF Kinds, Requests, TypeOK
  <2>2. CASE ~(txn = "COMPLETED" /\ m.kind \in {"486", "487"})
    <3>1. ({"COMPLETED"} \cap IF m.kind \in {"486", "487"} THEN {txn} ELSE {}) = {}
      BY <2>2
    <3>2. \A x \in net' : x \in net
      BY <3>1, TakeFacts DEF ReceiveLateResponse
    <3> QED BY <3>2 DEF TypeOK
  <2> QED BY <2>1, <2>2
<1>4. UNCHANGED <<txn, ack, closed, cancel, app, ist, answer, leg, cancelIn, rings,
                  mediaDest, dialog, dialogs, media, socket, bye, byeIn, up>>
  BY DEF ReceiveLateResponse, calleeVars, dialogVars, mediaVars, byeVars
<1> USE <1>1, <1>2, <1>3, <1>4
<1>5. TypeOK'
  BY DEF TypeOK
<1>6. NotCalled'
  BY DEF NotCalled
<1>7. Waiting'
  BY DEF Waiting, Expecting, WaitingApp
<1>8. Unrefused'
  BY DEF Unrefused
<1>9. Refused'
  BY DEF Refused
<1>10. CallerKnows'
  BY DEF CallerKnows, Answered
<1>11. MessagesSound'
  BY DEF MessagesSound, Sound, Answered, Expecting
<1>12. LastLeg'
  BY DEF LastLeg, Answered
<1>13. Ringing'
  BY DEF Ringing
<1>14. CalleeSound'
  BY DEF CalleeSound, Hears
<1>15. MuteSessionExplained'
  BY DEF MuteSessionExplained
<1>16. MuteHasLeg'
  BY DEF MuteHasLeg
<1> QED BY <1>5, <1>6, <1>7, <1>8, <1>9, <1>10, <1>11, <1>12, <1>13, <1>14, <1>15, <1>16

LEMMA CancelAnsweredInv ==
    ASSUME IInv, CancelAnswered
    PROVE  IInv'
<1> USE MsgFields, TwoPhones DEF IInv
<1>1. cancel' \in RequestState
  BY DEF CancelAnswered, TypeOK, RequestState
<1>2. \A x \in net' : x \in net
  BY TakeFacts DEF CancelAnswered
<1>3. txn # "none"
  BY TakeFacts DEF CancelAnswered, NotCalled
<1>4. UNCHANGED <<txn, last, ack, closed, app, ist, answer, leg, cancelIn, rings,
                  mediaDest, dialog, dialogs, media, socket, bye, byeIn, up>>
  BY DEF CancelAnswered, calleeVars, dialogVars, mediaVars, byeVars
<1> USE <1>1, <1>2, <1>3, <1>4
<1>5. TypeOK'
  BY DEF TypeOK
<1>6. NotCalled'
  BY DEF NotCalled
<1>7. Waiting'
  BY DEF Waiting, Expecting, WaitingApp
<1>8. Unrefused'
  BY DEF Unrefused
<1>9. Refused'
  BY DEF Refused
<1>10. CallerKnows'
  BY DEF CallerKnows, Answered
<1>11. MessagesSound'
  BY DEF MessagesSound, Sound, Answered, Expecting
<1>12. LastLeg'
  BY DEF LastLeg, Answered
<1>13. Ringing'
  BY DEF Ringing
<1>14. CalleeSound'
  BY DEF CalleeSound, Hears
<1>15. MuteSessionExplained'
  BY DEF MuteSessionExplained
<1>16. MuteHasLeg'
  BY DEF MuteHasLeg
<1> QED BY <1>5, <1>6, <1>7, <1>8, <1>9, <1>10, <1>11, <1>12, <1>13, <1>14, <1>15, <1>16

LEMMA CancelFailsInv ==
    ASSUME IInv, CancelFails
    PROVE  IInv'
<1> USE MsgFields, TwoPhones DEF IInv
<1>1. cancel' = "failed" /\ cancel = "trying"
  BY DEF CancelFails
<1>2. UNCHANGED <<txn, last, ack, closed, app, ist, answer, leg, cancelIn, rings,
                  mediaDest, dialog, dialogs, media, socket, bye, byeIn, up, net>>
  BY DEF CancelFails, calleeVars, dialogVars, mediaVars, byeVars
<1> USE <1>1, <1>2
<1>3. TypeOK'
  BY DEF TypeOK, RequestState
<1>4. NotCalled'
  BY DEF NotCalled
<1>5. Waiting'
  BY DEF Waiting, Expecting, WaitingApp
<1>6. Unrefused'
  BY DEF Unrefused
<1>7. Refused'
  BY DEF Refused
<1>8. CallerKnows'
  BY DEF CallerKnows, Answered
<1>9. MessagesSound'
  BY DEF MessagesSound, Sound, Answered, Expecting
<1>10. LastLeg'
  BY DEF LastLeg, Answered
<1>11. Ringing'
  BY DEF Ringing
<1>12. CalleeSound'
  BY DEF CalleeSound, Hears
<1>13. MuteSessionExplained'
  BY DEF MuteSessionExplained
<1>14. MuteHasLeg'
  BY DEF MuteHasLeg
<1> QED BY <1>3, <1>4, <1>5, <1>6, <1>7, <1>8, <1>9, <1>10, <1>11, <1>12, <1>13, <1>14

LEMMA ReceiveInviteInv ==
    ASSUME IInv, ReceiveInvite
    PROVE  IInv'
<1> USE MsgFields, TwoPhones DEF IInv
<1>a. CASE ist # "none"
  <2>1. PICK S : Take(Msg("INVITE", Callee, 0), S) /\ S \subseteq (IF ist = "COMPLETED" THEN {answer} ELSE {})
    BY <1>a DEF ReceiveInvite
  <2>2. \A x \in S : x \in Message /\ Sound(x)
    BY <2>1 DEF LastLeg, Sound, TypeOK
  <2>3. \A x \in net' : x \in net \/ x \in S
    BY <2>1, TakeFacts
  <2>4. UNCHANGED <<callerVars, calleeVars, dialogVars, mediaVars, byeVars, up>>
    BY <1>a DEF ReceiveInvite
  <2>5. txn # "none"
    BY <2>1, TakeFacts DEF NotCalled
  <2> QED BY <2>2, <2>3, <2>4, <2>5, NetOnlyInv
<1>b. SUFFICES ASSUME ist = "none"
               PROVE  IInv'
  BY <1>a
<1>1. txn # "none" /\ leg + 1 \in Legs /\ leg \in Nat
  BY <1>b, TakeFacts, LegFacts DEF ReceiveInvite, NotCalled, TypeOK
<1>2. /\ leg' = leg + 1 /\ ist' = "PROCEEDING" /\ answer' = Msg("180", Caller, leg + 1)
      /\ rings' = [rings EXCEPT ![leg + 1] = "ringing"]
      /\ dialogs' = [dialogs EXCEPT ![Callee] = @ \cup {leg + 1}]
      /\ Put(Callee, leg + 1, "EARLY")
  BY <1>b DEF ReceiveInvite
<1>3. /\ \A k \in Legs : rings'[k] = IF k = leg + 1 THEN "ringing" ELSE rings[k]
      /\ dialogs'[Caller] = dialogs[Caller] /\ dialogs'[Callee] = dialogs[Callee] \cup {leg + 1}
      /\ \A p \in Phones : dialogs[p] \subseteq Legs
  BY <1>1, <1>2 DEF TypeOK
<1>4. /\ dialog' \in [Phones -> [Legs -> DialogState]]
      /\ dialog'[Callee][leg + 1] = "EARLY"
      /\ \A q \in Phones, k \in Legs : q # Callee \/ k # leg + 1 => dialog'[q][k] = dialog[q][k]
  <2>1. "EARLY" \in DialogState /\ TypeOK
    BY StatesAfter
  <2> HIDE DEF IInv
  <2> DEFINE n == leg + 1
  <2>2. n \in Legs /\ Put(Callee, n, "EARLY")
    BY <1>1, <1>2
  <2> HIDE DEF n
  <2>3. /\ dialog' \in [Phones -> [Legs -> DialogState]]
        /\ dialog'[Callee][n] = "EARLY"
        /\ \A q \in Phones, k \in Legs : q # Callee \/ k # n => dialog'[q][k] = dialog[q][k]
    <3>1. dialog \in [Phones -> [Legs -> DialogState]] /\ Callee \in Phones
      BY <2>1 DEF TypeOK
    <3>2. dialog' = [dialog EXCEPT ![Callee][n] = "EARLY"]
      BY <2>2 DEF Put
    <3> QED BY <2>1, <2>2, <3>1, <3>2
  <2> USE DEF n
  <2> QED BY <2>3
<1>5. \A x \in net' : x \in net \/ x = Msg("180", Caller, leg + 1)
  BY <1>b, TakeFacts DEF ReceiveInvite
<1>6. /\ rings[leg + 1] = "none"
      /\ \A k \in Legs : Answered(k)' <=> Answered(k)
  BY <1>1, <1>3 DEF LastLeg, Answered
<1>7. Msg("180", Caller, leg + 1) \in Message
  BY <1>1, MsgType, LegFacts DEF Kinds, Responses
<1>8. UNCHANGED <<txn, last, ack, closed, cancel, app, cancelIn, mediaDest, media,
                  socket, bye, byeIn, up>>
  BY <1>b DEF ReceiveInvite, callerVars, mediaVars, byeVars
<1> USE <1>1, <1>2, <1>3, <1>4, <1>5, <1>6, <1>7, <1>8
<1>9. TypeOK'
  <2>1. leg + 1 \in 0 .. MaxLegs
    BY <1>1, LegFacts
  <2>2. leg' \in 0 .. MaxLegs /\ answer' \in Message /\ net' \subseteq Message
    BY <2>1 DEF TypeOK
  <2>3. dialogs' \in [Phones -> SUBSET Legs] /\ rings' \in [Legs -> {"none", "ringing", "refused", "accepted", "hungUp", "over"}]
    BY DEF TypeOK
  <2> QED BY <2>2, <2>3 DEF TypeOK, IstState
<1>10. NotCalled'
  BY DEF NotCalled
<1>11. Waiting'
  BY DEF Waiting, Expecting, WaitingApp
<1>12. Unrefused'
  BY DEF Unrefused
<1>13. Refused'
  BY DEF Refused
<1>14. CallerKnows'
  BY DEF CallerKnows
<1>15. MessagesSound'
  BY DEF MessagesSound, Sound, Expecting
<1>16. LastLeg'
  <2>1. \A k \in Legs : k > leg + 1 => k > leg /\ k # leg + 1
    BY <1>1, LegFacts
  <2>2. \A k \in Legs : ~Answered(k)
    BY <1>b DEF LastLeg
  <2>3. ~mediaDest /\ \A k \in Legs : bye[Callee][k] = "none"
    BY <1>b DEF LastLeg
  <2>4. \A k \in Legs : k > leg' => rings'[k] = "none"
    BY <2>1 DEF LastLeg
  <2>5. \A k \in Legs : ~Answered(k)'
    BY <2>2
  <2> QED BY <2>3, <2>4, <2>5 DEF LastLeg
<1>17. Ringing'
  <2>1. \A k \in Legs : rings[k] # "ringing"
    BY <1>b DEF Ringing
  <2> QED BY <2>1 DEF Ringing
<1>18. CalleeSound'
  BY DEF CalleeSound, Hears
<1>19. MuteSessionExplained'
  BY DEF MuteSessionExplained
<1>20. MuteHasLeg'
  BY DEF MuteHasLeg
<1> QED BY <1>9, <1>10, <1>11, <1>12, <1>13, <1>14, <1>15, <1>16, <1>17, <1>18, <1>19, <1>20

LEMMA AcceptInv ==
    ASSUME IInv, NEW l \in Legs, Accept(l)
    PROVE  IInv'
<1> USE MsgFields, TwoPhones DEF IInv
<1>1. /\ rings[l] = "ringing" /\ rings' = [rings EXCEPT ![l] = "accepted"]
      /\ mediaDest' = TRUE /\ ist' = "TERMINATED"
      /\ answer' = Msg("200", Caller, l)
  BY DEF Accept
<1>2. ist = "PROCEEDING" /\ l = leg /\ txn # "none"
  BY <1>1 DEF Ringing, NotCalled
<1>3. /\ \A k \in Legs : rings'[k] = IF k = l THEN "accepted" ELSE rings[k]
      /\ \A p \in Phones : dialogs[p] \subseteq Legs
  BY <1>1 DEF TypeOK
<1>4. socket' \in [Phones -> BOOLEAN] /\ socket'[Callee] /\ socket'[Caller] = socket[Caller]
  BY DEF Accept, TypeOK
<1>5. /\ dialog' \in [Phones -> [Legs -> DialogState]]
      /\ \A q \in Phones, k \in Legs : q # Callee \/ k # l => dialog'[q][k] = dialog[q][k]
  <2>1. DialogAfter(dialog[Callee][l], "2xx") \in DialogState
    BY StatesAfter
  <2>2. Put(Callee, l, DialogAfter(dialog[Callee][l], "2xx"))
    BY DEF Accept
  <2>3. TypeOK /\ Callee \in Phones
    OBVIOUS
  <2>4. /\ dialog' \in [Phones -> [Legs -> DialogState]]
        /\ \A q \in Phones, k \in Legs :
              q # Callee \/ k # l => dialog'[q][k] = dialog[q][k]
    <3> HIDE MsgFields, TwoPhones DEF IInv
    <3> QED BY <2>1, <2>2, <2>3, PutFacts
  <2> QED BY <2>4
<1>6. \A x \in net' : x \in net \/ x = Msg("200", Caller, l)
  BY SendFacts DEF Accept
<1>7. Msg("200", Caller, l) \in Message
  BY MsgType, LegFacts DEF Kinds, Responses
<1>8. UNCHANGED <<txn, last, ack, closed, cancel, app, leg, cancelIn, dialogs, media,
                  bye, byeIn, up>>
  BY DEF Accept, callerVars, byeVars
<1> USE <1>1, <1>2, <1>3, <1>4, <1>5, <1>6, <1>7, <1>8
<1>9. TypeOK'
  BY DEF TypeOK, IstState
<1>10. NotCalled'
  BY DEF NotCalled
<1>11. Waiting'
  BY DEF Waiting, Expecting, WaitingApp
<1>12. Unrefused'
  BY DEF Unrefused
<1>13. Refused'
  BY DEF Refused
<1>14. CallerKnows'
  BY DEF CallerKnows, Answered
<1>15. MessagesSound'
  BY DEF MessagesSound, Sound, Answered, Expecting
<1>16. LastLeg'
  BY DEF LastLeg, Answered
<1>17. Ringing'
  BY DEF Ringing
<1>18. CalleeSound'
  <2>1. \A k \in Legs : rings[k] \notin {"accepted", "hungUp"}
    BY <1>2 DEF LastLeg, Answered
  <2>2. \A k \in Legs : ~Hears(Callee, k)
    BY <2>1 DEF CalleeSound
  <2>3. \A k \in Legs : ~Hears(Callee, k)'
    BY <2>2 DEF Hears
  <2> QED BY <2>1, <2>3 DEF CalleeSound
<1>19. MuteSessionExplained'
  BY DEF MuteSessionExplained
<1>20. MuteHasLeg'
  BY DEF MuteHasLeg
<1> QED BY <1>9, <1>10, <1>11, <1>12, <1>13, <1>14, <1>15, <1>16, <1>17, <1>18, <1>19, <1>20

LEMMA RejectInv ==
    ASSUME IInv, NEW l \in Legs, Reject(l)
    PROVE  IInv'
<1> USE MsgFields, TwoPhones DEF IInv
<1>1. /\ rings[l] = "ringing" /\ rings' = [rings EXCEPT ![l] = "refused"] /\ ist' = "COMPLETED"
  BY DEF Reject
<1>2. ist = "PROCEEDING" /\ l = leg /\ txn # "none"
  BY <1>1 DEF Ringing, NotCalled
<1>3. PICK d \in dialogs[Callee] :
         /\ answer' = Msg("486", Caller, d)
         /\ \/ /\ Put(Callee, d, DialogAfter(dialog[Callee][d], "3xx"))
               /\ socket' = [socket EXCEPT ![Callee] = FALSE]
            \/ UNCHANGED <<dialog, socket>>
  BY DEF Reject
<1>4. d \in Legs /\ Msg("486", Caller, d) \in Message
  <2>1. d \in Legs
    BY <1>3 DEF TypeOK
  <2> QED BY <2>1, MsgType, LegFacts DEF Kinds, Responses
<1>5. /\ \A k \in Legs : rings'[k] = IF k = l THEN "refused" ELSE rings[k]
      /\ \A p \in Phones : dialogs[p] \subseteq Legs
  BY <1>1 DEF TypeOK
<1>6. socket' \in [Phones -> BOOLEAN] /\ socket'[Caller] = socket[Caller]
  BY <1>3 DEF TypeOK
<1>7. /\ dialog' \in [Phones -> [Legs -> DialogState]]
      /\ \A k \in Legs : dialog'[Caller][k] = dialog[Caller][k]
  <2>1. DialogAfter(dialog[Callee][d], "3xx") \in DialogState
    BY StatesAfter
  <2>2. CASE Put(Callee, d, DialogAfter(dialog[Callee][d], "3xx"))
    <3>1. TypeOK
      OBVIOUS
    <3> HIDE DEF IInv
    <3>2. PICK s \in DialogState : Put(Callee, d, s)
      BY <2>1, <2>2
    <3>3. /\ dialog' \in [Phones -> [Legs -> DialogState]]
          /\ \A q \in Phones, k \in Legs :
                q # Callee \/ k # d => dialog'[q][k] = dialog[q][k]
      <4>1. dialog \in [Phones -> [Legs -> DialogState]] /\ Callee \in Phones
        BY <3>1 DEF TypeOK
      <4>2. dialog' = [dialog EXCEPT ![Callee][d] = s]
        BY <3>2 DEF Put
      <4> QED BY <1>4, <3>2, <4>1, <4>2
    <3> QED BY <3>3
  <2>3. CASE UNCHANGED dialog
    BY <2>3 DEF TypeOK
  <2> QED BY <1>3, <2>2, <2>3
<1>8. \A x \in net' : x \in net \/ x = Msg("486", Caller, d)
  BY <1>3, SendFacts DEF Reject
<1>9. UNCHANGED <<txn, last, ack, closed, cancel, app, leg, cancelIn, mediaDest,
                  dialogs, media, bye, byeIn, up>>
  BY DEF Reject, callerVars, byeVars
<1> USE <1>1, <1>2, <1>3, <1>4, <1>5, <1>6, <1>7, <1>8, <1>9
<1>10. TypeOK'
  BY DEF TypeOK, IstState
<1>11. NotCalled'
  BY DEF NotCalled
<1>12. Waiting'
  BY DEF Waiting, Expecting, WaitingApp
<1>13. Unrefused'
  BY DEF Unrefused
<1>14. Refused'
  BY DEF Refused
<1>15. CallerKnows'
  BY DEF CallerKnows, Answered
<1>16. MessagesSound'
  BY DEF MessagesSound, Sound, Answered, Expecting
<1>17. LastLeg'
  BY DEF LastLeg, Answered
<1>18. Ringing'
  BY DEF Ringing
<1>19. CalleeSound'
  <2>1. \A k \in Legs : rings[k] \notin {"accepted", "hungUp"}
    BY <1>2 DEF LastLeg, Answered
  <2>2. \A k \in Legs : ~Hears(Callee, k)
    BY <2>1 DEF CalleeSound
  <2>3. \A k \in Legs : ~Hears(Callee, k)'
    BY <2>2 DEF Hears
  <2> QED BY <2>1, <2>3 DEF CalleeSound
<1>20. MuteSessionExplained'
  BY DEF MuteSessionExplained
<1>21. MuteHasLeg'
  BY DEF MuteHasLeg
<1> QED BY <1>10, <1>11, <1>12, <1>13, <1>14, <1>15, <1>16, <1>17, <1>18, <1>19, <1>20, <1>21

LEMMA HangUpCalleeInv ==
    ASSUME IInv, NEW l \in Legs, HangUpCallee(l)
    PROVE  IInv'
<1> USE MsgFields, TwoPhones DEF IInv
<1>1. rings[l] = "accepted" /\ rings' = [rings EXCEPT ![l] = "hungUp"]
  BY DEF HangUpCallee
<1>2. ist = "TERMINATED" /\ l = leg /\ txn # "none"
  BY <1>1 DEF LastLeg, Answered, NotCalled
<1>3. PICK d \in dialogs[Callee] :
         bye' = [bye EXCEPT ![Callee][d] = "trying"] /\ Send({Msg("BYE", Caller, d)})
  BY DEF HangUpCallee
<1>4. d \in Legs /\ Msg("BYE", Caller, d) \in Message
  <2>1. d \in Legs
    BY <1>3 DEF TypeOK
  <2> QED BY <2>1, MsgType, LegFacts DEF Kinds, Requests
<1>5. /\ \A k \in Legs : rings'[k] = IF k = l THEN "hungUp" ELSE rings[k]
      /\ \A p \in Phones : dialogs[p] \subseteq Legs
      /\ bye' \in [Phones -> [Legs -> RequestState]]
      /\ \A k \in Legs : bye'[Caller][k] = bye[Caller][k]
  BY <1>1, <1>3, <1>4 DEF TypeOK, RequestState
<1>6. /\ media' \in [Phones -> Session] /\ socket' \in [Phones -> BOOLEAN]
      /\ media'[Callee] = Off /\ ~socket'[Callee]
      /\ media'[Caller] = media[Caller] /\ socket'[Caller] = socket[Caller]
  BY StopFacts DEF HangUpCallee
<1>7. \A x \in net' : x \in net \/ x = Msg("BYE", Caller, d)
  BY <1>3, SendFacts DEF HangUpCallee
<1>8. UNCHANGED <<txn, last, ack, closed, cancel, app, ist, answer, leg, cancelIn,
                  mediaDest, dialog, dialogs, byeIn, up>>
  BY DEF HangUpCallee, callerVars, dialogVars
<1>9. ~Off.mute /\ \A k \in Legs : Off # [leg |-> k, mute |-> FALSE]
  BY SessionFacts
<1>10. \A k \in Legs : Answered(k)' <=> Answered(k)
  BY <1>1, <1>5 DEF Answered
<1> USE <1>1, <1>2, <1>3, <1>4, <1>5, <1>6, <1>7, <1>8, <1>9, <1>10
<1>11. TypeOK'
  BY DEF TypeOK
<1>12. NotCalled'
  BY DEF NotCalled
<1>13. Waiting'
  BY DEF Waiting, Expecting, WaitingApp
<1>14. Unrefused'
  BY DEF Unrefused
<1>15. Refused'
  BY DEF Refused
<1>16. CallerKnows'
  BY DEF CallerKnows
<1>17. MessagesSound'
  BY DEF MessagesSound, Sound, Expecting
<1>18. LastLeg'
  BY DEF LastLeg
<1>19. Ringing'
  BY DEF Ringing
<1>20. CalleeSound'
  <2>1. \A k \in Legs : ~Hears(Callee, k)'
    BY DEF Hears
  <2>2. \A k \in Legs : Answered(k) => k = l
    BY DEF LastLeg
  <2>3. ASSUME NEW k \in Legs
        PROVE  /\ rings'[k] # "accepted"
               /\ rings'[k] = "over" => k \notin dialogs'[Callee]
    BY <2>2 DEF Answered, CalleeSound
  <2> QED BY <2>1, <2>3 DEF CalleeSound
<1>21. MuteSessionExplained'
  BY DEF MuteSessionExplained
<1>22. MuteHasLeg'
  BY DEF MuteHasLeg
<1> QED BY <1>11, <1>12, <1>13, <1>14, <1>15, <1>16, <1>17, <1>18, <1>19, <1>20, <1>21, <1>22

LEMMA ReceiveAnyCancelInv ==
    ASSUME IInv, ReceiveAnyCancel
    PROVE  IInv'
<1> USE MsgFields, TwoPhones DEF IInv
<1>1. txn # "none" /\ cancelIn' \in BOOLEAN /\ Msg("487", Caller, 0) \in Message
      /\ Msg("200CANCEL", Caller, 0) \in Message
  <2>1. net # {} /\ cancelIn' \in BOOLEAN
    BY TakeFacts DEF ReceiveAnyCancel, ReceiveCancel, TypeOK
  <2>2. "487" \in Kinds /\ "200CANCEL" \in Kinds /\ 0 \in 0 .. MaxLegs
    BY LegFacts DEF Kinds, Responses
  <2> QED BY <2>1, <2>2, MsgType DEF NotCalled
<1>2. UNCHANGED <<txn, last, ack, closed, cancel, app, leg, mediaDest, dialogs, media,
                  socket, bye, byeIn, up>>
  BY DEF ReceiveAnyCancel, callerVars, mediaVars, byeVars
<1>3. \A x \in net' : x \in net \/ x \in {Msg("487", Caller, 0), Msg("200CANCEL", Caller, 0)}
  BY TakeFacts DEF ReceiveAnyCancel, ReceiveCancel
<1>4. PICK l \in Legs : \/ UNCHANGED <<ist, answer, rings, dialog>>
                      \/ /\ ist = "PROCEEDING" /\ ist' = "COMPLETED" /\ l = leg /\ rings[l] = "ringing"
                         /\ answer' = Msg("487", Caller, 0)
                         /\ dialog' = [dialog EXCEPT ![Callee][l] = DialogAfter(dialog[Callee][l], "3xx")]
                         /\ rings' = [rings EXCEPT ![l] = "refused"]
  <2>1. CASE UNCHANGED <<ist, answer, rings, dialog>>
    BY <2>1, LegFacts
  <2>2. CASE ~UNCHANGED <<ist, answer, rings, dialog>>
    <3>1. /\ ist = "PROCEEDING" /\ ist' = "COMPLETED" /\ answer' = Msg("487", Caller, 0)
          /\ Put(Callee, answer.leg, DialogAfter(dialog[Callee][answer.leg], "3xx"))
          /\ rings' = [rings EXCEPT ![answer.leg] = "refused"]
      BY <2>2 DEF ReceiveAnyCancel, ReceiveCancel
    <3>2. answer.leg = leg /\ leg \in Legs /\ rings[leg] = "ringing"
      BY <3>1 DEF LastLeg
    <3> QED BY <3>1, <3>2 DEF Put
  <2> QED BY <2>1, <2>2
<1>5. /\ dialog' \in [Phones -> [Legs -> DialogState]]
      /\ \A k \in Legs : dialog'[Caller][k] = dialog[Caller][k]
      /\ \A k \in Legs : k # l => dialog'[Callee][k] = dialog[Callee][k]
      /\ \A p \in Phones : dialogs[p] \subseteq Legs
  BY <1>4, StatesAfter DEF TypeOK
<1>6. /\ rings' \in [Legs -> {"none", "ringing", "refused", "accepted", "hungUp", "over"}]
      /\ \A k \in Legs : rings'[k] # rings[k] => rings[k] = "ringing" /\ rings'[k] = "refused"
  BY <1>4 DEF TypeOK
<1>7. \A k \in Legs : (Answered(k)' <=> Answered(k)) /\ (Hears(Callee, k)' <=> Hears(Callee, k))
  BY <1>2, <1>6 DEF Answered, Hears
<1> USE <1>1, <1>2, <1>3, <1>4, <1>5, <1>6, <1>7
<1>8. TypeOK'
  BY DEF TypeOK, IstState
<1>9. NotCalled'
  BY DEF NotCalled
<1>10. Waiting'
  BY DEF Waiting, Expecting, WaitingApp
<1>11. Unrefused'
  BY DEF Unrefused
<1>12. Refused'
  BY DEF Refused
<1>13. CallerKnows'
  BY DEF CallerKnows
<1>14. MessagesSound'
  BY DEF MessagesSound, Sound, Expecting
<1>15. LastLeg'
  <2>1. CASE UNCHANGED <<ist, answer, rings, dialog>>
    BY <2>1 DEF LastLeg
  <2>2. CASE ist = "PROCEEDING" /\ ist' = "COMPLETED" /\ answer' = Msg("487", Caller, 0)
    <3>1. \A k \in Legs : ~Answered(k)
      BY <2>2 DEF LastLeg
    <3>2. \A k \in Legs : k > leg => rings'[k] = "none"
      BY DEF LastLeg
    <3> QED BY <2>2, <3>1, <3>2 DEF LastLeg
  <2> QED BY <2>1, <2>2
<1>16. Ringing'
  <2>1. CASE UNCHANGED <<ist, answer, rings, dialog>>
    BY <2>1 DEF Ringing
  <2>2. CASE ist = "PROCEEDING" /\ l = leg /\ rings' = [rings EXCEPT ![l] = "refused"]
    <3>1. \A k \in Legs : rings'[k] # "ringing"
      BY <2>2 DEF Ringing, TypeOK
    <3> QED BY <3>1 DEF Ringing
  <2> QED BY <2>1, <2>2
<1>17. CalleeSound'
  BY DEF CalleeSound
<1>18. MuteSessionExplained'
  <2> SUFFICES ASSUME NEW p \in Phones, media[p].mute
               PROVE  p = Callee /\ rings'[media[p].leg] = "hungUp"
    BY DEF MuteSessionExplained
  <2>1. p = Callee /\ rings[media[p].leg] = "hungUp"
    BY DEF MuteSessionExplained
  <2>2. CASE media[p].leg \in Legs
    BY <2>1, <2>2
  <2> QED BY <2>1, <2>2 DEF MuteHasLeg
<1>19. MuteHasLeg'
  BY DEF MuteHasLeg
<1> QED BY <1>8, <1>9, <1>10, <1>11, <1>12, <1>13, <1>14, <1>15, <1>16, <1>17, <1>18, <1>19

LEMMA AnswerEndsInv ==
    ASSUME IInv, AnswerEnds
    PROVE  IInv'
<1> USE MsgFields, TwoPhones DEF IInv
<1>1. \/ ist = "COMPLETED" /\ ist' = "TERMINATED"
      \/ ist = "CONFIRMED" /\ ist' = "none"
  BY DEF AnswerEnds
<1>2. UNCHANGED <<txn, last, ack, closed, cancel, app, answer, leg, cancelIn, rings,
                  mediaDest, dialog, dialogs, media, socket, bye, byeIn, up, net>>
  BY DEF AnswerEnds, callerVars, dialogVars, mediaVars, byeVars
<1> USE <1>1, <1>2
<1>3. TypeOK'
  BY DEF TypeOK, IstState
<1>4. NotCalled'
  BY DEF NotCalled
<1>5. Waiting'
  BY DEF Waiting, Expecting, WaitingApp
<1>6. Unrefused'
  BY DEF Unrefused
<1>7. Refused'
  BY DEF Refused
<1>8. CallerKnows'
  BY DEF CallerKnows, Answered
<1>9. MessagesSound'
  BY DEF MessagesSound, Sound, Answered, Expecting
<1>10. LastLeg'
  BY DEF LastLeg, Answered
<1>11. Ringing'
  BY DEF Ringing
<1>12. CalleeSound'
  BY DEF CalleeSound, Hears
<1>13. MuteSessionExplained'
  BY DEF MuteSessionExplained
<1>14. MuteHasLeg'
  BY DEF MuteHasLeg
<1> QED BY <1>3, <1>4, <1>5, <1>6, <1>7, <1>8, <1>9, <1>10, <1>11, <1>12, <1>13, <1>14

(* The callee's sound starts, or its receiver ends, when an ACK comes for a*)
(* dialog it knows.                                                        *)
LEMMA AckInv ==
    ASSUME IInv, NEW l \in Legs, Answered(l), l \in dialogs[Callee],
           app \in {"talking", "hungUp", "over"}, txn # "none", mediaDest, StartSession(Callee, l),
           UNCHANGED <<callerVars, calleeVars, dialogVars, byeVars, up>>,
           \A x \in net' : x \in net
    PROVE  IInv'
<1> USE MsgFields, TwoPhones DEF IInv
<1>1. UNCHANGED <<txn, last, ack, closed, cancel, app, ist, answer, leg, cancelIn, rings,
                  mediaDest, dialog, dialogs, bye, byeIn, up>>
  BY DEF callerVars, calleeVars, dialogVars, byeVars
<1>2. /\ media' \in [Phones -> Session] /\ socket' = socket
      /\ media'[Callee] = [leg |-> l, mute |-> ~socket[Callee]]
      /\ media'[Callee].leg = l /\ media'[Callee].mute = ~socket[Callee]
      /\ media'[Caller] = media[Caller]
  BY StartFacts
<1>3. /\ rings[l] \in {"accepted", "hungUp"}
      /\ rings[l] = "accepted" <=> socket[Callee]
  BY DEF Answered, CalleeSound
<1>4. \A k \in Legs : Hears(Callee, k)' => k = l /\ socket[Callee]
  <2> SUFFICES ASSUME NEW k \in Legs, Hears(Callee, k)' PROVE k = l /\ socket[Callee]
    OBVIOUS
  <2>1. media'[Callee] = [leg |-> k, mute |-> FALSE]
    BY DEF Hears
  <2>2. media'[Callee].leg = k /\ media'[Callee].mute = FALSE
    BY <2>1
  <2> QED BY <1>2, <2>2
<1> USE <1>1, <1>2, <1>3, <1>4
<1>5. TypeOK'
  BY DEF TypeOK
<1>6. NotCalled'
  BY DEF NotCalled
<1>7. Waiting'
  BY DEF Waiting, Expecting, WaitingApp
<1>8. Unrefused'
  BY DEF Unrefused
<1>9. Refused'
  BY DEF Refused
<1>10. CallerKnows'
  BY DEF CallerKnows, Answered
<1>11. MessagesSound'
  BY DEF MessagesSound, Sound, Answered, Expecting
<1>12. LastLeg'
  BY DEF LastLeg, Answered
<1>13. Ringing'
  BY DEF Ringing
<1>14. CalleeSound'
  BY DEF CalleeSound
<1>15. MuteSessionExplained'
  BY DEF MuteSessionExplained
<1>16. MuteHasLeg'
  BY DEF MuteHasLeg
<1> QED BY <1>5, <1>6, <1>7, <1>8, <1>9, <1>10, <1>11, <1>12, <1>13, <1>14, <1>15, <1>16

LEMMA ReceiveAckInv ==
    ASSUME IInv, NEW l \in Legs, ReceiveAck(l)
    PROVE  IInv'
<1> USE MsgFields, TwoPhones DEF IInv
<1>1. /\ Msg("ACK", Callee, l) \in net
      /\ \A x \in net' : x \in net
  BY TakeFacts DEF ReceiveAck
<1>2. txn # "none" /\ Answered(l) /\ app \in {"talking", "hungUp", "over"}
  BY <1>1 DEF MessagesSound, Sound, Answered, NotCalled
<1>3. UNCHANGED <<callerVars, calleeVars, dialogVars, byeVars>>
  BY DEF ReceiveAck
<1>4. CASE l \in dialogs[Callee] /\ mediaDest
  <2>1. StartSession(Callee, l) /\ UNCHANGED up
    BY <1>4 DEF ReceiveAck, HandleAck
  <2> QED BY <1>1, <1>2, <1>3, <1>4, <2>1, AckInv
<1>5. CASE ~(l \in dialogs[Callee] /\ mediaDest)
  <2>1. UNCHANGED mediaVars
    BY <1>5 DEF ReceiveAck, HandleAck
  <2>2. UNCHANGED up \/ up' \in [Phones -> BOOLEAN]
    BY <1>5 DEF ReceiveAck, HandleAck, TypeOK
  <2> QED BY <1>1, <1>2, <1>3, <2>1, <2>2, NothingSentInv
<1> QED BY <1>4, <1>5

LEMMA ReceiveAckOfRefusalInv ==
    ASSUME IInv, NEW l \in 0 .. MaxLegs, ReceiveAckOfRefusal(l)
    PROVE  IInv'
<1> USE MsgFields, TwoPhones DEF IInv
<1>1. \A x \in net' : x \in net
  BY TakeFacts DEF ReceiveAckOfRefusal
<1>2. UNCHANGED <<callerVars, answer, leg, cancelIn, rings, mediaDest, dialogVars,
                  byeVars>>
  BY DEF ReceiveAckOfRefusal
<1>3. UNCHANGED mediaVars /\ (UNCHANGED up \/ up' \in [Phones -> BOOLEAN])
  <2>1. ist = "none" => ~mediaDest
    BY DEF LastLeg
  <2> QED BY <2>1 DEF ReceiveAckOfRefusal, HandleAck, TypeOK
<1>4. CASE UNCHANGED ist
  BY <1>1, <1>2, <1>3, <1>4, NothingSentInv DEF calleeVars
<1>5. CASE ~UNCHANGED ist
  <2>1. ist = "COMPLETED" /\ ist' = "CONFIRMED"
    BY <1>5 DEF ReceiveAckOfRefusal
  <2>2. UNCHANGED <<txn, last, ack, closed, cancel, app, answer, leg, cancelIn, rings,
                    mediaDest, dialog, dialogs, media, socket, bye, byeIn>>
    BY <1>2, <1>3 DEF callerVars, dialogVars, mediaVars, byeVars
  <2> USE <2>1, <2>2
  <2>3. TypeOK'
    BY <1>1, <1>3 DEF TypeOK, IstState
  <2>4. NotCalled'
    BY <1>1 DEF NotCalled
  <2>5. Waiting'
    BY DEF Waiting, Expecting, WaitingApp
  <2>6. Unrefused'
    BY DEF Unrefused
  <2>7. Refused'
    BY DEF Refused
  <2>8. CallerKnows'
    BY DEF CallerKnows, Answered
  <2>9. MessagesSound'
    BY <1>1 DEF MessagesSound, Sound, Answered, Expecting
  <2>10. LastLeg'
    BY DEF LastLeg, Answered
  <2>11. Ringing'
    BY DEF Ringing
  <2>12. CalleeSound'
    BY DEF CalleeSound, Hears
  <2>13. MuteSessionExplained'
    BY DEF MuteSessionExplained
  <2>14. MuteHasLeg'
    BY DEF MuteHasLeg
  <2> QED BY <2>3, <2>4, <2>5, <2>6, <2>7, <2>8, <2>9, <2>10, <2>11, <2>12, <2>13, <2>14
<1> QED BY <1>4, <1>5

LEMMA ByeFailsInv ==
    ASSUME IInv, NEW p \in Phones, NEW l \in Legs, ByeFails(p, l)
    PROVE  IInv'
<1> USE MsgFields, TwoPhones DEF IInv
<1>1. bye' = [bye EXCEPT ![p][l] = "failed"] /\ bye[p][l] = "trying"
  BY DEF ByeFails
<1>2. /\ bye' \in [Phones -> [Legs -> RequestState]]
      /\ \A q \in Phones, k \in Legs : bye'[q][k] = "none" <=> bye[q][k] = "none"
  BY <1>1 DEF TypeOK, RequestState
<1>3. UNCHANGED <<txn, last, ack, closed, cancel, app, ist, answer, leg, cancelIn,
                  rings, mediaDest, dialog, dialogs, media, socket, byeIn, up, net>>
  BY DEF ByeFails, callerVars, calleeVars, dialogVars, mediaVars
<1> USE <1>1, <1>2, <1>3
<1>4. TypeOK'
  BY DEF TypeOK
<1>5. NotCalled'
  BY DEF NotCalled
<1>6. Waiting'
  BY DEF Waiting, Expecting, WaitingApp
<1>7. Unrefused'
  BY DEF Unrefused
<1>8. Refused'
  BY DEF Refused
<1>9. CallerKnows'
  BY DEF CallerKnows, Answered
<1>10. MessagesSound'
  BY DEF MessagesSound, Sound, Answered, Expecting
<1>11. LastLeg'
  BY DEF LastLeg, Answered
<1>12. Ringing'
  BY DEF Ringing
<1>13. CalleeSound'
  BY DEF CalleeSound, Hears
<1>14. MuteSessionExplained'
  BY DEF MuteSessionExplained
<1>15. MuteHasLeg'
  BY DEF MuteHasLeg
<1> QED BY <1>4, <1>5, <1>6, <1>7, <1>8, <1>9, <1>10, <1>11, <1>12, <1>13, <1>14, <1>15

LEMMA ByeAnsweredInv ==
    ASSUME IInv, NEW p \in Phones, NEW l \in Legs, ByeAnswered(p, l)
    PROVE  IInv'
<1> USE MsgFields, TwoPhones DEF IInv
<1>1. /\ bye' \in [Phones -> [Legs -> RequestState]]
      /\ \A q \in Phones, k \in Legs : bye'[q][k] = "none" <=> bye[q][k] = "none"
  BY DEF ByeAnswered, TypeOK, RequestState
<1>2. bye[p][l] # "none" \/ UNCHANGED <<dialog, dialogs>>
  BY DEF ByeAnswered, dialogVars
<1>3. /\ dialogs' \in [Phones -> SUBSET Legs]
      /\ dialogs'[p] \subseteq dialogs[p]
      /\ \A q \in Phones \ {p} : dialogs'[q] = dialogs[q]
      /\ dialog' \in [Phones -> [Legs -> DialogState]]
      /\ \A q \in Phones : \A k \in dialogs'[q] : dialog'[q][k] = dialog[q][k]
  <2>1. CASE UNCHANGED <<dialog, dialogs>>
    BY <2>1 DEF TypeOK
  <2>2. CASE Put(p, l, "TERMINATED") /\ dialogs' = [dialogs EXCEPT ![p] = @ \ {l}]
    <3>1. dialog \in [Phones -> [Legs -> DialogState]] /\ dialogs \in [Phones -> SUBSET Legs]
      BY DEF TypeOK
    <3>2. dialog' = [dialog EXCEPT ![p][l] = "TERMINATED"]
      BY <2>2 DEF Put
    <3> QED BY <2>2, <3>1, <3>2, StatesAfter
  <2> QED BY <2>1, <2>2 DEF ByeAnswered, dialogVars
<1>4. \A x \in net' : x \in net
  BY TakeFacts DEF ByeAnswered
<1>5. txn # "none" \/ UNCHANGED <<dialog, dialogs>>
  BY <1>2 DEF NotCalled
<1>6. UNCHANGED <<txn, last, ack, closed, cancel, app, ist, answer, leg, cancelIn,
                  rings, mediaDest, media, socket, byeIn, up>>
  BY DEF ByeAnswered, callerVars, calleeVars, mediaVars
<1> USE <1>1, <1>2, <1>3, <1>4, <1>5, <1>6
<1>7. TypeOK'
  BY DEF TypeOK
<1>8. NotCalled'
  BY DEF NotCalled
<1>9. Waiting'
  BY DEF Waiting, Expecting, WaitingApp
<1>10. Unrefused'
  BY DEF Unrefused
<1>11. Refused'
  BY DEF Refused
<1>12. CallerKnows'
  BY DEF CallerKnows, Answered
<1>13. MessagesSound'
  BY DEF MessagesSound, Sound, Answered, Expecting
<1>14. LastLeg'
  BY DEF LastLeg, Answered
<1>15. Ringing'
  BY DEF Ringing, LastLeg
<1>16. CalleeSound'
  BY DEF CalleeSound, Hears
<1>17. MuteSessionExplained'
  BY DEF MuteSessionExplained
<1>18. MuteHasLeg'
  BY DEF MuteHasLeg
<1> QED BY <1>7, <1>8, <1>9, <1>10, <1>11, <1>12, <1>13, <1>14, <1>15, <1>16, <1>17, <1>18

(* A phone whose dialog is not early is told that the peer has hung up.    *)
LEMMA HandleByeInv ==
    ASSUME IInv, NEW p \in Phones, NEW l \in Legs, HandleBye(p, l), l \in dialogs[p],
           dialog[p][l] # "EARLY", txn # "none", p = Callee => Answered(l),
           UNCHANGED <<txn, last, ack, closed, cancel, ist, answer, leg, cancelIn,
                       mediaDest, bye, up>>,
           \A x \in net' : x \in net
    PROVE  IInv'
<1> USE MsgFields, TwoPhones DEF IInv
<1>1. /\ dialogs' \in [Phones -> SUBSET Legs]
      /\ dialogs'[p] = dialogs[p] \ {l}
      /\ \A q \in Phones \ {p} : dialogs'[q] = dialogs[q]
      /\ dialog' \in [Phones -> [Legs -> DialogState]]
      /\ \A q \in Phones : \A k \in dialogs'[q] : dialog'[q][k] = dialog[q][k]
      /\ byeIn' \in [Phones -> SUBSET Legs]
  <2>1. dialog \in [Phones -> [Legs -> DialogState]] /\ dialogs \in [Phones -> SUBSET Legs]
        /\ byeIn \in [Phones -> SUBSET Legs]
    BY DEF TypeOK
  <2>2. /\ dialog' = [dialog EXCEPT ![p][l] = "TERMINATED"]
        /\ dialogs' = [dialogs EXCEPT ![p] = @ \ {l}]
        /\ byeIn' = [byeIn EXCEPT ![p] = @ \cup {l}]
    BY DEF HandleBye, Put
  <2> QED BY <2>1, <2>2, StatesAfter
<1>2. /\ media' \in [Phones -> Session] /\ socket' \in [Phones -> BOOLEAN]
      /\ media'[p] = Off /\ ~socket'[p]
      /\ \A q \in Phones \ {p} : media'[q] = media[q] /\ socket'[q] = socket[q]
  BY StopFacts DEF HandleBye
<1>3. \/ p = Caller /\ app' = "over" /\ rings' = rings
      \/ p = Callee /\ app' = app /\ rings' = [rings EXCEPT ![l] = "over"]
  BY DEF HandleBye, Told
<1>4. /\ rings' \in [Legs -> {"none", "ringing", "refused", "accepted", "hungUp", "over"}]
      /\ \A k \in Legs : rings'[k] # rings[k] => p = Callee /\ k = l /\ rings'[k] = "over"
  BY <1>3 DEF TypeOK
<1>5. p = Callee => rings'[l] = "over" /\ ist = "TERMINATED" /\ \A k \in Legs : Answered(k) => k = l
  BY <1>3 DEF LastLeg, TypeOK
<1>6. \A k \in Legs : Answered(k)' <=> Answered(k)
  BY <1>4 DEF Answered
<1>7. p = Caller => txn \notin {"none", "CALLING", "PROCEEDING"}
  BY DEF Waiting, NotCalled
<1>8. ~Off.mute /\ \A k \in Legs : Off # [leg |-> k, mute |-> FALSE]
  BY SessionFacts
<1>9. app' \in {"calling", "ringing", "talking", "hungUp", "over"}
  BY <1>3 DEF NotCalled, TypeOK
<1>10. app' = app \/ (app' = "over" /\ ~Expecting)
  <2>1. CASE p = Caller
    <3>1. app' = "over"
      BY <2>1, <1>3
    <3>2. ~Expecting
      BY <2>1, <1>7 DEF Expecting
    <3> QED BY <3>1, <3>2
  <2>2. CASE p = Callee
    <3>1. p # Caller
      BY <2>2
    <3>2. app' = app
      BY <1>3, <3>1
    <3> QED BY <3>2
  <2> QED BY <2>1, <2>2
<1> USE <1>1, <1>2, <1>3, <1>4, <1>5, <1>6, <1>7, <1>8, <1>9, <1>10
<1>11. TypeOK'
  BY DEF TypeOK
<1>12. NotCalled'
  BY DEF NotCalled
<1>13. Waiting'
  BY DEF Waiting, Expecting, WaitingApp
<1>14. Unrefused'
  BY DEF Unrefused
<1>15. Refused'
  BY DEF Refused
<1>16. CallerKnows'
  BY DEF CallerKnows
<1>17. MessagesSound'
  BY DEF MessagesSound, Sound, Expecting
<1>18. LastLeg'
  BY LegFacts DEF LastLeg, Answered, TypeOK
<1>19. Ringing'
  BY DEF Ringing
<1>20. CalleeSound'
  <2>1. CASE p = Caller
    <3>1. rings' = rings /\ app' = "over" /\ media'[Callee] = media[Callee]
          /\ socket'[Callee] = socket[Callee] /\ dialogs'[Callee] = dialogs[Callee]
      BY <2>1
    <3> QED BY <3>1 DEF CalleeSound, Hears
  <2>2. CASE p = Callee
    <3>1. \A k \in Legs : ~Hears(Callee, k)'
      BY <2>2 DEF Hears
    <3>2. ASSUME NEW k \in Legs
          PROVE  /\ rings'[k] \notin {"accepted", "hungUp"}
                 /\ rings'[k] = "over" => k \notin dialogs'[Callee]
      <4>1. CASE k = l
        BY <2>2, <4>1
      <4>2. CASE k # l
        BY <2>2, <4>2 DEF Answered, CalleeSound
      <4> QED BY <4>1, <4>2
    <3> QED BY <3>1, <3>2 DEF CalleeSound
  <2> QED BY <2>1, <2>2
<1>21. MuteSessionExplained'
  BY DEF MuteSessionExplained
<1>22. MuteHasLeg'
  BY DEF MuteHasLeg
<1> QED BY <1>11, <1>12, <1>13, <1>14, <1>15, <1>16, <1>17, <1>18, <1>19, <1>20, <1>21, <1>22

LEMMA ReceiveByeInv ==
    ASSUME IInv, NEW p \in Phones, NEW l \in Legs, ReceiveBye(p, l)
    PROVE  IInv'
<1> USE MsgFields, TwoPhones DEF IInv
<1>1. Msg("BYE", p, l) \in net
  BY TakeFacts DEF ReceiveBye
<1>2. txn # "none" /\ (p = Callee => Answered(l))
  BY <1>1 DEF NotCalled, MessagesSound, Sound, Answered
<1>3. UNCHANGED <<txn, last, ack, closed, cancel, ist, answer, leg, cancelIn,
                  mediaDest, bye>>
  BY DEF ReceiveBye
<1>4. CASE l \in byeIn[p] \/ l \notin dialogs[p]
  <2>1. UNCHANGED <<dialogVars, mediaVars, byeIn, app, rings, up>>
    BY <1>4 DEF ReceiveBye
  <2>2. UNCHANGED <<callerVars, calleeVars, dialogVars, mediaVars, byeVars>>
    BY <1>3, <2>1 DEF callerVars, calleeVars, byeVars
  <2>3. \A x \in net' : x \in net \/ x \in {Msg("200BYE", Other(p), l)}
    BY <1>4, TakeFacts DEF ReceiveBye
  <2>4. ASSUME NEW x \in {Msg("200BYE", Other(p), l)}
        PROVE  x \in Message /\ Sound(x)
    <3>1. Other(p) \in Phones /\ "200BYE" \in Kinds /\ l \in 0 .. MaxLegs
      BY LegFacts DEF Kinds, Responses
    <3> QED BY <3>1, MsgType DEF Sound
  <2>5. UNCHANGED up
    BY <2>1
  <2> DEFINE S == {Msg("200BYE", Other(p), l)}
  <2>6. /\ \A x \in net' : x \in net \/ x \in S
        /\ \A x \in S : x \in Message /\ Sound(x)
    BY <2>3, <2>4
  <2> HIDE DEF S
  <2> QED BY <1>2, <2>2, <2>5, <2>6, NetOnlyInv
<1>5. CASE l \notin byeIn[p] /\ l \in dialogs[p]
  <2>1. \A x \in net' : x \in net
    BY <1>5, TakeFacts DEF ReceiveBye
  <2>2. CASE InvalidTransition(dialog[p][l], "bye")
    <3>1. UNCHANGED <<dialogVars, mediaVars, byeIn, app, rings>> /\ up' \in [Phones -> BOOLEAN]
      BY <1>5, <2>2 DEF ReceiveBye, TypeOK
    <3>2. UNCHANGED <<callerVars, calleeVars, dialogVars, mediaVars, byeVars>>
      BY <1>3, <3>1 DEF callerVars, calleeVars, byeVars
    <3> QED BY <2>1, <3>1, <3>2, NothingSentInv
  <2>3. CASE ~InvalidTransition(dialog[p][l], "bye")
    <3>1. HandleBye(p, l)
      BY <1>5, <2>3 DEF ReceiveBye
    <3>2. dialog[p][l] # "EARLY" /\ up' = up
      BY <2>3, <3>1 DEF InvalidTransition, HandleBye
    <3> QED BY <1>2, <1>3, <1>5, <2>1, <3>1, <3>2, HandleByeInv
  <2> QED BY <2>2, <2>3
<1> QED BY <1>4, <1>5

LEMMA RepeatInv == ASSUME IInv, Repeat PROVE IInv'
<1> USE MsgFields, TwoPhones DEF IInv
<1>1. UNCHANGED <<callerVars, calleeVars, dialogVars, mediaVars, byeVars, up>>
  BY DEF Repeat, RepeatInvite, RepeatCancel, RepeatAnswer, RepeatBye
<1>2. txn # "none"
  BY DEF Repeat, RepeatInvite, RepeatCancel, RepeatAnswer, RepeatBye, NotCalled
<1>3. PICK m \in Message : Sound(m) /\ Send({m})
  <2>1. CASE RepeatInvite
    <3>1. Msg("INVITE", Callee, 0) \in Message /\ Sound(Msg("INVITE", Callee, 0))
      BY MsgType, LegFacts DEF Kinds, Requests, Sound
    <3> QED BY <2>1, <3>1 DEF RepeatInvite
  <2>2. CASE RepeatCancel
    <3>1. Msg("CANCEL", Callee, 0) \in Message /\ Sound(Msg("CANCEL", Callee, 0))
      BY MsgType, LegFacts DEF Kinds, Requests, Sound
    <3> QED BY <2>2, <3>1 DEF RepeatCancel
  <2>3. CASE RepeatAnswer
    <3>1. answer \in Message /\ Sound(answer)
      BY <2>3 DEF TypeOK, LastLeg, Sound, RepeatAnswer
    <3> QED BY <2>3, <3>1 DEF RepeatAnswer
  <2>4. CASE \E p \in Phones, l \in Legs : RepeatBye(p, l)
    <3>1. PICK p \in Phones, l \in Legs : RepeatBye(p, l)
      BY <2>4
    <3>2. Other(p) \in Phones /\ "BYE" \in Kinds /\ l \in 0 .. MaxLegs
      BY LegFacts DEF Kinds, Requests
    <3>3. Other(p) = Callee => Answered(l)
      BY <3>1 DEF RepeatBye, CallerKnows
    <3>4. Msg("BYE", Other(p), l) \in Message /\ Sound(Msg("BYE", Other(p), l))
      BY <3>2, <3>3, MsgType DEF Sound, Answered
    <3> QED BY <3>1, <3>4 DEF RepeatBye
  <2> QED BY <2>1, <2>2, <2>3, <2>4 DEF Repeat
<1> DEFINE S == {m}
<1>4. \A x \in net' : x \in net \/ x \in S
  BY <1>3, SendFacts
<1>5. \A x \in S : x \in Message /\ Sound(x)
  BY <1>3
<1>6. UNCHANGED up
  BY <1>1
<1> HIDE DEF S
<1> QED BY <1>1, <1>2, <1>4, <1>5, <1>6, NetOnlyInv

LEMMA LoseInv == ASSUME IInv, Lose PROVE IInv'
<1>1. UNCHANGED <<callerVars, calleeVars, dialogVars, mediaVars, byeVars, up>>
      /\ \A x \in net' : x \in net
  BY DEF Lose
<1> QED BY <1>1, NothingSentInv

LEMMA HandleInv == ASSUME IInv, NEW m \in Message, Handle(m) PROVE IInv'
<1>1. /\ m.kind \in Kinds /\ m.to \in Phones /\ m.leg \in 0 .. MaxLegs
      /\ m.kind \in {"180", "200", "ACK", "BYE", "200BYE"} => m.leg \in Legs
  BY MessageFields DEF Handle, IInv, MessagesSound, Sound
<1> DEFINE k == m.kind
           p == m.to
           l == m.leg
<1>2. CASE m.kind = "180" /\ ReceiveRinging(m.leg)
  BY <1>1, <1>2, ReceiveRingingInv
<1>3. CASE m.kind = "200" /\ ReceiveOk(m.leg)
  BY <1>1, <1>3, ReceiveOkInv
<1>4. CASE m.kind \in {"486", "487"} /\ ReceiveRefusal(m.kind, m.leg)
  BY <1>1, <1>4, ReceiveRefusalInv
<1>5. CASE ReceiveLateResponse(m)
  BY <1>5, ReceiveLateResponseInv
<1>6. CASE m.kind = "INVITE" /\ ReceiveInvite
  BY <1>6, ReceiveInviteInv
<1>7. CASE m.kind = "CANCEL" /\ ReceiveAnyCancel
  BY <1>7, ReceiveAnyCancelInv
<1>8. CASE m.kind = "200CANCEL" /\ CancelAnswered
  BY <1>8, CancelAnsweredInv
<1>9. CASE m.kind = "ACK" /\ ReceiveAck(m.leg)
  BY <1>1, <1>9, ReceiveAckInv
<1>10. CASE m.kind = "ACKerror" /\ ReceiveAckOfRefusal(m.leg)
  BY <1>1, <1>10, ReceiveAckOfRefusalInv
<1>11. CASE m.kind = "BYE" /\ ReceiveBye(m.to, m.leg)
  BY <1>1, <1>11, ReceiveByeInv
<1>12. CASE m.kind = "200BYE" /\ ByeAnswered(m.to, m.leg)
  BY <1>1, <1>12, ByeAnsweredInv
<1> QED BY <1>2, <1>3, <1>4, <1>5, <1>6, <1>7, <1>8, <1>9, <1>10, <1>11, <1>12 DEF Handle

LEMMA InitInv == Init => IInv
<1> SUFFICES ASSUME Init PROVE IInv
  OBVIOUS
<1> USE MsgFields, TwoPhones, LegFacts, SessionFacts DEF Init
<1>1. TypeOK
  <2>1. answer \in Message
    <3>1. "180" \in Kinds /\ Caller \in Phones /\ 0 \in 0 .. MaxLegs
      BY DEF Kinds, Responses
    <3> HIDE DEF Init
    <3>2. answer = Msg("180", Caller, 0)
      BY DEF Init
    <3> QED BY <3>1, <3>2, MsgType
  <2>2. /\ dialog \in [Phones -> [Legs -> DialogState]]
        /\ bye \in [Phones -> [Legs -> RequestState]]
        /\ media \in [Phones -> Session]
    BY DEF DialogState, RequestState
  <2>3. /\ ack \in 0 .. NoAck /\ leg \in 0 .. MaxLegs
        /\ txn \in TxnState /\ ist \in IstState /\ cancel \in RequestState
    BY DEF TxnState, RequestState, IstState
  <2>4. /\ dialogs \in [Phones -> SUBSET Legs] /\ byeIn \in [Phones -> SUBSET Legs]
        /\ socket \in [Phones -> BOOLEAN] /\ up \in [Phones -> BOOLEAN]
        /\ rings \in [Legs -> {"none", "ringing", "refused", "accepted", "hungUp", "over"}]
    OBVIOUS
  <2> QED BY <2>1, <2>2, <2>3, <2>4 DEF TypeOK
<1>2. NotCalled
  BY DEF NotCalled
<1>3. Waiting
  BY DEF Waiting, Expecting, WaitingApp
<1>4. Unrefused
  BY DEF Unrefused
<1>5. Refused
  BY DEF Refused
<1>6. CallerKnows
  BY DEF CallerKnows
<1>7. MessagesSound
  BY DEF MessagesSound, Sound, Answered, Expecting
<1>8. LastLeg
  BY DEF LastLeg, Answered
<1>9. Ringing
  BY DEF Ringing
<1>10. CalleeSound
  BY DEF CalleeSound, Hears
<1>11. MuteSessionExplained
  BY DEF MuteSessionExplained
<1>12. MuteHasLeg
  BY DEF MuteHasLeg
<1> QED BY <1>1, <1>2, <1>3, <1>4, <1>5, <1>6, <1>7, <1>8, <1>9, <1>10, <1>11, <1>12 DEF IInv

LEMMA NextInv == IInv /\ [Next]_vars => IInv'
<1> SUFFICES ASSUME IInv, [Next]_vars PROVE IInv'
  OBVIOUS
<1>1. CASE \E m \in net : Handle(m)
  BY <1>1, HandleInv DEF IInv, TypeOK
<1>2. CASE Repeat
  BY <1>2, RepeatInv
<1>3. CASE Users
  BY <1>3, InviteInv, HangUpCallerInv, AcceptInv, RejectInv, HangUpCalleeInv DEF Users
<1>4. CASE Timeouts
  BY <1>4, InviteEndsInv, CancelFailsInv, AnswerEndsInv, ByeFailsInv DEF Timeouts
<1>5. CASE Lose
  BY <1>5, LoseInv
<1>6. CASE UNCHANGED vars
  <2>1. UNCHANGED <<callerVars, calleeVars, dialogVars, mediaVars, byeVars, up>> /\ net' = net
    BY <1>6 DEF vars
  <2> QED BY <2>1, NothingSentInv
<1> QED BY <1>1, <1>2, <1>3, <1>4, <1>5, <1>6 DEF Next

THEOREM Inductive == Spec => []IInv
BY InitInv, NextInv, PTL DEF Spec

(* What is in the variables; for any losses, copies, timers and legs.      *)
THEOREM TypeCorrect == Spec => []TypeOK
<1>1. IInv => TypeOK
  BY DEF IInv
<1> QED BY <1>1, Inductive, PTL

(* A leg that rings is the last one, and can still be answered.            *)
THEOREM RingingIsReal == Spec => []Ringing
<1>1. IInv => Ringing
  BY DEF IInv
<1> QED BY <1>1, Inductive, PTL

(* A session has no socket only when the callee has hung up before its ACK.*)
THEOREM MuteExplained == Spec => []MuteSessionExplained
<1>1. IInv => MuteSessionExplained
  BY DEF IInv
<1> QED BY <1>1, Inductive, PTL

-----------------------------------------------------------------------------
(***************************************************************************)
(* What ends a receiver thread                                             *)
(***************************************************************************)

(* The dialogs in the tables: at the caller they are early or confirmed,   *)
(* at the callee each has rung, and that of an answered leg is confirmed.  *)
Tables ==
    \A l \in Legs :
        /\ l \in dialogs[Caller] => dialog[Caller][l] \in {"EARLY", "CONFIRMED"}
        /\ l \in dialogs[Callee] => rings[l] # "none"
        /\ Answered(l) => mediaDest
        /\ Answered(l) /\ l \in dialogs[Callee] => dialog[Callee][l] = "CONFIRMED"

(* The ACK of a refusal names the leg of the one that was heard, and a BYE *)
(* to the caller comes from a callee that has hung up.                     *)
Traced(m) ==
    /\ m.kind = "ACKerror" => m.leg = ack
    /\ m.kind = "BYE" /\ m.to = Caller => bye[Callee][m.leg] # "none"

Strays ==
    /\ Tables
    /\ \A m \in net : Traced(m)
    /\ ReceiverDiesOnlyByStrays

(* What a step must keep: the dialogs the caller has in its table ...      *)
KeepsCaller ==
    \A l \in Legs : l \in dialogs'[Caller] =>
        \/ dialog'[Caller][l] \in {"EARLY", "CONFIRMED"}
        \/ l \in dialogs[Caller] /\ dialog'[Caller][l] = dialog[Caller][l]

(* ... those of the callee ...                                             *)
KeepsCallee ==
    \A l \in Legs :
        /\ l \in dialogs'[Callee] => l \in dialogs[Callee] \/ rings'[l] # "none"
        /\ rings[l] # "none" => rings'[l] # "none"
        /\ Answered(l)' =>
              \/ mediaDest' /\ dialog'[Callee][l] = "CONFIRMED"
              \/ /\ Answered(l)
                 /\ mediaDest => mediaDest'
                 /\ l \in dialogs'[Callee] =>
                       l \in dialogs[Callee] /\ dialog'[Callee][l] = dialog[Callee][l]

(* ... where its messages come from, those in S being sent ...             *)
KeepsTraces(S) ==
    /\ ack' = ack \/ ack = NoAck
    /\ \A l \in Legs : bye[Callee][l] # "none" => bye'[Callee][l] # "none"
    /\ \A m \in net' : m \in net \/ m \in S
    /\ \A m \in S : Traced(m)'

(* ... and the reason for the end of a thread.                             *)
KeepsDead ==
    /\ ~up'[Caller] =>
          \/ ~up[Caller] /\ \A l \in Legs : dialog'[Caller][l] = dialog[Caller][l]
          \/ \E l \in Legs : dialog'[Caller][l] = "EARLY" /\ bye'[Callee][l] # "none"
    /\ ~up'[Callee] =>
          \/ ~up[Callee] /\ \A l \in Legs : rings[l] = "refused" => rings'[l] = "refused"
          \/ \E l \in Legs : rings'[l] = "refused" /\ ack' = l

LEMMA StraysKept ==
    ASSUME IInv, Strays, NEW S, KeepsCaller, KeepsCallee, KeepsTraces(S), KeepsDead
    PROVE  Strays'
<1>1. Tables'
  BY DEF Strays, Tables, KeepsCaller, KeepsCallee
<1>2. ASSUME NEW m \in net' PROVE Traced(m)'
  <2>1. CASE m \in S
    BY <2>1 DEF KeepsTraces
  <2>2. CASE m \in net
    <3>1. Traced(m) /\ m \in Message /\ Sound(m)
      BY <2>2 DEF Strays, IInv, TypeOK, MessagesSound
    <3>2. m.leg \in 0 .. MaxLegs /\ m.leg # NoAck
      BY <3>1, MessageFields, LegFacts
    <3>3. m.kind = "ACKerror" => m.leg = ack'
      BY <3>1, <3>2 DEF KeepsTraces, Traced
    <3>4. m.kind = "BYE" /\ m.to = Caller => bye'[Callee][m.leg] # "none"
      BY <3>1 DEF KeepsTraces, Traced, Sound
    <3> QED BY <3>3, <3>4 DEF Traced
  <2> QED BY <2>1, <2>2 DEF KeepsTraces
<1>3. ReceiverDiesOnlyByStrays'
  <2>1. ASSUME ~up'[Caller]
        PROVE  \E l \in Legs : dialog'[Caller][l] = "EARLY" /\ bye'[Callee][l] # "none"
    <3>1. CASE ~up[Caller] /\ \A l \in Legs : dialog'[Caller][l] = dialog[Caller][l]
      <4>1. PICK l \in Legs : dialog[Caller][l] = "EARLY" /\ bye[Callee][l] # "none"
        BY <3>1 DEF Strays, ReceiverDiesOnlyByStrays
      <4> QED BY <3>1, <4>1 DEF KeepsTraces
    <3> QED BY <2>1, <3>1 DEF KeepsDead
  <2>2. ASSUME ~up'[Callee] PROVE \E l \in Legs : rings'[l] = "refused" /\ ack' = l
    <3>1. CASE ~up[Callee] /\ \A l \in Legs : rings[l] = "refused" => rings'[l] = "refused"
      <4>1. PICK l \in Legs : rings[l] = "refused" /\ ack = l
        BY <3>1 DEF Strays, ReceiverDiesOnlyByStrays
      <4>2. ack # NoAck
        BY <4>1, LegFacts
      <4> QED BY <3>1, <4>1, <4>2 DEF KeepsTraces
    <3> QED BY <2>2, <3>1 DEF KeepsDead
  <2> QED BY <2>1, <2>2 DEF ReceiverDiesOnlyByStrays
<1> QED BY <1>1, <1>2, <1>3 DEF Strays

(* A step that leaves the dialogs, what rings, the ACK and the receivers   *)
(* alone.                                                                  *)
LEMMA StraysUnmoved ==
    ASSUME IInv, Strays, NEW S,
           UNCHANGED <<ack, rings, mediaDest, dialog, dialogs, up>>,
           \A l \in Legs : bye[Callee][l] # "none" => bye'[Callee][l] # "none",
           \A m \in net' : m \in net \/ m \in S,
           \A m \in S : Traced(m)'
    PROVE  Strays'
<1>1. KeepsCaller /\ KeepsCallee /\ KeepsTraces(S) /\ KeepsDead
  BY DEF KeepsCaller, KeepsCallee, KeepsTraces, KeepsDead, Answered
<1> QED BY <1>1, StraysKept

LEMMA InviteStrays == ASSUME IInv, Strays, Invite PROVE Strays'
<1> DEFINE S == {Msg("INVITE", Callee, 0)}
<1>1. /\ UNCHANGED <<ack, rings, mediaDest, dialog, dialogs, up, bye>>
      /\ \A m \in net' : m \in net \/ m \in S
  BY SendFacts DEF Invite, calleeVars, dialogVars, byeVars
<1>2. \A m \in S : Traced(m)'
  BY MsgFields DEF Traced
<1> HIDE DEF S
<1> QED BY <1>1, <1>2, StraysUnmoved

LEMMA HangUpCallerStrays == ASSUME IInv, Strays, HangUpCaller PROVE Strays'
<1> USE TwoPhones
<1>1. PICK ending \in Ending(dialogs[Caller], dialog[Caller], last) :
         Start(ending) /\ Send(ending.sent)
  BY DEF HangUpCaller
<1>2. ack = NoAck /\ dialogs[Caller] \in SUBSET Legs
  BY DEF HangUpCaller, IInv, Unrefused, TypeOK
<1>3. Ends(ending, dialogs[Caller], dialog[Caller])
  BY <1>1, <1>2, EndingFacts
<1> DEFINE S == ending.sent
<1>4. \A m \in S : Traced(m)'
  BY <1>3, MsgFields DEF Ends, Traced
<1>5. \A m \in net' : m \in net \/ m \in S
  BY <1>1, SendFacts
<1>6. \A l \in Legs : bye'[Callee][l] = bye[Callee][l]
  BY <1>1, <1>2, <1>3, EndingStarts DEF Ends, IInv
<1>7. UNCHANGED <<ack, rings, mediaDest, dialog, dialogs, up>>
  BY DEF HangUpCaller, calleeVars, dialogVars
<1> HIDE DEF S
<1> QED BY <1>4, <1>5, <1>6, <1>7, StraysUnmoved

LEMMA RepeatStrays == ASSUME IInv, Strays, Repeat PROVE Strays'
<1> USE MsgFields, TwoPhones
<1>1. UNCHANGED <<ack, rings, mediaDest, dialog, dialogs, up, bye>>
  BY DEF Repeat, RepeatInvite, RepeatCancel, RepeatAnswer, RepeatBye, callerVars, calleeVars,
         dialogVars, byeVars
<1>2. PICK m : Traced(m)' /\ Send({m})
  <2>1. CASE RepeatInvite
    <3>1. Traced(Msg("INVITE", Callee, 0))'
      BY DEF Traced
    <3> QED BY <2>1, <3>1 DEF RepeatInvite
  <2>2. CASE RepeatCancel
    <3>1. Traced(Msg("CANCEL", Callee, 0))'
      BY DEF Traced
    <3> QED BY <2>2, <3>1 DEF RepeatCancel
  <2>3. CASE RepeatAnswer
    <3>1. answer.kind \in {"486", "487"}
      BY <2>3 DEF RepeatAnswer, IInv, LastLeg
    <3> QED BY <2>3, <3>1 DEF RepeatAnswer, Traced
  <2>4. CASE \E p \in Phones, l \in Legs : RepeatBye(p, l)
    <3>1. PICK p \in Phones, l \in Legs : RepeatBye(p, l)
      BY <2>4
    <3>2. Other(p) = Caller => bye'[Callee][l] # "none"
      BY <3>1, <1>1 DEF RepeatBye
    <3>3. Traced(Msg("BYE", Other(p), l))'
      BY <3>2 DEF Traced
    <3> QED BY <3>1, <3>3 DEF RepeatBye
  <2> QED BY <2>1, <2>2, <2>3, <2>4 DEF Repeat
<1> DEFINE S == {m}
<1>3. (\A x \in net' : x \in net \/ x \in S) /\ \A x \in S : Traced(x)'
  BY <1>2, SendFacts
<1> HIDE DEF S
<1> QED BY <1>1, <1>3, StraysUnmoved

(* The steps that send nothing, and change nothing that the traces name.   *)
LEMMA SilentStrays ==
    ASSUME IInv, Strays,
           UNCHANGED <<ack, rings, mediaDest, dialog, dialogs, up>>,
           \A l \in Legs : bye[Callee][l] # "none" => bye'[Callee][l] # "none",
           \A m \in net' : m \in net
    PROVE  Strays'
<1> DEFINE S == {}
<1>1. (\A m \in net' : m \in net \/ m \in S) /\ \A m \in S : Traced(m)'
  OBVIOUS
<1> HIDE DEF S
<1> QED BY <1>1, StraysUnmoved

LEMMA TimeoutsStrays == ASSUME IInv, Strays, Timeouts \/ Lose PROVE Strays'
<1>1. CASE InviteEnds \/ CancelFails \/ AnswerEnds \/ Lose
  BY <1>1, SilentStrays DEF InviteEnds, CancelFails, AnswerEnds, Lose, callerVars, calleeVars,
                            dialogVars, byeVars
<1>2. CASE \E p \in Phones, l \in Legs : ByeFails(p, l)
  <2>1. PICK p \in Phones, l \in Legs : ByeFails(p, l)
    BY <1>2
  <2>2. \A k \in Legs : bye[Callee][k] # "none" => bye'[Callee][k] # "none"
    BY <2>1, TwoPhones DEF ByeFails, IInv, TypeOK
  <2>3. UNCHANGED <<ack, rings, mediaDest, dialog, dialogs, up, net>>
    BY <2>1 DEF ByeFails, callerVars, calleeVars, dialogVars
  <2> QED BY <2>2, <2>3, SilentStrays
<1> QED BY <1>1, <1>2 DEF Timeouts

LEMMA ReceiveRingingStrays ==
    ASSUME IInv, Strays, NEW l \in Legs, ReceiveRinging(l)
    PROVE  Strays'
<1> USE MsgFields, TwoPhones
<1> DEFINE states == [dialog[Caller] EXCEPT ![l] = IF l \notin dialogs[Caller] THEN "EARLY" ELSE @]
           table == dialogs[Caller] \cup {l}
<1>1. /\ dialog' = [dialog EXCEPT ![Caller] = states]
      /\ dialogs' = [dialogs EXCEPT ![Caller] = table]
      /\ UNCHANGED <<ack, rings, mediaDest, up>> /\ Expecting
      /\ \/ Take(Msg("180", Caller, l), {}) /\ UNCHANGED bye
         \/ \E ending \in Ending(table, states, "180") :
               Start(ending) /\ Take(Msg("180", Caller, l), ending.sent)
  BY DEF ReceiveRinging, calleeVars
<1>2. /\ dialog'[Callee] = dialog[Callee] /\ dialogs'[Callee] = dialogs[Callee]
      /\ dialogs'[Caller] = table /\ dialog'[Caller] = states
      /\ \A k \in Legs : k # l => states[k] = dialog[Caller][k]
      /\ l \notin dialogs[Caller] => states[l] = "EARLY"
      /\ l \in dialogs[Caller] => states[l] = dialog[Caller][l]
  BY <1>1 DEF IInv, TypeOK
<1>3. ack = NoAck /\ table \in SUBSET Legs /\ up[Caller]
  <2>0. PICK S : Take(Msg("180", Caller, l), S)
    BY <1>1
  <2>1. up[Caller]
    BY <2>0, TakeFacts
  <2>2. ack = NoAck
    BY <1>1 DEF IInv, Waiting, Expecting
  <2>3. dialogs[Caller] \subseteq Legs
    BY DEF IInv, TypeOK
  <2> QED BY <2>1, <2>2, <2>3
<1> HIDE DEF states, table
<1>4. KeepsCaller
  <2>1. \A k \in table : k = l \/ k \in dialogs[Caller]
    BY DEF table
  <2> QED BY <1>2, <2>1 DEF KeepsCaller
<1>5. KeepsCallee /\ KeepsDead
  BY <1>1, <1>2, <1>3 DEF KeepsCallee, KeepsDead, Answered
<1>6. CASE Take(Msg("180", Caller, l), {}) /\ UNCHANGED bye
  <2> DEFINE S == {}
  <2>1. KeepsTraces(S)
    BY <1>1, <1>6, TakeFacts DEF KeepsTraces
  <2> HIDE DEF S
  <2> QED BY <1>4, <1>5, <2>1, StraysKept
<1>7. CASE \E ending \in Ending(table, states, "180") :
               Start(ending) /\ Take(Msg("180", Caller, l), ending.sent)
  <2>1. PICK ending \in Ending(table, states, "180") :
               Start(ending) /\ Take(Msg("180", Caller, l), ending.sent)
    BY <1>7
  <2>2. Ends(ending, table, states)
    BY <1>3, <2>1, EndingFacts
  <2>3. \A k \in Legs : bye'[Callee][k] = bye[Callee][k]
    BY <1>3, <2>1, <2>2, EndingStarts DEF Ends, IInv
  <2> DEFINE S == ending.sent
  <2>4. \A m \in S : Traced(m)'
    BY <2>2 DEF Ends, Traced
  <2>5. \A m \in net' : m \in net \/ m \in S
    BY <2>1, TakeFacts
  <2> HIDE DEF S
  <2>6. KeepsTraces(S)
    BY <1>1, <2>3, <2>4, <2>5 DEF KeepsTraces
  <2> QED BY <1>4, <1>5, <2>6, StraysKept
<1> QED BY <1>1, <1>6, <1>7

LEMMA ReceiveOkStrays ==
    ASSUME IInv, Strays, NEW l \in Legs, ReceiveOk(l)
    PROVE  Strays'
<1> USE MsgFields, TwoPhones
<1> DEFINE states == [dialog[Caller] EXCEPT
                         ![l] = DialogAfter(IF l \in dialogs[Caller] THEN @ ELSE "INIT", "2xx")]
           table == dialogs[Caller] \cup {l}
           acks == {Msg("ACK", Callee, l)}
<1>1. /\ dialog' = [dialog EXCEPT ![Caller] = states]
      /\ dialogs' = [dialogs EXCEPT ![Caller] = table]
      /\ UNCHANGED <<ack, rings, mediaDest, up>> /\ Expecting
      /\ \/ Take(Msg("200", Caller, l), acks) /\ UNCHANGED bye
         \/ \E ending \in Ending(table, states, "200") :
               Start(ending) /\ Take(Msg("200", Caller, l), acks \cup ending.sent)
  BY DEF ReceiveOk, calleeVars
<1>2. /\ dialog'[Callee] = dialog[Callee] /\ dialogs'[Callee] = dialogs[Callee]
      /\ dialogs'[Caller] = table /\ dialog'[Caller] = states
      /\ \A k \in Legs : k # l => states[k] = dialog[Caller][k]
      /\ states[l] = "CONFIRMED"
  <2>1. states = [dialog[Caller] EXCEPT ![l] = "CONFIRMED"]
    BY StatesAfter
  <2> HIDE DEF states
  <2> QED BY <1>1, <2>1 DEF IInv, TypeOK
<1>3. ack = NoAck /\ table \in SUBSET Legs /\ up[Caller]
  <2>0. PICK S : Take(Msg("200", Caller, l), S)
    BY <1>1
  <2>1. up[Caller]
    BY <2>0, TakeFacts
  <2>2. ack = NoAck
    BY <1>1 DEF IInv, Waiting, Expecting
  <2>3. dialogs[Caller] \subseteq Legs
    BY DEF IInv, TypeOK
  <2> QED BY <2>1, <2>2, <2>3
<1>a. \A m \in acks : Traced(m)'
  BY DEF Traced
<1> HIDE DEF states, table, acks
<1>4. KeepsCaller
  <2>1. \A k \in table : k = l \/ k \in dialogs[Caller]
    BY DEF table
  <2> QED BY <1>2, <2>1 DEF KeepsCaller
<1>5. KeepsCallee /\ KeepsDead
  BY <1>1, <1>2, <1>3 DEF KeepsCallee, KeepsDead, Answered
<1>6. CASE Take(Msg("200", Caller, l), acks) /\ UNCHANGED bye
  <2>1. KeepsTraces(acks)
    BY <1>1, <1>6, <1>a, TakeFacts DEF KeepsTraces
  <2> QED BY <1>4, <1>5, <2>1, StraysKept
<1>7. CASE \E ending \in Ending(table, states, "200") :
               Start(ending) /\ Take(Msg("200", Caller, l), acks \cup ending.sent)
  <2>1. PICK ending \in Ending(table, states, "200") :
               Start(ending) /\ Take(Msg("200", Caller, l), acks \cup ending.sent)
    BY <1>7
  <2>2. Ends(ending, table, states)
    BY <1>3, <2>1, EndingFacts
  <2>3. \A k \in Legs : bye'[Callee][k] = bye[Callee][k]
    BY <1>3, <2>1, <2>2, EndingStarts DEF Ends, IInv
  <2> DEFINE S == acks \cup ending.sent
  <2>4. \A m \in S : Traced(m)'
    BY <2>2, <1>a DEF Ends, Traced
  <2>5. \A m \in net' : m \in net \/ m \in S
    BY <2>1, TakeFacts
  <2> HIDE DEF S
  <2>6. KeepsTraces(S)
    BY <1>1, <2>3, <2>4, <2>5 DEF KeepsTraces
  <2> QED BY <1>4, <1>5, <2>6, StraysKept
<1> QED BY <1>1, <1>6, <1>7

LEMMA ReceiveRefusalStrays ==
    ASSUME IInv, Strays, NEW kind \in {"486", "487"}, NEW l \in 0 .. MaxLegs,
           ReceiveRefusal(kind, l)
    PROVE  Strays'
<1> USE MsgFields, TwoPhones
<1> DEFINE S == {Msg("ACKerror", Callee, l)}
<1>1. /\ Expecting /\ ack' = l /\ UNCHANGED <<rings, mediaDest, bye, up>>
      /\ Take(Msg(kind, Caller, l), S)
      /\ \/ /\ l \in dialogs[Caller]
            /\ Put(Caller, l, DialogAfter(dialog[Caller][l], "3xx"))
            /\ dialogs' = [dialogs EXCEPT ![Caller] = @ \ {l}]
         \/ UNCHANGED <<dialog, dialogs>>
  BY DEF ReceiveRefusal, calleeVars, dialogVars, byeVars
<1>2. ack = NoAck /\ up[Caller]
  BY <1>1, TakeFacts DEF IInv, Waiting, Expecting
<1>3. /\ dialogs'[Callee] = dialogs[Callee] /\ dialog'[Callee] = dialog[Callee]
      /\ \A k \in dialogs'[Caller] : k \in dialogs[Caller] /\ dialog'[Caller][k] = dialog[Caller][k]
  <2>1. CASE UNCHANGED <<dialog, dialogs>>
    BY <2>1
  <2>2. CASE /\ l \in dialogs[Caller]
             /\ Put(Caller, l, DialogAfter(dialog[Caller][l], "3xx"))
             /\ dialogs' = [dialogs EXCEPT ![Caller] = @ \ {l}]
    <3> DEFINE s == DialogAfter(dialog[Caller][l], "3xx")
    <3>1. dialog' = [dialog EXCEPT ![Caller][l] = s]
      BY <2>2 DEF Put
    <3> HIDE DEF s
    <3> QED BY <2>2, <3>1 DEF IInv, TypeOK
  <2> QED BY <1>1, <2>1, <2>2
<1>4. KeepsCaller /\ KeepsCallee /\ KeepsDead
  BY <1>1, <1>2, <1>3 DEF KeepsCaller, KeepsCallee, KeepsDead, Answered
<1>5. \A m \in S : Traced(m)'
  BY <1>1 DEF Traced
<1> HIDE DEF S
<1>6. KeepsTraces(S)
  BY <1>1, <1>2, <1>5, TakeFacts DEF KeepsTraces
<1> QED BY <1>4, <1>6, StraysKept

LEMMA ReceiveLateResponseStrays ==
    ASSUME IInv, Strays, NEW m \in Message, ReceiveLateResponse(m)
    PROVE  Strays'
<1> DEFINE S == {Msg("ACKerror", Callee, ack)}
<1>1. UNCHANGED <<ack, rings, mediaDest, dialog, dialogs, up, bye>>
  BY DEF ReceiveLateResponse, calleeVars, dialogVars, byeVars
<1>2. \A x \in net' : x \in net \/ x \in S
  BY TakeFacts DEF ReceiveLateResponse
<1>3. \A x \in S : Traced(x)'
  BY <1>1, MsgFields DEF Traced
<1> HIDE DEF S
<1> QED BY <1>1, <1>2, <1>3, StraysUnmoved

LEMMA CancelAnsweredStrays == ASSUME IInv, Strays, CancelAnswered PROVE Strays'
<1>1. /\ UNCHANGED <<ack, rings, mediaDest, dialog, dialogs, up, bye>>
      /\ \A x \in net' : x \in net
  BY TakeFacts DEF CancelAnswered, calleeVars, dialogVars, byeVars
<1> QED BY <1>1, SilentStrays

LEMMA ReceiveInviteStrays == ASSUME IInv, Strays, ReceiveInvite PROVE Strays'
<1> USE MsgFields, TwoPhones
<1> DEFINE m == Msg("INVITE", Callee, 0)
           new == leg + 1
           ringing == Msg("180", Caller, new)
<1>1. CASE /\ ist = "none" /\ leg < MaxLegs /\ Take(m, {ringing})
           /\ Put(Callee, new, "EARLY")
           /\ dialogs' = [dialogs EXCEPT ![Callee] = @ \cup {new}]
           /\ rings' = [rings EXCEPT ![new] = "ringing"]
           /\ UNCHANGED <<ack, mediaDest, bye, up>>
  <2>1. new \in Legs /\ new > leg
    BY <1>1, LegFacts DEF IInv, TypeOK, Legs
  <2> HIDE DEF new, ringing
  <2>2. /\ dialogs'[Caller] = dialogs[Caller] /\ dialog'[Caller] = dialog[Caller]
        /\ dialogs'[Callee] = dialogs[Callee] \cup {new}
        /\ \A k \in Legs : k # new => rings'[k] = rings[k] /\ dialog'[Callee][k] = dialog[Callee][k]
        /\ rings'[new] = "ringing"
    BY <1>1, <2>1 DEF IInv, TypeOK, Put
  <2>3. rings[new] = "none" /\ up[Callee]
    BY <1>1, <2>1, TakeFacts DEF IInv, LastLeg, m
  <2>4. KeepsCaller /\ KeepsDead
    BY <1>1, <2>2, <2>3 DEF KeepsCaller, KeepsDead
  <2>5. KeepsCallee
    <3> SUFFICES ASSUME NEW k \in Legs
                 PROVE  /\ k \in dialogs'[Callee] => k \in dialogs[Callee] \/ rings'[k] # "none"
                        /\ rings[k] # "none" => rings'[k] # "none"
                        /\ Answered(k)' => /\ Answered(k) /\ (mediaDest => mediaDest')
                                           /\ k \in dialogs'[Callee] =>
                                                 /\ k \in dialogs[Callee]
                                                 /\ dialog'[Callee][k] = dialog[Callee][k]
      BY DEF KeepsCallee
    <3>1. CASE k = new
      BY <2>2, <3>1 DEF Answered
    <3>2. CASE k # new
      BY <1>1, <2>2, <3>2 DEF Answered
    <3> QED BY <3>1, <3>2
  <2> DEFINE S == {ringing}
  <2>6. \A x \in S : Traced(x)'
    BY DEF Traced, ringing
  <2> HIDE DEF S
  <2>7. KeepsTraces(S)
    BY <1>1, <2>6, TakeFacts DEF KeepsTraces, S
  <2> QED BY <2>4, <2>5, <2>7, StraysKept
<1>2. CASE /\ ist # "none"
           /\ Take(m, {answer} \cap IF ist = "COMPLETED" THEN {answer} ELSE {})
           /\ UNCHANGED <<ack, rings, mediaDest, dialog, dialogs, up, bye>>
  <2> DEFINE S == {answer} \cap IF ist = "COMPLETED" THEN {answer} ELSE {}
  <2>1. \A x \in S : Traced(x)'
    BY DEF Traced, IInv, LastLeg
  <2>2. \A x \in net' : x \in net \/ x \in S
    BY <1>2, TakeFacts
  <2> HIDE DEF S
  <2> QED BY <1>2, <2>1, <2>2, StraysUnmoved
<1>3. ReceiveInvite => \/ /\ ist = "none" /\ leg < MaxLegs /\ Take(m, {ringing})
                          /\ Put(Callee, new, "EARLY")
                          /\ dialogs' = [dialogs EXCEPT ![Callee] = @ \cup {new}]
                          /\ rings' = [rings EXCEPT ![new] = "ringing"]
                          /\ UNCHANGED <<ack, mediaDest, bye, up>>
                       \/ /\ ist # "none"
                          /\ Take(m, {answer} \cap IF ist = "COMPLETED" THEN {answer} ELSE {})
                          /\ UNCHANGED <<ack, rings, mediaDest, dialog, dialogs, up, bye>>
  BY DEF ReceiveInvite, callerVars, calleeVars, dialogVars, byeVars
<1> QED BY <1>1, <1>2, <1>3

LEMMA AcceptStrays == ASSUME IInv, Strays, NEW l \in Legs, Accept(l) PROVE Strays'
<1> USE MsgFields, TwoPhones
<1> DEFINE S == {Msg("200", Caller, l)}
<1>1. /\ rings[l] = "ringing" /\ rings' = [rings EXCEPT ![l] = "accepted"]
      /\ mediaDest' /\ UNCHANGED <<ack, dialogs, bye, up>>
      /\ dialog' = [dialog EXCEPT ![Callee][l] = "CONFIRMED"]
      /\ \A x \in net' : x \in net \/ x \in S
  BY SendFacts, StatesAfter DEF Accept, Put, callerVars, byeVars
<1>2. /\ dialog'[Caller] = dialog[Caller] /\ dialog'[Callee][l] = "CONFIRMED"
      /\ \A k \in Legs : k # l => rings'[k] = rings[k] /\ dialog'[Callee][k] = dialog[Callee][k]
      /\ rings'[l] = "accepted"
  BY <1>1 DEF IInv, TypeOK
<1>3. KeepsCaller /\ KeepsDead
  BY <1>1, <1>2 DEF KeepsCaller, KeepsDead
<1>4. KeepsCallee
  BY <1>1, <1>2 DEF KeepsCallee, Answered
<1>5. \A x \in S : Traced(x)'
  BY DEF Traced
<1> HIDE DEF S
<1>6. KeepsTraces(S)
  BY <1>1, <1>5 DEF KeepsTraces
<1> QED BY <1>3, <1>4, <1>6, StraysKept

(* A dialog of a leg that is not answered ends, as it does in a refusal.   *)
LEMMA RefuseStrays ==
    ASSUME IInv, Strays, NEW l \in Legs, NEW d \in Legs, NEW s, NEW S,
           ist = "PROCEEDING", rings[l] = "ringing",
           rings' = [rings EXCEPT ![l] = "refused"],
           dialog' = [dialog EXCEPT ![Callee][d] = s] \/ UNCHANGED dialog,
           UNCHANGED <<ack, mediaDest, dialogs, bye, up>>,
           \A x \in net' : x \in net \/ x \in S,
           \A x \in S : Traced(x)'
    PROVE  Strays'
<1> USE TwoPhones
<1>1. \A k \in Legs : ~Answered(k)
  BY DEF IInv, LastLeg
<1>2. /\ dialog'[Caller] = dialog[Caller]
      /\ \A k \in Legs : rings'[k] = IF k = l THEN "refused" ELSE rings[k]
  BY DEF IInv, TypeOK
<1>3. KeepsCaller /\ KeepsDead
  BY <1>2 DEF KeepsCaller, KeepsDead
<1>4. KeepsCallee
  BY <1>1, <1>2 DEF KeepsCallee, Answered
<1>5. KeepsTraces(S)
  BY DEF KeepsTraces
<1> QED BY <1>3, <1>4, <1>5, StraysKept

LEMMA RejectStrays == ASSUME IInv, Strays, NEW l \in Legs, Reject(l) PROVE Strays'
<1>1. PICK d \in dialogs[Callee] :
         /\ answer' = Msg("486", Caller, d)
         /\ \/ Put(Callee, d, DialogAfter(dialog[Callee][d], "3xx"))
            \/ UNCHANGED dialog
  BY DEF Reject
<1> DEFINE S == {Msg("486", Caller, d)}
           s == DialogAfter(dialog[Callee][d], "3xx")
<1>2. d \in Legs
  BY TwoPhones DEF IInv, TypeOK
<1>3. /\ rings[l] = "ringing" /\ rings' = [rings EXCEPT ![l] = "refused"]
      /\ UNCHANGED <<ack, mediaDest, dialogs, bye, up>>
      /\ \A x \in net' : x \in net \/ x \in S
  BY <1>1, SendFacts DEF Reject, callerVars, byeVars
<1>4. ist = "PROCEEDING"
  BY <1>3 DEF IInv, Ringing
<1>5. dialog' = [dialog EXCEPT ![Callee][d] = s] \/ UNCHANGED dialog
  BY <1>1 DEF Put
<1>6. \A x \in S : Traced(x)'
  BY MsgFields DEF Traced
<1> HIDE DEF S, s
<1> QED BY <1>2, <1>3, <1>4, <1>5, <1>6, RefuseStrays

LEMMA ReceiveAnyCancelStrays == ASSUME IInv, Strays, ReceiveAnyCancel PROVE Strays'
<1> USE MsgFields
<1> DEFINE S == {Msg("487", Caller, 0), Msg("200CANCEL", Caller, 0)}
<1>1. /\ UNCHANGED <<ack, mediaDest, dialogs, bye, up>>
      /\ \A x \in net' : x \in net \/ x \in S
  BY TakeFacts DEF ReceiveAnyCancel, ReceiveCancel, callerVars, byeVars
<1>2. \A x \in S : Traced(x)'
  BY DEF Traced
<1> HIDE DEF S
<1>3. CASE UNCHANGED <<rings, dialog>>
  BY <1>1, <1>2, <1>3, StraysUnmoved
<1>4. CASE ~UNCHANGED <<rings, dialog>>
  <2>1. /\ ist = "PROCEEDING"
        /\ Put(Callee, answer.leg, DialogAfter(dialog[Callee][answer.leg], "3xx"))
        /\ rings' = [rings EXCEPT ![answer.leg] = "refused"]
    BY <1>4 DEF ReceiveAnyCancel, ReceiveCancel
  <2>2. answer.leg = leg /\ leg \in Legs /\ rings[leg] = "ringing"
    BY <2>1 DEF IInv, LastLeg
  <2> DEFINE s == DialogAfter(dialog[Callee][leg], "3xx")
  <2>3. dialog' = [dialog EXCEPT ![Callee][leg] = s] /\ rings' = [rings EXCEPT ![leg] = "refused"]
    BY <2>1, <2>2 DEF Put
  <2> HIDE DEF s
  <2> QED BY <1>1, <1>2, <2>1, <2>2, <2>3, RefuseStrays
<1> QED BY <1>3, <1>4

LEMMA HangUpCalleeStrays ==
    ASSUME IInv, Strays, NEW l \in Legs, HangUpCallee(l)
    PROVE  Strays'
<1> USE MsgFields, TwoPhones
<1>1. PICK d \in dialogs[Callee] :
         bye' = [bye EXCEPT ![Callee][d] = "trying"] /\ Send({Msg("BYE", Caller, d)})
  BY DEF HangUpCallee
<1> DEFINE S == {Msg("BYE", Caller, d)}
<1>2. d \in Legs
  BY DEF IInv, TypeOK
<1>3. \A k \in Legs : bye'[Callee][k] = IF k = d THEN "trying" ELSE bye[Callee][k]
  BY <1>1, <1>2 DEF IInv, TypeOK
<1>4. /\ rings[l] = "accepted" /\ rings' = [rings EXCEPT ![l] = "hungUp"]
      /\ UNCHANGED <<ack, mediaDest, dialog, dialogs, up>>
      /\ \A x \in net' : x \in net \/ x \in S
  BY <1>1, SendFacts DEF HangUpCallee, callerVars, dialogVars
<1>5. \A k \in Legs : rings'[k] = IF k = l THEN "hungUp" ELSE rings[k]
  BY <1>4 DEF IInv, TypeOK
<1>6. KeepsCaller /\ KeepsCallee /\ KeepsDead
  BY <1>4, <1>5 DEF KeepsCaller, KeepsCallee, KeepsDead, Answered
<1>7. \A x \in S : Traced(x)'
  BY <1>2, <1>3 DEF Traced
<1> HIDE DEF S
<1>8. KeepsTraces(S)
  BY <1>3, <1>4, <1>7 DEF KeepsTraces
<1> QED BY <1>6, <1>8, StraysKept

(* An ACK ends the callee's thread only if nothing was accepted.           *)
LEMMA HandleAckStrays ==
    ASSUME IInv, Strays, NEW l \in Legs, HandleAck(l),
           UNCHANGED <<ack, rings, mediaDest, dialog, dialogs, bye>>,
           \A m \in net' : m \in net,
           ~mediaDest => rings[l] = "refused" /\ ack = l
    PROVE  Strays'
<1>1. CASE UNCHANGED up
  BY <1>1, SilentStrays
<1>2. CASE ~mediaDest /\ up' = [up EXCEPT ![Callee] = FALSE]
  <2>1. up'[Caller] = up[Caller]
    BY <1>2, TwoPhones DEF IInv, TypeOK
  <2> DEFINE S == {}
  <2>2. KeepsTraces(S)
    BY DEF KeepsTraces
  <2> HIDE DEF S
  <2>3. KeepsCaller /\ KeepsCallee
    BY DEF KeepsCaller, KeepsCallee, Answered
  <2>4. KeepsDead
    BY <1>2, <2>1 DEF KeepsDead
  <2> QED BY <2>2, <2>3, <2>4, StraysKept
<1> QED BY <1>1, <1>2 DEF HandleAck

LEMMA ReceiveAckStrays ==
    ASSUME IInv, Strays, NEW l \in Legs, ReceiveAck(l)
    PROVE  Strays'
<1>1. /\ Msg("ACK", Callee, l) \in net /\ \A m \in net' : m \in net
      /\ UNCHANGED <<ack, rings, mediaDest, dialog, dialogs, bye>>
  BY TakeFacts DEF ReceiveAck, callerVars, calleeVars, dialogVars, byeVars
<1>2. mediaDest
  <2>1. Answered(l)
    BY <1>1, MsgFields DEF IInv, MessagesSound, Sound
  <2> QED BY <2>1 DEF Strays, Tables
<1>3. CASE HandleAck(l)
  BY <1>1, <1>2, <1>3, HandleAckStrays
<1>4. CASE UNCHANGED up
  BY <1>1, <1>4, SilentStrays
<1> QED BY <1>3, <1>4 DEF ReceiveAck

LEMMA ReceiveAckOfRefusalStrays ==
    ASSUME IInv, Strays, NEW l \in 0 .. MaxLegs, ReceiveAckOfRefusal(l)
    PROVE  Strays'
<1>1. /\ Msg("ACKerror", Callee, l) \in net /\ \A m \in net' : m \in net
      /\ UNCHANGED <<ack, rings, mediaDest, dialog, dialogs, bye>>
  BY TakeFacts DEF ReceiveAckOfRefusal, callerVars, dialogVars, byeVars
<1>2. CASE UNCHANGED up
  BY <1>1, <1>2, SilentStrays
<1>3. CASE ist = "none" /\ l \in dialogs[Callee] /\ HandleAck(l)
  <2>1. l \in Legs
    BY <1>3, TwoPhones DEF IInv, TypeOK
  <2>2. ack = l
    BY <1>1, MsgFields DEF Strays, Traced
  <2>3. rings[l] = "refused"
    <3>1. rings[l] # "none"
      BY <1>3, <2>1 DEF Strays, Tables
    <3>2. ~Answered(l) /\ rings[l] # "ringing"
      BY <1>3, <2>1 DEF IInv, LastLeg, Ringing
    <3>3. rings[l] \in {"none", "ringing", "refused", "accepted", "hungUp", "over"}
      BY <2>1 DEF IInv, TypeOK
    <3> QED BY <3>1, <3>2, <3>3 DEF Answered
  <2> QED BY <1>1, <1>3, <2>1, <2>2, <2>3, HandleAckStrays
<1> QED BY <1>2, <1>3 DEF ReceiveAckOfRefusal

LEMMA ByeAnsweredStrays ==
    ASSUME IInv, Strays, NEW p \in Phones, NEW l \in Legs, ByeAnswered(p, l)
    PROVE  Strays'
<1> USE MsgFields, TwoPhones
<1>1. /\ UNCHANGED <<ack, rings, mediaDest, up>> /\ up[p]
      /\ \A m \in net' : m \in net
      /\ \A k \in Legs : bye[Callee][k] # "none" => bye'[Callee][k] # "none"
  <2>1. UNCHANGED <<ack, rings, mediaDest, up>>
    BY DEF ByeAnswered, callerVars, calleeVars
  <2>2. up[p] /\ \A m \in net' : m \in net
    BY TakeFacts DEF ByeAnswered
  <2>3. bye' = [bye EXCEPT ![p][l] = "done"] \/ bye' = bye
    BY DEF ByeAnswered
  <2>4. \A k \in Legs : bye[Callee][k] # "none" => bye'[Callee][k] # "none"
    BY <2>3 DEF IInv, TypeOK
  <2> QED BY <2>1, <2>2, <2>4
<1>2. CASE UNCHANGED <<dialog, dialogs>>
  BY <1>1, <1>2, SilentStrays
<1>3. CASE /\ dialog' = [dialog EXCEPT ![p][l] = "TERMINATED"]
           /\ dialogs' = [dialogs EXCEPT ![p] = @ \ {l}]
  <2>1. \A q \in Phones : \A k \in dialogs'[q] :
           k \in dialogs[q] /\ dialog'[q][k] = dialog[q][k]
    BY <1>3 DEF IInv, TypeOK
  <2>2. p = Callee => dialog'[Caller] = dialog[Caller]
    BY <1>3 DEF IInv, TypeOK
  <2>3. KeepsCaller /\ KeepsCallee
    BY <1>1, <2>1 DEF KeepsCaller, KeepsCallee, Answered
  <2>4. KeepsDead
    BY <1>1, <2>2 DEF KeepsDead
  <2> DEFINE S == {}
  <2>5. KeepsTraces(S)
    BY <1>1 DEF KeepsTraces
  <2> HIDE DEF S
  <2> QED BY <2>3, <2>4, <2>5, StraysKept
<1> QED BY <1>2, <1>3 DEF ByeAnswered, dialogVars, Put

LEMMA ReceiveByeStrays ==
    ASSUME IInv, Strays, NEW p \in Phones, NEW l \in Legs, ReceiveBye(p, l)
    PROVE  Strays'
<1> USE MsgFields, TwoPhones
<1>1. /\ Msg("BYE", p, l) \in net /\ up[p]
      /\ UNCHANGED <<ack, mediaDest, bye>>
  BY TakeFacts DEF ReceiveBye
<1>2. CASE l \in byeIn[p] \/ l \notin dialogs[p]
  <2> DEFINE S == {Msg("200BYE", Other(p), l)}
  <2>1. /\ UNCHANGED <<dialog, dialogs, rings, up>>
        /\ \A m \in net' : m \in net \/ m \in S
    BY <1>2, TakeFacts DEF ReceiveBye, dialogVars
  <2>2. \A m \in S : Traced(m)'
    BY DEF Traced
  <2> HIDE DEF S
  <2> QED BY <1>1, <2>1, <2>2, StraysUnmoved
<1>3. CASE l \notin byeIn[p] /\ l \in dialogs[p]
  <2> DEFINE S == {}
  <2>1. KeepsTraces(S)
    BY <1>1, <1>3, TakeFacts DEF ReceiveBye, KeepsTraces
  <2> HIDE DEF S
  <2>2. CASE InvalidTransition(dialog[p][l], "bye")
    <3>1. UNCHANGED <<dialog, dialogs, rings>> /\ up' = [up EXCEPT ![p] = FALSE]
      BY <1>3, <2>2 DEF ReceiveBye, dialogVars
    <3>2. p = Caller
      <4>1. p = Callee => Answered(l)
        BY <1>1 DEF IInv, MessagesSound, Sound
      <4>2. p = Callee => dialog[p][l] = "CONFIRMED"
        BY <1>3, <4>1 DEF Strays, Tables
      <4> QED BY <2>2, <4>2 DEF InvalidTransition
    <3>3. dialog[Caller][l] = "EARLY"
      BY <1>3, <2>2, <3>2 DEF Strays, Tables, InvalidTransition
    <3>4. bye[Callee][l] # "none"
      BY <1>1, <3>2 DEF Strays, Traced
    <3>5. up'[Callee] = up[Callee]
      BY <3>1, <3>2 DEF IInv, TypeOK
    <3>6. KeepsCaller /\ KeepsCallee
      BY <1>1, <3>1 DEF KeepsCaller, KeepsCallee, Answered
    <3>7. KeepsDead
      BY <1>1, <3>1, <3>3, <3>4, <3>5 DEF KeepsDead
    <3> QED BY <2>1, <3>6, <3>7, StraysKept
  <2>3. CASE ~InvalidTransition(dialog[p][l], "bye")
    <3>1. /\ dialog' = [dialog EXCEPT ![p][l] = "TERMINATED"]
          /\ dialogs' = [dialogs EXCEPT ![p] = @ \ {l}]
          /\ up' = up
          /\ \/ p = Caller /\ UNCHANGED rings
             \/ p = Callee /\ rings' = [rings EXCEPT ![l] = "over"]
      BY <1>3, <2>3 DEF ReceiveBye, HandleBye, Put, Told
    <3>2. \A q \in Phones : \A k \in dialogs'[q] :
             k \in dialogs[q] /\ dialog'[q][k] = dialog[q][k]
      BY <3>1 DEF IInv, TypeOK
    <3>3. p = Callee => dialog'[Caller] = dialog[Caller]
      BY <3>1 DEF IInv, TypeOK
    <3>4. p = Callee => Answered(l) /\ \A k \in Legs : rings'[k] = IF k = l THEN "over" ELSE rings[k]
      BY <1>1, <3>1 DEF IInv, TypeOK, MessagesSound, Sound
    <3>5. KeepsCaller
      BY <3>2 DEF KeepsCaller
    <3>6. KeepsCallee
      BY <1>1, <3>1, <3>2, <3>4 DEF KeepsCallee, Answered
    <3>7. KeepsDead
      BY <1>1, <3>1, <3>3 DEF KeepsDead
    <3> QED BY <2>1, <3>5, <3>6, <3>7, StraysKept
  <2> QED BY <2>2, <2>3
<1> QED BY <1>2, <1>3

LEMMA HandleStrays == ASSUME IInv, Strays, NEW m \in Message, Handle(m) PROVE Strays'
<1>1. /\ m.kind \in Kinds /\ m.to \in Phones /\ m.leg \in 0 .. MaxLegs
      /\ m.kind \in {"180", "200", "ACK", "BYE", "200BYE"} => m.leg \in Legs
  BY MessageFields DEF Handle, IInv, MessagesSound, Sound
<1>2. CASE m.kind = "180" /\ ReceiveRinging(m.leg)
  BY <1>1, <1>2, ReceiveRingingStrays
<1>3. CASE m.kind = "200" /\ ReceiveOk(m.leg)
  BY <1>1, <1>3, ReceiveOkStrays
<1>4. CASE m.kind \in {"486", "487"} /\ ReceiveRefusal(m.kind, m.leg)
  BY <1>1, <1>4, ReceiveRefusalStrays
<1>5. CASE ReceiveLateResponse(m)
  BY <1>5, ReceiveLateResponseStrays
<1>6. CASE m.kind = "INVITE" /\ ReceiveInvite
  BY <1>6, ReceiveInviteStrays
<1>7. CASE m.kind = "CANCEL" /\ ReceiveAnyCancel
  BY <1>7, ReceiveAnyCancelStrays
<1>8. CASE m.kind = "200CANCEL" /\ CancelAnswered
  BY <1>8, CancelAnsweredStrays
<1>9. CASE m.kind = "ACK" /\ ReceiveAck(m.leg)
  BY <1>1, <1>9, ReceiveAckStrays
<1>10. CASE m.kind = "ACKerror" /\ ReceiveAckOfRefusal(m.leg)
  BY <1>1, <1>10, ReceiveAckOfRefusalStrays
<1>11. CASE m.kind = "BYE" /\ ReceiveBye(m.to, m.leg)
  BY <1>1, <1>11, ReceiveByeStrays
<1>12. CASE m.kind = "200BYE" /\ ByeAnswered(m.to, m.leg)
  BY <1>1, <1>12, ByeAnsweredStrays
<1> QED BY <1>2, <1>3, <1>4, <1>5, <1>6, <1>7, <1>8, <1>9, <1>10, <1>11, <1>12 DEF Handle

LEMMA InitStrays == Init => Strays
<1> SUFFICES ASSUME Init PROVE Strays
  OBVIOUS
<1> USE TwoPhones
<1>1. Tables
  BY DEF Init, Tables, Answered
<1>2. ReceiverDiesOnlyByStrays /\ \A m \in net : Traced(m)
  BY DEF Init, ReceiverDiesOnlyByStrays
<1> QED BY <1>1, <1>2 DEF Strays

LEMMA NextStrays == IInv /\ Strays /\ [Next]_vars => Strays'
<1> SUFFICES ASSUME IInv, Strays, [Next]_vars PROVE Strays'
  OBVIOUS
<1>1. CASE \E m \in net : Handle(m)
  BY <1>1, HandleStrays DEF IInv, TypeOK
<1>2. CASE Repeat
  BY <1>2, RepeatStrays
<1>3. CASE Users
  BY <1>3, InviteStrays, HangUpCallerStrays, AcceptStrays, RejectStrays, HangUpCalleeStrays
     DEF Users
<1>4. CASE Timeouts \/ Lose
  BY <1>4, TimeoutsStrays
<1>5. CASE UNCHANGED vars
  <2>1. UNCHANGED <<ack, rings, mediaDest, dialog, dialogs, up, bye, net>>
    BY <1>5 DEF vars, callerVars, calleeVars, dialogVars, byeVars
  <2> QED BY <2>1, SilentStrays
<1> QED BY <1>1, <1>2, <1>3, <1>4, <1>5 DEF Next

(* manageMidDialogRequest, handleAck, handleBye: the only requests that    *)
(* end a receiver thread are a BYE that comes before the 200 was seen, and *)
(* the ACK of a refusal whose transaction has gone.                        *)
THEOREM OnlyStraysKill == Spec => []ReceiverDiesOnlyByStrays
<1>1. IInv /\ [Next]_vars => IInv'
  BY NextInv
<1>2. Strays => ReceiverDiesOnlyByStrays
  BY DEF Strays
<1> QED BY <1>1, <1>2, InitInv, InitStrays, NextStrays, PTL DEF Spec

-----------------------------------------------------------------------------
(***************************************************************************)
(* The two users' views                                                    *)
(***************************************************************************)

(* What a step may do to the view of one of the users of leg l.            *)
CallerMoves(l) ==
    /\ UNCHANGED CalleeView(l)
    /\ \/ CallerView(l) = "idle" /\ CallerView(l)' = "calling"
       \/ /\ CallerView(l) = "calling" /\ CallerView(l)' = "talking"
          /\ CalleeView(l) \in {"answered", "over"}
       \/ CallerView(l) \in {"calling", "talking"} /\ CallerView(l)' = "over"
       \/ UNCHANGED CallerView(l)

CalleeMoves(l) ==
    /\ UNCHANGED CallerView(l)
    /\ \/ CallerView(l) # "idle" /\ CalleeView(l) = "idle" /\ CalleeView(l)' = "ringing"
       \/ CalleeView(l) = "ringing" /\ CalleeView(l)' \in {"refused", "answered"}
       \/ /\ CalleeView(l) = "answered" /\ CalleeView(l)' = "talking"
          /\ CallerView(l) \in {"talking", "over"}
       \/ CalleeView(l) \in {"answered", "talking"} /\ CalleeView(l)' = "over"
       \/ UNCHANGED CalleeView(l)

LEMMA MovesAreCalls ==
    ASSUME NEW l \in Legs, CallerMoves(l) \/ CalleeMoves(l)
    PROVE  Call(l)!Next \/ UNCHANGED <<CallerView(l), CalleeView(l)>>
<1>1. CASE CallerMoves(l)
  BY <1>1 DEF CallerMoves, Call!Next, Call!Dial, Call!Connect, Call!CallerEnds
<1>2. CASE CalleeMoves(l)
  BY <1>2 DEF CalleeMoves, Call!Next, Call!Ring, Call!Refuse, Call!Answer, Call!Hear,
              Call!CalleeEnds
<1> QED BY <1>1, <1>2

LEMMA CallerStays ==
    ASSUME NEW l \in Legs, UNCHANGED app, media'[Caller] = media[Caller]
    PROVE  UNCHANGED CallerView(l)
BY DEF CallerView, Hears

LEMMA CalleeStays ==
    ASSUME NEW l \in Legs, rings'[l] = rings[l], media'[Callee] = media[Callee]
    PROVE  UNCHANGED CalleeView(l)
BY DEF CalleeView, Hears

LEMMA NobodyMoves ==
    ASSUME UNCHANGED <<app, rings, media>>, NEW l \in Legs
    PROVE  CallerMoves(l)
BY CallerStays, CalleeStays DEF CallerMoves

(* Who does not hear the peer.                                             *)
LEMMA Silent ==
    ASSUME NEW p \in Phones, media[p] = Off
    PROVE  \A l \in Legs : ~Hears(p, l)
BY SessionFacts DEF Hears

LEMMA SilentNext ==
    ASSUME NEW p \in Phones, media'[p] = Off
    PROVE  \A l \in Legs : ~Hears(p, l)'
BY SessionFacts DEF Hears

LEMMA InviteMoves == ASSUME IInv, Invite, NEW l \in Legs PROVE CallerMoves(l)
<1>1. /\ app = "none" /\ app' = "calling" /\ UNCHANGED <<media, rings>>
      /\ media[Caller] = Off
  BY DEF Invite, IInv, NotCalled, Waiting, calleeVars
<1>2. UNCHANGED CalleeView(l)
  BY <1>1, CalleeStays
<1>3. ~Hears(Caller, l) /\ ~Hears(Caller, l)'
  BY <1>1, Silent, TwoPhones DEF Hears
<1> QED BY <1>1, <1>2, <1>3 DEF CallerMoves, CallerView

LEMMA HangUpCallerMoves == ASSUME IInv, HangUpCaller, NEW l \in Legs PROVE CallerMoves(l)
<1>1. app \in {"calling", "ringing", "talking"} /\ app' = "hungUp" /\ rings' = rings
  BY DEF HangUpCaller, calleeVars
<1>2. media'[Caller] = Off /\ media'[Callee] = media[Callee]
  BY StopFacts, TwoPhones DEF HangUpCaller, IInv
<1>3. UNCHANGED CalleeView(l)
  BY <1>1, <1>2, CalleeStays
<1>4. ~Hears(Caller, l)'
  BY <1>2, SilentNext, TwoPhones
<1> QED BY <1>1, <1>3, <1>4 DEF CallerMoves, CallerView

LEMMA ReceiveRingingMoves ==
    ASSUME IInv, NEW k \in Legs, ReceiveRinging(k), NEW l \in Legs
    PROVE  CallerMoves(l)
<1>1. /\ app' = IF app = "calling" THEN "ringing" ELSE app
      /\ rings' = rings /\ media[Caller] = Off /\ app # "none"
  BY DEF ReceiveRinging, Expecting, IInv, Waiting, NotCalled, calleeVars
<1>2. media'[Caller] = Off /\ media'[Callee] = media[Callee]
  <2>1. CASE ~closed
    BY <1>1, <2>1 DEF ReceiveRinging, mediaVars
  <2>2. CASE closed
    <3>1. StopSession(Caller)
      BY <2>2 DEF ReceiveRinging
    <3> QED BY <3>1, StopFacts, TwoPhones DEF IInv
  <2> QED BY <2>1, <2>2
<1>3. UNCHANGED CalleeView(l)
  BY <1>1, <1>2, CalleeStays
<1>4. ~Hears(Caller, l) /\ ~Hears(Caller, l)'
  BY <1>1, <1>2, Silent, SilentNext, TwoPhones
<1> QED BY <1>1, <1>3, <1>4 DEF CallerMoves, CallerView

(* The caller hears of an answer that was given.                           *)
LEMMA ReceiveOkMoves ==
    ASSUME IInv, NEW k \in Legs, ReceiveOk(k), NEW l \in Legs
    PROVE  CallerMoves(l)
<1>1. /\ app' = (IF closed THEN app ELSE "talking")
      /\ rings' = rings /\ media[Caller] = Off
      /\ app \in {"hungUp", "calling", "ringing"}
      /\ ~closed => app \in {"calling", "ringing"} /\ socket[Caller]
  BY DEF ReceiveOk, Expecting, IInv, Waiting, WaitingApp, NotCalled, calleeVars
<1>2. \A n \in Legs : ~Hears(Caller, n)
  BY <1>1, Silent, TwoPhones
<1>3. CASE closed
  <2>1. StopSession(Caller)
    BY <1>3 DEF ReceiveOk
  <2>2. media'[Caller] = Off /\ media'[Callee] = media[Callee]
    BY <2>1, StopFacts, TwoPhones DEF IInv
  <2> QED BY <1>1, <1>3, <2>2, CallerStays, CalleeStays DEF CallerMoves
<1>4. CASE ~closed
  <2>1. StartSession(Caller, k) /\ Take(Msg("200", Caller, k), {Msg("ACK", Callee, k)})
    BY <1>4 DEF ReceiveOk
  <2>2. /\ media'[Callee] = media[Callee]
        /\ media'[Caller].leg = k /\ media'[Caller].mute = FALSE
    BY <1>1, <1>4, <2>1, StartFacts, TwoPhones DEF IInv
  <2>3. Answered(k)
    <3>1. Msg("200", Caller, k) \in net
      BY <2>1, TakeFacts
    <3> QED BY <3>1, MsgFields DEF IInv, MessagesSound, Sound, Answered
  <2>4. ~Hears(Callee, k)
    BY <1>1, <1>4 DEF IInv, CalleeSound
  <2>5. CalleeView(k) \in {"answered", "over"}
    BY <2>3, <2>4 DEF CalleeView, Answered
  <2>6. UNCHANGED CalleeView(l)
    BY <1>1, <2>2, CalleeStays
  <2>7. CallerView(l) = "calling" /\ CallerView(l)' \in {"talking", "over"}
    BY <1>1, <1>2, <1>4 DEF CallerView
  <2>8. Hears(Caller, l)' => l = k
    <3>1. Hears(Caller, l)' => media'[Caller].leg = l
      BY DEF Hears
    <3> QED BY <2>2, <3>1
  <2>9. CallerView(l)' = "talking" => l = k
    BY <1>1, <1>4, <2>8 DEF CallerView
  <2> QED BY <2>5, <2>6, <2>7, <2>9 DEF CallerMoves
<1> QED BY <1>3, <1>4

LEMMA ReceiveRefusalMoves ==
    ASSUME IInv, NEW kind, NEW k, ReceiveRefusal(kind, k), NEW l \in Legs
    PROVE  CallerMoves(l)
<1>1. /\ app' = "over" /\ app # "none" /\ UNCHANGED <<media, rings>>
      /\ media[Caller] = Off
  BY DEF ReceiveRefusal, Expecting, IInv, Waiting, NotCalled, calleeVars
<1>2. UNCHANGED CalleeView(l)
  BY <1>1, CalleeStays
<1>3. ~Hears(Caller, l) /\ ~Hears(Caller, l)'
  BY <1>1, Silent, TwoPhones DEF Hears
<1> QED BY <1>1, <1>2, <1>3 DEF CallerMoves, CallerView

LEMMA ReceiveInviteMoves == ASSUME IInv, ReceiveInvite, NEW l \in Legs PROVE CalleeMoves(l)
<1>1. UNCHANGED <<app, media>> /\ net # {}
  BY TakeFacts DEF ReceiveInvite, callerVars, calleeVars, mediaVars
<1>2. UNCHANGED CallerView(l) /\ CallerView(l) # "idle"
  BY <1>1, CallerStays DEF CallerView, IInv, NotCalled
<1>3. CASE UNCHANGED rings
  BY <1>1, <1>2, <1>3, CalleeStays DEF CalleeMoves
<1>4. CASE ist = "none" /\ rings' = [rings EXCEPT ![leg + 1] = "ringing"]
  <2>1. \A n \in Legs : rings'[n] = IF n = leg + 1 THEN "ringing" ELSE rings[n]
    BY <1>4 DEF IInv, TypeOK
  <2>2. CASE l = leg + 1
    <3>1. rings[l] = "none" /\ rings'[l] = "ringing"
      BY <2>1, <2>2, LegFacts DEF IInv, LastLeg, TypeOK
    <3>2. ~Hears(Callee, l) /\ ~Hears(Callee, l)'
      BY <1>1, <3>1 DEF IInv, CalleeSound, Hears
    <3> QED BY <1>2, <3>1, <3>2 DEF CalleeMoves, CalleeView
  <2>3. CASE l # leg + 1
    BY <1>1, <1>2, <2>1, <2>3, CalleeStays DEF CalleeMoves
  <2> QED BY <2>2, <2>3
<1> QED BY <1>3, <1>4 DEF ReceiveInvite, calleeVars

LEMMA AcceptMoves == ASSUME IInv, NEW k \in Legs, Accept(k), NEW l \in Legs PROVE CalleeMoves(l)
<1>1. /\ rings[k] = "ringing" /\ rings' = [rings EXCEPT ![k] = "accepted"]
      /\ UNCHANGED <<app, media>>
  BY DEF Accept, callerVars
<1>2. \A n \in Legs : rings'[n] = IF n = k THEN "accepted" ELSE rings[n]
  BY <1>1 DEF IInv, TypeOK
<1>3. UNCHANGED CallerView(l)
  BY <1>1, CallerStays
<1>4. CASE l = k
  <2>1. ~Hears(Callee, l) /\ ~Hears(Callee, l)'
    BY <1>1, <1>4 DEF IInv, CalleeSound, Hears
  <2> QED BY <1>1, <1>2, <1>3, <1>4, <2>1 DEF CalleeMoves, CalleeView
<1>5. CASE l # k
  BY <1>1, <1>2, <1>3, <1>5, CalleeStays DEF CalleeMoves
<1> QED BY <1>4, <1>5

LEMMA RejectMoves == ASSUME IInv, NEW k \in Legs, Reject(k), NEW l \in Legs PROVE CalleeMoves(l)
<1>1. /\ rings[k] = "ringing" /\ rings' = [rings EXCEPT ![k] = "refused"]
      /\ UNCHANGED <<app, media>>
  BY DEF Reject, callerVars
<1>2. \A n \in Legs : rings'[n] = IF n = k THEN "refused" ELSE rings[n]
  BY <1>1 DEF IInv, TypeOK
<1>3. UNCHANGED CallerView(l)
  BY <1>1, CallerStays
<1>4. CASE l = k
  <2>1. ~Hears(Callee, l) /\ ~Hears(Callee, l)'
    BY <1>1, <1>4 DEF IInv, CalleeSound, Hears
  <2> QED BY <1>1, <1>2, <1>3, <1>4, <2>1 DEF CalleeMoves, CalleeView
<1>5. CASE l # k
  BY <1>1, <1>2, <1>3, <1>5, CalleeStays DEF CalleeMoves
<1> QED BY <1>4, <1>5

LEMMA HangUpCalleeMoves ==
    ASSUME IInv, NEW k \in Legs, HangUpCallee(k), NEW l \in Legs
    PROVE  CalleeMoves(l)
<1>1. /\ rings[k] = "accepted" /\ rings' = [rings EXCEPT ![k] = "hungUp"] /\ UNCHANGED app
  BY DEF HangUpCallee, callerVars
<1>2. \A n \in Legs : rings'[n] = IF n = k THEN "hungUp" ELSE rings[n]
  BY <1>1 DEF IInv, TypeOK
<1>3. media'[Callee] = Off /\ media'[Caller] = media[Caller]
  BY StopFacts, TwoPhones DEF HangUpCallee, IInv
<1>4. UNCHANGED CallerView(l)
  BY <1>1, <1>3, CallerStays
<1>5. ~Hears(Callee, l)'
  BY <1>3, SilentNext, TwoPhones
<1>6. CASE l = k
  BY <1>1, <1>2, <1>4, <1>5, <1>6 DEF CalleeMoves, CalleeView
<1>7. CASE l # k
  <2>1. rings[l] # "accepted"
    BY <1>1, <1>7 DEF IInv, LastLeg, Answered
  <2>2. ~Hears(Callee, l)
    BY <2>1 DEF IInv, CalleeSound
  <2> QED BY <1>2, <1>4, <1>5, <1>7, <2>2 DEF CalleeMoves, CalleeView
<1> QED BY <1>6, <1>7

LEMMA ReceiveAnyCancelMoves ==
    ASSUME IInv, ReceiveAnyCancel, NEW l \in Legs
    PROVE  CalleeMoves(l)
<1>1. UNCHANGED <<app, media>>
  BY DEF ReceiveAnyCancel, callerVars, mediaVars
<1>2. UNCHANGED CallerView(l)
  BY <1>1, CallerStays
<1>3. CASE UNCHANGED rings
  BY <1>1, <1>2, <1>3, CalleeStays DEF CalleeMoves
<1>4. CASE ist = "PROCEEDING" /\ rings' = [rings EXCEPT ![answer.leg] = "refused"]
  <2>1. answer.leg = leg /\ leg \in Legs /\ rings[leg] = "ringing"
    BY <1>4, MsgFields DEF IInv, LastLeg
  <2>2. \A n \in Legs : rings'[n] = IF n = leg THEN "refused" ELSE rings[n]
    BY <1>4, <2>1 DEF IInv, TypeOK
  <2>3. CASE l = leg
    <3>1. ~Hears(Callee, l) /\ ~Hears(Callee, l)'
      BY <1>1, <2>1, <2>3 DEF IInv, CalleeSound, Hears
    <3> QED BY <1>2, <2>1, <2>2, <2>3, <3>1 DEF CalleeMoves, CalleeView
  <2>4. CASE l # leg
    BY <1>1, <1>2, <2>2, <2>4, CalleeStays DEF CalleeMoves
  <2> QED BY <2>3, <2>4
<1> QED BY <1>3, <1>4 DEF ReceiveAnyCancel, ReceiveCancel

(* The callee hears the caller, who has seen the answer, unless it has hung*)
(* up: then there is no socket.                                            *)
LEMMA ReceiveAckMoves ==
    ASSUME IInv, NEW k \in Legs, ReceiveAck(k), NEW l \in Legs
    PROVE  CalleeMoves(l)
<1>1. UNCHANGED <<app, rings>>
  BY DEF ReceiveAck, callerVars, calleeVars
<1>2. Answered(k) /\ app \in {"talking", "hungUp", "over"}
  <2>1. Msg("ACK", Callee, k) \in net
    BY TakeFacts DEF ReceiveAck
  <2> QED BY <2>1, MsgFields DEF IInv, MessagesSound, Sound, Answered
<1>3. CASE UNCHANGED media
  BY <1>1, <1>3, CallerStays, CalleeStays DEF CalleeMoves
<1>4. CASE k \in dialogs[Callee] /\ StartSession(Callee, k)
  <2>1. /\ media'[Callee].leg = k /\ media'[Callee].mute = ~socket[Callee]
        /\ media'[Callee] = [leg |-> k, mute |-> ~socket[Callee]]
        /\ media'[Caller] = media[Caller]
    BY <1>4, StartFacts, TwoPhones DEF IInv
  <2>2. UNCHANGED CallerView(l)
    BY <1>1, <2>1, CallerStays
  <2>3. rings[k] \in {"accepted", "hungUp"} /\ (rings[k] = "accepted" <=> socket[Callee])
    BY <1>2, <1>4 DEF Answered, IInv, CalleeSound
  <2>4. Hears(Callee, l)' => l = k /\ socket[Callee]
    <3>1. Hears(Callee, l)' => media'[Callee].leg = l /\ media'[Callee].mute = FALSE
      BY DEF Hears
    <3> QED BY <2>1, <3>1
  <2>5. Hears(Callee, l) => rings[l] = "accepted"
    BY DEF IInv, CalleeSound
  <2>6. rings[l] = "accepted" => l = k
    BY <1>2 DEF IInv, LastLeg, Answered
  <2>7. CASE l = k /\ socket[Callee]
    <3>1. Hears(Callee, l)'
      BY <2>1, <2>7 DEF Hears
    <3>2. CalleeView(l)' = "talking" /\ CalleeView(l) \in {"answered", "talking"}
      BY <2>3, <2>7, <3>1 DEF CalleeView
    <3>3. CallerView(l) \in {"talking", "over"}
      BY <1>2 DEF CallerView
    <3> QED BY <2>2, <3>2, <3>3 DEF CalleeMoves
  <2>8. CASE ~(l = k /\ socket[Callee])
    <3>1. ~Hears(Callee, l) /\ ~Hears(Callee, l)'
      BY <2>3, <2>4, <2>5, <2>6, <2>8
    <3> QED BY <1>1, <2>2, <3>1 DEF CalleeMoves, CalleeView
  <2> QED BY <2>7, <2>8
<1> QED BY <1>3, <1>4 DEF ReceiveAck, HandleAck, mediaVars

LEMMA ReceiveByeMoves ==
    ASSUME IInv, NEW p \in Phones, NEW k \in Legs, ReceiveBye(p, k), NEW l \in Legs
    PROVE  CallerMoves(l) \/ CalleeMoves(l)
<1>1. CASE UNCHANGED <<app, rings, media>>
  BY <1>1, NobodyMoves
<1>2. CASE HandleBye(p, k)
  <2>1. /\ media'[p] = Off
        /\ \A q \in Phones \ {p} : media'[q] = media[q]
    BY <1>2, StopFacts DEF HandleBye, IInv
  <2>2. Msg("BYE", p, k) \in net
    BY TakeFacts DEF ReceiveBye
  <2>3. app # "none" /\ (p = Callee => Answered(k))
    BY <2>2, MsgFields DEF IInv, NotCalled, MessagesSound, Sound, Answered
  <2>4. ~Hears(p, l)'
    BY <2>1, SilentNext
  <2>5. CASE p = Caller
    <3>1. app' = "over" /\ rings' = rings /\ media'[Callee] = media[Callee]
      BY <1>2, <2>1, <2>5, TwoPhones DEF HandleBye, Told
    <3>2. UNCHANGED CalleeView(l)
      BY <3>1, CalleeStays
    <3> QED BY <2>3, <2>4, <2>5, <3>1, <3>2 DEF CallerMoves, CallerView
  <2>6. CASE p = Callee
    <3>1. /\ app' = app /\ rings' = [rings EXCEPT ![k] = "over"]
          /\ media'[Caller] = media[Caller]
      BY <1>2, <2>1, <2>6, TwoPhones DEF HandleBye, Told
    <3>2. \A n \in Legs : rings'[n] = IF n = k THEN "over" ELSE rings[n]
      BY <3>1 DEF IInv, TypeOK
    <3>3. UNCHANGED CallerView(l)
      BY <3>1, CallerStays
    <3>4. CASE l = k
      <4>1. rings[l] \in {"accepted", "hungUp", "over"} /\ rings'[l] = "over"
        BY <2>3, <2>6, <3>2, <3>4 DEF Answered
      <4> QED BY <2>4, <2>6, <3>3, <4>1 DEF CalleeMoves, CalleeView
    <3>5. CASE l # k
      <4>1. rings[l] # "accepted"
        BY <2>3, <2>6, <3>5 DEF IInv, LastLeg, Answered
      <4>2. ~Hears(Callee, l) /\ rings'[l] = rings[l]
        BY <3>2, <3>5, <4>1 DEF IInv, CalleeSound
      <4> QED BY <2>4, <2>6, <3>3, <4>2 DEF CalleeMoves, CalleeView
    <3> QED BY <3>4, <3>5
  <2> QED BY <2>5, <2>6, TwoPhones
<1> QED BY <1>1, <1>2 DEF ReceiveBye, mediaVars

LEMMA HandleMoves ==
    ASSUME IInv, NEW m \in Message, Handle(m), NEW l \in Legs
    PROVE  CallerMoves(l) \/ CalleeMoves(l)
<1>1. /\ m.kind \in Kinds /\ m.to \in Phones /\ m.leg \in 0 .. MaxLegs
      /\ m.kind \in {"180", "200", "ACK", "BYE", "200BYE"} => m.leg \in Legs
  BY MessageFields DEF Handle, IInv, MessagesSound, Sound
<1>2. CASE m.kind = "180" /\ ReceiveRinging(m.leg)
  BY <1>1, <1>2, ReceiveRingingMoves
<1>3. CASE m.kind = "200" /\ ReceiveOk(m.leg)
  BY <1>1, <1>3, ReceiveOkMoves
<1>4. CASE ReceiveRefusal(m.kind, m.leg)
  BY <1>1, <1>4, ReceiveRefusalMoves
<1>5. CASE ReceiveLateResponse(m) \/ CancelAnswered
  BY <1>5, NobodyMoves DEF ReceiveLateResponse, CancelAnswered, calleeVars, mediaVars
<1>6. CASE ReceiveInvite
  BY <1>6, ReceiveInviteMoves
<1>7. CASE ReceiveAnyCancel
  BY <1>7, ReceiveAnyCancelMoves
<1>8. CASE m.kind = "ACK" /\ ReceiveAck(m.leg)
  BY <1>1, <1>8, ReceiveAckMoves
<1>9. CASE ReceiveAckOfRefusal(m.leg)
  <2>1. UNCHANGED <<app, rings>>
    BY <1>9 DEF ReceiveAckOfRefusal, callerVars
  <2>2. ist = "none" => ~mediaDest
    BY DEF IInv, LastLeg
  <2>3. UNCHANGED media
    BY <1>9, <2>2 DEF ReceiveAckOfRefusal, HandleAck, mediaVars
  <2> QED BY <2>1, <2>3, NobodyMoves
<1>10. CASE m.kind = "BYE" /\ ReceiveBye(m.to, m.leg)
  BY <1>1, <1>10, ReceiveByeMoves
<1>11. CASE ByeAnswered(m.to, m.leg)
  BY <1>11, NobodyMoves DEF ByeAnswered, callerVars, calleeVars, mediaVars
<1> QED BY <1>2, <1>3, <1>4, <1>5, <1>6, <1>7, <1>8, <1>9, <1>10, <1>11 DEF Handle

LEMMA NextMoves ==
    ASSUME IInv, [Next]_vars, NEW l \in Legs
    PROVE  CallerMoves(l) \/ CalleeMoves(l)
<1>1. CASE \E m \in net : Handle(m)
  BY <1>1, HandleMoves DEF IInv, TypeOK
<1>2. CASE Repeat
  BY <1>2, NobodyMoves DEF Repeat, RepeatInvite, RepeatCancel, RepeatAnswer, RepeatBye,
                           callerVars, calleeVars, mediaVars
<1>3. CASE Users
  BY <1>3, InviteMoves, HangUpCallerMoves, AcceptMoves, RejectMoves, HangUpCalleeMoves
     DEF Users
<1>4. CASE Timeouts
  BY <1>4, NobodyMoves DEF Timeouts, InviteEnds, CancelFails, AnswerEnds, ByeFails,
                           callerVars, calleeVars, mediaVars
<1>5. CASE Lose \/ UNCHANGED vars
  BY <1>5, NobodyMoves DEF Lose, vars, callerVars, calleeVars, mediaVars
<1> QED BY <1>1, <1>2, <1>3, <1>4, <1>5 DEF Next

(* EndToEnd implements PhoneCall, for every leg of the call.               *)
THEOREM PromiseKept == Spec => Promise
<1>1. Init => \A l \in Legs : Call(l)!Init
  <2> SUFFICES ASSUME Init, NEW l \in Legs PROVE Call(l)!Init
    OBVIOUS
  <2>1. media[Caller] = Off /\ media[Callee] = Off /\ app = "none" /\ rings[l] = "none"
    BY TwoPhones DEF Init
  <2>2. ~Hears(Caller, l) /\ ~Hears(Callee, l)
    BY <2>1, Silent, TwoPhones
  <2> QED BY <2>1, <2>2 DEF Call!Init, CallerView, CalleeView
<1>2. IInv /\ [Next]_vars =>
          [\A l \in Legs : Call(l)!Next \/ UNCHANGED <<CallerView(l), CalleeView(l)>>]_vars
  BY NextMoves, MovesAreCalls
<1> QED BY <1>1, <1>2, Inductive, PTL DEF Spec, Promise
=============================================================================
