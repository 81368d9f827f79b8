------------------------ MODULE OutgoingCall_proofs ------------------------
(***************************************************************************)
(* Theorems about OutgoingCall, for every set of calls, of application     *)
(* threads and of racing timers, and for every number of INVITEs: the      *)
(* variables keep their types; terminate sends no BYE before the peer's    *)
(* final answer unless the call was challenged twice; a challenge is       *)
(* answered; a dialog state throws only after a late timer A task revived  *)
(* an answered transaction; and where no task does so, a call that the     *)
(* application has ended is not forgotten, nor is its RTP session.         *)
(***************************************************************************)
EXTENDS OutgoingCall, TLAPS

(* A thread that works on something works on an INVITE that was sent.      *)
Anchored ==
    \A t \in Threads :
        /\ thread[t].step # "idle" => On(t) \in Txns
        /\ thread[t].step \notin {"idle", "dead"} => ct[On(t)] # "none"
        /\ thread[t].step = "lock" => thread[t].found \in Txns

(* What the transactions record.  Only an INVITE that was sent is          *)
(* answered; one whose CSeq was rewritten was refused; and an INVITE is    *)
(* repeated only after all earlier ones of its call were challenged.       *)
Recorded(x) ==
    /\ heard[x] # {} \/ timers[x] # {} => ct[x] # "none"
    /\ 180 \in heard[x] => heard[x] \cap Challenge = {}
    /\ ct[x] # "none" /\ x \notin invites => heard[x] \cap Failure # {}
    /\ ct[x] # "none" =>
          \A n \in 1 .. MaxAttempts :
              n < x[2] => heard[<<Call(x), n>>] \cap Challenge # {}

Records ==
    /\ \A x \in Txns : Recorded(x)
    /\ \A c \in Calls : app[c] # "none" => ct[<<c, 1>>] # "none"

(* The response the receiver thread is handling is the last one of its     *)
(* transaction, and of the class of the handler it is in.                  *)
Handling ==
    /\ \A t \in Threads :
          thread[t].step \in {"response", "ring", "err", "confirm"} =>
              t = Receiver /\ last[On(t)] \in heard[On(t)] \cup {100}
    /\ At(Receiver, "ring") => last[On(Receiver)] = 180
    /\ At(Receiver, "err") => last[On(Receiver)] \in Failure
    /\ At(Receiver, "confirm") => last[On(Receiver)] = 200

(* A challenge that will be answered with a new INVITE is not received     *)
(* when the bound on INVITEs is reached.                                   *)
Room ==
    LET x == On(Receiver)
    IN  (/\ \/ At(Receiver, "err")
            \/ At(Receiver, "response") /\ thread[Receiver].seen \in {"CALLING", "PROCEEDING"}
         /\ HasPassword
         /\ IsChallenge(last[x]))
        => x[2] < MaxAttempts

(* The peer has answered with a tag; the peer has picked up.               *)
Opened(c) == \E x \in Txns : Call(x) = c /\ heard[x] \cap {180, 200} # {}
PickedUp(c) == \E x \in Txns : Call(x) = c /\ 200 \in heard[x]

(* What terminate relies on when it chooses between CANCEL and BYE.        *)
Dialogs ==
    /\ \A c \in dialogs : Opened(c)
    /\ \A t \in Threads : thread[t].step \in {"found", "lock"} => Opened(CallOf(t))
    /\ \A c \in Calls : dialog[c] = "CONFIRMED" => PickedUp(c)

IInv == TypeOK /\ Anchored /\ Records /\ Handling /\ Room /\ Dialogs /\ ByeFollowsFinal

-----------------------------------------------------------------------------
(***************************************************************************)
(* Lemmas about the helpers                                                *)
(***************************************************************************)

LEMMA ThreadsType == Receiver \in Threads /\ TimerThread \in Threads /\ Receiver # TimerThread
BY DEF Threads, Receiver, TimerThread

(* A transaction is a call and a number.                                   *)
LEMMA TxnsType ==
    /\ \A x \in Txns : Call(x) \in Calls /\ x[2] \in 1 .. MaxAttempts /\ x = <<Call(x), x[2]>>
    /\ \A c \in Calls : \A n \in 1 .. MaxAttempts :
          <<c, n>> \in Txns /\ Call(<<c, n>>) = c /\ <<c, n>>[2] = n
    /\ \A c \in Calls : <<c, 1>> \in Txns
    /\ \A x \in Txns : x[2] < MaxAttempts => Next1(x) \in Txns
BY OutCallsAssumption DEF Txns, Call, Next1

LEMMA DialogAfterType == \A st, e : DialogAfter(st, e) \in DialogState
BY DEF DialogAfter, DialogState

(* Goto and Advance keep frames well formed, and change one thread.        *)
LEMMA GotoType ==
    ASSUME TypeOK, NEW t \in Threads, NEW frame \in Frame, Goto(t, frame)
    PROVE  /\ thread' \in [Threads -> Frame]
           /\ thread'[t] = frame
           /\ \A u \in Threads \ {t} : thread'[u] = thread[u]
BY DEF Goto, TypeOK

LEMMA AdvanceType ==
    ASSUME TypeOK, NEW t \in Threads, NEW step \in Step, Advance(t, step)
    PROVE  /\ thread' \in [Threads -> Frame]
           /\ thread'[t].step = step
           /\ thread'[t].txn = thread[t].txn
           /\ thread'[t].op = thread[t].op
           /\ thread'[t].seen = thread[t].seen
           /\ thread'[t].found = thread[t].found
           /\ \A u \in Threads \ {t} : thread'[u] = thread[u]
<1>1. thread[t] \in Frame
  BY DEF TypeOK
<1>2. [thread[t] EXCEPT !.step = step] \in Frame
  BY <1>1 DEF Frame
<1>3. Goto(t, [thread[t] EXCEPT !.step = step])
  BY DEF Advance
<1>4. /\ thread' \in [Threads -> Frame]
      /\ thread'[t] = [thread[t] EXCEPT !.step = step]
      /\ \A u \in Threads \ {t} : thread'[u] = thread[u]
  BY <1>2, <1>3, GotoType
<1> QED BY <1>1, <1>4 DEF Frame

LEMMA IdleType == Idle \in Frame /\ Idle.step = "idle" /\ Idle.op = "none" /\ Idle.txn = None
BY DEF Idle, Frame, Step, CtState

LEMMA BeginType ==
    ASSUME NEW op \in {"response", "hangup"} \cup DueTimers, NEW step \in Step,
           NEW x \in Txns, NEW s \in CtState
    PROVE  /\ Begin(op, step, x, s) \in Frame
           /\ Begin(op, step, x, s).step = step
           /\ Begin(op, step, x, s).txn = x
           /\ Begin(op, step, x, s).seen = s
BY DEF Begin, Frame

(* The actions that a step of the system may be.                           *)
LEMMA Cases ==
    ASSUME [Next]_vars
    PROVE  \/ \E x \in Txns, code \in Codes : ReceiveResponse(x, code)
           \/ \E c \in Calls : ByeSuccessResponseReceived(c) \/ HandleBye(c) \/ Invite(c)
           \/ \E t \in AppThreads, c \in Calls : Hangup(t, c)
           \/ \E t \in Threads : TerminateStep(t)
           \/ \E s \in {"CALLING", "PROCEEDING"} :
                 Received1xx(s) \/ Received2xx(s) \/ Received300To699(s)
           \/ Ring \/ Confirm \/ CheckClosed \/ ChallengeReceived \/ CallRefused
           \/ CompletedReceived300To699 \/ ResponseIgnored \/ InvalidDialogTransition
           \/ \E x \in Txns, task \in DueTimers : TimerFires(x, task)
           \/ CallingTimerA \/ CallingTimerB \/ CompletedTimerD \/ TimerIgnored
           \/ UNCHANGED vars
BY ThreadsType DEF Next, Peer, Application, ReceiverStep, TimerStep, Threads,
   CallingReceived1xx, ProceedingReceived1xx, CallingReceived2xx, ProceedingReceived2xx,
   CallingReceived300To699, ProceedingReceived300To699

-----------------------------------------------------------------------------
(***************************************************************************)
(* Types                                                                   *)
(***************************************************************************)

(* The steps of UAC.terminate, in whichever thread it runs.                *)
LEMMA TerminateTypes ==
    ASSUME TypeOK, Anchored, NEW t \in Threads, TerminateStep(t)
    PROVE  TypeOK'
<1> USE DEF ctVars, dialogVars, uacVars, handlerVars, mediaVars
<1>1. CASE Close(t)
  <2>1. On(t) \in Txns
    BY <1>1 DEF Anchored, Close, At
  <2>2. thread' \in [Threads -> Frame]
    BY <1>1, AdvanceType DEF Close, Step
  <2> QED BY <1>1, <2>1, <2>2, TxnsType DEF Close, TypeOK, CallOf
<1>2. CASE Lookup(t)
  <2>1. thread' \in [Threads -> Frame]
    BY <1>2, AdvanceType DEF Lookup, Step
  <2> QED BY <1>2, <2>1 DEF Lookup, TypeOK
<1>3. CASE EndDialogWithoutTransaction(t)
  <2>1. On(t) \in Txns
    BY <1>3 DEF Anchored, EndDialogWithoutTransaction, At
  <2>2. thread' \in [Threads -> Frame]
    BY <1>3, AdvanceType DEF EndDialogWithoutTransaction, Step
  <2> QED BY <1>3, <2>1, <2>2, TxnsType DEF EndDialogWithoutTransaction, SendBye, TypeOK, CallOf
<1>4. CASE FindTransaction(t)
  <2>1. PICK x \in InviteWithAuth(CallOf(t)) :
          Goto(t, [thread[t] EXCEPT !.step = "lock", !.found = x])
    BY <1>4 DEF FindTransaction
  <2>2. x \in Txns
    BY DEF InviteWithAuth, Attempts
  <2>3. [thread[t] EXCEPT !.step = "lock", !.found = x] \in Frame
    <3>1. thread[t] \in Frame
      BY DEF TypeOK
    <3> QED BY <2>2, <3>1 DEF Frame, Step
  <2>4. thread' \in [Threads -> Frame]
    BY <2>1, <2>3, GotoType
  <2> QED BY <1>4, <2>4 DEF FindTransaction, TypeOK
<1>5. CASE EndDialog(t)
  <2>1. On(t) \in Txns /\ thread[t].found \in Txns
    BY <1>5 DEF Anchored, EndDialog, At
  <2>2. thread' \in [Threads -> Frame]
    BY <1>5, AdvanceType DEF EndDialog, Step
  <2>3. /\ cancels' \subseteq cancels \cup {thread[t].found}
        /\ bye' \in [Calls -> {"none", "sent", "answered"}]
        /\ byeIn' = byeIn
        /\ guiClosed' \subseteq guiClosed
    BY <1>5 DEF EndDialog, SendCancel, SendBye, TypeOK
  <2> QED BY <1>5, <2>1, <2>2, <2>3 DEF EndDialog, TypeOK
<1>6. CASE EndTransaction(t)
  <2>1. thread' \in [Threads -> Frame]
    BY <1>6, AdvanceType DEF EndTransaction, Step
  <2>2. PICK x \in InviteWithAuth(CallOf(t)) : cancels' \subseteq cancels \cup {x}
    BY <1>6 DEF EndTransaction, SendCancel
  <2>3. x \in Txns
    BY DEF InviteWithAuth, Attempts
  <2> QED BY <1>6, <2>1, <2>2, <2>3 DEF EndTransaction, TypeOK
<1>7. CASE StopSession(t)
  <2>1. thread' \in [Threads -> Frame]
    BY <1>7, GotoType, IdleType DEF StopSession
  <2> QED BY <1>7, <2>1 DEF StopSession, TypeOK
<1> QED BY <1>1, <1>2, <1>3, <1>4, <1>5, <1>6, <1>7 DEF TerminateStep

LEMMA TypeStep == TypeOK /\ Anchored /\ Room /\ [Next]_vars => TypeOK'
<1> SUFFICES ASSUME TypeOK, Anchored, Room, [Next]_vars PROVE TypeOK'
  OBVIOUS
<1> USE ThreadsType DEF ctVars, dialogVars, uacVars, handlerVars, mediaVars
<1>1. ASSUME NEW x \in Txns, NEW code \in Codes, ReceiveResponse(x, code) PROVE TypeOK'
  <2>1. thread' \in [Threads -> Frame]
    BY <1>1, BeginType, GotoType DEF ReceiveResponse, Step, TypeOK
  <2>2. {code} \ {100} \subseteq {180} \cup Final
    BY OutCallsAssumption DEF Final, Failure
  <2> QED BY <1>1, <2>1, <2>2 DEF ReceiveResponse, TypeOK
<1>2. ASSUME NEW c \in Calls, ByeSuccessResponseReceived(c) \/ HandleBye(c) PROVE TypeOK'
  <2>1. thread' \in [Threads -> Frame]
    <3>1. DieOnBye(c) \/ UNCHANGED thread
      BY <1>2 DEF ByeSuccessResponseReceived, HandleBye
    <3>2. CASE DieOnBye(c)
      BY <3>2, BeginType, GotoType, TxnsType DEF DieOnBye, Step, CtState
    <3> QED BY <3>1, <3>2 DEF TypeOK
  <2>2. dialog' \in [Calls -> DialogState] /\ dialogs' \subseteq Calls
    BY <1>2, DialogAfterType DEF ByeSuccessResponseReceived, HandleBye, DieOnBye,
       RemoveDialog, TypeOK
  <2>3. CASE ByeSuccessResponseReceived(c)
    BY <2>1, <2>2, <2>3 DEF ByeSuccessResponseReceived, TypeOK
  <2>4. CASE HandleBye(c)
    BY <2>1, <2>2, <2>4 DEF HandleBye, TypeOK, AppState
  <2> QED BY <1>2, <2>3, <2>4
<1>3. ASSUME NEW c \in Calls, Invite(c) PROVE TypeOK'
  BY <1>3, TxnsType DEF Invite, StartInvite, SetState, TypeOK, CtState, AppState
<1>4. ASSUME NEW t \in AppThreads, NEW c \in Calls, Hangup(t, c) PROVE TypeOK'
  <2>1. thread' \in [Threads -> Frame]
    <3>1. t \in Threads /\ <<c, 1>> \in Txns
      BY TxnsType DEF Threads
    <3>2. Begin("hangup", "close", <<c, 1>>, "none") \in Frame
      BY <3>1, BeginType DEF Step, CtState
    <3> QED BY <1>4, <3>1, <3>2, GotoType DEF Hangup
  <2> QED BY <1>4, <2>1 DEF Hangup, TypeOK, AppState
<1>5. ASSUME NEW t \in Threads, TerminateStep(t) PROVE TypeOK'
  BY <1>5, TerminateTypes
<1>6. ASSUME NEW s \in {"CALLING", "PROCEEDING"}, Received1xx(s) PROVE TypeOK'
  <2>1. CallOf(Receiver) \in Calls
    BY <1>6, TxnsType DEF Received1xx, Receiving, At, Anchored, CallOf
  <2>2. thread' \in [Threads -> Frame]
    BY <1>6, AdvanceType DEF Received1xx, Step
  <2>3. ct' \in [Txns -> CtState]
    BY <1>6 DEF Received1xx, SetState, TypeOK, CtState
  <2>4. dialogs' \subseteq Calls /\ dialog' \in [Calls -> DialogState]
    BY <1>6, <2>1 DEF Received1xx, TypeOK, DialogState, CallOf
  <2> QED BY <1>6, <2>2, <2>3, <2>4 DEF Received1xx, TypeOK
<1>7. ASSUME NEW s \in {"CALLING", "PROCEEDING"}, Received2xx(s) PROVE TypeOK'
  <2>1. CallOf(Receiver) \in Calls
    BY <1>7, TxnsType DEF Received2xx, Receiving, At, Anchored, CallOf
  <2>2. thread' \in [Threads -> Frame]
    BY <1>7, AdvanceType DEF Received2xx, Step
  <2>3. mediaDest' \in Calls \cup {None}
    BY <1>7, <2>1 DEF Received2xx, CallOf, TypeOK
  <2>4. session' \in RtpSession \cup {None}
    BY <1>7, <2>3 DEF Received2xx, RtpSession, TypeOK
  <2> QED BY <1>7, <2>1, <2>2, <2>3, <2>4 DEF Received2xx, SetState, TypeOK, CtState,
             DialogState, CallOf
<1>8. ASSUME NEW s \in {"CALLING", "PROCEEDING"}, Received300To699(s) PROVE TypeOK'
  <2>1. thread' \in [Threads -> Frame]
    BY <1>8, AdvanceType DEF Received300To699, Step
  <2> QED BY <1>8, <2>1 DEF Received300To699, SetState, TypeOK, CtState
<1>9. CASE Ring
  <2>1. thread' \in [Threads -> Frame]
    BY <1>9, AdvanceType DEF Ring, Step
  <2> QED BY <1>9, <2>1, DialogAfterType DEF Ring, TypeOK
<1>10. CASE Confirm
  <2>1. CallOf(Receiver) \in Calls
    BY <1>10, TxnsType DEF Confirm, At, Anchored, CallOf
  <2>2. thread' \in [Threads -> Frame]
    BY <1>10, AdvanceType DEF Confirm, Step
  <2> QED BY <1>10, <2>1, <2>2, DialogAfterType DEF Confirm, TypeOK
<1>11. CASE CheckClosed
  <2>1. thread' \in [Threads -> Frame]
    BY <1>11, AdvanceType, GotoType, IdleType DEF CheckClosed, Step
  <2> QED BY <1>11, <2>1 DEF CheckClosed, TypeOK
<1>12. CASE ChallengeReceived
  <2> DEFINE x == On(Receiver)
  <2>1. x \in Txns
    BY <1>12 DEF ChallengeReceived, At, Anchored
  <2>2. thread' \in [Threads -> Frame]
    BY <1>12, GotoType, IdleType DEF ChallengeReceived
  <2>3. HasPassword => Next1(x) \in Txns /\ Call(Next1(x)) \in Calls
    BY <1>12, <2>1, TxnsType DEF ChallengeReceived, Room
  <2>4. /\ ct' \in [Txns -> CtState]
        /\ invites' \subseteq Txns
        /\ timers' \in [Txns -> SUBSET DueTimers]
        /\ socket' \in Calls \cup {None}
    BY <1>12, <2>3 DEF ChallengeReceived, StartInvite, SetState, TypeOK, CtState
  <2> QED BY <1>12, <2>2, <2>4, DialogAfterType DEF ChallengeReceived, RefuseDialog, TypeOK
<1>13. CASE CallRefused
  <2>1. thread' \in [Threads -> Frame]
    BY <1>13, GotoType, IdleType DEF CallRefused
  <2> QED BY <1>13, <2>1, DialogAfterType DEF CallRefused, RefuseDialog, TypeOK, AppState
<1>14. CASE CompletedReceived300To699
  <2>1. thread' \in [Threads -> Frame]
    BY <1>14, GotoType, IdleType DEF CompletedReceived300To699
  <2> QED BY <1>14, <2>1 DEF CompletedReceived300To699, SetState, TypeOK, CtState
<1>15. CASE ResponseIgnored
  <2>1. thread' \in [Threads -> Frame]
    BY <1>15, GotoType, IdleType DEF ResponseIgnored
  <2> QED BY <1>15, <2>1 DEF ResponseIgnored, TypeOK
<1>16. CASE InvalidDialogTransition
  <2>1. thread' \in [Threads -> Frame]
    BY <1>16, AdvanceType DEF InvalidDialogTransition, Step
  <2> QED BY <1>16, <2>1 DEF InvalidDialogTransition, TypeOK
<1>17. ASSUME NEW x \in Txns, NEW task \in DueTimers, TimerFires(x, task) PROVE TypeOK'
  <2>1. thread' \in [Threads -> Frame]
    <3>1. Begin(task, "timer", x, ct[x]) \in Frame
      <4>1. ct[x] \in CtState
        BY DEF TypeOK
      <4>2. task \in {"response", "hangup"} \cup DueTimers /\ "timer" \in Step
        BY DEF Step
      <4> QED BY <4>1, <4>2, BeginType
    <3> QED BY <1>17, <3>1, GotoType DEF TimerFires
  <2> QED BY <1>17, <2>1 DEF TimerFires, TypeOK
<1>18. CASE CallingTimerA \/ CallingTimerB \/ CompletedTimerD \/ TimerIgnored
  <2>1. thread' \in [Threads -> Frame]
    BY <1>18, GotoType, IdleType DEF CallingTimerA, CallingTimerB, CompletedTimerD, TimerIgnored
  <2>2. CASE CallingTimerA
    <3>1. "A" \in DueTimers
      BY <2>2 DEF CallingTimerA, Firing, At, TypeOK, Frame
    <3>2. On(TimerThread) \in Txns
      BY <2>2 DEF CallingTimerA, Firing, At, Anchored
    <3>3. revived' \in SUBSET Txns
      BY <2>2, <3>2 DEF CallingTimerA, TypeOK
    <3>4. ct' \in [Txns -> CtState] /\ timers' \in [Txns -> SUBSET DueTimers]
      BY <2>2, <3>1 DEF CallingTimerA, SetState, TypeOK, CtState
    <3> QED BY <2>1, <2>2, <3>3, <3>4 DEF CallingTimerA, TypeOK
  <2>3. CASE CallingTimerB
    BY <2>1, <2>3 DEF CallingTimerB, SetState, TypeOK, CtState
  <2>4. CASE CompletedTimerD
    BY <2>1, <2>4 DEF CompletedTimerD, SetState, TypeOK, CtState
  <2>5. CASE TimerIgnored
    BY <2>1, <2>5 DEF TimerIgnored, TypeOK
  <2> QED BY <1>18, <2>2, <2>3, <2>4, <2>5
<1>19. CASE UNCHANGED vars
  BY <1>19 DEF vars, TypeOK
<1> QED
  BY <1>1, <1>2, <1>3, <1>4, <1>5, <1>6, <1>7, <1>8, <1>9, <1>10, <1>11, <1>12,
     <1>13, <1>14, <1>15, <1>16, <1>17, <1>18, <1>19, Cases

-----------------------------------------------------------------------------
(***************************************************************************)
(* What most actions leave alone                                           *)
(***************************************************************************)

(* Transactions are never forgotten, and what a peer has answered neither. *)
Grows ==
    \A x \in Txns : heard[x] \subseteq heard'[x] /\ (ct[x] # "none" => ct'[x] # "none")

(* No transaction begins, no INVITE is answered or loses its CSeq.         *)
KeepsRecords ==
    /\ UNCHANGED <<heard, invites>>
    /\ \A x \in Txns :
          /\ ct'[x] # "none" <=> ct[x] # "none"
          /\ timers'[x] # {} => timers[x] # {} \/ ct[x] # "none"
    /\ \A c \in Calls : app'[c] # "none" => app[c] # "none"

(* At most one thread moves, and not into the handling of a response.      *)
KeepsHandling ==
    /\ UNCHANGED <<last, heard>>
    /\ \/ UNCHANGED <<thread, challenged>>
       \/ \E t \in Threads :
             /\ \A u \in Threads \ {t} : thread'[u] = thread[u]
             /\ thread'[t].step \notin {"response", "ring", "err", "confirm"}
             /\ t # Receiver => UNCHANGED challenged

(* No dialog is created or confirmed, and no thread finds one.             *)
KeepsDialogs ==
    /\ dialogs' \subseteq dialogs
    /\ \A c \in Calls : dialog'[c] = "CONFIRMED" => dialog[c] = "CONFIRMED"
    /\ \A t \in Threads :
          thread'[t].step \in {"found", "lock"} => thread'[t] = thread[t]

KeepsBye == \A c \in Calls : bye'[c] # "none" => bye[c] # "none"

(* The steps of terminate that change neither transactions nor dialogs.    *)
LEMMA TerminateKeeps ==
    ASSUME TypeOK, Anchored, NEW t \in Threads, TerminateStep(t)
    PROVE  /\ UNCHANGED <<ctVars, dialogVars, handlerVars, app>>
           /\ Lookup(t) \/ FindTransaction(t) \/ KeepsDialogs
           /\ EndDialogWithoutTransaction(t) \/ EndDialog(t) \/ KeepsBye
           /\ KeepsHandling
           /\ KeepsRecords
<1>1. UNCHANGED <<ctVars, dialogVars, handlerVars, app>>
  BY DEF TerminateStep, Close, Lookup, EndDialogWithoutTransaction, FindTransaction,
     EndDialog, EndTransaction, StopSession
<1>2. EndDialogWithoutTransaction(t) \/ EndDialog(t) \/ KeepsBye
  BY DEF TerminateStep, Close, Lookup, FindTransaction, EndTransaction, StopSession,
     uacVars, KeepsBye
<1>3. \A u \in Threads \ {t} : thread'[u] = thread[u]
  BY DEF TerminateStep, Close, Lookup, EndDialogWithoutTransaction, FindTransaction,
     EndDialog, EndTransaction, StopSession, Advance, Goto, TypeOK
<1>4. thread'[t].step \notin {"response", "ring", "err", "confirm"}
  <2>1. CASE FindTransaction(t)
    BY <2>1 DEF FindTransaction, Goto, TypeOK, Frame
  <2>2. CASE StopSession(t)
    BY <2>2, GotoType, IdleType DEF StopSession
  <2>3. CASE ~FindTransaction(t) /\ ~StopSession(t)
    BY <2>3, AdvanceType DEF TerminateStep, Close, Lookup, EndDialogWithoutTransaction,
       EndDialog, EndTransaction, Step
  <2> QED BY <2>1, <2>2, <2>3
<1>5. Lookup(t) \/ FindTransaction(t) \/ KeepsDialogs
  <2> SUFFICES ASSUME ~Lookup(t), ~FindTransaction(t)
               PROVE  thread'[t].step \notin {"found", "lock"}
    BY <1>1, <1>3 DEF KeepsDialogs, dialogVars
  <2>1. CASE StopSession(t)
    BY <2>1, GotoType, IdleType DEF StopSession
  <2>2. CASE ~StopSession(t)
    BY <2>2, AdvanceType DEF TerminateStep, Close, EndDialogWithoutTransaction,
       EndDialog, EndTransaction, Step
  <2> QED BY <2>1, <2>2
<1>6. KeepsHandling
  BY <1>1, <1>3, <1>4 DEF KeepsHandling, ctVars, handlerVars
<1>7. KeepsRecords
  BY <1>1 DEF KeepsRecords, ctVars
<1> QED BY <1>1, <1>2, <1>5, <1>6, <1>7

(* A timer task changes transactions and its own thread only.              *)
LEMMA TimerKeeps ==
    ASSUME TypeOK, Anchored, Records,
           \/ \E x \in Txns, task \in DueTimers : TimerFires(x, task)
           \/ CallingTimerA \/ CallingTimerB \/ CompletedTimerD \/ TimerIgnored
    PROVE  KeepsRecords /\ KeepsHandling /\ KeepsDialogs /\ KeepsBye
<1> USE ThreadsType
<1>1. UNCHANGED <<last, heard, invites, dialogVars, uacVars, handlerVars, app>>
  BY DEF TimerFires, CallingTimerA, CallingTimerB, CompletedTimerD, TimerIgnored, ctVars
<1>2. /\ \A u \in Threads \ {TimerThread} : thread'[u] = thread[u]
      /\ thread'[TimerThread].step \in {"idle", "timer"}
  BY IdleType DEF TimerFires, CallingTimerA, CallingTimerB, CompletedTimerD, TimerIgnored,
     Goto, Begin, TypeOK
<1>3. KeepsRecords
  <2>1. CASE CallingTimerA \/ CallingTimerB \/ CompletedTimerD
    <3>1. On(TimerThread) \in Txns /\ ct[On(TimerThread)] # "none"
      BY <2>1 DEF CallingTimerA, CallingTimerB, CompletedTimerD, Firing, At, Anchored
    <3> QED BY <1>1, <2>1, <3>1 DEF CallingTimerA, CallingTimerB, CompletedTimerD,
               SetState, KeepsRecords, TypeOK
  <2>2. CASE (\E x \in Txns, task \in DueTimers : TimerFires(x, task)) \/ TimerIgnored
    BY <1>1, <2>2 DEF TimerFires, TimerIgnored, ctVars, KeepsRecords, TypeOK
  <2> QED BY <2>1, <2>2
<1>4. KeepsHandling
  BY <1>1, <1>2 DEF KeepsHandling, handlerVars
<1> QED BY <1>1, <1>2, <1>3, <1>4 DEF KeepsDialogs, KeepsBye, dialogVars, uacVars

(* A step of an application that begins or ends a call, and a BYE.         *)
LEMMA CallKeeps ==
    ASSUME TypeOK, Anchored, Records, NEW c \in Calls,
           \/ Invite(c)
           \/ \E t \in AppThreads : Hangup(t, c)
           \/ ByeSuccessResponseReceived(c)
           \/ HandleBye(c)
    PROVE  /\ Invite(c) \/ KeepsRecords
           /\ KeepsHandling
           /\ KeepsDialogs
           /\ KeepsBye
<1> USE ThreadsType
<1>1. CASE Invite(c)
  BY <1>1 DEF Invite, StartInvite, KeepsHandling, KeepsDialogs, KeepsBye,
     dialogVars, uacVars, handlerVars
<1>2. ASSUME NEW t \in AppThreads, Hangup(t, c)
      PROVE  KeepsRecords /\ KeepsHandling /\ KeepsDialogs /\ KeepsBye
  <2>1. t \in Threads
    BY DEF Threads
  <2>2. /\ \A u \in Threads \ {t} : thread'[u] = thread[u]
        /\ thread'[t].step = "close"
    BY <1>2, <2>1 DEF Hangup, Goto, Begin, TypeOK
  <2>3. \A d \in Calls : app'[d] # "none" => app[d] # "none"
    BY <1>2 DEF Hangup, TypeOK
  <2> QED BY <1>2, <2>1, <2>2, <2>3 DEF Hangup, KeepsRecords, KeepsHandling, KeepsDialogs,
             KeepsBye, ctVars, dialogVars, uacVars, handlerVars
<1>3. ASSUME ByeSuccessResponseReceived(c) \/ HandleBye(c)
      PROVE  KeepsRecords /\ KeepsHandling /\ KeepsDialogs /\ KeepsBye
  <2>1. UNCHANGED <<ctVars, handlerVars>> \/ UNCHANGED <<ctVars, challenged>>
    BY <1>3 DEF ByeSuccessResponseReceived, HandleBye, handlerVars
  <2>2. \/ UNCHANGED thread
        \/ /\ \A u \in Threads \ {Receiver} : thread'[u] = thread[u]
           /\ thread'[Receiver].step = "dead"
    BY <1>3 DEF ByeSuccessResponseReceived, HandleBye, DieOnBye, Goto, Begin, TypeOK
  <2>3. \A d \in Calls : (app'[d] # "none" => app[d] # "none") /\ (bye'[d] # "none" => bye[d] # "none")
    BY <1>3 DEF ByeSuccessResponseReceived, HandleBye, TypeOK
  <2>4. /\ dialogs' \subseteq dialogs
        /\ \A d \in Calls : dialog'[d] = "CONFIRMED" => dialog[d] = "CONFIRMED"
    BY <1>3 DEF ByeSuccessResponseReceived, HandleBye, RemoveDialog, DieOnBye, DialogAfter,
       TypeOK, dialogVars
  <2> QED BY <2>1, <2>2, <2>3, <2>4 DEF KeepsRecords, KeepsHandling, KeepsDialogs, KeepsBye,
             ctVars, handlerVars
<1> QED BY <1>1, <1>2, <1>3

(* The steps of the receiver thread that a response causes.                *)
ReceiverActs ==
    \/ \E x \in Txns, code \in Codes : ReceiveResponse(x, code)
    \/ \E s \in {"CALLING", "PROCEEDING"} :
          Received1xx(s) \/ Received2xx(s) \/ Received300To699(s)
    \/ Ring \/ Confirm \/ CheckClosed \/ ChallengeReceived \/ CallRefused
    \/ CompletedReceived300To699 \/ ResponseIgnored \/ InvalidDialogTransition

Receives1xx == \E s \in {"CALLING", "PROCEEDING"} : Received1xx(s)
Receives2xx == \E s \in {"CALLING", "PROCEEDING"} : Received2xx(s)
Receives300To699 == \E s \in {"CALLING", "PROCEEDING"} : Received300To699(s)
ReceivesResponse == \E x \in Txns, code \in Codes : ReceiveResponse(x, code)

(* Only the receiver thread moves, and never into terminate's look-up.     *)
LEMMA ReceiverMoves ==
    ASSUME TypeOK, Anchored, ReceiverActs
    PROVE  /\ \A u \in Threads \ {Receiver} : thread'[u] = thread[u]
           /\ thread'[Receiver].step \notin {"found", "lock"}
           /\ \/ ReceivesResponse \/ Receives1xx \/ Receives2xx \/ Receives300To699
              \/ thread'[Receiver].step \notin {"response", "ring", "err", "confirm"}
<1> USE ThreadsType
<1>1. thread[Receiver] \in Frame
  BY DEF TypeOK
<1>2. CASE ReceivesResponse
  <2>1. PICK x \in Txns, code \in Codes : ReceiveResponse(x, code)
    BY <1>2 DEF ReceivesResponse
  <2>2. /\ \A u \in Threads \ {Receiver} : thread'[u] = thread[u]
        /\ thread'[Receiver] = Begin("response", "response", x, ct[x])
    BY <2>1 DEF ReceiveResponse, Goto, TypeOK
  <2> QED BY <1>2, <2>2 DEF Begin
<1>3. CASE Receives1xx \/ Receives2xx \/ Receives300To699
  BY <1>1, <1>3 DEF Receives1xx, Receives2xx, Receives300To699, Received1xx, Received2xx,
     Received300To699, Advance, Goto, TypeOK, Frame
<1>4. CASE Ring \/ Confirm \/ CheckClosed \/ InvalidDialogTransition
  BY <1>1, <1>4, IdleType DEF Ring, Confirm, CheckClosed, InvalidDialogTransition,
     Advance, Goto, TypeOK, Frame
<1>5. CASE ChallengeReceived \/ CallRefused \/ CompletedReceived300To699 \/ ResponseIgnored
  BY <1>5, IdleType DEF ChallengeReceived, CallRefused, CompletedReceived300To699,
     ResponseIgnored, Goto, TypeOK
<1> QED BY <1>2, <1>3, <1>4, <1>5 DEF ReceiverActs, ReceivesResponse, Receives1xx,
           Receives2xx, Receives300To699

LEMMA ReceiverKeeps ==
    ASSUME TypeOK, Anchored, Records, ReceiverActs
    PROVE  /\ ReceivesResponse \/ Receives300To699 \/ ChallengeReceived \/ KeepsRecords
           /\ ReceivesResponse \/ Receives1xx \/ Receives2xx \/ Receives300To699 \/ KeepsHandling
           /\ Receives1xx \/ Receives2xx \/ Confirm \/ KeepsDialogs
           /\ KeepsBye
<1> USE ThreadsType
<1>1. ReceivesResponse \/ (UNCHANGED <<last, heard>>)
  BY DEF ReceiverActs, ReceivesResponse, Received1xx, Received2xx, Received300To699, Ring,
     Confirm, CheckClosed, ChallengeReceived, CallRefused, CompletedReceived300To699,
     ResponseIgnored, InvalidDialogTransition, ctVars
<1>2. KeepsBye
  BY DEF ReceiverActs, ReceiveResponse, Received1xx, Received2xx, Received300To699, Ring,
     Confirm, CheckClosed, ChallengeReceived, CallRefused, CompletedReceived300To699,
     ResponseIgnored, InvalidDialogTransition, uacVars, KeepsBye
<1>3. \/ ReceivesResponse \/ Receives1xx \/ Receives2xx \/ Receives300To699
      \/ KeepsHandling
  BY <1>1, ReceiverMoves DEF KeepsHandling
<1>4. Receives1xx \/ Receives2xx \/ Confirm \/ KeepsDialogs
  <2> SUFFICES ASSUME ~Receives1xx, ~Receives2xx, ~Confirm
               PROVE  KeepsDialogs
    OBVIOUS
  <2>1. /\ dialogs' \subseteq dialogs
        /\ \A c \in Calls : dialog'[c] = "CONFIRMED" => dialog[c] = "CONFIRMED"
    <3>1. CASE ChallengeReceived \/ CallRefused
      BY <3>1 DEF ChallengeReceived, CallRefused, RefuseDialog, DialogAfter, TypeOK
    <3>2. CASE Ring
      BY <3>2 DEF Ring, DialogAfter, TypeOK
    <3>3. CASE ~(ChallengeReceived \/ CallRefused \/ Ring)
      BY <3>3 DEF ReceiverActs, Receives1xx, Receives2xx, ReceiveResponse, Received300To699,
         CheckClosed, CompletedReceived300To699, ResponseIgnored, InvalidDialogTransition,
         dialogVars
    <3> QED BY <3>1, <3>2, <3>3
  <2> QED BY <2>1, ReceiverMoves DEF KeepsDialogs
<1>5. ReceivesResponse \/ Receives300To699 \/ ChallengeReceived \/ KeepsRecords
  <2> SUFFICES ASSUME ~ReceivesResponse, ~Receives300To699, ~ChallengeReceived
               PROVE  KeepsRecords
    OBVIOUS
  <2>1. UNCHANGED <<heard, invites, timers>>
    BY DEF ReceiverActs, ReceivesResponse, Receives300To699, Received1xx, Received2xx, Ring,
       Confirm, CheckClosed, CallRefused, CompletedReceived300To699, ResponseIgnored,
       InvalidDialogTransition, ctVars
  <2>2. \A c \in Calls : app'[c] # "none" => app[c] # "none"
    BY DEF ReceiverActs, ReceivesResponse, Receives300To699, Received1xx, Received2xx, Ring,
       Confirm, CheckClosed, CallRefused, CompletedReceived300To699, ResponseIgnored,
       InvalidDialogTransition, TypeOK
  <2>3. \A x \in Txns : ct'[x] # "none" <=> ct[x] # "none"
    <3>1. CASE Receives1xx \/ Receives2xx \/ CompletedReceived300To699
      <4>1. On(Receiver) \in Txns /\ ct[On(Receiver)] # "none"
        BY <3>1 DEF Receives1xx, Receives2xx, Received1xx, Received2xx,
           CompletedReceived300To699, Receiving, At, Anchored
      <4> QED BY <3>1, <4>1 DEF Receives1xx, Receives2xx, Received1xx, Received2xx,
                 CompletedReceived300To699, SetState, TypeOK
    <3>2. CASE ~(Receives1xx \/ Receives2xx \/ CompletedReceived300To699)
      BY <3>2 DEF ReceiverActs, ReceivesResponse, Receives300To699, Receives1xx, Receives2xx,
         Ring, Confirm, CheckClosed, CallRefused, ResponseIgnored,
         InvalidDialogTransition, ctVars
    <3> QED BY <3>1, <3>2
  <2> QED BY <2>1, <2>2, <2>3 DEF KeepsRecords
<1> QED BY <1>2, <1>3, <1>4, <1>5

-----------------------------------------------------------------------------
(***************************************************************************)
(* The parts of the invariant, step by step                                *)
(***************************************************************************)

(* Every step is of one of these kinds.                                    *)
LEMMA Kinds ==
    ASSUME [Next]_vars
    PROVE  \/ ReceiverActs
           \/ \E t \in Threads : TerminateStep(t)
           \/ \E c \in Calls : \/ Invite(c) \/ \E t \in AppThreads : Hangup(t, c)
                               \/ ByeSuccessResponseReceived(c) \/ HandleBye(c)
           \/ \/ \E x \in Txns, task \in DueTimers : TimerFires(x, task)
              \/ CallingTimerA \/ CallingTimerB \/ CompletedTimerD \/ TimerIgnored
           \/ UNCHANGED vars
BY Cases DEF ReceiverActs

LEMMA KeepsRecordsUnless ==
    ASSUME TypeOK, Anchored, Records, [Next]_vars
    PROVE  \/ ReceivesResponse \/ Receives300To699 \/ ChallengeReceived
           \/ \E c \in Calls : Invite(c)
           \/ KeepsRecords
<1>1. CASE UNCHANGED vars
  BY <1>1 DEF vars, ctVars, KeepsRecords
<1> QED BY <1>1, Kinds, ReceiverKeeps, TerminateKeeps, CallKeeps, TimerKeeps

LEMMA KeepsHandlingUnless ==
    ASSUME TypeOK, Anchored, Records, [Next]_vars
    PROVE  \/ ReceivesResponse \/ Receives1xx \/ Receives2xx \/ Receives300To699
           \/ KeepsHandling
<1>1. CASE UNCHANGED vars
  BY <1>1 DEF vars, ctVars, handlerVars, KeepsHandling
<1> QED BY <1>1, Kinds, ReceiverKeeps, TerminateKeeps, CallKeeps, TimerKeeps

LEMMA KeepsDialogsUnless ==
    ASSUME TypeOK, Anchored, Records, [Next]_vars
    PROVE  \/ Receives1xx \/ Receives2xx \/ Confirm
           \/ \E t \in Threads : Lookup(t) \/ FindTransaction(t)
           \/ KeepsDialogs
<1>1. CASE UNCHANGED vars
  BY <1>1 DEF vars, dialogVars, KeepsDialogs
<1> QED BY <1>1, Kinds, ReceiverKeeps, TerminateKeeps, CallKeeps, TimerKeeps

LEMMA KeepsByeUnless ==
    ASSUME TypeOK, Anchored, Records, [Next]_vars
    PROVE  \/ \E t \in Threads : EndDialogWithoutTransaction(t) \/ EndDialog(t)
           \/ KeepsBye
<1>1. CASE UNCHANGED vars
  BY <1>1 DEF vars, uacVars, KeepsBye
<1> QED BY <1>1, Kinds, ReceiverKeeps, TerminateKeeps, CallKeeps, TimerKeeps

LEMMA GrowsStep ==
    ASSUME TypeOK, Anchored, Records, [Next]_vars
    PROVE  Grows
<1>1. CASE KeepsRecords
  BY <1>1 DEF KeepsRecords, Grows
<1>2. CASE ReceivesResponse
  BY <1>2 DEF ReceivesResponse, ReceiveResponse, Grows, TypeOK
<1>3. CASE Receives300To699
  BY <1>3 DEF Receives300To699, Received300To699, SetState, Grows, TypeOK
<1>4. CASE ChallengeReceived
  BY <1>4 DEF ChallengeReceived, StartInvite, SetState, Grows, TypeOK
<1>5. ASSUME NEW c \in Calls, Invite(c) PROVE Grows
  BY <1>5 DEF Invite, StartInvite, SetState, Grows, TypeOK
<1> QED BY <1>1, <1>2, <1>3, <1>4, <1>5, KeepsRecordsUnless

LEMMA RecordsStep ==
    ASSUME TypeOK, Anchored, Records, Handling, Room, [Next]_vars
    PROVE  Records'
<1> USE TxnsType, ThreadsType
<1>1. CASE KeepsRecords
  BY <1>1, GrowsStep DEF KeepsRecords, Records, Recorded, Grows
<1>2. ASSUME NEW x \in Txns, NEW code \in Codes, ReceiveResponse(x, code) PROVE Records'
  <2>1. UNCHANGED <<ct, invites, timers, app>>
    BY <1>2 DEF ReceiveResponse
  <2>2. /\ heard'[x] = heard[x] \cup ({code} \ {100})
        /\ \A y \in Txns \ {x} : heard'[y] = heard[y]
        /\ ct[x] # "none"
    BY <1>2 DEF ReceiveResponse, TypeOK
  <2>3. 180 \in heard'[x] => heard'[x] \cap Challenge = {}
    BY <1>2, <2>2 DEF ReceiveResponse, MaySend, Challenge, Records, Recorded
  <2> QED BY <2>1, <2>2, <2>3, GrowsStep DEF Records, Recorded, Grows
<1>3. CASE Receives300To699
  <2>1. UNCHANGED <<heard, timers, app>>
    BY <1>3 DEF Receives300To699, Received300To699
  <2>2. /\ On(Receiver) \in Txns /\ ct[On(Receiver)] # "none"
        /\ heard[On(Receiver)] \cap Failure # {}
    BY <1>3 DEF Receives300To699, Received300To699, Receiving, At, Anchored, Handling, Failure
  <2>3. \A x \in Txns : (ct'[x] # "none" <=> ct[x] # "none")
    BY <1>3, <2>2 DEF Receives300To699, Received300To699, SetState, TypeOK
  <2>4. invites' = invites \ {On(Receiver)}
    BY <1>3 DEF Receives300To699, Received300To699
  <2> QED BY <2>1, <2>2, <2>3, <2>4 DEF Records, Recorded
<1>4. CASE ChallengeReceived
  <2>1. PICK x \in Txns : x = On(Receiver) /\ ct[x] # "none" /\ heard[x] \cap Challenge # {}
    BY <1>4 DEF ChallengeReceived, At, Anchored, Handling, IsChallenge, Challenge
  <2>2. UNCHANGED <<heard, app>>
    BY <1>4 DEF ChallengeReceived
  <2>3. CASE ~HasPassword
    BY <1>4, <2>2, <2>3 DEF ChallengeReceived, Records, Recorded
  <2>4. CASE HasPassword
    <3>1. PICK y \in Txns : y = Next1(x) /\ Call(y) = Call(x) /\ y[2] = x[2] + 1
      BY <1>4, <2>1, <2>4 DEF ChallengeReceived, Room, Next1, Call
    <3>2. /\ ct'[y] = "CALLING" /\ y \in invites'
          /\ invites \subseteq invites'
          /\ \A z \in Txns \ {y} : ct'[z] = ct[z] /\ timers'[z] = timers[z]
      BY <1>4, <2>1, <2>4, <3>1 DEF ChallengeReceived, StartInvite, SetState, TypeOK
    <3>3. \A n \in 1 .. MaxAttempts : n < y[2] => heard[<<Call(y), n>>] \cap Challenge # {}
      <4>1. \A n \in 1 .. MaxAttempts : n < y[2] => n < x[2] \/ n = x[2]
        BY <2>1, <3>1, OutCallsAssumption
      <4> QED BY <2>1, <3>1, <4>1 DEF Records, Recorded
    <3>4. Recorded(y)'
      BY <2>2, <3>1, <3>2, <3>3 DEF Records, Recorded
    <3>5. \A z \in Txns \ {y} : Recorded(z)'
      BY <2>2, <3>2 DEF Records, Recorded
    <3>6. \A c \in Calls : app'[c] # "none" => ct'[<<c, 1>>] # "none"
      BY <2>2, <3>2 DEF Records
    <3> QED BY <3>4, <3>5, <3>6 DEF Records
  <2> QED BY <2>3, <2>4
<1>5. ASSUME NEW c \in Calls, Invite(c) PROVE Records'
  <2> DEFINE y == <<c, 1>>
  <2>1. UNCHANGED heard
    BY <1>5 DEF Invite
  <2>2. /\ y \in Txns /\ Call(y) = c /\ y[2] = 1
        /\ ct'[y] = "CALLING" /\ invites' = invites \cup {y}
        /\ \A z \in Txns \ {y} : ct'[z] = ct[z] /\ timers'[z] = timers[z]
        /\ \A d \in Calls \ {c} : app'[d] = app[d]
    BY <1>5 DEF Invite, StartInvite, SetState, TypeOK, Call
  <2>3. Recorded(y)'
    BY <2>1, <2>2, OutCallsAssumption DEF Records, Recorded
  <2>4. \A z \in Txns \ {y} : Recorded(z)'
    BY <2>1, <2>2 DEF Records, Recorded
  <2>5. \A d \in Calls : app'[d] # "none" => ct'[<<d, 1>>] # "none"
    BY <2>2 DEF Records
  <2> QED BY <2>3, <2>4, <2>5 DEF Records
<1> QED BY <1>1, <1>2, <1>3, <1>4, <1>5, KeepsRecordsUnless DEF ReceivesResponse

(* A thread that moves stays anchored if it keeps its transaction, or takes *)
(* one that was sent.                                                      *)
LEMMA AnchoredMove ==
    ASSUME TypeOK, Anchored, Grows, NEW t \in Threads,
           \A u \in Threads \ {t} : thread'[u] = thread[u],
           \/ thread'[t].step = "idle"
           \/ /\ thread[t].step \notin {"idle", "dead"}
              /\ thread'[t].txn = thread[t].txn
              /\ thread'[t].step = "lock" => thread'[t].found \in Txns
           \/ /\ thread'[t].step # "lock"
              /\ thread'[t].txn \in Txns
              /\ thread'[t].step = "dead" \/ ct[thread'[t].txn] # "none"
    PROVE  Anchored'
BY DEF Anchored, Grows, On

LEMMA AnchoredStep ==
    ASSUME TypeOK, Anchored, Records, [Next]_vars
    PROVE  Anchored'
<1> USE ThreadsType
<1>1. Grows
  BY GrowsStep
<1>2. CASE UNCHANGED thread
  BY <1>1, <1>2 DEF Anchored, Grows, On
<1>3. ASSUME NEW x \in Txns, NEW code \in Codes, ReceiveResponse(x, code) PROVE Anchored'
  <2>1. /\ \A u \in Threads \ {Receiver} : thread'[u] = thread[u]
        /\ thread'[Receiver] = Begin("response", "response", x, ct[x])
        /\ ct[x] # "none"
    BY <1>3 DEF ReceiveResponse, Goto, TypeOK
  <2> QED BY <1>1, <2>1, AnchoredMove DEF Begin
<1>4. ASSUME ReceiverActs, ~ReceivesResponse PROVE Anchored'
  <2>1. \A u \in Threads \ {Receiver} : thread'[u] = thread[u]
    BY <1>4, ReceiverMoves
  <2>2. thread[Receiver].step \notin {"idle", "dead"}
    BY <1>4 DEF ReceiverActs, ReceivesResponse, Received1xx, Received2xx, Received300To699,
       Ring, Confirm, CheckClosed, ChallengeReceived, CallRefused, CompletedReceived300To699,
       ResponseIgnored, InvalidDialogTransition, Receiving, At
  <2>3. \/ thread'[Receiver].step = "idle"
        \/ thread'[Receiver].txn = thread[Receiver].txn /\ thread'[Receiver].step # "lock"
    <3>1. CASE ChallengeReceived \/ CallRefused \/ CompletedReceived300To699 \/ ResponseIgnored
      BY <3>1, IdleType DEF ChallengeReceived, CallRefused, CompletedReceived300To699,
         ResponseIgnored, Goto, TypeOK
    <3>2. CASE CheckClosed
      BY <3>2, IdleType, AdvanceType, GotoType DEF CheckClosed, Step
    <3>3. CASE Receives1xx \/ Receives2xx \/ Receives300To699
      BY <3>3, AdvanceType DEF Receives1xx, Receives2xx, Receives300To699, Received1xx,
         Received2xx, Received300To699, Step
    <3>4. CASE Ring \/ Confirm \/ InvalidDialogTransition
      BY <3>4, AdvanceType DEF Ring, Confirm, InvalidDialogTransition, Step
    <3> QED BY <1>4, <3>1, <3>2, <3>3, <3>4 DEF ReceiverActs, ReceivesResponse, Receives1xx,
               Receives2xx, Receives300To699
  <2> QED BY <1>1, <2>1, <2>2, <2>3, AnchoredMove
<1>5. ASSUME NEW t \in Threads, TerminateStep(t) PROVE Anchored'
  <2>1. thread[t].step \notin {"idle", "dead"}
    BY <1>5 DEF TerminateStep, Close, Lookup, EndDialogWithoutTransaction, FindTransaction,
       EndDialog, EndTransaction, StopSession, At
  <2>2. CASE FindTransaction(t)
    <3>1. PICK x \in InviteWithAuth(CallOf(t)) :
            Goto(t, [thread[t] EXCEPT !.step = "lock", !.found = x])
      BY <2>2 DEF FindTransaction
    <3>2. x \in Txns
      BY DEF InviteWithAuth, Attempts
    <3>3. /\ \A u \in Threads \ {t} : thread'[u] = thread[u]
          /\ thread'[t].txn = thread[t].txn /\ thread'[t].found = x
      BY <3>1 DEF Goto, TypeOK, Frame
    <3> QED BY <1>1, <2>1, <3>2, <3>3, AnchoredMove
  <2>3. CASE StopSession(t)
    BY <1>1, <2>3, IdleType, GotoType, AnchoredMove DEF StopSession
  <2>4. CASE ~FindTransaction(t) /\ ~StopSession(t)
    <3>1. PICK step \in Step \ {"lock"} : Advance(t, step)
      BY <1>5, <2>4 DEF TerminateStep, Close, Lookup, EndDialogWithoutTransaction, EndDialog,
         EndTransaction, Step
    <3> QED BY <1>1, <2>1, <3>1, AdvanceType, AnchoredMove
  <2> QED BY <2>2, <2>3, <2>4
<1>6. ASSUME NEW t \in AppThreads, NEW c \in Calls, Hangup(t, c) PROVE Anchored'
  <2>1. t \in Threads /\ <<c, 1>> \in Txns /\ ct[<<c, 1>>] # "none"
    BY <1>6, TxnsType DEF Hangup, Records, Threads
  <2>2. /\ \A u \in Threads \ {t} : thread'[u] = thread[u]
        /\ thread'[t] = Begin("hangup", "close", <<c, 1>>, "none")
    BY <1>6, <2>1 DEF Hangup, Goto, TypeOK
  <2> QED BY <1>1, <2>1, <2>2, AnchoredMove DEF Begin
<1>7. ASSUME NEW c \in Calls, DieOnBye(c) PROVE Anchored'
  <2>1. /\ \A u \in Threads \ {Receiver} : thread'[u] = thread[u]
        /\ thread'[Receiver] = Begin("response", "dead", <<c, 1>>, "none")
        /\ <<c, 1>> \in Txns
    BY <1>7, TxnsType DEF DieOnBye, Goto, TypeOK
  <2> QED BY <1>1, <2>1, AnchoredMove DEF Begin
<1>8. ASSUME NEW x \in Txns, NEW task \in DueTimers, TimerFires(x, task) PROVE Anchored'
  <2>1. /\ \A u \in Threads \ {TimerThread} : thread'[u] = thread[u]
        /\ thread'[TimerThread] = Begin(task, "timer", x, ct[x])
        /\ ct[x] # "none"
    BY <1>8 DEF TimerFires, Goto, TypeOK, Records, Recorded
  <2> QED BY <1>1, <2>1, AnchoredMove DEF Begin
<1>9. CASE CallingTimerA \/ CallingTimerB \/ CompletedTimerD \/ TimerIgnored
  BY <1>1, <1>9, GotoType, IdleType, AnchoredMove DEF CallingTimerA, CallingTimerB,
     CompletedTimerD, TimerIgnored
<1>10. ASSUME NEW c \in Calls, \/ Invite(c) \/ ByeSuccessResponseReceived(c) \/ HandleBye(c)
       PROVE  UNCHANGED thread \/ DieOnBye(c)
  BY <1>10 DEF Invite, ByeSuccessResponseReceived, HandleBye
<1> QED
  BY <1>2, <1>3, <1>4, <1>5, <1>6, <1>7, <1>8, <1>9, <1>10, Kinds DEF ReceivesResponse, vars

LEMMA HandlingStep ==
    ASSUME TypeOK, Anchored, Records, Handling, [Next]_vars
    PROVE  Handling'
<1> USE ThreadsType
<1>1. CASE KeepsHandling
  BY <1>1 DEF KeepsHandling, Handling, At, On
<1>2. ASSUME NEW x \in Txns, NEW code \in Codes, ReceiveResponse(x, code) PROVE Handling'
  <2>1. /\ \A u \in Threads \ {Receiver} : thread'[u] = thread[u]
        /\ thread'[Receiver].step = "response" /\ thread'[Receiver].txn = x
        /\ last'[x] = code /\ code \in heard'[x] \cup {100}
    BY <1>2 DEF ReceiveResponse, Goto, Begin, TypeOK
  <2> QED BY <2>1 DEF Handling, At, On
<1>3. CASE Receives1xx \/ Receives2xx \/ Receives300To699
  <2>1. UNCHANGED <<last, heard>> /\ At(Receiver, "response")
    BY <1>3 DEF Receives1xx, Receives2xx, Receives300To699, Received1xx, Received2xx,
       Received300To699, Receiving
  <2>2. /\ \A u \in Threads \ {Receiver} : thread'[u] = thread[u]
        /\ thread'[Receiver].txn = thread[Receiver].txn
        /\ \/ thread'[Receiver].step = "ring" /\ last[On(Receiver)] = 180
           \/ thread'[Receiver].step = "err" /\ last[On(Receiver)] \in Failure
           \/ thread'[Receiver].step = "confirm" /\ last[On(Receiver)] = 200
           \/ thread'[Receiver].step \in {"check", "dead"}
    BY <1>3, AdvanceType DEF Receives1xx, Receives2xx, Receives300To699, Received1xx,
       Received2xx, Received300To699, Receiving, Step
  <2> QED BY <2>1, <2>2 DEF Handling, At, On
<1> QED BY <1>1, <1>2, <1>3, KeepsHandlingUnless DEF ReceivesResponse

LEMMA RoomStep ==
    ASSUME TypeOK, Anchored, Records, Handling, Room, [Next]_vars
    PROVE  Room'
<1> USE ThreadsType
<1>1. CASE KeepsHandling
  BY <1>1 DEF KeepsHandling, Room, IsChallenge, At, On
<1>2. ASSUME NEW x \in Txns, NEW code \in Codes, ReceiveResponse(x, code) PROVE Room'
  <2>1. /\ thread'[Receiver].seen = ct[x] /\ thread'[Receiver].txn = x
        /\ thread'[Receiver].step = "response"
        /\ last'[x] = code /\ challenged' = challenged
    BY <1>2 DEF ReceiveResponse, Goto, Begin, TypeOK, handlerVars
  <2> QED BY <1>2, <2>1 DEF ReceiveResponse, WithinBound, Room, IsChallenge, At, On
<1>3. CASE Receives1xx \/ Receives2xx
  <2>1. thread'[Receiver].step \notin {"response", "err"}
    BY <1>3, AdvanceType DEF Receives1xx, Receives2xx, Received1xx, Received2xx, Step
  <2> QED BY <2>1 DEF Room, At
<1>4. CASE Receives300To699
  <2>1. /\ UNCHANGED <<last, challenged>> /\ At(Receiver, "response")
        /\ thread[Receiver].seen \in {"CALLING", "PROCEEDING"}
    BY <1>4 DEF Receives300To699, Received300To699, Receiving, handlerVars
  <2>2. thread'[Receiver].txn = thread[Receiver].txn
    BY <1>4, AdvanceType DEF Receives300To699, Received300To699, Step
  <2> QED BY <2>1, <2>2 DEF Room, IsChallenge, At, On
<1> QED BY <1>1, <1>2, <1>3, <1>4, KeepsHandlingUnless DEF ReceivesResponse

LEMMA OpenedGrows ==
    ASSUME Grows, NEW c \in Calls
    PROVE  (Opened(c) => Opened(c)') /\ (PickedUp(c) => PickedUp(c)')
BY DEF Grows, Opened, PickedUp

LEMMA DialogsStep ==
    ASSUME TypeOK, Anchored, Records, Handling, Dialogs, [Next]_vars
    PROVE  Dialogs'
<1> USE ThreadsType
<1>1. Grows
  BY GrowsStep
<1>2. dialogs \subseteq Calls
  BY DEF TypeOK
(* What was opened stays so: only what is new must be looked at.           *)
<1> DEFINE New ==
         /\ \A c \in dialogs' : c \in dialogs \/ (c \in Calls /\ Opened(c))
         /\ \A t \in Threads : thread'[t].step \in {"found", "lock"} =>
               \E c \in Calls : Opened(c) /\ c = CallOf(t)'
         /\ \A c \in Calls : dialog'[c] = "CONFIRMED" => PickedUp(c)
<1>3. SUFFICES New
  BY <1>1, <1>2, OpenedGrows DEF Dialogs
<1>4. \A t \in Threads : (thread'[t].step \in {"found", "lock"} /\ thread'[t] = thread[t])
         => \E c \in Calls : Opened(c) /\ c = CallOf(t)'
  BY TxnsType DEF Anchored, Dialogs, CallOf, On
<1>5. CASE KeepsDialogs
  BY <1>4, <1>5 DEF KeepsDialogs, Dialogs
<1>6. ASSUME ReceiverActs
      PROVE  \A t \in Threads : thread'[t].step \in {"found", "lock"} => thread'[t] = thread[t]
  BY <1>6, ReceiverMoves
<1>7. CASE Receives1xx
  <2>1. /\ On(Receiver) \in Txns /\ CallOf(Receiver) \in Calls
        /\ last[On(Receiver)] = 180 => 180 \in heard[On(Receiver)]
    BY <1>7, TxnsType DEF Receives1xx, Received1xx, Receiving, At, Anchored, Handling, CallOf
  <2>2. /\ \A c \in dialogs' : c \in dialogs \/ (c = CallOf(Receiver) /\ last[On(Receiver)] = 180)
        /\ \A c \in Calls : dialog'[c] = "CONFIRMED" => dialog[c] = "CONFIRMED"
    BY <1>7 DEF Receives1xx, Received1xx, CallOf, TypeOK
  <2>3. last[On(Receiver)] = 180 => Opened(CallOf(Receiver))
    BY <2>1 DEF Opened, CallOf
  <2> QED BY <1>4, <1>6, <1>7, <2>1, <2>2, <2>3 DEF Dialogs, ReceiverActs, Receives1xx
<1>8. CASE Receives2xx
  <2>1. /\ On(Receiver) \in Txns /\ CallOf(Receiver) \in Calls
        /\ 200 \in heard[On(Receiver)]
    BY <1>8, TxnsType DEF Receives2xx, Received2xx, Receiving, At, Anchored, Handling, CallOf
  <2>2. /\ \A c \in dialogs' : c \in dialogs \/ c = CallOf(Receiver)
        /\ \A c \in Calls : dialog'[c] = "CONFIRMED" => dialog[c] = "CONFIRMED"
    BY <1>8 DEF Receives2xx, Received2xx, CallOf, TypeOK
  <2>3. Opened(CallOf(Receiver))
    BY <2>1 DEF Opened, CallOf
  <2> QED BY <1>4, <1>6, <1>8, <2>1, <2>2, <2>3 DEF Dialogs, ReceiverActs, Receives2xx
<1>9. CASE Confirm
  <2>1. /\ On(Receiver) \in Txns /\ CallOf(Receiver) \in Calls
        /\ 200 \in heard[On(Receiver)]
    BY <1>9, TxnsType DEF Confirm, At, Anchored, Handling, CallOf
  <2>2. /\ dialogs' = dialogs
        /\ \A c \in Calls : dialog'[c] = dialog[c] \/ c = CallOf(Receiver)
    BY <1>9 DEF Confirm, TypeOK
  <2>3. PickedUp(CallOf(Receiver))
    BY <2>1 DEF PickedUp, CallOf
  <2> QED BY <1>4, <1>6, <1>9, <2>1, <2>2, <2>3 DEF Dialogs, ReceiverActs
<1>10. ASSUME NEW t \in Threads, Lookup(t) \/ FindTransaction(t) PROVE New
  <2>1. UNCHANGED dialogVars
    BY <1>10 DEF Lookup, FindTransaction
  <2>2. /\ \A u \in Threads \ {t} : thread'[u] = thread[u]
        /\ thread'[t].txn = thread[t].txn
    BY <1>10 DEF Lookup, FindTransaction, Advance, Goto, TypeOK, Frame
  <2>3. CallOf(t) \in Calls /\ CallOf(t)' = CallOf(t)
    BY <1>10, <2>2, TxnsType DEF Lookup, FindTransaction, At, Anchored, CallOf, On
  <2>4. thread'[t].step = "notFound" \/ Opened(CallOf(t))
    <3>1. CASE Lookup(t)
      BY <3>1, AdvanceType DEF Lookup, Dialogs, Step
    <3>2. CASE FindTransaction(t)
      BY <3>2 DEF FindTransaction, At, Dialogs
    <3> QED BY <1>10, <3>1, <3>2
  <2> QED BY <1>4, <2>1, <2>2, <2>3, <2>4 DEF Dialogs, dialogVars
<1> QED BY <1>5, <1>7, <1>8, <1>9, <1>10, KeepsDialogsUnless

(* The peer has given its final answer, or terminate cannot know.          *)
Settled(c) == ChallengedTwice(c) \/ \E x \in Attempts(c) : heard[x] \cap {200, 486} # {}

(* With a dialog, terminate fails to find the transaction of the INVITE it *)
(* works with only after a final answer or a second challenge.  A dialog   *)
(* was opened by an INVITE that was not challenged, and the one that is    *)
(* not found was refused: if it was challenged they are two, and the one   *)
(* with credentials is preferred, so that both have them.                  *)
LEMMA NotFoundIsSettled ==
    ASSUME TypeOK, Records, NEW c \in Calls, Opened(c),
           NEW x \in InviteWithAuth(c), x \notin invites
    PROVE  Settled(c)
<1> USE TxnsType
<1>1. x \in Attempts(c) /\ x \in Txns /\ Call(x) = c /\ ct[x] # "none"
  BY DEF InviteWithAuth, Attempts
<1>2. heard[x] \cap Failure # {}
  BY <1>1 DEF Records, Recorded
<1>3. PICK y \in Txns : Call(y) = c /\ heard[y] \cap {180, 200} # {}
  BY DEF Opened
<1>4. y \in Attempts(c)
  BY <1>3 DEF Records, Recorded, Attempts
<1>5. SUFFICES ASSUME 486 \notin heard[x], 200 \notin heard[y] PROVE ChallengedTwice(c)
  BY <1>1, <1>4 DEF Settled
<1>6. heard[x] \cap Challenge # {} /\ heard[y] \cap Challenge = {}
  BY <1>2, <1>3, <1>5 DEF Failure, Challenge, Records, Recorded
<1>7. x[2] # y[2]
  BY <1>1, <1>3, <1>6
<1>8. y[2] # 1
  <2>1. SUFFICES ASSUME y[2] = 1 PROVE FALSE
    OBVIOUS
  <2>2. 1 \in 1 .. MaxAttempts /\ 1 < x[2]
    BY <1>1, <1>7, <2>1, OutCallsAssumption
  <2>3. heard[<<c, 1>>] \cap Challenge # {}
    BY <1>1, <2>2 DEF Records, Recorded
  <2> QED BY <1>3, <1>6, <2>1, <2>3
<1>9. x[2] # 1
  BY <1>1, <1>3, <1>4, <1>8, OutCallsAssumption DEF InviteWithAuth
<1> QED BY <1>1, <1>3, <1>4, <1>7, <1>8, <1>9, OutCallsAssumption DEF ChallengedTwice

LEMMA ByeStep ==
    ASSUME TypeOK, Anchored, Records, Dialogs, ByeFollowsFinal, [Next]_vars
    PROVE  ByeFollowsFinal'
<1>1. \A c \in Calls : Settled(c) => Settled(c)'
  BY GrowsStep DEF Grows, Settled, ChallengedTwice, Attempts
<1>2. SUFFICES \A c \in Calls : bye'[c] # "none" => Settled(c)
  BY <1>1 DEF ByeFollowsFinal, Settled
<1>3. \A c \in Calls : bye[c] # "none" => Settled(c)
  BY DEF ByeFollowsFinal, Settled
<1>4. CASE KeepsBye
  BY <1>3, <1>4 DEF KeepsBye
<1>5. ASSUME NEW t \in Threads, EndDialogWithoutTransaction(t)
      PROVE  \A c \in Calls : bye'[c] # "none" => Settled(c)
  <2>1. CallOf(t) \in Calls /\ Opened(CallOf(t))
    BY <1>5, TxnsType DEF EndDialogWithoutTransaction, At, Anchored, Dialogs, CallOf
  <2>2. \A c \in Calls : bye'[c] = bye[c] \/ c = CallOf(t)
    BY <1>5 DEF EndDialogWithoutTransaction, SendBye, TypeOK
  <2>3. Settled(CallOf(t))
    BY <1>5, <2>1, NotFoundIsSettled DEF EndDialogWithoutTransaction
  <2> QED BY <1>3, <2>2, <2>3
<1>6. ASSUME NEW t \in Threads, EndDialog(t)
      PROVE  \A c \in Calls : bye'[c] # "none" => Settled(c)
  <2>1. CallOf(t) \in Calls
    BY <1>6, TxnsType DEF EndDialog, At, Anchored, CallOf
  <2>2. \A c \in Calls :
           bye'[c] = bye[c] \/ (c = CallOf(t) /\ dialog[CallOf(t)] = "CONFIRMED")
    BY <1>6 DEF EndDialog, SendBye, uacVars, TypeOK
  <2>3. dialog[CallOf(t)] = "CONFIRMED" => Settled(CallOf(t))
    BY <2>1 DEF Dialogs, PickedUp, Settled, Records, Recorded, Attempts
  <2> QED BY <1>3, <2>2, <2>3
<1> QED BY <1>4, <1>5, <1>6, KeepsByeUnless

-----------------------------------------------------------------------------
(***************************************************************************)
(* The theorems                                                            *)
(***************************************************************************)

LEMMA InitIInv == Init => IInv
<1> SUFFICES ASSUME Init PROVE IInv
  OBVIOUS
<1> USE ThreadsType, TxnsType, IdleType
<1>1. \A t \in Threads : thread[t] = Idle
  BY DEF Init
<1>2. TypeOK
  BY DEF Init, TypeOK, CtState, DialogState, AppState
<1>3. Anchored /\ Handling /\ Room
  BY <1>1 DEF Anchored, Handling, Room, At
<1>4. Records
  BY DEF Init, Records, Recorded
<1>5. Dialogs /\ ByeFollowsFinal
  BY <1>1 DEF Init, Dialogs, ByeFollowsFinal
<1> QED BY <1>2, <1>3, <1>4, <1>5 DEF IInv

LEMMA NextIInv == IInv /\ [Next]_vars => IInv'
BY TypeStep, AnchoredStep, RecordsStep, HandlingStep, RoomStep, DialogsStep, ByeStep DEF IInv

(* The inductive invariant holds in every reachable state.                 *)
THEOREM Inductive == Spec => []IInv
BY InitIInv, NextIInv, PTL DEF Spec

(* Every variable keeps its type; in particular a challenge is answered    *)
(* with an INVITE that the bound allows.                                   *)
THEOREM TypeCorrect == Spec => []TypeOK
<1>1. IInv => TypeOK
  BY DEF IInv
<1> QED BY <1>1, Inductive, PTL

(* terminate sends no BYE before the peer's final answer, whichever thread *)
(* runs it and whatever response or timer task overtakes it, unless the    *)
(* call was challenged twice.                                              *)
THEOREM NoEarlyBye == Spec => []ByeFollowsFinal
<1>1. IInv => ByeFollowsFinal
  BY DEF IInv
<1> QED BY <1>1, Inductive, PTL

-----------------------------------------------------------------------------
(***************************************************************************)
(* A challenge is answered                                                 *)
(***************************************************************************)

Doing(steps, x) == thread[Receiver].step \in steps /\ On(Receiver) = x

(* x was refused, or its refusal is handled as a copy.                     *)
Refused(x) ==
    \/ ct[x] = "COMPLETED"
    \/ Doing({"response"}, x) /\ thread[Receiver].seen = "COMPLETED"

Repeated(c) == \E x \in Attempts(c) : x[2] > 1
Elsewhere(c) == \E d \in Calls \ {c} : heard[<<d, 1>>] \cap Challenge # {}

(* The challenge the handler remembers is that of an INVITE that was       *)
(* answered.                                                               *)
Flagged ==
    challenged => \E x \in Txns :
        heard[x] \cap Challenge # {} /\ (HasPassword => Repeated(Call(x)))

Answered(c) ==
    Refused(<<c, 1>>) /\ heard[<<c, 1>>] \cap Challenge # {} =>
        Doing({"err", "dead"}, <<c, 1>>) \/ Repeated(c) \/ Elsewhere(c)

OneFinal(x) == \A i, j \in heard[x] \cap Final : i = j

Answering ==
    /\ \A x \in Txns : OneFinal(x) /\ (Refused(x) => heard[x] \cap Failure # {})
    /\ Flagged
    /\ HasPassword => \A c \in Calls : Answered(c)

(* What the receiver's frame does in a step.                               *)
LEMMA FrameStep ==
    ASSUME IInv, [Next]_vars
    PROVE  \/ UNCHANGED thread[Receiver]
           \/ \E x \in Txns, code \in Codes :
                 ReceiveResponse(x, code) /\ thread'[Receiver] = Begin("response", "response", x, ct[x])
           \/ \E c \in Calls :
                 /\ At(Receiver, "idle") /\ UNCHANGED ctVars
                 /\ thread'[Receiver] = Begin("response", "dead", <<c, 1>>, "none")
           \/ At(Receiver, "response") /\ (Receives1xx \/ Receives2xx \/ Receives300To699)
           \/ /\ thread[Receiver].step \notin {"idle", "dead"}
              /\ ReceiverActs \/ TerminateStep(Receiver)
              /\ ~(ReceivesResponse \/ Receives1xx \/ Receives2xx \/ Receives300To699)
              /\ thread'[Receiver].step \notin {"response", "ring", "err", "confirm"}
<1> USE ThreadsType DEF IInv
<1>1. CASE UNCHANGED vars
  BY <1>1 DEF vars
<1>2. ASSUME NEW x \in Txns, NEW code \in Codes, ReceiveResponse(x, code)
      PROVE  thread'[Receiver] = Begin("response", "response", x, ct[x])
  BY <1>2 DEF ReceiveResponse, Goto, TypeOK
<1>3. CASE ReceiverActs /\ ~ReceivesResponse
  <2>1. CASE Receives1xx \/ Receives2xx \/ Receives300To699
    BY <2>1 DEF Receives1xx, Receives2xx, Receives300To699, Received1xx, Received2xx,
       Received300To699, Receiving
  <2>2. CASE ~(Receives1xx \/ Receives2xx \/ Receives300To699)
    <3>1. thread'[Receiver].step \notin {"response", "ring", "err", "confirm"}
      BY <1>3, <2>2, ReceiverMoves
    <3>2. thread[Receiver].step \notin {"idle", "dead"}
      BY <1>3, <2>2 DEF ReceiverActs, ReceivesResponse, Receives1xx, Receives2xx,
         Receives300To699, Ring, Confirm, CheckClosed, ChallengeReceived, CallRefused,
         CompletedReceived300To699, ResponseIgnored, InvalidDialogTransition, Receiving, At
    <3> QED BY <1>3, <2>2, <3>1, <3>2
  <2> QED BY <2>1, <2>2
<1>4. ASSUME NEW t \in Threads, TerminateStep(t)
      PROVE  \/ UNCHANGED thread[Receiver]
             \/ /\ thread[Receiver].step \notin {"idle", "dead"}
                /\ t = Receiver
                /\ thread'[Receiver].step \notin {"response", "ring", "err", "confirm"}
                /\ ~(ReceivesResponse \/ Receives1xx \/ Receives2xx \/ Receives300To699)
  <2>1. thread[t].step \in {"close", "lookup", "found", "lock", "notFound", "stop"}
    BY <1>4 DEF TerminateStep, Close, Lookup, EndDialogWithoutTransaction, FindTransaction,
       EndDialog, EndTransaction, StopSession, At
  <2>2. /\ \A u \in Threads \ {t} : thread'[u] = thread[u]
        /\ thread'[t].step \notin {"response", "ring", "err", "confirm"}
    <3>1. CASE FindTransaction(t)
      BY <3>1 DEF FindTransaction, Goto, TypeOK, Frame
    <3>2. CASE StopSession(t)
      BY <3>2, GotoType, IdleType DEF StopSession
    <3>3. CASE ~FindTransaction(t) /\ ~StopSession(t)
      BY <1>4, <3>3, AdvanceType DEF TerminateStep, Close, Lookup, EndDialogWithoutTransaction,
         EndDialog, EndTransaction, Step
    <3> QED BY <3>1, <3>2, <3>3
  <2>3. t = Receiver => ~(ReceivesResponse \/ Receives1xx \/ Receives2xx \/ Receives300To699)
    BY <2>1 DEF ReceivesResponse, ReceiveResponse, Receives1xx, Receives2xx, Receives300To699,
       Received1xx, Received2xx, Received300To699, Receiving, At
  <2> QED BY <2>1, <2>2, <2>3
<1>5. ASSUME NEW c \in Calls, ByeSuccessResponseReceived(c) \/ HandleBye(c)
      PROVE  \/ UNCHANGED thread[Receiver]
             \/ /\ At(Receiver, "idle") /\ UNCHANGED ctVars
                /\ thread'[Receiver] = Begin("response", "dead", <<c, 1>>, "none")
  BY <1>5 DEF ByeSuccessResponseReceived, HandleBye, DieOnBye, Goto, TypeOK
<1>6. ASSUME NEW c \in Calls, Invite(c) \/ \E t \in AppThreads : Hangup(t, c)
      PROVE  UNCHANGED thread[Receiver]
  BY <1>6, OutThreadsAssumption DEF Invite, Hangup, Goto, TypeOK, Threads
<1>7. CASE (\E x \in Txns, task \in DueTimers : TimerFires(x, task))
              \/ CallingTimerA \/ CallingTimerB \/ CompletedTimerD \/ TimerIgnored
  BY <1>7 DEF TimerFires, CallingTimerA, CallingTimerB, CompletedTimerD, TimerIgnored, Goto, TypeOK
<1> QED BY <1>1, <1>2, <1>3, <1>4, <1>5, <1>6, <1>7, Kinds DEF ReceivesResponse

(* Only a failure makes a transaction refused.                             *)
LEMMA RefusedStep ==
    ASSUME IInv, [Next]_vars, NEW x \in Txns, Refused(x)'
    PROVE  Refused(x) \/ (Receives300To699 /\ On(Receiver) = x)
<1> USE ThreadsType DEF IInv
<1>1. CASE ct'[x] = "COMPLETED" /\ ct[x] # "COMPLETED"
  <2>1. CASE ReceiverActs
    <3>1. CASE Receives300To699
      BY <1>1, <3>1 DEF Receives300To699, Received300To699, SetState, TypeOK
    <3>2. CASE CompletedReceived300To699
      <4>1. x = On(Receiver)
        BY <1>1, <3>2 DEF CompletedReceived300To699, SetState, TypeOK
      <4> QED BY <3>2, <4>1 DEF CompletedReceived300To699, Receiving, Refused, Doing, At
    <3>3. CASE ~Receives300To699 /\ ~CompletedReceived300To699
      BY <1>1, <2>1, <3>3 DEF ReceiverActs, ReceiveResponse, Receives300To699, Received1xx,
         Received2xx, Ring, Confirm, CheckClosed, ChallengeReceived, StartInvite, CallRefused,
         ResponseIgnored, InvalidDialogTransition, SetState, TypeOK, ctVars
    <3> QED BY <3>1, <3>2, <3>3
  <2>2. ASSUME NEW t \in Threads, TerminateStep(t) PROVE FALSE
    BY <1>1, <2>2, TerminateKeeps DEF ctVars
  <2>3. ASSUME NEW c \in Calls, \/ Invite(c) \/ \E t \in AppThreads : Hangup(t, c)
                                \/ ByeSuccessResponseReceived(c) \/ HandleBye(c)
        PROVE  FALSE
    BY <1>1, <2>3 DEF Invite, StartInvite, SetState, Hangup, ByeSuccessResponseReceived,
       HandleBye, ctVars, TypeOK
  <2>4. CASE (\E y \in Txns, task \in DueTimers : TimerFires(y, task))
                \/ CallingTimerA \/ CallingTimerB \/ CompletedTimerD \/ TimerIgnored
    BY <1>1, <2>4 DEF TimerFires, CallingTimerA, CallingTimerB, CompletedTimerD, TimerIgnored,
       SetState, ctVars, TypeOK
  <2>5. CASE UNCHANGED vars
    BY <1>1, <2>5 DEF vars, ctVars
  <2> QED BY <2>1, <2>2, <2>3, <2>4, <2>5, Kinds
<1>2. CASE ct'[x] # "COMPLETED"
  <2>1. Doing({"response"}, x)' /\ thread'[Receiver].seen = "COMPLETED"
    BY <1>2 DEF Refused
  <2>2. CASE Receives1xx \/ Receives2xx \/ Receives300To699
    BY <2>1, <2>2, AdvanceType DEF Receives1xx, Receives2xx, Receives300To699, Received1xx,
       Received2xx, Received300To699, Doing, Step
  <2>3. CASE UNCHANGED thread[Receiver]
    BY <2>1, <2>3 DEF Refused, Doing, On
  <2>4. ASSUME NEW y \in Txns, thread'[Receiver] = Begin("response", "response", y, ct[y])
        PROVE  Refused(x)
    <3>1. y = x /\ ct[x] = "COMPLETED"
      BY <2>1, <2>4 DEF Doing, On, Begin
    <3> QED BY <3>1 DEF Refused
  <2>5. ASSUME NEW c \in Calls, thread'[Receiver] = Begin("response", "dead", <<c, 1>>, "none")
        PROVE  FALSE
    BY <2>1, <2>5 DEF Doing, Begin
  <2>6. thread'[Receiver].step = "response"
    BY <2>1 DEF Doing
  <2> QED BY <2>2, <2>3, <2>4, <2>5, <2>6, FrameStep
<1> QED BY <1>1, <1>2 DEF Refused

LEMMA AnswersGrow ==
    ASSUME Grows, NEW c \in Calls
    PROVE  (Repeated(c) => Repeated(c)') /\ (Elsewhere(c) => Elsewhere(c)')
BY TxnsType DEF Grows, Repeated, Elsewhere, Attempts

(* The flag is raised: another INVITE was answered, of this call or not.   *)
LEMMA FlaggedElsewhere ==
    ASSUME IInv, Flagged, HasPassword, challenged, NEW c \in Calls
    PROVE  Repeated(c) \/ Elsewhere(c)
<1> USE TxnsType DEF IInv
<1>1. PICK x \in Txns : heard[x] \cap Challenge # {} /\ Repeated(Call(x))
  BY DEF Flagged
<1>2. CASE Call(x) # c
  <2>1. heard[<<Call(x), 1>>] \cap Challenge # {}
    <3>1. CASE x[2] = 1
      BY <1>1, <3>1
    <3>2. CASE x[2] # 1
      <4>1. 1 \in 1 .. MaxAttempts /\ 1 < x[2]
        BY <3>2, OutCallsAssumption
      <4> QED BY <1>1, <4>1 DEF Records, Recorded
    <3> QED BY <3>1, <3>2
  <2> QED BY <1>2, <2>1 DEF Elsewhere
<1> QED BY <1>1, <1>2

(* A second answer to a refused INVITE is a copy of the first.             *)
LEMMA HeardStep ==
    ASSUME IInv, Answering, [Next]_vars, NEW x \in Txns
    PROVE  /\ OneFinal(x)'
           /\ Refused(x) => heard'[x] \cap Challenge = heard[x] \cap Challenge
<1> USE DEF IInv
<1>1. CASE ReceivesResponse
  <2>1. PICK y \in Txns, code \in Codes : ReceiveResponse(y, code)
    BY <1>1 DEF ReceivesResponse
  <2>2. CASE x = y
    <3>1. heard'[x] = heard[x] \cup ({code} \ {100}) /\ MaySend(x, code)
      BY <2>1, <2>2 DEF ReceiveResponse, TypeOK
    <3>2. OneFinal(x)'
      BY <3>1 DEF OneFinal, MaySend, Answering, Final, Failure
    <3>3. Refused(x) => heard'[x] \cap Challenge = heard[x] \cap Challenge
      BY <3>1 DEF Answering, MaySend, Final, Failure, Challenge
    <3> QED BY <3>2, <3>3
  <2>3. CASE x # y
    BY <2>1, <2>3 DEF ReceiveResponse, TypeOK, OneFinal, Answering
  <2> QED BY <2>2, <2>3
<1>2. CASE ~ReceivesResponse
  <2>1. UNCHANGED heard
    BY <1>2, KeepsHandlingUnless DEF KeepsHandling, Receives1xx, Receives2xx, Receives300To699,
       Received1xx, Received2xx, Received300To699
  <2> QED BY <2>1 DEF OneFinal, Answering
<1> QED BY <1>1, <1>2

LEMMA AnsweringStep == ASSUME IInv, Answering, [Next]_vars PROVE Answering'
<1> USE ThreadsType, TxnsType DEF IInv
<1>1. Grows
  BY GrowsStep
<1>2. \A x \in Txns : OneFinal(x)' /\ (Refused(x)' => heard'[x] \cap Failure # {})
  <2> SUFFICES ASSUME NEW x \in Txns, Refused(x)' PROVE heard[x] \cap Failure # {}
    BY <1>1, HeardStep DEF Grows
  <2>1. CASE Refused(x)
    BY <2>1 DEF Answering
  <2>2. CASE Receives300To699 /\ On(Receiver) = x
    BY <2>2 DEF Receives300To699, Received300To699, Receiving, Handling, At, Failure
  <2> QED BY <2>1, <2>2, RefusedStep
<1>3. Flagged'
  <2>1. CASE challenged
    <3>1. PICK x \in Txns : heard[x] \cap Challenge # {} /\ (HasPassword => Repeated(Call(x)))
      BY <2>1 DEF Answering, Flagged
    <3> QED BY <1>1, <3>1, AnswersGrow DEF Flagged, Grows
  <2>2. CASE ChallengeReceived
    <3>1. PICK x \in Txns : x = On(Receiver) /\ heard[x] \cap Challenge # {}
      BY <2>2 DEF ChallengeReceived, At, Anchored, Handling, IsChallenge, Challenge
    <3>2. HasPassword => Repeated(Call(x))'
      <4> SUFFICES ASSUME HasPassword PROVE Repeated(Call(x))'
        OBVIOUS
      <4>1. Next1(x) \in Txns /\ Call(Next1(x)) = Call(x) /\ Next1(x)[2] > 1
        BY <2>2, <3>1, OutCallsAssumption DEF ChallengeReceived, Room, Next1, Call
      <4>2. ct'[Next1(x)] = "CALLING"
        BY <2>2, <3>1, <4>1 DEF ChallengeReceived, StartInvite, SetState, TypeOK
      <4>3. Next1(x) \in Attempts(Call(x))'
        BY <4>1, <4>2 DEF Attempts
      <4> QED BY <4>1, <4>3 DEF Repeated
    <3>3. heard'[x] \cap Challenge # {}
      BY <1>1, <3>1 DEF Grows
    <3> QED BY <3>1, <3>2, <3>3 DEF Flagged
  <2>3. CASE ~challenged /\ ~ChallengeReceived
    <3>1. ~challenged'
      <4>1. CASE Receives1xx \/ Receives2xx \/ Receives300To699 \/ ReceivesResponse
        BY <2>3, <4>1 DEF Receives1xx, Receives2xx, Receives300To699, ReceivesResponse,
           Received1xx, Received2xx, Received300To699, ReceiveResponse, handlerVars
      <4>2. CASE ReceiverActs /\ ~(Receives1xx \/ Receives2xx \/ Receives300To699 \/ ReceivesResponse)
        BY <2>3, <4>2 DEF ReceiverActs, Receives1xx, Receives2xx, Receives300To699,
           ReceivesResponse, Ring, Confirm, CheckClosed, CallRefused,
           CompletedReceived300To699, ResponseIgnored, InvalidDialogTransition, handlerVars
      <4>3. CASE ~ReceiverActs
        <5>1. CASE UNCHANGED vars
          BY <2>3, <5>1 DEF vars, handlerVars
        <5>2. ASSUME NEW t \in Threads, TerminateStep(t) PROVE ~challenged'
          BY <2>3, <5>2, TerminateKeeps DEF handlerVars
        <5>3. ASSUME NEW c \in Calls, \/ Invite(c) \/ \E t \in AppThreads : Hangup(t, c)
                                      \/ ByeSuccessResponseReceived(c) \/ HandleBye(c)
              PROVE  ~challenged'
          BY <2>3, <5>3 DEF Invite, Hangup, ByeSuccessResponseReceived, HandleBye, handlerVars
        <5>4. CASE (\E y \in Txns, task \in DueTimers : TimerFires(y, task))
                      \/ CallingTimerA \/ CallingTimerB \/ CompletedTimerD \/ TimerIgnored
          BY <2>3, <5>4 DEF TimerFires, CallingTimerA, CallingTimerB, CompletedTimerD,
             TimerIgnored, handlerVars
        <5> QED BY <4>3, <5>1, <5>2, <5>3, <5>4, Kinds
      <4> QED BY <4>1, <4>2, <4>3
    <3> QED BY <3>1 DEF Flagged
  <2> QED BY <2>1, <2>2, <2>3
<1>4. ASSUME HasPassword, NEW c \in Calls PROVE Answered(c)'
  <2> DEFINE x == <<c, 1>>
  <2>1. x \in Txns
    OBVIOUS
  <2> SUFFICES ASSUME Refused(x)', heard'[x] \cap Challenge # {}, ~Repeated(c)', ~Elsewhere(c)'
               PROVE  Doing({"err", "dead"}, x)'
    BY DEF Answered
  <2> HIDE DEF x
  <2>2. ~Repeated(c) /\ ~Elsewhere(c)
    BY <1>1, AnswersGrow
  <2>3. CASE Receives300To699 /\ On(Receiver) = x
    BY <2>3, AdvanceType DEF Receives300To699, Received300To699, Doing, On, Step
  <2>4. CASE Refused(x)
    <3>1. heard[x] \cap Challenge # {}
      BY <2>1, <2>4, HeardStep
    <3>2. Doing({"err", "dead"}, x)
      BY <1>4, <2>2, <2>4, <3>1 DEF Answering, Answered, x
    <3>3. CASE UNCHANGED thread[Receiver]
      BY <3>2, <3>3 DEF Doing, On
    <3>4. CASE InvalidDialogTransition
      BY <3>2, <3>4, AdvanceType DEF InvalidDialogTransition, Doing, On, Step
    <3>5. ~ChallengeReceived
      <4> SUFFICES ASSUME ChallengeReceived PROVE FALSE
        OBVIOUS
      <4>1. On(Receiver) = x
        BY <3>2 DEF Doing
      <4>2. Next1(x) \in Txns /\ Call(Next1(x)) = c /\ Next1(x)[2] > 1
        BY <1>4, <2>1, <4>1, OutCallsAssumption DEF ChallengeReceived, Room, Next1, Call, x
      <4>3. ct'[Next1(x)] = "CALLING"
        BY <1>4, <4>1, <4>2 DEF ChallengeReceived, StartInvite, SetState, TypeOK
      <4> QED BY <4>2, <4>3 DEF Repeated, Attempts
    <3>6. ~CallRefused
      <4> SUFFICES ASSUME CallRefused PROVE FALSE
        OBVIOUS
      <4>1. On(Receiver) = x /\ At(Receiver, "err") /\ ~IsChallenge(last[x])
        BY <3>2 DEF Doing, CallRefused
      <4>2. last[x] \in heard[x] \cap Failure
        BY <4>1 DEF Handling, At, Failure
      <4>3. last[x] \in Challenge
        BY <2>1, <3>1, <4>2 DEF Answering, OneFinal, Final, Failure, Challenge
      <4>4. challenged
        BY <4>1, <4>3 DEF IsChallenge, Challenge
      <4> QED BY <1>4, <2>2, <4>4, FlaggedElsewhere DEF Answering
    <3>7. ~(ReceiverActs \/ TerminateStep(Receiver)) \/ ChallengeReceived \/ CallRefused
             \/ InvalidDialogTransition
      BY <3>2 DEF ReceiverActs, ReceiveResponse, Received1xx, Received2xx, Received300To699,
         Ring, Confirm, CheckClosed, CompletedReceived300To699, ResponseIgnored, Receiving,
         TerminateStep, Close, Lookup, EndDialogWithoutTransaction, FindTransaction, EndDialog,
         EndTransaction, StopSession, At, Doing
    <3>8. ~At(Receiver, "idle") /\ ~At(Receiver, "response")
      BY <3>2 DEF Doing, At
    <3> QED BY <3>3, <3>4, <3>5, <3>6, <3>7, <3>8, FrameStep DEF ReceiveResponse
  <2> QED BY <2>1, <2>3, <2>4, RefusedStep
<1> QED BY <1>2, <1>3, <1>4 DEF Answering

LEMMA InitAnswering == Init => Answering
<1> SUFFICES ASSUME Init PROVE Answering
  OBVIOUS
<1>1. \A x \in Txns : ct[x] = "none" /\ heard[x] = {}
  BY DEF Init
<1>2. \A x \in Txns : ~Refused(x)
  BY <1>1, ThreadsType, IdleType DEF Init, Refused, Doing
<1>3. ~challenged
  BY DEF Init
<1> QED BY <1>1, <1>2, <1>3, TxnsType DEF Answering, OneFinal, Flagged, Answered

(* errResponseReceived: an INVITE that was refused for its credentials is  *)
(* repeated, unless the challenge that the handler remembers is another's; *)
(* whatever timer tasks come late, and however often a response is copied. *)
THEOREM ChallengesAreAnswered == Spec => []ChallengeIsAnswered
<1>1. IInv /\ Answering => ChallengeIsAnswered
  <2> SUFFICES ASSUME IInv, Answering, NEW c \in Calls, HasPassword, Quiet(c), ReceiverAlive,
                      ct[<<c, 1>>] = "COMPLETED", heard[<<c, 1>>] \cap {401, 407} # {}
               PROVE  Repeated(c) \/ \E d \in Calls \ {c} : heard[<<d, 1>>] \cap {401, 407} # {}
    BY DEF ChallengeIsAnswered, Repeated
  <2>1. ~Doing({"err", "dead"}, <<c, 1>>)
    BY ThreadsType, TxnsType, OutCallsAssumption DEF Quiet, ReceiverAlive, Doing, At, CallOf
  <2> QED BY <2>1 DEF Answering, Answered, Refused, Elsewhere, Challenge
<1>2. IInv /\ Answering /\ [Next]_vars => Answering'
  BY AnsweringStep
<1> QED BY <1>1, <1>2, InitIInv, NextIInv, InitAnswering, PTL DEF Spec

-----------------------------------------------------------------------------
(***************************************************************************)
(* What ends the receiver thread                                           *)
(***************************************************************************)

(* No timer A task has put a transaction of c that had ended back into     *)
(* Calling.                                                                *)
Steady(c) == \A x \in Txns : Call(x) = c => x \notin revived

(* None can: timer A is not overtaken.                                     *)
Orderly(c) == c \in RacingCalls => "A" \notin DueTimers

Open == {"CALLING", "PROCEEDING"}

Is(t, steps, c) == thread[t].step \in steps /\ CallOf(t) = c

(* A response to x is still handled as that of an open transaction.        *)
Live(x) ==
    \/ ct[x] \in Open
    \/ Doing({"response"}, x) /\ thread[Receiver].seen \in Open

(* x is the last INVITE of its call, and no 200 has ended the call.        *)
Current(x) ==
    /\ Call(x) \notin acked
    /\ \A y \in Txns : Call(y) = Call(x) /\ y[2] > x[2] => ct[y] = "none"

Latest(x) ==
    /\ Live(x) => Current(x) /\ x \in invites
    /\ Doing({"ring", "err", "confirm"}, x) => Current(x)
    /\ Doing({"ring", "confirm"}, x) => x \in invites
    /\ Doing({"err", "confirm"}, x) => ct[x] \notin Open
    /\ Doing({"response"}, x) /\ thread[Receiver].seen \notin Open => ct[x] \notin Open
    /\ ct[x] = "PROCEEDING" => last[x] \in Prov \/ Doing({"response"}, x)

(* A task of timer A has not been overtaken, if its call does not race.    *)
Punctual ==
    Firing("A", "CALLING") /\ CallOf(TimerThread) \notin RacingCalls =>
        ct[On(TimerThread)] = "CALLING" /\ ~Inside(On(TimerThread))

Fresh(c) ==
    app[c] = "none" => c \notin acked /\ \A x \in Txns : Call(x) = c => ct[x] = "none"

(* The dialog of c.                                                        *)
Sane(c) ==
    /\ c \in dialogs => dialog[c] # "TERMINATED"
    /\ dialog[c] = "CONFIRMED" => c \in acked
    /\ Is(Receiver, {"ring", "confirm"}, c) => c \in dialogs
    /\ c \in dialogs /\ dialog[c] = "INIT" => Is(Receiver, {"ring", "confirm", "dead"}, c)

Confirmed(c) ==
    c \in acked =>
        /\ c \in dialogs => dialog[c] = "CONFIRMED"
        /\ c \notin dialogs => bye[c] # "none" \/ c \in byeIn

Died ==
    ~ReceiverAlive =>
        \/ CallOf(Receiver) \notin CodecCalls
        \/ ~Steady(CallOf(Receiver)) /\ CallOf(Receiver) \in acked

Framed == ~At(Receiver, "idle") => thread[Receiver].op = "response"

Unrevived == \A c \in Calls : Orderly(c) => Steady(c)

Order ==
    /\ Framed /\ Punctual /\ Died /\ Unrevived
    /\ \A c \in Calls : Fresh(c) /\ Sane(c) /\ (Steady(c) => Confirmed(c))
    /\ \A x \in Txns : Steady(Call(x)) => Latest(x)

(* The call the receiver thread works on.                                  *)
LEMMA OnReceiver ==
    ASSUME IInv, ~At(Receiver, "idle")
    PROVE  /\ On(Receiver) \in Txns /\ CallOf(Receiver) \in Calls
           /\ ~At(Receiver, "dead") => ct[On(Receiver)] # "none"
BY ThreadsType, TxnsType DEF IInv, Anchored, At, CallOf

(* How the receiver's frame changes.                                       *)
Same(steps) ==
    /\ thread'[Receiver].step \in steps
    /\ thread'[Receiver].txn = thread[Receiver].txn
    /\ thread'[Receiver].op = thread[Receiver].op
    /\ thread'[Receiver].seen = thread[Receiver].seen
    /\ thread'[TimerThread] = thread[TimerThread]

Rests == thread'[Receiver] = Idle /\ thread'[TimerThread] = thread[TimerThread]

LEMMA Advances ==
    ASSUME TypeOK, NEW step \in Step, Advance(Receiver, step) PROVE Same({step})
BY ThreadsType, AdvanceType DEF Same

LEMMA Ends == ASSUME TypeOK, Goto(Receiver, Idle) PROVE Rests
BY ThreadsType DEF Goto, TypeOK, Rests

LEMMA FramedStep == ASSUME IInv, Framed, [Next]_vars PROVE Framed'
<1> USE ThreadsType, IdleType DEF IInv
<1>1. CASE UNCHANGED thread[Receiver]
  BY <1>1 DEF Framed, At
<1>2. ASSUME NEW x \in Txns, NEW s, NEW step, thread'[Receiver] = Begin("response", step, x, s)
      PROVE  Framed'
  BY <1>2 DEF Framed, Begin
<1>3. CASE thread[Receiver].step \notin {"idle", "dead"}
             /\ (thread'[Receiver] = Idle \/ thread'[Receiver].op = thread[Receiver].op)
  BY <1>3 DEF Framed, At
<1>4. CASE Receives1xx \/ Receives2xx \/ Receives300To699 \/ Ring \/ Confirm \/ CheckClosed
             \/ InvalidDialogTransition
  <2>1. Rests \/ Same(Step)
    BY <1>4, Advances, Ends DEF Receives1xx, Receives2xx, Receives300To699, Received1xx,
       Received2xx, Received300To699, Ring, Confirm, CheckClosed, InvalidDialogTransition,
       Step, Same
  <2>2. thread[Receiver].step \notin {"idle", "dead"}
    BY <1>4 DEF Receives1xx, Receives2xx, Receives300To699, Received1xx,
       Received2xx, Received300To699, Ring, Confirm, CheckClosed, InvalidDialogTransition,
       Receiving, At
  <2> QED BY <1>3, <2>1, <2>2 DEF Rests, Same
<1>5. CASE ChallengeReceived \/ CallRefused \/ CompletedReceived300To699 \/ ResponseIgnored
  <2>1. Rests
    BY <1>5, Ends DEF ChallengeReceived, CallRefused, CompletedReceived300To699, ResponseIgnored
  <2> QED BY <2>1 DEF Rests, Framed, At
<1>6. CASE TerminateStep(Receiver) /\ thread[Receiver].step \notin {"idle", "dead"}
  <2>1. CASE FindTransaction(Receiver)
    <3>1. thread'[Receiver].op = thread[Receiver].op
      BY <2>1 DEF FindTransaction, Goto, TypeOK, Frame
    <3> QED BY <1>3, <1>6, <3>1
  <2>2. CASE StopSession(Receiver)
    BY <1>3, <1>6, <2>2, Ends DEF StopSession, Rests
  <2>3. CASE ~FindTransaction(Receiver) /\ ~StopSession(Receiver)
    <3>1. Same(Step)
      BY <1>6, <2>3, Advances DEF TerminateStep, Close, Lookup, EndDialogWithoutTransaction,
         EndDialog, EndTransaction, Step, Same
    <3> QED BY <1>3, <1>6, <3>1 DEF Same
  <2> QED BY <2>1, <2>2, <2>3
<1>7. \A c \in Calls : <<c, 1>> \in Txns
  BY TxnsType
<1>8. ReceiverActs => \/ Receives1xx \/ Receives2xx \/ Receives300To699 \/ ReceivesResponse
                      \/ Ring \/ Confirm \/ CheckClosed \/ InvalidDialogTransition
                      \/ ChallengeReceived \/ CallRefused \/ CompletedReceived300To699
                      \/ ResponseIgnored
  BY DEF ReceiverActs, ReceivesResponse, Receives1xx, Receives2xx, Receives300To699
<1> QED BY <1>1, <1>2, <1>4, <1>5, <1>6, <1>7, <1>8, FrameStep

(* While the receiver thread is inside x, only a copy of its task may run. *)
LEMMA PunctualStep == ASSUME IInv, Framed, Punctual, [Next]_vars PROVE Punctual'
<1> USE ThreadsType, IdleType, TxnsType DEF IInv
<1> DEFINE x == On(TimerThread)
<1>1. CASE thread'[TimerThread] # thread[TimerThread]
  <2>1. ASSUME NEW y \in Txns, NEW task \in DueTimers, TimerFires(y, task) PROVE Punctual'
    <3>1. /\ thread'[TimerThread] = Begin(task, "timer", y, ct[y])
          /\ thread'[Receiver] = thread[Receiver]
          /\ ct' = ct
          /\ Call(y) \notin RacingCalls => ~Inside(y)
      BY <2>1 DEF TimerFires, Goto, TypeOK
    <3>2. On(TimerThread)' = y
      BY <3>1 DEF On, Begin
    <3> QED BY <3>1, <3>2 DEF Punctual, Firing, CallOf, Inside, At, On, Begin
  <2>2. CASE CallingTimerA \/ CallingTimerB \/ CompletedTimerD \/ TimerIgnored
    <3>1. thread'[TimerThread] = Idle
      BY <2>2, GotoType DEF CallingTimerA, CallingTimerB, CompletedTimerD, TimerIgnored
    <3> QED BY <3>1 DEF Punctual, Firing, At
  <2>3. CASE ReceiverActs
    BY <1>1, <2>3, ReceiverMoves
  <2>4. ASSUME NEW t \in Threads, TerminateStep(t) PROVE Punctual'
    <3>1. thread'[TimerThread].step \notin {"timer"}
      <4>1. CASE t # TimerThread
        BY <1>1, <2>4, <4>1 DEF TerminateStep, Close, Lookup, EndDialogWithoutTransaction,
           FindTransaction, EndDialog, EndTransaction, StopSession, Advance, Goto, TypeOK
      <4>2. CASE FindTransaction(t)
        BY <4>1, <4>2 DEF FindTransaction, Goto, TypeOK, Frame
      <4>3. CASE StopSession(t)
        BY <4>1, <4>3, GotoType DEF StopSession
      <4>4. CASE t = TimerThread /\ ~FindTransaction(t) /\ ~StopSession(t)
        BY <2>4, <4>4, AdvanceType DEF TerminateStep, Close, Lookup,
           EndDialogWithoutTransaction, EndDialog, EndTransaction, Step
      <4> QED BY <4>1, <4>2, <4>3, <4>4
    <3> QED BY <3>1 DEF Punctual, Firing, At
  <2>5. ASSUME NEW c \in Calls, \/ Invite(c) \/ \E t \in AppThreads : Hangup(t, c)
                                \/ ByeSuccessResponseReceived(c) \/ HandleBye(c)
        PROVE  FALSE
    BY <1>1, <2>5, OutThreadsAssumption DEF Invite, Hangup, ByeSuccessResponseReceived,
       HandleBye, DieOnBye, Goto, TypeOK, Threads
  <2> QED BY <1>1, <2>1, <2>2, <2>3, <2>4, <2>5, Kinds DEF vars
<1>2. CASE thread'[TimerThread] = thread[TimerThread]
  <2> SUFFICES ASSUME Firing("A", "CALLING"), CallOf(TimerThread) \notin RacingCalls
               PROVE  ct'[x] = "CALLING" /\ ~Inside(x)'
    BY <1>2 DEF Punctual, Firing, At, CallOf, On
  <2>1. x \in Txns /\ x' = x /\ ct[x] = "CALLING" /\ ~Inside(x)
    BY <1>2 DEF Punctual, Firing, At, Anchored, On
  <2>2. Call(x) \notin RacingCalls
    BY DEF CallOf
  <2> HIDE DEF x
  <2>3. ~Inside(x)'
    <3>1. CASE UNCHANGED thread[Receiver]
      BY <2>1, <3>1 DEF Inside, On, At
    <3>2. ASSUME NEW y \in Txns, NEW code \in Codes, ReceiveResponse(y, code)
          PROVE  y # x
      BY <2>2, <3>2 DEF ReceiveResponse, TimerInside, x, On
    <3>3. CASE thread[Receiver].step \notin {"idle", "dead"}
      <4>1. On(Receiver) # x
        BY <2>1, <3>3 DEF Inside, Framed, At
      <4>2. thread'[Receiver] = Idle \/ On(Receiver)' = On(Receiver)
        <5>1. CASE ReceiverActs
          <6>1. CASE ReceivesResponse
            BY <3>3, <6>1 DEF ReceivesResponse, ReceiveResponse, At
          <6>2. CASE ~ReceivesResponse
            BY <5>1, <6>2, Advances, Ends DEF ReceiverActs, ReceivesResponse, Received1xx,
               Received2xx, Received300To699, Ring, Confirm, CheckClosed, ChallengeReceived,
               CallRefused, CompletedReceived300To699, ResponseIgnored,
               InvalidDialogTransition, Same, Rests, On, Step
          <6> QED BY <6>1, <6>2
        <5>2. CASE TerminateStep(Receiver)
          <6>1. CASE FindTransaction(Receiver)
            BY <6>1 DEF FindTransaction, Goto, TypeOK, Frame, On
          <6>2. CASE ~FindTransaction(Receiver)
            BY <5>2, <6>2, Advances, Ends DEF TerminateStep, Close, Lookup,
               EndDialogWithoutTransaction, EndDialog, EndTransaction, StopSession, Same, Rests,
               On, Step
          <6> QED BY <6>1, <6>2
        <5>3. CASE UNCHANGED thread[Receiver]
          BY <5>3 DEF On
        <5> QED BY <3>3, <5>1, <5>2, <5>3, FrameStep DEF At, ReceiverActs, Receives1xx, Receives2xx, Receives300To699, ReceiveResponse
      <4> QED BY <2>1, <4>1, <4>2, OutCallsAssumption DEF Inside, On
    <3>4. ASSUME NEW y \in Txns, y # x, NEW s, thread'[Receiver] = Begin("response", "response", y, s)
          PROVE  ~Inside(x)'
      BY <2>1, <3>4 DEF Inside, Begin, On
    <3>5. ASSUME NEW y, NEW s, thread'[Receiver] = Begin("response", "dead", y, s)
          PROVE  ~Inside(x)'
      BY <3>5 DEF Inside, Begin, At
    <3> QED BY <3>1, <3>2, <3>3, <3>4, <3>5, FrameStep DEF At
  <2>4. ct'[x] = "CALLING"
    <3>1. CASE ReceiverActs
      <4>1. thread[Receiver].step \notin {"idle", "dead"} => On(Receiver) # x
        BY <2>1 DEF Inside, Framed, At
      <4>2. CASE Receives1xx \/ Receives2xx \/ Receives300To699 \/ CompletedReceived300To699
        BY <2>1, <4>1, <4>2 DEF Receives1xx, Receives2xx, Receives300To699, Received1xx,
           Received2xx, Received300To699, CompletedReceived300To699, Receiving, At, SetState,
           TypeOK
      <4>3. CASE ChallengeReceived
        BY <2>1, <4>3 DEF ChallengeReceived, StartInvite, SetState, TypeOK
      <4>4. CASE ~(Receives1xx \/ Receives2xx \/ Receives300To699 \/ CompletedReceived300To699
                     \/ ChallengeReceived)
        BY <2>1, <3>1, <4>4 DEF ReceiverActs, Receives1xx, Receives2xx, Receives300To699,
           ReceiveResponse, Ring, Confirm, CheckClosed, CallRefused, ResponseIgnored,
           InvalidDialogTransition, ctVars
      <4> QED BY <4>2, <4>3, <4>4
    <3>2. ASSUME NEW t \in Threads, TerminateStep(t) PROVE ct'[x] = "CALLING"
      BY <2>1, <3>2, TerminateKeeps DEF ctVars
    <3>3. ASSUME NEW c \in Calls, \/ Invite(c) \/ \E t \in AppThreads : Hangup(t, c)
                                  \/ ByeSuccessResponseReceived(c) \/ HandleBye(c)
          PROVE  ct'[x] = "CALLING"
      BY <2>1, <3>3 DEF Invite, StartInvite, SetState, Hangup, ByeSuccessResponseReceived,
         HandleBye, ctVars, TypeOK
    <3>4. CASE (\E y \in Txns, task \in DueTimers : TimerFires(y, task)) \/ TimerIgnored
      BY <2>1, <3>4 DEF TimerFires, TimerIgnored, ctVars
    <3>5. ~(CallingTimerA \/ CallingTimerB \/ CompletedTimerD)
      BY <1>2, GotoType DEF CallingTimerA, CallingTimerB, CompletedTimerD, Firing, At
    <3>6. CASE UNCHANGED vars
      BY <2>1, <3>6 DEF vars, ctVars
    <3> QED BY <3>1, <3>2, <3>3, <3>4, <3>5, <3>6, Kinds
  <2> QED BY <2>3, <2>4
<1> QED BY <1>1, <1>2

(* Which steps change which variables.                                     *)
LEMMA AckedStep == ASSUME IInv, [Next]_vars, ~Confirm PROVE UNCHANGED acked
<1> USE DEF IInv
<1>1. CASE ReceiverActs
  BY <1>1 DEF ReceiverActs, ReceiveResponse, Received1xx, Received2xx, Received300To699, Ring,
     CheckClosed, ChallengeReceived, CallRefused, CompletedReceived300To699, ResponseIgnored,
     InvalidDialogTransition, handlerVars
<1>2. ASSUME NEW t \in Threads, TerminateStep(t) PROVE UNCHANGED acked
  BY <1>2, TerminateKeeps DEF handlerVars
<1>3. ASSUME NEW c \in Calls, \/ Invite(c) \/ \E t \in AppThreads : Hangup(t, c)
                              \/ ByeSuccessResponseReceived(c) \/ HandleBye(c)
      PROVE  UNCHANGED acked
  BY <1>3 DEF Invite, Hangup, ByeSuccessResponseReceived, HandleBye, handlerVars
<1>4. CASE (\E x \in Txns, task \in DueTimers : TimerFires(x, task))
              \/ CallingTimerA \/ CallingTimerB \/ CompletedTimerD \/ TimerIgnored
  BY <1>4 DEF TimerFires, CallingTimerA, CallingTimerB, CompletedTimerD, TimerIgnored, handlerVars
<1>5. CASE UNCHANGED vars
  BY <1>5 DEF vars, handlerVars
<1> QED BY <1>1, <1>2, <1>3, <1>4, <1>5, Kinds

Byes == \E c \in Calls : ByeSuccessResponseReceived(c) \/ HandleBye(c)

LEMMA DialogStep ==
    ASSUME IInv, [Next]_vars
    PROVE  \/ Receives1xx \/ Ring \/ Receives2xx \/ Confirm \/ ChallengeReceived \/ CallRefused
           \/ Byes
           \/ UNCHANGED dialogVars
<1> USE DEF IInv
<1>1. CASE ReceiverActs
  BY <1>1 DEF ReceiverActs, ReceiveResponse, Receives1xx, Receives2xx, Received300To699,
     CheckClosed, CompletedReceived300To699, ResponseIgnored, InvalidDialogTransition
<1>2. ASSUME NEW t \in Threads, TerminateStep(t) PROVE UNCHANGED dialogVars
  BY <1>2, TerminateKeeps
<1>3. ASSUME NEW c \in Calls, Invite(c) \/ \E t \in AppThreads : Hangup(t, c)
      PROVE  UNCHANGED dialogVars
  BY <1>3 DEF Invite, Hangup
<1>4. CASE (\E x \in Txns, task \in DueTimers : TimerFires(x, task))
              \/ CallingTimerA \/ CallingTimerB \/ CompletedTimerD \/ TimerIgnored
  BY <1>4 DEF TimerFires, CallingTimerA, CallingTimerB, CompletedTimerD, TimerIgnored
<1>5. CASE UNCHANGED vars
  BY <1>5 DEF vars
<1> QED BY <1>1, <1>2, <1>3, <1>4, <1>5, Kinds DEF Byes

LEMMA ByeGrows ==
    ASSUME IInv, [Next]_vars
    PROVE  (\A c \in Calls : bye[c] # "none" => bye'[c] # "none") /\ byeIn \subseteq byeIn'
<1> USE DEF IInv
<1>1. CASE ReceiverActs
  BY <1>1 DEF ReceiverActs, ReceiveResponse, Received1xx, Received2xx, Received300To699, Ring,
     Confirm, CheckClosed, ChallengeReceived, CallRefused, CompletedReceived300To699,
     ResponseIgnored, InvalidDialogTransition, uacVars
<1>2. ASSUME NEW t \in Threads, TerminateStep(t)
      PROVE  (\A c \in Calls : bye[c] # "none" => bye'[c] # "none") /\ byeIn' = byeIn
  <2>1. CASE EndDialogWithoutTransaction(t) \/ EndDialog(t)
    BY <2>1 DEF EndDialogWithoutTransaction, EndDialog, SendBye, uacVars, TypeOK
  <2>2. CASE ~(EndDialogWithoutTransaction(t) \/ EndDialog(t))
    BY <1>2, <2>2 DEF TerminateStep, Close, Lookup, FindTransaction, EndTransaction,
       StopSession, uacVars
  <2> QED BY <2>1, <2>2
<1>3. ASSUME NEW c \in Calls, \/ Invite(c) \/ \E t \in AppThreads : Hangup(t, c)
                              \/ ByeSuccessResponseReceived(c) \/ HandleBye(c)
      PROVE  (\A d \in Calls : bye[d] # "none" => bye'[d] # "none") /\ byeIn \subseteq byeIn'
  BY <1>3 DEF Invite, Hangup, ByeSuccessResponseReceived, HandleBye, uacVars, TypeOK
<1>4. CASE (\E x \in Txns, task \in DueTimers : TimerFires(x, task))
              \/ CallingTimerA \/ CallingTimerB \/ CompletedTimerD \/ TimerIgnored
  BY <1>4 DEF TimerFires, CallingTimerA, CallingTimerB, CompletedTimerD, TimerIgnored, uacVars
<1>5. CASE UNCHANGED vars
  BY <1>5 DEF vars, uacVars
<1> QED BY <1>1, <1>2, <1>3, <1>4, <1>5, Kinds

LEMMA AppStep ==
    ASSUME IInv, [Next]_vars, NEW c \in Calls
    PROVE  \/ app'[c] = app[c]
           \/ Invite(c) /\ app'[c] = "calling"
           \/ \E t \in AppThreads : Hangup(t, c) /\ app[c] = "calling" /\ app'[c] = "closed"
           \/ app[c] = "calling" /\ app'[c] = "over"
<1> USE DEF IInv
<1>1. CASE ReceiverActs
  <2>1. CASE CallRefused
    BY <2>1 DEF CallRefused, TypeOK
  <2>2. CASE ~CallRefused
    BY <1>1, <2>2 DEF ReceiverActs, ReceiveResponse, Received1xx, Received2xx,
       Received300To699, Ring, Confirm, CheckClosed, ChallengeReceived,
       CompletedReceived300To699, ResponseIgnored, InvalidDialogTransition
  <2> QED BY <2>1, <2>2
<1>2. ASSUME NEW t \in Threads, TerminateStep(t) PROVE UNCHANGED app
  BY <1>2, TerminateKeeps
<1>3. ASSUME NEW d \in Calls, \/ Invite(d) \/ \E t \in AppThreads : Hangup(t, d)
                              \/ ByeSuccessResponseReceived(d) \/ HandleBye(d)
      PROVE  \/ app'[c] = app[c]
             \/ Invite(c) /\ app'[c] = "calling"
             \/ \E t \in AppThreads : Hangup(t, c) /\ app[c] = "calling" /\ app'[c] = "closed"
             \/ app[c] = "calling" /\ app'[c] = "over"
  <2>1. CASE Invite(d)
    BY <2>1 DEF Invite, TypeOK
  <2>2. CASE \E t \in AppThreads : Hangup(t, d)
    BY <2>2 DEF Hangup, TypeOK
  <2>3. CASE ByeSuccessResponseReceived(d) \/ HandleBye(d)
    BY <2>3 DEF ByeSuccessResponseReceived, HandleBye, TypeOK
  <2> QED BY <1>3, <2>1, <2>2, <2>3
<1>4. CASE (\E x \in Txns, task \in DueTimers : TimerFires(x, task))
              \/ CallingTimerA \/ CallingTimerB \/ CompletedTimerD \/ TimerIgnored
  BY <1>4 DEF TimerFires, CallingTimerA, CallingTimerB, CompletedTimerD, TimerIgnored
<1>5. CASE UNCHANGED vars
  BY <1>5 DEF vars
<1> QED BY <1>1, <1>2, <1>3, <1>4, <1>5, Kinds

(* Only timer A revives a transaction.                                     *)
LEMMA RevivedStep ==
    ASSUME IInv, [Next]_vars PROVE CallingTimerA \/ UNCHANGED revived
<1> USE DEF IInv
<1>1. CASE ReceiverActs
  BY <1>1 DEF ReceiverActs, ReceiveResponse, Received1xx, Received2xx, Received300To699, Ring,
     Confirm, CheckClosed, ChallengeReceived, CallRefused, CompletedReceived300To699,
     ResponseIgnored, InvalidDialogTransition, ctVars
<1>2. ASSUME NEW t \in Threads, TerminateStep(t) PROVE UNCHANGED revived
  BY <1>2 DEF TerminateStep, Close, Lookup, EndDialogWithoutTransaction, FindTransaction,
     EndDialog, EndTransaction, StopSession, ctVars
<1>3. ASSUME NEW c \in Calls, \/ Invite(c) \/ \E t \in AppThreads : Hangup(t, c)
                              \/ ByeSuccessResponseReceived(c) \/ HandleBye(c)
      PROVE  UNCHANGED revived
  BY <1>3 DEF Invite, Hangup, ByeSuccessResponseReceived, HandleBye, ctVars
<1>4. CASE (\E x \in Txns, task \in DueTimers : TimerFires(x, task))
              \/ CallingTimerB \/ CompletedTimerD \/ TimerIgnored
  BY <1>4 DEF TimerFires, CallingTimerB, CompletedTimerD, TimerIgnored, ctVars
<1>5. CASE UNCHANGED vars
  BY <1>5 DEF vars, ctVars
<1> QED BY <1>1, <1>2, <1>3, <1>4, <1>5, Kinds

(* A call that is steady was steady before.                                *)
LEMMA SteadyBefore ==
    ASSUME IInv, [Next]_vars, NEW c, Steady(c)' PROVE Steady(c)
<1>1. revived \subseteq revived'
  BY RevivedStep DEF CallingTimerA
<1> QED BY <1>1 DEF Steady

LEMMA UnrevivedStep ==
    ASSUME IInv, Punctual, Unrevived, [Next]_vars PROVE Unrevived'
<1>1. CASE UNCHANGED revived
  BY <1>1 DEF Unrevived, Steady, Orderly
<1>2. CASE CallingTimerA
  <2>1. On(TimerThread) \in Txns /\ Firing("A", "CALLING") /\ "A" \in DueTimers
    BY <1>2, ThreadsType DEF CallingTimerA, Firing, At, Anchored, IInv, TypeOK, Frame
  <2>2. Orderly(CallOf(TimerThread)) => revived' = revived
    BY <1>2, <2>1 DEF CallingTimerA, Orderly, Punctual
  <2>3. \A x \in Txns : x \in revived' => x \in revived \/ x = On(TimerThread)
    BY <1>2 DEF CallingTimerA
  <2>4. SUFFICES ASSUME NEW c \in Calls, Orderly(c), NEW x \in Txns, Call(x) = c, x \in revived'
                 PROVE  FALSE
    BY DEF Unrevived, Steady, Orderly
  <2>5. x \notin revived
    BY <2>4 DEF Unrevived, Steady
  <2> QED BY <2>2, <2>3, <2>4, <2>5 DEF CallOf
<1> QED BY <1>1, <1>2, RevivedStep

(* No transaction of a call that stays steady becomes open again.          *)
CtCalm ==
    \A x \in Txns : Steady(Call(x))' =>
        \/ ct'[x] = ct[x]
        \/ ct'[x] \notin Open /\ ct'[x] # "none" /\ ct[x] # "none"
        \/ ct[x] = "PROCEEDING" /\ ct'[x] = "CALLING"

LEMMA CtStep ==
    ASSUME IInv, Order, [Next]_vars
    PROVE  Receives1xx \/ ChallengeReceived \/ (\E c \in Calls : Invite(c)) \/ CtCalm
<1> USE ThreadsType DEF IInv
<1>1. CASE Receives2xx \/ Receives300To699 \/ CompletedReceived300To699
  <2>1. On(Receiver) \in Txns /\ ct[On(Receiver)] # "none"
    BY <1>1, OnReceiver DEF Receives2xx, Receives300To699, Received2xx, Received300To699,
       CompletedReceived300To699, Receiving, At
  <2>2. \A x \in Txns : x # On(Receiver) => ct'[x] = ct[x]
    BY <1>1 DEF Receives2xx, Receives300To699, Received2xx, Received300To699,
       CompletedReceived300To699, SetState, TypeOK
  <2>3. ct'[On(Receiver)] \in {"TERMINATED", "COMPLETED"}
    BY <1>1, <2>1 DEF Receives2xx, Receives300To699, Received2xx, Received300To699,
       CompletedReceived300To699, SetState, TypeOK
  <2> QED BY <2>1, <2>2, <2>3 DEF CtCalm, Open
<1>2. CASE CallingTimerA \/ CallingTimerB \/ CompletedTimerD
  <2>1. On(TimerThread) \in Txns /\ ct[On(TimerThread)] # "none"
    BY <1>2 DEF CallingTimerA, CallingTimerB, CompletedTimerD, Firing, At, Anchored
  <2>2. \A x \in Txns : x # On(TimerThread) => ct'[x] = ct[x]
    BY <1>2 DEF CallingTimerA, CallingTimerB, CompletedTimerD, SetState, TypeOK
  <2>3. CASE CallingTimerA
    <3>1. PICK z \in Txns : z = On(TimerThread)
      BY <2>1
    <3>2. ct'[z] = "CALLING" /\ ct[z] # "none" /\ \A x \in Txns : x # z => ct'[x] = ct[x]
      BY <2>1, <2>2, <2>3, <3>1 DEF CallingTimerA, SetState, TypeOK
    <3>3. CASE ct[z] \in {"COMPLETED", "TERMINATED"}
      <4>1. z \in revived'
        BY <2>3, <3>1, <3>3 DEF CallingTimerA
      <4>2. ~Steady(Call(z))'
        BY <4>1 DEF Steady
      <4> QED BY <3>2, <4>2 DEF CtCalm
    <3>4. CASE ct[z] \in Open
      BY <3>2, <3>4 DEF CtCalm, Open
    <3>5. ct[z] \in CtState
      BY DEF TypeOK
    <3> QED BY <3>2, <3>3, <3>4, <3>5 DEF CtState, Open
  <2>4. CASE CallingTimerB \/ CompletedTimerD
    <3>1. ct'[On(TimerThread)] = "TERMINATED"
      BY <2>1, <2>4 DEF CallingTimerB, CompletedTimerD, SetState, TypeOK
    <3> QED BY <2>1, <2>2, <3>1 DEF CtCalm, Open
  <2> QED BY <1>2, <2>3, <2>4
<1>3. CASE UNCHANGED ct
  BY <1>3 DEF CtCalm
<1>4. CASE ReceiverActs
  <2>1. \/ Receives1xx \/ ChallengeReceived \/ Receives2xx \/ Receives300To699
        \/ CompletedReceived300To699 \/ UNCHANGED ct
    BY <1>4 DEF ReceiverActs, ReceiveResponse, Receives1xx, Receives2xx, Receives300To699, Ring,
       Confirm, CheckClosed, CallRefused, ResponseIgnored, InvalidDialogTransition, ctVars
  <2> QED BY <1>1, <1>3, <2>1
<1>5. ASSUME NEW t \in Threads, TerminateStep(t) PROVE UNCHANGED ct
  BY <1>5, TerminateKeeps DEF ctVars
<1>6. ASSUME NEW c \in Calls, \/ \E t \in AppThreads : Hangup(t, c)
                              \/ ByeSuccessResponseReceived(c) \/ HandleBye(c)
      PROVE  UNCHANGED ct
  BY <1>6 DEF Hangup, ByeSuccessResponseReceived, HandleBye, ctVars
<1>7. CASE (\E x \in Txns, task \in DueTimers : TimerFires(x, task)) \/ TimerIgnored
  BY <1>3, <1>7 DEF TimerFires, TimerIgnored, ctVars
<1>8. CASE UNCHANGED vars
  BY <1>3, <1>8 DEF vars, ctVars
<1> QED BY <1>2, <1>3, <1>4, <1>5, <1>6, <1>7, <1>8, Kinds

-----------------------------------------------------------------------------
LEMMA FreshStep == ASSUME IInv, Order, [Next]_vars, NEW c \in Calls PROVE Fresh(c)'
<1> USE ThreadsType, TxnsType DEF IInv
<1> SUFFICES ASSUME app'[c] = "none"
             PROVE  c \notin acked' /\ \A x \in Txns : Call(x) = c => ct'[x] = "none"
  BY DEF Fresh
<1>1. app[c] = "none" /\ ~Invite(c)
  <2>1. ~Invite(c)
    BY DEF Invite, TypeOK
  <2> QED BY <2>1, AppStep
<1>2. c \notin acked /\ \A x \in Txns : Call(x) = c => ct[x] = "none"
  BY <1>1 DEF Order, Fresh
<1>3. c \notin acked'
  <2>1. CASE Confirm
    <3>1. CallOf(Receiver) # c
      BY <1>2, <2>1, OnReceiver DEF Confirm, At, CallOf
    <3> QED BY <1>2, <2>1, <3>1 DEF Confirm
  <2> QED BY <1>2, <2>1, AckedStep
<1>4. ASSUME NEW x \in Txns, Call(x) = c PROVE ct'[x] = "none"
  <2>1. ct[x] = "none"
    BY <1>2, <1>4
  <2>2. CASE KeepsRecords
    BY <2>1, <2>2 DEF KeepsRecords
  <2>3. CASE ReceivesResponse
    BY <2>1, <2>3 DEF ReceivesResponse, ReceiveResponse
  <2>4. CASE Receives300To699
    <3>1. On(Receiver) # x
      BY <2>1, <2>4, OnReceiver DEF Receives300To699, Received300To699, Receiving, At
    <3> QED BY <2>1, <2>4, <3>1 DEF Receives300To699, Received300To699, SetState, TypeOK
  <2>5. CASE ChallengeReceived
    <3>1. Call(Next1(On(Receiver))) # c
      BY <1>2, <2>5, OnReceiver DEF ChallengeReceived, At, Next1, Call
    <3> QED BY <1>4, <2>1, <2>5, <3>1 DEF ChallengeReceived, StartInvite, SetState, TypeOK
  <2>6. ASSUME NEW d \in Calls, Invite(d) PROVE ct'[x] = "none"
    <3>1. <<d, 1>> # x
      BY <1>1, <1>4, <2>6
    <3> QED BY <2>1, <2>6, <3>1 DEF Invite, StartInvite, SetState, TypeOK
  <2> QED BY <2>2, <2>3, <2>4, <2>5, <2>6, KeepsRecordsUnless
<1> QED BY <1>3, <1>4

(* Two INVITEs of a call are not both its last.                            *)
LEMMA OneCurrent ==
    ASSUME NEW x \in Txns, NEW y \in Txns, Call(x) = Call(y), ct[x] # "none", ct[y] # "none",
           Current(x), Current(y)
    PROVE  x = y
<1>1. ~(y[2] > x[2]) /\ ~(x[2] > y[2])
  BY DEF Current
<1>2. x[2] = y[2]
  BY <1>1, TxnsType, OutCallsAssumption
<1> QED BY <1>2, TxnsType

(* The receiver thread leaves the handling of a response, or stays.        *)
Leaves ==
    \/ UNCHANGED thread[Receiver]
    \/ /\ thread'[Receiver].step \notin {"response", "ring", "err", "confirm"}
       /\ At(Receiver, "response") => thread[Receiver].seen \notin Open

LEMMA LatestKept ==
    ASSUME IInv, Order, CtCalm, Leaves, UNCHANGED <<acked, invites, last>>,
           NEW x \in Txns, Steady(Call(x)), Steady(Call(x))'
    PROVE  Latest(x)'
<1> USE DEF IInv
<1>1. Latest(x)
  BY DEF Order
<1>2. ct'[x] \in Open => ct[x] \in Open /\ (ct'[x] = ct[x] \/ ct'[x] = "CALLING")
  BY DEF CtCalm, Open
<1>3. ASSUME NEW S, S \subseteq {"response", "ring", "err", "confirm"}, Doing(S, x)'
      PROVE  UNCHANGED thread[Receiver] /\ Doing(S, x)
  BY <1>3 DEF Leaves, Doing, On
<1>4. Live(x)' => Live(x)
  <2>1. Doing({"response"}, x)' => Doing({"response"}, x) /\ UNCHANGED thread[Receiver]
    BY <1>3
  <2> QED BY <1>2, <2>1 DEF Live
<1>5. Current(x) => Current(x)'
  BY DEF Current, CtCalm
<1>6. ct'[x] \in Open => ct[x] \in Open
  BY <1>2
<1>7. ct'[x] = "PROCEEDING" => last'[x] \in Prov \/ Doing({"response"}, x)'
  <2> SUFFICES ASSUME ct'[x] = "PROCEEDING", last[x] \notin Prov
               PROVE  Doing({"response"}, x)'
    OBVIOUS
  <2>1. Doing({"response"}, x) /\ thread[Receiver].seen \in Open
    BY <1>1, <1>2 DEF Latest, Open
  <2>2. UNCHANGED thread[Receiver]
    BY <2>1 DEF Leaves, Doing, At
  <2> QED BY <2>1, <2>2 DEF Doing, On
<1>8. /\ Doing({"ring", "err", "confirm"}, x)' => Doing({"ring", "err", "confirm"}, x)
      /\ Doing({"ring", "confirm"}, x)' => Doing({"ring", "confirm"}, x)
      /\ Doing({"err", "confirm"}, x)' => Doing({"err", "confirm"}, x)
      /\ Doing({"response"}, x)' => Doing({"response"}, x) /\ UNCHANGED thread[Receiver]
  BY <1>3
<1> QED BY <1>1, <1>4, <1>5, <1>6, <1>7, <1>8 DEF Latest

(* A step that leaves what the other INVITEs of a call record.             *)
LEMMA LatestOther ==
    ASSUME IInv, Order, NEW z \in Txns, NEW x \in Txns, x # z, Steady(Call(x)),
           \A y \in Txns : y # z => ct'[y] = ct[y] /\ (y \in invites <=> y \in invites'),
           ct[z] # "none", ct'[z] # "none",
           last' = last, acked' = acked,
           On(Receiver) = z, On(Receiver)' = z
    PROVE  Latest(x)'
<1> USE DEF IInv
<1>1. Latest(x)
  BY DEF Order
<1>2. ~Doing(Step, x) /\ ~Doing(Step, x)'
  BY DEF Doing
<1>3. Live(x)' => Live(x)
  BY <1>2 DEF Live, Doing, Step
<1>4. Current(x) => Current(x)'
  BY DEF Current
<1>5. ct'[x] = "PROCEEDING" => last'[x] \in Prov
  BY <1>1, <1>2 DEF Latest, Doing, Step
<1>6. \A S \in SUBSET Step : ~Doing(S, x)'
  BY <1>2 DEF Doing
<1>7. /\ ~Doing({"ring", "err", "confirm"}, x)' /\ ~Doing({"ring", "confirm"}, x)'
      /\ ~Doing({"err", "confirm"}, x)' /\ ~Doing({"response"}, x)'
  BY <1>6 DEF Step
<1> QED BY <1>1, <1>3, <1>4, <1>5, <1>7 DEF Latest

LEMMA LatestReceive ==
    ASSUME IInv, Order, ReceivesResponse, NEW x \in Txns, Steady(Call(x))
    PROVE  Latest(x)'
<1> USE ThreadsType DEF IInv
<1>1. PICK z \in Txns, code \in Codes : ReceiveResponse(z, code)
  BY DEF ReceivesResponse
<1>2. /\ UNCHANGED <<ct, invites, acked>> /\ At(Receiver, "idle")
      /\ thread'[Receiver] = Begin("response", "response", z, ct[z])
      /\ x # z => last'[x] = last[x]
  BY <1>1 DEF ReceiveResponse, Goto, TypeOK, handlerVars
<1>3. Latest(x)
  BY DEF Order
<1>4. Doing({"response"}, x)' <=> x = z
  BY <1>2 DEF Doing, On, Begin
<1>5. Live(x)' <=> ct[x] \in Open
  BY <1>2, <1>4 DEF Live, Begin
<1>6. Current(x)' <=> Current(x)
  BY <1>2 DEF Current
<1>7. ~Doing({"ring", "err", "confirm"}, x)' /\ ~Doing({"ring", "confirm"}, x)'
        /\ ~Doing({"err", "confirm"}, x)'
  BY <1>2 DEF Doing, Begin
<1>8. Doing({"response"}, x)' /\ thread'[Receiver].seen \notin Open => ct'[x] \notin Open
  BY <1>2, <1>4 DEF Begin
<1>9. ct'[x] = "PROCEEDING" => last'[x] \in Prov \/ Doing({"response"}, x)'
  <2>1. ~Doing({"response"}, x)
    BY <1>2 DEF Doing, At
  <2> QED BY <1>2, <1>3, <1>4, <2>1 DEF Latest
<1>10. ct[x] \in Open => Current(x) /\ x \in invites
  BY <1>3 DEF Latest, Live
<1> QED BY <1>2, <1>5, <1>6, <1>7, <1>8, <1>9, <1>10 DEF Latest

(* A response to an open transaction is handled.                           *)
LEMMA LatestHandle ==
    ASSUME IInv, Order, Receives1xx \/ Receives2xx \/ Receives300To699,
           NEW x \in Txns, Steady(Call(x))
    PROVE  Latest(x)'
<1> USE ThreadsType DEF IInv
<1> DEFINE z == On(Receiver)
<1>1. /\ At(Receiver, "response") /\ thread[Receiver].seen \in Open
      /\ UNCHANGED <<last, acked>>
  BY DEF Receives1xx, Receives2xx, Receives300To699, Received1xx, Received2xx,
     Received300To699, Receiving, Open, handlerVars
<1>2. z \in Txns /\ ct[z] # "none"
  BY <1>1, OnReceiver DEF At
<1>3. /\ z' = z
      /\ Receives1xx => thread'[Receiver].step \in {"ring", "check"}
      /\ Receives2xx => thread'[Receiver].step \in {"confirm", "dead"}
      /\ Receives300To699 => thread'[Receiver].step = "err"
  BY Advances DEF Receives1xx, Receives2xx, Receives300To699, Received1xx, Received2xx,
     Received300To699, Step, Same, On
<1>4. /\ Receives1xx => ct'[z] = "PROCEEDING" /\ invites' = invites /\ last[z] \in Prov
      /\ Receives2xx => ct'[z] = "TERMINATED" /\ invites' = invites
      /\ Receives300To699 => ct'[z] = "COMPLETED" /\ invites' = invites \ {z}
      /\ \A y \in Txns : y # z => ct'[y] = ct[y]
  BY <1>2 DEF Receives1xx, Receives2xx, Receives300To699, Received1xx, Received2xx,
     Received300To699, Receiving, SetState, TypeOK
<1> HIDE DEF z
<1>5. CASE x # z
  <2>1. \A y \in Txns : y # z => (y \in invites <=> y \in invites')
    BY <1>4
  <2> QED BY <1>1, <1>2, <1>3, <1>4, <1>5, <2>1, LatestOther DEF z
<1>6. CASE x = z
  <2>1. Latest(x) /\ Live(x)
    BY <1>1, <1>6 DEF Order, Live, Doing, At, z
  <2>2. Current(x) /\ x \in invites
    BY <2>1 DEF Latest
  <2>3. Current(x)'
    BY <1>1, <1>2, <1>4, <1>6, <2>2 DEF Current
  <2>4. thread'[Receiver].step # "response"
    BY <1>3
  <2>5. ~Doing({"response"}, x)'
    BY <2>4 DEF Doing
  <2>6. CASE Receives1xx
    <3>1. ~Doing({"err", "confirm"}, x)'
      BY <1>3, <2>6 DEF Doing
    <3> QED BY <1>1, <1>4, <1>6, <2>2, <2>3, <2>5, <2>6, <3>1 DEF Latest
  <2>7. CASE Receives2xx
    <3>1. ~Live(x)'
      BY <1>4, <1>6, <2>5, <2>7 DEF Live, Open
    <3> QED BY <1>4, <1>6, <2>2, <2>3, <2>5, <2>7, <3>1 DEF Latest, Open
  <2>8. CASE Receives300To699
    <3>1. ~Live(x)'
      BY <1>4, <1>6, <2>5, <2>8 DEF Live, Open
    <3>2. ~Doing({"ring", "confirm"}, x)'
      BY <1>3, <2>8 DEF Doing
    <3> QED BY <1>4, <1>6, <2>3, <2>5, <2>8, <3>1, <3>2 DEF Latest, Open
  <2> QED BY <2>6, <2>7, <2>8
<1> QED BY <1>5, <1>6

LEMMA LatestConfirm ==
    ASSUME IInv, Order, Confirm, NEW x \in Txns, Steady(Call(x))
    PROVE  Latest(x)'
<1> USE ThreadsType DEF IInv
<1> DEFINE z == On(Receiver)
<1>1. /\ UNCHANGED <<ct, invites, last>> /\ acked' = acked \cup {Call(z)}
      /\ Doing({"confirm"}, z)
  BY DEF Confirm, ctVars, CallOf, Doing, At
<1>2. thread'[Receiver].step = "check"
  BY Advances DEF Confirm, Same, Step
<1>3. z \in Txns /\ ct[z] # "none"
  BY <1>1, OnReceiver DEF Doing, At
<1> HIDE DEF z
<1>4. Latest(x)
  BY DEF Order
<1>5. \A S \in SUBSET {"response", "ring", "err", "confirm"} : ~Doing(S, x)'
  BY <1>2 DEF Doing
<1>6. /\ ~Doing({"ring", "err", "confirm"}, x)' /\ ~Doing({"ring", "confirm"}, x)'
      /\ ~Doing({"err", "confirm"}, x)' /\ ~Doing({"response"}, x)'
  BY <1>5
<1>7. ct[x] \in Open => Current(x) /\ x \in invites /\ Call(x) # Call(z)
  <2> SUFFICES ASSUME ct[x] \in Open PROVE Current(x) /\ x \in invites /\ Call(x) # Call(z)
    OBVIOUS
  <2>1. Current(x) /\ x \in invites
    BY <1>4 DEF Latest, Live
  <2>2. ASSUME Call(x) = Call(z) PROVE FALSE
    <3>1. Latest(z)
      BY <1>3, <2>2 DEF Order
    <3>2. Current(z) /\ ct[z] \notin Open
      BY <1>1, <3>1 DEF Latest, Doing
    <3> QED BY <1>3, <2>1, <2>2, <3>2, OneCurrent DEF Open
  <2> QED BY <2>1, <2>2
<1>8. ct[x] \in Open => Current(x)'
  BY <1>1, <1>7 DEF Current
<1>9. ct[x] = "PROCEEDING" => last[x] \in Prov
  <2>1. ~Doing({"response"}, x)
    BY <1>1 DEF Doing
  <2> QED BY <1>4, <2>1 DEF Latest
<1> QED BY <1>1, <1>6, <1>7, <1>8, <1>9 DEF Latest, Live

LEMMA LatestChallenge ==
    ASSUME IInv, Order, ChallengeReceived, NEW x \in Txns, Steady(Call(x)), Steady(Call(x))'
    PROVE  Latest(x)'
<1> USE ThreadsType DEF IInv
<1>1. PICK z \in Txns : z = On(Receiver) /\ Doing({"err"}, z) /\ ct[z] # "none"
  BY OnReceiver DEF ChallengeReceived, At, Doing
<1>2. UNCHANGED <<last, acked>> /\ thread'[Receiver].step = "idle"
  BY Ends, IdleType DEF ChallengeReceived, Rests
<1>3. CASE ~HasPassword
  <2>1. UNCHANGED <<ct, invites>>
    BY <1>3 DEF ChallengeReceived
  <2> QED BY <1>1, <1>2, <2>1, LatestKept DEF CtCalm, Leaves, Doing, At
<1>4. CASE HasPassword
  <2>1. PICK y \in Txns : y = Next1(z) /\ Call(y) = Call(z) /\ y[2] = z[2] + 1
    BY <1>1, <1>4, TxnsType DEF ChallengeReceived, Room, Next1, Call
  <2>2. /\ ct'[y] = "CALLING" /\ invites' = invites \cup {y}
        /\ \A u \in Txns : u # y => ct'[u] = ct[u]
    BY <1>1, <1>4, <2>1 DEF ChallengeReceived, StartInvite, SetState, TypeOK
  <2>3. Latest(x) /\ (Call(x) = Call(z) => Latest(z))
    BY DEF Order
  <2>4. Call(x) = Call(z) => Current(z) /\ ct[z] \notin Open
    BY <1>1, <2>3 DEF Latest, Doing
  <2>5. \A S \in SUBSET {"response", "ring", "err", "confirm"} : ~Doing(S, x)'
    BY <1>2 DEF Doing
  <2>6. /\ ~Doing({"ring", "err", "confirm"}, x)' /\ ~Doing({"ring", "confirm"}, x)'
        /\ ~Doing({"err", "confirm"}, x)' /\ ~Doing({"response"}, x)'
    BY <2>5
  <2>7. CASE x = y
    <3>1. \A u \in Txns : Call(u) = Call(y) /\ u[2] > y[2] => ct'[u] = "none"
      <4> SUFFICES ASSUME NEW u \in Txns, Call(u) = Call(y), u[2] > y[2]
                   PROVE  ct[u] = "none" /\ u # y
        BY <2>2
      <4>1. u[2] \in Nat /\ y[2] \in Nat /\ z[2] \in Nat
        BY TxnsType, OutCallsAssumption
      <4>2. u[2] > z[2] /\ u # y
        BY <2>1, <4>1
      <4> QED BY <2>1, <2>4, <2>7, <4>2 DEF Current
    <3>2. Current(x)'
      BY <1>2, <2>1, <2>4, <2>7, <3>1 DEF Current
    <3> QED BY <2>2, <2>6, <2>7, <3>2 DEF Latest
  <2>8. CASE x # y
    <3>1. ct[x] \in Open => Current(x) /\ x \in invites
      BY <2>3 DEF Latest, Live
    <3>2. ct[x] \in Open => Call(x) # Call(z)
      BY <1>1, <2>4, <3>1, OneCurrent DEF Open
    <3>3. ct[x] \in Open => Current(x)'
      BY <1>2, <2>1, <2>2, <3>1, <3>2 DEF Current
    <3>4. ~Doing({"response"}, x)
      BY <1>1 DEF Doing
    <3> QED BY <1>2, <2>2, <2>3, <2>6, <2>8, <3>1, <3>3, <3>4 DEF Latest, Live
  <2> QED BY <2>7, <2>8
<1> QED BY <1>3, <1>4

LEMMA LatestInvite ==
    ASSUME IInv, Order, NEW c \in Calls, Invite(c), NEW x \in Txns, Steady(Call(x))
    PROVE  Latest(x)'
<1> USE TxnsType DEF IInv
<1>1. PICK y \in Txns : y = <<c, 1>> /\ Call(y) = c /\ y[2] = 1
  BY DEF Call
<1>2. /\ UNCHANGED <<last, acked, thread>>
      /\ ct'[y] = "CALLING" /\ invites' = invites \cup {y}
      /\ \A u \in Txns : u # y => ct'[u] = ct[u]
  BY <1>1 DEF Invite, StartInvite, SetState, handlerVars, TypeOK
<1>3. c \notin acked /\ \A u \in Txns : Call(u) = c => ct[u] = "none"
  BY DEF Order, Fresh, Invite
<1>4. Latest(x)
  BY DEF Order
<1>5. CASE Call(x) = c
  <2>1. \A S \in SUBSET {"response", "ring", "err", "confirm"} : ~Doing(S, x)
    BY <1>3, <1>5, OnReceiver DEF Doing, At
  <2>2. \A S \in SUBSET {"response", "ring", "err", "confirm"} : ~Doing(S, x)'
    BY <1>2, <2>1 DEF Doing, On
  <2>3. /\ ~Doing({"ring", "err", "confirm"}, x)' /\ ~Doing({"ring", "confirm"}, x)'
        /\ ~Doing({"err", "confirm"}, x)' /\ ~Doing({"response"}, x)'
    BY <2>2
  <2>4. CASE x = y
    <3>1. \A u \in Txns : Call(u) = c /\ u[2] > 1 => ct'[u] = "none"
      BY <1>1, <1>2, <1>3
    <3>2. Current(x)'
      BY <1>1, <1>2, <1>3, <2>4, <3>1 DEF Current
    <3> QED BY <1>2, <2>3, <2>4, <3>2 DEF Latest
  <2>5. CASE x # y
    <3>1. ct'[x] = "none"
      BY <1>2, <1>3, <1>5, <2>5
    <3> QED BY <2>3, <3>1 DEF Latest, Live, Open
  <2> QED BY <2>4, <2>5
<1>6. CASE Call(x) # c
  <2>1. x # y /\ ct'[x] = ct[x] /\ (x \in invites' <=> x \in invites)
    BY <1>1, <1>2, <1>6
  <2>2. Current(x) => Current(x)'
    BY <1>1, <1>2, <1>6 DEF Current
  <2>3. \A S : Doing(S, x)' <=> Doing(S, x)
    BY <1>2 DEF Doing, On
  <2>4. /\ Doing({"ring", "err", "confirm"}, x)' <=> Doing({"ring", "err", "confirm"}, x)
        /\ Doing({"ring", "confirm"}, x)' <=> Doing({"ring", "confirm"}, x)
        /\ Doing({"err", "confirm"}, x)' <=> Doing({"err", "confirm"}, x)
        /\ Doing({"response"}, x)' <=> Doing({"response"}, x)
    BY <2>3
  <2> QED BY <1>2, <1>4, <2>1, <2>2, <2>4 DEF Latest, Live
<1> QED BY <1>5, <1>6

LEMMA LeavesStep ==
    ASSUME IInv, [Next]_vars, ~ReceivesResponse, ~Receives1xx, ~Receives2xx, ~Receives300To699
    PROVE  Leaves
<1> USE DEF IInv
<1>1. CASE /\ ReceiverActs \/ TerminateStep(Receiver)
           /\ thread'[Receiver].step \notin {"response", "ring", "err", "confirm"}
  <2>1. At(Receiver, "response") => thread[Receiver].seen \notin Open
    BY <1>1 DEF ReceiverActs, ReceivesResponse, Receives1xx, Receives2xx, Receives300To699, Ring,
       Confirm, CheckClosed, ChallengeReceived, CallRefused, CompletedReceived300To699,
       ResponseIgnored, InvalidDialogTransition, Receiving, Open, At,
       TerminateStep, Close, Lookup, EndDialogWithoutTransaction, FindTransaction, EndDialog,
       EndTransaction, StopSession
  <2> QED BY <1>1, <2>1 DEF Leaves
<1>2. ASSUME NEW c \in Calls, At(Receiver, "idle"),
             thread'[Receiver] = Begin("response", "dead", <<c, 1>>, "none")
      PROVE  Leaves
  BY <1>2 DEF Leaves, Begin, At
<1> QED BY <1>1, <1>2, FrameStep DEF Leaves, ReceivesResponse

LEMMA LatestStep ==
    ASSUME IInv, Order, [Next]_vars, NEW x \in Txns, Steady(Call(x)), Steady(Call(x))'
    PROVE  Latest(x)'
<1> USE DEF IInv
<1>1. CASE ReceivesResponse
  BY <1>1, LatestReceive
<1>2. CASE Receives1xx \/ Receives2xx \/ Receives300To699
  BY <1>2, LatestHandle
<1>3. CASE Confirm
  BY <1>3, LatestConfirm
<1>4. CASE ChallengeReceived
  BY <1>4, LatestChallenge
<1>5. ASSUME NEW c \in Calls, Invite(c) PROVE Latest(x)'
  BY <1>5, LatestInvite
<1>6. CASE /\ ~ReceivesResponse /\ ~Receives1xx /\ ~Receives2xx /\ ~Receives300To699
           /\ ~Confirm /\ ~ChallengeReceived /\ ~\E c \in Calls : Invite(c)
  <2>1. CtCalm
    BY <1>6, CtStep
  <2>2. Leaves
    BY <1>6, LeavesStep
  <2>3. UNCHANGED acked
    BY <1>6, AckedStep
  <2>4. UNCHANGED invites
    BY <1>6, KeepsRecordsUnless DEF KeepsRecords
  <2>5. UNCHANGED last
    BY <1>6, KeepsHandlingUnless DEF KeepsHandling
  <2> QED BY <2>1, <2>2, <2>3, <2>4, <2>5, LatestKept
<1> QED BY <1>1, <1>2, <1>3, <1>4, <1>5, <1>6

-----------------------------------------------------------------------------
(* The receiver thread does not begin to work on a dialog of c, and does   *)
(* not give it up.                                                         *)
Settles(c) ==
    /\ Is(Receiver, {"ring", "confirm"}, c)' => Is(Receiver, {"ring", "confirm"}, c)
    /\ Is(Receiver, {"ring", "confirm", "dead"}, c) => Is(Receiver, {"ring", "confirm", "dead"}, c)'

(* The frame, when no dialog changes.                                      *)
LEMMA SettlesStep ==
    ASSUME IInv, [Next]_vars, UNCHANGED dialogVars, ~Receives1xx, ~Receives2xx, ~Ring, ~Confirm,
           NEW c \in Calls
    PROVE  Settles(c)
<1> USE ThreadsType DEF IInv
<1>1. CASE UNCHANGED thread[Receiver]
  BY <1>1 DEF Settles, Is, CallOf, On
<1>2. CASE InvalidDialogTransition
  BY <1>2, AdvanceType DEF InvalidDialogTransition, Settles, Is, CallOf, On, Step
<1>3. CASE /\ thread'[Receiver].step \notin {"ring", "confirm"}
           /\ thread[Receiver].step \notin {"ring", "confirm", "dead"}
  BY <1>3 DEF Settles, Is
<1>4. CASE Receives300To699
  BY <1>3, <1>4, AdvanceType DEF Receives300To699, Received300To699, Receiving, At, Step
<1>5. CASE /\ ReceiverActs \/ TerminateStep(Receiver)
           /\ ~(ReceivesResponse \/ Receives300To699)
           /\ thread'[Receiver].step \notin {"response", "ring", "err", "confirm"}
  <2>1. CASE ~InvalidDialogTransition
    <3>1. thread[Receiver].step \notin {"ring", "confirm", "dead"}
      BY <1>5, <2>1 DEF ReceiverActs, ReceivesResponse, Receives1xx, Receives2xx,
         Receives300To699, CheckClosed, ChallengeReceived, CallRefused,
         CompletedReceived300To699, ResponseIgnored, Receiving, At,
         TerminateStep, Close, Lookup, EndDialogWithoutTransaction, FindTransaction, EndDialog,
         EndTransaction, StopSession
    <3> QED BY <1>3, <1>5, <3>1
  <2> QED BY <1>2, <2>1
<1>6. ASSUME NEW x \in Txns, NEW code \in Codes, ReceiveResponse(x, code),
             thread'[Receiver] = Begin("response", "response", x, ct[x])
      PROVE  Settles(c)
  BY <1>3, <1>6 DEF ReceiveResponse, At, Begin
<1>7. ASSUME NEW d \in Calls, At(Receiver, "idle"),
             thread'[Receiver] = Begin("response", "dead", <<d, 1>>, "none")
      PROVE  Settles(c)
  BY <1>3, <1>7 DEF At, Begin
<1> QED BY <1>1, <1>4, <1>5, <1>6, <1>7, FrameStep

(* One dialog changes at a time.                                           *)
LEMMA OneDialog ==
    ASSUME IInv, NEW c \in Calls, c # CallOf(Receiver),
           Receives1xx \/ Ring \/ Receives2xx \/ Confirm \/ ChallengeReceived \/ CallRefused
    PROVE  dialog'[c] = dialog[c] /\ (c \in dialogs' <=> c \in dialogs)
<1> USE DEF IInv
<1>1. CASE Receives1xx \/ Receives2xx
  BY <1>1 DEF Receives1xx, Receives2xx, Received1xx, Received2xx, CallOf, TypeOK
<1>2. CASE Ring \/ Confirm
  BY <1>2 DEF Ring, Confirm, dialogVars, TypeOK
<1>3. CASE ChallengeReceived \/ CallRefused
  BY <1>3 DEF ChallengeReceived, CallRefused, RefuseDialog, CallOf, TypeOK
<1> QED BY <1>1, <1>2, <1>3

LEMMA SaneStep == ASSUME IInv, Order, [Next]_vars, NEW c \in Calls PROVE Sane(c)'
<1> USE ThreadsType DEF IInv
<1>1. acked \subseteq acked' /\ Sane(c)
  BY AckedStep DEF Confirm, Order
<1>2. CASE /\ dialog'[c] = dialog[c] /\ (c \in dialogs' <=> c \in dialogs)
           /\ Settles(c)
  BY <1>1, <1>2 DEF Sane, Settles
<1>3. CASE /\ UNCHANGED dialogVars
           /\ ~Receives1xx /\ ~Receives2xx /\ ~Ring /\ ~Confirm
  BY <1>2, <1>3, SettlesStep DEF dialogVars
<1>4. ASSUME NEW d \in Calls, ByeSuccessResponseReceived(d) \/ HandleBye(d), ~UNCHANGED dialogVars
      PROVE  Sane(c)'
  <2>1. RemoveDialog(d) /\ UNCHANGED thread /\ At(Receiver, "idle")
    BY <1>4 DEF ByeSuccessResponseReceived, HandleBye, DieOnBye
  <2>2. CASE c = d
    <3>1. c \notin dialogs' /\ (dialog'[c] = "TERMINATED" \/ dialog'[c] = dialog[c])
      BY <2>1, <2>2 DEF RemoveDialog, DialogAfter, TypeOK
    <3>2. ~Is(Receiver, {"ring", "confirm"}, c)'
      BY <2>1 DEF Is, At
    <3> QED BY <1>1, <3>1, <3>2 DEF Sane
  <2>3. CASE c # d
    BY <1>2, <2>1, <2>3 DEF RemoveDialog, TypeOK, Settles, Is, CallOf, On
  <2> QED BY <2>2, <2>3
<1>5. CASE Receives1xx
  <2>1. /\ At(Receiver, "response")
        /\ thread'[Receiver].step \in {"ring", "check"} /\ On(Receiver)' = On(Receiver)
    BY <1>5, Advances DEF Receives1xx, Received1xx, Receiving, Same, Step, On
  <2>2. CASE c = CallOf(Receiver)
    <3>1. \/ /\ c \in dialogs' /\ dialog'[c] = "INIT" /\ thread'[Receiver].step = "ring"
             /\ c \notin dialogs
          \/ /\ c \in dialogs' <=> c \in dialogs
             /\ dialog'[c] = dialog[c] /\ thread'[Receiver].step = "check"
      BY <1>5, <2>2, Advances DEF Receives1xx, Received1xx, CallOf, Same, Step, TypeOK
    <3>2. ~Is(Receiver, {"ring", "confirm", "dead"}, c)
      BY <2>1 DEF Is, At
    <3>3. Is(Receiver, {"ring", "confirm"}, c)' => thread'[Receiver].step = "ring"
      BY <2>1 DEF Is
    <3>4. thread'[Receiver].step = "ring" => Is(Receiver, {"ring", "confirm", "dead"}, c)'
      BY <2>1, <2>2 DEF Is, CallOf
    <3> QED BY <1>1, <3>1, <3>2, <3>3, <3>4 DEF Sane
  <2>3. CASE c # CallOf(Receiver)
    <3>1. Settles(c)
      BY <2>1, <2>3 DEF Settles, Is, CallOf
    <3> QED BY <1>2, <1>5, <2>3, <3>1, OneDialog
  <2> QED BY <2>2, <2>3
<1>6. CASE Receives2xx
  <2>1. /\ At(Receiver, "response")
        /\ thread'[Receiver].step \in {"confirm", "dead"} /\ On(Receiver)' = On(Receiver)
    BY <1>6, Advances DEF Receives2xx, Received2xx, Receiving, Same, Step, On
  <2>2. CASE c = CallOf(Receiver)
    <3>1. /\ c \in dialogs'
          /\ \/ c \notin dialogs /\ dialog'[c] = "INIT"
             \/ c \in dialogs /\ dialog'[c] = dialog[c]
      <4>1. PICK s \in {"CALLING", "PROCEEDING"} : Received2xx(s)
        BY <1>6 DEF Receives2xx
      <4>2. /\ dialogs' = dialogs \cup {c}
            /\ dialog' = IF c \in dialogs THEN dialog ELSE [dialog EXCEPT ![c] = "INIT"]
        BY <2>2, <4>1 DEF Received2xx, CallOf
      <4> QED BY <4>2 DEF TypeOK
    <3>2. Is(Receiver, {"ring", "confirm", "dead"}, c)'
      BY <2>1, <2>2 DEF Is, CallOf
    <3> QED BY <1>1, <3>1, <3>2 DEF Sane
  <2>3. CASE c # CallOf(Receiver)
    <3>1. Settles(c)
      BY <2>1, <2>3 DEF Settles, Is, CallOf
    <3> QED BY <1>2, <1>6, <2>3, <3>1, OneDialog
  <2> QED BY <2>2, <2>3
<1>7. CASE Ring \/ Confirm
  <2>1. /\ thread[Receiver].step \in {"ring", "confirm"}
        /\ thread'[Receiver].step = "check" /\ On(Receiver)' = On(Receiver)
    BY <1>7, Advances DEF Ring, Confirm, Same, Step, On, At
  <2>2. CASE c = CallOf(Receiver)
    <3>1. \/ dialog'[c] = "EARLY"
          \/ dialog'[c] = "CONFIRMED" /\ c \in acked'
      BY <1>7, <2>2 DEF Ring, Confirm, DialogAfter, TypeOK
    <3>2. ~Is(Receiver, {"ring", "confirm"}, c)'
      BY <2>1 DEF Is
    <3> QED BY <3>1, <3>2 DEF Sane
  <2>3. CASE c # CallOf(Receiver)
    <3>1. Settles(c)
      BY <2>1, <2>3 DEF Settles, Is, CallOf
    <3> QED BY <1>2, <1>7, <2>3, <3>1, OneDialog
  <2> QED BY <2>2, <2>3
<1>8. CASE ChallengeReceived \/ CallRefused
  <2>1. At(Receiver, "err") /\ thread'[Receiver].step = "idle"
    BY <1>8, Ends, IdleType DEF ChallengeReceived, CallRefused, Rests
  <2>2. CASE c = CallOf(Receiver)
    <3>1. c \notin dialogs' /\ (dialog'[c] = "TERMINATED" \/ dialog'[c] = dialog[c])
      BY <1>8, <2>2 DEF ChallengeReceived, CallRefused, RefuseDialog, CallOf, DialogAfter, TypeOK
    <3>2. ~Is(Receiver, {"ring", "confirm"}, c)'
      BY <2>1 DEF Is
    <3> QED BY <1>1, <3>1, <3>2 DEF Sane
  <2>3. CASE c # CallOf(Receiver)
    <3>1. Settles(c)
      BY <2>1, <2>3 DEF Settles, Is, At
    <3> QED BY <1>2, <1>8, <2>3, <3>1, OneDialog
  <2> QED BY <2>2, <2>3
<1> QED BY <1>3, <1>4, <1>5, <1>6, <1>7, <1>8, DialogStep DEF Byes

LEMMA ConfirmedStep ==
    ASSUME IInv, Order, [Next]_vars, NEW c \in Calls, Steady(c) PROVE Confirmed(c)'
<1> USE ThreadsType DEF IInv
<1>1. Confirmed(c) /\ Sane(c) /\ (bye[c] # "none" => bye'[c] # "none") /\ byeIn \subseteq byeIn'
  BY ByeGrows DEF Order
<1>2. SUFFICES ASSUME c \in acked'
               PROVE  /\ c \in dialogs' => dialog'[c] = "CONFIRMED"
                      /\ c \notin dialogs' => bye'[c] # "none" \/ c \in byeIn'
  BY DEF Confirmed
<1>3. CASE Confirm
  <2>1. CASE c = CallOf(Receiver)
    <3>1. c \in dialogs
      BY <1>1, <1>3, <2>1 DEF Sane, Is, Confirm, At
    <3> QED BY <1>3, <2>1, <3>1 DEF Confirm, DialogAfter, TypeOK
  <2>2. CASE c # CallOf(Receiver)
    <3>1. c \in acked
      BY <1>2, <1>3, <2>2 DEF Confirm
    <3> QED BY <1>1, <1>3, <2>2, <3>1, OneDialog DEF Confirmed
  <2> QED BY <2>1, <2>2
<1>4. CASE ~Confirm
  <2>1. c \in acked
    BY <1>2, <1>4, AckedStep
  <2>2. CASE dialog'[c] = dialog[c] /\ (c \in dialogs' <=> c \in dialogs)
    BY <1>1, <2>1, <2>2 DEF Confirmed
  <2>3. ASSUME NEW d \in Calls, ByeSuccessResponseReceived(d) \/ HandleBye(d),
               ~UNCHANGED dialogVars
        PROVE  \/ dialog'[c] = dialog[c] /\ (c \in dialogs' <=> c \in dialogs)
               \/ c \notin dialogs' /\ (bye'[c] # "none" \/ c \in byeIn')
    <3>1. RemoveDialog(d) /\ (d = c => bye'[c] # "none" \/ c \in byeIn')
      BY <2>3 DEF ByeSuccessResponseReceived, HandleBye, DieOnBye, TypeOK
    <3> QED BY <3>1 DEF RemoveDialog, TypeOK
  <2>4. CASE Receives1xx \/ Receives2xx \/ Ring \/ ChallengeReceived \/ CallRefused
    <3>1. CASE c # CallOf(Receiver)
      BY <2>2, <2>4, <3>1, OneDialog
    <3>2. CASE c = CallOf(Receiver)
      <4>1. \/ At(Receiver, "response") /\ thread[Receiver].seen \in Open
            \/ At(Receiver, "ring") \/ At(Receiver, "err")
        BY <2>4 DEF Receives1xx, Received1xx, Receives2xx, Received2xx, Receiving, Open, Ring,
           ChallengeReceived, CallRefused
      <4>2. PICK x \in Txns : x = On(Receiver) /\ Call(x) = c
        BY <3>2, <4>1, OnReceiver DEF At, CallOf
      <4>3. Latest(x)
        BY <4>2 DEF Order
      <4>4. Current(x)
        BY <4>1, <4>2, <4>3 DEF Latest, Live, Doing, At
      <4> QED BY <2>1, <4>2, <4>4 DEF Current
    <3> QED BY <3>1, <3>2
  <2> QED BY <1>4, <2>2, <2>3, <2>4, DialogStep DEF Byes, dialogVars
<1> QED BY <1>3, <1>4

(* A dialog state throws at a call that races only.                        *)
LEMMA DiedStep == ASSUME IInv, Order, [Next]_vars PROVE Died'
<1> USE ThreadsType DEF IInv
<1>1. CASE UNCHANGED thread[Receiver]
  <2>1. CallOf(Receiver)' = CallOf(Receiver) /\ acked \subseteq acked'
    BY <1>1, AckedStep DEF CallOf, On, Confirm
  <2>2. Steady(CallOf(Receiver))' => Steady(CallOf(Receiver))
    BY <2>1, RevivedStep DEF Steady, CallingTimerA
  <2> QED BY <1>1, <2>1, <2>2 DEF Order, Died, ReceiverAlive, At
<1>2. CASE thread'[Receiver].step # "dead"
  BY <1>2 DEF Died, ReceiverAlive, At
<1>3. ASSUME Receives2xx, thread'[Receiver].step = "dead" PROVE Died'
  <2>1. On(Receiver)' = On(Receiver) /\ CallOf(Receiver) \notin CodecCalls
    <3>1. PICK s \in {"CALLING", "PROCEEDING"} : Received2xx(s)
      BY <1>3 DEF Receives2xx
    <3>2. At(Receiver, "response")
      BY <3>1 DEF Received2xx, Receiving
    <3>3. CallOf(Receiver) \in Calls
      BY <3>2, OnReceiver DEF At
    <3>4. CASE CallOf(Receiver) \in CodecCalls
      <4>1. mediaDest' # None
        BY <3>1, <3>3, <3>4, OutCallsAssumption DEF Received2xx, CallOf
      <4> QED BY <1>3, <3>1, <4>1, AdvanceType DEF Received2xx, Step
    <3>5. On(Receiver)' = On(Receiver)
      BY <3>1, AdvanceType DEF Received2xx, Step, On
    <3> QED BY <3>4, <3>5
  <2> QED BY <2>1 DEF Died, CallOf
<1>4. CASE InvalidDialogTransition
  <2>1. On(Receiver)' = On(Receiver) /\ UNCHANGED acked
    BY <1>4, AdvanceType DEF InvalidDialogTransition, Step, On, handlerVars
  <2>2. PICK x \in Txns : x = On(Receiver) /\ Call(x) \in Calls /\ Doing({"confirm", "err"}, x)
    BY <1>4, OnReceiver DEF InvalidDialogTransition, At, Doing, CallOf
  <2>3. dialog[Call(x)] = "CONFIRMED"
    <3>1. dialog[Call(x)] \in {"CONFIRMED", "TERMINATED"} /\ Call(x) \in dialogs
      BY <1>4, <2>2 DEF InvalidDialogTransition, InvalidTransition, Order, Sane, Is, At, CallOf
    <3> QED BY <2>2, <3>1 DEF Order, Sane
  <2>4. Call(x) \in acked
    BY <2>2, <2>3 DEF Order, Sane
  <2>5. ~Steady(Call(x))
    BY <2>2, <2>4 DEF Order, Latest, Doing, Current
  <2>6. CallOf(Receiver)' = Call(x) /\ ~Steady(Call(x))'
    BY <2>1, <2>2, <2>5, SteadyBefore DEF CallOf
  <2>7. ~Steady(CallOf(Receiver))'
    BY <2>6 DEF Steady
  <2> QED BY <2>1, <2>4, <2>6, <2>7 DEF Died
<1>5. ASSUME NEW c \in Calls, ByeSuccessResponseReceived(c) \/ HandleBye(c), DieOnBye(c)
      PROVE  Died'
  <2>1. c \in acked /\ acked' = acked /\ At(Receiver, "idle")
    BY <1>5 DEF ByeSuccessResponseReceived, HandleBye, handlerVars
  <2>2. CASE DialogThrows(c)
    <3>1. c \in dialogs /\ dialog[c] # "CONFIRMED"
      BY <2>2 DEF DialogThrows, InvalidTransition
    <3>2. ~Steady(c)
      BY <2>1, <3>1 DEF Order, Confirmed
    <3>3. CallOf(Receiver)' = c
      BY <1>5, TxnsType DEF DieOnBye, Goto, Begin, TypeOK, CallOf, On
    <3>4. ~Steady(c)'
      BY <3>2, SteadyBefore
    <3>5. ~Steady(CallOf(Receiver))'
      BY <3>3, <3>4 DEF Steady
    <3> QED BY <2>1, <3>3, <3>5 DEF Died
  <2>3. CASE ~DialogThrows(c)
    BY <1>1, <1>5, <2>3 DEF ByeSuccessResponseReceived, HandleBye
  <2> QED BY <2>2, <2>3
<1>6. CASE ReceiverActs /\ ~Receives2xx /\ ~InvalidDialogTransition
  <2>1. CASE ReceivesResponse
    <3>1. thread'[Receiver].step = "response"
      BY <2>1 DEF ReceivesResponse, ReceiveResponse, Goto, Begin, TypeOK
    <3> QED BY <1>2, <3>1
  <2>2. CASE ~ReceivesResponse
    <3>1. thread'[Receiver].step # "dead"
      BY <1>6, <2>2, AdvanceType, Ends, IdleType DEF ReceiverActs, ReceivesResponse, Receives2xx,
         Received1xx, Received300To699, Ring, Confirm, CheckClosed, ChallengeReceived,
         CallRefused, CompletedReceived300To699, ResponseIgnored, Rests, Step
    <3> QED BY <1>2, <3>1
  <2> QED BY <2>1, <2>2
<1>7. CASE TerminateStep(Receiver)
  <2>1. thread'[Receiver].step # "dead"
    <3>1. CASE FindTransaction(Receiver)
      BY <3>1 DEF FindTransaction, Goto, TypeOK, Frame
    <3>2. CASE ~FindTransaction(Receiver)
      BY <1>7, <3>2, AdvanceType, Ends, IdleType DEF TerminateStep, Close, Lookup,
         EndDialogWithoutTransaction, EndDialog, EndTransaction, StopSession, Rests, Step
    <3> QED BY <3>1, <3>2
  <2> QED BY <1>2, <2>1
<1>8. ASSUME NEW t \in Threads, t # Receiver, TerminateStep(t) PROVE UNCHANGED thread[Receiver]
  BY <1>8 DEF TerminateStep, Close, Lookup, EndDialogWithoutTransaction, FindTransaction,
     EndDialog, EndTransaction, StopSession, Advance, Goto, TypeOK
<1>9. ASSUME NEW c \in Calls, Invite(c) \/ \E t \in AppThreads : Hangup(t, c)
      PROVE  UNCHANGED thread[Receiver]
  BY <1>9, OutThreadsAssumption DEF Invite, Hangup, Goto, TypeOK, Threads
<1>10. CASE (\E x \in Txns, task \in DueTimers : TimerFires(x, task))
              \/ CallingTimerA \/ CallingTimerB \/ CompletedTimerD \/ TimerIgnored
               \/ UNCHANGED vars
  BY <1>1, <1>10 DEF TimerFires, CallingTimerA, CallingTimerB, CompletedTimerD, TimerIgnored,
     Goto, TypeOK, vars
<1>11. ASSUME NEW c \in Calls, ByeSuccessResponseReceived(c) \/ HandleBye(c)
       PROVE  DieOnBye(c) \/ UNCHANGED thread[Receiver]
  BY <1>11 DEF ByeSuccessResponseReceived, HandleBye
<1> QED BY <1>1, <1>2, <1>3, <1>4, <1>5, <1>6, <1>7, <1>8, <1>9, <1>10, <1>11, Kinds

LEMMA OrderStep == IInv /\ Order /\ [Next]_vars => Order'
<1> SUFFICES ASSUME IInv, Order, [Next]_vars PROVE Order'
  OBVIOUS
<1>1. Framed' /\ Punctual' /\ Died' /\ Unrevived'
  BY FramedStep, PunctualStep, DiedStep, UnrevivedStep DEF Order
<1>2. \A c \in Calls : Fresh(c)' /\ Sane(c)' /\ (Steady(c)' => Confirmed(c)')
  BY FreshStep, SaneStep, ConfirmedStep, SteadyBefore
<1>3. \A x \in Txns : Steady(Call(x))' => Latest(x)'
  BY LatestStep, SteadyBefore
<1> QED BY <1>1, <1>2, <1>3 DEF Order

LEMMA InitOrder == Init => Order
<1> SUFFICES ASSUME Init PROVE Order
  OBVIOUS
<1> USE ThreadsType, TxnsType, IdleType
<1>1. /\ \A x \in Txns : ct[x] = "none"
      /\ \A c \in Calls : dialog[c] = "INIT"
      /\ dialogs = {} /\ acked = {} /\ thread[Receiver] = Idle /\ thread[TimerThread] = Idle
  BY DEF Init
<1>2. \A S \in SUBSET Step, x \in Txns : "idle" \notin S => ~Doing(S, x)
  BY <1>1 DEF Doing
<1>3. Framed /\ Punctual /\ Died /\ Unrevived
  BY <1>1 DEF Framed, Punctual, Died, At, Firing, ReceiverAlive, Init, Unrevived, Steady
<1>4. \A c \in Calls : Fresh(c) /\ Sane(c) /\ Confirmed(c)
  BY <1>1 DEF Fresh, Sane, Confirmed, Is
<1>5. \A x \in Txns : Latest(x)
  BY <1>1, <1>2 DEF Latest, Live, Open, Step
<1> QED BY <1>3, <1>4, <1>5 DEF Order

(* What orders the responses of a call holds in every reachable state.     *)
THEOREM Ordered == Spec => [](IInv /\ Order)
BY InitIInv, NextIInv, InitOrder, OrderStep, PTL DEF Spec

(* No dialog state throws in the receiver thread when every 200 names a    *)
(* codec, unless a timer A task that read the state before a response was  *)
(* handled runs after it and puts an answered transaction back into        *)
(* Calling, so that a copy of the 200 meets a dialog that is confirmed.    *)
THEOREM OnlyRevivalKills ==
    ASSUME CodecCalls = Calls
    PROVE  Spec => []ReceiverDiesOnlyAfterRevival
<1>1. IInv /\ Order => ReceiverDiesOnlyAfterRevival
  <2> SUFFICES ASSUME IInv, Order, ~ReceiverAlive
               PROVE  CallOf(Receiver) \in acked /\ ~Steady(CallOf(Receiver))
    BY DEF ReceiverDiesOnlyAfterRevival, Steady
  <2>1. CallOf(Receiver) \in CodecCalls
    BY OnReceiver DEF ReceiverAlive, At
  <2> QED BY <2>1 DEF Order, Died
<1> QED BY <1>1, Ordered, PTL

-----------------------------------------------------------------------------
(***************************************************************************)
(* A call that the application ends                                        *)
(***************************************************************************)

(* No response to an INVITE of c makes it open again.                      *)
Stopped(c) ==
    \A x \in Txns : Call(x) = c =>
        /\ ~Live(x)
        /\ ~Doing({"ring", "confirm"}, x)
        /\ Doing({"err"}, x) => last[x] \notin Challenge

Terminating == {"close", "lookup", "found", "lock", "notFound", "stop"}
Someone(steps, c) == \E t \in Threads : Is(t, steps, c)

(* The receiver thread will see that c is closed.                          *)
Noticed(steps, c) == Is(Receiver, steps, c) /\ c \in guiClosed

Closing(c) ==
    app[c] = "closed" =>
        \/ c \in guiClosed
        \/ bye[c] # "none"
        \/ Stopped(c) /\ c \notin acked
        \/ Someone({"close"}, c)

Hung(c) == bye[c] # "none" => ChallengedTwice(c) \/ Stopped(c)

(* A confirmed dialog is ended, or a thread is about to.                   *)
Bidden(c) ==
    app[c] = "closed" /\ c \in acked =>
        \/ bye[c] # "none"
        \/ c \in byeIn
        \/ Someone({"close", "lookup"}, c)
        \/ Someone({"found", "lock"}, c) /\ c \in dialogs
        \/ Noticed({"check"}, c)

(* An INVITE that rings is cancelled, or a thread is about to.             *)
Tended(x) ==
    \/ Someone({"close", "lookup", "notFound"}, Call(x))
    \/ Someone({"found"}, Call(x)) /\ Call(x) \in dialogs
    \/ \E t \in Threads :
          Is(t, {"lock"}, Call(x)) /\ thread[t].found = x /\ Call(x) \in dialogs
    \/ Doing({"response"}, x)
    \/ Noticed({"ring", "check"}, Call(x))

Cancelled(x) ==
    app[Call(x)] = "closed" /\ ct[x] = "PROCEEDING" =>
        x \in cancels \/ ChallengedTwice(Call(x)) \/ Tended(x) \/ ~ReceiverAlive

(* The session of a call ends, or a thread is about to end it.             *)
CodecMissing == \E c \in Calls \ CodecCalls : \E x \in Attempts(c) : 200 \in heard[x]

Silenced ==
    session # None /\ app[session.to] = "closed" =>
        \/ CodecMissing
        \/ ChallengedTwice(session.to)
        \/ ~ReceiverAlive
        \/ Someone(Terminating, session.to)
        \/ Noticed({"confirm", "check"}, session.to)

Ending ==
    /\ \A c \in Calls : Orderly(c) => Closing(c) /\ Hung(c) /\ Bidden(c)
    /\ \A x \in Txns : Orderly(Call(x)) => Cancelled(x)
    /\ session # None => (Orderly(session.to) => Silenced)

(* How a thread goes on with terminate.                                    *)
Goes(t, step) ==
    /\ thread'[t].step = step
    /\ CallOf(t)' = CallOf(t)
    /\ \A u \in Threads \ {t} : thread'[u] = thread[u]

LEMMA TerminateMoves ==
    ASSUME IInv, NEW t \in Threads, TerminateStep(t)
    PROVE  /\ thread[t].step \in Terminating
           /\ \A u \in Threads \ {t} : thread'[u] = thread[u]
           /\ Close(t) => Goes(t, "lookup")
           /\ Lookup(t) /\ CallOf(t) \in dialogs => Goes(t, "found")
           /\ Lookup(t) /\ CallOf(t) \notin dialogs => Goes(t, "notFound")
           /\ FindTransaction(t) => Goes(t, "lock")
           /\ EndDialogWithoutTransaction(t) \/ EndDialog(t) \/ EndTransaction(t) => Goes(t, "stop")
<1> USE DEF IInv
<1>1. thread[t].step \in Terminating
  BY DEF TerminateStep, Close, Lookup, EndDialogWithoutTransaction, FindTransaction, EndDialog,
     EndTransaction, StopSession, At, Terminating
<1>2. \A step \in Step : Advance(t, step) => Goes(t, step)
  BY AdvanceType DEF Goes, CallOf, On
<1>3. FindTransaction(t) => Goes(t, "lock")
  BY DEF FindTransaction, Goto, TypeOK, Frame, Goes, CallOf, On
<1>4. Lookup(t) /\ CallOf(t) \in dialogs => Goes(t, "found")
  BY <1>2 DEF Lookup, Step
<1>5. Lookup(t) /\ CallOf(t) \notin dialogs => Goes(t, "notFound")
  BY <1>2 DEF Lookup, Step
<1>6. Close(t) => Goes(t, "lookup")
  BY <1>2 DEF Close, Step
<1>7. EndDialogWithoutTransaction(t) \/ EndDialog(t) \/ EndTransaction(t) => Goes(t, "stop")
  BY <1>2 DEF EndDialogWithoutTransaction, EndDialog, EndTransaction, Step
<1>8. StopSession(t) => \A u \in Threads \ {t} : thread'[u] = thread[u]
  BY GotoType, IdleType DEF StopSession
<1> QED BY <1>1, <1>3, <1>4, <1>5, <1>6, <1>7, <1>8 DEF TerminateStep, Goes

(* A thread that is in terminate is moved by terminate only.               *)
LEMMA TerminatingStep ==
    ASSUME IInv, [Next]_vars, NEW t \in Threads, thread[t].step \in Terminating
    PROVE  thread'[t] = thread[t] \/ TerminateStep(t)
<1> USE ThreadsType, OutThreadsAssumption DEF IInv
<1>1. CASE ReceiverActs
  <2>1. CASE t = Receiver
    BY <1>1, <2>1 DEF ReceiverActs, ReceiveResponse, Received1xx, Received2xx, Received300To699,
       Ring, Confirm, CheckClosed, ChallengeReceived, CallRefused, CompletedReceived300To699,
       ResponseIgnored, InvalidDialogTransition, Receiving, At, Terminating
  <2> QED BY <1>1, <2>1, ReceiverMoves
<1>2. ASSUME NEW u \in Threads, u # t, TerminateStep(u) PROVE thread'[t] = thread[t]
  BY <1>2, TerminateMoves
<1>3. ASSUME NEW c \in Calls, \/ Invite(c) \/ \E u \in AppThreads : Hangup(u, c)
                              \/ ByeSuccessResponseReceived(c) \/ HandleBye(c)
      PROVE  thread'[t] = thread[t]
  BY <1>3 DEF Invite, Hangup, ByeSuccessResponseReceived, HandleBye, DieOnBye, Goto, TypeOK, At,
     Terminating, Threads
<1>4. CASE (\E x \in Txns, task \in DueTimers : TimerFires(x, task))
              \/ CallingTimerA \/ CallingTimerB \/ CompletedTimerD \/ TimerIgnored
  BY <1>4 DEF TimerFires, CallingTimerA, CallingTimerB, CompletedTimerD, TimerIgnored, Firing,
     Goto, TypeOK, At, Terminating
<1>5. CASE UNCHANGED vars
  BY <1>5 DEF vars
<1> QED BY <1>1, <1>2, <1>3, <1>4, <1>5, Kinds

LEMMA SomeoneKept ==
    ASSUME NEW t \in Threads, NEW S, NEW c, Is(t, S, c), thread'[t] = thread[t]
    PROVE  Is(t, S, c)'
BY DEF Is, CallOf, On

LEMMA Going ==
    ASSUME NEW t \in Threads, NEW c, CallOf(t) = c
    PROVE  /\ Goes(t, "lookup") => Someone({"close", "lookup"}, c)'
           /\ Goes(t, "lookup") => Someone({"close", "lookup", "notFound"}, c)'
           /\ Goes(t, "notFound") => Someone({"close", "lookup", "notFound"}, c)'
           /\ Goes(t, "close") => Someone({"close", "lookup"}, c)'
           /\ Goes(t, "close") => Someone({"close", "lookup", "notFound"}, c)'
           /\ Goes(t, "found") => Someone({"found", "lock"}, c)'
           /\ Goes(t, "found") => Someone({"found"}, c)'
           /\ Goes(t, "lock") => Someone({"found", "lock"}, c)'
           /\ \A step \in Terminating : Goes(t, step) => Someone(Terminating, c)'
<1>1. \A S, step : step \in S /\ Goes(t, step) => Is(t, S, c)'
  BY DEF Goes, Is
<1>2. \A S, step : step \in S /\ Goes(t, step) => Someone(S, c)'
  BY <1>1 DEF Someone
<1> QED BY <1>2

(* The end of the handling of a response.                                  *)
LEMMA NoticingStep ==
    ASSUME IInv, [Next]_vars, thread[Receiver].step \in {"ring", "confirm", "check"}
    PROVE  \/ thread'[Receiver] = thread[Receiver]
           \/ (Ring \/ Confirm) /\ Goes(Receiver, "check")
           \/ CheckClosed /\ (CallOf(Receiver) \in guiClosed => Goes(Receiver, "close"))
           \/ InvalidDialogTransition /\ Goes(Receiver, "dead") /\ At(Receiver, "confirm")
<1> USE ThreadsType, OutThreadsAssumption DEF IInv
<1>1. \A step \in Step : Advance(Receiver, step) => Goes(Receiver, step)
  BY AdvanceType DEF Goes, CallOf, On
<1>2. CASE ReceiverActs
  <2>1. Ring \/ Confirm \/ CheckClosed \/ InvalidDialogTransition
    BY <1>2 DEF ReceiverActs, ReceiveResponse, Received1xx, Received2xx, Received300To699,
       ChallengeReceived, CallRefused, CompletedReceived300To699, ResponseIgnored, Receiving, At
  <2>2. Ring \/ Confirm => Goes(Receiver, "check")
    BY <1>1 DEF Ring, Confirm, Step
  <2>3. CheckClosed /\ CallOf(Receiver) \in guiClosed => Goes(Receiver, "close")
    BY <1>1 DEF CheckClosed, Step
  <2>4. InvalidDialogTransition => Goes(Receiver, "dead") /\ At(Receiver, "confirm")
    BY <1>1 DEF InvalidDialogTransition, Step, At
  <2> QED BY <2>1, <2>2, <2>3, <2>4
<1>3. ASSUME NEW u \in Threads, TerminateStep(u) PROVE thread'[Receiver] = thread[Receiver]
  BY <1>3, TerminateMoves DEF Terminating
<1>4. ASSUME NEW c \in Calls, \/ Invite(c) \/ \E u \in AppThreads : Hangup(u, c)
                              \/ ByeSuccessResponseReceived(c) \/ HandleBye(c)
      PROVE  thread'[Receiver] = thread[Receiver]
  BY <1>4 DEF Invite, Hangup, ByeSuccessResponseReceived, HandleBye, DieOnBye, Goto, TypeOK, At,
     Threads
<1>5. CASE (\E x \in Txns, task \in DueTimers : TimerFires(x, task))
              \/ CallingTimerA \/ CallingTimerB \/ CompletedTimerD \/ TimerIgnored
  BY <1>5 DEF TimerFires, CallingTimerA, CallingTimerB, CompletedTimerD, TimerIgnored,
     Goto, TypeOK
<1>6. CASE UNCHANGED vars
  BY <1>6 DEF vars
<1> QED BY <1>2, <1>3, <1>4, <1>5, <1>6, Kinds

(* Who forgets that a call is closed, and who sends a BYE.                 *)
SendsBye(t) ==
    \/ EndDialogWithoutTransaction(t)
    \/ EndDialog(t) /\ dialog[CallOf(t)] = "CONFIRMED"

LEMMA UacStep ==
    ASSUME IInv, [Next]_vars, NEW c \in Calls
    PROVE  /\ \/ c \in guiClosed => c \in guiClosed'
              \/ CallRefused /\ c = CallOf(Receiver)
              \/ bye'[c] # "none" /\ \E t \in Threads : SendsBye(t) /\ c = CallOf(t)
           /\ \/ bye'[c] # "none" => bye[c] # "none"
              \/ \E t \in Threads : SendsBye(t) /\ c = CallOf(t)
           /\ cancels \subseteq cancels'
<1> USE DEF IInv
<1>1. CASE ReceiverActs
  <2>1. CASE CallRefused
    BY <2>1 DEF CallRefused
  <2>2. CASE ~CallRefused
    <3>1. UNCHANGED uacVars
      BY <1>1, <2>2 DEF ReceiverActs, ReceiveResponse, Received1xx, Received2xx,
         Received300To699, Ring, Confirm, CheckClosed, ChallengeReceived,
         CompletedReceived300To699, ResponseIgnored, InvalidDialogTransition
    <3> QED BY <3>1 DEF uacVars
  <2> QED BY <2>1, <2>2
<1>2. ASSUME NEW t \in Threads, TerminateStep(t)
      PROVE  /\ \/ c \in guiClosed => c \in guiClosed'
                \/ bye'[c] # "none" /\ SendsBye(t) /\ c = CallOf(t)
             /\ (bye'[c] # "none" => bye[c] # "none") \/ (SendsBye(t) /\ c = CallOf(t))
             /\ cancels \subseteq cancels'
  <2>1. CASE EndDialogWithoutTransaction(t)
    <3>1. SendsBye(t) /\ SendBye(CallOf(t)) /\ cancels' = cancels
      BY <2>1 DEF EndDialogWithoutTransaction, SendsBye
    <3> QED BY <3>1 DEF SendBye, TypeOK
  <2>2. CASE EndDialog(t)
    <3>1. CASE dialog[CallOf(t)] = "CONFIRMED"
      BY <2>2, <3>1 DEF EndDialog, SendBye, SendsBye, TypeOK
    <3>2. CASE dialog[CallOf(t)] # "CONFIRMED"
      BY <2>2, <3>2 DEF EndDialog, SendCancel, uacVars
    <3> QED BY <3>1, <3>2
  <2>3. CASE EndTransaction(t)
    BY <2>3 DEF EndTransaction, SendCancel
  <2>4. CASE ~(EndDialogWithoutTransaction(t) \/ EndDialog(t) \/ EndTransaction(t))
    BY <1>2, <2>4 DEF TerminateStep, Close, Lookup, FindTransaction, StopSession, uacVars
  <2> QED BY <2>1, <2>2, <2>3, <2>4
<1>3. ASSUME NEW d \in Calls, \/ Invite(d) \/ \E t \in AppThreads : Hangup(t, d)
                              \/ ByeSuccessResponseReceived(d) \/ HandleBye(d)
      PROVE  /\ guiClosed' = guiClosed /\ cancels' = cancels
             /\ bye'[c] # "none" => bye[c] # "none"
  BY <1>3 DEF Invite, Hangup, ByeSuccessResponseReceived, HandleBye, uacVars, TypeOK
<1>4. CASE (\E x \in Txns, task \in DueTimers : TimerFires(x, task))
              \/ CallingTimerA \/ CallingTimerB \/ CompletedTimerD \/ TimerIgnored
  BY <1>4 DEF TimerFires, CallingTimerA, CallingTimerB, CompletedTimerD, TimerIgnored, uacVars
<1>5. CASE UNCHANGED vars
  BY <1>5 DEF vars, uacVars
<1> QED BY <1>1, <1>2, <1>3, <1>4, <1>5, Kinds

(* A response is handled while its transaction is open.                    *)
LEMMA HandlesLive ==
    ASSUME IInv, Receives1xx \/ Receives2xx \/ Receives300To699
    PROVE  /\ On(Receiver) \in Txns /\ Live(On(Receiver)) /\ On(Receiver)' = On(Receiver)
           /\ At(Receiver, "response")
<1> USE ThreadsType DEF IInv
<1>1. At(Receiver, "response") /\ thread[Receiver].seen \in Open
  BY DEF Receives1xx, Receives2xx, Receives300To699, Received1xx, Received2xx,
     Received300To699, Receiving, Open
<1>2. On(Receiver)' = On(Receiver)
  BY Advances DEF Receives1xx, Receives2xx, Receives300To699, Received1xx, Received2xx,
     Received300To699, Step, Same, On
<1> QED BY <1>1, <1>2, OnReceiver DEF Live, Doing, At

LEMMA StoppedStep ==
    ASSUME IInv, Order, [Next]_vars, NEW c \in Calls, Steady(c), Steady(c)',
           app[c] # "none", Stopped(c)
    PROVE  Stopped(c)'
<1> USE ThreadsType DEF IInv
<1> SUFFICES ASSUME NEW x \in Txns, Call(x) = c
             PROVE  /\ ~Live(x)'
                    /\ ~Doing({"ring", "confirm"}, x)'
                    /\ Doing({"err"}, x)' => last'[x] \notin Challenge
  BY DEF Stopped
<1>1. /\ ~Live(x)
      /\ ~Doing({"ring", "confirm"}, x)
      /\ Doing({"err"}, x) => last[x] \notin Challenge
  BY DEF Stopped
<1>2. Receives1xx \/ Receives2xx \/ Receives300To699 => Call(On(Receiver)) # c
  BY HandlesLive DEF Stopped
<1>3. ct'[x] \notin Open
  <2>1. ct[x] \notin Open
    BY <1>1 DEF Live
  <2>2. CASE Receives1xx
    <3>1. On(Receiver) # x
      BY <1>2, <2>2
    <3> QED BY <2>1, <2>2, <3>1 DEF Receives1xx, Received1xx, SetState, TypeOK
  <2>3. CASE ChallengeReceived
    <3>1. PICK y \in Txns : y = On(Receiver) /\ Doing({"err"}, y) /\ last[y] \in Challenge
      BY <2>3, OnReceiver DEF ChallengeReceived, At, Doing, IsChallenge, Challenge
    <3>2. Call(y) # c
      BY <3>1 DEF Stopped
    <3>3. Next1(y) # x
      BY <3>2 DEF Next1, Call
    <3> QED BY <2>1, <2>3, <3>1, <3>3 DEF ChallengeReceived, StartInvite, SetState, TypeOK
  <2>4. ASSUME NEW d \in Calls, Invite(d) PROVE ct'[x] \notin Open
    <3>1. d # c
      BY <2>4 DEF Invite
    <3>2. <<d, 1>> # x
      BY <3>1, TxnsType
    <3> QED BY <2>1, <2>4, <3>2 DEF Invite, StartInvite, SetState, TypeOK
  <2>5. CASE CtCalm
    BY <2>1, <2>5 DEF CtCalm, Open
  <2> QED BY <2>2, <2>3, <2>4, <2>5, CtStep
<1>4. CASE UNCHANGED thread[Receiver]
  <2>1. \A S : Doing(S, x)' <=> Doing(S, x)
    BY <1>4 DEF Doing, On
  <2>2. /\ Doing({"response"}, x)' <=> Doing({"response"}, x)
        /\ Doing({"err"}, x)' <=> Doing({"err"}, x)
        /\ Doing({"ring", "confirm"}, x)' <=> Doing({"ring", "confirm"}, x)
    BY <2>1
  <2>3. Doing({"err"}, x) => last' = last
    <3>1. Doing({"err"}, x) => ~ReceivesResponse
      BY DEF Doing, ReceivesResponse, ReceiveResponse, At
    <3> QED BY <3>1, KeepsHandlingUnless DEF KeepsHandling, Receives1xx, Receives2xx,
               Receives300To699, Received1xx, Received2xx, Received300To699
  <2> QED BY <1>1, <1>3, <1>4, <2>2, <2>3 DEF Live
<1>5. CASE thread'[Receiver].step \notin {"response", "ring", "err", "confirm"}
  BY <1>3, <1>5 DEF Live, Doing
<1>6. CASE Receives1xx \/ Receives2xx \/ Receives300To699
  <2>1. On(Receiver)' # x
    BY <1>2, <1>6, HandlesLive
  <2> QED BY <1>3, <2>1 DEF Live, Doing
<1>7. ASSUME NEW y \in Txns, thread'[Receiver] = Begin("response", "response", y, ct[y])
      PROVE  /\ ~Live(x)'
             /\ ~Doing({"ring", "confirm"}, x)'
             /\ Doing({"err"}, x)' => last'[x] \notin Challenge
  <2>1. thread'[Receiver].step = "response" /\ thread'[Receiver].seen = ct[y] /\ On(Receiver)' = y
    BY <1>7 DEF Begin, On
  <2>2. ct[x] \notin Open
    BY <1>1 DEF Live
  <2> QED BY <1>3, <2>1, <2>2 DEF Live, Doing
<1>8. ASSUME NEW d \in Calls, thread'[Receiver] = Begin("response", "dead", <<d, 1>>, "none")
      PROVE  thread'[Receiver].step \notin {"response", "ring", "err", "confirm"}
  BY <1>8 DEF Begin
<1> QED BY <1>4, <1>5, <1>6, <1>7, <1>8, FrameStep

(* A call whose 200 was acknowledged is stopped.                           *)
LEMMA AckedStops ==
    ASSUME IInv, Order, NEW c \in Calls, Steady(c), c \in acked
    PROVE  Stopped(c)
<1> SUFFICES ASSUME NEW x \in Txns, Call(x) = c
             PROVE  /\ ~Live(x)
                    /\ ~Doing({"ring", "confirm"}, x)
                    /\ ~Doing({"err"}, x)
  BY DEF Stopped
<1>1. Latest(x) /\ ~Current(x)
  BY DEF Order, Current
<1> QED BY <1>1 DEF Latest, Doing

LEMMA ClosingStep ==
    ASSUME IInv, Order, [Next]_vars, NEW c \in Calls, Steady(c), Steady(c)', Closing(c)
    PROVE  Closing(c)'
<1> USE ThreadsType DEF IInv
<1> SUFFICES ASSUME app'[c] = "closed" PROVE Closing(c)'
  BY DEF Closing
<1>1. ASSUME NEW t \in AppThreads, Hangup(t, c) PROVE Closing(c)'
  <2>1. t \in Threads /\ Is(t, {"close"}, c)'
    BY <1>1, TxnsType DEF Hangup, Goto, Begin, TypeOK, Threads, Is, CallOf, On
  <2> QED BY <2>1 DEF Closing, Someone
<1>2. ASSUME app[c] = "closed" PROVE Closing(c)'
  <2>1. CASE c \in guiClosed
    <3>1. CASE c \in guiClosed' \/ bye'[c] # "none"
      BY <3>1 DEF Closing
    <3>2. CASE CallRefused /\ c = CallOf(Receiver)
      <4>1. PICK x \in Txns : x = On(Receiver) /\ Call(x) = c /\ Doing({"err"}, x) /\ ct[x] # "none"
        BY <3>2, OnReceiver DEF CallRefused, At, Doing, CallOf
      <4>2. thread'[Receiver].step = "idle" /\ UNCHANGED <<ct, acked>>
        BY <3>2, Ends, IdleType DEF CallRefused, Rests, ctVars
      <4>3. Current(x) /\ ct[x] \notin Open
        BY <4>1 DEF Order, Latest, Doing
      <4>4. ASSUME NEW y \in Txns, Call(y) = c, ct[y] \in Open PROVE FALSE
        <5>1. Current(y)
          BY <4>4 DEF Order, Latest, Live
        <5> QED BY <4>1, <4>3, <4>4, <5>1, OneCurrent DEF Open
      <4>5. Stopped(c)' /\ c \notin acked'
        BY <4>1, <4>2, <4>3, <4>4 DEF Stopped, Live, Doing, Current
      <4> QED BY <4>5 DEF Closing
    <3> QED BY <2>1, <3>1, <3>2, UacStep
  <2>2. CASE bye[c] # "none"
    BY <2>2, ByeGrows DEF Closing
  <2>3. CASE Stopped(c) /\ c \notin acked
    <3>1. Stopped(c)'
      BY <1>2, <2>3, StoppedStep
    <3>2. c \notin acked'
      <4>1. CASE Confirm /\ CallOf(Receiver) = c
        <5>1. On(Receiver) \in Txns /\ Call(On(Receiver)) = c /\ Doing({"ring", "confirm"}, On(Receiver))
          BY <4>1, OnReceiver DEF Confirm, At, Doing, CallOf
        <5> QED BY <2>3, <5>1 DEF Stopped
      <4> QED BY <2>3, <4>1, AckedStep DEF Confirm
    <3> QED BY <3>1, <3>2 DEF Closing
  <2>4. CASE Someone({"close"}, c)
    <3>1. PICK t \in Threads : Is(t, {"close"}, c)
      BY <2>4 DEF Someone
    <3>2. CASE thread'[t] = thread[t]
      <4>1. Is(t, {"close"}, c)'
        BY <3>1, <3>2, SomeoneKept
      <4> QED BY <4>1 DEF Closing, Someone
    <3>3. CASE TerminateStep(t)
      <4>1. Close(t)
        BY <3>1, <3>3 DEF Is, TerminateStep, Lookup, EndDialogWithoutTransaction,
           FindTransaction, EndDialog, EndTransaction, StopSession, At
      <4> QED BY <3>1, <4>1 DEF Close, Closing, Is
    <3> QED BY <3>1, <3>2, <3>3, TerminatingStep DEF Is, Terminating
  <2> QED BY <1>2, <2>1, <2>2, <2>3, <2>4 DEF Closing
<1> QED BY <1>1, <1>2, AppStep

(* terminate works with the last INVITE of a call, unless the call was     *)
(* challenged twice.                                                       *)
LEMMA LastAttempt ==
    ASSUME NEW c \in Calls, ~ChallengedTwice(c), NEW x \in InviteWithAuth(c),
           NEW y \in Txns, Call(y) = c, ct[y] # "none", Current(y)
    PROVE  x = y
<1> USE TxnsType, OutCallsAssumption
<1>1. x \in Attempts(c) /\ x \in Txns /\ Call(x) = c /\ ct[x] # "none"
  BY DEF InviteWithAuth, Attempts
<1>2. y \in Attempts(c) /\ ~(x[2] > y[2])
  BY <1>1 DEF Attempts, Current
<1>3. ~(x[2] > 2) /\ ~(y[2] > 2)
  BY <1>1, <1>2 DEF ChallengedTwice
<1>4. y[2] > 1 => x[2] > 1
  BY <1>2 DEF InviteWithAuth
<1>5. x[2] = y[2]
  BY <1>1, <1>2, <1>3, <1>4
<1> QED BY <1>1, <1>5

(* A BYE is sent when the INVITE that terminate works with is refused: the *)
(* call is not challenged once more.                                       *)
LEMMA NotFoundStops ==
    ASSUME IInv, Order, Answering, NEW c \in Calls, Steady(c), Opened(c), ~ChallengedTwice(c),
           NEW x \in InviteWithAuth(c), x \notin invites
    PROVE  Stopped(c)
<1> USE TxnsType DEF IInv
<1> SUFFICES ASSUME NEW y \in Txns, Call(y) = c
             PROVE  /\ ~Live(y)
                    /\ ~Doing({"ring", "confirm"}, y)
                    /\ Doing({"err"}, y) => last[y] \notin Challenge
  BY DEF Stopped
<1>1. Latest(y)
  BY DEF Order
<1>2. ASSUME Current(y), y \in invites, ct[y] # "none" PROVE FALSE
  BY <1>2, LastAttempt
<1>3. ~Live(y)
  <2>1. Live(y) => ct[y] # "none"
    BY OnReceiver DEF Live, Open, Doing, At
  <2> QED BY <1>1, <1>2, <2>1 DEF Latest
<1>4. ~Doing({"ring", "confirm"}, y)
  <2>1. Doing({"ring", "confirm"}, y) => ct[y] # "none"
    BY OnReceiver DEF Doing, At
  <2> QED BY <1>1, <1>2, <2>1 DEF Latest, Doing
<1>5. ASSUME Doing({"err"}, y), last[y] \in Challenge PROVE FALSE
  <2>1. Current(y) /\ ct[y] # "none" /\ last[y] \in heard[y]
    BY <1>1, <1>5, ThreadsType, OnReceiver DEF Latest, Doing, At, Handling, Challenge
  <2>2. PICK z \in Txns : Call(z) = c /\ heard[z] \cap {180, 200} # {}
    BY DEF Opened
  <2>3. heard[z] \cap Challenge # {}
    <3>1. CASE z = y
      BY <1>5, <2>1, <3>1
    <3>2. CASE z # y
      <4>1. ct[z] # "none"
        BY <2>2 DEF Records, Recorded
      <4>2. ~(z[2] > y[2]) /\ z[2] # y[2]
        BY <2>1, <2>2, <3>2, <4>1 DEF Current
      <4>3. z[2] \in 1 .. MaxAttempts /\ z[2] < y[2]
        BY <4>2, OutCallsAssumption
      <4> QED BY <2>1, <2>2, <4>3 DEF Records, Recorded
    <3> QED BY <3>1, <3>2
  <2>4. 180 \notin heard[z]
    BY <2>3 DEF Records, Recorded
  <2>5. 200 \notin heard[z]
    BY <2>3 DEF Answering, OneFinal, Challenge, Final, Failure
  <2> QED BY <2>2, <2>4, <2>5
<1> QED BY <1>3, <1>4, <1>5

(* After a BYE nothing opens the call again.                               *)
LEMMA ByeStops ==
    ASSUME IInv, Order, Answering, NEW t \in Threads, SendsBye(t), Steady(CallOf(t))
    PROVE  /\ CallOf(t) \in Calls /\ app[CallOf(t)] # "none"
           /\ ChallengedTwice(CallOf(t)) \/ Stopped(CallOf(t))
<1> USE TxnsType DEF IInv
<1>1. On(t) \in Txns /\ CallOf(t) \in Calls /\ ct[On(t)] # "none"
  BY DEF SendsBye, EndDialogWithoutTransaction, EndDialog, At, Anchored, CallOf
<1>2. app[CallOf(t)] # "none"
  BY <1>1 DEF Order, Fresh, CallOf
<1>3. CASE EndDialogWithoutTransaction(t)
  <2>1. Opened(CallOf(t))
    BY <1>3 DEF EndDialogWithoutTransaction, At, Dialogs
  <2> QED BY <1>1, <1>2, <1>3, <2>1, NotFoundStops DEF EndDialogWithoutTransaction
<1>4. CASE dialog[CallOf(t)] = "CONFIRMED"
  <2>1. CallOf(t) \in acked
    BY <1>1, <1>4 DEF Order, Sane
  <2> QED BY <1>1, <1>2, <2>1, AckedStops
<1> QED BY <1>3, <1>4 DEF SendsBye

LEMMA HungStep ==
    ASSUME IInv, Order, Answering, [Next]_vars, NEW c \in Calls, Steady(c), Steady(c)',
           Hung(c)
    PROVE  Hung(c)'
<1> USE DEF IInv
<1> SUFFICES ASSUME bye'[c] # "none" PROVE ChallengedTwice(c)' \/ Stopped(c)'
  BY DEF Hung
<1>1. app[c] # "none" /\ (ChallengedTwice(c) \/ Stopped(c))
  <2>1. CASE bye[c] # "none"
    <3>1. \E x \in Attempts(c) : TRUE
      BY <2>1 DEF ByeFollowsFinal, ChallengedTwice
    <3>2. app[c] # "none"
      BY <3>1 DEF Attempts, Order, Fresh
    <3> QED BY <2>1, <3>2 DEF Hung
  <2>2. CASE bye[c] = "none"
    BY <2>2, UacStep, ByeStops
  <2> QED BY <2>1, <2>2
<1>2. ChallengedTwice(c) => ChallengedTwice(c)'
  BY GrowsStep DEF Grows, ChallengedTwice, Attempts
<1> QED BY <1>1, <1>2, StoppedStep

LEMMA BiddenStep ==
    ASSUME IInv, Order, [Next]_vars, NEW c \in Calls, Steady(c), Steady(c)', Closing(c),
           Bidden(c)
    PROVE  Bidden(c)'
<1> USE ThreadsType DEF IInv
<1>1. Confirmed(c)'
  BY ConfirmedStep
<1> SUFFICES ASSUME app'[c] = "closed", c \in acked', c \in dialogs', bye'[c] = "none",
                    c \notin byeIn'
             PROVE  Bidden(c)'
  BY <1>1 DEF Bidden, Confirmed
<1>2. /\ bye[c] = "none" /\ c \notin byeIn
      /\ \A t \in Threads : ~(SendsBye(t) /\ c = CallOf(t))
  <2>1. bye[c] = "none" /\ c \notin byeIn
    BY ByeGrows
  <2>2. \A t \in Threads : SendsBye(t) /\ c = CallOf(t) => bye'[c] # "none"
    BY DEF SendsBye, EndDialogWithoutTransaction, EndDialog, SendBye, TypeOK
  <2> QED BY <2>1, <2>2
<1>3. ASSUME NEW t \in AppThreads, Hangup(t, c) PROVE Bidden(c)'
  <2>1. t \in Threads /\ Is(t, {"close", "lookup"}, c)'
    BY <1>3, TxnsType DEF Hangup, Goto, Begin, TypeOK, Threads, Is, CallOf, On
  <2> QED BY <2>1 DEF Bidden, Someone
<1>4. ASSUME NEW t \in Threads, Is(t, {"close", "lookup"}, c) PROVE Bidden(c)'
  <2>1. CASE thread'[t] = thread[t]
    <3>1. Is(t, {"close", "lookup"}, c)'
      BY <1>4, <2>1, SomeoneKept
    <3> QED BY <3>1 DEF Bidden, Someone
  <2>2. CASE TerminateStep(t)
    <3>1. Close(t) \/ Lookup(t)
      BY <1>4, <2>2 DEF Is, TerminateStep, EndDialogWithoutTransaction, FindTransaction,
         EndDialog, EndTransaction, StopSession, At
    <3>2. CallOf(t) = c
      BY <1>4 DEF Is
    <3>3. CASE Close(t)
      <4>1. Someone({"close", "lookup"}, c)'
        BY <2>2, <3>2, <3>3, TerminateMoves, Going
      <4> QED BY <4>1 DEF Bidden
    <3>4. CASE Lookup(t)
      <4>1. c \in dialogs
        BY <3>4 DEF Lookup, dialogVars
      <4>2. Someone({"found", "lock"}, c)'
        BY <2>2, <3>2, <3>4, <4>1, TerminateMoves, Going
      <4> QED BY <4>2 DEF Bidden
    <3> QED BY <3>1, <3>3, <3>4
  <2> QED BY <1>4, <2>1, <2>2, TerminatingStep DEF Is, Terminating
<1>5. CASE c \notin acked
  <2>1. Confirm /\ CallOf(Receiver) = c
    BY <1>5, AckedStep DEF Confirm
  <2>2. On(Receiver) \in Txns /\ Call(On(Receiver)) = c /\ Doing({"ring", "confirm"}, On(Receiver))
    BY <2>1, OnReceiver DEF Confirm, At, Doing, CallOf
  <2>3. app[c] = "closed"
    BY <2>1 DEF Confirm
  <2>4. CASE c \in guiClosed
    <3>1. Goes(Receiver, "check") /\ guiClosed' = guiClosed
      BY <2>1, AdvanceType DEF Confirm, Goes, CallOf, On, Step, uacVars
    <3>2. Noticed({"check"}, c)'
      BY <2>1, <2>4, <3>1 DEF Noticed, Is, Goes
    <3> QED BY <3>2 DEF Bidden
  <2>5. CASE Stopped(c)
    BY <2>2, <2>5 DEF Stopped
  <2>6. CASE Someone({"close"}, c)
    <3>1. PICK t \in Threads : Is(t, {"close"}, c)
      BY <2>6 DEF Someone
    <3>2. Is(t, {"close", "lookup"}, c)
      BY <3>1 DEF Is
    <3> QED BY <1>4, <3>2
  <2> QED BY <1>2, <2>3, <2>4, <2>5, <2>6 DEF Closing
<1>6. ASSUME NEW t \in Threads, Is(t, {"found", "lock"}, c), c \in dialogs, c \in acked
      PROVE  Bidden(c)'
  <2>1. CASE thread'[t] = thread[t]
    <3>1. Is(t, {"found", "lock"}, c)'
      BY <1>6, <2>1, SomeoneKept
    <3> QED BY <3>1 DEF Bidden, Someone
  <2>2. CASE TerminateStep(t)
    <3>1. CallOf(t) = c /\ dialog[c] = "CONFIRMED"
      BY <1>6 DEF Is, Order, Confirmed
    <3>2. FindTransaction(t) \/ SendsBye(t)
      BY <1>6, <2>2, <3>1 DEF Is, TerminateStep, Close, Lookup, EndTransaction, StopSession, At,
         SendsBye
    <3>3. Someone({"found", "lock"}, c)'
      BY <1>2, <2>2, <3>1, <3>2, TerminateMoves, Going
    <3> QED BY <3>3 DEF Bidden
  <2> QED BY <1>6, <2>1, <2>2, TerminatingStep DEF Is, Terminating
<1>7. CASE Noticed({"check"}, c)
  <2>1. thread[Receiver].step = "check" /\ CallOf(Receiver) = c /\ c \in guiClosed
    BY <1>7 DEF Noticed, Is
  <2>2. c \in guiClosed'
    BY <1>2, <2>1, UacStep DEF CallRefused, At
  <2>3. CASE thread'[Receiver] = thread[Receiver]
    <3>1. Noticed({"check"}, c)'
      BY <2>1, <2>2, <2>3 DEF Noticed, Is, CallOf, On
    <3> QED BY <3>1 DEF Bidden
  <2>4. CASE Goes(Receiver, "close")
    <3>1. Someone({"close", "lookup"}, c)'
      BY <2>1, <2>4, Going
    <3> QED BY <3>1 DEF Bidden
  <2>5. CASE Ring \/ Confirm \/ At(Receiver, "confirm")
    BY <2>1, <2>5 DEF Ring, Confirm, At
  <2> QED BY <2>1, <2>3, <2>4, <2>5, NoticingStep
<1>8. CASE app[c] # "closed"
  BY <1>3, <1>8, AppStep
<1>9. CASE app[c] = "closed" /\ c \in acked
  BY <1>2, <1>4, <1>6, <1>7, <1>9 DEF Bidden, Someone
<1> QED BY <1>5, <1>8, <1>9

LEMMA DeadStays == ASSUME IInv, [Next]_vars, ReceiverAlive' PROVE ReceiverAlive
<1> SUFFICES ASSUME At(Receiver, "dead") PROVE FALSE
  BY DEF ReceiverAlive
<1>1. UNCHANGED thread[Receiver]
  BY FrameStep DEF At, ReceiveResponse
<1> QED BY <1>1 DEF ReceiverAlive, At

(* A closed call that rings when its closing is known.                     *)
LEMMA RingsClosed ==
    ASSUME IInv, Order, Receives1xx \/ Receives2xx, NEW c \in Calls, c = CallOf(Receiver),
           Steady(c), Closing(c), Hung(c), app[c] = "closed", ~ChallengedTwice(c)
    PROVE  c \in guiClosed \/ \E t \in Threads \ {Receiver} : Is(t, {"close"}, c)
<1>1. On(Receiver) \in Txns /\ Call(On(Receiver)) = c /\ Live(On(Receiver)) /\ At(Receiver, "response")
  BY HandlesLive DEF CallOf
<1>2. ~Stopped(c)
  BY <1>1 DEF Stopped
<1>3. c \in guiClosed \/ Someone({"close"}, c)
  BY <1>2 DEF Closing, Hung
<1> QED BY <1>1, <1>3 DEF Someone, Is, At

LEMMA CancelledStep ==
    ASSUME IInv, Order, [Next]_vars, NEW x \in Txns, NEW c \in Calls, c = Call(x), Steady(c),
           Steady(c)', Closing(c), Hung(c), Cancelled(x)
    PROVE  Cancelled(x)'
<1> USE ThreadsType DEF IInv
<1> SUFFICES ASSUME app'[c] = "closed", ct'[x] = "PROCEEDING", x \notin cancels',
                    ~ChallengedTwice(c)', ReceiverAlive'
             PROVE  Tended(x)'
  BY DEF Cancelled
<1>1. x \notin cancels /\ ~ChallengedTwice(c) /\ ReceiverAlive
  <2>1. ~ChallengedTwice(c)
    BY GrowsStep DEF Grows, ChallengedTwice, Attempts
  <2> QED BY <2>1, UacStep, DeadStays
<1>2. ASSUME NEW t \in AppThreads, Hangup(t, c) PROVE Tended(x)'
  <2>1. t \in Threads /\ Is(t, {"close", "lookup", "notFound"}, c)'
    BY <1>2, TxnsType DEF Hangup, Goto, Begin, TypeOK, Threads, Is, CallOf, On
  <2> QED BY <2>1 DEF Tended, Someone
<1>3. CASE app[c] # "closed"
  BY <1>2, <1>3, AppStep
<1>4. CASE app[c] = "closed" /\ Receives1xx /\ On(Receiver) = x
  <2>1. c = CallOf(Receiver)
    BY <1>4 DEF CallOf
  <2>2. /\ thread'[Receiver].step \in {"ring", "check"} /\ On(Receiver)' = On(Receiver)
        /\ \A t \in Threads \ {Receiver} : thread'[t] = thread[t]
        /\ guiClosed' = guiClosed
    BY <1>4, AdvanceType DEF Receives1xx, Received1xx, Step, On, uacVars
  <2>3. CASE c \in guiClosed
    <3>1. Noticed({"ring", "check"}, c)'
      BY <2>1, <2>2, <2>3 DEF Noticed, Is, CallOf
    <3> QED BY <3>1 DEF Tended
  <2>4. ASSUME NEW t \in Threads \ {Receiver}, Is(t, {"close"}, c) PROVE Tended(x)'
    <3>1. Is(t, {"close"}, c)'
      BY <2>2, <2>4, SomeoneKept
    <3>2. Is(t, {"close", "lookup", "notFound"}, c)'
      BY <3>1 DEF Is
    <3> QED BY <3>2 DEF Tended, Someone
  <2> QED BY <1>1, <1>4, <2>1, <2>3, <2>4, RingsClosed
<1>5. CASE app[c] = "closed" /\ ct[x] = "PROCEEDING" /\ ~(Receives1xx /\ On(Receiver) = x)
  <2>1. /\ Latest(x) /\ Current(x) /\ x \in invites /\ c \notin acked
        /\ last[x] \in Prov \/ Doing({"response"}, x)
    <3>1. Latest(x)
      BY DEF Order
    <3>2. Current(x) /\ x \in invites
      BY <1>5, <3>1 DEF Latest, Live, Open
    <3> QED BY <1>5, <3>1, <3>2 DEF Latest, Current
  <2>2. \A y \in InviteWithAuth(c) : y = x
    BY <1>1, <1>5, <2>1, LastAttempt
  <2>3. ~(At(Receiver, "err") /\ CallOf(Receiver) = c)
    <3>1. SUFFICES ASSUME At(Receiver, "err"), CallOf(Receiver) = c PROVE FALSE
      OBVIOUS
    <3>2. PICK y \in Txns : y = On(Receiver) /\ Call(y) = c /\ Doing({"err"}, y) /\ ct[y] # "none"
      BY <3>1, OnReceiver DEF At, Doing, CallOf
    <3>3. Current(y) /\ ct[y] \notin Open
      BY <3>2 DEF Order, Latest, Doing
    <3> QED BY <1>5, <2>1, <3>2, <3>3, OneCurrent DEF Open
  <2>4. dialog[c] # "CONFIRMED" /\ (c \in dialogs => dialog[c] # "TERMINATED")
    BY <2>1 DEF Order, Sane
  <2>5. \A t \in Threads : ~(SendsBye(t) /\ c = CallOf(t))
    BY <2>1, <2>2, <2>4 DEF SendsBye, EndDialogWithoutTransaction
  <2>6. c \in guiClosed => c \in guiClosed'
    BY <2>3, <2>5, UacStep DEF CallRefused
  <2>7. c \in dialogs => c \in dialogs'
    <3>1. CASE Receives1xx \/ Receives2xx \/ Ring \/ Confirm
      BY <3>1 DEF Receives1xx, Received1xx, Receives2xx, Received2xx, Ring, Confirm
    <3>2. CASE ChallengeReceived \/ CallRefused
      BY <2>3, <3>2, OneDialog DEF ChallengeReceived, CallRefused
    <3>3. ASSUME NEW d \in Calls, ByeSuccessResponseReceived(d) \/ HandleBye(d)
          PROVE  c \in dialogs => c \in dialogs'
      <4>1. d # c
        BY <2>1, <3>3 DEF ByeSuccessResponseReceived, HandleBye
      <4>2. UNCHANGED dialogVars \/ RemoveDialog(d)
        BY <3>3 DEF ByeSuccessResponseReceived, HandleBye, DieOnBye
      <4> QED BY <4>1, <4>2 DEF RemoveDialog, dialogVars
    <3>4. CASE UNCHANGED dialogVars
      BY <3>4 DEF dialogVars
    <3> QED BY <3>1, <3>2, <3>3, <3>4, DialogStep DEF Byes
  <2>8. ASSUME NEW t \in Threads, Is(t, {"close", "lookup", "notFound"}, c) PROVE Tended(x)'
    <3>1. CASE thread'[t] = thread[t]
      <4>1. Is(t, {"close", "lookup", "notFound"}, c)'
        BY <2>8, <3>1, SomeoneKept
      <4> QED BY <4>1 DEF Tended, Someone
    <3>2. CASE TerminateStep(t)
      <4>1. CallOf(t) = c
        BY <2>8 DEF Is
      <4>2. Close(t) \/ Lookup(t) \/ EndTransaction(t)
        BY <2>8, <3>2 DEF Is, TerminateStep, EndDialogWithoutTransaction, FindTransaction,
           EndDialog, StopSession, At
      <4>3. CASE Close(t)
        <5>1. Someone({"close", "lookup", "notFound"}, c)'
          BY <3>2, <4>1, <4>3, TerminateMoves, Going
        <5> QED BY <5>1 DEF Tended
      <4>4. CASE Lookup(t)
        <5>1. CASE c \in dialogs
          <6>1. Someone({"found"}, c)'
            BY <3>2, <4>1, <4>4, <5>1, TerminateMoves, Going
          <6> QED BY <2>7, <5>1, <6>1 DEF Tended
        <5>2. CASE c \notin dialogs
          <6>1. Someone({"close", "lookup", "notFound"}, c)'
            BY <3>2, <4>1, <4>4, <5>2, TerminateMoves, Going
          <6> QED BY <6>1 DEF Tended
        <5> QED BY <5>1, <5>2
      <4>5. CASE EndTransaction(t)
        <5>1. CASE last[x] \in Prov
          <6>1. SendCancel(x)
            BY <2>1, <2>2, <4>1, <4>5, <5>1 DEF EndTransaction
          <6>2. x \in cancels'
            BY <5>1, <6>1 DEF SendCancel, Prov
          <6> QED BY <6>2
        <5>2. CASE Doing({"response"}, x)
          <6>1. t # Receiver
            BY <4>5, <5>2 DEF EndTransaction, At, Doing
          <6>2. thread'[Receiver] = thread[Receiver]
            BY <3>2, <6>1, TerminateMoves
          <6>3. Doing({"response"}, x)'
            BY <5>2, <6>2 DEF Doing, On
          <6> QED BY <6>3 DEF Tended
        <5> QED BY <2>1, <5>1, <5>2
      <4> QED BY <4>2, <4>3, <4>4, <4>5
    <3> QED BY <2>8, <3>1, <3>2, TerminatingStep DEF Is, Terminating
  <2>9. ASSUME NEW t \in Threads, Is(t, {"found"}, c), c \in dialogs PROVE Tended(x)'
    <3>1. CASE thread'[t] = thread[t]
      <4>1. Is(t, {"found"}, c)'
        BY <2>9, <3>1, SomeoneKept
      <4> QED BY <2>7, <2>9, <4>1 DEF Tended, Someone
    <3>2. CASE TerminateStep(t)
      <4>1. CallOf(t) = c
        BY <2>9 DEF Is
      <4>2. FindTransaction(t)
        BY <2>5, <2>9, <3>2, <4>1 DEF Is, TerminateStep, Close, Lookup, EndTransaction, EndDialog,
           StopSession, At, SendsBye
      <4>3. thread'[t].found = x
        BY <2>2, <4>1, <4>2 DEF FindTransaction, Goto, TypeOK, Frame
      <4>4. Is(t, {"lock"}, c)'
        BY <3>2, <4>1, <4>2, TerminateMoves DEF Goes, Is
      <4> QED BY <2>7, <2>9, <4>3, <4>4 DEF Tended
    <3> QED BY <2>9, <3>1, <3>2, TerminatingStep DEF Is, Terminating
  <2>10. ASSUME NEW t \in Threads, Is(t, {"lock"}, c), thread[t].found = x, c \in dialogs
         PROVE  Tended(x)'
    <3>1. CASE thread'[t] = thread[t]
      <4>1. Is(t, {"lock"}, c)'
        BY <2>10, <3>1, SomeoneKept
      <4> QED BY <2>7, <2>10, <3>1, <4>1 DEF Tended
    <3>2. CASE TerminateStep(t)
      <4>1. CallOf(t) = c /\ EndDialog(t) /\ MayLock(t, x) /\ thread[t].step = "lock"
        BY <2>10, <3>2 DEF Is, TerminateStep, Close, Lookup, EndTransaction, FindTransaction,
           EndDialogWithoutTransaction, EndDialog, StopSession, At
      <4>2. \A S \in SUBSET {"response", "ring", "confirm"} : ~Doing(S, x)
        <5>1. SUFFICES ASSUME thread[Receiver].step \in {"response", "ring", "confirm"}, On(Receiver) = x
                       PROVE  FALSE
          BY DEF Doing
        <5>2. t # Receiver
          BY <4>1, <5>1
        <5>3. Inside(x)
          BY <5>1 DEF Inside, At, Order, Framed
        <5> QED BY <4>1, <5>2, <5>3 DEF MayLock
      <4>3. ~Doing({"response"}, x) /\ ~Doing({"ring", "confirm"}, x)
        BY <4>2
      <4>4. dialog[c] # "INIT"
        <5>1. SUFFICES ASSUME dialog[c] = "INIT" PROVE FALSE
          OBVIOUS
        <5>2. Is(Receiver, {"ring", "confirm", "dead"}, c)
          BY <2>10, <5>1 DEF Order, Sane
        <5>3. thread[Receiver].step \in {"ring", "confirm"} /\ CallOf(Receiver) = c
          BY <1>1, <5>2 DEF Is, ReceiverAlive, At
        <5>4. PICK y \in Txns : y = On(Receiver) /\ Call(y) = c /\ Doing({"ring", "confirm"}, y) /\ ct[y] # "none"
          BY <5>3, OnReceiver DEF At, Doing, CallOf
        <5>5. Current(y)
          BY <5>4 DEF Order, Latest, Doing
        <5>6. y = x
          BY <1>5, <2>1, <5>4, <5>5, OneCurrent
        <5> QED BY <4>3, <5>4, <5>6
      <4>5. dialog[c] = "EARLY"
        BY <2>4, <2>10, <4>4 DEF TypeOK, DialogState
      <4>6. SendCancel(x)
        BY <2>10, <4>1, <4>5 DEF EndDialog
      <4>7. x \in cancels'
        BY <2>1, <4>3, <4>6 DEF SendCancel, Prov
      <4> QED BY <4>7
    <3> QED BY <2>10, <3>1, <3>2, TerminatingStep DEF Is, Terminating
  <2>11. CASE Doing({"response"}, x)
    <3>1. thread[Receiver].step = "response" /\ On(Receiver) = x
      BY <2>11 DEF Doing
    <3>2. thread[Receiver].seen \in Open
      BY <1>5, <2>1, <2>11 DEF Latest, Open
    <3>3. ~ReceivesResponse
      BY <3>1 DEF ReceivesResponse, ReceiveResponse, At
    <3>4. ~Receives2xx /\ ~Receives300To699
      BY <3>1 DEF Receives2xx, Received2xx, Receives300To699, Received300To699, SetState, TypeOK
    <3>5. Leaves
      BY <1>5, <3>1, <3>3, <3>4, LeavesStep
    <3>6. thread'[Receiver] = thread[Receiver]
      BY <3>1, <3>2, <3>5 DEF Leaves, At
    <3>7. Doing({"response"}, x)'
      BY <3>1, <3>6 DEF Doing, On
    <3> QED BY <3>7 DEF Tended
  <2>12. CASE Noticed({"ring", "check"}, c)
    <3>1. /\ thread[Receiver].step \in {"ring", "check"} /\ CallOf(Receiver) = c
          /\ c \in guiClosed /\ c \in guiClosed'
      BY <2>6, <2>12 DEF Noticed, Is
    <3>2. CASE thread'[Receiver] = thread[Receiver]
      <4>1. Noticed({"ring", "check"}, c)'
        BY <3>1, <3>2 DEF Noticed, Is, CallOf, On
      <4> QED BY <4>1 DEF Tended
    <3>3. CASE Goes(Receiver, "check")
      <4>1. Noticed({"ring", "check"}, c)'
        BY <3>1, <3>3 DEF Noticed, Is, Goes
      <4> QED BY <4>1 DEF Tended
    <3>4. CASE Goes(Receiver, "close")
      <4>1. Someone({"close", "lookup", "notFound"}, c)'
        BY <3>1, <3>4, Going
      <4> QED BY <4>1 DEF Tended
    <3> QED BY <3>1, <3>2, <3>3, <3>4, NoticingStep DEF At
  <2>13. Tended(x)
    BY <1>1, <1>5 DEF Cancelled
  <2> QED BY <2>8, <2>9, <2>10, <2>11, <2>12, <2>13 DEF Tended, Someone
<1>6. ct[x] = "PROCEEDING" \/ (Receives1xx /\ On(Receiver) = x)
  <2>1. CASE Receives1xx
    BY <2>1 DEF Receives1xx, Received1xx, SetState, TypeOK
  <2>2. CASE ChallengeReceived
    BY <2>2 DEF ChallengeReceived, StartInvite, SetState, TypeOK
  <2>3. ASSUME NEW d \in Calls, Invite(d) PROVE ct[x] = "PROCEEDING"
    BY <2>3 DEF Invite, StartInvite, SetState, TypeOK
  <2>4. CASE CtCalm
    BY <2>4 DEF CtCalm, Open
  <2> QED BY <2>1, <2>2, <2>3, <2>4, CtStep
<1> QED BY <1>3, <1>4, <1>5, <1>6

LEMMA SessionStep ==
    ASSUME IInv, [Next]_vars
    PROVE  Receives2xx \/ session' = session \/ session' = None
<1> USE DEF IInv
<1>1. CASE ReceiverActs
  BY <1>1 DEF ReceiverActs, ReceiveResponse, Received1xx, Receives2xx, Received300To699, Ring,
     Confirm, CheckClosed, ChallengeReceived, CallRefused, CompletedReceived300To699,
     ResponseIgnored, InvalidDialogTransition, mediaVars
<1>2. ASSUME NEW t \in Threads, TerminateStep(t) PROVE session' = session \/ session' = None
  BY <1>2 DEF TerminateStep, Close, Lookup, EndDialogWithoutTransaction, FindTransaction,
     EndDialog, EndTransaction, StopSession, mediaVars
<1>3. ASSUME NEW c \in Calls, \/ Invite(c) \/ \E t \in AppThreads : Hangup(t, c)
                              \/ ByeSuccessResponseReceived(c) \/ HandleBye(c)
      PROVE  session' = session \/ session' = None
  BY <1>3 DEF Invite, Hangup, ByeSuccessResponseReceived, HandleBye, mediaVars
<1>4. CASE (\E x \in Txns, task \in DueTimers : TimerFires(x, task))
              \/ CallingTimerA \/ CallingTimerB \/ CompletedTimerD \/ TimerIgnored
  BY <1>4 DEF TimerFires, CallingTimerA, CallingTimerB, CompletedTimerD, TimerIgnored, mediaVars
<1>5. CASE UNCHANGED vars
  BY <1>5 DEF vars, mediaVars
<1> QED BY <1>1, <1>2, <1>3, <1>4, <1>5, Kinds

LEMMA SilencedStep ==
    ASSUME IInv, Order, Ending, [Next]_vars, session' # None, Orderly(session'.to)
    PROVE  Silenced'
<1> USE ThreadsType DEF IInv
<1>1. PICK c \in Calls : c = session'.to
  <2>1. session' \in RtpSession
    BY NextIInv DEF TypeOK
  <2> QED BY <2>1 DEF RtpSession
<1> SUFFICES ASSUME app'[c] = "closed", ~CodecMissing', ~ChallengedTwice(c)', ReceiverAlive'
             PROVE  Someone(Terminating, c)' \/ Noticed({"confirm", "check"}, c)'
  BY <1>1 DEF Silenced
<1>2. /\ Orderly(c) /\ Steady(c)
      /\ ~ChallengedTwice(c) /\ ~CodecMissing /\ ReceiverAlive
  BY <1>1, GrowsStep, DeadStays
     DEF Grows, ChallengedTwice, CodecMissing, Attempts, Order, Unrevived
<1>3. ASSUME NEW t \in Threads, Is(t, Terminating, c) PROVE Someone(Terminating, c)'
  <2>1. CASE thread'[t] = thread[t]
    <3>1. Is(t, Terminating, c)'
      BY <1>3, <2>1, SomeoneKept
    <3> QED BY <3>1 DEF Someone
  <2>2. CASE TerminateStep(t)
    <3>1. CallOf(t) = c
      BY <1>3 DEF Is
    <3>2. ~StopSession(t)
      BY DEF StopSession
    <3>3. \E step \in Terminating : Goes(t, step)
      BY <2>2, <3>2, TerminateMoves DEF TerminateStep, Terminating
    <3> QED BY <3>1, <3>3, Going
  <2> QED BY <1>3, <2>1, <2>2, TerminatingStep DEF Is
<1>4. CASE Receives2xx
  <2>1. PICK s \in {"CALLING", "PROCEEDING"} : Received2xx(s)
    BY <1>4 DEF Receives2xx
  <2>2. PICK x \in Txns : x = On(Receiver) /\ ct[x] # "none" /\ At(Receiver, "response") /\ last[x] = 200
    BY <2>1, OnReceiver DEF Received2xx, Receiving, At
  <2>3. Call(x) \in CodecCalls
    <3>1. 200 \in heard[x] /\ x \in Attempts(Call(x)) /\ Call(x) \in Calls
      BY <2>2, TxnsType DEF Handling, At, Attempts
    <3> QED BY <1>2, <3>1 DEF CodecMissing
  <2>4. Call(x) # None /\ Call(x) = CallOf(Receiver)
    BY <2>2, TxnsType, OutCallsAssumption DEF CallOf
  <2>5. /\ mediaDest' = Call(x) /\ session' = [to |-> Call(x), over |-> socket]
        /\ Advance(Receiver, "confirm") /\ UNCHANGED <<guiClosed, app>>
    BY <2>1, <2>2, <2>3, <2>4 DEF Received2xx, uacVars
  <2>6. Call(x) = c /\ app[c] = "closed"
    BY <1>1, <2>5
  <2>7. CASE c \in guiClosed
    <3>1. thread'[Receiver].step = "confirm" /\ On(Receiver)' = On(Receiver)
      BY <2>5, AdvanceType DEF Step, On
    <3> QED BY <2>4, <2>5, <2>6, <2>7, <3>1 DEF Noticed, Is, CallOf
  <2>8. ASSUME NEW t \in Threads \ {Receiver}, Is(t, {"close"}, c) PROVE Someone(Terminating, c)'
    BY <1>3, <2>8 DEF Is, Terminating
  <2>9. Closing(c) /\ Hung(c)
    BY <1>2 DEF Ending
  <2> QED BY <1>2, <1>4, <2>4, <2>6, <2>7, <2>8, <2>9, RingsClosed
<1>5. CASE ~Receives2xx
  <2>1. session' = session
    BY <1>5, SessionStep
  <2>2. ASSUME NEW t \in AppThreads, Hangup(t, c) PROVE Someone(Terminating, c)'
    <3>1. t \in Threads /\ Is(t, Terminating, c)'
      BY <2>2, TxnsType DEF Hangup, Goto, Begin, TypeOK, Threads, Is, CallOf, On, Terminating
    <3> QED BY <3>1 DEF Someone
  <2>3. CASE app[c] # "closed"
    BY <2>2, <2>3, AppStep
  <2>4. CASE app[c] = "closed"
    <3>1. Someone(Terminating, c) \/ Noticed({"confirm", "check"}, c)
      BY <1>1, <1>2, <2>1, <2>4 DEF Ending, Silenced
    <3>2. CASE Noticed({"confirm", "check"}, c)
      <4>1. /\ thread[Receiver].step \in {"confirm", "check"} /\ CallOf(Receiver) = c
            /\ c \in guiClosed
        BY <3>2 DEF Noticed, Is
      <4>2. ASSUME NEW t \in Threads, SendsBye(t), c = CallOf(t) PROVE Someone(Terminating, c)'
        <5>1. TerminateStep(t)
          BY <4>2 DEF SendsBye, TerminateStep
        <5>2. Goes(t, "stop")
          BY <4>2, <5>1, TerminateMoves DEF SendsBye
        <5> QED BY <4>2, <5>2, Going DEF Terminating
      <4>3. CASE c \in guiClosed'
        <5>1. CASE thread'[Receiver] = thread[Receiver]
          BY <4>1, <4>3, <5>1 DEF Noticed, Is, CallOf, On
        <5>2. CASE Goes(Receiver, "check")
          BY <4>1, <4>3, <5>2 DEF Noticed, Is, Goes
        <5>3. CASE Goes(Receiver, "close")
          <6>1. "close" \in Terminating
            BY DEF Terminating
          <6> QED BY <4>1, <5>3, <6>1, Going
        <5>4. ~Goes(Receiver, "dead")
          BY DEF Goes, ReceiverAlive, At
        <5> QED BY <4>1, <5>1, <5>2, <5>3, <5>4, NoticingStep
      <4> QED BY <4>1, <4>2, <4>3, UacStep DEF CallRefused, At
    <3> QED BY <1>3, <3>1, <3>2 DEF Someone
  <2> QED BY <2>3, <2>4
<1> QED BY <1>4, <1>5

LEMMA EndingStep == IInv /\ Order /\ Answering /\ Ending /\ [Next]_vars => Ending'
<1> SUFFICES ASSUME IInv, Order, Answering, Ending, [Next]_vars PROVE Ending'
  OBVIOUS
<1>1. \A c \in Calls : Orderly(c) => Steady(c) /\ Steady(c)'
  BY UnrevivedStep DEF Order, Unrevived, Orderly
<1>2. ASSUME NEW c \in Calls, Orderly(c) PROVE Closing(c)' /\ Hung(c)' /\ Bidden(c)'
  BY <1>1, <1>2, ClosingStep, HungStep, BiddenStep DEF Ending
<1>3. ASSUME NEW x \in Txns, Orderly(Call(x)) PROVE Cancelled(x)'
  <2>1. Call(x) \in Calls
    BY TxnsType
  <2> QED BY <1>1, <1>3, <2>1, CancelledStep DEF Ending
<1>4. session' # None => (Orderly(session'.to) => Silenced')
  BY SilencedStep
<1> QED BY <1>2, <1>3, <1>4 DEF Ending, Orderly

LEMMA InitEnding == Init => Ending
BY DEF Init, Ending, Closing, Hung, Bidden, Cancelled, Silenced

(* What ends a call, in every reachable state.                             *)
THEOREM Ended == Spec => [](IInv /\ Order /\ Answering /\ Ending)
BY InitIInv, NextIInv, InitOrder, OrderStep, InitAnswering, AnsweringStep, InitEnding,
   EndingStep, PTL DEF Spec

(* No thread is inside an operation on c.                                  *)
LEMMA QuietIs ==
    ASSUME IInv, NEW c \in Calls, Quiet(c), NEW S \in SUBSET (Step \ {"idle"})
    PROVE  ~Someone(S, c) /\ ~Noticed(S, c)
<1>1. ASSUME NEW t \in Threads, Is(t, S, c) PROVE FALSE
  <2>1. On(t) \in Txns
    BY <1>1 DEF Is, IInv, Anchored
  <2> QED BY <1>1, <2>1, OutCallsAssumption DEF Quiet, Is
<1> QED BY <1>1, ThreadsType DEF Someone, Noticed

(* UAC.terminate: a call that the application has ended at any moment was  *)
(* sent a BYE or a CANCEL when the threads are done with it, whichever     *)
(* thread found its dialog or its transaction in whichever state.          *)
THEOREM NothingForgotten ==
    ASSUME \A c \in Calls : Orderly(c)
    PROVE  Spec => []ClosedCallNotForgotten
<1>1. IInv /\ Ending => ClosedCallNotForgotten
  <2> SUFFICES ASSUME IInv, Ending, NEW c \in Calls, app[c] = "closed", Quiet(c), ReceiverAlive
               PROVE  /\ c \in acked => bye[c] # "none" \/ c \in byeIn
                      /\ \A x \in Attempts(c) :
                            ct[x] = "PROCEEDING" => x \in cancels \/ ChallengedTwice(c)
    BY DEF ClosedCallNotForgotten
  <2>1. \A S \in SUBSET (Step \ {"idle"}) : ~Someone(S, c) /\ ~Noticed(S, c)
    BY QuietIs
  <2>2. c \in acked => bye[c] # "none" \/ c \in byeIn
    <3>1. /\ ~Someone({"close", "lookup"}, c) /\ ~Someone({"found", "lock"}, c)
          /\ ~Noticed({"check"}, c)
      BY <2>1 DEF Step
    <3> QED BY <3>1 DEF Ending, Bidden
  <2>3. ASSUME NEW x \in Attempts(c), ct[x] = "PROCEEDING"
        PROVE  x \in cancels \/ ChallengedTwice(c)
    <3>1. x \in Txns /\ Call(x) = c
      BY DEF Attempts
    <3>2. ~Tended(x)
      <4>1. /\ ~Someone({"close", "lookup", "notFound"}, c) /\ ~Someone({"found"}, c)
            /\ ~Noticed({"ring", "check"}, c) /\ ~Someone({"lock"}, c)
            /\ ~Someone({"response"}, c)
        BY <2>1 DEF Step
      <4>2. ~Doing({"response"}, x)
        BY <3>1, <4>1, ThreadsType DEF Someone, Is, Doing, CallOf
      <4> QED BY <3>1, <4>1, <4>2 DEF Tended, Someone
    <3>3. Cancelled(x)
      BY <3>1 DEF Ending
    <3> QED BY <2>3, <3>1, <3>2, <3>3 DEF Cancelled
  <2> QED BY <2>2, <2>3
<1> QED BY <1>1, Ended, PTL

(* MediaManager: the session does not outlive the call it belongs to, but  *)
(* for the destination that all calls share.                               *)
THEOREM SessionsEnd ==
    ASSUME \A c \in Calls : Orderly(c)
    PROVE  Spec => []SessionOfEndedCallHasReason
<1>1. IInv /\ Ending => SessionOfEndedCallHasReason
  <2> SUFFICES ASSUME IInv, Ending, session # None, app[session.to] = "closed",
                      Quiet(session.to), ReceiverAlive
               PROVE  ChallengedTwice(session.to) \/ CodecMissing
    BY DEF SessionOfEndedCallHasReason, CodecMissing
  <2>1. PICK c \in Calls : c = session.to
    <3>1. session \in RtpSession
      BY DEF IInv, TypeOK
    <3> QED BY <3>1 DEF RtpSession
  <2>2. ~Someone(Terminating, c) /\ ~Noticed({"confirm", "check"}, c)
    BY <2>1, QuietIs DEF Step, Terminating
  <2>3. Silenced
    BY <2>1 DEF Ending
  <2> QED BY <2>1, <2>2, <2>3 DEF Silenced
<1> QED BY <1>1, Ended, PTL

=============================================================================
