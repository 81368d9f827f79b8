--------------------- MODULE NonInviteTransactions_proofs ---------------------
(***************************************************************************)
(* Theorems about NonInviteTransactions, for every set of requests and of  *)
(* racing ones, every set of answers and every number of repetitions: the  *)
(* user of a request whose tasks do not race is told one outcome, and its  *)
(* transaction stays silent then; the user of any other request is told    *)
(* nothing contradictory, and is told something if no answer comes; and,   *)
(* if no request races, every step is one that the abstract specification  *)
(* RequestOutcome allows.                                                  *)
(***************************************************************************)
EXTENDS NonInviteTransactions, TLAPS

(* Before it is started a transaction has no timers, and nobody has heard  *)
(* of its request.                                                         *)
Unstarted(r) == ct[r] = "INIT" => timers[r] = {} /\ answers[r] = {} /\ reports[r] = <<>>

(* A thread works on a request that was started; if its tasks do not race, *)
(* the state that it read is still the state, and the other thread is      *)
(* elsewhere.                                                              *)
Working(r) ==
    /\ task.on = r => ct[r] # "INIT" /\ task.seen # "INIT"
    /\ recv.on = r => ct[r] # "INIT" /\ recv.seen # "INIT"
    /\ r \notin RacingRequests =>
          /\ task.on = r => task.seen = ct[r] /\ recv.on # r
          /\ recv.on = r => recv.seen = ct[r]

(* An outcome is told exactly when the transaction ends.                   *)
Reported(r) ==
    r \notin RacingRequests =>
        \/ reports[r] = <<>> /\ ct[r] \in {"INIT", "TRYING", "PROCEEDING"}
        \/ Len(reports[r]) = 1 /\ ct[r] \in {"COMPLETED", "TERMINATED"}

(* Only a request that was sent has copies under way.                      *)
Copies(r) == ct[r] = "INIT" => requests[r] = 0

IInv ==
    /\ TypeOK
    /\ \A r \in Requests : Unstarted(r) /\ Working(r) /\ Reported(r) /\ Copies(r)

-----------------------------------------------------------------------------
LEMMA InitInv == Init => IInv
BY NonInviteAssumption
   DEF Init, IInv, TypeOK, Unstarted, Working, Reported, Copies, ClientState,
       NoResponse, NoTask

(* What the helpers change.                                                *)
LEMMA SetStateType ==
    ASSUME TypeOK, NEW r \in Requests, NEW s \in ClientState, SetState(r, s)
    PROVE  /\ ct' \in [Requests -> ClientState]
           /\ ct'[r] = s
           /\ \A q \in Requests \ {r} : ct'[q] = ct[q]
BY DEF SetState, TypeOK

LEMMA SendType ==
    ASSUME TypeOK, NEW r \in Requests, Send(r)
    PROVE  /\ requests' \in [Requests -> Nat]
           /\ requests'[r] = requests[r] + 1
           /\ \A q \in Requests \ {r} : requests'[q] = requests[q]
BY DEF Send, TypeOK

LEMMA TakeCopyType ==
    ASSUME TypeOK, NEW r \in Requests, TakeCopy(r)
    PROVE  /\ requests' \in [Requests -> Nat]
           /\ requests[r] > 0
           /\ requests'[r] = requests[r] - 1
           /\ \A q \in Requests \ {r} : requests'[q] = requests[q]
BY DEF TakeCopy, TypeOK

LEMMA TellType ==
    ASSUME TypeOK, NEW r \in Requests, NEW o \in Outcomes, Tell(r, o)
    PROVE  /\ reports' \in [Requests -> Seq(Outcomes)]
           /\ reports'[r] = Append(reports[r], o)
           /\ Len(reports'[r]) = Len(reports[r]) + 1
           /\ reports[r] = <<>> => reports'[r] = <<o>> /\ Len(reports'[r]) = 1
           /\ \A q \in Requests \ {r} : reports'[q] = reports[q]
<1>1. reports[r] \in Seq(Outcomes)
  BY DEF TypeOK
<1>2. Append(reports[r], o) \in Seq(Outcomes) /\ Len(Append(reports[r], o)) = Len(reports[r]) + 1
  BY <1>1
<1>3. reports[r] = <<>> => Append(reports[r], o) = <<o>> /\ Len(<<o>>) = 1
  OBVIOUS
<1> QED BY <1>1, <1>2, <1>3 DEF Tell, TypeOK

LEMMA ScheduleType ==
    ASSUME TypeOK, NEW r \in Requests, NEW k \in SUBSET Timer, Schedule(r, k)
    PROVE  /\ timers' \in [Requests -> SUBSET Timer]
           /\ \A q \in Requests \ {r} : timers'[q] = timers[q]
BY DEF Schedule, TypeOK

(* A thread inside a method works on a request of the set.                 *)
LEMMA TaskOn ==
    ASSUME TypeOK, NEW k \in Timer, NEW S \in SUBSET ClientState, Task(k, S)
    PROVE  task.on \in Requests /\ task.seen \in S
BY DEF TypeOK, Task, NoTask, Timer

LEMMA ReceivedOn ==
    ASSUME TypeOK, NEW C \in SUBSET Codes, NEW S \in SUBSET ClientState, Received(C, S)
    PROVE  recv.on \in Requests /\ recv.seen \in S /\ recv.code \in C
BY NonInviteAssumption DEF TypeOK, Received, NoResponse

-----------------------------------------------------------------------------
(***************************************************************************)
(* Each action keeps the invariant                                         *)
(***************************************************************************)

LEMMA StartInv ==
    ASSUME IInv, NEW r \in Requests, Start(r)
    PROVE  IInv'
<1> USE DEF IInv
<1>1. "TRYING" \in ClientState /\ Timer \in SUBSET Timer
  BY DEF ClientState
<1>2. /\ ct' \in [Requests -> ClientState]
      /\ ct'[r] = "TRYING"
      /\ \A q \in Requests \ {r} : ct'[q] = ct[q]
  BY <1>1, SetStateType DEF Start
<1>3. /\ requests' \in [Requests -> Nat]
      /\ requests'[r] = requests[r] + 1
      /\ \A q \in Requests \ {r} : requests'[q] = requests[q]
  BY SendType DEF Start
<1>4. /\ timers' \in [Requests -> SUBSET Timer]
      /\ \A q \in Requests \ {r} : timers'[q] = timers[q]
  BY <1>1, ScheduleType DEF Start
<1>5. TypeOK'
  BY <1>2, <1>3, <1>4 DEF TypeOK, Start, threadVars, peerVars
<1>6. ASSUME NEW q \in Requests
      PROVE  Unstarted(q)' /\ Working(q)' /\ Reported(q)' /\ Copies(q)'
  <2>1. CASE q = r
    <3>1. ct[r] = "INIT" /\ reports[r] = <<>> /\ answers[r] = {} /\ ct'[r] = "TRYING"
      BY <1>2 DEF Start, Unstarted
    <3>2. recv' = recv /\ task' = task /\ reports' = reports /\ retrans' = retrans
          /\ server' = server /\ answers' = answers
      BY DEF Start, threadVars, peerVars
    <3>3. task.on # r /\ recv.on # r
      BY <3>1 DEF Working
    <3>4. Copies(r)'
      BY <3>1 DEF Copies
    <3> QED BY <2>1, <3>1, <3>2, <3>3, <3>4 DEF Unstarted, Working, Reported
  <2>2. CASE q # r
    BY <1>2, <1>3, <1>4, <1>6, <2>2
       DEF Start, threadVars, peerVars, Unstarted, Working, Reported, Copies
  <2> QED BY <2>1, <2>2
<1> QED BY <1>5, <1>6

LEMMA TimerDueInv ==
    ASSUME IInv, NEW r \in Requests, NEW k \in Timer, TimerDue(r, k)
    PROVE  IInv'
<1> USE DEF IInv
<1>1. timers' \in [Requests -> SUBSET Timer] /\ \A q \in Requests : timers'[q] \subseteq timers[q]
  BY DEF TimerDue, TypeOK
<1>2. task' = [on |-> r, seen |-> ct[r], timer |-> k] /\ ct[r] # "INIT"
  BY DEF TimerDue, Unstarted
<1>3. TypeOK'
  BY <1>1, <1>2 DEF TypeOK, TimerDue, peerVars
<1>4. ASSUME NEW q \in Requests
      PROVE  Unstarted(q)' /\ Working(q)' /\ Reported(q)' /\ Copies(q)'
  BY <1>1, <1>2, <1>4
     DEF TimerDue, peerVars, Unstarted, Working, Reported, Copies, Alone
<1> QED BY <1>3, <1>4

LEMMA NoTaskType == NoTask.on = None /\ NoResponse.on = None /\ None \notin Requests
BY NonInviteAssumption DEF NoTask, NoResponse

LEMMA TimerEFiresInv == ASSUME IInv, TimerEFires PROVE IInv'
<1> USE DEF IInv
<1> DEFINE r == task.on
<1>1. "E" \in Timer /\ {"TRYING", "PROCEEDING"} \subseteq ClientState
  BY DEF Timer, ClientState
<1>2. r \in Requests /\ task.seen \in {"TRYING", "PROCEEDING"}
  BY <1>1, TaskOn DEF TimerEFires
<1>3. /\ ct' \in [Requests -> ClientState]
      /\ ct'[r] = task.seen
      /\ \A q \in Requests \ {r} : ct'[q] = ct[q]
  BY <1>1, <1>2, SetStateType DEF TimerEFires
<1>4. /\ requests' \in [Requests -> Nat]
      /\ requests'[r] = requests[r] + 1
      /\ \A q \in Requests \ {r} : requests'[q] = requests[q]
  BY <1>2, SendType DEF TimerEFires
<1>5. /\ timers' \in [Requests -> SUBSET Timer]
      /\ \A q \in Requests \ {r} : timers'[q] = timers[q]
  BY <1>1, <1>2, ScheduleType DEF TimerEFires
<1>6. /\ retrans' \in [Requests -> Nat]
      /\ retrans'[r] = retrans[r] + 1
      /\ \A q \in Requests \ {r} : retrans'[q] = retrans[q]
  BY <1>2, NonInviteAssumption DEF TimerEFires, TypeOK
<1>7. TypeOK'
  BY <1>3, <1>4, <1>5, <1>6 DEF TypeOK, TimerEFires, peerVars
<1>8. ASSUME NEW q \in Requests
      PROVE  Unstarted(q)' /\ Working(q)' /\ Reported(q)' /\ Copies(q)'
  <2>1. Unstarted(q)' /\ Working(q)' /\ Reported(q)'
    BY <1>2, <1>3, <1>5, <1>8, NoTaskType
       DEF TimerEFires, peerVars, Unstarted, Working, Reported
  <2>2. Copies(q)'
    BY <1>2, <1>3, <1>4, <1>8 DEF Copies, Working
  <2> QED BY <2>1, <2>2
<1> QED BY <1>7, <1>8

LEMMA TimerFFiresInv == ASSUME IInv, TimerFFires PROVE IInv'
<1> USE DEF IInv
<1> DEFINE r == task.on
<1>1. "F" \in Timer /\ {"TRYING", "PROCEEDING"} \subseteq ClientState /\ "TERMINATED" \in ClientState
  BY DEF Timer, ClientState
<1>2. r \in Requests /\ task.seen \in {"TRYING", "PROCEEDING"}
  BY <1>1, TaskOn DEF TimerFFires
<1>3. /\ ct' \in [Requests -> ClientState]
      /\ ct'[r] = "TERMINATED"
      /\ \A q \in Requests \ {r} : ct'[q] = ct[q]
  BY <1>1, <1>2, SetStateType DEF TimerFFires
<1>4. /\ reports' \in [Requests -> Seq(Outcomes)]
      /\ reports[r] = <<>> => Len(reports'[r]) = 1
      /\ \A q \in Requests \ {r} : reports'[q] = reports[q]
  BY <1>2, TellType DEF TimerFFires, Outcomes
<1>5. TypeOK'
  BY <1>3, <1>4 DEF TypeOK, TimerFFires, peerVars
<1>6. ASSUME NEW q \in Requests
      PROVE  Unstarted(q)' /\ Working(q)' /\ Reported(q)' /\ Copies(q)'
  BY <1>2, <1>3, <1>4, <1>6, NoTaskType
     DEF TimerFFires, peerVars, Unstarted, Working, Reported, Copies
<1> QED BY <1>5, <1>6

LEMMA TimerKFiresInv == ASSUME IInv, TimerKFires PROVE IInv'
<1> USE DEF IInv
<1> DEFINE r == task.on
<1>1. "K" \in Timer /\ {"COMPLETED"} \subseteq ClientState /\ "TERMINATED" \in ClientState
  BY DEF Timer, ClientState
<1>2. r \in Requests /\ task.seen = "COMPLETED"
  BY <1>1, TaskOn DEF TimerKFires
<1>3. /\ ct' \in [Requests -> ClientState]
      /\ ct'[r] = "TERMINATED"
      /\ \A q \in Requests \ {r} : ct'[q] = ct[q]
  BY <1>1, <1>2, SetStateType DEF TimerKFires
<1>4. TypeOK'
  BY <1>3 DEF TypeOK, TimerKFires, peerVars
<1>5. ASSUME NEW q \in Requests
      PROVE  Unstarted(q)' /\ Working(q)' /\ Reported(q)' /\ Copies(q)'
  BY <1>2, <1>3, <1>5, NoTaskType
     DEF TimerKFires, peerVars, Unstarted, Working, Reported, Copies
<1> QED BY <1>4, <1>5

(* The threads that end a method without doing anything.                   *)
LEMMA IgnoredInv == ASSUME IInv, TimerIgnored \/ ResponseIgnored PROVE IInv'
<1> USE DEF IInv
<1>1. TypeOK'
  BY DEF TypeOK, TimerIgnored, ResponseIgnored, clientVars, peerVars
<1>2. ASSUME NEW q \in Requests
      PROVE  Unstarted(q)' /\ Working(q)' /\ Reported(q)' /\ Copies(q)'
  BY <1>2, NoTaskType
     DEF TimerIgnored, ResponseIgnored, clientVars, peerVars, Unstarted, Working, Reported, Copies
<1> QED BY <1>1, <1>2

LEMMA ReceiveResponseInv ==
    ASSUME IInv, NEW r \in Requests, NEW code \in Codes, ReceiveResponse(r, code)
    PROVE  IInv'
<1> USE DEF IInv
<1>1. recv' = [on |-> r, seen |-> ct[r], code |-> code] /\ ct[r] # "INIT"
  BY DEF ReceiveResponse, Unstarted
<1>2. TypeOK'
  BY <1>1 DEF TypeOK, ReceiveResponse, clientVars, peerVars
<1>3. ASSUME NEW q \in Requests
      PROVE  Unstarted(q)' /\ Working(q)' /\ Reported(q)' /\ Copies(q)'
  BY <1>1, <1>3
     DEF ReceiveResponse, clientVars, peerVars, Unstarted, Working, Reported, Copies, Alone
<1> QED BY <1>2, <1>3

LEMMA Received1xxInv == ASSUME IInv, Received1xx PROVE IInv'
<1> USE DEF IInv
<1> DEFINE r == recv.on
<1>1. {"TRYING", "PROCEEDING"} \subseteq ClientState
  BY DEF ClientState
<1>2. r \in Requests /\ recv.seen \in {"TRYING", "PROCEEDING"}
  BY <1>1, NonInviteAssumption DEF Received1xx, Received, TypeOK, NoResponse
<1>3. /\ ct' \in [Requests -> ClientState]
      /\ ct'[r] = "PROCEEDING"
      /\ \A q \in Requests \ {r} : ct'[q] = ct[q]
  BY <1>1, <1>2, SetStateType DEF Received1xx
<1>4. TypeOK'
  BY <1>3 DEF TypeOK, Received1xx, peerVars
<1>5. ASSUME NEW q \in Requests
      PROVE  Unstarted(q)' /\ Working(q)' /\ Reported(q)' /\ Copies(q)'
  BY <1>2, <1>3, <1>5, NoTaskType
     DEF Received1xx, peerVars, Unstarted, Working, Reported, Copies
<1> QED BY <1>4, <1>5

LEMMA Received200To699Inv == ASSUME IInv, Received200To699 PROVE IInv'
<1> USE DEF IInv
<1> DEFINE r == recv.on
<1>1. {"TRYING", "PROCEEDING"} \subseteq ClientState /\ "COMPLETED" \in ClientState
  BY DEF ClientState
<1>2. r \in Requests /\ recv.seen \in {"TRYING", "PROCEEDING"}
  BY <1>1, ReceivedOn DEF Received200To699, Final
<1>3. /\ ct' \in [Requests -> ClientState]
      /\ ct'[r] = "COMPLETED"
      /\ \A q \in Requests \ {r} : ct'[q] = ct[q]
  BY <1>1, <1>2, SetStateType DEF Received200To699
<1>4. /\ reports' \in [Requests -> Seq(Outcomes)]
      /\ reports[r] = <<>> => Len(reports'[r]) = 1
      /\ \A q \in Requests \ {r} : reports'[q] = reports[q]
  BY <1>2, TellType DEF Received200To699, Outcomes
<1>5. TypeOK'
  BY <1>3, <1>4 DEF TypeOK, Received200To699, peerVars
<1>6. ASSUME NEW q \in Requests
      PROVE  Unstarted(q)' /\ Working(q)' /\ Reported(q)' /\ Copies(q)'
  BY <1>2, <1>3, <1>4, <1>6, NoTaskType
     DEF Received200To699, peerVars, Unstarted, Working, Reported, Copies
<1> QED BY <1>5, <1>6

(* A copy that is taken was sent, so that its transaction was started.     *)
LEMMA CopyWasSent ==
    ASSUME IInv, NEW r \in Requests, TakeCopy(r)
    PROVE  ct[r] # "INIT"
<1>1. requests[r] \in Nat \ {0}
  BY TakeCopyType DEF IInv, TypeOK
<1>2. Copies(r)
  BY DEF IInv
<1> QED BY <1>1, <1>2 DEF Copies

LEMMA NetworkInv ==
    ASSUME IInv, NEW r \in Requests, Network(r)
    PROVE  IInv'
<1> USE DEF IInv
<1>1. TakeCopy(r) /\ UNCHANGED <<clientVars, threadVars>>
  BY DEF Network, LoseRequest, CompletedReceivedRequest, PeerAnswers, Serve
<1>2. /\ requests' \in [Requests -> Nat]
      /\ requests[r] > 0
      /\ requests'[r] = requests[r] - 1
      /\ \A q \in Requests \ {r} : requests'[q] = requests[q]
  BY <1>1, TakeCopyType
<1>3. ct[r] # "INIT"
  BY <1>1, CopyWasSent
<1>4. /\ server' \in [Requests -> Final \cup {0}]
      /\ answers' \in [Requests -> SUBSET Codes]
      /\ \A q \in Requests \ {r} : server'[q] = server[q] /\ answers'[q] = answers[q]
  <2>1. CASE LoseRequest(r)
    BY <2>1 DEF LoseRequest, peerVars, TypeOK
  <2>2. CASE CompletedReceivedRequest(r)
    <3>1. server[r] \in Codes
      BY <2>2 DEF CompletedReceivedRequest, TypeOK, Final
    <3> QED BY <2>2, <3>1 DEF CompletedReceivedRequest, TypeOK
  <2>3. CASE \E code \in Codes : PeerAnswers(r, code)
    BY <2>3 DEF PeerAnswers, TypeOK
  <2>4. CASE \E code \in Final : Serve(r, code)
    BY <2>4 DEF Serve, TypeOK
  <2> QED BY <2>1, <2>2, <2>3, <2>4 DEF Network
<1>5. TypeOK'
  BY <1>1, <1>2, <1>4 DEF TypeOK, clientVars, threadVars
<1>6. ASSUME NEW q \in Requests
      PROVE  Unstarted(q)' /\ Working(q)' /\ Reported(q)'
  BY <1>1, <1>3, <1>4, <1>6 DEF clientVars, threadVars, Unstarted, Working, Reported
<1>7. Copies(r)'
  BY <1>1, <1>3 DEF clientVars, Copies
<1>8. ASSUME NEW q \in Requests, q # r
      PROVE  Copies(q)'
  BY <1>1, <1>2, <1>4, <1>8 DEF Copies, clientVars
<1> QED BY <1>5, <1>6, <1>7, <1>8

LEMMA NextInv == IInv /\ [Next]_vars => IInv'
<1> SUFFICES ASSUME IInv, [Next]_vars PROVE IInv'
  OBVIOUS
<1>1. CASE UNCHANGED vars
  BY <1>1 DEF IInv, TypeOK, Unstarted, Working, Reported, Copies, vars, clientVars,
              threadVars, peerVars
<1>2. CASE RunTask
  BY <1>2, TimerEFiresInv, TimerFFiresInv, TimerKFiresInv, IgnoredInv DEF RunTask
<1>3. CASE HandleResponse
  BY <1>3, Received1xxInv, Received200To699Inv, IgnoredInv DEF HandleResponse
<1>4. ASSUME NEW r \in Requests,
             \/ Start(r)
             \/ Network(r)
             \/ \E k \in Timer : TimerDue(r, k)
             \/ \E code \in Codes : ReceiveResponse(r, code)
      PROVE  IInv'
  BY <1>4, StartInv, NetworkInv, TimerDueInv, ReceiveResponseInv
<1> QED BY <1>1, <1>2, <1>3, <1>4 DEF Next

LEMMA Inductive == Spec => []IInv
BY InitInv, NextInv, PTL DEF Spec

-----------------------------------------------------------------------------
(***************************************************************************)
(* What the user is told, whether tasks race or not                        *)
(***************************************************************************)

Active == {"TRYING", "PROCEEDING"}

(* Timer F of r is still to run.                                           *)
Due(r) == "F" \in timers[r] \/ (task.on = r /\ task.timer = "F")

(* A transaction does not end before its user was told, nor does timer F   *)
(* pass.                                                                   *)
Deadline(r) ==
    /\ ct[r] \in {"COMPLETED", "TERMINATED"} => reports[r] # <<>>
    /\ task.on = r /\ reports[r] = <<>> => task.seen \in Active
    /\ ct[r] # "INIT" /\ reports[r] = <<>> => Due(r)

(* Timer F runs once.                                                      *)
TimedOutOnce(r) ==
    /\ task.on = r /\ task.timer = "F" => "F" \notin timers[r]
    /\ \A i \in DOMAIN reports[r] : reports[r][i] = "timeout" => ~Due(r)
    /\ \A i, j \in DOMAIN reports[r] :
          reports[r][i] = "timeout" /\ reports[r][j] = "timeout" => i = j

(* The peer gives one final answer, and every answer told is its.          *)
Accepted(r) == 200 \in answers[r]
Declined(r) == \E code \in answers[r] : code \notin {100, 200}

OneAnswer(r) ==
    /\ ~(Accepted(r) /\ Declined(r))
    /\ r \in OwnPeers => answers[r] \subseteq {server[r]}
    /\ recv.on = r => recv.code \in answers[r]
    /\ \A i \in DOMAIN reports[r] :
          /\ reports[r][i] = "success" => Accepted(r)
          /\ reports[r][i] = "failure" => Declined(r)

Telling == \A r \in Requests : Deadline(r) /\ TimedOutOnce(r) /\ OneAnswer(r)

LEMMA InitTelling == Init => Telling
<1> SUFFICES ASSUME Init, NEW r \in Requests
             PROVE  Deadline(r) /\ TimedOutOnce(r) /\ OneAnswer(r)
  BY DEF Telling
<1>1. ct[r] = "INIT" /\ reports[r] = <<>> /\ DOMAIN reports[r] = {}
  BY DEF Init
<1>2. task.on # r /\ recv.on # r
  BY NoTaskType DEF Init
<1>3. answers[r] = {}
  BY DEF Init
<1>4. Deadline(r) /\ TimedOutOnce(r)
  BY <1>1, <1>2 DEF Deadline, TimedOutOnce
<1>5. OneAnswer(r)
  BY <1>1, <1>2, <1>3 DEF OneAnswer, Accepted, Declined
<1> QED BY <1>4, <1>5

(* What is told is added at the end.                                       *)
LEMMA Appended ==
    ASSUME NEW u \in Seq(Outcomes), NEW o \in Outcomes
    PROVE  /\ DOMAIN Append(u, o) = DOMAIN u \cup {Len(u) + 1}
           /\ Append(u, o)[Len(u) + 1] = o
           /\ \A i \in DOMAIN u : Append(u, o)[i] = u[i] /\ i # Len(u) + 1
           /\ Append(u, o) # <<>>
OBVIOUS

(* A step that tells nothing and neither consumes nor schedules timer F.   *)
LEMMA TimersKept ==
    ASSUME NEW r \in Requests, TimedOutOnce(r), reports'[r] = reports[r], Due(r)' => Due(r),
           task'.on = r /\ task'.timer = "F" => "F" \notin timers'[r]
    PROVE  TimedOutOnce(r)'
BY DEF TimedOutOnce

LEMMA AnswersKept ==
    ASSUME NEW r \in Requests, OneAnswer(r), reports'[r] = reports[r],
           answers'[r] = answers[r], server'[r] = server[r],
           recv'.on = r => recv'.code \in answers[r]
    PROVE  OneAnswer(r)'
BY DEF OneAnswer, Accepted, Declined

(* The steps of the timer's thread, but for timer F.                       *)
LEMMA TaskTelling ==
    ASSUME IInv, Telling, TimerEFires \/ TimerKFires \/ TimerIgnored
    PROVE  Telling'
<1> USE DEF IInv
<1>1. SUFFICES ASSUME NEW r \in Requests
               PROVE  Deadline(r)' /\ TimedOutOnce(r)' /\ OneAnswer(r)'
  BY DEF Telling
<1>2. /\ reports' = reports /\ answers' = answers /\ server' = server /\ recv' = recv
      /\ task' = NoTask /\ task.on \in Requests /\ task.on # None
      /\ Deadline(r) /\ TimedOutOnce(r) /\ OneAnswer(r)
  BY TaskOn, NonInviteAssumption
     DEF TimerEFires, TimerKFires, TimerIgnored, Telling, peerVars, clientVars, Task, TypeOK,
         NoTask, Timer
<1>3. task'.on # r
  BY <1>2, NoTaskType
<1>4. ("F" \in timers'[r] <=> "F" \in timers[r]) /\ (Due(r)' => Due(r))
  <2>1. timers'[r] = timers[r] \/ timers'[r] = timers[r] \cup {"E"}
    BY <1>2 DEF TimerEFires, TimerKFires, TimerIgnored, Schedule, TypeOK, clientVars
  <2>2. "F" \in timers'[r] <=> "F" \in timers[r]
    BY <2>1
  <2> QED BY <1>3, <2>2 DEF Due
<1>5. Deadline(r)'
  <2>1. CASE reports[r] # <<>>
    BY <1>2, <1>3, <2>1 DEF Deadline
  <2>2. CASE reports[r] = <<>> /\ task.on = r
    <3>1. task.seen \in Active
      BY <1>2, <2>2 DEF Deadline
    <3>2. task.timer # "F" /\ (ct'[r] = ct[r] \/ ct'[r] \in Active)
      BY <1>2, <2>2, <3>1
         DEF TimerEFires, TimerKFires, TimerIgnored, Task, Active, SetState, TypeOK, clientVars
    <3>3. ct[r] \notin {"INIT", "COMPLETED", "TERMINATED"}
      BY <1>2, <2>2 DEF Deadline, Working
    <3>4. "F" \in timers'[r]
      BY <1>2, <1>4, <2>2, <3>2, <3>3 DEF Deadline, Due
    <3>5. ct'[r] \notin {"COMPLETED", "TERMINATED"}
      BY <3>2, <3>3 DEF Active
    <3> QED BY <1>3, <3>4, <3>5 DEF Deadline, Due
  <2>3. CASE reports[r] = <<>> /\ task.on # r
    <3>1. ct'[r] = ct[r]
      BY <1>2, <2>3 DEF TimerEFires, TimerKFires, TimerIgnored, SetState, TypeOK, clientVars
    <3>2. Due(r)' <=> Due(r)
      BY <1>3, <1>4, <2>3 DEF Due
    <3> QED BY <1>2, <1>3, <2>3, <3>1, <3>2 DEF Deadline
  <2> QED BY <2>1, <2>2, <2>3
<1>6. TimedOutOnce(r)'
  BY <1>2, <1>3, <1>4, TimersKept
<1>7. OneAnswer(r)'
  BY <1>2, AnswersKept DEF OneAnswer
<1> QED BY <1>5, <1>6, <1>7

(* A step that tells its user something.                                   *)
LEMMA TellTelling ==
    ASSUME IInv, Telling, NEW q \in Requests, NEW o \in Outcomes, NEW s \in {"COMPLETED", "TERMINATED"},
           SetState(q, s), Tell(q, o), answers' = answers, server' = server, timers' = timers,
           o = "timeout" => Due(q) /\ task'.on # q /\ "F" \notin timers[q],
           o = "success" => Accepted(q),
           o = "failure" => Declined(q),
           task' = task \/ task' = NoTask,
           recv' = recv \/ recv' = NoResponse,
           \A r \in Requests \ {q} : task.on = r => task' = task
    PROVE  Telling'
<1> USE DEF IInv
<1>1. SUFFICES ASSUME NEW r \in Requests
               PROVE  Deadline(r)' /\ TimedOutOnce(r)' /\ OneAnswer(r)'
  BY DEF Telling
<1>2. Deadline(r) /\ TimedOutOnce(r) /\ OneAnswer(r)
  BY DEF Telling
<1>3. Due(r)' => Due(r)
  BY NoTaskType DEF Due
<1>4. recv'.on = r => recv'.code \in answers[r]
  BY <1>2, NoTaskType DEF OneAnswer
<1>7. task'.on = r /\ task'.timer = "F" => "F" \notin timers'[r]
  BY <1>2, NoTaskType DEF TimedOutOnce
<1>5. CASE r = q
  <2>1. reports[r] \in Seq(Outcomes) /\ reports'[r] = Append(reports[r], o)
    BY <1>5 DEF Tell, TypeOK
  <2>2. /\ DOMAIN reports'[r] = DOMAIN reports[r] \cup {Len(reports[r]) + 1}
        /\ reports'[r][Len(reports[r]) + 1] = o
        /\ \A i \in DOMAIN reports[r] : reports'[r][i] = reports[r][i]
        /\ reports'[r] # <<>>
    BY <2>1, Appended
  <2>3. Deadline(r)'
    BY <2>2 DEF Deadline
  <2>4. TimedOutOnce(r)'
    <3>1. CASE o = "timeout"
      <4>1. Due(r) /\ ~Due(r)'
        BY <1>5, <3>1 DEF Due
      <4>2. \A i \in DOMAIN reports[r] : reports[r][i] # "timeout"
        BY <1>2, <4>1 DEF TimedOutOnce
      <4> QED BY <1>7, <2>2, <4>1, <4>2 DEF TimedOutOnce
    <3>2. CASE o # "timeout"
      BY <1>2, <1>3, <1>7, <2>2, <3>2 DEF TimedOutOnce
    <3> QED BY <3>1, <3>2
  <2>5. OneAnswer(r)'
    <3>1. (Accepted(r)' <=> Accepted(r)) /\ (Declined(r)' <=> Declined(r))
      BY DEF Accepted, Declined
    <3> QED BY <1>2, <1>4, <1>5, <2>2, <3>1 DEF OneAnswer
  <2> QED BY <2>3, <2>4, <2>5
<1>6. CASE r # q
  <2>1. reports'[r] = reports[r] /\ ct'[r] = ct[r]
    BY <1>6 DEF Tell, SetState, TypeOK
  <2>2. task.on = r \/ task'.on = r => task' = task
    BY <1>6, NoTaskType
  <2>3. (Due(r)' <=> Due(r)) /\ Deadline(r)'
    BY <1>2, <2>1, <2>2 DEF Deadline, Due
  <2> QED BY <1>2, <1>4, <1>7, <2>1, <2>3, TimersKept, AnswersKept
<1> QED BY <1>5, <1>6

LEMMA ResponseTelling ==
    ASSUME IInv, Telling, HandleResponse
    PROVE  Telling'
<1> USE DEF IInv
<1>1. CASE Received200To699
  <2>1. recv.on \in Requests /\ recv.seen \in {"TRYING", "PROCEEDING"} /\ recv.code \in Final
    BY <1>1, ReceivedOn DEF Received200To699, Final, ClientState
  <2>2. recv.code \in answers[recv.on] /\ recv.code # 100
    BY <2>1 DEF Telling, OneAnswer, Final
  <2> DEFINE o == IF recv.code = 200 THEN "success" ELSE "failure"
  <2>3. o \in Outcomes /\ o # "timeout"
    BY DEF Outcomes
  <2>4. (o = "success" => Accepted(recv.on)) /\ (o = "failure" => Declined(recv.on))
    BY <2>2 DEF Accepted, Declined
  <2>5. SetState(recv.on, "COMPLETED") /\ Tell(recv.on, o)
    BY <1>1 DEF Received200To699
  <2> HIDE DEF o
  <2>6. /\ answers' = answers /\ server' = server /\ timers' = timers
        /\ task' = task /\ recv' = NoResponse
    BY <1>1 DEF Received200To699, peerVars
  <2> QED BY <2>1, <2>3, <2>4, <2>5, <2>6, TellTelling
<1>2. CASE Received1xx \/ ResponseIgnored
  <2>1. SUFFICES ASSUME NEW r \in Requests
                 PROVE  Deadline(r)' /\ TimedOutOnce(r)' /\ OneAnswer(r)'
    BY DEF Telling
  <2>2. /\ reports' = reports /\ answers' = answers /\ server' = server /\ timers' = timers
        /\ task' = task /\ recv' = NoResponse
        /\ Deadline(r) /\ TimedOutOnce(r) /\ OneAnswer(r)
    BY <1>2 DEF Received1xx, ResponseIgnored, Telling, peerVars, clientVars
  <2>3. Due(r)' <=> Due(r)
    BY <2>2 DEF Due
  <2>4. ct'[r] = ct[r] \/ (ct[r] # "INIT" /\ ct'[r] = "PROCEEDING")
    BY <1>2 DEF Received1xx, ResponseIgnored, SetState, TypeOK, Working, clientVars
  <2>5. Deadline(r)'
    BY <2>2, <2>3, <2>4 DEF Deadline
  <2>6. TimedOutOnce(r)'
    BY <2>2, <2>3, TimersKept DEF TimedOutOnce
  <2>7. OneAnswer(r)'
    BY <2>2, NoTaskType, AnswersKept
  <2> QED BY <2>5, <2>6, <2>7
<1> QED BY <1>1, <1>2 DEF HandleResponse

LEMMA TimerFTelling == ASSUME IInv, Telling, TimerFFires PROVE Telling'
<1> USE DEF IInv
<1>1. task.on \in Requests /\ task.timer = "F" /\ "timeout" \in Outcomes
  BY TaskOn DEF TimerFFires, Task, Timer, ClientState, Outcomes
<1>2. Due(task.on) /\ task' = NoTask /\ NoTask.on # task.on
  BY <1>1, NoTaskType DEF Due, TimerFFires
<1>3. "F" \notin timers[task.on]
  BY <1>1 DEF Telling, TimedOutOnce
<1> QED BY <1>1, <1>2, <1>3, TellTelling DEF TimerFFires, peerVars

(* The start of a request, and of the methods of its two threads.          *)
LEMMA BeginTelling ==
    ASSUME IInv, Telling, NEW q \in Requests,
           \/ Start(q)
           \/ \E k \in Timer : TimerDue(q, k)
           \/ \E code \in Codes : ReceiveResponse(q, code)
    PROVE  Telling'
<1> USE DEF IInv
<1>1. SUFFICES ASSUME NEW r \in Requests
               PROVE  Deadline(r)' /\ TimedOutOnce(r)' /\ OneAnswer(r)'
  BY DEF Telling
<1>2. /\ reports' = reports /\ answers' = answers /\ server' = server
      /\ Deadline(r) /\ TimedOutOnce(r) /\ OneAnswer(r)
  BY DEF Start, TimerDue, ReceiveResponse, Telling, peerVars, clientVars
<1>3. recv'.on = r => recv'.code \in answers[r]
  BY <1>2 DEF OneAnswer, Start, TimerDue, ReceiveResponse, threadVars
<1>4. OneAnswer(r)'
  BY <1>2, <1>3, AnswersKept
<1>5. CASE Start(q)
  <2>1. task' = task /\ ct[q] = "INIT" /\ reports[q] = <<>> /\ ct'[q] = "TRYING"
        /\ timers'[q] = timers[q] \cup Timer
    BY <1>5 DEF Start, SetState, Schedule, Unstarted, TypeOK, threadVars
  <2>4. task.on # q
    BY <2>1 DEF Working
  <2>2. CASE r = q
    <3>1. "F" \in timers'[r] /\ reports'[r] = <<>> /\ DOMAIN reports'[r] = {} /\ task'.on # r
      BY <1>2, <2>1, <2>2, <2>4 DEF Timer
    <3> QED BY <1>4, <2>1, <2>2, <3>1 DEF Deadline, TimedOutOnce, Due
  <2>3. CASE r # q
    <3>1. ct'[r] = ct[r] /\ timers'[r] = timers[r]
      BY <1>5, <2>3 DEF Start, SetState, Schedule, TypeOK
    <3>2. Due(r)' <=> Due(r)
      BY <2>1, <3>1 DEF Due
    <3>3. Deadline(r)'
      BY <1>2, <2>1, <3>1, <3>2 DEF Deadline
    <3>4. TimedOutOnce(r)'
      BY <1>2, <2>1, <3>1, <3>2, TimersKept DEF TimedOutOnce
    <3> QED BY <1>4, <3>3, <3>4
  <2> QED BY <2>2, <2>3
<1>6. ASSUME NEW k \in Timer, TimerDue(q, k) PROVE Deadline(r)' /\ TimedOutOnce(r)'
  <2>1. /\ ct' = ct /\ task = NoTask /\ task' = [on |-> q, seen |-> ct[q], timer |-> k]
        /\ timers'[r] = IF r = q THEN timers[r] \ {k} ELSE timers[r]
        /\ k \in timers[q] /\ ct[q] # "INIT"
    BY <1>6 DEF TimerDue, TypeOK, Unstarted
  <2>2. Due(r)' <=> Due(r)
    <3>1. task.on # r
      BY <2>1, NoTaskType
    <3>2. Due(r) <=> "F" \in timers[r]
      BY <3>1 DEF Due
    <3>3. CASE r = q
      BY <2>1, <3>2, <3>3 DEF Due
    <3>4. CASE r # q
      BY <2>1, <3>2, <3>4 DEF Due
    <3> QED BY <3>3, <3>4
  <2>3. ct[q] \in ClientState
    BY DEF TypeOK
  <2>4. Deadline(r)'
    BY <1>2, <2>1, <2>2, <2>3 DEF Deadline, Active, ClientState
  <2>5. task'.on = r /\ task'.timer = "F" => "F" \notin timers'[r]
    BY <2>1, NoTaskType DEF TypeOK
  <2> QED BY <1>2, <2>2, <2>4, <2>5, TimersKept
<1>7. ASSUME NEW code \in Codes, ReceiveResponse(q, code) PROVE Deadline(r)' /\ TimedOutOnce(r)'
  <2>1. UNCHANGED <<ct, timers, task>>
    BY <1>7 DEF ReceiveResponse, clientVars
  <2> QED BY <1>2, <2>1 DEF Deadline, TimedOutOnce, Due
<1> QED BY <1>4, <1>5, <1>6, <1>7

LEMMA NetworkTelling ==
    ASSUME IInv, Telling, NEW q \in Requests, Network(q)
    PROVE  Telling'
<1> USE DEF IInv
<1>1. UNCHANGED <<clientVars, threadVars>>
  BY DEF Network, LoseRequest, CompletedReceivedRequest, PeerAnswers, Serve
<1>2. SUFFICES ASSUME NEW r \in Requests
               PROVE  Deadline(r)' /\ TimedOutOnce(r)' /\ OneAnswer(r)'
  BY DEF Telling
<1>3. Deadline(r) /\ TimedOutOnce(r) /\ OneAnswer(r)
  BY DEF Telling
<1>4. Deadline(r)' /\ TimedOutOnce(r)'
  BY <1>1, <1>3 DEF Deadline, TimedOutOnce, Due, clientVars, threadVars
<1>5. answers[r] \subseteq answers'[r] /\ reports' = reports /\ recv' = recv
  BY <1>1 DEF Network, LoseRequest, CompletedReceivedRequest, PeerAnswers, Serve, peerVars, TypeOK,
     clientVars, threadVars
<1>6. ~(Accepted(r)' /\ Declined(r)') /\ (r \in OwnPeers => answers'[r] \subseteq {server'[r]})
  <2>1. CASE r # q
    BY <1>3, <2>1 DEF Network, LoseRequest, CompletedReceivedRequest, PeerAnswers, Serve, peerVars,
       TypeOK, OneAnswer, Accepted, Declined
  <2>2. CASE r = q /\ LoseRequest(q)
    BY <1>3, <2>2 DEF LoseRequest, peerVars, OneAnswer, Accepted, Declined
  <2>3. CASE r = q /\ CompletedReceivedRequest(q)
    <3>1. r \in OwnPeers /\ answers'[r] = answers[r] \cup {server[r]} /\ server'[r] = server[r]
      BY <2>3 DEF CompletedReceivedRequest, TypeOK
    <3>2. answers'[r] \subseteq {server'[r]}
      BY <1>3, <3>1 DEF OneAnswer
    <3> QED BY <3>2 DEF Accepted, Declined
  <2>4. ASSUME r = q, NEW code \in Codes, PeerAnswers(q, code)
        PROVE  r \notin OwnPeers /\ ~(Accepted(r)' /\ Declined(r)')
    <3>1. r \notin OwnPeers /\ answers'[r] = answers[r] \cup {code}
          /\ (code # 100 => answers[r] \subseteq {100, code})
      BY <2>4 DEF PeerAnswers, TypeOK, Final
    <3>2. CASE code = 100
      BY <1>3, <3>1, <3>2 DEF OneAnswer, Accepted, Declined
    <3>3. CASE code # 100
      <4>1. answers'[r] \subseteq {100, code}
        BY <3>1, <3>3
      <4> QED BY <3>1, <4>1 DEF Accepted, Declined
    <3> QED BY <3>2, <3>3
  <2>5. ASSUME r = q, NEW code \in Final, Serve(q, code)
        PROVE  answers'[r] = {} /\ ~Accepted(r)'
    <3>1. answers'[r] = answers[r] /\ server[r] = 0 /\ r \in OwnPeers
      BY <2>5 DEF Serve
    <3>2. answers[r] \subseteq {0} /\ 0 \notin Codes /\ answers[r] \subseteq Codes
      BY <1>3, <3>1, NonInviteAssumption DEF OneAnswer, TypeOK
    <3> QED BY <3>1, <3>2 DEF Accepted
  <2> QED BY <2>1, <2>2, <2>3, <2>4, <2>5 DEF Network
<1>7. (Accepted(r) => Accepted(r)') /\ (Declined(r) => Declined(r)')
  BY <1>5 DEF Accepted, Declined
<1>8. OneAnswer(r)'
  BY <1>3, <1>5, <1>6, <1>7 DEF OneAnswer
<1> QED BY <1>4, <1>8

LEMMA TellingStep == IInv /\ Telling /\ [Next]_vars => Telling'
<1> SUFFICES ASSUME IInv, Telling, [Next]_vars PROVE Telling'
  OBVIOUS
<1>1. CASE UNCHANGED vars
  BY <1>1 DEF Telling, Deadline, TimedOutOnce, OneAnswer, Accepted, Declined, Due, vars,
     clientVars, threadVars, peerVars
<1> QED BY <1>1, TaskTelling, TimerFTelling, ResponseTelling, BeginTelling, NetworkTelling
        DEF Next, RunTask

LEMMA AllTelling == Spec => []Telling
BY InitTelling, TellingStep, Inductive, PTL DEF Spec

-----------------------------------------------------------------------------
(***************************************************************************)
(* Theorems                                                                *)
(***************************************************************************)

(* The variables keep their types.                                         *)
THEOREM TypeCorrect == Spec => []TypeOK
<1>1. IInv => TypeOK
  BY DEF IInv
<1> QED BY <1>1, Inductive, PTL

(* RegisterHandler, ByeHandler and CancelHandler are told one outcome of a *)
(* request, unless a task of its transaction runs late.                    *)
THEOREM OutcomeOnce == Spec => [](ReportedOnce /\ EndedStaysEnded)
<1>1. IInv => ReportedOnce /\ EndedStaysEnded
  <2> SUFFICES ASSUME IInv, NEW r \in Requests \ RacingRequests
               PROVE  /\ Len(reports[r]) <= 1
                      /\ reports[r] # <<>> => ct[r] \in {"COMPLETED", "TERMINATED"}
    BY DEF ReportedOnce, EndedStaysEnded
  <2>1. Len(<<>>) = 0
    OBVIOUS
  <2>2. \/ reports[r] = <<>> /\ ct[r] \in {"INIT", "TRYING", "PROCEEDING"}
        \/ Len(reports[r]) = 1 /\ ct[r] \in {"COMPLETED", "TERMINATED"}
    BY DEF IInv, Reported
  <2>3. CASE reports[r] = <<>>
    BY <2>1, <2>3
  <2>4. CASE Len(reports[r]) = 1 /\ ct[r] \in {"COMPLETED", "TERMINATED"}
    BY <2>4
  <2> QED BY <2>2, <2>3, <2>4
<1> QED BY <1>1, Inductive, PTL

(* TimerF: the user of a request is not left without an outcome, whatever  *)
(* tasks and answers overtake each other and however the states that they  *)
(* read have changed: while nothing was told timer F is still to run.      *)
THEOREM DeadlineKept == Spec => []ActiveHasDeadline
<1>1. IInv /\ Telling => ActiveHasDeadline
  <2> SUFFICES ASSUME IInv, Telling, NEW r \in Requests, ct[r] \in Active, reports[r] = <<>>
               PROVE  "F" \in timers[r] \/ (task.on = r /\ Task("F", Active))
    BY DEF ActiveHasDeadline, Active
  <2>1. Deadline(r)
    BY DEF Telling
  <2> QED BY <2>1 DEF Deadline, Due, Task, Active
<1> QED BY <1>1, Inductive, AllTelling, PTL

(* The handlers are told of one timeout at most, and not both that the     *)
(* peer accepted the request and that it refused it, though late tasks may *)
(* put the transaction back and have the request answered again.           *)
THEOREM OutcomesNeverClash == Spec => []OutcomesAgree
<1>1. IInv /\ Telling => OutcomesAgree
  <2> SUFFICES ASSUME IInv, Telling, NEW r \in Requests,
                      NEW i \in DOMAIN reports[r], NEW j \in DOMAIN reports[r], i # j
               PROVE  {reports[r][i], reports[r][j]} \notin {{"timeout"}, {"success", "failure"}}
    BY DEF OutcomesAgree
  <2>1. TimedOutOnce(r) /\ OneAnswer(r)
    BY DEF Telling
  <2>2. ~(reports[r][i] = "timeout" /\ reports[r][j] = "timeout")
    BY <2>1 DEF TimedOutOnce
  <2>3. /\ ~(reports[r][i] = "success" /\ reports[r][j] = "failure")
        /\ ~(reports[r][j] = "success" /\ reports[r][i] = "failure")
    BY <2>1 DEF OneAnswer
  <2> QED BY <2>2, <2>3
<1> QED BY <1>1, Inductive, AllTelling, PTL

(* Once the outcome of a request is told it is not sent again.             *)
THEOREM Silence == Spec => SilentAfterOutcome
<1>1. IInv /\ [Next]_vars =>
          [\A r \in Requests \ RacingRequests :
              reports[r] # <<>> => requests'[r] <= requests[r]]_vars
  <2> SUFFICES ASSUME IInv, Next, NEW r \in Requests \ RacingRequests, reports[r] # <<>>
               PROVE  requests'[r] <= requests[r]
    BY DEF vars
  <2>1. ct[r] \in {"COMPLETED", "TERMINATED"} /\ requests[r] \in Nat
    BY DEF IInv, Reported, TypeOK
  <2>2. CASE TimerEFires
    <3>1. task.on # r
      BY <2>1, <2>2 DEF IInv, Working, TimerEFires, Task
    <3> QED BY <2>1, <2>2, <3>1 DEF TimerEFires, Send, IInv, TypeOK
  <2>3. CASE TimerFFires \/ TimerKFires \/ TimerIgnored \/ HandleResponse
    BY <2>1, <2>3 DEF TimerFFires, TimerKFires, TimerIgnored, HandleResponse, Received1xx,
                      Received200To699, ResponseIgnored
  <2>4. ASSUME NEW q \in Requests, Start(q)
        PROVE  requests'[r] <= requests[r]
    BY <2>1, <2>4 DEF Start, Send, IInv, TypeOK
  <2>5. ASSUME NEW q \in Requests, Network(q)
        PROVE  requests'[r] <= requests[r]
    <3>1. TakeCopy(q)
      BY <2>5 DEF Network, LoseRequest, CompletedReceivedRequest, PeerAnswers, Serve
    <3> QED BY <2>1, <3>1 DEF TakeCopy, IInv, TypeOK
  <2>6. ASSUME NEW q \in Requests,
               \/ \E k \in Timer : TimerDue(q, k)
               \/ \E code \in Codes : ReceiveResponse(q, code)
        PROVE  requests'[r] <= requests[r]
    BY <2>1, <2>6 DEF TimerDue, ReceiveResponse
  <2> QED BY <2>2, <2>3, <2>4, <2>5, <2>6 DEF Next, RunTask
<1> QED BY <1>1, Inductive, PTL DEF Spec, SilentAfterOutcome

(* Of the requests that do not race every behaviour is one of the abstract *)
(* specification, but for its fairness: the steps of the receiver, of the  *)
(* timer, of the network and of the peers all map to an Ask, a Report or   *)
(* to nothing.                                                             *)
THEOREM Refinement == Spec => Outcome!Init /\ [][Outcome!Next]_(Outcome!vars)
<1>1. Init => Outcome!Init
  BY DEF Init, Outcome!Init, Punctual
<1>2. IInv /\ [Next]_vars => [Outcome!Next]_(Outcome!vars)
  <2> SUFFICES ASSUME IInv, Next PROVE [Outcome!Next]_(Outcome!vars)
    BY DEF vars, clientVars, Outcome!vars
  <2> DEFINE asked == {r \in Punctual : ct[r] # "INIT"}
             told == [r \in Punctual |-> reports[r]]
  <2>0. Punctual \subseteq Requests
    BY DEF Punctual
  <2>1. ASSUME ct' = ct, reports' = reports
        PROVE  UNCHANGED Outcome!vars
    BY <2>1 DEF Outcome!vars
  <2>2. ASSUME NEW r \in Requests, Start(r)
        PROVE  [Outcome!Next]_(Outcome!vars)
    <3>1. \A q \in Requests : ct'[q] # "INIT" <=> ct[q] # "INIT" \/ q = r
      BY <2>2, SetStateType DEF Start, IInv, ClientState
    <3>2. told' = told
      BY <2>2 DEF Start
    <3>3. CASE r \in Punctual
      <4>1. r \notin asked /\ asked' = asked \cup {r}
        BY <2>0, <2>2, <3>1, <3>3 DEF Start
      <4> QED BY <3>2, <3>3, <4>1 DEF Outcome!Ask, Outcome!Next
    <3>4. CASE r \notin Punctual
      <4>1. asked' = asked
        BY <2>0, <3>1, <3>4
      <4> QED BY <3>2, <4>1 DEF Outcome!vars
    <3> QED BY <3>3, <3>4
  <2>3. ASSUME NEW r \in Requests, NEW o \in Outcomes, NEW s \in ClientState \ {"INIT"},
               SetState(r, s), Tell(r, o),
               r \in Punctual => ct[r] \in {"TRYING", "PROCEEDING"},
               r \notin Punctual => ct[r] # "INIT"
        PROVE  [Outcome!Next]_(Outcome!vars)
    <3>1. \A q \in Requests : ct'[q] # "INIT" <=> ct[q] # "INIT"
      BY <2>3, SetStateType DEF IInv
    <3>2. asked' = asked
      BY <2>0, <3>1
    <3>3. CASE r \in Punctual
      <4>1. reports[r] = <<>>
        BY <2>3, <3>3 DEF IInv, Reported, Punctual
      <4>2. reports' = [reports EXCEPT ![r] = <<o>>]
        BY <2>3, <4>1 DEF Tell
      <4>3. told' = [told EXCEPT ![r] = <<o>>]
        BY <2>0, <4>2, <3>3 DEF IInv, TypeOK
      <4>4. r \in asked /\ told[r] = <<>>
        BY <2>3, <3>3, <4>1
      <4>5. Outcome!Report(r, o)
        BY <3>2, <4>3, <4>4 DEF Outcome!Report
      <4> QED BY <3>3, <4>5 DEF Outcome!Next, Outcome!ReportAny
    <3>4. CASE r \notin Punctual
      <4>1. \A q \in Punctual : reports'[q] = reports[q]
        BY <2>0, <2>3, <3>4 DEF Tell, IInv, TypeOK
      <4>2. told' = told
        BY <4>1
      <4> QED BY <3>2, <4>2 DEF Outcome!vars
    <3> QED BY <3>3, <3>4
  <2>4. ASSUME NEW r \in Requests, NEW s \in ClientState \ {"INIT"},
               SetState(r, s), ct[r] # "INIT", reports' = reports
        PROVE  UNCHANGED Outcome!vars
    <3>1. \A q \in Requests : ct'[q] # "INIT" <=> ct[q] # "INIT"
      BY <2>4, SetStateType DEF IInv
    <3> QED BY <2>0, <2>4, <3>1 DEF Outcome!vars
  <2>5. CASE TimerEFires
    <3>1. task.on \in Requests /\ task.seen \in {"TRYING", "PROCEEDING"}
      BY <2>5, TaskOn DEF TimerEFires, IInv, Timer, ClientState
    <3>2. ct[task.on] # "INIT" /\ task.seen \in ClientState \ {"INIT"}
      BY <3>1 DEF IInv, Working, ClientState
    <3> QED BY <2>4, <2>5, <3>1, <3>2 DEF TimerEFires
  <2>6. CASE TimerFFires
    <3>1. task.on \in Requests /\ task.seen \in {"TRYING", "PROCEEDING"}
      BY <2>6, TaskOn DEF TimerFFires, IInv, Timer, ClientState
    <3>2. /\ task.on \in Punctual => ct[task.on] = task.seen
          /\ ct[task.on] # "INIT" /\ "TERMINATED" \in ClientState \ {"INIT"}
      BY <3>1 DEF IInv, Working, ClientState, Punctual
    <3>3. "timeout" \in Outcomes
      BY DEF Outcomes
    <3> QED BY <2>3, <2>6, <3>1, <3>2, <3>3 DEF TimerFFires
  <2>7. CASE TimerKFires
    <3>1. task.on \in Requests /\ task.seen = "COMPLETED"
      BY <2>7, TaskOn DEF TimerKFires, IInv, Timer, ClientState
    <3>2. ct[task.on] # "INIT" /\ "TERMINATED" \in ClientState \ {"INIT"}
      BY <3>1 DEF IInv, Working, ClientState
    <3> QED BY <2>4, <2>7, <3>1, <3>2 DEF TimerKFires
  <2>8. CASE Received1xx
    <3>1. recv.on \in Requests /\ recv.seen \in {"TRYING", "PROCEEDING"}
      BY <2>8, NonInviteAssumption DEF Received1xx, Received, IInv, TypeOK, NoResponse
    <3>2. ct[recv.on] # "INIT" /\ "PROCEEDING" \in ClientState \ {"INIT"}
      BY <3>1 DEF IInv, Working, ClientState
    <3> QED BY <2>4, <2>8, <3>1, <3>2 DEF Received1xx
  <2>9. CASE Received200To699
    <3>1. recv.on \in Requests /\ recv.seen \in {"TRYING", "PROCEEDING"}
      BY <2>9, ReceivedOn DEF Received200To699, IInv, Final, ClientState
    <3>2. /\ recv.on \in Punctual => ct[recv.on] = recv.seen
          /\ ct[recv.on] # "INIT" /\ "COMPLETED" \in ClientState \ {"INIT"}
      BY <3>1 DEF IInv, Working, ClientState, Punctual
    <3>3. \E o \in Outcomes : Tell(recv.on, o)
      BY <2>9 DEF Received200To699, Outcomes
    <3> QED BY <2>3, <2>9, <3>1, <3>2, <3>3 DEF Received200To699
  <2>10. CASE TimerIgnored \/ ResponseIgnored
    BY <2>1, <2>10 DEF TimerIgnored, ResponseIgnored, clientVars
  <2>11. ASSUME NEW r \in Requests, Network(r)
         PROVE  UNCHANGED Outcome!vars
    BY <2>1, <2>11 DEF Network, LoseRequest, CompletedReceivedRequest, PeerAnswers, Serve, clientVars
  <2>12. ASSUME NEW r \in Requests,
                \/ \E k \in Timer : TimerDue(r, k)
                \/ \E code \in Codes : ReceiveResponse(r, code)
         PROVE  UNCHANGED Outcome!vars
    BY <2>1, <2>12 DEF TimerDue, ReceiveResponse, clientVars
  <2> QED BY <2>2, <2>5, <2>6, <2>7, <2>8, <2>9, <2>10, <2>11, <2>12
          DEF Next, RunTask, HandleResponse
<1> QED BY <1>1, <1>2, Inductive, PTL DEF Spec
===============================================================================
