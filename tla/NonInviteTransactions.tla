------------------------- MODULE NonInviteTransactions -------------------------
(***************************************************************************)
(* The non-INVITE transactions: a client transaction for each request that *)
(* this user agent sends (REGISTER, BYE, CANCEL), over a network that      *)
(* loses and delays what it carries, and at the other end either the       *)
(* server transaction of this program or a peer of another make.           *)
(*                                                                         *)
(* The client's receiver thread runs receivedResponse; the thread of the   *)
(* java.util.Timer runs the timer tasks, and takes no monitor.  Both read  *)
(* the state and then run its method, and each half is a step here.  The   *)
(* server end runs on one receiver thread.  Its Proceeding state is left   *)
(* out: no caller of sendReponse sends a provisional answer to a request   *)
(* other than INVITE, so it is never entered, and timer J never runs.      *)
(* Delays are abstracted: a timer fires at any time after it was scheduled.*)
(***************************************************************************)
EXTENDS Naturals, Sequences

CONSTANTS
    Requests,        \* the requests sent, one client transaction each
    OwnPeers,        \* those whose peer runs this program's server transaction
    RacingRequests,  \* those whose tasks may read the state and run its method late
    Codes,           \* bound: the status codes that peers answer with
    MaxRetrans,      \* bound: the retransmissions of each request
    MaxReports,      \* bound: the outcomes the user of one request is told
    None             \* no request

ASSUME NonInviteAssumption ==
    /\ OwnPeers \subseteq Requests
    /\ RacingRequests \subseteq Requests
    /\ None \notin Requests
    /\ Codes \subseteq {100, 200, 401, 405}
    /\ MaxRetrans \in [Requests -> Nat]
    /\ MaxReports \in Nat \ {0}

VARIABLES
    ct,        \* NonInviteClientTransaction.state
    timers,    \* the tasks scheduled for each client transaction
    retrans,   \* NonInviteClientTransaction.nbRetrans
    reports,   \* the outcomes that the transaction user was told
    recv,      \* what the client's receiver thread is doing
    task,      \* what the timer thread is doing
    requests,  \* copies of each request under way
    server,    \* the answer kept by the server transaction; 0: no transaction
    answers    \* the answers that the peer has sent: each may arrive, at any
               \* time and any number of times, or never

clientVars == <<ct, timers, retrans, reports>>
threadVars == <<recv, task>>
peerVars == <<server, answers>>
vars == <<clientVars, threadVars, requests, peerVars>>

Timer == {"E", "F", "K"}
ClientState == {"INIT", "TRYING", "PROCEEDING", "COMPLETED", "TERMINATED"}
Outcomes == {"success", "failure", "timeout"}
Final == Codes \ {100}

NoResponse == [on |-> None, seen |-> "INIT", code |-> 0]
NoTask == [on |-> None, seen |-> "INIT", timer |-> "none"]

TypeOK ==
    /\ ct \in [Requests -> ClientState]
    /\ timers \in [Requests -> SUBSET Timer]
    /\ retrans \in [Requests -> Nat]
    /\ reports \in [Requests -> Seq(Outcomes)]
    /\ recv \in [on : Requests, seen : ClientState, code : Codes] \cup {NoResponse}
    /\ task \in [on : Requests, seen : ClientState, timer : Timer] \cup {NoTask}
    /\ requests \in [Requests -> Nat]
    /\ server \in [Requests -> Final \cup {0}]
    /\ answers \in [Requests -> SUBSET Codes]

Init ==
    /\ ct = [r \in Requests |-> "INIT"]
    /\ timers = [r \in Requests |-> {}]
    /\ retrans = [r \in Requests |-> 0]
    /\ reports = [r \in Requests |-> <<>>]
    /\ recv = NoResponse
    /\ task = NoTask
    /\ requests = [r \in Requests |-> 0]
    /\ server = [r \in Requests |-> 0]
    /\ answers = [r \in Requests |-> {}]

SetState(r, s) == ct' = [ct EXCEPT ![r] = s]
Send(r) == requests' = [requests EXCEPT ![r] = @ + 1]
Tell(r, outcome) == reports' = [reports EXCEPT ![r] = Append(@, outcome)]
Schedule(r, k) == timers' = [timers EXCEPT ![r] = @ \cup k]

(* The two threads are not on the transaction of r at once, unless r is a  *)
(* request whose tasks may race.                                           *)
Alone(r, other) == r \in RacingRequests \/ other.on # r

-----------------------------------------------------------------------------
(***************************************************************************)
(* The client transaction                                                  *)
(***************************************************************************)

(* createClientTransaction and start: the constructor of the Completed     *)
(* state schedules timer K, whatever the state is when it fires.           *)
Start(r) ==
    /\ ct[r] = "INIT"
    /\ SetState(r, "TRYING")
    /\ Send(r)
    /\ Schedule(r, Timer)
    /\ UNCHANGED <<retrans, reports, threadVars, peerVars>>

(* A timer task begins: it reads the state of its transaction.             *)
TimerDue(r, k) ==
    /\ task = NoTask
    /\ k \in timers[r]
    /\ k = "E" /\ ct[r] \in {"TRYING", "PROCEEDING"} => retrans[r] < MaxRetrans[r]
    /\ Len(reports[r]) < MaxReports
    /\ Alone(r, recv)
    /\ timers' = [timers EXCEPT ![r] = @ \ {k}]
    /\ task' = [on |-> r, seen |-> ct[r], timer |-> k]
    /\ UNCHANGED <<ct, retrans, reports, recv, requests, peerVars>>

Task(k, states) == task.timer = k /\ task.seen \in states

(* The request is repeated, and the state is set to the one that was read. *)
TimerEFires ==
    /\ Task("E", {"TRYING", "PROCEEDING"})
    /\ retrans[task.on] < MaxRetrans[task.on]
    /\ SetState(task.on, task.seen)
    /\ retrans' = [retrans EXCEPT ![task.on] = @ + 1]
    /\ Send(task.on)
    /\ Schedule(task.on, {"E"})
    /\ task' = NoTask
    /\ UNCHANGED <<reports, recv, peerVars>>

(* Mutant: the transaction ends and its user is told nothing.              *)
TimerFFiresSilently ==
    /\ Task("F", {"TRYING", "PROCEEDING"})
    /\ SetState(task.on, "TERMINATED")
    /\ task' = NoTask
    /\ UNCHANGED <<timers, retrans, reports, recv, requests, peerVars>>

(* Mutant: only the Trying state has a method for timer F.                 *)
TimerFFiresInTryingOnly ==
    /\ Task("F", {"TRYING", "PROCEEDING"})
    /\ IF task.seen = "TRYING"
       THEN SetState(task.on, "TERMINATED") /\ Tell(task.on, "timeout")
       ELSE UNCHANGED <<ct, reports>>
    /\ task' = NoTask
    /\ UNCHANGED <<timers, retrans, recv, requests, peerVars>>

(* No final answer has come: the user is told of the timeout.              *)
TimerFFires ==
    /\ Task("F", {"TRYING", "PROCEEDING"})
    /\ SetState(task.on, "TERMINATED")
    /\ Tell(task.on, "timeout")
    /\ task' = NoTask
    /\ UNCHANGED <<timers, retrans, recv, requests, peerVars>>

TimerKFires ==
    /\ Task("K", {"COMPLETED"})
    /\ SetState(task.on, "TERMINATED")
    /\ task' = NoTask
    /\ UNCHANGED <<timers, retrans, reports, recv, requests, peerVars>>

(* Every other pair of state and timer: an empty method.                   *)
TimerIgnored ==
    /\ \/ Task("E", {"INIT", "COMPLETED", "TERMINATED"})
       \/ Task("F", {"INIT", "COMPLETED", "TERMINATED"})
       \/ Task("K", ClientState \ {"COMPLETED"})
    /\ task' = NoTask
    /\ UNCHANGED <<clientVars, recv, requests, peerVars>>

(* receivedResponse begins: the state is read that handles the response.   *)
ReceiveResponse(r, code) ==
    /\ recv = NoResponse
    /\ code \in answers[r]
    /\ Len(reports[r]) < MaxReports
    /\ Alone(r, task)
    /\ recv' = [on |-> r, seen |-> ct[r], code |-> code]
    /\ UNCHANGED <<clientVars, task, requests, peerVars>>

Received(codes, states) == recv.code \in codes /\ recv.seen \in states

(* The request goes on being repeated, at longer intervals.                *)
Received1xx ==
    /\ Received({100}, {"TRYING", "PROCEEDING"})
    /\ SetState(recv.on, "PROCEEDING")
    /\ recv' = NoResponse
    /\ UNCHANGED <<timers, retrans, reports, task, requests, peerVars>>

(* The user is told of the final answer.                                   *)
Received200To699 ==
    /\ Received(Final, {"TRYING", "PROCEEDING"})
    /\ SetState(recv.on, "COMPLETED")
    /\ Tell(recv.on, IF recv.code = 200 THEN "success" ELSE "failure")
    /\ recv' = NoResponse
    /\ UNCHANGED <<timers, retrans, task, requests, peerVars>>

ResponseIgnored ==
    /\ Received(Codes, {"COMPLETED", "TERMINATED"})
    /\ recv' = NoResponse
    /\ UNCHANGED <<clientVars, task, requests, peerVars>>

-----------------------------------------------------------------------------
(***************************************************************************)
(* The network, the server transaction, and peers of another make          *)
(***************************************************************************)

TakeCopy(r) == requests[r] > 0 /\ requests' = [requests EXCEPT ![r] = @ - 1]

LoseRequest(r) ==
    /\ TakeCopy(r)
    /\ UNCHANGED <<clientVars, threadVars, peerVars>>

(* The first copy of a request: handleBye, handleCancel, handleOptions and *)
(* the answers 405 and 500 create a server transaction and give it a final *)
(* answer.  The Trying state enters Completed and sends nothing.           *)
Serve(r, code) ==
    /\ r \in OwnPeers
    /\ server[r] = 0
    /\ TakeCopy(r)
    /\ server' = [server EXCEPT ![r] = code]
    /\ UNCHANGED <<clientVars, threadVars, answers>>

(* Mutant: a later copy is handled, and answered, as if it were the first. *)
LaterCopyIsHandledAnew(r) ==
    /\ r \in OwnPeers
    /\ server[r] # 0
    /\ TakeCopy(r)
    /\ \E code \in Final : answers' = [answers EXCEPT ![r] = @ \cup {code}]
    /\ UNCHANGED <<clientVars, threadVars, server>>

(* A later copy finds the transaction, which sends its answer.             *)
CompletedReceivedRequest(r) ==
    /\ r \in OwnPeers
    /\ server[r] # 0
    /\ TakeCopy(r)
    /\ answers' = [answers EXCEPT ![r] = @ \cup {server[r]}]
    /\ UNCHANGED <<clientVars, threadVars, server>>

(* A peer of another make answers a copy of the request, with one final    *)
(* answer in the end.                                                      *)
PeerAnswers(r, code) ==
    /\ r \notin OwnPeers
    /\ code \in Final => answers[r] \subseteq {100, code}
    /\ TakeCopy(r)
    /\ answers' = [answers EXCEPT ![r] = @ \cup {code}]
    /\ UNCHANGED <<clientVars, threadVars, server>>

-----------------------------------------------------------------------------
RunTask == TimerEFires \/ TimerFFires \/ TimerKFires \/ TimerIgnored

HandleResponse == Received1xx \/ Received200To699 \/ ResponseIgnored

Network(r) ==
    \/ LoseRequest(r)
    \/ CompletedReceivedRequest(r)
    \/ \E code \in Codes : PeerAnswers(r, code)
    \/ \E code \in Final : Serve(r, code)

Next ==
    \/ RunTask
    \/ HandleResponse
    \/ \E r \in Requests :
          \/ Start(r)
          \/ Network(r)
          \/ \E k \in Timer : TimerDue(r, k)
          \/ \E code \in Codes : ReceiveResponse(r, code)

(* The timer's thread runs what is due, and a thread that has begun a      *)
(* method ends it.  Nothing is assumed of the network or of the peers.     *)
Fairness ==
    /\ WF_vars(RunTask)
    /\ WF_vars(HandleResponse)
    /\ \A r \in Requests : SF_vars(TimerDue(r, "F"))

Spec == Init /\ [][Next]_vars /\ Fairness

-----------------------------------------------------------------------------
(***************************************************************************)
(* Properties                                                              *)
(***************************************************************************)

(* The user of a request is told one outcome (RegisterHandler schedules a  *)
(* refresh for every success it is told of, so that a second one matters), *)
(* unless a task of its transaction runs late.                             *)
ReportedOnce == \A r \in Requests \ RacingRequests : Len(reports[r]) <= 1

(* A transaction that has told an outcome is not active again: neither     *)
(* answers nor timers of it are taken for those of a new request, unless a *)
(* task runs late.                                                         *)
EndedStaysEnded ==
    \A r \in Requests \ RacingRequests :
        reports[r] # <<>> => ct[r] \in {"COMPLETED", "TERMINATED"}

(* Once its outcome is told, a request is not sent again.                  *)
SilentAfterOutcome ==
    [][\A r \in Requests \ RacingRequests :
          reports[r] # <<>> => requests'[r] <= requests[r]]_vars

(* A transaction whose user was told nothing yet, and that waits for an    *)
(* answer, has its timer F still to run, in whatever order answers and     *)
(* tasks come: the loss of every answer is noticed in the end.  Once timer *)
(* F has run, nothing but an answer ends a transaction that a late task or *)
(* response puts back; its user was told an outcome before.                *)
ActiveHasDeadline ==
    \A r \in Requests :
        (ct[r] \in {"TRYING", "PROCEEDING"} /\ reports[r] = <<>>) =>
            \/ "F" \in timers[r]
            \/ task.on = r /\ Task("F", {"TRYING", "PROCEEDING"})

(* What the user of a request is told never contradicts itself, though a   *)
(* task that runs late may have it told twice: not of two timeouts, and    *)
(* not of a success and of a failure, however often the request is sent.   *)
OutcomesAgree ==
    \A r \in Requests : \A i, j \in DOMAIN reports[r] :
        i # j => {reports[r][i], reports[r][j]} \notin {{"timeout"}, {"success", "failure"}}

(* Every request whose tasks do not run late is given its one outcome (the *)
(* abstract specification).                                                *)
Punctual == Requests \ RacingRequests
Outcome == INSTANCE RequestOutcome
    WITH Requests <- Punctual,
         asked <- {r \in Punctual : ct[r] # "INIT"},
         reports <- [r \in Punctual |-> reports[r]]
Promise == Outcome!Spec
===============================================================================
