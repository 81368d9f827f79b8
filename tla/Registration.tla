---------------------------- MODULE Registration ----------------------------
(***************************************************************************)
(* The registration of the user agent: the REGISTER requests that register,*)
(* unregister, the refresh timer and the answers to challenges send, the   *)
(* flags of RegisterHandler that they share, and the registrar at the      *)
(* other end.  The threads are the application's, the SIP receiver thread  *)
(* and one thread for each refresh timer (every 200 creates a Timer).      *)
(*                                                                         *)
(* preProcessRegister and successResponseReceived take the handler's       *)
(* monitor; unregister and errResponseReceived do not.  A handler is cut   *)
(* where another thread can see or change the flags.  A client transaction *)
(* is what RequestOutcome promises: one outcome for each request, an answer*)
(* or a timeout.  The network may lose either, and the registrar may take  *)
(* two requests in any order.  Delays are abstracted.                      *)
(***************************************************************************)
EXTENDS Naturals, Sequences, FiniteSets

CONSTANTS
    Timers,       \* refresh timers, each with its thread
    Codes,        \* bound: what the registrar answers with
    HasPassword,  \* config.getPassword() is not empty
    MaxRequests,  \* bound: the REGISTER requests sent
    None          \* no timer

(* ok, okNoContact, okShort: a success; one without Contact; one that      *)
(* expires in less than REFRESH_MARGIN seconds.  challenge, basic: 401 or  *)
(* 407 with a Digest challenge, or another scheme.  nat: another failure,  *)
(* whose Via says that it was received from another address.  refused:     *)
(* another failure.                                                        *)
Success == {"ok", "okNoContact", "okShort"}
Failure == {"challenge", "basic", "nat", "refused"}

ASSUME RegistrationAssumption ==
    /\ Codes \subseteq Success \cup Failure
    /\ HasPassword \in BOOLEAN
    /\ MaxRequests \in Nat
    /\ None \notin Timers
    /\ {"application", "receiver"} \cap Timers = {}

App == "application"
Receiver == "receiver"
Threads == {App, Receiver} \cup Timers

VARIABLES
    registered,         \* RegisterHandler.registered
    unregisterInvoked,  \* RegisterHandler.unregisterInvoked
    challenged,         \* RegisterHandler.challenged
    timer,              \* RegisterHandler.timer
    refresh,            \* the state of each timer
    publicKnown,        \* config.getPublicInetAddress() is the one the registrar sees
    reqs,               \* the REGISTER requests, in the order of their creation
    bound,              \* the registrar has a binding for this user agent
    asked,              \* what the application asked for last
    told,               \* what it was told since
    missed,             \* the last unregister met other requests, or did nothing
    thread              \* what each thread is doing

flagVars == <<registered, unregisterInvoked, challenged>>
timerVars == <<timer, refresh>>
appVars == <<asked, told, missed>>
vars == <<flagVars, timerVars, publicKnown, reqs, bound, appVars, thread>>

Kind == {"register", "refresh", "unregister"}
Request == [kind : Kind, auth : BOOLEAN, public : BOOLEAN, answer : Codes \cup {"none"},
            state : {"built", "pending", "answered", "timeout"}]

(* Where a thread is: in createInitialRequest (pre, invoke, start), or in  *)
(* errResponseReceived (err) or successResponseReceived (ok, schedule) of  *)
(* the handler; dead: an exception has ended it.                           *)
Step == {"idle", "pre", "invoke", "start", "err", "ok", "schedule", "dead"}
Frame == [step : Step, kind : Kind, auth : BOOLEAN, req : Nat]
Idle == [step |-> "idle", kind |-> "register", auth |-> FALSE, req |-> 0]

TypeOK ==
    /\ registered \in BOOLEAN
    /\ unregisterInvoked \in BOOLEAN
    /\ challenged \in BOOLEAN
    /\ timer \in Timers \cup {None}
    /\ refresh \in [Timers -> {"none", "due", "ran", "cancelled"}]
    /\ publicKnown \in BOOLEAN
    /\ reqs \in Seq(Request)
    /\ bound \in BOOLEAN
    /\ asked \in {"none", "register", "unregister"}
    /\ told \in {"none", "success", "failed"}
    /\ missed \in BOOLEAN
    /\ thread \in [Threads -> Frame]
    /\ \A t \in Threads :
          thread[t].step \in {"invoke", "start", "err", "ok", "schedule"} =>
              thread[t].req \in DOMAIN reqs

Init ==
    /\ registered = FALSE
    /\ unregisterInvoked = FALSE
    /\ challenged = FALSE
    /\ timer = None
    /\ refresh = [id \in Timers |-> "none"]
    /\ publicKnown = FALSE
    /\ reqs = <<>>
    /\ bound = FALSE
    /\ asked = "none"
    /\ told = "none"
    /\ missed = FALSE
    /\ thread = [t \in Threads |-> Idle]

At(t, step) == thread[t].step = step
Goto(t, frame) == thread' = [thread EXCEPT ![t] = frame]
Advance(t, step) == Goto(t, [thread[t] EXCEPT !.step = step])

(* createInitialRequest begins.                                            *)
Create(t, kind, auth) == Goto(t, [Idle EXCEPT !.step = "pre", !.kind = kind, !.auth = auth])

(* The request whose answer the receiver thread handles.                   *)
Answered == reqs[thread[Receiver].req]

Due == {id \in Timers : refresh[id] = "due"}
Open(i) == reqs[i].state \in {"built", "pending"}
Quiescent ==
    /\ \A t \in Threads : At(t, "idle")
    /\ \A i \in DOMAIN reqs : ~Open(i)

(* Bound: there is room for one more request.                              *)
Room == Len(reqs) + Cardinality({t \in Threads : At(t, "pre")}) < MaxRequests

(* The receiver thread is in successResponseReceived, which is synchronized*)
Unlocked == ~At(Receiver, "schedule")

-----------------------------------------------------------------------------
(***************************************************************************)
(* The application                                                         *)
(***************************************************************************)

Register ==
    /\ At(App, "idle")
    /\ Room
    /\ asked' = "register"
    /\ told' = "none"
    /\ missed' = FALSE
    /\ Create(App, "register", FALSE)
    /\ UNCHANGED <<flagVars, timerVars, publicKnown, reqs, bound>>

(* unregister does nothing while the handler is not registered, as during  *)
(* a refresh.                                                              *)
Unregister ==
    /\ At(App, "idle")
    /\ Room
    /\ asked' = "unregister"
    /\ told' = "none"
    /\ missed' = (~registered \/ ~Quiescent)
    /\ IF registered THEN Create(App, "unregister", FALSE) ELSE UNCHANGED thread
    /\ UNCHANGED <<flagVars, timerVars, publicKnown, reqs, bound>>

-----------------------------------------------------------------------------
(***************************************************************************)
(* createInitialRequest                                                    *)
(***************************************************************************)

(* Only the first request of unregister has its interceptor.               *)
NextStep(t) ==
    IF thread[t].kind = "unregister" /\ ~thread[t].auth THEN "invoke" ELSE "start"

(* Mutant: preProcessRegister leaves the flag registered as it is.         *)
PreProcessKeepsRegistered(t) ==
    /\ At(t, "pre")
    /\ Unlocked
    /\ unregisterInvoked' = FALSE
    /\ reqs' = Append(reqs, [kind |-> thread[t].kind, auth |-> thread[t].auth,
                             public |-> publicKnown, answer |-> "none", state |-> "built"])
    /\ Goto(t, [thread[t] EXCEPT !.step = NextStep(t), !.req = Len(reqs) + 1])
    /\ UNCHANGED <<registered, challenged, timerVars, publicKnown, bound, appVars>>

(* preProcessRegister: whatever the request is for, the handler forgets    *)
(* that it was registered, and that it was asked to unregister.            *)
PreProcessRegister(t) ==
    /\ At(t, "pre")
    /\ Unlocked
    /\ registered' = FALSE
    /\ unregisterInvoked' = FALSE
    /\ reqs' = Append(reqs, [kind |-> thread[t].kind, auth |-> thread[t].auth,
                             public |-> publicKnown, answer |-> "none", state |-> "built"])
    /\ Goto(t, [thread[t] EXCEPT !.step = NextStep(t), !.req = Len(reqs) + 1])
    /\ UNCHANGED <<challenged, timerVars, publicKnown, bound, appVars>>

(* Mutant: unregister leaves the refresh timer alone.                      *)
InvokeUnregisterKeepsTimer(t) ==
    /\ At(t, "invoke")
    /\ unregisterInvoked' = TRUE
    /\ challenged' = FALSE
    /\ Advance(t, "start")
    /\ UNCHANGED <<registered, timerVars, publicKnown, reqs, bound, appVars>>

(* RegisterHandler.unregister, called by the interceptor: the last timer is*)
(* cancelled; a task of it that runs already goes on.                      *)
InvokeUnregister(t) ==
    /\ At(t, "invoke")
    /\ timer # None
    /\ refresh' = [refresh EXCEPT ![timer] = IF @ = "due" THEN "cancelled" ELSE @]
    /\ unregisterInvoked' = TRUE
    /\ challenged' = FALSE
    /\ Advance(t, "start")
    /\ UNCHANGED <<registered, timer, publicKnown, reqs, bound, appVars>>

(* The client transaction is started: the request is sent.                 *)
Start(t) ==
    /\ At(t, "start")
    /\ reqs' = [reqs EXCEPT ![thread[t].req].state = "pending"]
    /\ Goto(t, Idle)
    /\ UNCHANGED <<flagVars, timerVars, publicKnown, bound, appVars>>

(* RefreshTimerTask.run                                                    *)
RefreshFires(id) ==
    /\ refresh[id] = "due"
    /\ Room
    /\ refresh' = [refresh EXCEPT ![id] = "ran"]
    /\ missed' = (missed \/ ~At(App, "idle"))
    /\ Create(id, "refresh", FALSE)
    /\ UNCHANGED <<flagVars, timer, publicKnown, reqs, bound, asked, told>>

-----------------------------------------------------------------------------
(***************************************************************************)
(* The registrar, and the outcomes that the client transactions tell       *)
(***************************************************************************)

Registrar(i, code) ==
    /\ reqs[i].state = "pending"
    /\ reqs[i].answer = "none"
    /\ code = "nat" => ~reqs[i].public
    /\ code \in {"challenge", "nat"} => Room
    /\ reqs' = [reqs EXCEPT ![i].answer = code]
    /\ bound' = IF code \in Success THEN reqs[i].kind # "unregister" ELSE bound
    /\ UNCHANGED <<flagVars, timerVars, publicKnown, appVars, thread>>

(* The answer reaches the client transaction, which tells the handler.     *)
ResponseReceived(i) ==
    /\ At(Receiver, "idle")
    /\ reqs[i].state = "pending"
    /\ reqs[i].answer # "none"
    /\ reqs[i].answer \in {"challenge", "nat"} => Room
    /\ reqs' = [reqs EXCEPT ![i].state = "answered"]
    /\ Goto(Receiver, [Idle EXCEPT !.step = IF reqs[i].answer \in Success THEN "ok" ELSE "err",
                                   !.req = i])
    /\ UNCHANGED <<flagVars, timerVars, publicKnown, bound, appVars>>

(* Mutant: the application is not told of a timeout.                       *)
TransactionTimeoutSilent(i) ==
    /\ reqs[i].state = "pending"
    /\ reqs' = [reqs EXCEPT ![i].state = "timeout"]
    /\ UNCHANGED <<flagVars, timerVars, publicKnown, bound, appVars, thread>>

(* transactionTimeout leaves the flag challenged as it is.                 *)
TransactionTimeout(i) ==
    /\ reqs[i].state = "pending"
    /\ reqs' = [reqs EXCEPT ![i].state = "timeout"]
    /\ told' = "failed"
    /\ UNCHANGED <<flagVars, timerVars, publicKnown, bound, asked, missed, thread>>

-----------------------------------------------------------------------------
(***************************************************************************)
(* errResponseReceived                                                     *)
(***************************************************************************)

(* Mutant: notifyListener does not reset the flag challenged.              *)
NotifyListenerKeepsChallenged ==
    /\ told' = "failed"
    /\ Goto(Receiver, Idle)
    /\ UNCHANGED <<challenged, asked, missed>>

NotifyListener ==
    /\ told' = "failed"
    /\ challenged' = FALSE
    /\ Goto(Receiver, Idle)
    /\ UNCHANGED <<asked, missed>>

(* A first challenge is answered with the same request and credentials, if *)
(* its scheme is Digest.                                                   *)
HandleChallenge ==
    /\ At(Receiver, "err")
    /\ HasPassword
    /\ Answered.answer \in {"challenge", "basic"}
    /\ ~challenged
    /\ challenged' = TRUE
    /\ IF Answered.answer = "challenge"
       THEN Create(Receiver, Answered.kind, TRUE)
       ELSE Goto(Receiver, Idle)
    /\ UNCHANGED <<registered, unregisterInvoked, timerVars, publicKnown, reqs, bound, appVars>>

(* The Via of another failure shows that there is a NAT: its address is    *)
(* stored and register called again, whatever the request was for.         *)
RegisterAgain ==
    /\ At(Receiver, "err")
    /\ HasPassword
    /\ Answered.answer = "nat"
    /\ publicKnown' = TRUE
    /\ Create(Receiver, "register", FALSE)
    /\ UNCHANGED <<flagVars, timerVars, reqs, bound, appVars>>

(* A second challenge, a challenge without a password and any other failure*)
RegisterFailed ==
    /\ At(Receiver, "err")
    /\ \/ ~HasPassword
       \/ Answered.answer = "refused"
       \/ challenged /\ Answered.answer \in {"challenge", "basic"}
    /\ NotifyListener
    /\ UNCHANGED <<registered, unregisterInvoked, timerVars, publicKnown, reqs, bound>>

-----------------------------------------------------------------------------
(***************************************************************************)
(* successResponseReceived                                                 *)
(***************************************************************************)

(* The success of an unregister is told, and nothing else done.            *)
UnregisterSucceeded ==
    /\ At(Receiver, "ok")
    /\ Answered.kind = "unregister"
    /\ challenged' = FALSE
    /\ told' = "success"
    /\ Goto(Receiver, Idle)
    /\ UNCHANGED <<registered, unregisterInvoked, timerVars, publicKnown, reqs, bound, asked, missed>>

(* A success without Contact is not told.                                  *)
SuccessWithoutContact ==
    /\ At(Receiver, "ok")
    /\ Answered.kind # "unregister"
    /\ Answered.answer = "okNoContact"
    /\ challenged' = FALSE
    /\ Goto(Receiver, Idle)
    /\ UNCHANGED <<registered, unregisterInvoked, timerVars, publicKnown, reqs, bound, appVars>>

(* The handler is registered, and looks whether unregister was invoked.    *)
RegisterSucceeded ==
    /\ At(Receiver, "ok")
    /\ Answered.kind # "unregister"
    /\ Answered.answer # "okNoContact"
    /\ challenged' = FALSE
    /\ registered' = TRUE
    /\ IF unregisterInvoked
       THEN Goto(Receiver, Idle) /\ told' = "success"
       ELSE Advance(Receiver, "schedule") /\ UNCHANGED told
    /\ UNCHANGED <<unregisterInvoked, timerVars, publicKnown, reqs, bound, asked, missed>>

(* A new timer replaces the one before, and is given the refresh.  A delay *)
(* below zero is an exception, which ends the receiver thread.             *)
ScheduleRefresh(id) ==
    /\ At(Receiver, "schedule")
    /\ refresh[id] = "none"
    /\ timer' = id
    /\ IF Answered.answer = "okShort"
       THEN Advance(Receiver, "dead") /\ UNCHANGED <<refresh, told>>
       ELSE /\ refresh' = [refresh EXCEPT ![id] = "due"]
            /\ told' = "success"
            /\ Goto(Receiver, Idle)
    /\ UNCHANGED <<flagVars, publicKnown, reqs, bound, asked, missed>>

-----------------------------------------------------------------------------
CreateRequest(t) == PreProcessRegister(t) \/ InvokeUnregister(t) \/ Start(t)

HandleResponse ==
    \/ HandleChallenge
    \/ RegisterAgain
    \/ RegisterFailed
    \/ UnregisterSucceeded
    \/ SuccessWithoutContact
    \/ RegisterSucceeded
    \/ \E id \in Timers : ScheduleRefresh(id)

Next ==
    \/ Register
    \/ Unregister
    \/ HandleResponse
    \/ \E t \in Threads : CreateRequest(t)
    \/ \E id \in Timers : RefreshFires(id)
    \/ \E i \in DOMAIN reqs :
          \/ ResponseReceived(i)
          \/ TransactionTimeout(i)
          \/ \E code \in Codes : Registrar(i, code)

(* A thread inside a handler goes on, and a transaction that has no answer *)
(* times out.  Nothing is assumed of the application or the registrar.     *)
Fairness ==
    /\ WF_vars(HandleResponse)
    /\ \A t \in Threads : WF_vars(CreateRequest(t))
    /\ \A i \in 1 .. MaxRequests : WF_vars(i \in DOMAIN reqs /\ TransactionTimeout(i))

Spec == Init /\ [][Next]_vars /\ Fairness
-----------------------------------------------------------------------------
(***************************************************************************)
(* Properties                                                              *)
(***************************************************************************)

(* RegisterHandler.registered and the refresh timer agree: while the agent *)
(* takes itself for registered and was not asked to unregister, the last   *)
(* timer will send a refresh, or is about to.  The flags are set under the *)
(* monitor by two methods and without it by two others.  A receiver thread *)
(* that died of a negative delay is the exception.                         *)
RegisteredIsRefreshed ==
    registered /\ ~unregisterInvoked /\ Receiver \notin {t \in Threads : At(t, "schedule") \/ At(t, "dead")} =>
        /\ timer \in Timers
        /\ refresh[timer] = "due" \/ At(timer, "pre")

(* unregister cancels a timer that exists.  The flag registered, which lets*)
(* the application's thread in, is set before the timer is created; only   *)
(* the monitor of preProcessRegister keeps the interceptor from being      *)
(* faster.                                                                 *)
UnregisterHasTimer == \A t \in Threads : At(t, "invoke") => timer # None

(* The flag challenged, which makes the next challenge a failure, is not   *)
(* left behind without a reason: credentials are on their way, or their    *)
(* request timed out, or the registrar answered it as behind a NAT, or     *)
(* once asked for another scheme than Digest.  The last three are stale: a *)
(* new register whose first challenge arrives then is given up.            *)
ChallengedHasReason ==
    challenged =>
        \/ At(Receiver, "pre") /\ thread[Receiver].auth
        \/ \E i \in DOMAIN reqs :
              \/ reqs[i].answer = "basic"
              \/ /\ reqs[i].auth
                 /\ \/ reqs[i].state # "answered"
                    \/ reqs[i].answer = "nat"
                    \/ thread[Receiver].step \in {"err", "ok"} /\ thread[Receiver].req = i

(* The registrations that the application, or the answer behind a NAT,     *)
(* began.                                                                  *)
Registrations == {i \in DOMAIN reqs : reqs[i].kind = "register" /\ ~reqs[i].auth}

(* An unregister that met no other request ends a registration: once all is*)
(* quiet one timer less is due than there were registrations.  If there was*)
(* one and the last unregister succeeded, the registrar has no binding.    *)
UnregisterSticks ==
    asked = "unregister" /\ ~missed /\ Quiescent =>
        /\ Cardinality(Due) < Cardinality(Registrations)
        /\ Cardinality(Registrations) = 1 /\ reqs[Len(reqs)].answer \in Success => ~bound

(* A register is answered: the application is told of a success or of a    *)
(* failure, or asks for something else, unless the answer is one that the  *)
(* handler tells nobody of.  A transaction times out, a challenge leads to *)
(* a request or to a failure.                                              *)
RegisterIsAnswered ==
    asked = "register" /\ told = "none" ~>
        \/ told # "none" \/ asked # "register"
        \/ \E i \in DOMAIN reqs : reqs[i].answer \in {"okNoContact", "okShort", "basic"}

===============================================================================
