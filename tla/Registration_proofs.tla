------------------------- MODULE Registration_proofs -------------------------
(***************************************************************************)
(* Theorems about Registration, for every set of timers, every set of      *)
(* answers and every number of requests: the flag registered, the refresh  *)
(* timer and the interceptor of unregister agree, the flag challenged      *)
(* always has one of four reasons, and an unregister that meets no other   *)
(* request ends a registration.                                            *)
(***************************************************************************)
EXTENDS Registration, FiniteSetTheorems, TLAPS

(* Only the receiver thread runs the handler's callbacks.                  *)
CallbacksOfReceiver ==
    \A t \in Threads : t # Receiver => thread[t].step \notin {"err", "ok", "schedule", "dead"}

(* Whatever lets an unregister through follows a timer: the flag           *)
(* registered, unless the receiver thread is about to create the timer, a  *)
(* frame of unregister that waits for the monitor, or one of its requests. *)
TimerBeforeUnregister ==
    /\ registered => timer # None \/ At(Receiver, "schedule")
    /\ unregisterInvoked => timer # None
    /\ \A t \in Threads :
          /\ thread[t].kind = "unregister" /\ At(t, "pre") => timer # None \/ At(Receiver, "schedule")
          /\ At(t, "invoke") => timer # None
    /\ \A i \in DOMAIN reqs : reqs[i].kind = "unregister" => timer # None

IInv ==
    /\ TypeOK
    /\ CallbacksOfReceiver
    /\ RegisteredIsRefreshed
    /\ TimerBeforeUnregister
    /\ ChallengedHasReason

-----------------------------------------------------------------------------
(***************************************************************************)
(* The threads and the requests                                            *)
(***************************************************************************)

LEMMA ThreadFacts ==
    /\ App \in Threads /\ Receiver \in Threads /\ Timers \subseteq Threads
    /\ App # Receiver /\ App \notin Timers /\ Receiver \notin Timers
    /\ None \notin Timers
BY RegistrationAssumption DEF Threads, App, Receiver

LEMMA IdleType == Idle \in Frame /\ Idle.step = "idle" /\ Idle.kind = "register"
BY DEF Idle, Frame, Step, Kind

LEMMA GotoType ==
    ASSUME TypeOK, NEW t \in Threads, NEW f \in Frame, Goto(t, f)
    PROVE  /\ thread' \in [Threads -> Frame]
           /\ thread'[t] = f
           /\ \A u \in Threads \ {t} : thread'[u] = thread[u]
BY DEF Goto, TypeOK

LEMMA AdvanceType ==
    ASSUME TypeOK, NEW t \in Threads, NEW s \in Step, Advance(t, s)
    PROVE  /\ thread' \in [Threads -> Frame]
           /\ thread'[t] = [thread[t] EXCEPT !.step = s]
           /\ thread'[t].step = s
           /\ thread'[t].kind = thread[t].kind
           /\ thread'[t].auth = thread[t].auth
           /\ thread'[t].req = thread[t].req
           /\ \A u \in Threads \ {t} : thread'[u] = thread[u]
<1>1. thread[t] \in Frame
  BY DEF TypeOK
<1>2. [thread[t] EXCEPT !.step = s] \in Frame
  BY <1>1 DEF Frame
<1>3. /\ [thread[t] EXCEPT !.step = s].step = s
      /\ [thread[t] EXCEPT !.step = s].kind = thread[t].kind
      /\ [thread[t] EXCEPT !.step = s].auth = thread[t].auth
      /\ [thread[t] EXCEPT !.step = s].req = thread[t].req
  BY <1>1 DEF Frame
<1> QED BY <1>1, <1>2, <1>3 DEF Advance, Goto, TypeOK

LEMMA CreateType ==
    ASSUME TypeOK, NEW t \in Threads, NEW k \in Kind, NEW a \in BOOLEAN, Create(t, k, a)
    PROVE  /\ thread' \in [Threads -> Frame]
           /\ thread'[t].step = "pre"
           /\ thread'[t].kind = k
           /\ thread'[t].auth = a
           /\ \A u \in Threads \ {t} : thread'[u] = thread[u]
<1> DEFINE f == [Idle EXCEPT !.step = "pre", !.kind = k, !.auth = a]
<1>1. f \in Frame /\ f.step = "pre" /\ f.kind = k /\ f.auth = a
  BY DEF Idle, Frame, Step
<1>2. Goto(t, f)
  BY DEF Create
<1> HIDE DEF f
<1> QED BY <1>1, <1>2, GotoType

(* An update of one request keeps the others.                              *)
LEMMA UpdateType ==
    ASSUME reqs \in Seq(Request), NEW i \in DOMAIN reqs, NEW q \in Request,
           reqs' = [reqs EXCEPT ![i] = q]
    PROVE  /\ reqs' \in Seq(Request)
           /\ DOMAIN reqs' = DOMAIN reqs
           /\ reqs'[i] = q
           /\ \A j \in DOMAIN reqs \ {i} : reqs'[j] = reqs[j]
OBVIOUS

LEMMA AppendType ==
    ASSUME reqs \in Seq(Request), NEW q \in Request, reqs' = Append(reqs, q)
    PROVE  /\ reqs' \in Seq(Request)
           /\ DOMAIN reqs' = DOMAIN reqs \cup {Len(reqs) + 1}
           /\ Len(reqs) + 1 \in Nat
           /\ reqs'[Len(reqs) + 1] = q
           /\ \A j \in DOMAIN reqs : reqs'[j] = reqs[j]
OBVIOUS

LEMMA RequestFields ==
    ASSUME reqs \in Seq(Request), NEW i \in DOMAIN reqs
    PROVE  /\ reqs[i] \in Request
           /\ reqs[i].kind \in Kind /\ reqs[i].auth \in BOOLEAN
           /\ reqs[i].public \in BOOLEAN /\ reqs[i].answer \in Codes \cup {"none"}
           /\ \A s \in {"built", "pending", "answered", "timeout"} :
                 /\ [reqs[i] EXCEPT !.state = s] \in Request
                 /\ [reqs[i] EXCEPT !.state = s].kind = reqs[i].kind
                 /\ [reqs[i] EXCEPT !.state = s].auth = reqs[i].auth
                 /\ [reqs[i] EXCEPT !.state = s].answer = reqs[i].answer
                 /\ [reqs[i] EXCEPT !.state = s].state = s
           /\ \A c \in Codes :
                 /\ [reqs[i] EXCEPT !.answer = c] \in Request
                 /\ [reqs[i] EXCEPT !.answer = c].kind = reqs[i].kind
                 /\ [reqs[i] EXCEPT !.answer = c].auth = reqs[i].auth
                 /\ [reqs[i] EXCEPT !.answer = c].state = reqs[i].state
                 /\ [reqs[i] EXCEPT !.answer = c].answer = c
<1>1. reqs[i] \in Request
  OBVIOUS
<1> QED BY <1>1 DEF Request

LEMMA InitInv == Init => IInv
<1> SUFFICES ASSUME Init PROVE IInv
  OBVIOUS
<1>1. TypeOK
  <2>1. reqs \in Seq(Request) /\ thread \in [Threads -> Frame]
    BY IdleType DEF Init
  <2>2. refresh \in [Timers -> {"none", "due", "ran", "cancelled"}]
    BY DEF Init
  <2>3. \A t \in Threads : thread[t].step = "idle"
    BY IdleType DEF Init
  <2> QED BY <2>1, <2>2, <2>3 DEF Init, TypeOK
<1>2. CallbacksOfReceiver
  BY IdleType DEF Init, CallbacksOfReceiver
<1>3. RegisteredIsRefreshed /\ ChallengedHasReason
  BY DEF Init, RegisteredIsRefreshed, ChallengedHasReason
<1>4. TimerBeforeUnregister
  BY IdleType DEF Init, TimerBeforeUnregister, At
<1> QED BY <1>1, <1>2, <1>3, <1>4 DEF IInv

-----------------------------------------------------------------------------
(***************************************************************************)
(* Each action keeps the invariant                                         *)
(***************************************************************************)

LEMMA RegisterInv == ASSUME IInv, Register PROVE IInv'
<1> USE DEF IInv
<1>1. /\ thread' \in [Threads -> Frame]
      /\ thread'[App].step = "pre" /\ thread'[App].kind = "register"
      /\ \A u \in Threads \ {App} : thread'[u] = thread[u]
  BY CreateType, ThreadFacts DEF Register, Kind
<1>2. UNCHANGED <<flagVars, timerVars, publicKnown, reqs, bound>>
  BY DEF Register
<1> USE <1>1, <1>2, ThreadFacts DEF flagVars, timerVars
<1>3. TypeOK'
  BY DEF TypeOK, Register
<1>4. CallbacksOfReceiver'
  BY DEF CallbacksOfReceiver
<1>5. RegisteredIsRefreshed'
  BY DEF RegisteredIsRefreshed, At
<1>6. TimerBeforeUnregister'
  BY DEF TimerBeforeUnregister, At
<1>7. ChallengedHasReason'
  BY DEF ChallengedHasReason, At
<1> QED BY <1>3, <1>4, <1>5, <1>6, <1>7

LEMMA UnregisterInv == ASSUME IInv, Unregister PROVE IInv'
<1> USE DEF IInv
<1>1. UNCHANGED <<flagVars, timerVars, publicKnown, reqs, bound>>
  BY DEF Unregister
<1>2. asked' = "unregister" /\ told' = "none" /\ missed' \in BOOLEAN
  BY DEF Unregister, TypeOK
<1> USE <1>1, <1>2, ThreadFacts DEF flagVars, timerVars
<1>a. CASE registered
  <2>1. /\ thread' \in [Threads -> Frame]
        /\ thread'[App].step = "pre" /\ thread'[App].kind = "unregister"
        /\ \A u \in Threads \ {App} : thread'[u] = thread[u]
    BY <1>a, CreateType DEF Unregister, Kind
  <2>2. TypeOK'
    BY <2>1 DEF TypeOK
  <2>3. CallbacksOfReceiver'
    BY <2>1 DEF CallbacksOfReceiver
  <2>4. RegisteredIsRefreshed'
    BY <2>1 DEF RegisteredIsRefreshed, At
  <2>5. TimerBeforeUnregister'
    BY <1>a, <2>1 DEF TimerBeforeUnregister, At
  <2>6. ChallengedHasReason'
    BY <2>1 DEF ChallengedHasReason, At
  <2> QED BY <2>2, <2>3, <2>4, <2>5, <2>6
<1>b. CASE ~registered
  <2>1. UNCHANGED thread
    BY <1>b DEF Unregister
  <2> QED BY <2>1 DEF TypeOK, CallbacksOfReceiver, RegisteredIsRefreshed,
                      TimerBeforeUnregister, ChallengedHasReason, At
<1> QED BY <1>a, <1>b

LEMMA PreProcessRegisterInv ==
    ASSUME IInv, NEW t \in Threads, PreProcessRegister(t)
    PROVE  IInv'
<1> USE DEF IInv
<1> DEFINE n == Len(reqs) + 1
           q == [kind |-> thread[t].kind, auth |-> thread[t].auth,
                 public |-> publicKnown, answer |-> "none", state |-> "built"]
           f == [thread[t] EXCEPT !.step = NextStep(t), !.req = n]
<1>1. thread[t] \in Frame /\ reqs \in Seq(Request) /\ publicKnown \in BOOLEAN
  BY DEF TypeOK
<1>2. q \in Request /\ q.kind = thread[t].kind /\ q.auth = thread[t].auth /\ q.state = "built"
      /\ q.answer = "none"
  BY <1>1 DEF Request, Frame
<1>3. reqs' = Append(reqs, q) /\ Goto(t, f)
  BY DEF PreProcessRegister
<1>4. n \in Nat
  BY <1>1
<1>5. NextStep(t) \in {"invoke", "start"}
      /\ (NextStep(t) = "invoke" => thread[t].kind = "unregister")
  BY DEF NextStep
<1>6. f \in Frame /\ f.step = NextStep(t) /\ f.kind = thread[t].kind /\ f.req = n
  BY <1>1, <1>4, <1>5 DEF Frame, Step
<1>7. UNCHANGED <<challenged, timerVars, publicKnown, bound, appVars>> /\ registered' = FALSE
      /\ unregisterInvoked' = FALSE /\ At(t, "pre") /\ ~At(Receiver, "schedule")
  BY DEF PreProcessRegister, Unlocked
<1> HIDE DEF q, f
<1>8. /\ reqs' \in Seq(Request)
      /\ DOMAIN reqs' = DOMAIN reqs \cup {n}
      /\ reqs'[n] = q
      /\ \A j \in DOMAIN reqs : reqs'[j] = reqs[j]
  BY <1>1, <1>2, <1>3, AppendType
<1>9. /\ thread' \in [Threads -> Frame]
      /\ thread'[t] = f
      /\ \A u \in Threads \ {t} : thread'[u] = thread[u]
  BY <1>3, <1>6, GotoType
<1> HIDE DEF n
<1> USE <1>7, <1>8, <1>9, ThreadFacts DEF timerVars, appVars
<1>10. TypeOK'
  BY <1>6 DEF TypeOK
<1>11. CallbacksOfReceiver'
  BY <1>5, <1>6 DEF CallbacksOfReceiver
<1>12. RegisteredIsRefreshed'
  BY DEF RegisteredIsRefreshed
<1>13. TimerBeforeUnregister'
  <2>1. thread[t].kind = "unregister" => timer # None
    BY DEF TimerBeforeUnregister
  <2>2. \A i \in DOMAIN reqs' : reqs'[i].kind = "unregister" => timer # None
    BY <1>2, <2>1 DEF TimerBeforeUnregister
  <2>3. ASSUME NEW u \in Threads
        PROVE  /\ thread'[u].kind = "unregister" /\ thread'[u].step = "pre" => timer # None
               /\ thread'[u].step = "invoke" => timer # None
    <3>1. CASE u = t
      BY <1>5, <1>6, <2>1, <3>1
    <3>2. CASE u # t
      BY <3>2 DEF TimerBeforeUnregister, At
    <3> QED BY <3>1, <3>2
  <2> QED BY <2>2, <2>3 DEF TimerBeforeUnregister, At
<1>14. ChallengedHasReason'
  <2> SUFFICES ASSUME challenged PROVE ChallengedHasReason'
    BY DEF ChallengedHasReason
  <2>1. CASE t = Receiver /\ thread[t].auth
    <3>1. n \in DOMAIN reqs' /\ reqs'[n].auth /\ reqs'[n].state # "answered"
      BY <1>2, <2>1
    <3> QED BY <3>1 DEF ChallengedHasReason
  <2>2. CASE t = Receiver /\ ~thread[t].auth
    <3>1. PICK i \in DOMAIN reqs : \/ reqs[i].answer = "basic"
                                  \/ /\ reqs[i].auth
                                     /\ reqs[i].state # "answered" \/ reqs[i].answer = "nat"
      BY <2>2 DEF ChallengedHasReason, At
    <3> QED BY <3>1 DEF ChallengedHasReason
  <2>3. CASE t # Receiver
    BY <2>3 DEF ChallengedHasReason, At
  <2> QED BY <2>1, <2>2, <2>3
<1> QED BY <1>10, <1>11, <1>12, <1>13, <1>14

LEMMA InvokeUnregisterInv ==
    ASSUME IInv, NEW t \in Threads, InvokeUnregister(t)
    PROVE  IInv'
<1> USE DEF IInv
<1>1. /\ thread' \in [Threads -> Frame]
      /\ thread'[t].step = "start"
      /\ thread'[t].req = thread[t].req
      /\ \A u \in Threads \ {t} : thread'[u] = thread[u]
  BY AdvanceType DEF InvokeUnregister, Step
<1>2. At(t, "invoke") /\ timer # None /\ unregisterInvoked' = TRUE /\ challenged' = FALSE
      /\ UNCHANGED <<registered, timer, publicKnown, reqs, bound, appVars>>
  BY DEF InvokeUnregister
<1>3. refresh' \in [Timers -> {"none", "due", "ran", "cancelled"}]
  BY DEF InvokeUnregister, TypeOK
<1> USE <1>1, <1>2, ThreadFacts DEF appVars
<1>4. TypeOK'
  BY <1>3 DEF TypeOK, At
<1>5. CallbacksOfReceiver'
  BY DEF CallbacksOfReceiver
<1>6. RegisteredIsRefreshed' /\ ChallengedHasReason'
  BY DEF RegisteredIsRefreshed, ChallengedHasReason
<1>7. TimerBeforeUnregister'
  BY DEF TimerBeforeUnregister, At
<1> QED BY <1>4, <1>5, <1>6, <1>7

LEMMA StartInv ==
    ASSUME IInv, NEW t \in Threads, Start(t)
    PROVE  IInv'
<1> USE DEF IInv
<1> DEFINE i == thread[t].req
           q == [reqs[i] EXCEPT !.state = "pending"]
<1>1. reqs \in Seq(Request) /\ i \in DOMAIN reqs
  BY DEF Start, At, TypeOK
<1>2. q \in Request /\ q.kind = reqs[i].kind /\ q.auth = reqs[i].auth
      /\ q.answer = reqs[i].answer /\ q.state = "pending"
  BY <1>1, RequestFields
<1>3. reqs' = [reqs EXCEPT ![i] = q]
  BY DEF Start
<1> HIDE DEF q, i
<1>4. reqs' \in Seq(Request) /\ DOMAIN reqs' = DOMAIN reqs /\ reqs'[i] = q
      /\ \A j \in DOMAIN reqs \ {i} : reqs'[j] = reqs[j]
  BY <1>1, <1>2, <1>3, UpdateType
<1>5. /\ thread' \in [Threads -> Frame]
      /\ thread'[t].step = "idle"
      /\ \A u \in Threads \ {t} : thread'[u] = thread[u]
  BY IdleType, GotoType DEF Start
<1>6. At(t, "start") /\ UNCHANGED <<flagVars, timerVars, publicKnown, bound, appVars>>
  BY DEF Start
<1> USE <1>4, <1>5, <1>6, ThreadFacts DEF flagVars, timerVars, appVars
<1>7. TypeOK'
  BY DEF TypeOK
<1>8. CallbacksOfReceiver'
  BY DEF CallbacksOfReceiver
<1>9. RegisteredIsRefreshed'
  BY DEF RegisteredIsRefreshed, At
<1>10. TimerBeforeUnregister'
  <2>1. \A j \in DOMAIN reqs : reqs'[j].kind = reqs[j].kind
    BY <1>2
  <2> QED BY <2>1 DEF TimerBeforeUnregister, At
<1>11. ChallengedHasReason'
  <2>1. \A j \in DOMAIN reqs : /\ reqs'[j].answer = reqs[j].answer /\ reqs'[j].auth = reqs[j].auth
                               /\ reqs'[j].state # reqs[j].state => reqs'[j].state # "answered"
    BY <1>2
  <2>2. CASE t = Receiver
    BY <2>1, <2>2 DEF ChallengedHasReason, At
  <2>3. CASE t # Receiver
    BY <2>1, <2>3 DEF ChallengedHasReason, At
  <2> QED BY <2>2, <2>3
<1> QED BY <1>7, <1>8, <1>9, <1>10, <1>11

LEMMA RefreshFiresInv ==
    ASSUME IInv, NEW id \in Timers, RefreshFires(id)
    PROVE  IInv'
<1> USE DEF IInv
<1>1. /\ thread' \in [Threads -> Frame]
      /\ thread'[id].step = "pre" /\ thread'[id].kind = "refresh"
      /\ \A u \in Threads \ {id} : thread'[u] = thread[u]
  BY CreateType, ThreadFacts DEF RefreshFires, Kind
<1>2. /\ refresh' \in [Timers -> {"none", "due", "ran", "cancelled"}]
      /\ \A k \in Timers \ {id} : refresh'[k] = refresh[k]
  BY DEF RefreshFires, TypeOK
<1>3. UNCHANGED <<flagVars, timer, publicKnown, reqs, bound, asked, told>> /\ missed' \in BOOLEAN
  BY DEF RefreshFires, TypeOK
<1> USE <1>1, <1>2, <1>3, ThreadFacts DEF flagVars
<1>4. TypeOK'
  BY DEF TypeOK
<1>5. CallbacksOfReceiver'
  BY DEF CallbacksOfReceiver
<1>6. RegisteredIsRefreshed'
  <2>1. \A s \in Step : At(Receiver, s)' <=> At(Receiver, s)
    BY DEF At
  <2> SUFFICES ASSUME registered, ~unregisterInvoked, ~At(Receiver, "schedule"), ~At(Receiver, "dead")
               PROVE  timer \in Timers /\ (refresh'[timer] = "due" \/ thread'[timer].step = "pre")
    BY <2>1 DEF RegisteredIsRefreshed, At
  <2>2. timer \in Timers /\ (refresh[timer] = "due" \/ thread[timer].step = "pre")
    BY DEF RegisteredIsRefreshed, At
  <2>3. CASE timer = id
    BY <2>2, <2>3
  <2>4. CASE timer # id
    BY <2>2, <2>4
  <2> QED BY <2>3, <2>4
<1>7. TimerBeforeUnregister'
  BY DEF TimerBeforeUnregister, At
<1>8. ChallengedHasReason'
  BY DEF ChallengedHasReason, At
<1> QED BY <1>4, <1>5, <1>6, <1>7, <1>8
LEMMA RegistrarInv ==
    ASSUME IInv, NEW i \in DOMAIN reqs, NEW c \in Codes, Registrar(i, c)
    PROVE  IInv'
<1> USE DEF IInv
<1> DEFINE q == [reqs[i] EXCEPT !.answer = c]
<1>1. q \in Request /\ q.kind = reqs[i].kind /\ q.auth = reqs[i].auth
      /\ q.state = reqs[i].state /\ q.answer = c
  BY RequestFields DEF TypeOK
<1>2. reqs' = [reqs EXCEPT ![i] = q]
  BY DEF Registrar
<1> HIDE DEF q
<1>3. reqs' \in Seq(Request) /\ DOMAIN reqs' = DOMAIN reqs /\ reqs'[i] = q
      /\ \A j \in DOMAIN reqs \ {i} : reqs'[j] = reqs[j]
  BY <1>1, <1>2, UpdateType DEF TypeOK
<1>4. /\ reqs[i].state = "pending" /\ reqs[i].answer = "none"
      /\ bound' \in BOOLEAN
      /\ UNCHANGED <<flagVars, timerVars, publicKnown, appVars, thread>>
  BY DEF Registrar, TypeOK
<1> USE <1>3, <1>4 DEF flagVars, timerVars, appVars
<1>5. TypeOK'
  BY DEF TypeOK, At
<1>6. CallbacksOfReceiver' /\ RegisteredIsRefreshed'
  BY DEF CallbacksOfReceiver, RegisteredIsRefreshed, At
<1>7. TimerBeforeUnregister'
  <2>1. \A j \in DOMAIN reqs : reqs'[j].kind = reqs[j].kind
    BY <1>1
  <2> QED BY <2>1 DEF TimerBeforeUnregister, At
<1>8. ChallengedHasReason'
  <2>1. \A j \in DOMAIN reqs : /\ reqs'[j].auth = reqs[j].auth /\ reqs'[j].state = reqs[j].state
                               /\ reqs[j].answer # "none" => reqs'[j].answer = reqs[j].answer
    BY <1>1
  <2> QED BY <2>1 DEF ChallengedHasReason, At
<1> QED BY <1>5, <1>6, <1>7, <1>8

LEMMA TransactionTimeoutInv ==
    ASSUME IInv, NEW i \in DOMAIN reqs, TransactionTimeout(i)
    PROVE  IInv'
<1> USE DEF IInv
<1> DEFINE q == [reqs[i] EXCEPT !.state = "timeout"]
<1>1. q \in Request /\ q.kind = reqs[i].kind /\ q.auth = reqs[i].auth
      /\ q.answer = reqs[i].answer /\ q.state = "timeout"
  BY RequestFields DEF TypeOK
<1>2. reqs' = [reqs EXCEPT ![i] = q]
  BY DEF TransactionTimeout
<1> HIDE DEF q
<1>3. reqs' \in Seq(Request) /\ DOMAIN reqs' = DOMAIN reqs /\ reqs'[i] = q
      /\ \A j \in DOMAIN reqs \ {i} : reqs'[j] = reqs[j]
  BY <1>1, <1>2, UpdateType DEF TypeOK
<1>4. told' = "failed" /\ UNCHANGED <<flagVars, timerVars, publicKnown, bound, asked, missed, thread>>
  BY DEF TransactionTimeout
<1> USE <1>3, <1>4 DEF flagVars, timerVars
<1>5. TypeOK'
  BY DEF TypeOK, At
<1>6. CallbacksOfReceiver' /\ RegisteredIsRefreshed'
  BY DEF CallbacksOfReceiver, RegisteredIsRefreshed, At
<1>7. TimerBeforeUnregister'
  <2>1. \A j \in DOMAIN reqs : reqs'[j].kind = reqs[j].kind
    BY <1>1
  <2> QED BY <2>1 DEF TimerBeforeUnregister, At
<1>8. ChallengedHasReason'
  <2>1. \A j \in DOMAIN reqs : /\ reqs'[j].auth = reqs[j].auth /\ reqs'[j].answer = reqs[j].answer
                               /\ reqs'[j].state # reqs[j].state => reqs'[j].state # "answered"
    BY <1>1
  <2> QED BY <2>1 DEF ChallengedHasReason, At
<1> QED BY <1>5, <1>6, <1>7, <1>8

LEMMA ResponseReceivedInv ==
    ASSUME IInv, NEW i \in DOMAIN reqs, ResponseReceived(i)
    PROVE  IInv'
<1> USE DEF IInv
<1> DEFINE q == [reqs[i] EXCEPT !.state = "answered"]
           s == IF reqs[i].answer \in Success THEN "ok" ELSE "err"
           f == [Idle EXCEPT !.step = s, !.req = i]
<1>1. q \in Request /\ q.kind = reqs[i].kind /\ q.auth = reqs[i].auth
      /\ q.answer = reqs[i].answer /\ q.state = "answered"
  BY RequestFields DEF TypeOK
<1>2. reqs' = [reqs EXCEPT ![i] = q] /\ Goto(Receiver, f) /\ At(Receiver, "idle")
  BY DEF ResponseReceived
<1>3. f \in Frame /\ f.step \in {"ok", "err"} /\ f.req = i /\ f.kind = "register"
  <2>1. i \in Nat
    BY DEF TypeOK
  <2> QED BY <2>1 DEF Idle, Frame, Step, Kind
<1> HIDE DEF q, f
<1>4. reqs' \in Seq(Request) /\ DOMAIN reqs' = DOMAIN reqs /\ reqs'[i] = q
      /\ \A j \in DOMAIN reqs \ {i} : reqs'[j] = reqs[j]
  BY <1>1, <1>2, UpdateType DEF TypeOK
<1>5. /\ thread' \in [Threads -> Frame]
      /\ thread'[Receiver] = f
      /\ \A u \in Threads \ {Receiver} : thread'[u] = thread[u]
  BY <1>2, <1>3, GotoType, ThreadFacts
<1>6. UNCHANGED <<flagVars, timerVars, publicKnown, bound, appVars>>
  BY DEF ResponseReceived
<1> USE <1>4, <1>5, <1>6, ThreadFacts DEF flagVars, timerVars, appVars
<1>7. TypeOK'
  BY <1>3 DEF TypeOK, At
<1>8. CallbacksOfReceiver'
  BY DEF CallbacksOfReceiver
<1>9. RegisteredIsRefreshed'
  BY <1>2, <1>3 DEF RegisteredIsRefreshed, At
<1>10. TimerBeforeUnregister'
  <2>1. \A j \in DOMAIN reqs : reqs'[j].kind = reqs[j].kind
    BY <1>1
  <2> QED BY <1>2, <1>3, <2>1 DEF TimerBeforeUnregister, At
<1>11. ChallengedHasReason'
  <2> SUFFICES ASSUME challenged PROVE ChallengedHasReason'
    BY DEF ChallengedHasReason
  <2>0. thread[Receiver].step = "idle" /\ challenged
    BY <1>2 DEF At
  <2>1. PICK j \in DOMAIN reqs : \/ reqs[j].answer = "basic"
                                \/ /\ reqs[j].auth
                                   /\ reqs[j].state # "answered" \/ reqs[j].answer = "nat"
    BY <2>0 DEF ChallengedHasReason, At
  <2>2. reqs'[j].answer = reqs[j].answer /\ reqs'[j].auth = reqs[j].auth
        /\ (j # i => reqs'[j].state = reqs[j].state)
    BY <1>1
  <2>3. thread'[Receiver].step \in {"err", "ok"} /\ thread'[Receiver].req = i
    BY <1>3
  <2> QED BY <2>1, <2>2, <2>3 DEF ChallengedHasReason
<1> QED BY <1>7, <1>8, <1>9, <1>10, <1>11

LEMMA HandleChallengeInv == ASSUME IInv, HandleChallenge PROVE IInv'
<1> USE DEF IInv
<1> DEFINE i == thread[Receiver].req
<1>1. /\ At(Receiver, "err") /\ Answered.answer \in {"challenge", "basic"} /\ challenged' = TRUE
      /\ UNCHANGED <<registered, unregisterInvoked, timerVars, publicKnown, reqs, bound, appVars>>
  BY DEF HandleChallenge
<1>2. i \in DOMAIN reqs /\ Answered = reqs[i] /\ reqs[i].kind \in Kind
  BY <1>1, ThreadFacts, RequestFields DEF TypeOK, At, Answered
<1> HIDE DEF i
<1>3. reqs[i].kind = "unregister" => timer # None
  BY <1>2 DEF TimerBeforeUnregister
<1> USE <1>1, ThreadFacts DEF timerVars, appVars
<1>a. CASE Answered.answer = "challenge"
  <2>1. Create(Receiver, Answered.kind, TRUE)
    BY <1>a DEF HandleChallenge
  <2>2. /\ thread' \in [Threads -> Frame]
        /\ thread'[Receiver].step = "pre"
        /\ thread'[Receiver].kind = reqs[i].kind
        /\ thread'[Receiver].auth = TRUE
        /\ \A u \in Threads \ {Receiver} : thread'[u] = thread[u]
    BY <1>2, <2>1, CreateType
  <2>3. TypeOK'
    BY <2>2 DEF TypeOK, At
  <2>4. CallbacksOfReceiver'
    BY <2>2 DEF CallbacksOfReceiver
  <2>5. RegisteredIsRefreshed' /\ ChallengedHasReason'
    BY <2>2 DEF RegisteredIsRefreshed, ChallengedHasReason, At
  <2>6. TimerBeforeUnregister'
    BY <1>3, <2>2 DEF TimerBeforeUnregister, At
  <2> QED BY <2>3, <2>4, <2>5, <2>6
<1>b. CASE Answered.answer = "basic"
  <2>1. Goto(Receiver, Idle)
    BY <1>b DEF HandleChallenge
  <2>2. /\ thread' \in [Threads -> Frame]
        /\ thread'[Receiver] = Idle
        /\ \A u \in Threads \ {Receiver} : thread'[u] = thread[u]
    BY <2>1, IdleType, GotoType
  <2>3. TypeOK'
    BY <2>2, IdleType DEF TypeOK, At
  <2>4. CallbacksOfReceiver'
    BY <2>2 DEF CallbacksOfReceiver
  <2>5. RegisteredIsRefreshed'
    BY <2>2 DEF RegisteredIsRefreshed, At
  <2>6. ChallengedHasReason'
    BY <1>2, <1>b DEF ChallengedHasReason
  <2>7. TimerBeforeUnregister'
    BY <2>2, IdleType DEF TimerBeforeUnregister, At
  <2> QED BY <2>3, <2>4, <2>5, <2>6, <2>7
<1> QED BY <1>1, <1>a, <1>b

LEMMA RegisterAgainInv == ASSUME IInv, RegisterAgain PROVE IInv'
<1> USE DEF IInv
<1> DEFINE i == thread[Receiver].req
<1>1. /\ At(Receiver, "err") /\ Answered.answer = "nat" /\ publicKnown' = TRUE
      /\ UNCHANGED <<flagVars, timerVars, reqs, bound, appVars>>
  BY DEF RegisterAgain
<1>2. i \in DOMAIN reqs /\ Answered = reqs[i]
  BY <1>1, ThreadFacts DEF TypeOK, At, Answered
<1>3. /\ thread' \in [Threads -> Frame]
      /\ thread'[Receiver].step = "pre"
      /\ thread'[Receiver].kind = "register"
      /\ \A u \in Threads \ {Receiver} : thread'[u] = thread[u]
  BY CreateType, ThreadFacts DEF RegisterAgain, Kind
<1> HIDE DEF i
<1> USE <1>1, <1>3, ThreadFacts DEF flagVars, timerVars, appVars
<1>4. TypeOK'
  BY DEF TypeOK, At
<1>5. CallbacksOfReceiver'
  BY DEF CallbacksOfReceiver
<1>6. RegisteredIsRefreshed'
  BY DEF RegisteredIsRefreshed, At
<1>7. ChallengedHasReason'
  <2> SUFFICES ASSUME challenged PROVE ChallengedHasReason'
    BY DEF ChallengedHasReason
  <2>1. PICK j \in DOMAIN reqs :
          \/ reqs[j].answer = "basic"
          \/ /\ reqs[j].auth
             /\ reqs[j].state # "answered" \/ reqs[j].answer = "nat" \/ thread[Receiver].req = j
    BY DEF ChallengedHasReason, At
  <2>2. thread[Receiver].req = j => reqs[j].answer = "nat"
    BY <1>2 DEF i
  <2> QED BY <2>1, <2>2 DEF ChallengedHasReason
<1>8. TimerBeforeUnregister'
  BY DEF TimerBeforeUnregister, At
<1> QED BY <1>4, <1>5, <1>6, <1>7, <1>8

(* The actions that leave the receiver thread idle and the flag challenged *)
(* reset.                                                                  *)
LEMMA ReturnInv ==
    ASSUME IInv, Goto(Receiver, Idle), ~challenged', told' \in {"none", "success", "failed"},
           challenged' \in BOOLEAN, ~At(Receiver, "schedule"), ~At(Receiver, "dead"),
           UNCHANGED <<registered, unregisterInvoked, timerVars, publicKnown, reqs, bound, asked, missed>>
    PROVE  IInv'
<1> USE DEF IInv
<1>1. /\ thread' \in [Threads -> Frame]
      /\ thread'[Receiver] = Idle
      /\ \A u \in Threads \ {Receiver} : thread'[u] = thread[u]
  BY IdleType, GotoType, ThreadFacts
<1> USE <1>1, ThreadFacts DEF timerVars
<1>2. TypeOK'
  BY IdleType DEF TypeOK, At
<1>3. CallbacksOfReceiver'
  BY DEF CallbacksOfReceiver
<1>4. RegisteredIsRefreshed' /\ ChallengedHasReason'
  BY DEF RegisteredIsRefreshed, ChallengedHasReason, At
<1>5. TimerBeforeUnregister'
  BY IdleType DEF TimerBeforeUnregister, At
<1> QED BY <1>2, <1>3, <1>4, <1>5

LEMMA RegisterSucceededInv == ASSUME IInv, RegisterSucceeded PROVE IInv'
<1> USE DEF IInv
<1> DEFINE s == IF unregisterInvoked THEN "idle" ELSE "schedule"
<1>1. /\ At(Receiver, "ok") /\ challenged' = FALSE /\ registered' = TRUE
      /\ told' \in {"none", "success", "failed"}
      /\ UNCHANGED <<unregisterInvoked, timerVars, publicKnown, reqs, bound, asked, missed>>
  BY DEF RegisterSucceeded, TypeOK
<1>2. /\ thread' \in [Threads -> Frame]
      /\ thread'[Receiver].step = s
      /\ unregisterInvoked \/ thread'[Receiver].req = thread[Receiver].req
      /\ \A u \in Threads \ {Receiver} : thread'[u] = thread[u]
  <2>1. CASE unregisterInvoked
    BY <2>1, IdleType, GotoType, ThreadFacts DEF RegisterSucceeded
  <2>2. CASE ~unregisterInvoked
    BY <2>2, AdvanceType, ThreadFacts DEF RegisterSucceeded, Step
  <2> QED BY <2>1, <2>2
<1> USE <1>1, <1>2, ThreadFacts DEF timerVars
<1>3. TypeOK'
  BY DEF TypeOK, At
<1>4. CallbacksOfReceiver'
  BY DEF CallbacksOfReceiver
<1>5. RegisteredIsRefreshed' /\ ChallengedHasReason'
  BY DEF RegisteredIsRefreshed, ChallengedHasReason, At
<1>6. TimerBeforeUnregister'
  BY DEF TimerBeforeUnregister, At
<1> QED BY <1>3, <1>4, <1>5, <1>6

LEMMA ScheduleRefreshInv ==
    ASSUME IInv, NEW id \in Timers, ScheduleRefresh(id)
    PROVE  IInv'
<1> USE DEF IInv
<1>1. /\ At(Receiver, "schedule") /\ timer' = id /\ told' \in {"none", "success", "failed"}
      /\ UNCHANGED <<flagVars, publicKnown, reqs, bound, asked, missed>>
  BY DEF ScheduleRefresh, TypeOK
<1>2. /\ thread' \in [Threads -> Frame]
      /\ \/ thread'[Receiver].step = "dead"
         \/ thread'[Receiver].step = "idle" /\ refresh'[id] = "due"
      /\ refresh' \in [Timers -> {"none", "due", "ran", "cancelled"}]
      /\ \A u \in Threads \ {Receiver} : thread'[u] = thread[u]
  <2>1. CASE Answered.answer = "okShort"
    BY <2>1, AdvanceType, ThreadFacts DEF ScheduleRefresh, Step, TypeOK
  <2>2. CASE Answered.answer # "okShort"
    BY <2>2, IdleType, GotoType, ThreadFacts DEF ScheduleRefresh, TypeOK
  <2> QED BY <2>1, <2>2
<1> USE <1>1, <1>2, ThreadFacts DEF flagVars
<1>3. TypeOK'
  BY DEF TypeOK, At
<1>4. CallbacksOfReceiver'
  BY DEF CallbacksOfReceiver
<1>5. RegisteredIsRefreshed'
  BY DEF RegisteredIsRefreshed, At
<1>6. ChallengedHasReason'
  BY DEF ChallengedHasReason, At
<1>7. TimerBeforeUnregister'
  BY DEF TimerBeforeUnregister, At
<1> QED BY <1>3, <1>4, <1>5, <1>6, <1>7

-----------------------------------------------------------------------------
(***************************************************************************)
(* The invariant, and what follows from it                                 *)
(***************************************************************************)

LEMMA NextInv == IInv /\ [Next]_vars => IInv'
<1> SUFFICES ASSUME IInv, [Next]_vars PROVE IInv'
  OBVIOUS
<1>1. CASE Register \/ Unregister
  BY <1>1, RegisterInv, UnregisterInv
<1>2. ASSUME NEW t \in Threads, CreateRequest(t)
      PROVE  IInv'
  BY <1>2, PreProcessRegisterInv, InvokeUnregisterInv, StartInv DEF CreateRequest
<1>3. CASE \E id \in Timers : RefreshFires(id)
  BY <1>3, RefreshFiresInv
<1>4. ASSUME NEW i \in DOMAIN reqs, ResponseReceived(i) \/ TransactionTimeout(i)
      PROVE  IInv'
  BY <1>4, ResponseReceivedInv, TransactionTimeoutInv
<1>5. ASSUME NEW i \in DOMAIN reqs, NEW c \in Codes, Registrar(i, c)
      PROVE  IInv'
  BY <1>5, RegistrarInv
<1>6. CASE HandleResponse
  <2>1. CASE HandleChallenge
    BY <2>1, HandleChallengeInv
  <2>2. CASE RegisterAgain
    BY <2>2, RegisterAgainInv
  <2>3. CASE RegisterFailed
    BY <2>3, ReturnInv DEF RegisterFailed, NotifyListener, At
  <2>4. CASE UnregisterSucceeded
    BY <2>4, ReturnInv DEF UnregisterSucceeded, At
  <2>5. CASE SuccessWithoutContact
    <3>1. told' \in {"none", "success", "failed"} /\ asked' = asked /\ missed' = missed
      BY <2>5 DEF SuccessWithoutContact, appVars, IInv, TypeOK
    <3> QED BY <2>5, <3>1, ReturnInv DEF SuccessWithoutContact, At
  <2>6. CASE RegisterSucceeded
    BY <2>6, RegisterSucceededInv
  <2>7. CASE \E id \in Timers : ScheduleRefresh(id)
    BY <2>7, ScheduleRefreshInv
  <2> QED BY <1>6, <2>1, <2>2, <2>3, <2>4, <2>5, <2>6, <2>7 DEF HandleResponse
<1>7. CASE UNCHANGED vars
  BY <1>7 DEF vars, flagVars, timerVars, appVars, IInv, TypeOK, CallbacksOfReceiver,
              RegisteredIsRefreshed, TimerBeforeUnregister, ChallengedHasReason, At
<1> QED BY <1>1, <1>2, <1>3, <1>4, <1>5, <1>6, <1>7 DEF Next

THEOREM Inductive == Spec => []IInv
BY InitInv, NextInv, PTL DEF Spec

(* The variables of Registration keep their types.                         *)
THEOREM TypeCorrect == Spec => []TypeOK
<1>1. IInv => TypeOK
  BY DEF IInv
<1> QED BY <1>1, Inductive, PTL

(* RegisterHandler: an agent that takes itself for registered has a timer  *)
(* that will refresh it, or is doing so.                                   *)
THEOREM RefreshKept == Spec => []RegisteredIsRefreshed
<1>1. IInv => RegisteredIsRefreshed
  BY DEF IInv
<1> QED BY <1>1, Inductive, PTL

(* RegisterHandler.unregister never meets a null timer.                    *)
THEOREM TimerExists == Spec => []UnregisterHasTimer
<1>1. IInv => UnregisterHasTimer
  BY DEF IInv, TimerBeforeUnregister, UnregisterHasTimer
<1> QED BY <1>1, Inductive, PTL

(* RegisterHandler.challenged is set only for one of its four reasons.     *)
THEOREM ChallengedExplained == Spec => []ChallengedHasReason
<1>1. IInv => ChallengedHasReason
  BY DEF IInv
<1> QED BY <1>1, Inductive, PTL

-----------------------------------------------------------------------------
(***************************************************************************)
(* An unregister that meets no other request ends a registration.  What can*)
(* still lead to a refresh timer is counted: the timers that are due, the  *)
(* frames and the requests of register and refresh, the answer that the    *)
(* receiver thread handles.  Each registration that was begun accounts for *)
(* one of them, no step makes one more, and unregister cancels one.        *)
(***************************************************************************)

Sent == {i \in DOMAIN reqs : Open(i) /\ reqs[i].kind # "unregister"}
Waiting == {t \in Threads : At(t, "pre") /\ thread[t].kind # "unregister"}
Handling ==
    IF thread[Receiver].step \in {"err", "ok", "schedule"} /\ Answered.kind # "unregister" THEN 1 ELSE 0
Chances == Cardinality(Due) + Cardinality(Waiting) + Cardinality(Sent) + Handling

(* The registrations begun: their requests, and the frames that will create*)
(* one.                                                                    *)
Starting == {t \in Threads : At(t, "pre") /\ thread[t].kind = "register" /\ ~thread[t].auth}
Begun == Cardinality(Registrations) + Cardinality(Starting)

Finite ==
    /\ IsFiniteSet(Due) /\ IsFiniteSet(Waiting) /\ IsFiniteSet(Sent)
    /\ IsFiniteSet(Registrations) /\ IsFiniteSet(Starting)

Counted == Chances <= Begun
Lost == Chances < Begun

(* A frame past preProcessRegister has a request of its own that was not   *)
(* sent yet, a callback one that was answered.                             *)
Framed ==
    /\ thread[App].auth = FALSE
    /\ \A t \in Threads :
          /\ thread[t].step \in {"invoke", "start"} => reqs[thread[t].req].state = "built"
          /\ thread[t].step \in {"err", "ok", "schedule"} => reqs[thread[t].req].state = "answered"
          /\ At(t, "schedule") => reqs[thread[t].req].kind # "unregister"
          /\ At(t, "invoke") => t = App
          /\ t \in Timers /\ At(t, "pre") => thread[t].kind = "refresh"
          /\ At(t, "pre") /\ thread[t].kind = "unregister" /\ ~thread[t].auth => t = App
    /\ \A t, u \in Threads :
          t # u /\ thread[t].step \in {"invoke", "start"} /\ thread[u].step \in {"invoke", "start"} =>
              thread[t].req # thread[u].req

(* RegisteredIsRefreshed, for an unregister that was invoked too: a success*)
(* that creates no timer loses a chance.                                   *)
Tended ==
    registered =>
        \/ At(Receiver, "schedule") \/ At(Receiver, "dead")
        \/ Lost
        \/ timer \in Timers /\ (refresh[timer] = "due" \/ At(timer, "pre"))

Clean == asked = "unregister" /\ ~missed
Asking == thread[App].step \in {"pre", "invoke"}

(* Until the interceptor of an unregister that met nothing runs, the timer *)
(* is due and nothing else happens; then a chance is lost.                 *)
Withdrawn == Clean => Lost \/ (Asking /\ timer \in Timers /\ refresh[timer] = "due")
Alone ==
    Clean /\ Asking =>
        /\ thread[App].kind = "unregister"
        /\ \A t \in Threads \ {App} : At(t, "idle")
        /\ \A i \in DOMAIN reqs : Open(i) => At(App, "invoke") /\ i = thread[App].req

(* With one registration the last request is of the unregister, and no     *)
(* other is open.                                                          *)
Final ==
    Clean /\ ~At(App, "pre") /\ Begun <= 1 =>
        /\ reqs # <<>>
        /\ reqs[Len(reqs)].kind = "unregister"
        /\ reqs[Len(reqs)].answer \in Success => ~bound
        /\ \A i \in DOMAIN reqs :
              Open(i) => i = Len(reqs) /\ thread[Receiver].step \notin {"pre", "err", "ok", "schedule"}

Sticks == Finite /\ Counted /\ Framed /\ Tended /\ Withdrawn /\ Alone /\ Final

(* A step that makes no chance without a registration.                     *)
Spares == Finite' /\ Chances' + Begun <= Chances + Begun' /\ Begun <= Begun'

(* What one timer, one thread and one request count for.                   *)
Num(S, x) == IF x \in S THEN 1 ELSE 0
Here(id, t, i) == Num(Due, id) + Num(Waiting, t) + Num(Sent, i) + Handling
Root(t, i) == Num(Registrations, i) + Num(Starting, t)

LEMMA Changed ==
    ASSUME NEW S, NEW T, NEW x, IsFiniteSet(S), T \ {x} = S \ {x}
    PROVE  /\ IsFiniteSet(T) /\ Cardinality(S) \in Nat /\ Cardinality(T) \in Nat
           /\ Cardinality(T) = Cardinality(S) + Num(T, x) - Num(S, x)
<1> USE DEF Num
<1> DEFINE R == S \ {x}
<1>1. /\ IsFiniteSet(R)
      /\ Cardinality(R) = IF x \in S THEN Cardinality(S) - 1 ELSE Cardinality(S)
  BY FS_RemoveElement
<1>2. /\ IsFiniteSet(R \cup {x}) /\ Cardinality(R \cup {x}) = Cardinality(R) + 1
  BY <1>1, FS_AddElement
<1>3. Cardinality(S) \in Nat /\ Cardinality(R) \in Nat
  BY <1>1, FS_CardinalityType
<1>4. CASE x \in T
  <2>1. T = R \cup {x}
    BY <1>4
  <2> HIDE DEF R
  <2> QED BY <1>1, <1>2, <1>3, <1>4, <2>1
<1>5. CASE x \notin T
  <2>1. T = R
    BY <1>5
  <2> HIDE DEF R
  <2> QED BY <1>1, <1>2, <1>3, <1>5, <2>1
<1> QED BY <1>4, <1>5

LEMMA NumberTypes ==
    Finite =>
        /\ Cardinality(Due) \in Nat /\ Cardinality(Waiting) \in Nat /\ Cardinality(Sent) \in Nat
        /\ Cardinality(Registrations) \in Nat /\ Cardinality(Starting) \in Nat
        /\ Handling \in {0, 1} /\ Chances \in Nat /\ Begun \in Nat
<1> SUFFICES ASSUME Finite
             PROVE  /\ Cardinality(Due) \in Nat /\ Cardinality(Waiting) \in Nat /\ Cardinality(Sent) \in Nat
                    /\ Cardinality(Registrations) \in Nat /\ Cardinality(Starting) \in Nat
                    /\ Handling \in {0, 1} /\ Chances \in Nat /\ Begun \in Nat
  OBVIOUS
<1>1. /\ Cardinality(Due) \in Nat /\ Cardinality(Waiting) \in Nat /\ Cardinality(Sent) \in Nat
      /\ Cardinality(Registrations) \in Nat /\ Cardinality(Starting) \in Nat
  BY FS_CardinalityType DEF Finite
<1>2. Handling \in {0, 1}
  BY DEF Handling
<1> QED BY <1>1, <1>2 DEF Chances, Begun

LEMMA Balance ==
    ASSUME NEW a \in Nat, NEW b \in Nat, NEW c \in Nat, NEW d \in Nat, c + b <= a + d
    PROVE  (a <= b => c <= d) /\ (a < b => c < d)
OBVIOUS

(* The numbers before and after a step compare as they must.               *)
LEMMA SparesFacts ==
    ASSUME Finite, Spares
    PROVE  /\ Finite'
           /\ Counted => Counted'
           /\ Lost => Lost'
           /\ Begun' <= 1 => Begun <= 1
<1>1. Chances \in Nat /\ Begun \in Nat
  BY NumberTypes
<1>2. Finite'
  BY DEF Spares
<1>3. Chances' \in Nat /\ Begun' \in Nat
  <2>1. /\ Cardinality(Due') \in Nat /\ Cardinality(Waiting') \in Nat /\ Cardinality(Sent') \in Nat
        /\ Cardinality(Registrations') \in Nat /\ Cardinality(Starting') \in Nat
    BY <1>2, FS_CardinalityType DEF Finite
  <2>2. Handling' \in {0, 1}
    BY DEF Handling
  <2> QED BY <2>1, <2>2 DEF Chances, Begun
<1>4. Chances' + Begun <= Chances + Begun' /\ Begun <= Begun'
  BY DEF Spares
<1>5. Counted => Counted'
  BY <1>1, <1>3, <1>4, Balance DEF Counted
<1>6. Lost => Lost'
  BY <1>1, <1>3, <1>4, Balance DEF Lost
<1>7. Begun' <= 1 => Begun <= 1
  BY <1>1, <1>3, <1>4
<1> QED BY <1>2, <1>5, <1>6, <1>7

LEMMA Sums ==
    ASSUME NEW a \in Nat, NEW b \in Nat, NEW c \in Nat, NEW d \in Nat,
           NEW p \in Int, NEW q \in Int, NEW r \in Int, NEW s \in Int,
           c = a + q - p, d = b + s - r
    PROVE  /\ q + r <= p + s => c + b <= a + d
           /\ r <= s => b <= d
           /\ q + r < p + s => (a <= b => c < d)
OBVIOUS

(* A step that changes one timer, the frame of one thread and one request, *)
(* or adds one.                                                            *)
LEMMA Moved ==
    ASSUME Finite,
           NEW id, \A k \in Timers \ {id} : refresh'[k] = refresh[k],
           NEW t \in Threads, \A u \in Threads \ {t} : thread'[u] = thread[u],
           NEW i, DOMAIN reqs' \ {i} = DOMAIN reqs \ {i}, \A j \in DOMAIN reqs \ {i} : reqs'[j] = reqs[j]
    PROVE  /\ Here(id, t, i)' + Root(t, i) <= Here(id, t, i) + Root(t, i)' /\ Root(t, i) <= Root(t, i)' => Spares
           /\ Here(id, t, i)' + Root(t, i) < Here(id, t, i) + Root(t, i)' => (Counted => Lost')
           /\ Begun' = Begun + Root(t, i)' - Root(t, i)
<1>1. /\ Waiting' \ {t} = Waiting \ {t} /\ Starting' \ {t} = Starting \ {t}
      /\ Sent' \ {i} = Sent \ {i} /\ Registrations' \ {i} = Registrations \ {i}
      /\ Due' \ {id} = Due \ {id}
  <2>1. Waiting' \ {t} = Waiting \ {t} /\ Starting' \ {t} = Starting \ {t}
    BY DEF Waiting, Starting, At
  <2>2. Sent' \ {i} = Sent \ {i} /\ Registrations' \ {i} = Registrations \ {i}
    BY DEF Sent, Registrations, Open
  <2>3. Due' \ {id} = Due \ {id}
    BY DEF Due
  <2> QED BY <2>1, <2>2, <2>3
<1>2. /\ IsFiniteSet(Due') /\ Cardinality(Due) \in Nat /\ Cardinality(Due') \in Nat
      /\ Cardinality(Due') = Cardinality(Due) + Num(Due', id) - Num(Due, id)
  BY <1>1, Changed DEF Finite
<1>3. /\ IsFiniteSet(Waiting') /\ Cardinality(Waiting) \in Nat /\ Cardinality(Waiting') \in Nat
      /\ Cardinality(Waiting') = Cardinality(Waiting) + Num(Waiting', t) - Num(Waiting, t)
  BY <1>1, Changed DEF Finite
<1>4. /\ IsFiniteSet(Sent') /\ Cardinality(Sent) \in Nat /\ Cardinality(Sent') \in Nat
      /\ Cardinality(Sent') = Cardinality(Sent) + Num(Sent', i) - Num(Sent, i)
  BY <1>1, Changed DEF Finite
<1>5. /\ IsFiniteSet(Registrations') /\ Cardinality(Registrations) \in Nat /\ Cardinality(Registrations') \in Nat
      /\ Cardinality(Registrations') = Cardinality(Registrations) + Num(Registrations', i) - Num(Registrations, i)
  BY <1>1, Changed DEF Finite
<1>6. /\ IsFiniteSet(Starting') /\ Cardinality(Starting) \in Nat /\ Cardinality(Starting') \in Nat
      /\ Cardinality(Starting') = Cardinality(Starting) + Num(Starting', t) - Num(Starting, t)
  BY <1>1, Changed DEF Finite
<1>7. \A S, x : Num(S, x) \in {0, 1}
  BY DEF Num
<1>8. Handling \in {0, 1} /\ Handling' \in {0, 1}
  BY DEF Handling
<1>9. /\ Here(id, t, i) \in Int /\ Here(id, t, i)' \in Int /\ Root(t, i) \in Int /\ Root(t, i)' \in Int
      /\ Chances \in Nat /\ Chances' \in Nat /\ Begun \in Nat /\ Begun' \in Nat
      /\ Chances' = Chances + Here(id, t, i)' - Here(id, t, i)
      /\ Begun' = Begun + Root(t, i)' - Root(t, i)
  <2>1. /\ Here(id, t, i)' = Num(Due', id) + Num(Waiting', t) + Num(Sent', i) + Handling'
        /\ Root(t, i)' = Num(Registrations', i) + Num(Starting', t)
    BY DEF Here, Root, Num
  <2>2. /\ Num(Due, id) \in Nat /\ Num(Waiting, t) \in Nat /\ Num(Sent, i) \in Nat
        /\ Num(Due', id) \in Nat /\ Num(Waiting', t) \in Nat /\ Num(Sent', i) \in Nat
        /\ Num(Registrations, i) \in Nat /\ Num(Starting, t) \in Nat
        /\ Num(Registrations', i) \in Nat /\ Num(Starting', t) \in Nat
        /\ Handling \in Nat /\ Handling' \in Nat
    BY <1>7, <1>8
  <2>3. /\ Here(id, t, i) \in Int /\ Here(id, t, i)' \in Int /\ Root(t, i) \in Int /\ Root(t, i)' \in Int
    BY <2>1, <2>2 DEF Here, Root
  <2>4. /\ Chances \in Nat /\ Chances' \in Nat /\ Begun \in Nat /\ Begun' \in Nat
    BY <2>2, <1>2, <1>3, <1>4, <1>5, <1>6 DEF Chances, Begun
  <2>5. Chances' = Chances + Here(id, t, i)' - Here(id, t, i)
    BY <2>1, <2>2, <1>2, <1>3, <1>4 DEF Chances, Here
  <2>6. Begun' = Begun + Root(t, i)' - Root(t, i)
    BY <2>1, <2>2, <1>5, <1>6 DEF Begun, Root
  <2> QED BY <2>3, <2>4, <2>5, <2>6
<1>10. Finite'
  BY <1>2, <1>3, <1>4, <1>5, <1>6 DEF Finite
<1>11. /\ Here(id, t, i)' + Root(t, i) <= Here(id, t, i) + Root(t, i)' => Chances' + Begun <= Chances + Begun'
       /\ Root(t, i) <= Root(t, i)' => Begun <= Begun'
       /\ Here(id, t, i)' + Root(t, i) < Here(id, t, i) + Root(t, i)' => (Chances <= Begun => Chances' < Begun')
  BY <1>9, Sums
<1> QED BY <1>9, <1>10, <1>11 DEF Spares, Counted, Lost

(* One registration, and a chance lost: there is none.                     *)
LEMMA Spent ==
    ASSUME Finite, Lost, Begun <= 1
    PROVE  Begun = 1 /\ Due = {} /\ Waiting = {} /\ Sent = {} /\ Handling = 0
<1>1. Chances = 0 /\ Begun = 1
  BY NumberTypes DEF Lost
<1>2. /\ Cardinality(Due) = 0 /\ Cardinality(Waiting) = 0 /\ Cardinality(Sent) = 0
      /\ Handling = 0
  BY <1>1, NumberTypes DEF Chances
<1> QED BY <1>1, <1>2, FS_EmptySet DEF Finite

LEMMA RegisterSticks == ASSUME IInv, Sticks, Register PROVE Sticks'
<1>1. /\ thread' \in [Threads -> Frame]
      /\ thread'[App].step = "pre" /\ thread'[App].kind = "register" /\ thread'[App].auth = FALSE
      /\ \A u \in Threads \ {App} : thread'[u] = thread[u]
  BY CreateType, ThreadFacts DEF Register, Kind, IInv
<1>2. /\ At(App, "idle") /\ asked' = "register"
      /\ UNCHANGED <<registered, unregisterInvoked, challenged, timer, refresh, publicKnown, reqs, bound>>
  BY DEF Register, flagVars, timerVars
<1>3. App \in Threads /\ App # Receiver /\ App \notin Timers /\ Receiver \in Threads /\ Timers \subseteq Threads
  BY ThreadFacts
<1>4. Spares
  <2>1. /\ Due' = Due /\ Sent' = Sent /\ Registrations' = Registrations /\ Handling' = Handling
    BY <1>1, <1>2, <1>3 DEF Due, Sent, Registrations, Handling, Open, Answered
  <2>2. App \notin Waiting /\ App \in Waiting' /\ App \notin Starting /\ App \in Starting'
    BY <1>1, <1>2, <1>3 DEF Waiting, Starting, At
  <2>3. Here(None, App, 0)' + Root(App, 0) <= Here(None, App, 0) + Root(App, 0)' /\ Root(App, 0) <= Root(App, 0)'
    BY <2>1, <2>2 DEF Here, Root, Num, Handling
  <2> QED BY <1>1, <1>2, <1>3, <2>3, Moved DEF Sticks
<1>5. Finite' /\ Counted' /\ (Lost => Lost')
  BY <1>4, SparesFacts DEF Sticks
<1>6. Framed'
  BY <1>1, <1>2, <1>3 DEF Sticks, Framed, At
<1>7. Tended'
  BY <1>1, <1>2, <1>3, <1>5 DEF Sticks, Tended, At
<1>8. Withdrawn' /\ Alone' /\ Final'
  BY <1>2 DEF Withdrawn, Alone, Final, Clean
<1> QED BY <1>5, <1>6, <1>7, <1>8 DEF Sticks

LEMMA UnregisterKeepsSticks == ASSUME IInv, Sticks, Unregister PROVE Sticks'
<1>1. /\ At(App, "idle") /\ asked' = "unregister" /\ missed' = (~registered \/ ~Quiescent)
      /\ UNCHANGED <<registered, unregisterInvoked, challenged, timer, refresh, publicKnown, reqs, bound>>
  BY DEF Unregister, flagVars, timerVars
<1>2. App \in Threads /\ App # Receiver /\ App \notin Timers /\ Receiver \in Threads /\ Timers \subseteq Threads
  BY ThreadFacts
<1>3. /\ thread' \in [Threads -> Frame]
      /\ registered => /\ thread'[App].step = "pre" /\ thread'[App].kind = "unregister"
      /\ ~registered => thread' = thread
      /\ thread'[App].auth = FALSE
      /\ \A u \in Threads \ {App} : thread'[u] = thread[u]
  <2>1. CASE registered
    BY <2>1, <1>2, CreateType DEF Unregister, Kind, IInv
  <2>2. CASE ~registered
    BY <2>2 DEF Unregister, IInv, TypeOK, Sticks, Framed
  <2> QED BY <2>1, <2>2
<1>4. Spares
  <2>1. /\ Due' = Due /\ Sent' = Sent /\ Registrations' = Registrations /\ Handling' = Handling
    BY <1>1, <1>2, <1>3 DEF Due, Sent, Registrations, Handling, Open, Answered
  <2>2. App \notin Waiting /\ App \notin Waiting' /\ App \notin Starting /\ App \notin Starting'
    BY <1>1, <1>2, <1>3 DEF Waiting, Starting, At
  <2>3. Here(None, App, 0)' + Root(App, 0) <= Here(None, App, 0) + Root(App, 0)' /\ Root(App, 0) <= Root(App, 0)'
    BY <2>1, <2>2 DEF Here, Root, Num, Handling
  <2> QED BY <1>1, <1>2, <1>3, <2>3, Moved DEF Sticks
<1>5. Finite' /\ Counted' /\ (Lost => Lost')
  BY <1>4, SparesFacts DEF Sticks
<1>6. Framed'
  BY <1>1, <1>2, <1>3 DEF Sticks, Framed, At
<1>7. Tended'
  BY <1>1, <1>2, <1>3, <1>5 DEF Sticks, Tended, At
<1>8. Clean' => registered /\ Quiescent /\ thread'[App].step = "pre"
  BY <1>1, <1>3 DEF Clean
<1>9. Withdrawn'
  BY <1>1, <1>2, <1>3, <1>5, <1>7, <1>8 DEF Sticks, Tended, Withdrawn, Asking, Quiescent, At, Threads
<1>10. Alone'
  BY <1>1, <1>3, <1>8 DEF Alone, Quiescent, Open, At
<1>11. Final'
  BY <1>8 DEF Final, At
<1> QED BY <1>5, <1>6, <1>7, <1>9, <1>10, <1>11 DEF Sticks

LEMMA PreProcessRegisterSticks ==
    ASSUME IInv, Sticks, NEW t \in Threads, PreProcessRegister(t)
    PROVE  Sticks'
<1> DEFINE q == [kind |-> thread[t].kind, auth |-> thread[t].auth,
                 public |-> publicKnown, answer |-> "none", state |-> "built"]
<1>1. thread[t] \in Frame /\ reqs \in Seq(Request) /\ publicKnown \in BOOLEAN /\ None \notin Timers
  BY RegistrationAssumption DEF IInv, TypeOK
<1>2. q \in Request /\ q.kind = thread[t].kind /\ q.auth = thread[t].auth /\ q.state = "built"
      /\ q.answer = "none"
  BY <1>1 DEF Request, Frame
<1>3. PICK n : n = Len(reqs) + 1
  OBVIOUS
<1>4. n \in Nat /\ n \notin DOMAIN reqs
  BY <1>1, <1>3
<1>5. /\ reqs' = Append(reqs, q)
      /\ Goto(t, [thread[t] EXCEPT !.step = NextStep(t), !.req = n])
      /\ At(t, "pre") /\ ~At(Receiver, "schedule")
      /\ registered' = FALSE
      /\ UNCHANGED <<timer, refresh, bound, asked, missed>>
  BY <1>3 DEF PreProcessRegister, Unlocked, timerVars, appVars
<1>6. NextStep(t) \in {"invoke", "start"} /\ (NextStep(t) = "invoke" => thread[t].kind = "unregister" /\ ~thread[t].auth)
      /\ (thread[t].kind = "unregister" /\ ~thread[t].auth => NextStep(t) = "invoke")
  BY DEF NextStep
<1> HIDE DEF q
<1>7. /\ reqs' \in Seq(Request)
      /\ DOMAIN reqs' = DOMAIN reqs \cup {n}
      /\ reqs'[n] = q
      /\ \A j \in DOMAIN reqs : reqs'[j] = reqs[j]
  BY <1>1, <1>2, <1>3, <1>5, AppendType
<1>8. Len(reqs') = n /\ reqs' # <<>>
  BY <1>1, <1>2, <1>3, <1>5
<1>9. /\ thread' \in [Threads -> Frame]
      /\ thread'[t].step = NextStep(t) /\ thread'[t].req = n
      /\ thread'[t].kind = thread[t].kind /\ thread'[t].auth = thread[t].auth
      /\ \A u \in Threads \ {t} : thread'[u] = thread[u]
  <2>1. /\ [thread[t] EXCEPT !.step = NextStep(t), !.req = n] \in Frame
        /\ [thread[t] EXCEPT !.step = NextStep(t), !.req = n].step = NextStep(t)
        /\ [thread[t] EXCEPT !.step = NextStep(t), !.req = n].req = n
        /\ [thread[t] EXCEPT !.step = NextStep(t), !.req = n].kind = thread[t].kind
        /\ [thread[t] EXCEPT !.step = NextStep(t), !.req = n].auth = thread[t].auth
    BY <1>1, <1>4, <1>6 DEF Frame, Step
  <2> QED BY <2>1, <1>5, GotoType DEF IInv
<1>10. App \in Threads /\ App # Receiver /\ App \notin Timers /\ Receiver \in Threads /\ Threads = {App, Receiver} \cup Timers
       /\ Receiver \notin Timers
  BY ThreadFacts DEF Threads
<1>11. \A u \in Threads : thread[u].step \in {"invoke", "start", "err", "ok", "schedule"} => thread[u].req \in DOMAIN reqs
  BY DEF IInv, TypeOK
<1>12. Spares
  <2>1. Due' = Due
    BY <1>5 DEF Due
  <2>2. Handling' = Handling
    <3>1. CASE t = Receiver
      BY <3>1, <1>5, <1>6, <1>9 DEF Handling, At
    <3>2. CASE t # Receiver
      BY <3>2, <1>7, <1>9, <1>10, <1>11 DEF Handling, Answered
    <3> QED BY <3>1, <3>2
  <2>3. n \notin Sent /\ n \notin Registrations /\ t \notin Waiting' /\ t \notin Starting'
    BY <1>4, <1>6, <1>9 DEF Sent, Registrations, Waiting, Starting, At
  <2>4. /\ n \in Sent' <=> t \in Waiting
        /\ n \in Registrations' <=> t \in Starting
    BY <1>2, <1>5, <1>7 DEF Sent, Registrations, Waiting, Starting, At, Open
  <2>5. Here(None, t, n)' + Root(t, n) <= Here(None, t, n) + Root(t, n)' /\ Root(t, n) <= Root(t, n)'
    BY <2>1, <2>2, <2>3, <2>4 DEF Here, Root, Num, Handling
  <2> QED BY <1>5, <1>7, <1>9, <2>5, Moved DEF Sticks
<1>13. Finite' /\ Counted' /\ (Lost => Lost') /\ (Begun' <= 1 => Begun <= 1)
  BY <1>12, SparesFacts DEF Sticks
<1>14. Framed'
  <2>1. thread'[App].auth = FALSE
    BY <1>9, <1>10 DEF Sticks, Framed
  <2>2. ASSUME NEW u \in Threads
        PROVE  /\ thread'[u].step \in {"invoke", "start"} => reqs'[thread'[u].req].state = "built"
               /\ thread'[u].step \in {"err", "ok", "schedule"} => reqs'[thread'[u].req].state = "answered"
               /\ thread'[u].step = "schedule" => reqs'[thread'[u].req].kind # "unregister"
               /\ thread'[u].step = "invoke" => u = App
               /\ u \in Timers /\ thread'[u].step = "pre" => thread'[u].kind = "refresh"
               /\ thread'[u].step = "pre" /\ thread'[u].kind = "unregister" /\ ~thread'[u].auth => u = App
    <3>1. CASE u = t
      <4>1. thread[t].kind = "unregister" /\ ~thread[t].auth => t = App
        BY <1>5, <1>10 DEF Sticks, Framed, At
      <4> QED BY <3>1, <4>1, <1>2, <1>6, <1>7, <1>9
    <3>2. CASE u # t
      BY <3>2, <1>7, <1>9, <1>11 DEF Sticks, Framed, At
    <3> QED BY <3>1, <3>2
  <2>3. ASSUME NEW u \in Threads, NEW v \in Threads, u # v, thread'[u].step \in {"invoke", "start"},
               thread'[v].step \in {"invoke", "start"}
        PROVE  thread'[u].req # thread'[v].req
    <3>1. CASE u = t
      BY <3>1, <2>3, <1>4, <1>9, <1>11
    <3>2. CASE v = t
      BY <3>2, <2>3, <1>4, <1>9, <1>11
    <3>3. CASE u # t /\ v # t
      BY <3>3, <2>3, <1>9 DEF Sticks, Framed
    <3> QED BY <3>1, <3>2, <3>3
  <2> QED BY <2>1, <2>2, <2>3 DEF Framed, At
<1>15. Tended'
  BY <1>5 DEF Tended
<1> USE <1>5, <1>13
<1>16. Withdrawn'
  <2> SUFFICES ASSUME Clean, ~Lost PROVE Asking' /\ timer \in Timers /\ refresh[timer] = "due"
    BY DEF Withdrawn, Clean
  <2>1. Asking /\ timer \in Timers /\ refresh[timer] = "due"
    BY DEF Sticks, Withdrawn
  <2>2. t = App /\ thread[App].kind = "unregister" /\ ~thread[App].auth
    BY <2>1, <1>10 DEF Sticks, Alone, At, Framed
  <2> QED BY <2>1, <2>2, <1>6, <1>9 DEF Asking
<1>17. Alone'
  <2> SUFFICES ASSUME Clean, Asking'
               PROVE  /\ thread'[App].kind = "unregister"
                      /\ \A u \in Threads \ {App} : thread'[u].step = "idle"
                      /\ \A i \in DOMAIN reqs' : Open(i)' => thread'[App].step = "invoke" /\ i = thread'[App].req
    BY DEF Alone, Clean, At
  <2>1. Asking
    BY <1>5, <1>9, <1>10 DEF Asking, At
  <2>2. t = App /\ thread[App].kind = "unregister" /\ ~thread[App].auth
        /\ (\A u \in Threads \ {App} : thread[u].step = "idle") /\ \A i \in DOMAIN reqs : ~Open(i)
    BY <2>1, <1>10 DEF Sticks, Alone, At, Framed
  <2> QED BY <2>2, <1>6, <1>7, <1>9 DEF Open
<1>18. Final'
  <2> SUFFICES ASSUME Clean, thread'[App].step # "pre", Begun <= 1
               PROVE  /\ reqs' # <<>>
                      /\ reqs'[Len(reqs')].kind = "unregister"
                      /\ reqs'[Len(reqs')].answer \in Success => ~bound'
                      /\ \A i \in DOMAIN reqs' :
                            Open(i)' => i = Len(reqs') /\ thread'[Receiver].step \notin {"pre", "err", "ok", "schedule"}
    BY DEF Final, Clean, At
  <2>1. \A i \in DOMAIN reqs : ~Open(i)
    <3>1. CASE Asking
      BY <3>1, <1>10 DEF Sticks, Alone, At
    <3>2. CASE ~Asking
      <4>1. Lost /\ ~At(App, "pre")
        BY <3>2 DEF Sticks, Withdrawn, Asking, At
      <4>2. t \notin Waiting
        BY <4>1, Spent DEF Sticks
      <4>3. t = Receiver
        BY <4>1, <4>2, <1>10 DEF Waiting, At, Sticks, Framed
      <4> QED BY <4>1, <4>3 DEF Sticks, Final, At
    <3> QED BY <3>1, <3>2
  <2>2. thread[t].kind = "unregister"
    <3>1. CASE Asking
      BY <3>1, <1>10 DEF Sticks, Alone, At
    <3>2. CASE ~Asking
      <4>1. Lost /\ ~At(App, "pre")
        BY <3>2 DEF Sticks, Withdrawn, Asking, At
      <4>2. t \notin Waiting
        BY <4>1, Spent DEF Sticks
      <4> QED BY <4>2 DEF Waiting
    <3> QED BY <3>1, <3>2
  <2>3. thread'[Receiver].step \notin {"pre", "err", "ok", "schedule"}
    <3>1. CASE Asking
      BY <3>1, <1>9, <1>10 DEF Sticks, Alone, At
    <3>2. CASE ~Asking
      <4>1. Lost /\ ~At(App, "pre")
        BY <3>2 DEF Sticks, Withdrawn, Asking, At
      <4>2. t \notin Waiting
        BY <4>1, Spent DEF Sticks
      <4>3. t = Receiver
        BY <4>1, <4>2, <1>10 DEF Waiting, At, Sticks, Framed
      <4> QED BY <4>3, <1>6, <1>9
    <3> QED BY <3>1, <3>2
  <2> QED BY <2>1, <2>2, <2>3, <1>2, <1>7, <1>8 DEF Open, Success
<1> QED BY <1>13, <1>14, <1>15, <1>16, <1>17, <1>18 DEF Sticks

LEMMA InvokeUnregisterSticks ==
    ASSUME IInv, Sticks, NEW t \in Threads, InvokeUnregister(t)
    PROVE  Sticks'
<1>1. t = App /\ At(App, "invoke") /\ timer # None
  BY DEF InvokeUnregister, Sticks, Framed
<1>2. App \in Threads /\ App # Receiver /\ App \notin Timers /\ Receiver \in Threads /\ Timers \subseteq Threads
  BY ThreadFacts
<1>3. /\ thread' \in [Threads -> Frame]
      /\ thread'[App].step = "start" /\ thread'[App].req = thread[App].req
      /\ thread'[App].auth = thread[App].auth
      /\ \A u \in Threads \ {App} : thread'[u] = thread[u]
  BY <1>1, AdvanceType DEF InvokeUnregister, Step, IInv
<1>4. PICK id \in Timers : id = timer
  BY <1>1 DEF IInv, TypeOK
<1>5. UNCHANGED <<registered, timer, reqs, bound, asked, missed>>
  BY DEF InvokeUnregister, appVars
<1>6. /\ refresh' \in [Timers -> {"none", "due", "ran", "cancelled"}]
      /\ \A k \in Timers \ {id} : refresh'[k] = refresh[k]
      /\ refresh[id] = "due" => refresh'[id] = "cancelled"
      /\ refresh[id] # "due" => refresh'[id] = refresh[id]
  BY <1>4 DEF InvokeUnregister, IInv, TypeOK
<1>7. /\ Sent' = Sent /\ Registrations' = Registrations /\ Handling' = Handling
  BY <1>2, <1>3, <1>5 DEF Sent, Registrations, Handling, Open, Answered
<1>8. App \notin Waiting /\ App \notin Waiting' /\ App \notin Starting /\ App \notin Starting'
  BY <1>1, <1>3 DEF Waiting, Starting, At
<1>9. id \notin Due'
  BY <1>6 DEF Due
<1>10. Handling \in {0, 1}
  BY DEF Handling
<1>11. Root(App, 0)' = Root(App, 0) /\ Root(App, 0) \in Nat /\ Here(id, App, 0) \in Nat /\ Here(id, App, 0)' \in Nat
  BY <1>7, <1>8, <1>9, <1>10 DEF Here, Root, Num
<1>12. /\ Here(id, App, 0)' <= Here(id, App, 0)
       /\ id \in Due => Here(id, App, 0)' < Here(id, App, 0)
  BY <1>7, <1>8, <1>9, <1>10 DEF Here, Num
<1>13. Here(id, App, 0)' + Root(App, 0) <= Here(id, App, 0) + Root(App, 0)' /\ Root(App, 0) <= Root(App, 0)'
  BY <1>11, <1>12
<1>14. id \in Due => Here(id, App, 0)' + Root(App, 0) < Here(id, App, 0) + Root(App, 0)'
  BY <1>11, <1>12
<1>15. Spares /\ (id \in Due => Lost')
  BY <1>2, <1>3, <1>5, <1>6, <1>13, <1>14, Moved DEF Sticks
<1>16. Finite' /\ Counted' /\ (Lost => Lost') /\ (Begun' <= 1 => Begun <= 1)
  BY <1>15, SparesFacts DEF Sticks
<1>17. Framed'
  BY <1>1, <1>2, <1>3, <1>5 DEF Sticks, Framed, At
<1>18. Tended'
  BY <1>2, <1>3, <1>4, <1>5, <1>6, <1>15, <1>16 DEF Sticks, Tended, At, Due
<1>19. Withdrawn'
  BY <1>4, <1>5, <1>15, <1>16 DEF Sticks, Withdrawn, Clean, Due
<1>20. Alone'
  BY <1>3 DEF Alone, Asking
<1>21. Final'
  <2> SUFFICES ASSUME Clean, Begun <= 1
               PROVE  /\ reqs # <<>>
                      /\ reqs[Len(reqs)].kind = "unregister"
                      /\ reqs[Len(reqs)].answer \in Success => ~bound
                      /\ \A i \in DOMAIN reqs :
                            Open(i) => i = Len(reqs) /\ thread[Receiver].step \notin {"pre", "err", "ok", "schedule"}
    BY <1>2, <1>3, <1>5, <1>16 DEF Final, Clean, At, Open
  <2> QED BY <1>1 DEF Sticks, Final, At
<1> QED BY <1>16, <1>17, <1>18, <1>19, <1>20, <1>21 DEF Sticks

LEMMA StartSticks ==
    ASSUME IInv, Sticks, NEW t \in Threads, Start(t)
    PROVE  Sticks'
<1>1. PICK i \in DOMAIN reqs : i = thread[t].req
  BY DEF Start, At, IInv, TypeOK
<1>2. At(t, "start") /\ reqs[i].state = "built" /\ reqs \in Seq(Request)
  BY <1>1 DEF Start, Sticks, Framed, At, IInv, TypeOK
<1> DEFINE q == [reqs[i] EXCEPT !.state = "pending"]
<1>3. q \in Request /\ q.kind = reqs[i].kind /\ q.auth = reqs[i].auth
      /\ q.answer = reqs[i].answer /\ q.state = "pending"
  BY <1>2, RequestFields
<1>4. reqs' = [reqs EXCEPT ![i] = q]
  BY <1>1 DEF Start
<1> HIDE DEF q
<1>5. reqs' \in Seq(Request) /\ DOMAIN reqs' = DOMAIN reqs /\ reqs'[i] = q
      /\ \A j \in DOMAIN reqs \ {i} : reqs'[j] = reqs[j]
  BY <1>2, <1>3, <1>4, UpdateType
<1>6. Len(reqs') = Len(reqs) /\ (reqs # <<>> => reqs' # <<>>)
  BY <1>2, <1>5
<1>7. /\ thread' \in [Threads -> Frame]
      /\ thread'[t] = Idle
      /\ \A u \in Threads \ {t} : thread'[u] = thread[u]
  BY IdleType, GotoType DEF Start, IInv
<1>8. Idle.step = "idle" /\ Idle.auth = FALSE
  BY DEF Idle
<1>9. UNCHANGED <<registered, timer, refresh, bound, asked, missed>>
  BY DEF Start, flagVars, timerVars, appVars
<1>10. App \in Threads /\ App # Receiver /\ App \notin Timers /\ Receiver \in Threads /\ Timers \subseteq Threads
  BY ThreadFacts
<1>11. \A j \in DOMAIN reqs : reqs'[j].kind = reqs[j].kind /\ reqs'[j].auth = reqs[j].auth
          /\ reqs'[j].answer = reqs[j].answer /\ (Open(j)' <=> Open(j))
          /\ (j # i => reqs'[j].state = reqs[j].state)
  BY <1>2, <1>3, <1>5 DEF Open
<1>12. \A u \in Threads : thread[u].step \in {"invoke", "start", "err", "ok", "schedule"} => thread[u].req \in DOMAIN reqs
  BY DEF IInv, TypeOK
<1>13. Spares
  <2>1. Due' = Due /\ Sent' = Sent /\ Registrations' = Registrations
    BY <1>5, <1>9, <1>11 DEF Due, Sent, Registrations
  <2>2. Handling' = Handling
    BY <1>2, <1>7, <1>8, <1>10, <1>11, <1>12 DEF Handling, Answered, At
  <2>3. t \notin Waiting /\ t \notin Waiting' /\ t \notin Starting /\ t \notin Starting'
    BY <1>2, <1>7, <1>8 DEF Waiting, Starting, At
  <2>4. Here(None, t, i)' + Root(t, i) <= Here(None, t, i) + Root(t, i)' /\ Root(t, i) <= Root(t, i)'
    BY <2>1, <2>2, <2>3 DEF Here, Root, Num, Handling
  <2> QED BY <1>5, <1>7, <1>9, <2>4, Moved DEF Sticks
<1>14. Finite' /\ Counted' /\ (Lost => Lost') /\ (Begun' <= 1 => Begun <= 1)
  BY <1>13, SparesFacts DEF Sticks
<1>15. Framed'
  <2>1. thread'[App].auth = FALSE
    BY <1>7, <1>8, <1>10 DEF Sticks, Framed
  <2>2. ASSUME NEW u \in Threads
        PROVE  /\ thread'[u].step \in {"invoke", "start"} => reqs'[thread'[u].req].state = "built"
               /\ thread'[u].step \in {"err", "ok", "schedule"} => reqs'[thread'[u].req].state = "answered"
               /\ thread'[u].step = "schedule" => reqs'[thread'[u].req].kind # "unregister"
               /\ thread'[u].step = "invoke" => u = App
               /\ u \in Timers /\ thread'[u].step = "pre" => thread'[u].kind = "refresh"
               /\ thread'[u].step = "pre" /\ thread'[u].kind = "unregister" /\ ~thread'[u].auth => u = App
    <3>1. CASE u = t
      BY <3>1, <1>7, <1>8
    <3>2. CASE u # t
      <4>1. thread[u].step \in {"invoke", "start", "err", "ok", "schedule"} => thread[u].req # i
        BY <3>2, <1>1, <1>2 DEF Sticks, Framed, At
      <4> QED BY <3>2, <4>1, <1>7, <1>11, <1>12 DEF Sticks, Framed, At
    <3> QED BY <3>1, <3>2
  <2>3. \A u, v \in Threads :
          u # v /\ thread'[u].step \in {"invoke", "start"} /\ thread'[v].step \in {"invoke", "start"} =>
              thread'[u].req # thread'[v].req
    BY <1>7, <1>8 DEF Sticks, Framed
  <2> QED BY <2>1, <2>2, <2>3 DEF Framed, At
<1>16. Tended'
  BY <1>2, <1>7, <1>9, <1>10, <1>14 DEF Sticks, Tended, At
<1>17. ~(Clean /\ Asking)
  BY <1>2, <1>10 DEF Sticks, Alone, Asking, At
<1>18. Clean' => Clean /\ Lost'
  BY <1>9, <1>14, <1>17 DEF Sticks, Withdrawn, Clean
<1>19. Withdrawn'
  BY <1>18 DEF Withdrawn
<1>20. Clean' => ~Asking'
  BY <1>7, <1>8, <1>17, <1>18, <1>10 DEF Asking
<1>21. Alone'
  BY <1>20 DEF Alone
<1>22. Final'
  <2> SUFFICES ASSUME Clean, Begun <= 1
               PROVE  /\ reqs' # <<>>
                      /\ reqs'[Len(reqs')].kind = "unregister"
                      /\ reqs'[Len(reqs')].answer \in Success => ~bound'
                      /\ \A j \in DOMAIN reqs' :
                            Open(j)' => j = Len(reqs') /\ thread'[Receiver].step \notin {"pre", "err", "ok", "schedule"}
    BY <1>14, <1>18 DEF Final
  <2>1. ~At(App, "pre")
    BY <1>17 DEF Asking, At
  <2>2. /\ reqs # <<>>
        /\ reqs[Len(reqs)].kind = "unregister"
        /\ reqs[Len(reqs)].answer \in Success => ~bound
        /\ \A j \in DOMAIN reqs :
              Open(j) => j = Len(reqs) /\ thread[Receiver].step \notin {"pre", "err", "ok", "schedule"}
    BY <2>1 DEF Sticks, Final
  <2>3. Len(reqs) \in DOMAIN reqs
    BY <2>2, <1>2
  <2> QED BY <2>2, <2>3, <1>5, <1>6, <1>7, <1>8, <1>9, <1>10, <1>11
<1> QED BY <1>14, <1>15, <1>16, <1>19, <1>21, <1>22 DEF Sticks

LEMMA RefreshFiresSticks ==
    ASSUME IInv, Sticks, NEW id \in Timers, RefreshFires(id)
    PROVE  Sticks'
<1>1. /\ refresh[id] = "due"
      /\ missed' = (missed \/ ~At(App, "idle"))
      /\ UNCHANGED <<registered, timer, reqs, bound, asked>>
  BY DEF RefreshFires, flagVars
<1>2. /\ refresh' \in [Timers -> {"none", "due", "ran", "cancelled"}]
      /\ refresh'[id] = "ran"
      /\ \A k \in Timers \ {id} : refresh'[k] = refresh[k]
  BY DEF RefreshFires, IInv, TypeOK
<1>3. App \in Threads /\ App # Receiver /\ App \notin Timers /\ Receiver \in Threads /\ Timers \subseteq Threads
      /\ id # Receiver /\ id # App
  BY ThreadFacts
<1>4. /\ thread' \in [Threads -> Frame]
      /\ thread'[id].step = "pre" /\ thread'[id].kind = "refresh" /\ thread'[id].auth = FALSE
      /\ \A u \in Threads \ {id} : thread'[u] = thread[u]
  BY <1>3, CreateType DEF RefreshFires, Kind, IInv
<1>5. Spares
  <2>1. /\ Sent' = Sent /\ Registrations' = Registrations /\ Handling' = Handling
    BY <1>1, <1>3, <1>4 DEF Sent, Registrations, Handling, Open, Answered
  <2>2. id \in Due /\ id \notin Due'
    BY <1>1, <1>2 DEF Due
  <2>3. id \notin Starting /\ id \notin Starting' /\ id \in Waiting'
    BY <1>3, <1>4 DEF Starting, Waiting, At, Sticks, Framed
  <2>4. Here(id, id, 0)' + Root(id, 0) <= Here(id, id, 0) + Root(id, 0)' /\ Root(id, 0) <= Root(id, 0)'
    BY <2>1, <2>2, <2>3 DEF Here, Root, Num, Handling
  <2> QED BY <1>1, <1>2, <1>3, <1>4, <2>4, Moved DEF Sticks
<1>6. Finite' /\ Counted' /\ (Lost => Lost') /\ (Begun' <= 1 => Begun <= 1)
  BY <1>5, SparesFacts DEF Sticks
<1>7. Framed'
  BY <1>1, <1>3, <1>4 DEF Sticks, Framed, At
<1>8. Tended'
  BY <1>1, <1>2, <1>3, <1>4, <1>6 DEF Sticks, Tended, At
<1>9. Clean' => Clean /\ At(App, "idle") /\ ~Asking /\ ~Asking'
  BY <1>1, <1>3, <1>4 DEF Clean, Asking, At
<1>10. Clean' => Lost
  BY <1>9 DEF Sticks, Withdrawn
<1>11. Withdrawn' /\ Alone'
  BY <1>6, <1>9, <1>10 DEF Withdrawn, Alone
<1>12. Final'
  <2>1. Begun <= 1 /\ Lost => id \notin Due
    BY Spent DEF Sticks
  <2>2. id \in Due
    BY <1>1 DEF Due
  <2> QED BY <1>6, <1>10, <2>1, <2>2 DEF Final
<1> QED BY <1>6, <1>7, <1>8, <1>11, <1>12 DEF Sticks

(* A step that keeps the frames and changes one request that was sent.     *)
LEMMA RegistrarSticks ==
    ASSUME IInv, Sticks, NEW i \in DOMAIN reqs, NEW c \in Codes, Registrar(i, c)
    PROVE  Sticks'
<1> DEFINE q == [reqs[i] EXCEPT !.answer = c]
<1>1. /\ reqs[i].state = "pending" /\ reqs[i].answer = "none" /\ reqs \in Seq(Request)
      /\ bound' = IF c \in Success THEN reqs[i].kind # "unregister" ELSE bound
      /\ UNCHANGED <<registered, timer, refresh, asked, missed, thread>>
  BY DEF Registrar, flagVars, timerVars, appVars, IInv, TypeOK
<1>2. q \in Request /\ q.kind = reqs[i].kind /\ q.auth = reqs[i].auth
      /\ q.state = reqs[i].state /\ q.answer = c
  BY <1>1, RequestFields
<1>3. reqs' = [reqs EXCEPT ![i] = q]
  BY DEF Registrar
<1> HIDE DEF q
<1>4. reqs' \in Seq(Request) /\ DOMAIN reqs' = DOMAIN reqs /\ reqs'[i] = q
      /\ \A j \in DOMAIN reqs \ {i} : reqs'[j] = reqs[j]
  BY <1>1, <1>2, <1>3, UpdateType
<1>5. Len(reqs') = Len(reqs) /\ (reqs # <<>> => reqs' # <<>>)
  BY <1>1, <1>4
<1>6. \A j \in DOMAIN reqs : reqs'[j].kind = reqs[j].kind /\ reqs'[j].auth = reqs[j].auth
          /\ reqs'[j].state = reqs[j].state /\ (Open(j)' <=> Open(j))
  BY <1>2, <1>4 DEF Open
<1>7. \A u \in Threads : thread[u].step \in {"invoke", "start", "err", "ok", "schedule"} => thread[u].req \in DOMAIN reqs
  BY DEF IInv, TypeOK
<1>8. Receiver \in Threads
  BY ThreadFacts
<1>9. Spares
  <2>1. Due' = Due /\ Sent' = Sent /\ Registrations' = Registrations /\ Waiting' = Waiting /\ Starting' = Starting
    BY <1>1, <1>4, <1>6 DEF Due, Sent, Registrations, Waiting, Starting, At
  <2>2. Handling' = Handling
    BY <1>1, <1>6, <1>7, <1>8 DEF Handling, Answered
  <2>3. Here(None, Receiver, i)' + Root(Receiver, i) <= Here(None, Receiver, i) + Root(Receiver, i)'
        /\ Root(Receiver, i) <= Root(Receiver, i)'
    BY <2>1, <2>2 DEF Here, Root, Num, Handling
  <2> QED BY <1>1, <1>4, <1>8, <2>3, Moved DEF Sticks
<1>10. Finite' /\ Counted' /\ (Lost => Lost') /\ (Begun' <= 1 => Begun <= 1)
  BY <1>9, SparesFacts DEF Sticks
<1>11. Framed'
  BY <1>1, <1>6, <1>7 DEF Sticks, Framed, At
<1>12. Tended' /\ Withdrawn'
  BY <1>1, <1>10 DEF Sticks, Tended, Withdrawn, Clean, Asking, At
<1>13. Alone'
  BY <1>1, <1>4, <1>6 DEF Sticks, Alone, Clean, Asking, At
<1>14. Final'
  <2> SUFFICES ASSUME Clean, ~At(App, "pre"), Begun <= 1
               PROVE  /\ reqs' # <<>>
                      /\ reqs'[Len(reqs')].kind = "unregister"
                      /\ reqs'[Len(reqs')].answer \in Success => ~bound'
                      /\ \A j \in DOMAIN reqs' :
                            Open(j)' => j = Len(reqs') /\ thread[Receiver].step \notin {"pre", "err", "ok", "schedule"}
    BY <1>1, <1>10 DEF Final, Clean, At
  <2>1. /\ reqs # <<>>
        /\ reqs[Len(reqs)].kind = "unregister"
        /\ \A j \in DOMAIN reqs :
              Open(j) => j = Len(reqs) /\ thread[Receiver].step \notin {"pre", "err", "ok", "schedule"}
    BY DEF Sticks, Final
  <2>2. i = Len(reqs)
    BY <1>1, <2>1 DEF Open
  <2>3. reqs'[i].answer = c
    BY <1>2, <1>4
  <2>4. c \in Success => ~bound'
    BY <1>1, <2>1, <2>2
  <2> QED BY <2>1, <2>2, <2>3, <2>4, <1>4, <1>5, <1>6
<1> QED BY <1>10, <1>11, <1>12, <1>13, <1>14 DEF Sticks

LEMMA TransactionTimeoutSticks ==
    ASSUME IInv, Sticks, NEW i \in DOMAIN reqs, TransactionTimeout(i)
    PROVE  Sticks'
<1> DEFINE q == [reqs[i] EXCEPT !.state = "timeout"]
<1>1. /\ reqs[i].state = "pending" /\ reqs \in Seq(Request)
      /\ UNCHANGED <<registered, timer, refresh, bound, asked, missed, thread>>
  BY DEF TransactionTimeout, flagVars, timerVars, IInv, TypeOK
<1>2. q \in Request /\ q.kind = reqs[i].kind /\ q.auth = reqs[i].auth
      /\ q.state = "timeout" /\ q.answer = reqs[i].answer
  BY <1>1, RequestFields
<1>3. reqs' = [reqs EXCEPT ![i] = q]
  BY DEF TransactionTimeout
<1> HIDE DEF q
<1>4. reqs' \in Seq(Request) /\ DOMAIN reqs' = DOMAIN reqs /\ reqs'[i] = q
      /\ \A j \in DOMAIN reqs \ {i} : reqs'[j] = reqs[j]
  BY <1>1, <1>2, <1>3, UpdateType
<1>5. Len(reqs') = Len(reqs) /\ (reqs # <<>> => reqs' # <<>>)
  BY <1>1, <1>4
<1>6. \A j \in DOMAIN reqs : reqs'[j].kind = reqs[j].kind /\ reqs'[j].auth = reqs[j].auth
          /\ reqs'[j].answer = reqs[j].answer /\ (j # i => reqs'[j].state = reqs[j].state) /\ (Open(j)' => Open(j))
          /\ reqs[i].state \notin {"built", "answered"}
  BY <1>1, <1>2, <1>4 DEF Open
<1>7. \A u \in Threads : thread[u].step \in {"invoke", "start", "err", "ok", "schedule"} =>
          thread[u].req \in DOMAIN reqs /\ thread[u].req # i
  BY <1>6 DEF IInv, TypeOK, Sticks, Framed
<1>8. Receiver \in Threads
  BY ThreadFacts
<1>9. Spares
  <2>1. Due' = Due /\ Registrations' = Registrations /\ Waiting' = Waiting /\ Starting' = Starting
    BY <1>1, <1>4, <1>6 DEF Due, Registrations, Waiting, Starting, At
  <2>2. Handling' = Handling
    BY <1>1, <1>6, <1>7, <1>8 DEF Handling, Answered
  <2>3. i \notin Sent'
    BY <1>2, <1>4 DEF Sent, Open
  <2>4. Here(None, Receiver, i)' + Root(Receiver, i) <= Here(None, Receiver, i) + Root(Receiver, i)'
        /\ Root(Receiver, i) <= Root(Receiver, i)'
    BY <2>1, <2>2, <2>3 DEF Here, Root, Num, Handling
  <2> QED BY <1>1, <1>4, <1>8, <2>4, Moved DEF Sticks
<1>10. Finite' /\ Counted' /\ (Lost => Lost') /\ (Begun' <= 1 => Begun <= 1)
  BY <1>9, SparesFacts DEF Sticks
<1>11. Framed'
  BY <1>1, <1>6, <1>7 DEF Sticks, Framed, At
<1>12. Tended' /\ Withdrawn'
  BY <1>1, <1>10 DEF Sticks, Tended, Withdrawn, Clean, Asking, At
<1>13. Alone'
  BY <1>1, <1>4, <1>6 DEF Sticks, Alone, Clean, Asking, At
<1>14. Final'
  <2> SUFFICES ASSUME Clean, ~At(App, "pre"), Begun <= 1
               PROVE  /\ reqs' # <<>>
                      /\ reqs'[Len(reqs')].kind = "unregister"
                      /\ reqs'[Len(reqs')].answer \in Success => ~bound'
                      /\ \A j \in DOMAIN reqs' :
                            Open(j)' => j = Len(reqs') /\ thread[Receiver].step \notin {"pre", "err", "ok", "schedule"}
    BY <1>1, <1>10 DEF Final, Clean, At
  <2>1. /\ reqs # <<>>
        /\ reqs[Len(reqs)].kind = "unregister"
        /\ reqs[Len(reqs)].answer \in Success => ~bound
        /\ \A j \in DOMAIN reqs :
              Open(j) => j = Len(reqs) /\ thread[Receiver].step \notin {"pre", "err", "ok", "schedule"}
    BY DEF Sticks, Final
  <2>2. Len(reqs) \in DOMAIN reqs
    BY <1>1, <2>1
  <2> QED BY <2>1, <2>2, <1>1, <1>4, <1>5, <1>6
<1> QED BY <1>10, <1>11, <1>12, <1>13, <1>14 DEF Sticks

LEMMA ResponseReceivedSticks ==
    ASSUME IInv, Sticks, NEW i \in DOMAIN reqs, ResponseReceived(i)
    PROVE  Sticks'
<1> DEFINE q == [reqs[i] EXCEPT !.state = "answered"]
           s == IF reqs[i].answer \in Success THEN "ok" ELSE "err"
           f == [Idle EXCEPT !.step = s, !.req = i]
<1>1. /\ reqs[i].state = "pending" /\ reqs \in Seq(Request) /\ At(Receiver, "idle")
      /\ reqs' = [reqs EXCEPT ![i] = q] /\ Goto(Receiver, f)
      /\ UNCHANGED <<registered, timer, refresh, bound, asked, missed>>
  BY DEF ResponseReceived, flagVars, timerVars, appVars, IInv, TypeOK
<1>2. q \in Request /\ q.kind = reqs[i].kind /\ q.auth = reqs[i].auth
      /\ q.state = "answered" /\ q.answer = reqs[i].answer
  BY <1>1, RequestFields
<1>3. f \in Frame /\ f.step \in {"ok", "err"} /\ f.req = i
  <2>1. i \in Nat
    BY <1>1
  <2> QED BY <2>1 DEF Idle, Frame, Step, Kind
<1> HIDE DEF q, f
<1>4. reqs' \in Seq(Request) /\ DOMAIN reqs' = DOMAIN reqs /\ reqs'[i] = q
      /\ \A j \in DOMAIN reqs \ {i} : reqs'[j] = reqs[j]
  BY <1>1, <1>2, UpdateType
<1>5. Len(reqs') = Len(reqs) /\ (reqs # <<>> => reqs' # <<>>)
  BY <1>1, <1>4
<1>6. \A j \in DOMAIN reqs : reqs'[j].kind = reqs[j].kind /\ reqs'[j].auth = reqs[j].auth
          /\ reqs'[j].answer = reqs[j].answer /\ (j # i => reqs'[j].state = reqs[j].state)
          /\ (Open(j)' => Open(j) /\ j # i)
          /\ reqs[i].state \notin {"built", "answered"} /\ reqs'[i].state = "answered"
  BY <1>1, <1>2, <1>4 DEF Open
<1>7. \A u \in Threads : thread[u].step \in {"invoke", "start", "err", "ok", "schedule"} =>
          thread[u].req \in DOMAIN reqs /\ thread[u].req # i
  BY <1>6 DEF IInv, TypeOK, Sticks, Framed
<1>8. App \in Threads /\ App # Receiver /\ App \notin Timers /\ Receiver \in Threads /\ Timers \subseteq Threads
      /\ Receiver \notin Timers
  BY ThreadFacts
<1>9. /\ thread' \in [Threads -> Frame]
      /\ thread'[Receiver].step \in {"ok", "err"} /\ thread'[Receiver].req = i
      /\ \A u \in Threads \ {Receiver} : thread'[u] = thread[u]
  BY <1>1, <1>3, <1>8, GotoType DEF IInv
<1>10. Spares
  <2>1. Due' = Due /\ Registrations' = Registrations
    BY <1>1, <1>4, <1>6 DEF Due, Registrations
  <2>2. Receiver \notin Waiting /\ Receiver \notin Waiting' /\ Receiver \notin Starting /\ Receiver \notin Starting'
    BY <1>1, <1>9 DEF Waiting, Starting, At
  <2>3. Handling' = (IF reqs[i].kind # "unregister" THEN 1 ELSE 0) /\ Handling = 0
    BY <1>1, <1>6, <1>9 DEF Handling, Answered, At
  <2>4. i \notin Sent' /\ (i \in Sent <=> reqs[i].kind # "unregister")
    BY <1>1, <1>6 DEF Sent, Open
  <2>5. Here(None, Receiver, i)' + Root(Receiver, i) <= Here(None, Receiver, i) + Root(Receiver, i)'
        /\ Root(Receiver, i) <= Root(Receiver, i)'
    BY <2>1, <2>2, <2>3, <2>4 DEF Here, Root, Num
  <2> QED BY <1>1, <1>4, <1>8, <1>9, <2>5, Moved DEF Sticks
<1>11. Finite' /\ Counted' /\ (Lost => Lost') /\ (Begun' <= 1 => Begun <= 1)
  BY <1>10, SparesFacts DEF Sticks
<1>12. Framed'
  <2>1. thread'[App].auth = FALSE
    BY <1>8, <1>9 DEF Sticks, Framed
  <2>2. ASSUME NEW u \in Threads
        PROVE  /\ thread'[u].step \in {"invoke", "start"} => reqs'[thread'[u].req].state = "built"
               /\ thread'[u].step \in {"err", "ok", "schedule"} => reqs'[thread'[u].req].state = "answered"
               /\ thread'[u].step = "schedule" => reqs'[thread'[u].req].kind # "unregister"
               /\ thread'[u].step = "invoke" => u = App
               /\ u \in Timers /\ thread'[u].step = "pre" => thread'[u].kind = "refresh"
               /\ thread'[u].step = "pre" /\ thread'[u].kind = "unregister" /\ ~thread'[u].auth => u = App
    <3>1. CASE u = Receiver
      BY <3>1, <1>6, <1>9
    <3>2. CASE u # Receiver
      BY <3>2, <1>6, <1>7, <1>9 DEF Sticks, Framed, At
    <3> QED BY <3>1, <3>2
  <2>3. \A u, v \in Threads :
          u # v /\ thread'[u].step \in {"invoke", "start"} /\ thread'[v].step \in {"invoke", "start"} =>
              thread'[u].req # thread'[v].req
    BY <1>9 DEF Sticks, Framed
  <2> QED BY <2>1, <2>2, <2>3 DEF Framed, At
<1>13. Tended'
  BY <1>1, <1>8, <1>9, <1>11 DEF Sticks, Tended, At
<1>14. Withdrawn'
  BY <1>1, <1>8, <1>9, <1>11 DEF Sticks, Withdrawn, Clean, Asking
<1>15. ~(Clean /\ Asking)
  <2>1. Open(i)
    BY <1>1 DEF Open
  <2>2. At(App, "invoke") => thread[App].req # i
    BY <1>7, <1>8 DEF At
  <2> QED BY <2>1, <2>2 DEF Sticks, Alone
<1>16. ~(Clean' /\ Asking')
  BY <1>1, <1>8, <1>9, <1>15 DEF Clean, Asking
<1>17. Final'
  <2> SUFFICES ASSUME Clean, ~At(App, "pre"), Begun <= 1
               PROVE  /\ reqs' # <<>>
                      /\ reqs'[Len(reqs')].kind = "unregister"
                      /\ reqs'[Len(reqs')].answer \in Success => ~bound'
                      /\ \A j \in DOMAIN reqs' : ~Open(j)'
    BY <1>1, <1>8, <1>9, <1>11 DEF Final, Clean, At
  <2>1. /\ reqs # <<>>
        /\ reqs[Len(reqs)].kind = "unregister"
        /\ reqs[Len(reqs)].answer \in Success => ~bound
        /\ \A j \in DOMAIN reqs : Open(j) => j = Len(reqs)
    BY DEF Sticks, Final
  <2>2. Len(reqs) \in DOMAIN reqs
    BY <1>1, <2>1
  <2>3. i = Len(reqs)
    BY <1>1, <2>1 DEF Open
  <2> QED BY <2>1, <2>2, <2>3, <1>1, <1>4, <1>5, <1>6
<1> QED BY <1>11, <1>12, <1>13, <1>14, <1>16, <1>17 DEF Sticks, Alone

(* The callbacks of the handler: the requests stay as they are, and the    *)
(* receiver thread creates a request, waits for the timer or returns.      *)
LEMMA CallbackSticks ==
    ASSUME IInv, Sticks, thread[Receiver].step \in {"err", "ok", "schedule"},
           \A u \in Threads \ {Receiver} : thread'[u] = thread[u],
           thread'[Receiver].step \in {"pre", "idle", "schedule", "dead"},
           thread'[Receiver].step = "pre" /\ thread'[Receiver].kind = "unregister" => thread'[Receiver].auth,
           thread'[Receiver].step = "schedule" =>
               /\ thread'[Receiver].req = thread[Receiver].req
               /\ reqs[thread[Receiver].req].kind # "unregister",
           UNCHANGED <<reqs, bound, asked, missed>>,
           Spares, Tended'
    PROVE  Sticks'
<1>1. App \in Threads /\ App # Receiver /\ App \notin Timers /\ Receiver \in Threads /\ Timers \subseteq Threads
      /\ Receiver \notin Timers
  BY ThreadFacts
<1>2. Finite' /\ Counted' /\ (Lost => Lost') /\ (Begun' <= 1 => Begun <= 1)
  BY SparesFacts DEF Sticks
<1>3. Framed'
  <2>1. thread'[App].auth = FALSE
    BY <1>1 DEF Sticks, Framed
  <2>2. ASSUME NEW u \in Threads
        PROVE  /\ thread'[u].step \in {"invoke", "start"} => reqs[thread'[u].req].state = "built"
               /\ thread'[u].step \in {"err", "ok", "schedule"} => reqs[thread'[u].req].state = "answered"
               /\ thread'[u].step = "schedule" => reqs[thread'[u].req].kind # "unregister"
               /\ thread'[u].step = "invoke" => u = App
               /\ u \in Timers /\ thread'[u].step = "pre" => thread'[u].kind = "refresh"
               /\ thread'[u].step = "pre" /\ thread'[u].kind = "unregister" /\ ~thread'[u].auth => u = App
    <3>1. CASE u = Receiver
      BY <3>1, <1>1 DEF Sticks, Framed
    <3>2. CASE u # Receiver
      BY <3>2 DEF Sticks, Framed, At
    <3> QED BY <3>1, <3>2
  <2>3. \A u, v \in Threads :
          u # v /\ thread'[u].step \in {"invoke", "start"} /\ thread'[v].step \in {"invoke", "start"} =>
              thread'[u].req # thread'[v].req
    BY DEF Sticks, Framed
  <2> QED BY <2>1, <2>2, <2>3 DEF Framed, At
<1>4. ~(Clean /\ Asking)
  BY <1>1 DEF Sticks, Alone, At
<1>5. (Clean' <=> Clean) /\ (Asking' <=> Asking) /\ thread'[App] = thread[App]
  BY <1>1 DEF Clean, Asking
<1>6. Withdrawn'
  BY <1>2, <1>4, <1>5 DEF Sticks, Withdrawn
<1>7. Alone'
  BY <1>4, <1>5 DEF Alone
<1>8. Final'
  <2> SUFFICES ASSUME Clean, ~At(App, "pre"), Begun <= 1
               PROVE  /\ reqs # <<>>
                      /\ reqs[Len(reqs)].kind = "unregister"
                      /\ reqs[Len(reqs)].answer \in Success => ~bound
                      /\ \A j \in DOMAIN reqs : ~Open(j)
    BY <1>2, <1>5 DEF Final, At, Open
  <2> QED BY DEF Sticks, Final
<1> QED BY <1>2, <1>3, <1>6, <1>7, <1>8 DEF Sticks

(* Such a step counts for what the receiver thread had in hand.            *)
LEMMA CallbackSpares ==
    ASSUME IInv, Sticks, thread[Receiver].step \in {"err", "ok", "schedule"},
           \A u \in Threads \ {Receiver} : thread'[u] = thread[u],
           NEW id, \A k \in Timers \ {id} : refresh'[k] = refresh[k],
           UNCHANGED reqs,
           \/ Receiver \in Starting' /\ id \notin Due'
           \/ Receiver \notin Starting' /\ Handling' + Num(Waiting', Receiver) + Num(Due', id) <= Handling + Num(Due, id)
    PROVE  /\ Spares
           /\ Receiver \notin Starting' /\ Handling' + Num(Waiting', Receiver) + Num(Due', id) < Handling + Num(Due, id)
                => Lost'
<1>1. Receiver \in Threads
  BY ThreadFacts
<1>2. Sent' = Sent /\ Registrations' = Registrations
  BY DEF Sent, Registrations, Open
<1>3. Receiver \notin Waiting /\ Receiver \notin Starting
  BY DEF Waiting, Starting, At
<1>4. Handling \in {0, 1} /\ Handling' \in {0, 1}
  BY DEF Handling
<1>5. Receiver \in Starting' => Receiver \in Waiting' /\ Handling' = 0
  BY DEF Starting, Waiting, Handling, At
<1>6. /\ Here(id, Receiver, 0) = Num(Due, id) + Num(Sent, 0) + Handling
      /\ Here(id, Receiver, 0)' = Num(Due', id) + Num(Waiting', Receiver) + Num(Sent, 0) + Handling'
      /\ Root(Receiver, 0) = Num(Registrations, 0)
      /\ Root(Receiver, 0)' = Num(Registrations, 0) + Num(Starting', Receiver)
  BY <1>2, <1>3, <1>4 DEF Here, Root, Num
<1>7. /\ Num(Due, id) \in {0, 1} /\ Num(Due', id) \in {0, 1} /\ Num(Sent, 0) \in {0, 1}
      /\ Num(Waiting', Receiver) \in {0, 1} /\ Num(Registrations, 0) \in {0, 1}
      /\ Receiver \in Starting' => Num(Starting', Receiver) = 1 /\ Num(Waiting', Receiver) = 1
      /\ Receiver \notin Starting' => Num(Starting', Receiver) = 0
      /\ id \notin Due' => Num(Due', id) = 0
  BY <1>5 DEF Num
<1>8. /\ Here(id, Receiver, 0)' + Root(Receiver, 0) <= Here(id, Receiver, 0) + Root(Receiver, 0)'
      /\ Root(Receiver, 0) <= Root(Receiver, 0)'
  <2>1. CASE Receiver \in Starting' /\ id \notin Due'
    BY <2>1, <1>4, <1>5, <1>6, <1>7
  <2>2. CASE /\ Receiver \notin Starting'
             /\ Handling' + Num(Waiting', Receiver) + Num(Due', id) <= Handling + Num(Due, id)
    BY <2>2, <1>4, <1>6, <1>7
  <2> QED BY <2>1, <2>2
<1>9. Receiver \notin Starting' /\ Handling' + Num(Waiting', Receiver) + Num(Due', id) < Handling + Num(Due, id)
        => Here(id, Receiver, 0)' + Root(Receiver, 0) < Here(id, Receiver, 0) + Root(Receiver, 0)'
  BY <1>4, <1>6, <1>7
<1> QED BY <1>1, <1>8, <1>9, Moved DEF Sticks

LEMMA HandleChallengeSticks == ASSUME IInv, Sticks, HandleChallenge PROVE Sticks'
<1>1. /\ At(Receiver, "err") /\ Answered.answer \in {"challenge", "basic"}
      /\ UNCHANGED <<registered, timer, refresh, reqs, bound, asked, missed>>
  BY DEF HandleChallenge, timerVars, appVars
<1>2. Receiver \in Threads /\ Receiver \notin Timers /\ Timers \subseteq Threads
  BY ThreadFacts
<1>3. Answered.kind \in Kind
  BY <1>1, <1>2, RequestFields DEF IInv, TypeOK, At, Answered
<1>4. /\ \A u \in Threads \ {Receiver} : thread'[u] = thread[u]
      /\ \/ thread'[Receiver].step = "pre" /\ thread'[Receiver].kind = Answered.kind /\ thread'[Receiver].auth = TRUE
         \/ thread'[Receiver].step = "idle"
  <2>1. CASE Answered.answer = "challenge"
    BY <2>1, <1>2, <1>3, CreateType DEF HandleChallenge, IInv
  <2>2. CASE Answered.answer = "basic"
    BY <2>2, <1>2, IdleType, GotoType DEF HandleChallenge, IInv
  <2> QED BY <2>1, <2>2, <1>1
<1>5. Receiver \notin Starting' /\ Due' = Due
  BY <1>1, <1>4 DEF Starting, At, Due
<1>6. Handling' = 0 /\ Num(Waiting', Receiver) <= Handling /\ Num(Waiting', Receiver) \in {0, 1} /\ Handling \in {0, 1}
      /\ Num(Due, None) \in {0, 1}
  BY <1>1, <1>2, <1>4 DEF Handling, Num, Waiting, At
<1>7. Handling' + Num(Waiting', Receiver) + Num(Due', None) <= Handling + Num(Due, None)
  BY <1>5, <1>6
<1>8. Spares
  BY <1>1, <1>4, <1>5, <1>7, CallbackSpares DEF At
<1>9. Tended'
  BY <1>1, <1>2, <1>4, <1>8, SparesFacts DEF Sticks, Tended, At
<1> QED BY <1>1, <1>4, <1>8, <1>9, CallbackSticks DEF At

LEMMA RegisterAgainSticks == ASSUME IInv, Sticks, RegisterAgain PROVE Sticks'
<1>1. /\ At(Receiver, "err")
      /\ UNCHANGED <<registered, timer, refresh, reqs, bound, asked, missed>>
  BY DEF RegisterAgain, flagVars, timerVars, appVars
<1>2. Receiver \in Threads /\ Receiver \notin Timers /\ Timers \subseteq Threads /\ None \notin Timers
  BY ThreadFacts
<1>3. /\ \A u \in Threads \ {Receiver} : thread'[u] = thread[u]
      /\ thread'[Receiver].step = "pre" /\ thread'[Receiver].kind = "register" /\ thread'[Receiver].auth = FALSE
  BY <1>2, CreateType DEF RegisterAgain, Kind, IInv
<1>4. Receiver \in Starting' /\ None \notin Due'
  BY <1>2, <1>3 DEF Starting, At, Due
<1>5. Spares
  BY <1>1, <1>3, <1>4, CallbackSpares DEF At
<1>6. Tended'
  BY <1>1, <1>2, <1>3, <1>5, SparesFacts DEF Sticks, Tended, At
<1> QED BY <1>1, <1>3, <1>5, <1>6, CallbackSticks DEF At

LEMMA ReturnSticks ==
    ASSUME IInv, Sticks, Goto(Receiver, Idle), thread[Receiver].step \in {"err", "ok"},
           UNCHANGED <<registered, timer, refresh, reqs, bound, asked, missed>>
    PROVE  Sticks'
<1>1. Receiver \in Threads /\ Receiver \notin Timers /\ Timers \subseteq Threads
  BY ThreadFacts
<1>2. /\ \A u \in Threads \ {Receiver} : thread'[u] = thread[u]
      /\ thread'[Receiver].step = "idle"
  BY <1>1, IdleType, GotoType DEF IInv
<1>3. Receiver \notin Starting' /\ Due' = Due /\ Receiver \notin Waiting'
  BY <1>2 DEF Starting, Waiting, At, Due
<1>4. Handling' = 0 /\ Num(Waiting', Receiver) = 0 /\ Handling \in {0, 1} /\ Num(Due, None) \in {0, 1}
  BY <1>2, <1>3 DEF Handling, Num
<1>5. Handling' + Num(Waiting', Receiver) + Num(Due', None) <= Handling + Num(Due, None)
  BY <1>3, <1>4
<1>6. Spares
  BY <1>2, <1>3, <1>5, CallbackSpares
<1>7. Tended'
  BY <1>1, <1>2, <1>6, SparesFacts DEF Sticks, Tended, At
<1> QED BY <1>2, <1>6, <1>7, CallbackSticks

LEMMA RegisterSucceededSticks == ASSUME IInv, Sticks, RegisterSucceeded PROVE Sticks'
<1>1. /\ At(Receiver, "ok") /\ Answered.kind # "unregister" /\ registered' = TRUE
      /\ UNCHANGED <<timer, refresh, reqs, bound, asked, missed>>
  BY DEF RegisterSucceeded, timerVars
<1>2. Receiver \in Threads
  BY ThreadFacts
<1>3. /\ \A u \in Threads \ {Receiver} : thread'[u] = thread[u]
      /\ \/ thread'[Receiver].step = "schedule" /\ thread'[Receiver].req = thread[Receiver].req
         \/ thread'[Receiver].step = "idle"
  <2>1. CASE unregisterInvoked
    BY <2>1, <1>2, IdleType, GotoType DEF RegisterSucceeded, IInv
  <2>2. CASE ~unregisterInvoked
    BY <2>2, <1>2, AdvanceType DEF RegisterSucceeded, Step, IInv
  <2> QED BY <2>1, <2>2
<1>4. Receiver \notin Starting' /\ Due' = Due /\ Receiver \notin Waiting'
  BY <1>1, <1>3 DEF Starting, Waiting, At, Due
<1>5. Handling = 1 /\ Num(Waiting', Receiver) = 0 /\ Num(Due, None) \in {0, 1}
      /\ Handling' \in {0, 1} /\ (thread'[Receiver].step = "idle" => Handling' = 0)
  BY <1>1, <1>4 DEF Handling, Num, At
<1>6. /\ Handling' + Num(Waiting', Receiver) + Num(Due', None) <= Handling + Num(Due, None)
      /\ thread'[Receiver].step = "idle" =>
            Handling' + Num(Waiting', Receiver) + Num(Due', None) < Handling + Num(Due, None)
  BY <1>4, <1>5
<1>7. Spares /\ (thread'[Receiver].step = "idle" => Lost')
  BY <1>1, <1>3, <1>4, <1>6, CallbackSpares DEF At
<1>8. Tended'
  BY <1>3, <1>7 DEF Tended, At
<1> QED BY <1>1, <1>3, <1>7, <1>8, CallbackSticks DEF At, Answered

LEMMA ScheduleRefreshSticks ==
    ASSUME IInv, Sticks, NEW id \in Timers, ScheduleRefresh(id)
    PROVE  Sticks'
<1>1. /\ At(Receiver, "schedule") /\ timer' = id /\ refresh[id] = "none"
      /\ UNCHANGED <<registered, reqs, bound, asked, missed>>
  BY DEF ScheduleRefresh, flagVars
<1>2. Receiver \in Threads
  BY ThreadFacts
<1>3. /\ \A u \in Threads \ {Receiver} : thread'[u] = thread[u]
      /\ \A k \in Timers \ {id} : refresh'[k] = refresh[k]
      /\ \/ thread'[Receiver].step = "dead"
         \/ thread'[Receiver].step = "idle" /\ refresh'[id] = "due"
  <2>1. CASE Answered.answer = "okShort"
    BY <2>1, <1>2, AdvanceType DEF ScheduleRefresh, Step, IInv
  <2>2. CASE Answered.answer # "okShort"
    BY <2>2, <1>2, IdleType, GotoType DEF ScheduleRefresh, IInv, TypeOK
  <2> QED BY <2>1, <2>2
<1>4. Receiver \notin Starting' /\ Receiver \notin Waiting' /\ id \notin Due
  BY <1>1, <1>3 DEF Starting, Waiting, At, Due
<1>5. Handling = 1
  BY <1>1, <1>2 DEF Handling, Answered, At, Sticks, Framed
<1>6. Handling' = 0 /\ Num(Waiting', Receiver) = 0 /\ Num(Due, id) = 0 /\ Num(Due', id) \in {0, 1}
  BY <1>3, <1>4 DEF Handling, Num
<1>7. Handling' + Num(Waiting', Receiver) + Num(Due', id) <= Handling + Num(Due, id)
  BY <1>5, <1>6
<1>8. Spares
  BY <1>1, <1>3, <1>4, <1>7, CallbackSpares DEF At
<1>9. Tended'
  BY <1>1, <1>3 DEF Tended, At
<1> QED BY <1>1, <1>3, <1>8, <1>9, CallbackSticks DEF At

-----------------------------------------------------------------------------
LEMMA InitSticks == Init => Sticks
<1> SUFFICES ASSUME Init PROVE Sticks
  OBVIOUS
<1>1. reqs = <<>> /\ thread = [t \in Threads |-> Idle] /\ refresh = [id \in Timers |-> "none"]
      /\ registered = FALSE /\ asked = "none"
  BY DEF Init
<1>2. App \in Threads /\ Receiver \in Threads
  BY ThreadFacts
<1>3. Due = {} /\ Waiting = {} /\ Sent = {} /\ Registrations = {} /\ Starting = {} /\ Handling = 0
  BY <1>1, <1>2, IdleType DEF Due, Waiting, Sent, Registrations, Starting, Handling, At
<1>4. Finite /\ Counted
  BY <1>3, FS_EmptySet DEF Finite, Counted, Chances, Begun
<1>5. Framed
  BY <1>1, <1>2, IdleType DEF Framed, At, Idle
<1> QED BY <1>1, <1>4, <1>5 DEF Sticks, Tended, Withdrawn, Alone, Final, Clean

LEMMA NextSticks == IInv /\ Sticks /\ [Next]_vars => Sticks'
<1> SUFFICES ASSUME IInv, Sticks, [Next]_vars PROVE Sticks'
  OBVIOUS
<1>1. CASE Register \/ Unregister
  BY <1>1, RegisterSticks, UnregisterKeepsSticks
<1>2. ASSUME NEW t \in Threads, CreateRequest(t)
      PROVE  Sticks'
  BY <1>2, PreProcessRegisterSticks, InvokeUnregisterSticks, StartSticks DEF CreateRequest
<1>3. CASE \E id \in Timers : RefreshFires(id)
  BY <1>3, RefreshFiresSticks
<1>4. ASSUME NEW i \in DOMAIN reqs, ResponseReceived(i) \/ TransactionTimeout(i)
      PROVE  Sticks'
  BY <1>4, ResponseReceivedSticks, TransactionTimeoutSticks
<1>5. ASSUME NEW i \in DOMAIN reqs, NEW c \in Codes, Registrar(i, c)
      PROVE  Sticks'
  BY <1>5, RegistrarSticks
<1>6. CASE HandleResponse
  <2>1. CASE HandleChallenge
    BY <2>1, HandleChallengeSticks
  <2>2. CASE RegisterAgain
    BY <2>2, RegisterAgainSticks
  <2>3. CASE RegisterFailed
    BY <2>3, ReturnSticks DEF RegisterFailed, NotifyListener, At, timerVars
  <2>4. CASE UnregisterSucceeded
    BY <2>4, ReturnSticks DEF UnregisterSucceeded, At, timerVars
  <2>5. CASE SuccessWithoutContact
    BY <2>5, ReturnSticks DEF SuccessWithoutContact, At, timerVars, appVars
  <2>6. CASE RegisterSucceeded
    BY <2>6, RegisterSucceededSticks
  <2>7. CASE \E id \in Timers : ScheduleRefresh(id)
    BY <2>7, ScheduleRefreshSticks
  <2> QED BY <1>6, <2>1, <2>2, <2>3, <2>4, <2>5, <2>6, <2>7 DEF HandleResponse
<1>7. CASE UNCHANGED vars
  <2>1. UNCHANGED <<registered, timer, refresh, reqs, bound, asked, missed, thread>>
    BY <1>7 DEF vars, flagVars, timerVars, appVars
  <2>2. /\ Due' = Due /\ Waiting' = Waiting /\ Sent' = Sent /\ Registrations' = Registrations
        /\ Starting' = Starting /\ Handling' = Handling
    BY <2>1 DEF Due, Waiting, Sent, Registrations, Starting, Handling, At, Open, Answered
  <2>3. Finite' /\ Chances' = Chances /\ Begun' = Begun
    BY <2>2 DEF Finite, Chances, Begun, Sticks
  <2>4. Counted' /\ (Lost' <=> Lost)
    BY <2>3 DEF Counted, Lost, Sticks
  <2>5. Framed'
    BY <2>1 DEF Sticks, Framed, At
  <2>6. Tended' /\ Withdrawn'
    BY <2>1, <2>4 DEF Sticks, Tended, Withdrawn, Clean, Asking, At
  <2>7. Alone' /\ Final'
    BY <2>1, <2>3 DEF Sticks, Alone, Final, Clean, Asking, At, Open
  <2> QED BY <2>3, <2>4, <2>5, <2>6, <2>7 DEF Sticks
<1> QED BY <1>1, <1>2, <1>3, <1>4, <1>5, <1>6, <1>7 DEF Next

(* Together with the invariant, the counting one is inductive.             *)
THEOREM Counting == Spec => [](IInv /\ Sticks)
<1>1. Init => IInv /\ Sticks
  BY InitInv, InitSticks
<1>2. (IInv /\ Sticks) /\ [Next]_vars => (IInv /\ Sticks)'
  BY NextInv, NextSticks
<1> QED BY <1>1, <1>2, PTL DEF Spec

(* RegisterHandler.unregister: once all is quiet, an unregister that met no*)
(* other request has left one refresh timer less than there were           *)
(* registrations, and of one registration no binding, if it succeeded.     *)
THEOREM UnregisterEndsOne == Spec => []UnregisterSticks
<1>1. IInv /\ Sticks => UnregisterSticks
  <2> SUFFICES ASSUME IInv, Sticks, asked = "unregister", ~missed, Quiescent
               PROVE  /\ Cardinality(Due) < Cardinality(Registrations)
                      /\ Cardinality(Registrations) = 1 /\ reqs[Len(reqs)].answer \in Success => ~bound
    BY DEF UnregisterSticks
  <2>1. App \in Threads /\ Receiver \in Threads
    BY ThreadFacts
  <2>2. Waiting = {} /\ Starting = {} /\ Sent = {} /\ Handling = 0
    BY <2>1 DEF Quiescent, Waiting, Starting, Sent, Handling, At
  <2>3. Cardinality(Due) \in Nat /\ Cardinality(Registrations) \in Nat
    BY NumberTypes DEF Sticks
  <2>4. Chances = Cardinality(Due) /\ Begun = Cardinality(Registrations)
    BY <2>2, <2>3, FS_EmptySet DEF Chances, Begun
  <2>5. Lost /\ ~At(App, "pre")
    BY <2>1 DEF Sticks, Withdrawn, Clean, Asking, Quiescent, At
  <2>6. Cardinality(Due) < Cardinality(Registrations)
    BY <2>4, <2>5 DEF Lost
  <2>7. Cardinality(Registrations) = 1 /\ reqs[Len(reqs)].answer \in Success => ~bound
    BY <2>4, <2>5 DEF Sticks, Final, Clean
  <2> QED BY <2>6, <2>7
<1> QED BY <1>1, Counting, PTL
===============================================================================
