---------------------------- MODULE RequestOutcome ----------------------------
(***************************************************************************)
(* What a client transaction promises its transaction user: a request that *)
(* was started is given one outcome, and only one.                         *)
(***************************************************************************)
EXTENDS Sequences

CONSTANTS Requests, Outcomes

VARIABLES asked,    \* the requests that were started
          reports   \* the outcomes each request's user was told, in order

vars == <<asked, reports>>

Init == /\ asked = {}
        /\ reports = [r \in Requests |-> <<>>]

Ask(r) == /\ r \notin asked
          /\ asked' = asked \cup {r}
          /\ UNCHANGED reports

Report(r, o) == /\ r \in asked
                /\ reports[r] = <<>>
                /\ reports' = [reports EXCEPT ![r] = <<o>>]
                /\ UNCHANGED asked

ReportAny(r) == \E o \in Outcomes : Report(r, o)

Next == \E r \in Requests : Ask(r) \/ ReportAny(r)

Spec == Init /\ [][Next]_vars /\ \A r \in Requests : WF_vars(ReportAny(r))
===============================================================================
