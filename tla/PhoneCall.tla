----------------------------- MODULE PhoneCall -----------------------------
(***************************************************************************)
(* What a call is to the two people who make it: one dials, the other's    *)
(* phone rings, is answered or not, and each hears the other only in a     *)
(* call that was answered and that they have not ended.  An answered call  *)
(* that the caller has not heard of yet may end without sound.             *)
(***************************************************************************)
VARIABLES caller,   \* "idle", "calling", "talking" or "over"
          callee    \* "idle", "ringing", "refused", "answered", "talking" or "over"

vars == <<caller, callee>>

Init == caller = "idle" /\ callee = "idle"

Dial == caller = "idle" /\ caller' = "calling" /\ UNCHANGED callee

Ring == caller # "idle" /\ callee = "idle" /\ callee' = "ringing" /\ UNCHANGED caller

Answer == callee = "ringing" /\ callee' = "answered" /\ UNCHANGED caller

(* The caller hears of the answer, perhaps when the callee has hung up.    *)
Connect == /\ caller = "calling"
           /\ callee \in {"answered", "over"}
           /\ caller' = "talking"
           /\ UNCHANGED callee

(* The callee hears the caller, who has perhaps hung up since.             *)
Hear == /\ callee = "answered"
        /\ caller \in {"talking", "over"}
        /\ callee' = "talking"
        /\ UNCHANGED caller

CallerEnds == caller \in {"calling", "talking"} /\ caller' = "over" /\ UNCHANGED callee

(* The callee refuses the call, or the caller gives it up.                 *)
Refuse == callee = "ringing" /\ callee' = "refused" /\ UNCHANGED caller

CalleeEnds == /\ callee \in {"answered", "talking"}
              /\ callee' = "over"
              /\ UNCHANGED caller

Next ==
    \/ Dial \/ Ring \/ Refuse \/ Answer \/ Connect \/ Hear
    \/ CallerEnds \/ CalleeEnds

Spec == Init /\ [][Next]_vars
=============================================================================
