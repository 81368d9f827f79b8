---------------------------- MODULE DialogStates ----------------------------
(***************************************************************************)
(* The state machine of a SIP dialog (package sip.transactionuser).  A     *)
(* Dialog object delegates the four events below to its current state      *)
(* object; the state object either calls Dialog.setState or throws an      *)
(* IllegalStateException after logging "invalid transition".               *)
(*                                                                         *)
(* A caller's thread first reads Dialog.state (the dynamic dispatch) and   *)
(* then runs the method of the state it read.  Both halves are exported,   *)
(* so that the modules that extend this one can interleave them.           *)
(***************************************************************************)

DialogState == {"INIT", "EARLY", "CONFIRMED", "TERMINATED"}

(* 1xx, 2xx, 3xx: receivedOrSent1xx, receivedOrSent2xx and                 *)
(* receivedOrSent300To699; bye: receivedOrSentBye.                         *)
DialogEvent == {"1xx", "2xx", "3xx", "bye"}

(* The pairs for which the state object throws.                            *)
InvalidTransition(s, e) ==
    \/ s \in {"INIT", "EARLY"} /\ e = "bye"
    \/ s \in {"CONFIRMED", "TERMINATED"} /\ e \in {"1xx", "2xx", "3xx"}

(* The state that the method of state s sets for event e, for the pairs    *)
(* that do not throw.  A BYE in TERMINATED leaves TERMINATED.              *)
DialogAfter(s, e) ==
    IF e = "1xx" THEN "EARLY"
    ELSE IF e = "2xx" THEN "CONFIRMED"
    ELSE "TERMINATED"

(* The state of a dialog that is in state now when the method of the state *)
(* seen, which was read before, runs.  DialogStateTerminated does nothing  *)
(* with a BYE: what another thread has set since stays.                    *)
DialogSet(now, seen, e) ==
    IF seen = "TERMINATED" /\ e = "bye" THEN now ELSE DialogAfter(seen, e)

=============================================================================
