----------------------------- MODULE MCEndToEnd -----------------------------
(* What the network does to the messages of EndToEnd in its two runs.      *)
EXTENDS EndToEnd

(* Any message may be there once more.                                     *)
AnyMessage == Kinds

(* A hang-up, or the answer to it, may be lost.                            *)
HangUp == {"BYE", "200BYE"}

=============================================================================
