------------------------ MODULE MCNonInviteTransactions ------------------------
(***************************************************************************)
(* NonInviteTransactions with bounds for TLC: a request whose tasks race   *)
(* is repeated once more than others, so that a task that runs late may    *)
(* find that a repetition was answered.                                    *)
(***************************************************************************)
EXTENDS NonInviteTransactions

RetransOfRacing == [r \in Requests |-> IF r \in RacingRequests THEN 2 ELSE 1]
===============================================================================
