------------------------------- MODULE MCRuns -------------------------------
(* A small instance of Runs for TLC.                                        *)
EXTENDS Runs

(* A time-out comes in a behaviour without a crash and without a second     *)
(* connection.  Expire, Crash and DcmConnect are not under fairness, so     *)
(* that this cuts off no step that has to be taken.                         *)
OneFault == expiries = 0 \/ (crashes = 0 /\ sessions <= 1)
=============================================================================
