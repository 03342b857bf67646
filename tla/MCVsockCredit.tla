----------------------------- MODULE MCVsockCredit -----------------------------
(***************************************************************************)
(* Instances of VsockCredit.                                               *)
(***************************************************************************)
EXTENDS VsockCredit

CONSTANTS t1, t2

OneSender == {t1}
TwoSenders == {t1, t2}
=============================================================================
