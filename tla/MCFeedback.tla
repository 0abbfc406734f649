----------------------------- MODULE MCFeedback -----------------------------
(* Small instances of the feedback worker for TLC. *)
EXTENDS Feedback, TLC

CONSTANTS t1, t2, f1, r1, r2

MCTenants == {t1, t2}
MCPublic == t1
MCOneFinding == {f1}
MCSessions == {r1, r2}
MCNoFaults == {}
=============================================================================
