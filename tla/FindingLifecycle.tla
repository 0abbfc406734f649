-------------------------- MODULE FindingLifecycle --------------------------
(***************************************************************************)
(* What the policy loop and the feedback worker together promise of the    *)
(* registry, per finding key: the key is received once, then claimed by at *)
(* most one session, whose deployment alone becomes active and then closed;*)
(* a stage is never skipped and never undone.  Duplicate publications,     *)
(* concurrent sessions, failures and crashes show only as steps not taken. *)
(***************************************************************************)
CONSTANTS Keys, Owners

VARIABLES
    received,   \* keys whose finding is stored
    claimed,    \* <<key, session>>: the session's policy is the key's policy
    active,     \* claims whose deployment is running
    closed      \* claims whose deployment has been evaluated and expired

lifeVars == <<received, claimed, active, closed>>

LifeInit ==
    /\ received = {}
    /\ claimed = {}
    /\ active = {}
    /\ closed = {}

Receive(k) ==
    /\ received' = received \cup {k}
    /\ UNCHANGED <<claimed, active, closed>>

Claim(k, s) ==
    /\ k \in received
    /\ \A c \in claimed : c[1] # k
    /\ claimed' = claimed \cup {<<k, s>>}
    /\ UNCHANGED <<received, active, closed>>

Activate(k, s) ==
    /\ <<k, s>> \in claimed
    /\ <<k, s>> \notin closed
    /\ active' = active \cup {<<k, s>>}
    /\ UNCHANGED <<received, claimed, closed>>

Close(k, s) ==
    /\ <<k, s>> \in active
    /\ active' = active \ {<<k, s>>}
    /\ closed' = closed \cup {<<k, s>>}
    /\ UNCHANGED <<received, claimed>>

LifeNext ==
    \E k \in Keys :
        \/ Receive(k)
        \/ \E s \in Owners : Claim(k, s) \/ Activate(k, s) \/ Close(k, s)

LifeSpec == LifeInit /\ [][LifeNext]_lifeVars
=============================================================================
