------------------------- MODULE BoundedStaleness -------------------------
(* What a time-limited cache over a Postgres table promises: an answer about a *)
(* key is a version of its row that was still current at most Bound time units *)
(* before the answer was given.  The state of a row after n committed changes   *)
(* is its version n; version 0 is "no row".                                     *)
EXTENDS Naturals, Sequences

CONSTANTS
    Keys,           \* the rows of the table
    Bound           \* how old an answer may be

VARIABLES
    clock,          \* the time
    commits,        \* per key, the times at which its row changed
    answer          \* the last answer at this time, a key and a version, or <<>>

staleVars == <<clock, commits, answer>>

Init ==
    /\ clock = 0
    /\ commits = [k \in Keys |-> <<>>]
    /\ answer = <<>>

Change(k) ==
    /\ commits' = [commits EXCEPT ![k] = Append(@, clock)]
    /\ UNCHANGED <<clock, answer>>

Reply(k, n) ==
    /\ n \in 0..Len(commits[k])
    /\ n < Len(commits[k]) => commits[k][n + 1] + Bound >= clock
    /\ answer' = <<k, n>>
    /\ UNCHANGED <<clock, commits>>

(* Answers of different times are told apart, so that giving the same one again *)
(* later is a step that has to be allowed.                                      *)
Elapse ==
    /\ clock' = clock + 1
    /\ answer' = <<>>
    /\ UNCHANGED commits

Next ==
    \/ Elapse
    \/ \E k \in Keys : Change(k)
    \/ \E k \in Keys : \E n \in 0..Len(commits[k]) : Reply(k, n)

Spec == Init /\ [][Next]_staleVars
=============================================================================
