-------------------------- MODULE OwnershipProofs --------------------------
(***************************************************************************)
(* Theorems about Ownership for any tenants, vehicles, scopes and calls,   *)
(* any lifetime of a cached owner and any duration of a call: how old the  *)
(* owner is that a deployment, or its rejection, goes by, and that the     *)
(* audit log has every rejection and every change of owner.                *)
(***************************************************************************)
EXTENDS Ownership, TLAPS

(* The n-th owner of v was still the owner less than a lifetime and a call   *)
(* before time t.                                                            *)
Recent(v, n, t) == n < Version(v) => history[v][n + 1].at + Ttl + Window > t

(* v belonged to the tenant at such a time.                                  *)
Owned(v, tenant, t) ==
    \E n \in 1..Version(v) : history[v][n].tenant = tenant /\ Recent(v, n, t)

(* A cached owner was the current one when some call asked the table, at     *)
(* most a call's duration before it wrote the entry.                         *)
EntryInv(v) ==
    redis[v] # None =>
        /\ redis[v].version \in 1..Version(v)
        /\ clock < redis[v].expires
        /\ redis[v].expires \leq clock + Ttl
        /\ redis[v].version < Version(v)
             => history[v][redis[v].version + 1].at + Ttl + Window \geq redis[v].expires

(* A call that is under way: what it read was current after it started, and  *)
(* the vehicles it has passed were the tenant's.                             *)
CallInv(d) ==
    call[d].pc \in Running =>
        /\ call[d].start \leq clock
        /\ clock \leq call[d].start + Window
        /\ call[d].next \in 1..Len(call[d].scope)
        /\ call[d].pc \in {"set", "check"} =>
             /\ call[d].version \in 0..Version(Vehicle(d))
             /\ call[d].version < Version(Vehicle(d))
                  => history[Vehicle(d)][call[d].version + 1].at \geq call[d].start
        /\ call[d].pc = "set" => call[d].version > 0
        /\ \A i \in 1..(call[d].next - 1) :
             Owned(call[d].scope[i], call[d].tenant, call[d].start)

(* A rejection row is the one of a call that met a mismatch.                 *)
RowsExplained ==
    \A a \in audit : a.kind = "deployment_rejected" =>
        \E e \in Calls : Wrote(e) /\ call[e].row = a

OwnershipInv ==
    /\ OwnershipTypeOK
    /\ \A v \in Vehicles : EntryInv(v)
    /\ \A d \in Calls : CallInv(d)
    /\ RejectionsAudited
    /\ RowsExplained
    /\ HistoryAudited
-----------------------------------------------------------------------------
(* Rows and times are what they should be.                                   *)
LEMMA Types ==
    ASSUME OwnershipTypeOK
    PROVE  /\ clock \in Nat /\ Ttl \in Nat /\ Ttl > 0 /\ Window \in Nat
           /\ \A v \in Vehicles : /\ Version(v) \in Nat
                                  /\ \A n \in 1..Version(v) : /\ history[v][n].at \in Nat
                                                              /\ history[v][n].tenant \in Tenants
           /\ \A v \in Vehicles : redis[v] # None => redis[v].version \in Nat /\ redis[v].expires \in Nat
<1>1. clock \in Nat /\ Ttl \in Nat /\ Ttl > 0 /\ Window \in Nat
  BY OwnershipAssumption DEF OwnershipTypeOK
<1>2. ASSUME NEW v \in Vehicles
      PROVE  /\ Version(v) \in Nat
             /\ \A n \in 1..Version(v) : history[v][n] \in Row
  BY DEF OwnershipTypeOK, Version
<1>3. \A x \in Row : x.at \in Nat /\ x.tenant \in Tenants
  BY Zenon DEF Row
<1>4. \A v \in Vehicles : redis[v] # None => redis[v].version \in Nat /\ redis[v].expires \in Nat
  BY Zenon DEF OwnershipTypeOK, Entry
<1> QED BY <1>1, <1>2, <1>3, <1>4, Zenon

(* A call that is under way has the fields of one.                           *)
LEMMA CallTypes ==
    ASSUME OwnershipTypeOK, NEW d \in Calls, call[d].pc \in Running
    PROVE  /\ call[d] \in Called
           /\ call[d].scope \in Seq(Vehicles) /\ Len(call[d].scope) \in Nat \ {0}
           /\ call[d].next \in 1..Len(call[d].scope) => Vehicle(d) \in Vehicles
           /\ \A i \in 1..Len(call[d].scope) : call[d].scope[i] \in Vehicles
<1>1. call[d] \in {Unused} \cup Called \cup Mismatched \cup Returned
  BY Zenon DEF OwnershipTypeOK
<1>2. call[d] \in Called
  BY <1>1 DEF Unused, Mismatched, Returned, Running
<1>3. call[d].scope \in Scopes
  BY <1>2, Zenon DEF Called
<1>4. call[d].scope \in Seq(Vehicles) /\ call[d].scope # <<>>
  BY <1>3, OwnershipAssumption, Zenon
<1>5. Len(call[d].scope) \in Nat \ {0}
  BY <1>4
<1> QED BY <1>2, <1>4, <1>5 DEF Vehicle

(* Nothing has been assigned, cached or called.                              *)
LEMMA InitInv == Init => OwnershipInv
<1> SUFFICES ASSUME Init PROVE OwnershipInv
  OBVIOUS
<1>1. \A d \in Calls : call[d].pc = "unused" /\ call[d] = Unused
  BY Zenon DEF Init, Unused
<1>2. OwnershipTypeOK
  BY DEF Init, OwnershipTypeOK
<1>3. (\A v \in Vehicles : EntryInv(v)) /\ (\A d \in Calls : CallInv(d))
      /\ RejectionsAudited /\ RowsExplained
  BY <1>1, Zenon DEF Init, EntryInv, CallInv, Running, RejectionsAudited, RowsExplained, At
<1>4. HistoryAudited
  <2>1. \A v \in Vehicles : Version(v) = 0
    BY Zenon DEF Init, Version
  <2>2. \A v \in Vehicles : 1..Version(v) = {}
    BY <2>1
  <2> QED BY <2>2, Zenon DEF Init, HistoryAudited
<1> QED BY <1>2, <1>3, <1>4, Zenon DEF OwnershipInv

(* The passage of time, and an assignment, leave an owner as recent as the   *)
(* time t of a call needs it.                                                *)
Extended ==
    /\ \A v \in Vehicles : /\ Version(v)' \in Nat /\ Version(v)' \geq Version(v)
                           /\ \A n \in 1..Version(v) : history'[v][n] = history[v][n]
                           /\ \A n \in (Version(v) + 1)..Version(v)' : history'[v][n].at = clock

LEMMA StillRecent ==
    ASSUME OwnershipTypeOK, Extended, NEW v \in Vehicles, NEW n \in 0..Version(v),
           NEW t \in Nat, t < clock + Ttl + Window, Recent(v, n, t)
    PROVE  Recent(v, n, t)'
<1>1. /\ clock \in Nat /\ Ttl \in Nat /\ Window \in Nat /\ Version(v) \in Nat /\ Version(v)' \in Nat
      /\ Version(v)' \geq Version(v)
  BY Types, Zenon DEF Extended
<1>2. CASE n < Version(v)
  BY <1>1, <1>2 DEF Recent, Extended
<1>3. CASE n = Version(v)
  BY <1>1, <1>3 DEF Recent, Extended
<1> QED BY <1>1, <1>2, <1>3

LEMMA StillSince ==
    ASSUME OwnershipTypeOK, Extended, NEW v \in Vehicles, NEW n \in 0..Version(v),
           NEW t \in Nat, t \leq clock, n < Version(v) => history[v][n + 1].at \geq t
    PROVE  n \in 0..Version(v)' /\ (n < Version(v)' => history'[v][n + 1].at \geq t)
<1>1. /\ clock \in Nat /\ Version(v) \in Nat /\ Version(v)' \in Nat /\ Version(v)' \geq Version(v)
  BY Types, Zenon DEF Extended
<1>2. CASE n < Version(v)
  BY <1>1, <1>2 DEF Extended
<1>3. CASE n = Version(v)
  BY <1>1, <1>3 DEF Extended
<1> QED BY <1>1, <1>2, <1>3

LEMMA StillOwned ==
    ASSUME OwnershipTypeOK, Extended, NEW v \in Vehicles, NEW tenant,
           NEW t \in Nat, t < clock + Ttl + Window, Owned(v, tenant, t)
    PROVE  Owned(v, tenant, t)'
<1>1. Version(v) \in Nat /\ Version(v)' \in Nat /\ Version(v)' \geq Version(v)
  BY Types, Zenon DEF Extended
<1>2. PICK n \in 1..Version(v) : history[v][n].tenant = tenant /\ Recent(v, n, t)
  BY Zenon DEF Owned
<1>3. Recent(v, n, t)'
  BY <1>1, <1>2, StillRecent
<1>4. n \in 1..Version(v)' /\ history'[v][n].tenant = tenant
  BY <1>1, <1>2 DEF Extended
<1> QED BY <1>3, <1>4, Zenon DEF Owned

LEMMA SameHistory ==
    ASSUME OwnershipTypeOK, history' = history
    PROVE  Extended
<1>1. \A v \in Vehicles : Version(v)' = Version(v) /\ Version(v) \in Nat
  BY Types, Zenon DEF Version
<1> QED BY <1>1 DEF Extended

(* A call that does not move itself keeps what is known of it.               *)
LEMMA KeepCall ==
    ASSUME OwnershipInv, Extended, NEW d \in Calls, call'[d] = call[d],
           \/ clock' = clock
           \/ /\ clock' = clock + 1
              /\ call[d].pc \in Running => clock < call[d].start + Window
    PROVE  CallInv(d)'
<1> SUFFICES ASSUME call[d].pc \in Running PROVE CallInv(d)'
  BY Zenon DEF CallInv
<1> DEFINE c == call[d]
<1>0. /\ OwnershipTypeOK /\ CallInv(d) /\ clock \in Nat /\ Ttl \in Nat /\ Ttl > 0 /\ Window \in Nat
  BY Types, Zenon DEF OwnershipInv
<1>1. /\ c \in Called /\ c.start \in Nat /\ c.next \in Nat /\ c.version \in Nat
      /\ c.next \in 1..Len(c.scope) /\ Len(c.scope) \in Nat
      /\ Vehicle(d) \in Vehicles /\ \A i \in 1..Len(c.scope) : c.scope[i] \in Vehicles
  BY <1>0, CallTypes, Zenon DEF CallInv, Called
<1>2. /\ c.start \leq clock' /\ c.start \leq clock
      /\ clock' \leq c.start + Window
  BY <1>0, <1>1 DEF CallInv
<1>3. Vehicle(d)' = Vehicle(d)
  BY Zenon DEF Vehicle
<1>4. c.pc \in {"set", "check"} =>
        /\ c.version \in 0..Version(Vehicle(d))'
        /\ c.version < Version(Vehicle(d))' => history'[Vehicle(d)][c.version + 1].at \geq c.start
  <2> SUFFICES ASSUME c.pc \in {"set", "check"}
               PROVE  /\ c.version \in 0..Version(Vehicle(d))'
                      /\ c.version < Version(Vehicle(d))'
                           => history'[Vehicle(d)][c.version + 1].at \geq c.start
    OBVIOUS
  <2>1. PICK v \in Vehicles : v = Vehicle(d)
    BY <1>1, Zenon
  <2>2. PICK n \in 0..Version(v) : n = c.version /\ (n < Version(v) => history[v][n + 1].at \geq c.start)
    BY <1>0, <2>1, Zenon DEF CallInv
  <2>3. n \in 0..Version(v)' /\ (n < Version(v)' => history'[v][n + 1].at \geq c.start)
    BY <1>0, <1>1, <1>2, <2>2, StillSince, Zenon
  <2>4. Version(v)' = Version(Vehicle(d))'
    BY <1>3, <2>1, Zenon
  <2> QED BY <2>1, <2>2, <2>3, <2>4, Zenon
<1>5. \A i \in 1..(c.next - 1) : Owned(c.scope[i], c.tenant, c.start)'
  <2> SUFFICES ASSUME NEW i \in 1..(c.next - 1) PROVE Owned(c.scope[i], c.tenant, c.start)'
    OBVIOUS
  <2>1. Owned(c.scope[i], c.tenant, c.start)
    BY <1>0, Zenon DEF CallInv
  <2>2. i \in 1..Len(c.scope)
    BY <1>1
  <2>3. c.scope[i] \in Vehicles
    BY <1>1, <2>2, Zenon
  <2>4. c.start < clock + Ttl + Window
    BY <1>0, <1>1, <1>2
  <2> DEFINE v == c.scope[i]
  <2>5. Owned(v, c.tenant, c.start)'
    BY <1>0, <1>1, <2>1, <2>3, <2>4, StillOwned, Zenon
  <2> QED BY <2>5, Zenon
<1>6. c.pc = "set" => c.version > 0
  BY <1>0, Zenon DEF CallInv
<1> QED BY <1>1, <1>2, <1>3, <1>4, <1>5, <1>6, Zenon DEF CallInv

(* An entry that is not written keeps its worth.                             *)
LEMMA KeepEntry ==
    ASSUME OwnershipInv, Extended, NEW v \in Vehicles, redis'[v] \in {redis[v], None},
           clock' \in {clock, clock + 1}, redis'[v] # None => clock' < redis'[v].expires
    PROVE  EntryInv(v)'
<1> SUFFICES ASSUME redis'[v] # None PROVE EntryInv(v)'
  BY Zenon DEF EntryInv
<1>0. /\ OwnershipTypeOK /\ EntryInv(v) /\ redis'[v] = redis[v] /\ redis[v] # None
      /\ clock \in Nat /\ Ttl \in Nat /\ Window \in Nat
      /\ redis[v].version \in Nat /\ redis[v].expires \in Nat
      /\ Version(v) \in Nat /\ Version(v)' \in Nat /\ Version(v)' \geq Version(v)
  BY Types, Zenon DEF OwnershipInv, Extended
<1>1. PICK n \in Nat, e \in Nat : n = redis[v].version /\ e = redis[v].expires
  BY <1>0, Zenon
<1>2. /\ n \in 1..Version(v) /\ e \leq clock + Ttl
      /\ n < Version(v) => history[v][n + 1].at + Ttl + Window \geq e
  BY <1>0, <1>1, Zenon DEF EntryInv
<1>3. n < Version(v)' => history'[v][n + 1].at + Ttl + Window \geq e
  <2>1. CASE n < Version(v)
    BY <1>0, <1>1, <1>2, <2>1 DEF Extended
  <2>2. CASE n = Version(v)
    BY <1>0, <1>1, <1>2, <2>2 DEF Extended
  <2> QED BY <1>0, <1>2, <2>1, <2>2
<1>4. n \in 1..Version(v)' /\ clock' < e /\ e \leq clock' + Ttl
  BY <1>0, <1>1, <1>2
<1> QED BY <1>0, <1>1, <1>3, <1>4, Zenon DEF EntryInv

(* The audit rows of the assignments stand for the histories as long as      *)
(* neither changes.                                                          *)
LEMMA KeepHistoryAudited ==
    ASSUME HistoryAudited, history' = history,
           {a \in audit' : a.kind = "vehicle_assignment_change"}
             = {a \in audit : a.kind = "vehicle_assignment_change"}
    PROVE  HistoryAudited'
<1>1. \A v \in Vehicles : Version(v)' = Version(v)
  BY Zenon DEF Version
<1> QED BY <1>1 DEF HistoryAudited

(* Nor do the rejections, as long as no call moves.                          *)
LEMMA KeepRejections ==
    ASSUME RejectionsAudited, RowsExplained, call' = call, audit \subseteq audit',
           \A a \in audit' : a.kind = "deployment_rejected" => a \in audit
    PROVE  RejectionsAudited' /\ RowsExplained'
  BY Zenon DEF RejectionsAudited, RowsExplained, At, Wrote

(* Time passes, and Redis drops what has expired.                            *)
LEMMA TickInv ==
    ASSUME OwnershipInv, Tick
    PROVE  OwnershipInv'
<1>0. OwnershipTypeOK /\ Extended /\ clock \in Nat /\ clock' = clock + 1
      /\ UNCHANGED <<history, audit, call>>
  BY SameHistory, Types, Zenon DEF OwnershipInv, Tick
<1>1. \A v \in Vehicles : redis'[v] = IF redis[v] # None /\ clock + 1 < redis[v].expires
                                      THEN redis[v] ELSE None
  BY Zenon DEF Tick, Kept
<1>2. OwnershipTypeOK'
  <2>1. redis' \in [Vehicles -> Entry \cup {None}]
    BY <1>0, Zenon DEF OwnershipTypeOK, Tick, Kept
  <2> QED BY <1>0, <2>1 DEF OwnershipTypeOK
<1>3. \A v \in Vehicles : EntryInv(v)'
  BY <1>0, <1>1, KeepEntry, Zenon
<1>4. \A d \in Calls : CallInv(d)'
  BY <1>0, KeepCall, Zenon DEF Tick
<1>5. RejectionsAudited' /\ RowsExplained' /\ HistoryAudited'
  BY <1>0, KeepRejections, KeepHistoryAudited, Zenon DEF OwnershipInv
<1> QED BY <1>2, <1>3, <1>4, <1>5, Zenon DEF OwnershipInv

(* A cached owner is dropped.                                                *)
LEMMA ForgetInv ==
    ASSUME OwnershipInv, NEW v \in Vehicles, forget(v)
    PROVE  OwnershipInv'
<1>0. /\ OwnershipTypeOK /\ Extended /\ redis' = [redis EXCEPT ![v] = None]
      /\ UNCHANGED <<clock, history, audit, call>>
  BY SameHistory, Zenon DEF OwnershipInv, forget
<1>1. OwnershipTypeOK' /\ \A w \in Vehicles : redis'[w] \in {redis[w], None}
  BY <1>0, Zenon DEF OwnershipTypeOK
<1>2. \A w \in Vehicles : redis'[w] # None => clock' < redis'[w].expires
  BY <1>0, <1>1, Zenon DEF OwnershipInv, EntryInv
<1>3. \A w \in Vehicles : EntryInv(w)'
  BY <1>0, <1>1, <1>2, KeepEntry, Zenon
<1>4. \A d \in Calls : CallInv(d)'
  BY <1>0, KeepCall, Zenon
<1>5. RejectionsAudited' /\ RowsExplained' /\ HistoryAudited'
  BY <1>0, KeepRejections, KeepHistoryAudited, Zenon DEF OwnershipInv
<1> QED BY <1>1, <1>3, <1>4, <1>5, Zenon DEF OwnershipInv

(* A vehicle gets a new owner: a row of history and one of the audit log.    *)
LEMMA AssignInv ==
    ASSUME OwnershipInv, NEW v \in Vehicles, NEW t \in Tenants, assign(v, t)
    PROVE  OwnershipInv'
<1> DEFINE row == [tenant |-> t, at |-> clock]
           n == Version(v) + 1
<1>0. /\ OwnershipTypeOK /\ clock \in Nat /\ history[v] \in Seq(Row) /\ row \in Row
      /\ Version(v) \in Nat /\ history \in [Vehicles -> Seq(Row)]
  BY Types, Zenon DEF OwnershipInv, OwnershipTypeOK, Row
<1>1. /\ history' = [history EXCEPT ![v] = Append(history[v], row)]
      /\ audit' = audit \cup {AssignmentRow(v, t)} /\ UNCHANGED <<clock, redis, call>>
  BY Zenon DEF assign
<1>2. /\ history' \in [Vehicles -> Seq(Row)]
      /\ \A w \in Vehicles \ {v} : history'[w] = history[w] /\ Version(w)' = Version(w)
      /\ Version(v)' = n /\ history'[v][n] = row
      /\ \A m \in 1..Version(v) : history'[v][m] = history[v][m]
  BY <1>0, <1>1 DEF Version
<1>3. Extended
  <2>1. \A m \in (Version(v) + 1)..Version(v)' : m = n
    BY <1>0, <1>2
  <2>2. \A w \in Vehicles : Version(w) \in Nat
    BY <1>0, Types, Zenon
  <2>3. ASSUME NEW w \in Vehicles \ {v}
        PROVE  /\ Version(w)' \in Nat /\ Version(w)' \geq Version(w)
               /\ \A m \in 1..Version(w) : history'[w][m] = history[w][m]
               /\ \A m \in (Version(w) + 1)..Version(w)' : history'[w][m].at = clock
    BY <1>2, <2>2, <2>3
  <2>4. /\ Version(v)' \in Nat /\ Version(v)' \geq Version(v)
        /\ \A m \in (Version(v) + 1)..Version(v)' : history'[v][m].at = clock
    BY <1>0, <1>2, <2>1
  <2> QED BY <1>2, <2>3, <2>4, Zenon DEF Extended
<1>4. OwnershipTypeOK'
  BY <1>0, <1>1, <1>2 DEF OwnershipTypeOK, AssignmentRow
<1>5. \A w \in Vehicles : redis'[w] # None => clock' < redis'[w].expires
  BY <1>1, Zenon DEF OwnershipInv, EntryInv
<1>6. \A w \in Vehicles : EntryInv(w)'
  BY <1>1, <1>3, <1>5, KeepEntry, Zenon
<1>7. \A d \in Calls : CallInv(d)'
  BY <1>1, <1>3, KeepCall, Zenon
<1>8. RejectionsAudited' /\ RowsExplained'
  <2>1. AssignmentRow(v, t).kind # "deployment_rejected"
    BY DEF AssignmentRow
  <2> QED BY <1>1, <2>1, KeepRejections, Zenon DEF OwnershipInv
<1>9. HistoryAudited'
  <2> DEFINE story(w) == {[kind |-> "vehicle_assignment_change", tenant |-> history[w][m].tenant,
                           corr |-> <<w, m>>] : m \in 1..Version(w)}
             after(w) == {[kind |-> "vehicle_assignment_change", tenant |-> history'[w][m].tenant,
                           corr |-> <<w, m>>] : m \in 1..Version(w)'}
  <2>1. \A w \in Vehicles \ {v} : after(w) = story(w)
    BY <1>2
  <2>2. after(v) = story(v) \cup {AssignmentRow(v, t)}
    <3> DEFINE entry(m) == [kind |-> "vehicle_assignment_change", tenant |-> history'[v][m].tenant,
                            corr |-> <<v, m>>]
    <3>1. 1..Version(v)' = (1..Version(v)) \cup {n}
      BY <1>0, <1>2
    <3>2. AssignmentRow(v, t) = entry(n)
      BY <1>2 DEF AssignmentRow
    <3>3. story(v) = {entry(m) : m \in 1..Version(v)}
      BY <1>2, Zenon
    <3>4. after(v) = {entry(m) : m \in 1..Version(v)'}
      OBVIOUS
    <3> HIDE DEF entry, story, after, n
    <3> QED BY <3>1, <3>2, <3>3, <3>4, Zenon
  <2>3. AssignmentRow(v, t).kind = "vehicle_assignment_change"
    BY Zenon DEF AssignmentRow
  <2>4. {a \in audit' : a.kind = "vehicle_assignment_change"} =
          {a \in audit : a.kind = "vehicle_assignment_change"} \cup {AssignmentRow(v, t)}
    BY <1>1, <2>3, Zenon
  <2>5. {a \in audit : a.kind = "vehicle_assignment_change"} = UNION {story(w) : w \in Vehicles}
    BY Zenon DEF OwnershipInv, HistoryAudited
  <2> HIDE DEF story, after
  <2>6. \A x : (\E w \in Vehicles : x \in after(w))
               <=> (\E w \in Vehicles : x \in story(w)) \/ x = AssignmentRow(v, t)
    BY <2>1, <2>2, Zenon
  <2>7. {a \in audit' : a.kind = "vehicle_assignment_change"} = UNION {after(w) : w \in Vehicles}
    <3>1. \A x : x \in UNION {after(w) : w \in Vehicles} <=> \E w \in Vehicles : x \in after(w)
      BY SMT, Zenon
    <3>2. \A x : x \in UNION {story(w) : w \in Vehicles} <=> \E w \in Vehicles : x \in story(w)
      BY SMT, Zenon
    <3>3. \A x : x \in {a \in audit' : a.kind = "vehicle_assignment_change"}
                 <=> x \in UNION {after(w) : w \in Vehicles}
      BY <2>4, <2>5, <2>6, <3>1, <3>2, Zenon
    <3> QED BY <3>3, Zenon
  <2> QED BY <2>7, Zenon DEF HistoryAudited, after
<1> QED BY <1>4, <1>6, <1>7, <1>8, <1>9, Zenon DEF OwnershipInv
-----------------------------------------------------------------------------
(* Steps of a call                                                           *)

LEMMA SameRedis ==
    ASSUME OwnershipInv, UNCHANGED <<clock, history, redis>>
    PROVE  \A v \in Vehicles : EntryInv(v)'
<1>1. Extended
  BY SameHistory, Zenon DEF OwnershipInv
<1>2. \A v \in Vehicles : redis[v] # None => clock < redis[v].expires
  BY Zenon DEF OwnershipInv, EntryInv
<1> QED BY <1>1, <1>2, KeepEntry, Zenon

(* What a moving call may do to the audit log: nothing, unless its mismatch  *)
(* is written; a row may be taken for it only if it is told so.              *)
Recorded(new) ==
    \/ new.pc \notin {"rejected", "lost"} /\ audit' = audit
    \/ /\ new \in Mismatched /\ new.pc \in {"rejected", "lost"}
       /\ \/ audit' = audit \cup {new.row}
          \/ audit' = audit /\ \E a \in audit : Coalesced(a, new.row)

LEMMA MoveRejections ==
    ASSUME RejectionsAudited, RowsExplained, NEW d \in Calls, ~Wrote(d), NEW new,
           call'[d] = new, \A e \in Calls \ {d} : call'[e] = call[e], Recorded(new)
    PROVE  RejectionsAudited' /\ RowsExplained'
<1>1. \A e \in Calls : Wrote(e) => e # d /\ Wrote(e)' /\ call'[e].row = call[e].row
  BY Zenon DEF Wrote
<1>2. /\ audit \subseteq audit' /\ \A a \in audit' : a \in audit \/ (a = new.row /\ Wrote(d)')
  BY Zenon DEF Recorded, Wrote
<1>3. RowsExplained'
  <2> SUFFICES ASSUME NEW a \in audit', a.kind = "deployment_rejected"
               PROVE  \E e \in Calls : Wrote(e)' /\ call'[e].row = a
    BY Zenon DEF RowsExplained
  <2>1. CASE a \in audit
    BY <1>1, <2>1, Zenon DEF RowsExplained
  <2>2. CASE a = new.row /\ Wrote(d)'
    BY <2>2, Zenon
  <2> QED BY <1>2, <2>1, <2>2, Zenon
<1>4. ASSUME NEW e \in Calls \ {d}, At(e, "rejected")'
      PROVE  \/ call'[e].row \in audit'
             \/ \E g \in Calls \ {e} : /\ Wrote(g)' /\ call'[g].row \in audit'
                                       /\ Coalesced(call'[g].row, call'[e].row)
  <2>1. At(e, "rejected") /\ call'[e].row = call[e].row
    BY <1>4, Zenon DEF At
  <2> QED BY <1>1, <1>2, <2>1, Zenon DEF RejectionsAudited
<1>5. ASSUME At(d, "rejected")', call'[d].row \notin audit'
      PROVE  \E g \in Calls \ {d} : /\ Wrote(g)' /\ call'[g].row \in audit'
                                    /\ Coalesced(call'[g].row, call'[d].row)
  <2>1. new \in Mismatched /\ \E a \in audit : Coalesced(a, new.row)
    BY <1>5, Zenon DEF Recorded, At
  <2>2. PICK a \in audit : Coalesced(a, new.row)
    BY <2>1, Zenon
  <2>3. a.kind = "deployment_rejected"
    BY <2>1, <2>2, Zenon DEF Mismatched, Rejection, Coalesced
  <2>4. PICK g \in Calls : Wrote(g) /\ call[g].row = a
    BY <2>3, Zenon DEF RowsExplained
  <2> QED BY <1>1, <1>2, <2>2, <2>4, Zenon
<1>6. RejectionsAudited'
  BY <1>4, <1>5, Zenon DEF RejectionsAudited
<1> QED BY <1>3, <1>6

(* One call moves, at one moment: what remains to be shown of it.            *)
LEMMA MoveInv ==
    ASSUME OwnershipInv, NEW d \in Calls, UNCHANGED <<clock, history>>, ~Wrote(d),
           NEW new \in Called \cup Mismatched \cup Returned, call' = [call EXCEPT ![d] = new],
           CallInv(d)', redis' \in [Vehicles -> Entry \cup {None}],
           \A v \in Vehicles : EntryInv(v)', Recorded(new)
    PROVE  OwnershipInv'
<1>0. OwnershipTypeOK /\ Extended
  BY SameHistory, Zenon DEF OwnershipInv
<1>1. /\ call' \in [Calls -> {Unused} \cup Called \cup Mismatched \cup Returned] /\ call'[d] = new
      /\ \A e \in Calls \ {d} : call'[e] = call[e]
  BY <1>0, Zenon DEF OwnershipTypeOK
<1>2. \A a \in audit' : a \in audit \/ a.kind = "deployment_rejected"
  BY Zenon DEF Recorded, Mismatched, Rejection
<1>3. audit \subseteq audit'
  BY Zenon DEF Recorded
<1>4. OwnershipTypeOK'
  BY <1>0, <1>1, <1>2, Zenon DEF OwnershipTypeOK
<1>5. \A e \in Calls : CallInv(e)'
  BY <1>0, <1>1, KeepCall, Zenon
<1>6. RejectionsAudited' /\ RowsExplained'
  BY <1>1, MoveRejections, Zenon DEF OwnershipInv
<1>7. HistoryAudited'
  <2>1. "deployment_rejected" # "vehicle_assignment_change"
    OBVIOUS
  <2>2. {a \in audit' : a.kind = "vehicle_assignment_change"}
          = {a \in audit : a.kind = "vehicle_assignment_change"}
    BY <1>2, <1>3, <2>1, Zenon
  <2> QED BY <2>2, KeepHistoryAudited, Zenon DEF OwnershipInv
<1> QED BY <1>4, <1>5, <1>6, <1>7, Zenon DEF OwnershipInv

(* The call is made.                                                         *)
LEMMA BeginInv ==
    ASSUME OwnershipInv, NEW d \in Calls, NEW q \in Requests, NEW s \in Scopes, NEW c \in CorrIds,
           begin(d, q[1], q[2], s, c)
    PROVE  OwnershipInv'
<1> DEFINE new == [pc |-> "get", requester |-> q[1], tenant |-> q[2], scope |-> s, corr |-> c,
                   start |-> clock, next |-> 1, cached |-> FALSE, version |-> 0]
<1>0. /\ OwnershipTypeOK /\ clock \in Nat /\ Window \in Nat
      /\ call' = [call EXCEPT ![d] = new] /\ UNCHANGED <<clock, history, audit, redis>>
      /\ DOMAIN call = Calls /\ call[d] = Unused
  BY Types, Zenon DEF OwnershipInv, OwnershipTypeOK, begin
<1>1. new \in Called \cup Mismatched \cup Returned /\ call'[d] = new
  <2>1. q[1] \in Tenants /\ q[2] \in Tenants
    BY OwnershipAssumption
  <2> QED BY <1>0, <2>1, Zenon DEF Called, Running
<1>2. s \in Seq(Vehicles) /\ Len(s) \in Nat \ {0}
  <2>1. s \in Seq(Vehicles) /\ s # <<>>
    BY OwnershipAssumption, Zenon
  <2> QED BY <2>1
<1>3. CallInv(d)'
  BY <1>0, <1>1, <1>2 DEF CallInv
<1>4. redis' \in [Vehicles -> Entry \cup {None}]
  BY <1>0, Zenon DEF OwnershipTypeOK
<1> HIDE DEF new
<1>5. Recorded(new) /\ ~Wrote(d)
  BY <1>0 DEF new, Recorded, Wrote, Unused
<1> QED BY <1>0, <1>1, <1>3, <1>4, <1>5, SameRedis, MoveInv, Zenon

(* FR-021 and its other side, for one call: what it went by is recent.       *)
Delivered(d) ==
    \A i \in 1..Len(call[d].scope) :
        \E n \in 1..Version(call[d].scope[i]) :
            /\ history[call[d].scope[i]][n].tenant = call[d].tenant
            /\ OwnerWithin(call[d].scope[i], n, Ttl + 2 * Window)

Refused(d) ==
    \E n \in 0..Version(Vehicle(d)) :
        /\ OwnerAt(Vehicle(d), n) # call[d].tenant
        /\ OwnerWithin(Vehicle(d), n, Ttl + Window)

LEMMA TwoCalls ==
    ASSUME NEW h \in Nat, NEW ttl \in Nat, NEW w \in Nat, NEW s \in Nat, NEW now \in Nat,
           h + ttl + w > s, now \leq s + w
    PROVE  h + (ttl + 2 * w) > now
  OBVIOUS

LEMMA Earlier ==
    ASSUME NEW h \in Nat, NEW ttl \in Nat, NEW w \in Nat, NEW s \in Nat, NEW now \in Nat,
           h + ttl + w > now, s \leq now
    PROVE  h + ttl + w > s
  OBVIOUS

LEMMA NextVersion ==
    ASSUME NEW k \in Nat, NEW n \in 1..k, n < k
    PROVE  n + 1 \in 1..k
  OBVIOUS

LEMMA SameOwned ==
    ASSUME history' = history, NEW v, NEW tenant, NEW t
    PROVE  Owned(v, tenant, t)' <=> Owned(v, tenant, t)
  BY Zenon DEF Owned, Recent, Version

LEMMA NextVehicleDoes ==
    ASSUME NEW d \in Calls, call[d] \in Called
    PROVE  /\ NextVehicle(d) \in Called
           /\ NextVehicle(d).pc = "get" /\ NextVehicle(d).next = call[d].next + 1
           /\ NextVehicle(d).scope = call[d].scope /\ NextVehicle(d).tenant = call[d].tenant
           /\ NextVehicle(d).start = call[d].start
<1>1. call[d].next + 1 \in Nat /\ 0 \in Nat
  BY DEF Called
<1>2. "get" \in Running
  BY DEF Running
<1> QED BY <1>1, <1>2, ZenonT(60) DEF NextVehicle, Called

LEMMA RejectionRowType ==
    ASSUME OwnershipTypeOK, NEW d \in Calls, call[d] \in Called, Vehicle(d) \in Vehicles,
           NEW n \in 0..Version(Vehicle(d))
    PROVE  RejectionRow(d, n) \in Rejection
<1>1. call[d].requester \in Tenants /\ call[d].tenant \in Tenants /\ call[d].corr \in CorrIds
  BY Zenon DEF Called
<1>2. <<call[d].corr>> \in Seq(CorrIds)
  BY <1>1
<1>3. OwnerAt(Vehicle(d), n) \in Tenants \cup {None}
  <2>1. CASE n = 0
    BY <2>1, Zenon DEF OwnerAt
  <2>2. CASE n # 0
    <3>1. PICK v \in Vehicles : v = Vehicle(d)
      BY Zenon
    <3>2. n \in 1..Version(v)
      BY <2>2, <3>1, Types
    <3> QED BY <2>2, <3>1, <3>2, Types, Zenon DEF OwnerAt
  <2> QED BY <2>1, <2>2
<1> QED BY <1>1, <1>2, <1>3, Zenon DEF RejectionRow, Rejection

(* get_owner's answer, if it is recent, moves the call on: to the next       *)
(* vehicle, to the collector or to the rejection.                            *)
LEMMA AnsweredDoes ==
    ASSUME OwnershipInv, NEW d \in Calls, call[d].pc \in Running,
           NEW n \in 0..Version(Vehicle(d)), Recent(Vehicle(d), n, clock), Answered(d, n),
           UNCHANGED <<clock, history>>
    PROVE  /\ \E new \in Called \cup Mismatched \cup Returned :
                 call' = [call EXCEPT ![d] = new] /\ new.pc \notin {"rejected", "lost"}
           /\ CallInv(d)'
           /\ call'[d].pc = "deployed" => Delivered(d)
           /\ call'[d].pc = "reject" => Refused(d)
<1> DEFINE c == call[d]
<1>0. /\ OwnershipTypeOK /\ CallInv(d) /\ clock \in Nat /\ Ttl \in Nat /\ Ttl > 0 /\ Window \in Nat
      /\ DOMAIN call = Calls
  BY Types, Zenon DEF OwnershipInv, OwnershipTypeOK
<1>1. /\ c \in Called /\ c.start \in Nat /\ c.next \in Nat /\ c.next \in 1..Len(c.scope)
      /\ Len(c.scope) \in Nat /\ c.tenant \in Tenants
      /\ \A i \in 1..Len(c.scope) : c.scope[i] \in Vehicles
  BY <1>0, CallTypes, Zenon DEF CallInv, Called
<1>2. PICK v \in Vehicles : v = Vehicle(d) /\ v = c.scope[c.next]
  BY <1>1, Zenon DEF Vehicle
<1>3. /\ c.start \leq clock /\ clock \leq c.start + Window
      /\ \A i \in 1..(c.next - 1) : Owned(c.scope[i], c.tenant, c.start)
  BY <1>0, Zenon DEF CallInv
<1>4. /\ Version(v) \in Nat /\ n \in 0..Version(v) /\ Recent(v, n, clock)
      /\ \A m \in 1..Version(v) : history[v][m].at \in Nat
  BY <1>0, <1>2, Types, Zenon
<1>5. OwnerAt(v, n) = c.tenant => Owned(v, c.tenant, c.start) /\ Owned(v, c.tenant, clock)
  <2> SUFFICES ASSUME OwnerAt(v, n) = c.tenant
               PROVE  Owned(v, c.tenant, c.start) /\ Owned(v, c.tenant, clock)
    OBVIOUS
  <2>1. n \in 1..Version(v) /\ history[v][n].tenant = c.tenant
    BY <1>1, <1>4, OwnershipAssumption DEF OwnerAt
  <2>2. Recent(v, n, c.start)
    <3> SUFFICES ASSUME n < Version(v) PROVE history[v][n + 1].at + Ttl + Window > c.start
      BY Zenon DEF Recent
    <3>1. history[v][n + 1].at \in Nat /\ history[v][n + 1].at + Ttl + Window > clock
      BY <1>4 DEF Recent
    <3> QED BY <1>0, <1>1, <1>3, <3>1, Earlier, Zenon
  <2> QED BY <1>4, <2>1, <2>2, Zenon DEF Owned
<1>6. CASE OwnerAt(v, n) # c.tenant
  <2> DEFINE new == [pc |-> "reject", row |-> RejectionRow(d, n)]
  <2>1. call' = [call EXCEPT ![d] = new] /\ call'[d] = new
    BY <1>0, <1>2, <1>6, Zenon DEF Answered
  <2>2. new \in Mismatched /\ new.pc = "reject"
    <3>1. RejectionRow(d, n) \in Rejection
      BY <1>0, <1>1, <1>2, RejectionRowType, Zenon
    <3> QED BY <3>1, Zenon DEF Mismatched
  <2> HIDE DEF new
  <2>3. CallInv(d)'
    BY <2>1, <2>2 DEF CallInv, Running
  <2>4. Refused(d)
    <3>1. OwnerWithin(v, n, Ttl + Window)
      <4> SUFFICES ASSUME n < Version(v) PROVE history[v][n + 1].at + (Ttl + Window) > clock
        BY Zenon DEF OwnerWithin
      <4>1. history[v][n + 1].at \in Nat /\ history[v][n + 1].at + Ttl + Window > clock
        BY <1>4 DEF Recent
      <4> QED BY <1>0, <4>1
    <3> QED BY <1>2, <1>4, <1>6, <3>1, Zenon DEF Refused
  <2> QED BY <2>1, <2>2, <2>3, <2>4, Zenon
<1>7. CASE OwnerAt(v, n) = c.tenant /\ c.next # Len(c.scope)
  <2> DEFINE new == NextVehicle(d)
  <2>1. call' = [call EXCEPT ![d] = new] /\ call'[d] = new
    BY <1>0, <1>2, <1>7, Zenon DEF Answered
  <2>2. /\ new \in Called /\ new.pc = "get" /\ new.start = c.start /\ new.next = c.next + 1
        /\ new.scope = c.scope /\ new.tenant = c.tenant
    BY <1>1, NextVehicleDoes, Zenon
  <2> HIDE DEF new
  <2>3. CallInv(d)'
    <3>1. ASSUME NEW i \in 1..(new.next - 1) PROVE Owned(c.scope[i], c.tenant, c.start)
      <4>1. i \in 1..(c.next - 1) \/ i = c.next
        BY <1>1, <2>2, <3>1
      <4> QED BY <1>2, <1>3, <1>5, <1>7, <4>1, Zenon
    <3>2. \A i \in 1..(new.next - 1) : Owned(call[d].scope[i], call[d].tenant, call[d].start)'
      BY <2>1, <2>2, <3>1, SameOwned, Zenon
    <3>3. new.next \in 1..Len(c.scope)
      BY <1>1, <1>7, <2>2
    <3> QED BY <1>1, <1>3, <2>1, <2>2, <3>2, <3>3, Zenon DEF CallInv
  <2> QED BY <2>1, <2>2, <2>3, Zenon
<1>8. CASE OwnerAt(v, n) = c.tenant /\ c.next = Len(c.scope)
  <2> DEFINE new == [pc |-> "deployed"]
  <2>1. call' = [call EXCEPT ![d] = new] /\ call'[d] = new
    BY <1>0, <1>2, <1>8, Zenon DEF Answered
  <2>2. new \in Returned /\ new.pc = "deployed"
    BY Zenon DEF Returned
  <2> HIDE DEF new
  <2>3. CallInv(d)'
    BY <2>1, <2>2, Zenon DEF CallInv, Running
  <2>4. Delivered(d)
    <3> SUFFICES ASSUME NEW i \in 1..Len(c.scope)
                 PROVE  \E m \in 1..Version(c.scope[i]) :
                            /\ history[c.scope[i]][m].tenant = c.tenant
                            /\ OwnerWithin(c.scope[i], m, Ttl + 2 * Window)
      BY Zenon DEF Delivered
    <3>1. PICK w \in Vehicles : w = c.scope[i]
      BY <1>1, Zenon
    <3>2. Owned(w, c.tenant, c.start)
      <4>1. i \in 1..(c.next - 1) \/ i = c.next
        BY <1>1, <1>8
      <4> QED BY <1>2, <1>3, <1>5, <1>8, <3>1, <4>1, Zenon
    <3>3. PICK m \in 1..Version(w) : history[w][m].tenant = c.tenant /\ Recent(w, m, c.start)
      BY <3>2, Zenon DEF Owned
    <3>4. OwnerWithin(w, m, Ttl + 2 * Window)
      <4> SUFFICES ASSUME m < Version(w) PROVE history[w][m + 1].at + (Ttl + 2 * Window) > clock
        BY Zenon DEF OwnerWithin
      <4>1. m + 1 \in 1..Version(w)
        BY <1>0, Types
      <4>2. history[w][m + 1].at \in Nat /\ history[w][m + 1].at + Ttl + Window > c.start
        BY <1>0, <3>3, <4>1, Types, Zenon DEF Recent
      <4>3. PICK h \in Nat, s \in Nat : /\ h = history[w][m + 1].at
                                       /\ h + Ttl + Window > s /\ clock \leq s + Window
        BY <1>1, <1>3, <4>2, Zenon
      <4>4. h + (Ttl + 2 * Window) > clock
        BY <1>0, <4>3, TwoCalls, Zenon
      <4> QED BY <4>3, <4>4, Zenon
    <3> QED BY <3>1, <3>3, <3>4, ZenonT(60)
  <2> QED BY <2>1, <2>2, <2>3, <2>4, Zenon
<1> QED BY <1>6, <1>7, <1>8, Zenon

(* What a step of call d must do: keep the invariant, leave the other calls  *)
(* alone, and deploy or refuse only on a recent owner.                       *)
GoodStep(d) ==
    /\ OwnershipInv'
    /\ \A e \in Calls \ {d} : call'[e] = call[e]
    /\ call'[d].pc = "deployed" => Delivered(d)
    /\ call'[d].pc = "reject" => Refused(d)

LEMMA AnswerStep ==
    ASSUME OwnershipInv, NEW d \in Calls, call[d].pc \in Running,
           NEW n \in 0..Version(Vehicle(d)), Recent(Vehicle(d), n, clock), Answered(d, n),
           UNCHANGED <<clock, history, audit>>,
           redis' \in [Vehicles -> Entry \cup {None}], \A v \in Vehicles : EntryInv(v)'
    PROVE  GoodStep(d)
<1>1. /\ CallInv(d)'
      /\ call'[d].pc = "deployed" => Delivered(d)
      /\ call'[d].pc = "reject" => Refused(d)
  BY AnsweredDoes, Zenon
<1>2. PICK new \in Called \cup Mismatched \cup Returned :
        call' = [call EXCEPT ![d] = new] /\ new.pc \notin {"rejected", "lost"}
  BY AnsweredDoes, Zenon
<1>3. OwnershipInv'
  <2>1. Recorded(new) /\ ~Wrote(d)
    BY <1>2, Zenon DEF Recorded, Wrote, Running
  <2> QED BY <1>1, <1>2, <2>1, MoveInv, Zenon
<1>4. \A e \in Calls \ {d} : call'[e] = call[e]
  BY <1>2, Zenon DEF OwnershipInv, OwnershipTypeOK
<1> QED BY <1>1, <1>3, <1>4, Zenon DEF GoodStep

(* A step that leaves the owner's answer for later, or has had it.           *)
LEMMA OtherStep ==
    ASSUME OwnershipInv, NEW d \in Calls, UNCHANGED <<clock, history, redis>>,
           NEW new \in Called \cup Mismatched \cup Returned, call' = [call EXCEPT ![d] = new],
           CallInv(d)', new.pc \notin {"deployed", "reject"}, ~Wrote(d), Recorded(new)
    PROVE  GoodStep(d)
<1>1. OwnershipTypeOK /\ redis' \in [Vehicles -> Entry \cup {None}] /\ DOMAIN call = Calls
  BY Zenon DEF OwnershipInv, OwnershipTypeOK
<1>2. OwnershipInv'
  BY <1>1, SameRedis, MoveInv, Zenon
<1>3. call'[d] = new /\ \A e \in Calls \ {d} : call'[e] = call[e]
  BY <1>1, Zenon
<1> QED BY <1>2, <1>3, Zenon DEF GoodStep

(* A call that is under way, with the facts its steps need.                  *)
LEMMA UnderWay ==
    ASSUME OwnershipInv, NEW d \in Calls, call[d].pc \in Running
    PROVE  /\ OwnershipTypeOK /\ CallInv(d) /\ call[d] \in Called /\ call[d].start \in Nat
           /\ clock \in Nat /\ Ttl \in Nat /\ Ttl > 0 /\ Window \in Nat
           /\ Vehicle(d) \in Vehicles /\ Version(Vehicle(d)) \in Nat
           /\ \A n \in 1..Version(Vehicle(d)) : history[Vehicle(d)][n].at \in Nat
           /\ EntryInv(Vehicle(d)) /\ call[d].start \leq clock
           /\ redis \in [Vehicles -> Entry \cup {None}]
<1>1. OwnershipTypeOK /\ CallInv(d) /\ call[d].next \in 1..Len(call[d].scope)
      /\ call[d].start \leq clock /\ redis \in [Vehicles -> Entry \cup {None}]
  BY Zenon DEF OwnershipInv, CallInv, OwnershipTypeOK
<1>2. call[d] \in Called /\ Vehicle(d) \in Vehicles
  BY <1>1, CallTypes, Zenon
<1>3. EntryInv(Vehicle(d)) /\ call[d].start \in Nat
  BY <1>2, Zenon DEF OwnershipInv, Called
<1> QED BY <1>1, <1>2, <1>3, Types, Zenon

LEMMA HitStep ==
    ASSUME OwnershipInv, NEW d \in Calls, redis_hit(d)
    PROVE  GoodStep(d)
<1>0. /\ call[d].pc \in Running /\ redis[Vehicle(d)] # None
      /\ Answered(d, redis[Vehicle(d)].version) /\ UNCHANGED <<clock, history, audit, redis>>
  BY Zenon DEF redis_hit, At, Running
<1>1. PICK v \in Vehicles : v = Vehicle(d) /\ EntryInv(v) /\ Version(v) \in Nat
                            /\ \A n \in 1..Version(v) : history[v][n].at \in Nat
  BY <1>0, UnderWay, Zenon
<1>2. /\ clock \in Nat /\ Ttl \in Nat /\ Window \in Nat
      /\ redis[v].version \in Nat /\ redis[v].expires \in Nat
      /\ redis' \in [Vehicles -> Entry \cup {None}]
  BY <1>0, <1>1, UnderWay, Types, Zenon
<1>3. PICK n \in 0..Version(v), e \in Nat :
        /\ n = redis[v].version /\ e = redis[v].expires /\ clock < e
        /\ n < Version(v) => history[v][n + 1].at + Ttl + Window \geq e
  BY <1>0, <1>1, <1>2 DEF EntryInv
<1>4. Recent(v, n, clock)
  <2> SUFFICES ASSUME n < Version(v) PROVE history[v][n + 1].at + Ttl + Window > clock
    BY Zenon DEF Recent
  <2>1. history[v][n + 1].at \in Nat
    BY <1>1
  <2> QED BY <1>2, <1>3, <2>1
<1>5. \A w \in Vehicles : EntryInv(w)'
  BY <1>0, SameRedis, Zenon
<1>6. n \in 0..Version(Vehicle(d)) /\ Recent(Vehicle(d), n, clock) /\ Answered(d, n)
  BY <1>0, <1>1, <1>3, <1>4, Zenon
<1> QED BY <1>0, <1>2, <1>5, <1>6, AnswerStep, Zenon

LEMMA MissStep ==
    ASSUME OwnershipInv, NEW d \in Calls, redis_miss(d)
    PROVE  GoodStep(d)
<1>0. /\ call[d].pc = "get" /\ call[d].pc \in Running /\ UNCHANGED <<clock, history, audit, redis>>
  BY Zenon DEF redis_miss, At, Running
<1>1. PICK up \in BOOLEAN : call' = [call EXCEPT ![d].pc = "query", ![d].cached = up]
  BY Zenon DEF redis_miss
<1>2. call[d] \in Called /\ CallInv(d) /\ Extended /\ DOMAIN call = Calls
  BY <1>0, UnderWay, SameHistory, Zenon DEF OwnershipTypeOK
<1> DEFINE new == [call[d] EXCEPT !.pc = "query", !.cached = up]
<1>3. call' = [call EXCEPT ![d] = new] /\ call'[d] = new
  BY <1>1, <1>2, Zenon
<1>4. /\ new \in Called /\ new.pc = "query" /\ new.start = call[d].start /\ new.next = call[d].next
      /\ new.scope = call[d].scope /\ new.tenant = call[d].tenant
  BY <1>2, ZenonT(60) DEF Called, Running
<1> HIDE DEF new
<1>5. CallInv(d)'
  <2>1. \A i \in 1..(call[d].next - 1) : Owned(call[d].scope[i], call[d].tenant, call[d].start)'
    BY <1>0, <1>2, <1>3, <1>4, SameOwned, Zenon DEF CallInv
  <2> QED BY <1>0, <1>2, <1>3, <1>4, <2>1, Zenon DEF CallInv
<1>6. Recorded(new) /\ ~Wrote(d)
  BY <1>0, <1>4, Zenon DEF Recorded, Wrote
<1> QED BY <1>0, <1>3, <1>4, <1>5, <1>6, OtherStep, Zenon

LEMMA QueryStep ==
    ASSUME OwnershipInv, NEW d \in Calls, query(d)
    PROVE  GoodStep(d)
<1>0. /\ call[d].pc = "query" /\ call[d].pc \in Running /\ UNCHANGED <<clock, history, audit, redis>>
  BY Zenon DEF query, At, Running
<1>1. /\ call[d] \in Called /\ CallInv(d) /\ DOMAIN call = Calls
      /\ Version(Vehicle(d)) \in Nat
  BY <1>0, UnderWay, Zenon DEF OwnershipTypeOK
<1>2. PICK n \in Nat, pc \in {"set", "check"} :
        /\ n = Version(Vehicle(d)) /\ (pc = "set" => n > 0)
        /\ call' = [call EXCEPT ![d].version = n, ![d].pc = pc]
  BY <1>1, Zenon DEF query
<1> DEFINE new == [call[d] EXCEPT !.version = n, !.pc = pc]
<1>3. call' = [call EXCEPT ![d] = new] /\ call'[d] = new
  BY <1>1, <1>2, Zenon
<1>4. /\ new \in Called /\ new.pc = pc /\ new.start = call[d].start /\ new.next = call[d].next
      /\ new.scope = call[d].scope /\ new.tenant = call[d].tenant /\ new.version = n
  BY <1>1, Zenon DEF Called, Running
<1> HIDE DEF new
<1>5. CallInv(d)'
  <2>1. \A i \in 1..(call[d].next - 1) : Owned(call[d].scope[i], call[d].tenant, call[d].start)'
    BY <1>0, <1>1, <1>3, <1>4, SameOwned, Zenon DEF CallInv
  <2>2. Vehicle(d)' = Vehicle(d) /\ Version(Vehicle(d))' = n
    BY <1>0, <1>2, <1>3, <1>4, Zenon DEF Vehicle, Version
  <2> QED BY <1>0, <1>1, <1>2, <1>3, <1>4, <2>1, <2>2, SMTT(60) DEF CallInv
<1>6. Recorded(new) /\ ~Wrote(d)
  BY <1>0, <1>4, Zenon DEF Recorded, Wrote
<1> QED BY <1>0, <1>3, <1>4, <1>5, <1>6, OtherStep, Zenon

(* What a call read from the table is recent.                                *)
LEMMA ReadIsRecent ==
    ASSUME OwnershipInv, NEW d \in Calls, call[d].pc \in {"set", "check"}
    PROVE  /\ call[d].version \in 0..Version(Vehicle(d))
           /\ Recent(Vehicle(d), call[d].version, clock)
<1>0. call[d].pc \in Running
  BY Zenon DEF Running
<1>1. PICK v \in Vehicles : v = Vehicle(d) /\ Version(v) \in Nat
                            /\ \A n \in 1..Version(v) : history[v][n].at \in Nat
  BY <1>0, UnderWay, Zenon
<1>2. PICK n \in 0..Version(v), s \in Nat :
        /\ n = call[d].version /\ s = call[d].start /\ clock \leq s + Window
        /\ n < Version(v) => history[v][n + 1].at \geq s
  BY <1>0, <1>1, UnderWay, Zenon DEF CallInv
<1>3. clock \in Nat /\ Ttl \in Nat /\ Ttl > 0 /\ Window \in Nat
  BY <1>0, UnderWay, Zenon
<1>4. Recent(v, n, clock)
  <2> SUFFICES ASSUME n < Version(v) PROVE history[v][n + 1].at + Ttl + Window > clock
    BY Zenon DEF Recent
  <2>1. history[v][n + 1].at \in Nat
    BY <1>1
  <2> QED BY <1>2, <1>3, <2>1
<1> QED BY <1>1, <1>2, <1>4, Zenon

(* The write-back, done or lost.                                             *)
LEMMA SetEntries ==
    ASSUME OwnershipInv, NEW d \in Calls, redis_set(d)
    PROVE  redis' \in [Vehicles -> Entry \cup {None}] /\ \A v \in Vehicles : EntryInv(v)'
<1>0. /\ call[d].pc = "set" /\ call[d].pc \in Running /\ UNCHANGED <<clock, history, audit>>
  BY Zenon DEF redis_set, At, Running
<1>1. PICK w \in Vehicles, n \in Nat, s \in Nat :
        /\ w = Vehicle(d) /\ n = call[d].version /\ s = call[d].start
  BY <1>0, UnderWay, ZenonT(60) DEF Called
<1>2. /\ n \in 1..Version(w) /\ clock \leq s + Window
      /\ n < Version(w) => history[w][n + 1].at \geq s
  <2>1. CallInv(d) /\ Version(w) \in Nat
    BY <1>0, <1>1, UnderWay, Zenon
  <2>2. n \in 0..Version(w) /\ n > 0
    BY <1>0, <1>1, <2>1, Zenon DEF CallInv
  <2> QED BY <1>0, <1>1, <2>1, <2>2 DEF CallInv
<1>3. /\ OwnershipTypeOK /\ Extended /\ clock \in Nat /\ Ttl \in Nat /\ Ttl > 0 /\ Window \in Nat
      /\ redis \in [Vehicles -> Entry \cup {None}]
      /\ Version(w) \in Nat /\ \A m \in 1..Version(w) : history[w][m].at \in Nat
  BY <1>0, <1>1, UnderWay, SameHistory, Zenon
<1>4. CASE redis' = redis
  BY <1>0, <1>3, <1>4, SameRedis, Zenon
<1>5. CASE redis' = [redis EXCEPT ![w] = [version |-> n, expires |-> clock + Ttl]]
  <2>1. PICK x \in Nat : x = clock + Ttl
    BY <1>3
  <2>2. redis' = [redis EXCEPT ![w] = [version |-> n, expires |-> x]] /\ [version |-> n, expires |-> x] \in Entry
    BY <1>5, <2>1, Zenon DEF Entry
  <2>3. redis' \in [Vehicles -> Entry \cup {None}]
    BY <1>3, <2>2, Zenon
  <2>4. redis'[w].version = n /\ redis'[w].expires = x /\ \A v \in Vehicles \ {w} : redis'[v] = redis[v]
    BY <1>3, <2>2, Zenon
  <2>5. EntryInv(w)'
    <3>1. Version(w)' = Version(w) /\ history' = history /\ clock' = clock
      BY <1>0, Zenon DEF Version
    <3>2. n < Version(w) => history[w][n + 1].at + Ttl + Window \geq x
      <4> SUFFICES ASSUME n < Version(w) PROVE history[w][n + 1].at + Ttl + Window \geq x
        OBVIOUS
      <4>1. n + 1 \in 1..Version(w)
        BY <1>2, <1>3, NextVersion, Zenon
      <4>2. PICK h \in Nat : h = history[w][n + 1].at /\ h \geq s
        BY <1>2, <1>3, <4>1, Zenon
      <4> QED BY <1>2, <1>3, <2>1, <4>2
    <3>3. clock < x /\ x \leq clock + Ttl
      BY <1>3, <2>1
    <3> QED BY <1>2, <2>4, <3>1, <3>2, <3>3, Zenon DEF EntryInv
  <2>6. ASSUME NEW v \in Vehicles \ {w} PROVE EntryInv(v)'
    <3>1. redis[v] # None => clock < redis[v].expires
      BY Zenon DEF OwnershipInv, EntryInv
    <3> QED BY <1>0, <1>3, <2>4, <3>1, KeepEntry, Zenon
  <2> QED BY <2>3, <2>5, <2>6, Zenon
<1> QED BY <1>1, <1>4, <1>5, Zenon DEF redis_set

LEMMA SetStep ==
    ASSUME OwnershipInv, NEW d \in Calls, redis_set(d)
    PROVE  GoodStep(d)
<1>1. /\ call[d].pc \in {"set", "check"} /\ call[d].pc \in Running
      /\ Answered(d, call[d].version) /\ UNCHANGED <<clock, history, audit>>
  BY Zenon DEF redis_set, At, Running
<1>2. call[d].version \in 0..Version(Vehicle(d)) /\ Recent(Vehicle(d), call[d].version, clock)
  BY <1>1, ReadIsRecent, Zenon
<1> QED BY <1>1, <1>2, SetEntries, AnswerStep, Zenon

LEMMA ResumeStep ==
    ASSUME OwnershipInv, NEW d \in Calls, resume(d)
    PROVE  GoodStep(d)
<1>1. /\ call[d].pc \in {"set", "check"} /\ call[d].pc \in Running
      /\ Answered(d, call[d].version) /\ UNCHANGED <<clock, history, audit, redis>>
  BY Zenon DEF resume, At, Running
<1>2. call[d].version \in 0..Version(Vehicle(d)) /\ Recent(Vehicle(d), call[d].version, clock)
  BY <1>1, ReadIsRecent, Zenon
<1>3. redis' \in [Vehicles -> Entry \cup {None}]
  BY <1>1, Zenon DEF OwnershipInv, OwnershipTypeOK
<1> QED BY <1>1, <1>2, <1>3, SameRedis, AnswerStep, Zenon

(* The exception leaves the call.                                            *)
LEMMA FailedStep ==
    ASSUME OwnershipInv, NEW d \in Calls, ~Wrote(d),
           UNCHANGED <<clock, history, audit, redis>>,
           call' = [call EXCEPT ![d] = [pc |-> "failed"]]
    PROVE  GoodStep(d)
<1> DEFINE new == [pc |-> "failed"]
<1>1. new \in Returned /\ new.pc = "failed" /\ DOMAIN call = Calls /\ call'[d] = new
  BY Zenon DEF Returned, OwnershipInv, OwnershipTypeOK
<1> HIDE DEF new
<1>2. CallInv(d)' /\ Recorded(new) /\ ~Wrote(d) /\ new.pc \notin {"deployed", "reject"}
  BY <1>1 DEF CallInv, Running, Recorded, Wrote
<1>3. call' = [call EXCEPT ![d] = new]
  BY DEF new
<1> QED BY <1>1, <1>2, <1>3, OtherStep, Zenon

(* The audit write of a mismatch, told of or not.                            *)
LEMMA WrittenStep ==
    ASSUME OwnershipInv, NEW d \in Calls, At(d, "reject"), UNCHANGED <<clock, history, redis>>,
           NEW pc \in {"rejected", "lost"}, call' = [call EXCEPT ![d].pc = pc],
           \/ audit' = audit \cup {call[d].row}
           \/ audit' = audit /\ \E a \in audit : Coalesced(a, call[d].row)
    PROVE  GoodStep(d)
<1>1. call[d].pc = "reject" /\ DOMAIN call = Calls
  BY Zenon DEF At, OwnershipInv, OwnershipTypeOK
<1>2. call[d] \in Mismatched
  <2>1. call[d] \in {Unused} \cup Called \cup Mismatched \cup Returned
    BY Zenon DEF OwnershipInv, OwnershipTypeOK
  <2> QED BY <1>1, <2>1 DEF Unused, Called, Returned, Running
<1> DEFINE new == [call[d] EXCEPT !.pc = pc]
<1>3. new \in Mismatched /\ new.pc = pc /\ new.row = call[d].row
  BY <1>2, ZenonT(60) DEF Mismatched
<1>4. call' = [call EXCEPT ![d] = new] /\ call'[d] = new
  BY <1>1, Zenon
<1> HIDE DEF new
<1>5. Recorded(new)
  BY <1>3, Zenon DEF Recorded
<1>6. CallInv(d)' /\ new.pc \notin {"deployed", "reject"} /\ ~Wrote(d)
  BY <1>1, <1>3, <1>4 DEF CallInv, Running, Wrote
<1> QED BY <1>3, <1>4, <1>5, <1>6, OtherStep, Zenon

LEMMA RejectionStep ==
    ASSUME OwnershipInv, NEW d \in Calls, write_rejection(d)
    PROVE  GoodStep(d)
<1>1. At(d, "reject") /\ UNCHANGED <<clock, history, redis>>
  BY Zenon DEF write_rejection
<1>2. CASE /\ call' = [call EXCEPT ![d].pc = "rejected"]
           /\ \/ audit' = audit \cup {call[d].row}
              \/ audit' = audit /\ \E a \in audit : Coalesced(a, call[d].row)
  BY <1>1, <1>2, WrittenStep, Zenon
<1>3. CASE call' = [call EXCEPT ![d] = [pc |-> "failed"]] /\ audit' = audit
  <2>1. ~Wrote(d)
    BY <1>1 DEF At, Wrote
  <2> QED BY <1>1, <1>3, <2>1, FailedStep, Zenon
<1> QED BY <1>2, <1>3, Zenon DEF write_rejection

LEMMA LostStep ==
    ASSUME OwnershipInv, NEW d \in Calls, answer_lost(d)
    PROVE  GoodStep(d)
  BY WrittenStep, Zenon DEF answer_lost

LEMMA FailsStep ==
    ASSUME OwnershipInv, NEW d \in Calls, database_fails(d)
    PROVE  GoodStep(d)
<1>1. /\ ~Wrote(d) /\ UNCHANGED <<clock, history, audit, redis>>
      /\ call' = [call EXCEPT ![d] = [pc |-> "failed"]]
  BY DEF database_fails, Wrote
<1> QED BY <1>1, FailedStep, Zenon
-----------------------------------------------------------------------------
(* The step keeps the invariant, and a call that it deploys or refuses is    *)
(* deployed or refused on a recent owner.                                    *)
Sound ==
    /\ OwnershipInv'
    /\ \A d \in Calls : ~At(d, "deployed") /\ At(d, "deployed")' => Delivered(d)
    /\ \A d \in Calls : ~At(d, "reject") /\ At(d, "reject")' => Refused(d)

LEMMA GoodIsSound ==
    ASSUME NEW d \in Calls, GoodStep(d)
    PROVE  Sound
  BY Zenon DEF GoodStep, Sound, At

LEMMA StepInv ==
    ASSUME OwnershipInv, [Next]_vars
    PROVE  Sound
<1>1. CASE Tick
  <2>1. call' = call
    BY <1>1, Zenon DEF Tick
  <2> QED BY <1>1, <2>1, TickInv, Zenon DEF Sound, At
<1>2. ASSUME NEW v \in Vehicles, forget(v) PROVE Sound
  <2>1. call' = call
    BY <1>2, Zenon DEF forget
  <2> QED BY <1>2, <2>1, ForgetInv, Zenon DEF Sound, At
<1>3. ASSUME NEW v \in Vehicles, NEW t \in Tenants, assign(v, t) PROVE Sound
  <2>1. call' = call
    BY <1>3, Zenon DEF assign
  <2> QED BY <1>3, <2>1, AssignInv, Zenon DEF Sound, At
<1>4. ASSUME NEW d \in Calls, NEW q \in Requests, NEW s \in Scopes, NEW c \in CorrIds,
             begin(d, q[1], q[2], s, c)
      PROVE  Sound
  <2>1. DOMAIN call = Calls
    BY Zenon DEF OwnershipInv, OwnershipTypeOK
  <2>2. call'[d].pc = "get" /\ \A e \in Calls \ {d} : call'[e] = call[e]
    BY <1>4, <2>1, Zenon DEF begin
  <2>3. OwnershipInv'
    BY <1>4, BeginInv, Zenon
  <2> QED BY <2>2, <2>3, Zenon DEF Sound, At
<1>5. ASSUME NEW d \in Calls, CallStep(d) PROVE Sound
  BY <1>5, HitStep, MissStep, QueryStep, SetStep, ResumeStep, RejectionStep, LostStep, FailsStep,
     GoodIsSound, Zenon DEF CallStep
<1>6. CASE UNCHANGED vars
  <2>1. UNCHANGED <<clock, history, audit, redis, call>> /\ OwnershipTypeOK
    BY <1>6, Zenon DEF vars, OwnershipInv
  <2>2. Extended /\ \A v \in Vehicles : EntryInv(v)'
    BY <2>1, SameHistory, SameRedis, Zenon
  <2>3. \A d \in Calls : CallInv(d)'
    BY <2>1, <2>2, KeepCall, Zenon
  <2>4. OwnershipTypeOK' /\ RejectionsAudited' /\ RowsExplained' /\ HistoryAudited'
    BY <2>1, KeepRejections, KeepHistoryAudited, Zenon DEF OwnershipInv, OwnershipTypeOK
  <2> QED BY <2>1, <2>2, <2>3, <2>4, Zenon DEF Sound, OwnershipInv, At
<1> QED BY <1>1, <1>2, <1>3, <1>4, <1>5, <1>6, Zenon DEF Next

LEMMA AlwaysInv == Spec => []OwnershipInv
<1>1. OwnershipInv /\ [Next]_vars => OwnershipInv'
  BY StepInv, Zenon DEF Sound
<1> QED BY InitInv, <1>1, PTL DEF Spec

(* For any constants: the clock, the table, the audit log, the cache and the *)
(* calls of deploy_with_tenant_scope_check always have their types.          *)
THEOREM OwnershipTyped == Spec => []OwnershipTypeOK
<1>1. OwnershipInv => OwnershipTypeOK
  BY Zenon DEF OwnershipInv
<1> QED BY AlwaysInv, <1>1, PTL

(* For any tenants, policies, calls and correlation ids they share: a call   *)
(* that raised the mismatch has its own deployment_rejected row, with its    *)
(* policy, vehicle and owner, or another call of the same requester that met *)
(* one under the same correlation id has its own (audit.py:113 keeps one).   *)
THEOREM RejectionsOnRecord == Spec => []RejectionsAudited
<1>1. OwnershipInv => RejectionsAudited
  BY Zenon DEF OwnershipInv
<1> QED BY AlwaysInv, <1>1, PTL

(* For any number of vehicles and assignments: the ownership history and its *)
(* audit rows tell the same story, entry for entry.                          *)
THEOREM HistoryOnRecord == Spec => []HistoryAudited
<1>1. OwnershipInv => HistoryAudited
  BY Zenon DEF OwnershipInv
<1> QED BY AlwaysInv, <1>1, PTL

(* For any lifetime of the cached owners and any duration of a call: the     *)
(* deployer sends a policy to the collector only for vehicles that each      *)
(* belonged to its tenant in the last TTL and two calls' duration.           *)
THEOREM DeliveredScope == Spec => DeliveredInScope
<1>1. OwnershipInv /\ [Next]_vars
        => [\A d \in Calls : ~At(d, "deployed") /\ At(d, "deployed")' => Delivered(d)]_vars
  BY StepInv, Zenon DEF Sound
<1> QED BY AlwaysInv, <1>1, PTL DEF Spec, DeliveredInScope, Delivered

(* For any such lifetime and duration: a call is rejected only for a vehicle *)
(* that was not its tenant's at some time in the last TTL and one call.      *)
THEOREM RejectedCause == Spec => RejectedForCause
<1>1. OwnershipInv /\ [Next]_vars
        => [\A d \in Calls : ~At(d, "reject") /\ At(d, "reject")' => Refused(d)]_vars
  BY StepInv, Zenon DEF Sound
<1> QED BY AlwaysInv, <1>1, PTL DEF Spec, RejectedForCause, Refused
=============================================================================
