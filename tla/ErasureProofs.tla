--------------------------- MODULE ErasureProofs ---------------------------
(***************************************************************************)
(* Theorems about Erasure for any vehicles, policies, requests and         *)
(* payloads and any number of faults: what a "completed" request leaves    *)
(* behind, that it is on record, and that nothing but the subject of a     *)
(* request is ever taken from a store.                                     *)
(***************************************************************************)
EXTENDS Erasure, TLAPS

(* The store's statement went through.                                       *)
Handled(r, s) == job[r].per_store[s] \in {"erased", "redacted"}

(* What is known of a request.  A row that the job met in a store belongs to *)
(* a session past its write of it, so it cannot come back; a store the job   *)
(* has not come to has nothing noted.                                        *)
RequestInv(r) ==
    /\ At(r, "new") <=> requests[r] = None
    /\ job[r].pc \in {"new", "audit_write", "registry"} => job[r].per_store["registry"] = "pending"
    /\ job[r].pc \in {"new", "audit_write", "registry", "telemetry"}
         => job[r].per_store["telemetry"] = "pending"
    /\ job[r].pc \in {"new", "audit_write", "registry", "telemetry", "audit"}
         => job[r].per_store["audit"] = "pending"
    /\ job[r].per_store["registry"] = "pending" => before[r].registry = {}
    /\ job[r].per_store["telemetry"] = "pending" => before[r].telemetry = {}
    /\ \A p \in before[r].registry : next[p] > 3
    /\ \A p \in before[r].telemetry : next[p] = Over
    /\ Handled(r, "registry") => \A p \in before[r].registry : Subject(r).id \notin scope[p]
    /\ Handled(r, "telemetry") => \A p \in before[r].telemetry : Subject(r).id \notin telemetry[p]
    /\ \A x \in before[r].audit : redacted_subject[x] # None
    /\ Status(r) \in {"completed", "partial"} => At(r, "done")
    /\ Status(r) = "completed" => \A s \in Stores : Handled(r, s)
    /\ job[r].pc \in {"registry", "telemetry", "audit", "report", "done"}
       \/ (\E s \in Stores : job[r].per_store[s] # "pending")
         => <<r, "erasure">> \in audit

(* The inductive invariant.  The writes of a session before the third leave  *)
(* no policy, those before the last no telemetry.                            *)
ErasureInv ==
    /\ ErasureTypeOK
    /\ \A p \in Policies : next[p] \leq 3 => scope[p] = {}
    /\ \A p \in Policies : next[p] # Over => telemetry[p] = {}
    /\ \A r \in Requests : RequestInv(r)

JobType == [Requests -> [pc : JobPc, per_store : [Stores -> StoreStatus]]]
RequestRow == [payload : UNION {Payloads[r] : r \in Requests},
               status : {"requested", "completed", "partial"}]
-----------------------------------------------------------------------------
(* Which write of a session is which.                                        *)
LEMMA WriteAt ==
    /\ Over = 7
    /\ \A n \in 1..7 : n # Over =>
         /\ Writes[n] = "policy" <=> n = 3
         /\ Writes[n] = "telemetry" <=> n = 6
         /\ Writes[n] \in SessionKinds \/ n \in {3, 6}
  BY DEF Over, Writes, SessionKinds

(* Report notes the status of a store and moves the job on.                  *)
LEMMA ReportDoes ==
    ASSUME job \in JobType, NEW r \in Requests, NEW s \in Stores, NEW status \in StoreStatus,
           Report(r, s, status)
    PROVE  /\ job' \in JobType /\ job'[r].pc = After[s]
           /\ job'[r].per_store = [job[r].per_store EXCEPT ![s] = status]
           /\ \A q \in Requests \ {r} : job'[q] = job[q]
<1>1. After[s] \in JobPc
  BY DEF After, JobPc, Stores
<1> QED BY <1>1, Zenon DEF Report, JobType

(* Goto moves the job and leaves the statuses of the stores.                 *)
LEMMA GotoDoes ==
    ASSUME job \in JobType, NEW r \in Requests, NEW pc \in JobPc, Goto(r, pc)
    PROVE  /\ job' \in JobType /\ job'[r].pc = pc /\ job'[r].per_store = job[r].per_store
           /\ \A q \in Requests \ {r} : job'[q] = job[q]
  BY Zenon DEF Goto, JobType

(* A step that leaves a request's row and notes alone keeps what is known of *)
(* it, if it only brings its job to an end, and if what the job met in a     *)
(* store does not come back.                                                 *)
LEMMA KeepRequest ==
    ASSUME ErasureInv, NEW r \in Requests,
           requests'[r] = requests[r], before'[r] = before[r],
           job'[r].per_store = job[r].per_store,
           \/ job'[r].pc = job[r].pc
           \/ job'[r].pc = "dead" /\ job[r].pc \notin {"new", "done"},
           \A p \in Policies : next[p] > 3 => next'[p] > 3 /\ scope'[p] \subseteq scope[p],
           \A p \in Policies : next[p] = Over => next'[p] = Over /\ telemetry'[p] \subseteq telemetry[p],
           audit \subseteq audit',
           \A x \in Rows : redacted_subject[x] # None => redacted_subject'[x] # None
    PROVE  RequestInv(r)'
<1>1. /\ RequestInv(r) /\ before[r].registry \subseteq Policies
      /\ before[r].telemetry \subseteq Policies /\ before[r].audit \subseteq Rows
  BY Zenon DEF ErasureInv, ErasureTypeOK
<1>2. /\ Status(r)' = Status(r) /\ Subject(r)' = Subject(r)
      /\ \A s \in Stores : Handled(r, s)' <=> Handled(r, s)
  BY Zenon DEF Status, Subject, Handled
<1>3. "registry" \in Stores /\ "telemetry" \in Stores
  BY Zenon DEF Stores
<1>4. /\ \A p \in before'[r].registry : next'[p] > 3
      /\ \A p \in before'[r].telemetry : next'[p] = Over
      /\ Handled(r, "registry")' => \A p \in before'[r].registry : Subject(r)'.id \notin scope'[p]
      /\ Handled(r, "telemetry")' => \A p \in before'[r].telemetry : Subject(r)'.id \notin telemetry'[p]
  BY <1>1, <1>2, <1>3, Zenon DEF RequestInv
<1>5. /\ At(r, "new")' <=> requests'[r] = None
      /\ Status(r)' \in {"completed", "partial"} => At(r, "done")'
      /\ Status(r)' = "completed" => \A s \in Stores : Handled(r, s)'
  BY <1>1, <1>2, Zenon DEF RequestInv, At
<1>6. /\ \A x \in before'[r].audit : redacted_subject'[x] # None
      /\ job'[r].pc \in {"registry", "telemetry", "audit", "report", "done"}
         \/ (\E s \in Stores : job'[r].per_store[s] # "pending")
           => <<r, "erasure">> \in audit'
  BY <1>1, Zenon DEF RequestInv
<1>7. /\ job'[r].pc \in {"new", "audit_write", "registry"} => job'[r].per_store["registry"] = "pending"
      /\ job'[r].pc \in {"new", "audit_write", "registry", "telemetry"}
           => job'[r].per_store["telemetry"] = "pending"
      /\ job'[r].pc \in {"new", "audit_write", "registry", "telemetry", "audit"}
           => job'[r].per_store["audit"] = "pending"
      /\ job'[r].per_store["registry"] = "pending" => before'[r].registry = {}
      /\ job'[r].per_store["telemetry"] = "pending" => before'[r].telemetry = {}
  BY <1>1, Zenon DEF RequestInv
<1> QED BY <1>4, <1>5, <1>6, <1>7, Zenon DEF RequestInv

(* No write, no request.                                                     *)
LEMMA InitInv == Init => ErasureInv
<1> SUFFICES ASSUME Init PROVE ErasureInv
  OBVIOUS
<1>1. ErasureTypeOK
  <2>1. job \in JobType
    BY Zenon DEF Init, JobType, JobPc, StoreStatus
  <2>2. next \in [Policies -> 1..Over]
    BY WriteAt DEF Init
  <2>3. faults \in 0..MaxFaults
    BY ErasureAssumption DEF Init
  <2>4. audit \subseteq Rows /\ redacted_subject \in [Rows -> Ids \cup {None}]
    BY Zenon DEF Init, Rows
  <2> QED BY <2>1, <2>2, <2>3, <2>4, Zenon DEF Init, ErasureTypeOK, JobType
<1>2. ASSUME NEW r \in Requests PROVE RequestInv(r)
  <2>1. /\ requests[r] = None /\ job[r].pc = "new" /\ \A s \in Stores : job[r].per_store[s] = "pending"
        /\ before[r].registry = {} /\ before[r].telemetry = {} /\ before[r].audit = {}
    BY Zenon DEF Init
  <2>2. Status(r) \notin {"completed", "partial"}
    BY <2>1, ErasureAssumption, Zenon DEF Status
  <2> QED BY <2>1, <2>2, Zenon DEF RequestInv, At, Stores, Handled
<1> QED BY <1>1, <1>2, Zenon DEF ErasureInv, Init

(* A session writes into one of the stores, each for the first time.         *)
LEMMA SessionInv ==
    ASSUME ErasureInv, NEW p \in Policies, session(p)
    PROVE  /\ ErasureInv'
           /\ \A q \in Policies : scope[q] \subseteq scope'[q] /\ telemetry[q] \subseteq telemetry'[q]
           /\ scope'[p] # {} \/ scope[p] = {}
<1>0. /\ ErasureTypeOK /\ next[p] \in 1..7 /\ next[p] # 7 /\ Over = 7
      /\ next[p] \leq 3 => scope[p] = {}
      /\ next[p] # 7 => telemetry[p] = {}
      /\ DOMAIN scope = Policies /\ DOMAIN telemetry = Policies /\ DOMAIN next = Policies
  BY WriteAt, Zenon DEF ErasureInv, ErasureTypeOK, session
<1>1. /\ next' = [next EXCEPT ![p] = next[p] + 1]
      /\ scope' = IF next[p] = 3 THEN [scope EXCEPT ![p] = ScopeOf[p]] ELSE scope
      /\ telemetry' = IF next[p] = 6 THEN [telemetry EXCEPT ![p] = ScopeOf[p]] ELSE telemetry
      /\ UNCHANGED <<redacted_subject, requests, job, before, faults>>
  BY <1>0, WriteAt, Zenon DEF session
<1>2. ScopeOf[p] \subseteq Vehicles /\ ScopeOf[p] # {}
  BY ErasureAssumption, Zenon
<1>3. audit \subseteq audit' /\ audit' \subseteq Rows
  BY <1>0 DEF session, ErasureTypeOK, Rows
<1>4. ErasureTypeOK'
  BY <1>0, <1>1, <1>2, <1>3 DEF ErasureTypeOK
<1>5. /\ \A q \in Policies : next[q] > 3 => next'[q] > 3 /\ scope'[q] \subseteq scope[q]
      /\ \A q \in Policies : next[q] = Over => next'[q] = Over /\ telemetry'[q] \subseteq telemetry[q]
  BY <1>0, <1>1 DEF ErasureTypeOK
<1>6. ASSUME NEW r \in Requests PROVE RequestInv(r)'
  BY <1>1, <1>3, <1>5, KeepRequest, Zenon
<1>7. /\ \A q \in Policies : next'[q] \leq 3 => scope'[q] = {}
      /\ \A q \in Policies : next'[q] # Over => telemetry'[q] = {}
  BY <1>0, <1>1 DEF ErasureInv, ErasureTypeOK
<1>8. \A q \in Policies : scope[q] \subseteq scope'[q] /\ telemetry[q] \subseteq telemetry'[q]
  BY <1>0, <1>1
<1>9. scope'[p] # {} \/ scope[p] = {}
  BY <1>0, <1>1, <1>2, Zenon
<1> QED BY <1>4, <1>6, <1>7, <1>8, <1>9, Zenon DEF ErasureInv

(* The request is recorded.                                                  *)
LEMMA SubmitInv ==
    ASSUME ErasureInv, NEW r \in Requests, NEW payload \in Payloads[r], submit(r, payload)
    PROVE  ErasureInv'
<1>0. /\ ErasureTypeOK /\ job \in JobType /\ DOMAIN requests = Requests /\ RequestInv(r)
      /\ job[r].pc = "new" /\ "audit_write" \in JobPc
  BY Zenon DEF ErasureInv, ErasureTypeOK, JobType, submit, At, JobPc
<1>1. /\ requests' = [requests EXCEPT ![r] = [payload |-> payload, status |-> "requested"]]
      /\ Goto(r, "audit_write") /\ UNCHANGED <<next, scope, telemetry, audit, redacted_subject, before, faults>>
  BY Zenon DEF submit, stores
<1>2. /\ job' \in JobType /\ job'[r].pc = "audit_write" /\ job'[r].per_store = job[r].per_store
      /\ \A q \in Requests \ {r} : job'[q] = job[q]
  BY <1>0, <1>1, GotoDoes, Zenon
<1>3. /\ requests'[r] = [payload |-> payload, status |-> "requested"]
      /\ requests'[r] \in RequestRow /\ requests'[r] # None
  BY <1>0, <1>1, ErasureAssumption DEF RequestRow
<1>4. ErasureTypeOK'
  BY <1>0, <1>1, <1>2, <1>3, Zenon DEF ErasureTypeOK, JobType, RequestRow
<1>5. RequestInv(r)'
  <2>1. Status(r)' = "requested"
    BY <1>3, SMTT(60) DEF Status
  <2>2. /\ \A s \in Stores : job'[r].per_store[s] = "pending"
        /\ before'[r].registry = {} /\ before'[r].telemetry = {}
    BY <1>0, <1>1, <1>2, Zenon DEF RequestInv, Stores
  <2> QED BY <1>0, <1>1, <1>2, <1>3, <2>1, <2>2, Zenon DEF RequestInv, At, Handled, Stores
<1>6. ASSUME NEW q \in Requests \ {r} PROVE RequestInv(q)'
  BY <1>1, <1>2, <1>6, KeepRequest, SMTT(60)
<1> QED BY <1>1, <1>4, <1>5, <1>6, Zenon DEF ErasureInv

(* The audit row of the request, and the start of its job.                   *)
LEMMA AuditWriteInv ==
    ASSUME ErasureInv, NEW r \in Requests, audit_write(r)
    PROVE  ErasureInv'
<1>0. /\ ErasureTypeOK /\ job \in JobType /\ RequestInv(r) /\ job[r].pc = "audit_write"
      /\ "registry" \in JobPc
  BY Zenon DEF ErasureInv, ErasureTypeOK, JobType, audit_write, At, JobPc
<1>1. /\ audit' = audit \cup {<<r, "erasure">>} /\ Goto(r, "registry")
      /\ UNCHANGED <<next, scope, telemetry, redacted_subject, requests, before, faults>>
  BY Zenon DEF audit_write
<1>2. /\ job' \in JobType /\ job'[r].pc = "registry" /\ job'[r].per_store = job[r].per_store
      /\ \A q \in Requests \ {r} : job'[q] = job[q]
  BY <1>0, <1>1, GotoDoes, Zenon
<1>3. ErasureTypeOK'
  <2>1. <<r, "erasure">> \in Rows
    BY Zenon DEF Rows
  <2> QED BY <1>0, <1>1, <1>2, <2>1, Zenon DEF ErasureTypeOK, JobType
<1>4. RequestInv(r)'
  <2>1. Status(r)' = Status(r)
    BY <1>1, Zenon DEF Status
  <2> QED BY <1>0, <1>1, <1>2, <2>1, Zenon DEF RequestInv, At, Handled, Subject
<1>5. ASSUME NEW q \in Requests \ {r} PROVE RequestInv(q)'
  BY <1>1, <1>2, <1>5, KeepRequest, Zenon
<1> QED BY <1>1, <1>3, <1>4, <1>5, Zenon DEF ErasureInv

(* A job is at one of the stores: its row is there, and not final.           *)
LEMMA AtStore ==
    ASSUME ErasureInv, NEW r \in Requests, job[r].pc \in Stores
    PROVE  /\ requests[r] \in RequestRow /\ requests[r] # None
           /\ Status(r) = "requested" /\ <<r, "erasure">> \in audit
           /\ IsVehicle(r) => Subject(r).id \in Vehicles
           /\ job[r].per_store[job[r].pc] = "pending"
<1>1. /\ RequestInv(r) /\ job[r].pc # "new" /\ job[r].pc # "done"
      /\ requests[r] \in {None} \cup RequestRow
  BY Zenon DEF ErasureInv, ErasureTypeOK, RequestRow, Stores
<1>2. requests[r] # None /\ requests[r] \in RequestRow
  BY <1>1, Zenon DEF RequestInv, At
<1>3. Status(r) = "requested" /\ <<r, "erasure">> \in audit
  BY <1>1, <1>2, Zenon DEF RequestInv, At, Status, RequestRow, Stores
<1>4. IsVehicle(r) => Subject(r).id \in Vehicles
  BY <1>2, ErasureAssumption DEF IsVehicle, Subject, RequestRow
<1>5. job[r].per_store[job[r].pc] = "pending"
  BY <1>1, Zenon DEF RequestInv, Stores
<1> QED BY <1>2, <1>3, <1>4, <1>5, Zenon

(* What is known of a request after its job has been at a store, given what  *)
(* the store holds now of the rows that were met there.                      *)
LEMMA StoreRequest ==
    ASSUME ErasureInv, NEW r \in Requests, job[r].pc \in Stores,
           NEW status \in StoreStatus \ {"pending"}, Report(r, job[r].pc, status),
           UNCHANGED <<requests, next, audit>>,
           \A p \in Policies : scope'[p] \subseteq scope[p] /\ telemetry'[p] \subseteq telemetry[p],
           job[r].pc # "registry" => before'[r].registry = before[r].registry,
           job[r].pc # "telemetry" => before'[r].telemetry = before[r].telemetry,
           \A p \in before'[r].registry : next[p] > 3,
           \A p \in before'[r].telemetry : next[p] = Over,
           job[r].pc = "registry" /\ status # "failed"
             => \A p \in before'[r].registry : Subject(r).id \notin scope'[p],
           job[r].pc = "telemetry" /\ status # "failed"
             => \A p \in before'[r].telemetry : Subject(r).id \notin telemetry'[p],
           \A x \in before'[r].audit : redacted_subject'[x] # None
    PROVE  RequestInv(r)'
<1>0. /\ job \in JobType /\ RequestInv(r) /\ DOMAIN job[r].per_store = Stores
      /\ before[r].registry \subseteq Policies /\ before[r].telemetry \subseteq Policies
  BY Zenon DEF ErasureInv, ErasureTypeOK, JobType
<1>1. /\ requests[r] # None /\ Status(r) = "requested" /\ <<r, "erasure">> \in audit
  BY AtStore, Zenon
<1>2. /\ job'[r].pc = After[job[r].pc]
      /\ job'[r].per_store = [job[r].per_store EXCEPT ![job[r].pc] = status]
  <2>1. status \in StoreStatus
    OBVIOUS
  <2> QED BY <1>0, <2>1, ReportDoes
<1>3. Status(r)' = Status(r) /\ Subject(r)' = Subject(r)
  BY Zenon DEF Status, Subject
<1>4. CASE job[r].pc = "registry"
  <2>1. /\ job'[r].pc = "telemetry" /\ job'[r].per_store["registry"] = status
        /\ job'[r].per_store["telemetry"] = "pending" /\ job'[r].per_store["audit"] = "pending"
    BY <1>0, <1>2, <1>4, SMTT(60) DEF RequestInv, After, Stores
  <2> QED BY <1>0, <1>1, <1>3, <1>4, <2>1, Zenon DEF RequestInv, At, Handled, StoreStatus
<1>5. CASE job[r].pc = "telemetry"
  <2>1. /\ job'[r].pc = "audit" /\ job'[r].per_store["telemetry"] = status
        /\ job'[r].per_store["registry"] = job[r].per_store["registry"]
        /\ job'[r].per_store["audit"] = "pending"
    BY <1>0, <1>2, <1>5, SMTT(60) DEF RequestInv, After, Stores
  <2> QED BY <1>0, <1>1, <1>3, <1>5, <2>1, Zenon DEF RequestInv, At, Handled, StoreStatus
<1>6. CASE job[r].pc = "audit"
  <2>1. /\ job'[r].pc = "report" /\ job'[r].per_store["audit"] = status
        /\ job'[r].per_store["registry"] = job[r].per_store["registry"]
        /\ job'[r].per_store["telemetry"] = job[r].per_store["telemetry"]
    BY <1>0, <1>2, <1>6 DEF RequestInv, After, Stores
  <2> QED BY <1>0, <1>1, <1>3, <1>6, <2>1, Zenon DEF RequestInv, At, Handled, StoreStatus
<1> QED BY <1>4, <1>5, <1>6, Zenon DEF Stores

(* The status of a store that was dealt with, and the place after it.        *)
LEMMA StoreStep ==
    ASSUME ErasureInv, NEW r \in Requests, job[r].pc \in Stores,
           NEW status \in StoreStatus \ {"pending"}, Report(r, job[r].pc, status),
           faults' \in 0..MaxFaults, UNCHANGED <<requests, next, audit>>,
           scope' \in [Policies -> SUBSET Vehicles], telemetry' \in [Policies -> SUBSET Vehicles],
           \A p \in Policies : scope'[p] \subseteq scope[p] /\ telemetry'[p] \subseteq telemetry[p],
           redacted_subject' \in [Rows -> Ids \cup {None}],
           \A x \in Rows : redacted_subject[x] # None => redacted_subject'[x] # None,
           before' \in [Requests -> [registry : SUBSET Policies, telemetry : SUBSET Policies,
                                     audit : SUBSET Rows]],
           \A q \in Requests \ {r} : before'[q] = before[q],
           RequestInv(r)'
    PROVE  ErasureInv'
<1>0. ErasureTypeOK /\ job \in JobType
  BY Zenon DEF ErasureInv, ErasureTypeOK, JobType
<1>1. job' \in JobType /\ \A q \in Requests \ {r} : job'[q] = job[q]
  BY <1>0, ReportDoes, Zenon
<1>2. ErasureTypeOK'
  BY <1>0, <1>1, Zenon DEF ErasureTypeOK, JobType
<1>3. ASSUME NEW q \in Requests \ {r} PROVE RequestInv(q)'
  BY <1>1, <1>3, KeepRequest, Zenon
<1>4. /\ \A q \in Policies : next'[q] \leq 3 => scope'[q] = {}
      /\ \A q \in Policies : next'[q] # Over => telemetry'[q] = {}
  BY Zenon DEF ErasureInv
<1> QED BY <1>2, <1>3, <1>4, Zenon DEF ErasureInv

(* What an UPDATE or DELETE for one vehicle leaves, and takes.               *)
LEMMA WithoutDoes ==
    ASSUME NEW table \in [Policies -> SUBSET Vehicles], NEW v
    PROVE  /\ Without(table, v) \in [Policies -> SUBSET Vehicles]
           /\ \A p \in Policies : Without(table, v)[p] = table[p] \ {v}
           /\ Holding(table, v) \subseteq Policies
           /\ \A p \in Holding(table, v) : p \in Policies /\ table[p] # {}
  BY Zenon DEF Without, Holding

(* _erase_registry, with its statement rejected or not.                      *)
LEMMA RegistryInv ==
    ASSUME ErasureInv, NEW r \in Requests, erase_registry(r)
    PROVE  /\ ErasureInv' /\ UNCHANGED <<telemetry, redacted_subject>>
           /\ \A p \in Policies : \A v \in scope[p] \ scope'[p] : IsVehicle(r) /\ v = Subject(r).id
           /\ \A p \in Policies : scope[p] # {} => scope'[p] # {}
<1> DEFINE v == Subject(r).id
           status == IF IsVehicle(r) => Admitted(v) THEN RegistryStatus(r) ELSE "failed"
<1>0. /\ ErasureTypeOK /\ job[r].pc = "registry" /\ job[r].pc \in Stores /\ RequestInv(r)
      /\ scope \in [Policies -> SUBSET Vehicles] /\ telemetry \in [Policies -> SUBSET Vehicles]
      /\ DOMAIN before = Requests /\ redacted_subject \in [Rows -> Ids \cup {None}] /\ faults \in 0..MaxFaults
  BY Zenon DEF ErasureInv, ErasureTypeOK, erase_registry, At, Stores
<1>1. /\ scope' = IF IsVehicle(r) /\ Admitted(v) THEN Without(scope, v) ELSE scope
      /\ Report(r, job[r].pc, status)
      /\ before' = IF IsVehicle(r) THEN [before EXCEPT ![r].registry = Holding(scope, v)] ELSE before
      /\ UNCHANGED <<next, telemetry, audit, redacted_subject, requests, faults>>
  BY <1>0, Zenon DEF erase_registry
<1>2. status \in StoreStatus \ {"pending"}
  BY Zenon DEF StoreStatus, RegistryStatus
<1>3. status # "failed" /\ IsVehicle(r) => Admitted(v)
  OBVIOUS
<1> HIDE DEF status, v
<1>4. /\ scope' \in [Policies -> SUBSET Vehicles]
      /\ \A p \in Policies : scope'[p] \subseteq scope[p] /\ telemetry'[p] \subseteq telemetry[p]
      /\ \A p \in Policies : \A w \in scope[p] \ scope'[p] : IsVehicle(r) /\ w = v
  BY <1>0, <1>1, WithoutDoes
<1>5. \A p \in Policies : scope[p] # {} => scope'[p] # {}
  <2>1. CASE IsVehicle(r) /\ Admitted(v)
    <3>1. \A p \in Policies : scope'[p] = scope[p] \ {v}
      BY <1>0, <1>1, <2>1, WithoutDoes, Zenon
    <3> QED BY <2>1, <3>1 DEF Admitted, Holding
  <2> QED BY <1>1, <2>1, Zenon
<1>6. /\ before' \in [Requests -> [registry : SUBSET Policies, telemetry : SUBSET Policies,
                                   audit : SUBSET Rows]]
      /\ \A q \in Requests \ {r} : before'[q] = before[q]
      /\ before'[r].registry = IF IsVehicle(r) THEN Holding(scope, v) ELSE before[r].registry
      /\ before'[r].telemetry = before[r].telemetry /\ before'[r].audit = before[r].audit
  <2>1. Holding(scope, v) \subseteq Policies
    BY Zenon DEF Holding
  <2>2. before \in [Requests -> [registry : SUBSET Policies, telemetry : SUBSET Policies,
                                 audit : SUBSET Rows]]
    BY <1>0, Zenon DEF ErasureTypeOK
  <2> QED BY <1>1, <2>1, <2>2, Zenon
<1>7. before[r].registry = {}
  BY <1>0, Zenon DEF RequestInv
<1>8. \A p \in before'[r].registry : next[p] > 3
  <2>1. \A p \in Holding(scope, v) : p \in Policies /\ scope[p] # {} /\ next[p] \in 1..7
    BY <1>0, WriteAt, Zenon DEF Holding, ErasureTypeOK
  <2> QED BY <1>6, <1>7, <2>1 DEF ErasureInv
<1>9. status # "failed" => \A p \in before'[r].registry : v \notin scope'[p]
  <2>1. CASE IsVehicle(r) /\ Admitted(v)
    BY <1>0, <1>1, <1>6, <2>1, WithoutDoes
  <2>2. CASE ~IsVehicle(r)
    BY <1>6, <1>7, <2>2, Zenon
  <2> QED BY <1>3, <2>1, <2>2, Zenon
<1>10. (\A x \in before'[r].audit : redacted_subject'[x] # None) /\ \A p \in before'[r].telemetry : next[p] = Over
  BY <1>0, <1>1, <1>6, Zenon DEF RequestInv
<1>11. RequestInv(r)'
  BY <1>0, <1>1, <1>2, <1>4, <1>6, <1>8, <1>9, <1>10, StoreRequest, Zenon DEF v
<1>12. ErasureInv'
  BY <1>0, <1>1, <1>2, <1>4, <1>6, <1>11, StoreStep, Zenon
<1> QED BY <1>1, <1>4, <1>5, <1>12, Zenon DEF v

(* _erase_telemetry.                                                         *)
LEMMA TelemetryInv ==
    ASSUME ErasureInv, NEW r \in Requests, erase_telemetry(r)
    PROVE  /\ ErasureInv' /\ UNCHANGED <<scope, redacted_subject>>
           /\ \A p \in Policies : \A v \in telemetry[p] \ telemetry'[p] : IsVehicle(r) /\ v = Subject(r).id
<1> DEFINE v == Subject(r).id
<1>0. /\ ErasureTypeOK /\ job[r].pc = "telemetry" /\ job[r].pc \in Stores /\ RequestInv(r)
      /\ scope \in [Policies -> SUBSET Vehicles] /\ telemetry \in [Policies -> SUBSET Vehicles]
      /\ DOMAIN before = Requests /\ redacted_subject \in [Rows -> Ids \cup {None}] /\ faults \in 0..MaxFaults
  BY Zenon DEF ErasureInv, ErasureTypeOK, erase_telemetry, At, Stores
<1>1. /\ telemetry' = IF IsVehicle(r) THEN Without(telemetry, v) ELSE telemetry
      /\ Report(r, job[r].pc, "erased")
      /\ before' = IF IsVehicle(r) THEN [before EXCEPT ![r].telemetry = Holding(telemetry, v)] ELSE before
      /\ UNCHANGED <<next, scope, audit, redacted_subject, requests, faults>>
  BY <1>0, Zenon DEF erase_telemetry
<1>2. "erased" \in StoreStatus \ {"pending"}
  BY Zenon DEF StoreStatus
<1> HIDE DEF v
<1>3. /\ telemetry' \in [Policies -> SUBSET Vehicles]
      /\ \A p \in Policies : scope'[p] \subseteq scope[p] /\ telemetry'[p] \subseteq telemetry[p]
      /\ \A p \in Policies : \A w \in telemetry[p] \ telemetry'[p] : IsVehicle(r) /\ w = v
  BY <1>0, <1>1, WithoutDoes
<1>4. /\ before' \in [Requests -> [registry : SUBSET Policies, telemetry : SUBSET Policies,
                                   audit : SUBSET Rows]]
      /\ \A q \in Requests \ {r} : before'[q] = before[q]
      /\ before'[r].telemetry = IF IsVehicle(r) THEN Holding(telemetry, v) ELSE before[r].telemetry
      /\ before'[r].registry = before[r].registry /\ before'[r].audit = before[r].audit
  <2>1. Holding(telemetry, v) \subseteq Policies
    BY Zenon DEF Holding
  <2>2. before \in [Requests -> [registry : SUBSET Policies, telemetry : SUBSET Policies,
                                 audit : SUBSET Rows]]
    BY <1>0, Zenon DEF ErasureTypeOK
  <2> QED BY <1>1, <2>1, <2>2, Zenon
<1>5. before[r].telemetry = {}
  BY <1>0, Zenon DEF RequestInv
<1>6. \A p \in before'[r].telemetry : next[p] = Over
  <2>1. \A p \in Holding(telemetry, v) : p \in Policies /\ telemetry[p] # {}
    BY Zenon DEF Holding
  <2> QED BY <1>4, <1>5, <2>1, Zenon DEF ErasureInv
<1>7. \A p \in before'[r].telemetry : v \notin telemetry'[p]
  BY <1>0, <1>1, <1>4, <1>5, WithoutDoes
<1>8. (\A x \in before'[r].audit : redacted_subject'[x] # None) /\ \A p \in before'[r].registry : next[p] > 3
  BY <1>0, <1>1, <1>4, Zenon DEF RequestInv
<1>9. RequestInv(r)'
  BY <1>0, <1>1, <1>2, <1>3, <1>4, <1>6, <1>7, <1>8, StoreRequest, Zenon DEF v
<1>10. ErasureInv'
  BY <1>0, <1>1, <1>2, <1>3, <1>4, <1>9, StoreStep, Zenon
<1> QED BY <1>1, <1>3, <1>10, Zenon DEF v

(* _redact_audit.                                                            *)
LEMMA RedactInv ==
    ASSUME ErasureInv, NEW r \in Requests, redact_audit(r)
    PROVE  ErasureInv' /\ UNCHANGED <<scope, telemetry>>
<1>0. /\ ErasureTypeOK /\ job[r].pc = "audit" /\ job[r].pc \in Stores /\ RequestInv(r)
      /\ scope \in [Policies -> SUBSET Vehicles] /\ telemetry \in [Policies -> SUBSET Vehicles]
      /\ DOMAIN before = Requests /\ redacted_subject \in [Rows -> Ids \cup {None}] /\ faults \in 0..MaxFaults
  BY Zenon DEF ErasureInv, ErasureTypeOK, redact_audit, At, Stores
<1>1. /\ redacted_subject' = [x \in Rows |->
             IF x \in About(Subject(r).id) THEN Subject(r).id ELSE redacted_subject[x]]
      /\ Report(r, job[r].pc, "redacted")
      /\ before' = [before EXCEPT ![r].audit = About(Subject(r).id)]
      /\ UNCHANGED <<next, scope, telemetry, audit, requests, faults>>
  BY <1>0, Zenon DEF redact_audit
<1>2. "redacted" \in StoreStatus \ {"pending"}
  BY Zenon DEF StoreStatus
<1>3. /\ About(Subject(r).id) \subseteq Rows
      /\ Subject(r).id \in Ids /\ Subject(r).id # None
  <2>1. requests[r] \in RequestRow
    BY <1>0, AtStore, Zenon
  <2>2. PICK q \in Requests : Subject(r) \in Payloads[q]
    BY <2>1 DEF Subject, RequestRow
  <2>3. Subject(r).id \in Ids /\ Subject(r).id # None
    <3>1. Subject(r).id \in {s.id : s \in Payloads[q]}
      BY <2>2, Zenon
    <3> QED BY <2>2, <3>1, ErasureAssumption, Zenon DEF Ids
  <2> QED BY <1>0, <2>3, Zenon DEF About, ErasureTypeOK
<1>4. /\ before' \in [Requests -> [registry : SUBSET Policies, telemetry : SUBSET Policies,
                                   audit : SUBSET Rows]]
      /\ \A q \in Requests \ {r} : before'[q] = before[q]
      /\ before'[r].audit = About(Subject(r).id)
      /\ before'[r].registry = before[r].registry /\ before'[r].telemetry = before[r].telemetry
  <2>1. before \in [Requests -> [registry : SUBSET Policies, telemetry : SUBSET Policies,
                                 audit : SUBSET Rows]]
    BY <1>0, Zenon DEF ErasureTypeOK
  <2> QED BY <1>1, <1>3, <2>1, Zenon
<1>5. /\ \A p \in before'[r].registry : next[p] > 3
      /\ \A p \in before'[r].telemetry : next[p] = Over
      /\ (\A x \in before'[r].audit : redacted_subject'[x] # None)
      /\ \A x \in Rows : redacted_subject[x] # None => redacted_subject'[x] # None
      /\ redacted_subject' \in [Rows -> Ids \cup {None}]
  BY <1>0, <1>1, <1>3, <1>4, Zenon DEF RequestInv
<1>6. \A p \in Policies : scope'[p] \subseteq scope[p] /\ telemetry'[p] \subseteq telemetry[p]
  BY <1>1, Zenon
<1>7. RequestInv(r)'
  BY <1>0, <1>1, <1>2, <1>4, <1>5, <1>6, StoreRequest, Zenon
<1>8. ErasureInv'
  BY <1>0, <1>1, <1>2, <1>4, <1>5, <1>6, <1>7, StoreStep, Zenon
<1> QED BY <1>1, <1>8, Zenon

(* A store fails.                                                            *)
LEMMA StoreFailsInv ==
    ASSUME ErasureInv, NEW r \in Requests, store_fails(r)
    PROVE  ErasureInv'
<1>0. /\ ErasureTypeOK /\ job[r].pc \in Stores /\ RequestInv(r)
      /\ scope \in [Policies -> SUBSET Vehicles] /\ telemetry \in [Policies -> SUBSET Vehicles]
      /\ redacted_subject \in [Rows -> Ids \cup {None}]
  BY Zenon DEF ErasureInv, ErasureTypeOK, store_fails
<1>1. /\ Report(r, job[r].pc, "failed") /\ faults < MaxFaults /\ faults' = faults + 1
      /\ UNCHANGED <<next, scope, telemetry, audit, redacted_subject, requests, before>>
  BY Zenon DEF store_fails, stores
<1>2. "failed" \in StoreStatus \ {"pending"}
  BY Zenon DEF StoreStatus
<1>3. faults' \in 0..MaxFaults
  BY <1>0, <1>1, ErasureAssumption DEF ErasureTypeOK
<1>4. before' \in [Requests -> [registry : SUBSET Policies, telemetry : SUBSET Policies,
                                audit : SUBSET Rows]]
  BY <1>0, <1>1, Zenon DEF ErasureTypeOK
<1>5. /\ \A p \in before'[r].registry : next[p] > 3
      /\ \A p \in before'[r].telemetry : next[p] = Over
      /\ \A x \in before'[r].audit : redacted_subject'[x] # None
  BY <1>0, <1>1, Zenon DEF RequestInv
<1>6. RequestInv(r)'
  BY <1>0, <1>1, <1>2, <1>5, StoreRequest, Zenon
<1> QED BY <1>0, <1>1, <1>2, <1>3, <1>4, <1>6, StoreStep, Zenon

(* The final UPDATE: "completed" only if every statement went through.       *)
LEMMA ReportInv ==
    ASSUME ErasureInv, NEW r \in Requests, report(r)
    PROVE  ErasureInv'
<1> DEFINE completed == \A s \in Stores : job[r].per_store[s] \in {"erased", "redacted"}
           status == IF completed THEN "completed" ELSE "partial"
<1>0. /\ ErasureTypeOK /\ job \in JobType /\ RequestInv(r) /\ job[r].pc = "report"
      /\ "done" \in JobPc /\ DOMAIN requests = Requests
      /\ requests[r] \in {None} \cup RequestRow
  BY Zenon DEF ErasureInv, ErasureTypeOK, JobType, RequestRow, report, At, JobPc
<1>1. /\ requests' = [requests EXCEPT ![r].status = status] /\ Goto(r, "done")
      /\ UNCHANGED <<next, scope, telemetry, audit, redacted_subject, before, faults>>
  BY Zenon DEF report, stores
<1>2. /\ job' \in JobType /\ job'[r].pc = "done" /\ job'[r].per_store = job[r].per_store
      /\ \A q \in Requests \ {r} : job'[q] = job[q]
  BY <1>0, <1>1, GotoDoes, Zenon
<1>3. requests[r] \in RequestRow
  BY <1>0, Zenon DEF RequestInv, At
<1>4. status \in {"completed", "partial"} /\ (status = "completed" => completed)
  OBVIOUS
<1> HIDE DEF status, completed
<1>5. /\ requests'[r] \in RequestRow /\ requests'[r].status = status
      /\ requests'[r].payload = requests[r].payload
      /\ \A q \in Requests \ {r} : requests'[q] = requests[q]
      /\ DOMAIN requests' = Requests
  BY <1>0, <1>1, <1>3, <1>4, Zenon DEF RequestRow
<1>6. requests'[r] # None
  BY <1>5, ErasureAssumption, Zenon DEF RequestRow
<1>7. ErasureTypeOK'
  <2>1. requests' \in [Requests -> {None} \cup RequestRow]
    BY <1>0, <1>1, <1>5, Zenon DEF ErasureTypeOK, RequestRow
  <2> QED BY <1>0, <1>1, <1>2, <2>1, Zenon DEF ErasureTypeOK, JobType, RequestRow
<1>8. RequestInv(r)'
  <2>1. Status(r)' = status /\ Subject(r)' = Subject(r)
    BY <1>5, <1>6, Zenon DEF Status, Subject
  <2>2. status = "completed" => \A s \in Stores : Handled(r, s)'
    BY <1>2, <1>4, Zenon DEF Handled, completed
  <2> QED BY <1>0, <1>1, <1>2, <1>6, <2>1, <2>2, Zenon DEF RequestInv, At, Handled
<1>9. ASSUME NEW q \in Requests \ {r} PROVE RequestInv(q)'
  BY <1>1, <1>2, <1>5, <1>9, KeepRequest, Zenon
<1> QED BY <1>1, <1>7, <1>8, <1>9, Zenon DEF ErasureInv

(* The job ends at a failure outside the try blocks.                         *)
LEMMA JobDiesInv ==
    ASSUME ErasureInv, NEW r \in Requests, job_dies(r)
    PROVE  ErasureInv'
<1>0. /\ ErasureTypeOK /\ job \in JobType /\ job[r].pc \in {"audit_write", "report"}
      /\ "dead" \in JobPc
  BY Zenon DEF ErasureInv, ErasureTypeOK, JobType, job_dies, JobPc
<1>1. /\ Goto(r, "dead") /\ faults < MaxFaults /\ faults' = faults + 1
      /\ UNCHANGED <<next, scope, telemetry, audit, redacted_subject, requests, before>>
  BY Zenon DEF job_dies, stores
<1>2. /\ job' \in JobType /\ job'[r].pc = "dead" /\ job'[r].per_store = job[r].per_store
      /\ \A q \in Requests \ {r} : job'[q] = job[q]
  BY <1>0, <1>1, GotoDoes, Zenon
<1>3. faults' \in 0..MaxFaults
  BY <1>0, <1>1, ErasureAssumption DEF ErasureTypeOK
<1>4. ErasureTypeOK'
  BY <1>0, <1>1, <1>2, <1>3, Zenon DEF ErasureTypeOK, JobType
<1>5. ASSUME NEW q \in Requests PROVE RequestInv(q)'
  BY <1>0, <1>1, <1>2, KeepRequest, Zenon
<1> QED BY <1>1, <1>4, <1>5, Zenon DEF ErasureInv

(* The process ends.                                                         *)
LEMMA CrashInv ==
    ASSUME ErasureInv, crash
    PROVE  ErasureInv'
<1>0. ErasureTypeOK /\ job \in JobType /\ Over = 7 /\ "dead" \in JobPc
  BY WriteAt, Zenon DEF ErasureInv, ErasureTypeOK, JobType, JobPc
<1>1. /\ faults < MaxFaults /\ faults' = faults + 1
      /\ next' = [p \in Policies |-> IF next[p] = 1 THEN 1 ELSE Over]
      /\ job' = [r \in Requests |->
             IF job[r].pc \in {"new", "done"} THEN job[r] ELSE [job[r] EXCEPT !.pc = "dead"]]
      /\ UNCHANGED <<scope, telemetry, audit, redacted_subject, requests, before>>
  BY Zenon DEF crash, stores
<1>2. /\ faults' \in 0..MaxFaults /\ next' \in [Policies -> 1..Over]
      /\ \A p \in Policies : (next'[p] = 1 /\ next[p] = 1) \/ next'[p] = Over
  BY <1>0, <1>1, ErasureAssumption DEF ErasureTypeOK
<1>3. /\ job' \in JobType
      /\ \A r \in Requests : job'[r].per_store = job[r].per_store
      /\ \A r \in Requests : \/ job'[r].pc = job[r].pc
                             \/ job'[r].pc = "dead" /\ job[r].pc \notin {"new", "done"}
  BY <1>0, <1>1, Zenon DEF JobType
<1>4. ErasureTypeOK'
  BY <1>0, <1>1, <1>2, <1>3, Zenon DEF ErasureTypeOK, JobType
<1>5. /\ \A p \in Policies : next[p] > 3 => next'[p] > 3 /\ scope'[p] \subseteq scope[p]
      /\ \A p \in Policies : next[p] = Over => next'[p] = Over /\ telemetry'[p] \subseteq telemetry[p]
  BY <1>0, <1>1, <1>2
<1>6. ASSUME NEW q \in Requests PROVE RequestInv(q)'
  BY <1>1, <1>3, <1>5, KeepRequest, Zenon
<1>7. /\ \A p \in Policies : next'[p] \leq 3 => scope'[p] = {}
      /\ \A p \in Policies : next'[p] # Over => telemetry'[p] = {}
  BY <1>0, <1>1, <1>2 DEF ErasureInv
<1> QED BY <1>4, <1>6, <1>7, Zenon DEF ErasureInv
-----------------------------------------------------------------------------
(* What one step may take from the stores.                                   *)
ErasesOnly ==
    /\ \A p \in Policies : \A v \in (scope[p] \ scope'[p]) :
         \E r \in Requests : At(r, "registry") /\ IsVehicle(r) /\ Subject(r).id = v
    /\ \A p \in Policies : \A v \in (telemetry[p] \ telemetry'[p]) :
         \E r \in Requests : At(r, "telemetry") /\ IsVehicle(r) /\ Subject(r).id = v

KeepsScope == \A p \in Policies : scope[p] # {} => scope'[p] # {}

(* Every step keeps the invariant, takes from the stores only what it may,   *)
(* and leaves every policy a vehicle.                                        *)
LEMMA StepInv ==
    ASSUME ErasureInv, [Next]_vars
    PROVE  ErasureInv' /\ ErasesOnly /\ KeepsScope
<1> DEFINE untouched == UNCHANGED <<scope, telemetry>>
<1>0. untouched => ErasesOnly /\ KeepsScope
  BY ZenonT(60) DEF ErasesOnly, KeepsScope
<1>1. ASSUME NEW p \in Policies, session(p) PROVE ErasureInv' /\ ErasesOnly /\ KeepsScope
  <2>1. /\ ErasureInv'
        /\ \A q \in Policies : scope[q] \subseteq scope'[q] /\ telemetry[q] \subseteq telemetry'[q]
    BY <1>1, SessionInv, Zenon
  <2> QED BY <1>1, <2>1, SessionInv, Zenon DEF ErasesOnly, KeepsScope
<1>2. ASSUME NEW r \in Requests, NEW payload \in Payloads[r], submit(r, payload)
      PROVE  ErasureInv' /\ untouched
  BY <1>2, SubmitInv, Zenon DEF submit, stores
<1>3. ASSUME NEW r \in Requests, JobStep(r) PROVE ErasureInv' /\ ErasesOnly /\ KeepsScope
  <2>1. CASE audit_write(r)
    BY <1>0, <2>1, AuditWriteInv, Zenon DEF audit_write
  <2>2. CASE erase_registry(r)
    <3>1. At(r, "registry")
      BY <2>2, Zenon DEF erase_registry
    <3> QED BY <2>2, <3>1, RegistryInv, Zenon DEF ErasesOnly, KeepsScope
  <2>3. CASE erase_telemetry(r)
    <3>1. At(r, "telemetry")
      BY <2>3, Zenon DEF erase_telemetry
    <3> QED BY <2>3, <3>1, TelemetryInv, Zenon DEF ErasesOnly, KeepsScope
  <2>4. CASE redact_audit(r)
    BY <1>0, <2>4, RedactInv, Zenon
  <2>5. CASE store_fails(r)
    BY <1>0, <2>5, StoreFailsInv, Zenon DEF store_fails, stores
  <2>6. CASE report(r)
    BY <1>0, <2>6, ReportInv, Zenon DEF report, stores
  <2>7. CASE job_dies(r)
    BY <1>0, <2>7, JobDiesInv, Zenon DEF job_dies, stores
  <2> QED BY <1>3, <2>1, <2>2, <2>3, <2>4, <2>5, <2>6, <2>7, Zenon DEF JobStep
<1>4. CASE crash
  BY <1>0, <1>4, CrashInv, Zenon DEF crash, stores
<1>5. CASE UNCHANGED vars
  <2>1. UNCHANGED <<next, scope, telemetry, audit, redacted_subject, requests, job, before, faults>>
    BY <1>5, Zenon DEF vars, stores
  <2>2. ErasureTypeOK'
    BY <2>1, Zenon DEF ErasureInv, ErasureTypeOK
  <2>3. ASSUME NEW r \in Requests PROVE RequestInv(r)'
    BY <2>1, KeepRequest, Zenon
  <2> QED BY <1>0, <2>1, <2>2, <2>3, Zenon DEF ErasureInv
<1> QED BY <1>0, <1>1, <1>2, <1>3, <1>4, <1>5, Zenon DEF Next

LEMMA AlwaysInv == Spec => []ErasureInv
<1>1. ErasureInv /\ [Next]_vars => ErasureInv'
  BY StepInv, Zenon
<1> QED BY <1>1, InitInv, PTL DEF Spec

(* The types of Erasure, over any number of sessions, requests and faults.   *)
THEOREM ErasureTyped == Spec => []ErasureTypeOK
<1>1. ErasureInv => ErasureTypeOK
  BY Zenon DEF ErasureInv
<1> QED BY <1>1, AlwaysInv, PTL

(* FR-020a, what "completed" certifies.  No session writes a policy or       *)
(* telemetry a second time, so a vehicle that a job took out of a store does *)
(* not come back with the rows it was taken from; and a redacted_subject is  *)
(* replaced by that of another request, never removed.                       *)
THEOREM Certified == Spec => []CompletedCertifies
<1>1. ErasureInv => CompletedCertifies
  BY Zenon DEF ErasureInv, RequestInv, CompletedCertifies, Stores
<1> QED BY <1>1, AlwaysInv, PTL

(* FR-020a, "MUST itself produce an audit record": no store is touched and   *)
(* no status final without the erasure row.                                  *)
THEOREM ErasureOnRecord == Spec => []ErasureAudited
<1>1. ErasureInv => ErasureAudited
  BY Zenon DEF ErasureInv, RequestInv, ErasureAudited, At
<1> QED BY <1>1, AlwaysInv, PTL

(* Only a vehicle that is the subject of a request, as a vehicle and not by  *)
(* coincidence of names, and whose job is at a store leaves the store.       *)
THEOREM OnlySubject == Spec => OnlySubjectErased
<1>1. ErasureInv /\ [Next]_vars => [ErasesOnly]_vars
  BY StepInv, Zenon
<1> QED BY <1>1, AlwaysInv, PTL DEF Spec, OnlySubjectErased, ErasesOnly

(* Migration 005: no erasure leaves a policy without a vehicle.              *)
THEOREM ScopeKept == Spec => PoliciesKeepScope
<1>1. ErasureInv /\ [Next]_vars => [KeepsScope]_vars
  BY StepInv, Zenon
<1> QED BY <1>1, AlwaysInv, PTL DEF Spec, PoliciesKeepScope, KeepsScope
=============================================================================
