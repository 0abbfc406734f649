---------------------------- MODULE StartupProofs ----------------------------
(***************************************************************************)
(* Proofs about Migrations and Startup, for any migrations with any        *)
(* dependencies, any number of processes and operators, any environment    *)
(* and any number of faults, kills and rollbacks.                          *)
(***************************************************************************)
EXTENDS Startup, WellFoundedInduction, TLAPS

(* Among versions there is a lowest, so the sorted list of discover_migrations *)
(* has a head whenever something is pending.                                 *)
LEMMA ForemostIsIn ==
    ASSUME NEW S, S \subseteq Nat, S # {}
    PROVE  Foremost(S) \in S
<1> DEFINE R == {ss \in Nat \X Nat : ss[1] < ss[2]}
<1>1. IsWellFoundedOn(R, Nat)
  BY NatLessThanWellFounded, Zenon DEF OpToRel
<1>2. \E x \in S : \A y \in S : ~(<<y, x>> \in R)
  <2> HIDE DEF R
  <2> QED BY <1>1, WFMin, Zenon
<1>3. \E x \in S : \A y \in S : x <= y
  <2>1. PICK x \in S : \A y \in S : ~(<<y, x>> \in R)
    BY <1>2, Zenon
  <2>2. ASSUME NEW y \in S PROVE x <= y
    <3>1. <<y, x>> \in Nat \X Nat /\ <<y, x>>[1] = y /\ <<y, x>>[2] = x
      OBVIOUS
    <3>2. ~(y < x)
      BY <2>1, <3>1, Zenon
    <3> QED BY <3>2
  <2> QED BY <2>2, Zenon
<1> QED BY <1>3, Zenon DEF Foremost

-----------------------------------------------------------------------------
(* Type correctness.                                                         *)

(* A process calls the runner while it starts, and at no other time.         *)
MigratesAtStart == \A p \in Procs : spc[p] # "migrate" => mpc[p] = "idle"

TypeInv == StartupTypeOK /\ MigratesAtStart

(* An initdb volume holds tracked versions only, and no process is up.       *)
LEMMA InitType == StartupInit => TypeInv
<1> SUFFICES ASSUME StartupInit PROVE TypeInv
  OBVIOUS
<1>1. initdb \subseteq Versions
  BY Zenon DEF StartupInit, MigrationsInit, InitdbRuns
<1>2. /\ job \in [Runners -> {Apply} \cup Versions]
      /\ tx \in [Runners -> {None} \cup Versions]
      /\ seen \in [Runners -> SUBSET Versions]
      /\ mpc \in [Runners -> {"idle", "table", "read", "next", "record", "migrated", "failed"}]
  BY Zenon DEF StartupInit, MigrationsInit
<1>3. \A p \in Runners : tx[p] # None <=> mpc[p] = "record"
  BY Zenon DEF StartupInit, MigrationsInit
<1>4. table \in BOOLEAN /\ overlap \in BOOLEAN
  BY Zenon DEF StartupInit, MigrationsInit
<1>5. faults = 0 /\ 0 \in 0..MaxFaults
  BY MigrationsAssumption DEF StartupInit, MigrationsInit
<1>6. MigrationsTypeOK
  BY <1>1, <1>2, <1>3, <1>4, <1>5, Zenon DEF StartupInit, MigrationsInit, MigrationsTypeOK
<1>7. /\ key \in [Procs -> 0..made] /\ keyfile \in {Absent, Partial} \cup 1..made
      /\ spc \in [Procs -> {"down", "serving"} \cup Starting] /\ made \in Nat
  BY DEF StartupInit, NoKey
<1>8. MigratesAtStart
  BY StartupAssumption, Zenon DEF StartupInit, MigrationsInit, MigratesAtStart
<1> QED BY <1>4, <1>6, <1>7, <1>8, Zenon DEF StartupInit, StartupTypeOK, TypeInv

(* A step of the runner, or a lost connection, keeps the types: in           *)
(* particular the transaction is open exactly between script and record.     *)
LEMMA RunnerType ==
    ASSUME MigrationsTypeOK, NEW p \in Runners, RunnerStep(p) \/ Disconnect(p)
    PROVE  MigrationsTypeOK'
<1> USE MigrationsAssumption DEF MigrationsTypeOK, At, Apply, None
<1>1. CASE ensure_migrations_table(p)
  BY <1>1 DEF ensure_migrations_table
<1>2. CASE applied_versions(p)
  BY <1>2, Zenon DEF applied_versions
<1>3. CASE apply(p)
  <2>1. Foremost(Pending(p)) \in Versions
    <3>1. Pending(p) \subseteq Versions /\ Pending(p) # {} /\ Versions \subseteq Nat
      BY <1>3, Zenon DEF apply, Pending
    <3>2. Foremost(Pending(p)) \in Pending(p)
      BY <3>1, ForemostIsIn, Zenon
    <3> QED BY <3>1, <3>2, Zenon
  <2>2. \/ Raise(p)
        \/ \E v \in Versions : tx' = [tx EXCEPT ![p] = v] /\ mpc' = [mpc EXCEPT ![p] = "record"]
    BY <1>3, <2>1, Zenon DEF apply
  <2>3. UNCHANGED <<schema, recorded, table, initdb, job, seen, rolled, faults>>
    BY <1>3, Zenon DEF apply
  <2> QED BY <2>2, <2>3 DEF Raise
<1>4. CASE apply_done(p)
  BY <1>4, Zenon DEF apply_done
<1>5. CASE down(p)
  BY <1>5 DEF down, Raise
<1>6. CASE record_applied(p)
  <2>1. tx[p] \in Versions
    BY <1>6, Zenon DEF record_applied
  <2>2. PICK o \in CommitOutcome :
          /\ schema' \in {schema, schema \cup {tx[p]}}
          /\ recorded' \in {recorded, recorded \cup {tx[p]}}
          /\ \/ /\ seen' = [seen EXCEPT ![p] = @ \cup {tx[p]}]
                /\ tx' = [tx EXCEPT ![p] = None]
                /\ mpc' = [mpc EXCEPT ![p] = "next"]
             \/ Raise(p) /\ UNCHANGED seen
          /\ faults' = IF o = "ok" THEN faults ELSE faults + 1
    BY <1>6, Zenon DEF record_applied
  <2>3. faults' \in 0..MaxFaults
    BY <2>2 DEF CommitOutcome
  <2>4. UNCHANGED <<table, initdb, job, rolled>>
    BY <1>6, Zenon DEF record_applied
  <2> QED BY <2>1, <2>2, <2>3, <2>4 DEF Raise
<1>7. CASE record_rolled_back(p)
  <2>1. tx[p] \in Versions
    BY <1>7, Zenon DEF record_rolled_back
  <2>2. PICK o \in CommitOutcome :
          /\ schema' \in {schema, schema \ {tx[p]}}
          /\ recorded' \in {recorded, recorded \ {tx[p]}}
          /\ rolled' \in {rolled, rolled \cup {tx[p]}}
          /\ \E l \in {"migrated", "failed"} : mpc' = [mpc EXCEPT ![p] = l]
          /\ tx' = [tx EXCEPT ![p] = None]
          /\ faults' = IF o = "ok" THEN faults ELSE faults + 1
    BY <1>7, Zenon DEF record_rolled_back, Raise
  <2>3. faults' \in 0..MaxFaults
    BY <2>2 DEF CommitOutcome
  <2>4. UNCHANGED <<table, initdb, job, seen>>
    BY <1>7, Zenon DEF record_rolled_back
  <2> QED BY <2>1, <2>2, <2>3, <2>4
<1>8. CASE Disconnect(p)
  BY <1>8 DEF Disconnect, Raise, Fault
<1> QED BY <1>1, <1>2, <1>3, <1>4, <1>5, <1>6, <1>7, <1>8, Zenon DEF RunnerStep

(* The end of a process keeps them: its transaction goes with it.            *)
LEMMA ExitType ==
    ASSUME StartupTypeOK, NEW p \in Procs, Exit(p), faults' \in 0..MaxFaults
    PROVE  StartupTypeOK'
<1>1. MigrationsTypeOK'
  BY StartupAssumption, Zenon DEF StartupTypeOK, MigrationsTypeOK, Exit, None
<1>2. UNCHANGED <<config, keyfile, made, overlap>>
  BY Zenon DEF Exit
<1> QED BY <1>1, <1>2 DEF StartupTypeOK, Exit, Goto, NoKey

(* Every step of Startup keeps the types.                                    *)
LEMMA StepType == TypeInv /\ [Next]_vars => StartupTypeOK'
<1> SUFFICES ASSUME StartupTypeOK, MigratesAtStart, [Next]_vars PROVE StartupTypeOK'
  BY Zenon DEF TypeInv
<1> USE StartupAssumption
<1>1. ASSUME NEW p \in Runners, RunnerStep(p) \/ Disconnect(p), UNCHANGED startVars
      PROVE  StartupTypeOK'
  <2>1. MigrationsTypeOK'
    BY <1>1, RunnerType, Zenon DEF StartupTypeOK
  <2> QED BY <1>1, <2>1, Zenon DEF StartupTypeOK, startVars
<1>2. ASSUME NEW p \in Runners, rollback_one(p) PROVE StartupTypeOK'
  <2>1. MigrationsTypeOK'
    BY <1>2, MigrationsAssumption DEF StartupTypeOK, MigrationsTypeOK, rollback_one, Fault, None
  <2> QED BY <1>2, <2>1, Zenon DEF StartupTypeOK, rollback_one, startVars
<1>3. ASSUME NEW p \in Procs, UNCHANGED migVars,
             \E l \in Starting \cup {"serving"} : Goto(p, l),
             UNCHANGED <<config, readyz>>, overlap' \in BOOLEAN, made' \in {made, made + 1},
             key' = key \/ \E k \in 0..made' : key' = [key EXCEPT ![p] = k],
             keyfile' \in {Absent, Partial} \cup 1..made'
      PROVE  StartupTypeOK'
  <2>1. MigrationsTypeOK'
    BY <1>3, Zenon DEF StartupTypeOK, MigrationsTypeOK, migVars
  <2>2. made \in Nat /\ made' \in Nat /\ 0..made \subseteq 0..made'
    BY <1>3 DEF StartupTypeOK
  <2>3. key' \in [Procs -> 0..made']
    BY <1>3, <2>2, Zenon DEF StartupTypeOK
  <2>4. spc' \in [Procs -> {"down", "serving"} \cup Starting]
    BY <1>3, Zenon DEF StartupTypeOK, Goto
  <2> QED BY <1>3, <2>1, <2>2, <2>3, <2>4, Zenon DEF StartupTypeOK
<1>4. faults \in 0..MaxFaults /\ MaxFaults \in Nat
  BY MigrationsAssumption, Zenon DEF StartupTypeOK, MigrationsTypeOK
<1>5. ASSUME NEW p \in Procs, Exit(p), UNCHANGED faults \/ Fault PROVE StartupTypeOK'
  <2>1. faults' \in 0..MaxFaults
    BY <1>4, <1>5 DEF Fault
  <2> QED BY <1>5, <2>1, ExitType, Zenon
<1>6. ASSUME NEW p \in Procs, Start(p) PROVE StartupTypeOK'
  <2>1. MigrationsTypeOK'
    BY <1>6 DEF StartupTypeOK, MigrationsTypeOK, MigratesAtStart, Start, Apply
  <2>2. spc' \in [Procs -> {"down", "serving"} \cup Starting]
    BY <1>6, Zenon DEF StartupTypeOK, Start, Goto, Starting
  <2> QED BY <1>6, <2>1, <2>2, Zenon DEF StartupTypeOK, Start
<1>7. ASSUME NEW p \in Procs, apply_pending_returns(p) PROVE StartupTypeOK'
  <2>1. CASE mpc[p] = "migrated" /\ ~Exit(p)
    <3>1. MigrationsTypeOK'
      BY <1>7, <2>1, Zenon DEF StartupTypeOK, MigrationsTypeOK, apply_pending_returns
    <3>2. spc' \in [Procs -> {"down", "serving"} \cup Starting]
      BY <1>7, <2>1, Zenon DEF StartupTypeOK, apply_pending_returns, Goto, Starting
    <3> QED BY <1>7, <2>1, <3>1, <3>2, Zenon DEF StartupTypeOK, apply_pending_returns
  <2> QED BY <1>5, <1>7, <2>1, Zenon DEF apply_pending_returns
<1>8. ASSUME NEW p \in Procs, connect(p) PROVE StartupTypeOK'
  BY <1>3, <1>5, <1>8, Zenon DEF connect, Starting, StartupTypeOK
<1>9. ASSUME NEW p \in Procs, from_path(p) PROVE StartupTypeOK'
  <2>1. CASE keyfile \notin {Absent, Partial}
    <3>1. keyfile \in 0..made
      BY <2>1 DEF StartupTypeOK
    <3> QED BY <1>3, <1>9, <2>1, <3>1 DEF from_path, Starting, StartupTypeOK
  <2>2. CASE keyfile = Absent
    BY <1>3, <1>9, <2>2 DEF from_path, Starting, StartupTypeOK, Absent, Partial
  <2> QED BY <1>5, <1>9, <2>1, <2>2, Zenon DEF from_path
<1>10. ASSUME NEW p \in Procs, create_key(p) PROVE StartupTypeOK'
  <2>1. made' \in 0..made' /\ overlap' \in BOOLEAN
    BY <1>10 DEF create_key, StartupTypeOK
  <2> QED BY <1>3, <1>10, <2>1, Zenon DEF create_key, Starting, StartupTypeOK
<1>11. ASSUME NEW p \in Procs, write_bytes(p) PROVE StartupTypeOK'
  <2>1. key[p] \in {Absent, Partial} \cup 1..made
    BY DEF StartupTypeOK, Absent
  <2> QED BY <1>3, <1>11, <2>1, Zenon DEF write_bytes, Starting, StartupTypeOK
<1>12. ASSUME NEW p \in Procs, start_serving(p) PROVE StartupTypeOK'
  BY <1>3, <1>5, <1>12, Zenon DEF start_serving, StartupTypeOK
<1>13. ASSUME NEW p \in Procs, ready(p) PROVE StartupTypeOK'
  <2>1. faults' \in 0..MaxFaults
    BY <1>4, <1>13 DEF ready, Fault
  <2>2. MigrationsTypeOK'
    BY <1>13, <2>1, Zenon DEF StartupTypeOK, MigrationsTypeOK, ready
  <2> QED BY <1>13, <2>2, Zenon DEF StartupTypeOK, ready
<1>14. ASSUME NEW p \in Procs, Stop(p) \/ Kill(p) PROVE StartupTypeOK'
  BY <1>5, <1>14, Zenon DEF Stop, Kill
<1>15. CASE UNCHANGED vars
  BY <1>15, Zenon DEF vars, migVars, startVars, StartupTypeOK, MigrationsTypeOK
<1> QED BY <1>1, <1>2, <1>6, <1>7, <1>8, <1>9, <1>10, <1>11, <1>12, <1>13, <1>14, <1>15, Zenon
        DEF Next, ProcStep

(* A step of Startup that is no process's own leaves the idle runners idle.  *)
LEMMA StepMigrates == TypeInv /\ [Next]_vars => MigratesAtStart'
<1> SUFFICES ASSUME StartupTypeOK, MigratesAtStart, [Next]_vars PROVE MigratesAtStart'
  BY Zenon DEF TypeInv
<1> USE StartupAssumption DEF MigratesAtStart
<1>0. spc \in [Procs -> {"down", "serving"} \cup Starting] /\ DOMAIN mpc = Runners
  BY Zenon DEF StartupTypeOK, MigrationsTypeOK
<1>1. ASSUME NEW p \in Runners, RunnerStep(p) \/ Disconnect(p), UNCHANGED startVars
      PROVE  MigratesAtStart'
  <2>1. mpc[p] # "idle"
    BY <1>1, Zenon DEF RunnerStep, Disconnect, ensure_migrations_table, applied_versions, apply,
       apply_done, down, record_applied, record_rolled_back
  <2>2. \A q \in Runners \ {p} : mpc'[q] = mpc[q] \/ mpc[q] = "table"
    BY <1>0, <1>1, Zenon DEF RunnerStep, Disconnect, ensure_migrations_table, applied_versions, apply,
       apply_done, down, record_applied, record_rolled_back, Raise, At
  <2> QED BY <1>1, <2>1, <2>2, Zenon DEF startVars
<1>2. ASSUME NEW p \in Runners, rollback_one(p) PROVE MigratesAtStart'
  BY <1>0, <1>2, Zenon DEF rollback_one, startVars
<1>3. ASSUME NEW p \in Procs, ProcStep(p) \/ ready(p) \/ Stop(p) \/ Kill(p)
      PROVE  MigratesAtStart'
  <2>1. CASE Exit(p)
    BY <1>0, <2>1, Zenon DEF Exit, Goto
  <2>2. CASE Start(p)
    BY <1>0, <2>2, Zenon DEF Start, Goto
  <2>3. CASE apply_pending_returns(p)
    BY <1>0, <2>1, <2>3, Zenon DEF apply_pending_returns, Goto
  <2>4. CASE spc[p] # "migrate" /\ UNCHANGED mpc /\ (spc' = spc \/ \E l : l # "migrate" /\ Goto(p, l))
    BY <1>0, <2>4, Zenon DEF Goto
  <2> QED BY <1>3, <2>1, <2>2, <2>3, <2>4, Zenon
          DEF ProcStep, connect, from_path, create_key, write_bytes, start_serving, ready,
              Stop, Kill, migVars
<1>4. CASE UNCHANGED vars
  BY <1>4, Zenon DEF vars, migVars, startVars
<1> QED BY <1>1, <1>2, <1>3, <1>4, Zenon DEF Next

(* The types and the idle runners are inductive together.                    *)
LEMMA TypeInvariance == Spec => []TypeInv
<1>1. TypeInv /\ [Next]_vars => TypeInv'
  BY StepType, StepMigrates, Zenon DEF TypeInv
<1> QED BY <1>1, InitType, PTL DEF Spec

(* Every reachable state is well typed: the runner's transaction is open     *)
(* exactly while a script has run and its record has not been written.       *)
THEOREM StartupTyped == Spec => []StartupTypeOK
<1>1. TypeInv => StartupTypeOK
  BY Zenon DEF TypeInv
<1> QED BY <1>1, TypeInvariance, PTL

-----------------------------------------------------------------------------
(* What the migration table says, and what a process that migrated knows.    *)

(* What makes ReadyMeansMigrated inductive: whatever a runner believes to be *)
(* applied is in the schema or was rolled back since, an API process only    *)
(* ever applies, its apply_pending returns only when it has seen every       *)
(* version, and GET /ready is answered by processes that serve.              *)
MigratedInv ==
    /\ SchemaMatchesRecord
    /\ \A p \in Runners : seen[p] \subseteq schema \cup rolled
    /\ \A p \in Procs : job[p] = Apply
    /\ \A p \in Procs : mpc[p] = "migrated" => Versions \subseteq seen[p]
    /\ \A p \in Procs : config[p].auto /\ spc[p] \notin {"down", "migrate"}
                          => Versions \subseteq schema \cup rolled
    /\ \A p \in Procs : readyz[p] = "ready" => spc[p] = "serving"

(* An untouched volume, and no process.                                      *)
LEMMA InitMigrated == StartupInit => MigratedInv
  BY StartupAssumption, SMTT(60) DEF StartupInit, MigrationsInit, MigratedInv, SchemaMatchesRecord, Apply

(* What one step of the runner does: schema and record change together, a    *)
(* version leaves the schema only by a rollback, and a runner adds to `seen` *)
(* what was recorded or what it has just committed.                          *)
RunnerEffect(p) ==
    /\ UNCHANGED <<initdb, job>>
    /\ \/ UNCHANGED <<schema, recorded, rolled>>
       \/ /\ schema' = schema \cup {tx[p]} /\ recorded' = recorded \cup {tx[p]}
          /\ UNCHANGED rolled
       \/ /\ schema' = schema \ {tx[p]} /\ recorded' = recorded \ {tx[p]}
          /\ rolled' = rolled \cup {tx[p]} /\ job[p] # Apply
    /\ \A q \in Runners \ {p} : seen'[q] = seen[q]
    /\ \/ seen'[p] = seen[p]
       \/ seen'[p] = recorded /\ UNCHANGED <<schema, recorded, rolled>>
       \/ seen'[p] = seen[p] \cup {tx[p]} /\ tx[p] \in schema'
    /\ \A q \in Runners \ {p} : mpc'[q] \in {mpc[q], "failed"}
    /\ job[p] = Apply /\ mpc'[p] = "migrated" => mpc[p] = "next" /\ Pending(p) = {} /\ seen'[p] = seen[p]

(* Every step of the runner does only that.                                  *)
LEMMA RunnerDoes ==
    ASSUME MigrationsTypeOK, NEW p \in Runners, RunnerStep(p) \/ Disconnect(p)
    PROVE  RunnerEffect(p)
<1>0. DOMAIN mpc = Runners /\ DOMAIN seen = Runners
  BY Zenon DEF MigrationsTypeOK
<1> USE <1>0 DEF RunnerEffect, At
<1>1. CASE ensure_migrations_table(p)
  BY <1>1, Zenon DEF ensure_migrations_table
<1>2. CASE applied_versions(p)
  BY <1>2, Zenon DEF applied_versions
<1>3. CASE apply(p)
  BY <1>3, Zenon DEF apply, Raise
<1>4. CASE apply_done(p)
  BY <1>4, Zenon DEF apply_done
<1>5. CASE down(p)
  BY <1>5, Zenon DEF down, Raise
<1>6. CASE record_applied(p)
  BY <1>6, Zenon DEF record_applied, Raise
<1>7. CASE record_rolled_back(p)
  BY <1>7, Zenon DEF record_rolled_back, Raise
<1>8. CASE Disconnect(p)
  BY <1>8, Zenon DEF Disconnect, Raise
<1> QED BY <1>1, <1>2, <1>3, <1>4, <1>5, <1>6, <1>7, <1>8, Zenon DEF RunnerStep

(* What a process's own step outside the runner does: the volume stays as it *)
(* is, nobody else moves, and the process is past its migration only if      *)
(* apply_pending returned or it was not asked to migrate.                    *)
ProcEffect(p) ==
    /\ schema' = schema /\ recorded' = recorded /\ initdb' = initdb /\ rolled' = rolled
    /\ seen' = seen /\ config' = config
    /\ \A q \in Runners : job'[q] = job[q] \/ (q \in Procs /\ job'[q] = Apply)
    /\ \A q \in Runners : mpc'[q] = mpc[q] \/ mpc'[q] \in {"idle", "table"}
    /\ \A q \in Runners : tx'[q] = tx[q] \/ tx'[q] = None
    /\ \A q \in Procs \ {p} : spc'[q] = spc[q] /\ readyz'[q] = readyz[q]
    /\ spc'[p] \notin {"down", "migrate"} =>
         spc[p] \notin {"down", "migrate"} \/ mpc[p] = "migrated" \/ ~config[p].auto
    /\ readyz'[p] = "ready" => spc'[p] = "serving" \/ (readyz[p] = "ready" /\ spc[p] # "serving")

(* Every such step does only that.                                           *)
LEMMA ProcDoes ==
    ASSUME TypeInv, NEW p \in Procs, ProcStep(p) \/ ready(p) \/ Stop(p) \/ Kill(p)
    PROVE  ProcEffect(p)
<1> USE StartupAssumption DEF ProcEffect
<1>0. /\ spc \in [Procs -> {"down", "serving"} \cup Starting] /\ DOMAIN mpc = Runners
      /\ DOMAIN job = Runners /\ DOMAIN tx = Runners /\ DOMAIN readyz = Procs
  BY Zenon DEF TypeInv, StartupTypeOK, MigrationsTypeOK
<1>1. CASE Exit(p)
  BY <1>0, <1>1, Zenon DEF Exit, Goto
<1>2. CASE Start(p)
  BY <1>0, <1>2, Zenon DEF Start, Goto
<1>3. CASE apply_pending_returns(p)
  BY <1>0, <1>1, <1>3, Zenon DEF apply_pending_returns, Goto
<1>4. CASE (connect(p) \/ from_path(p) \/ create_key(p) \/ write_bytes(p) \/ start_serving(p)) /\ ~Exit(p)
  BY <1>0, <1>4, Zenon DEF connect, from_path, create_key, write_bytes, start_serving, Goto, migVars
<1>5. CASE ready(p)
  BY <1>0, <1>5, Zenon DEF ready
<1> QED BY <1>1, <1>2, <1>3, <1>4, <1>5, Zenon DEF ProcStep, Stop, Kill

(* Every step keeps it, whoever migrates, rolls back, starts or dies.        *)
LEMMA StepMigrated == TypeInv /\ MigratedInv /\ [Next]_vars => MigratedInv'
<1> SUFFICES ASSUME TypeInv, MigratedInv, [Next]_vars PROVE MigratedInv'
  OBVIOUS
<1>0. /\ Procs \subseteq Runners /\ MigrationsTypeOK
      /\ \A p \in Runners : seen[p] \subseteq Versions
      /\ recorded \subseteq schema
  BY StartupAssumption, Zenon DEF TypeInv, StartupTypeOK, MigrationsTypeOK, MigratedInv, SchemaMatchesRecord
<1>1. ASSUME NEW p \in Runners, RunnerStep(p) \/ Disconnect(p), UNCHANGED startVars
      PROVE  MigratedInv'
  <2>1. RunnerEffect(p)
    BY <1>0, <1>1, RunnerDoes, Zenon
  <2>2. SchemaMatchesRecord'
    BY <2>1, Zenon DEF RunnerEffect, MigratedInv, SchemaMatchesRecord
  <2>3. schema \cup rolled \subseteq schema' \cup rolled'
    BY <2>1, Zenon DEF RunnerEffect
  <2>4. \A q \in Runners : seen'[q] \subseteq schema' \cup rolled'
    BY <1>0, <2>1, <2>3, SMTT(60) DEF RunnerEffect, MigratedInv
  <2>5. \A q \in Procs : job'[q] = Apply
    BY <2>1, Zenon DEF RunnerEffect, MigratedInv
  <2>6. ASSUME NEW q \in Procs, mpc'[q] = "migrated" PROVE Versions \subseteq seen'[q]
    <3>1. CASE q = p
      BY <1>0, <2>1, <2>6, <3>1, Zenon DEF RunnerEffect, MigratedInv, Pending
    <3>2. CASE q # p
      BY <1>0, <2>1, <2>6, <3>2, Zenon DEF RunnerEffect, MigratedInv
    <3> QED BY <3>1, <3>2, Zenon
  <2>7. UNCHANGED <<config, spc, readyz>>
    BY <1>1, Zenon DEF startVars
  <2> QED BY <2>2, <2>3, <2>4, <2>5, <2>6, <2>7, Zenon DEF MigratedInv
<1>2. ASSUME NEW p \in Runners, rollback_one(p) PROVE MigratedInv'
  <2>1. /\ UNCHANGED <<schema, recorded, initdb, rolled, seen, config, spc, readyz>>
        /\ \A q \in Procs : job'[q] = job[q] /\ mpc'[q] = mpc[q]
    BY <1>0, <1>2, Zenon DEF rollback_one, startVars, MigrationsTypeOK
  <2> QED BY <2>1, Zenon DEF MigratedInv, SchemaMatchesRecord
<1>3. ASSUME NEW p \in Procs, ProcStep(p) \/ ready(p) \/ Stop(p) \/ Kill(p)
      PROVE  MigratedInv'
  <2>1. ProcEffect(p)
    BY <1>3, ProcDoes, Zenon
  <2>2. mpc[p] = "migrated" => Versions \subseteq schema \cup rolled
    BY <1>0, Zenon DEF MigratedInv
  <2>3. ASSUME NEW q \in Procs, config'[q].auto, spc'[q] \notin {"down", "migrate"}
        PROVE  Versions \subseteq schema' \cup rolled'
    BY <2>1, <2>2, <2>3, Zenon DEF ProcEffect, MigratedInv
  <2>4. \A q \in Procs : readyz'[q] = "ready" => spc'[q] = "serving"
    BY <2>1, Zenon DEF ProcEffect, MigratedInv
  <2>5. SchemaMatchesRecord' /\ \A q \in Runners : seen'[q] \subseteq schema' \cup rolled'
    BY <2>1, Zenon DEF ProcEffect, MigratedInv, SchemaMatchesRecord
  <2>6. \A q \in Procs : job'[q] = Apply /\ (mpc'[q] = "migrated" => Versions \subseteq seen'[q])
    BY <1>0, <2>1, Zenon DEF ProcEffect, MigratedInv
  <2> QED BY <2>3, <2>4, <2>5, <2>6, Zenon DEF MigratedInv
<1>4. CASE UNCHANGED vars
  BY <1>4, Zenon DEF vars, migVars, startVars, MigratedInv, SchemaMatchesRecord
<1> QED BY <1>1, <1>2, <1>3, <1>4, Zenon DEF Next

(* The invariant of the migration table and of the started processes.        *)
LEMMA MigratedInvariance == Spec => []MigratedInv
  BY InitMigrated, StepMigrated, TypeInvariance, PTL DEF Spec

(* schema_migrations tells the truth whoever races, rolls back or dies: a    *)
(* recorded version is in the schema, and one that is there unrecorded was   *)
(* put there by the initdb script.                                           *)
THEOREM RecordTruthful == Spec => []SchemaMatchesRecord
<1>1. MigratedInv => SchemaMatchesRecord
  BY Zenon DEF MigratedInv
<1> QED BY <1>1, MigratedInvariance, PTL

(* A process that migrates on start and answers GET /ready has every version *)
(* in place, but for those an operator rolled back.                          *)
THEOREM ReadyMigrated == Spec => []ReadyMeansMigrated
<1>1. MigratedInv => ReadyMeansMigrated
  BY Zenon DEF MigratedInv, ReadyMeansMigrated
<1> QED BY <1>1, MigratedInvariance, PTL

-----------------------------------------------------------------------------
(* A volume the initdb script wrote tracked versions on.                     *)

Unrepeatable == initdb \ Reexecutable

(* What makes InitdbVolumeRefused inductive: an executed version whose       *)
(* script raises a second time is never recorded, hence never rolled back,   *)
(* hence always in the schema; no runner ever counts it as applied, so no    *)
(* apply_pending returns.                                                    *)
RefusedInv ==
    /\ Unrepeatable \subseteq schema
    /\ Unrepeatable \cap recorded = {}
    /\ \A p \in Runners : seen[p] \cap Unrepeatable = {}
    /\ \A p \in Runners : tx[p] \notin Unrepeatable
    /\ \A p \in Runners : mpc[p] = "next" /\ job[p] # Apply => job[p] \in seen[p]
    /\ \A p \in Procs : config[p].auto /\ spc[p] \notin {"down", "migrate"} => Unrepeatable = {}

(* Fresh from initdb: everything executed, nothing recorded.                 *)
LEMMA InitRefused == StartupInit => RefusedInv
<1> SUFFICES ASSUME StartupInit PROVE RefusedInv
  OBVIOUS
<1>1. initdb \subseteq Versions /\ None \notin Versions
  BY InitType, MigrationsAssumption, Zenon DEF TypeInv, StartupTypeOK, MigrationsTypeOK, None
<1> QED BY <1>1, Zenon DEF StartupInit, MigrationsInit, RefusedInv, Unrepeatable

(* The runner keeps it: the script of such a version raises.                 *)
LEMMA RunnerRefused ==
    ASSUME TypeInv, RefusedInv, NEW p \in Runners, RunnerStep(p) \/ Disconnect(p), UNCHANGED startVars
    PROVE  RefusedInv'
<1>0. /\ MigrationsTypeOK /\ DOMAIN mpc = Runners /\ DOMAIN seen = Runners /\ DOMAIN tx = Runners
      /\ initdb \subseteq Versions /\ None \notin Versions
  BY MigrationsAssumption, Zenon DEF TypeInv, StartupTypeOK, MigrationsTypeOK, None
<1>1. RunnerEffect(p)
  BY <1>0, RunnerDoes, Zenon
<1>2. initdb' = initdb /\ Unrepeatable' = Unrepeatable /\ None \notin Unrepeatable
  BY <1>0, <1>1, Zenon DEF RunnerEffect, Unrepeatable
<1>3. Unrepeatable \subseteq schema' /\ Unrepeatable \cap recorded' = {}
  BY <1>1, Zenon DEF RunnerEffect, RefusedInv
<1>4. \A q \in Runners : seen'[q] \cap Unrepeatable = {}
  BY <1>1, Zenon DEF RunnerEffect, RefusedInv
<1>5. \A q \in Runners : tx'[q] \notin Unrepeatable
  <2>1. CASE apply(p)
    <3>1. \/ tx' = [tx EXCEPT ![p] = None]
          \/ \E v : ~UpRaises(v) /\ tx' = [tx EXCEPT ![p] = v]
      BY <2>1, Zenon DEF apply, Raise
    <3>2. \A v : ~UpRaises(v) => v \notin Unrepeatable
      BY Zenon DEF UpRaises, RefusedInv, Unrepeatable
    <3> QED BY <1>0, <1>2, <3>1, <3>2, Zenon DEF RefusedInv
  <2>2. CASE down(p)
    <3>1. job[p] \in seen[p]
      BY <2>2, Zenon DEF down, RefusedInv
    <3>2. tx' = [tx EXCEPT ![p] = None] \/ tx' = [tx EXCEPT ![p] = job[p]]
      BY <2>2, Zenon DEF down, Raise
    <3> QED BY <1>0, <1>2, <3>1, <3>2, Zenon DEF RefusedInv
  <2>3. CASE ~apply(p) /\ ~down(p)
    <3>1. tx' = tx \/ tx' = [tx EXCEPT ![p] = None]
      BY <2>3, Zenon DEF RunnerStep, Disconnect, ensure_migrations_table, applied_versions,
         apply_done, record_applied, record_rolled_back, Raise
    <3> QED BY <1>0, <1>2, <3>1, Zenon DEF RefusedInv
  <2> QED BY <2>1, <2>2, <2>3, Zenon
<1>6. \A q \in Runners : mpc'[q] = "next" /\ job'[q] # Apply => job'[q] \in seen'[q]
  <2>1. mpc'[p] = "next" /\ job[p] # Apply => job[p] \in seen'[p]
    BY <1>0, Zenon DEF RunnerStep, Disconnect, ensure_migrations_table, applied_versions, apply,
       apply_done, down, record_applied, record_rolled_back, Raise, At
  <2> QED BY <1>1, <2>1, Zenon DEF RunnerEffect, RefusedInv
<1>7. UNCHANGED <<config, spc>>
  BY Zenon DEF startVars
<1> QED BY <1>2, <1>3, <1>4, <1>5, <1>6, <1>7, Zenon DEF RefusedInv

(* Every step keeps it.                                                      *)
LEMMA StepRefused == TypeInv /\ MigratedInv /\ RefusedInv /\ [Next]_vars => RefusedInv'
<1> SUFFICES ASSUME TypeInv, MigratedInv, RefusedInv, [Next]_vars PROVE RefusedInv'
  OBVIOUS
<1>0. /\ Procs \subseteq Runners /\ MigrationsTypeOK
      /\ initdb \subseteq Versions /\ None \notin Versions
  BY StartupAssumption, MigrationsAssumption, Zenon DEF TypeInv, StartupTypeOK, MigrationsTypeOK, None
<1>1. ASSUME NEW p \in Runners, RunnerStep(p) \/ Disconnect(p), UNCHANGED startVars
      PROVE  RefusedInv'
  BY <1>1, RunnerRefused, Zenon
<1>2. ASSUME NEW p \in Runners, rollback_one(p) PROVE RefusedInv'
  <2>1. /\ UNCHANGED <<schema, recorded, initdb, seen, tx, config, spc>>
        /\ \A q \in Runners \ {p} : job'[q] = job[q] /\ mpc'[q] = mpc[q]
        /\ mpc'[p] = "table"
    BY <1>0, <1>2, Zenon DEF rollback_one, startVars, MigrationsTypeOK
  <2> QED BY <2>1, Zenon DEF RefusedInv, Unrepeatable
<1>3. ASSUME NEW p \in Procs, ProcStep(p) \/ ready(p) \/ Stop(p) \/ Kill(p)
      PROVE  RefusedInv'
  <2>1. ProcEffect(p)
    BY <1>3, ProcDoes, Zenon
  <2>2. Unrepeatable' = Unrepeatable /\ None \notin Unrepeatable /\ Unrepeatable \subseteq Versions
    BY <1>0, <2>1, Zenon DEF ProcEffect, Unrepeatable
  <2>3. mpc[p] = "migrated" => Unrepeatable = {}
    BY <1>0, <2>2, Zenon DEF MigratedInv, RefusedInv
  <2>4. \A q \in Procs : config'[q].auto /\ spc'[q] \notin {"down", "migrate"} => Unrepeatable = {}
    BY <2>1, <2>3, Zenon DEF ProcEffect, RefusedInv
  <2>5. \A q \in Runners : mpc'[q] = "next" /\ job'[q] # Apply => job'[q] \in seen'[q]
    BY <2>1, Zenon DEF ProcEffect, RefusedInv
  <2>6. \A q \in Runners : tx'[q] \notin Unrepeatable
    BY <2>1, <2>2, Zenon DEF ProcEffect, RefusedInv
  <2> QED BY <2>1, <2>2, <2>4, <2>5, <2>6, Zenon DEF ProcEffect, RefusedInv
<1>4. CASE UNCHANGED vars
  BY <1>4, Zenon DEF vars, migVars, startVars, RefusedInv, Unrepeatable
<1> QED BY <1>1, <1>2, <1>3, <1>4, Zenon DEF Next

(* A volume on which initdb executed a version that cannot be executed again *)
(* is never served by a process that migrates on start.                      *)
THEOREM InitdbRefused == Spec => []InitdbVolumeRefused
<1>1. RefusedInv => InitdbVolumeRefused
  BY Zenon DEF RefusedInv, InitdbVolumeRefused, Unrepeatable
<1> QED BY <1>1, InitRefused, StepRefused, TypeInvariance, MigratedInvariance, PTL DEF Spec

-----------------------------------------------------------------------------
(* One signing key.                                                          *)

(* What makes OneSigningKey inductive: a process past from_path holds a real *)
(* key, and while no second writer has overlapped a first, whoever writes is *)
(* alone with a truncated file.                                              *)
KeyInv ==
    /\ \A p \in Procs : spc[p] \in {"write", "client", "serving"} => key[p] > 0
    /\ ~overlap =>
         /\ \A p \in Procs : spc[p] = "write" => keyfile = Partial
         /\ \A p, q \in Procs : spc[p] = "write" /\ spc[q] = "write" => p = q
         /\ \A p \in Procs : spc[p] \in {"client", "serving"} => key[p] = keyfile

(* LocalKeySigner.from_path and every other step of a process keep it.       *)
LEMMA ProcKey ==
    ASSUME TypeInv, KeyInv, NEW p \in Procs, ProcStep(p) \/ ready(p) \/ Stop(p) \/ Kill(p)
    PROVE  KeyInv'
<1>0. /\ spc \in [Procs -> {"down", "serving"} \cup Starting]
      /\ key \in [Procs -> Nat] /\ made \in Nat /\ overlap \in BOOLEAN
      /\ keyfile \in {Absent, Partial} \cup 1..made
  BY SMTT(60) DEF TypeInv, StartupTypeOK
<1>1. ASSUME UNCHANGED <<keyfile, overlap>>, \A q \in Procs \ {p} : spc'[q] = spc[q] /\ key'[q] = key[q],
             \/ spc'[p] \notin {"write", "client", "serving"}
             \/ spc[p] \in {"client", "serving"} /\ spc'[p] \in {"client", "serving"} /\ key'[p] = key[p]
             \/ spc'[p] = "client" /\ key'[p] = keyfile /\ keyfile > 0
      PROVE  KeyInv'
  BY <1>0, <1>1, Zenon DEF KeyInv, Partial
<1>2. CASE Exit(p)
  BY <1>0, <1>1, <1>2, Zenon DEF Exit, Goto
<1>3. CASE Start(p) \/ (apply_pending_returns(p) /\ ~Exit(p)) \/ (connect(p) /\ ~Exit(p))
  BY <1>0, <1>1, <1>3, Zenon DEF Start, apply_pending_returns, connect, Goto
<1>4. CASE from_path(p) /\ ~Exit(p)
  <2>1. CASE keyfile = Absent
    BY <1>0, <1>1, <1>4, <2>1, Zenon DEF from_path, Goto, Absent, Partial
  <2>2. CASE keyfile \notin {Absent, Partial}
    <3>1. keyfile > 0
      BY <1>0, <2>2
    <3> QED BY <1>0, <1>1, <1>4, <2>2, <3>1, Zenon DEF from_path, Goto
  <2> QED BY <1>4, <2>1, <2>2, Zenon DEF from_path
<1>5. CASE create_key(p)
  <2>1. /\ spc' = [spc EXCEPT ![p] = "write"] /\ key' = [key EXCEPT ![p] = made + 1]
        /\ keyfile' = Partial
    BY <1>5, Zenon DEF create_key, Goto
  <2>2. ~overlap' => ~overlap /\ keyfile = Absent
    BY <1>0, <1>5, ZenonT(60) DEF create_key
  <2>3. ASSUME ~overlap', NEW q \in Procs \ {p} PROVE spc[q] \notin {"write", "client", "serving"}
    BY <2>2, <2>3 DEF KeyInv, Absent, Partial
  <2> QED BY <1>0, <2>1, <2>3 DEF KeyInv
<1>6. CASE write_bytes(p)
  <2>1. /\ spc[p] = "write" /\ spc' = [spc EXCEPT ![p] = "client"] /\ key' = key
        /\ keyfile' = key[p] /\ overlap' = overlap
    BY <1>6, Zenon DEF write_bytes, Goto
  <2>2. ASSUME ~overlap, NEW q \in Procs \ {p} PROVE spc[q] \notin {"write", "client", "serving"}
    BY <1>0, <2>1, <2>2 DEF KeyInv, Partial
  <2> QED BY <1>0, <2>1, <2>2, Zenon DEF KeyInv
<1>7. CASE start_serving(p) /\ ~Exit(p)
  BY <1>0, <1>1, <1>7, Zenon DEF start_serving, Goto
<1>8. CASE ready(p)
  BY <1>0, <1>8, Zenon DEF ready, KeyInv
<1> QED BY <1>2, <1>3, <1>4, <1>5, <1>6, <1>7, <1>8, Zenon DEF ProcStep, Stop, Kill

(* All processes that serve sign with the key in the file, unless two first  *)
(* starts overlapped and the second truncated the first's file.              *)
THEOREM SingleSigningKey == Spec => []OneSigningKey
<1>1. StartupInit => KeyInv
  BY Zenon DEF StartupInit, KeyInv
<1>2. TypeInv /\ KeyInv /\ [Next]_vars => KeyInv'
  <2> SUFFICES ASSUME TypeInv, KeyInv, [Next]_vars PROVE KeyInv'
    OBVIOUS
  <2>1. CASE UNCHANGED startVars
    BY <2>1, Zenon DEF startVars, KeyInv
  <2>2. ASSUME NEW p \in Procs, ProcStep(p) \/ ready(p) \/ Stop(p) \/ Kill(p) PROVE KeyInv'
    BY <2>2, ProcKey, Zenon
  <2> QED BY <2>1, <2>2, Zenon DEF Next, rollback_one, vars
<1>3. KeyInv => OneSigningKey
  BY Zenon DEF KeyInv, OneSigningKey
<1> QED BY <1>1, <1>2, <1>3, TypeInvariance, PTL DEF Spec
=============================================================================
