----------------------------- MODULE Migrations -----------------------------
(***************************************************************************)
(* The migration runner (registry/migrations/runner.py) on one Postgres    *)
(* volume.  A runner is anybody who calls apply_pending or rollback_one:   *)
(* a starting API process, an operator, a test session.  A volume may have *)
(* been initialised by the initdb script (infra/compose/postgres-init),    *)
(* which executes the tracked files without recording them.                *)
(***************************************************************************)
EXTENDS Integers, FiniteSets

CONSTANTS
    Versions,       \* the versions with an .up.sql, in their lexical order
    Needs,          \* Needs[v]: versions whose objects v's scripts refer to
    Reexecutable,   \* versions whose .up.sql succeeds a second time
    Runners,        \* whoever runs the runner
    MaxFaults       \* bound: lost connections, crashes and rollbacks together

ASSUME MigrationsAssumption ==
    /\ Versions \subseteq Nat \ {0}
    /\ Needs \in [Versions -> SUBSET Versions]
    /\ \A v \in Versions : \A u \in Needs[v] : u < v
    /\ Reexecutable \subseteq Versions
    /\ MaxFaults \in Nat

VARIABLES
    schema,     \* versions whose objects are in the database
    recorded,   \* rows of schema_migrations
    table,      \* schema_migrations exists
    initdb,     \* versions the initdb script executed
    mpc,        \* the call runner p is at
    job,        \* what p was asked to do: Apply, or the version to roll back
    seen,       \* p's `existing`, and what p applied since
    tx,         \* the version p's open transaction has executed, if any
    rolled,     \* versions some rollback_one has removed
    faults      \* faults and rollbacks so far

migVars == <<schema, recorded, table, initdb, mpc, job, seen, tx, rolled, faults>>

Apply == 0
None == 0

MigrationsTypeOK ==
    /\ schema \subseteq Versions
    /\ recorded \subseteq Versions
    /\ table \in BOOLEAN
    /\ initdb \subseteq Versions
    /\ mpc \in [Runners -> {"idle", "table", "read", "next", "record", "migrated", "failed"}]
    /\ job \in [Runners -> {Apply} \cup Versions]
    /\ seen \in [Runners -> SUBSET Versions]
    /\ tx \in [Runners -> {None} \cup Versions]
    /\ rolled \subseteq Versions
    /\ faults \in 0..MaxFaults
    /\ \A p \in Runners : tx[p] # None <=> mpc[p] = "record"

(* 00_run_up_migrations.sh: psql executes every .up.sql there was when the   *)
(* volume was created, in order, and records none.                           *)
InitdbRuns(last) == {v \in Versions : v <= last}

MigrationsInit ==
    /\ initdb \in {{}} \cup {InitdbRuns(last) : last \in Versions}
    /\ schema = initdb
    /\ recorded = {}
    /\ table = FALSE
    /\ mpc = [p \in Runners |-> "idle"]
    /\ job = [p \in Runners |-> Apply]
    /\ seen = [p \in Runners |-> {}]
    /\ tx = [p \in Runners |-> None]
    /\ rolled = {}
    /\ faults = 0

At(p, l) == mpc' = [mpc EXCEPT ![p] = l]

(* The connection is lost, or the statement raises: an open transaction is   *)
(* rolled back and the exception leaves apply_pending or rollback_one.       *)
Raise(p) == At(p, "failed") /\ tx' = [tx EXCEPT ![p] = None]

Fault == faults < MaxFaults /\ faults' = faults + 1

-----------------------------------------------------------------------------
(* ensure_migrations_table.  Two concurrent CREATE TABLE IF NOT EXISTS may   *)
(* both find no table; the later to commit then fails in the catalogue.      *)
ensure_migrations_table(p) ==
    /\ mpc[p] = "table"
    /\ \E losers \in SUBSET {q \in Runners \ {p} : ~table /\ mpc[q] = "table"} :
        mpc' = [q \in Runners |-> IF q = p THEN "read"
                                  ELSE IF q \in losers THEN "failed" ELSE mpc[q]]
    /\ table' = TRUE
    /\ UNCHANGED <<schema, recorded, initdb, job, seen, tx, rolled, faults>>

(* applied_versions, read once; rollback_one of a version that is not there  *)
(* returns.                                                                  *)
applied_versions(p) ==
    /\ mpc[p] = "read"
    /\ seen' = [seen EXCEPT ![p] = recorded]
    /\ At(p, IF job[p] = Apply \/ job[p] \in recorded THEN "next" ELSE "migrated")
    /\ UNCHANGED <<schema, recorded, table, initdb, job, tx, rolled, faults>>

(* discover_migrations sorts by version; the pending ones keep that order.   *)
Pending(p) == Versions \ seen[p]

(* Mutant: the directory's order, not the sorted one.                        *)
Foremost_unsorted(S) == CHOOSE v \in S : \A u \in S : v >= u

Foremost(S) == CHOOSE v \in S : \A u \in S : v <= u

(* Two scripts on the same objects: the second waits for the first's commit. *)
Contend(u, v) == u = v \/ u \in Needs[v] \/ v \in Needs[u]

Locked(p, v) == \E q \in Runners \ {p} : tx[q] # None /\ Contend(tx[q], v)

(* Whether v's .up.sql raises on the committed schema.                       *)
UpRaises(v) == (v \in schema /\ v \notin Reexecutable) \/ ~(Needs[v] \subseteq schema)

(* Mutant: the script runs in autocommit mode, outside the transaction.      *)
apply_autocommit(p) ==
    /\ mpc[p] = "next" /\ job[p] = Apply /\ Pending(p) # {}
    /\ LET v == Foremost(Pending(p)) IN
        /\ ~Locked(p, v)
        /\ ~UpRaises(v)
        /\ schema' = schema \cup {v}
        /\ tx' = [tx EXCEPT ![p] = v]
        /\ At(p, "record")
    /\ UNCHANGED <<recorded, table, initdb, job, seen, rolled, faults>>

(* Mutant: a script that raises is skipped and the loop goes on.             *)
apply_skips(p) ==
    /\ mpc[p] = "next" /\ job[p] = Apply /\ Pending(p) # {}
    /\ LET v == Foremost(Pending(p)) IN
        /\ ~Locked(p, v)
        /\ IF UpRaises(v)
           THEN seen' = [seen EXCEPT ![p] = @ \cup {v}] /\ UNCHANGED <<mpc, tx>>
           ELSE tx' = [tx EXCEPT ![p] = v] /\ At(p, "record") /\ UNCHANGED seen
    /\ UNCHANGED <<schema, recorded, table, initdb, job, rolled, faults>>

(* apply_pending's loop: begin, execute the next pending script.             *)
apply(p) ==
    /\ mpc[p] = "next" /\ job[p] = Apply /\ Pending(p) # {}
    /\ LET v == Foremost(Pending(p)) IN
        /\ ~Locked(p, v)
        /\ IF UpRaises(v) THEN Raise(p) ELSE tx' = [tx EXCEPT ![p] = v] /\ At(p, "record")
    /\ UNCHANGED <<schema, recorded, table, initdb, job, seen, rolled, faults>>

apply_done(p) ==
    /\ mpc[p] = "next" /\ job[p] = Apply /\ Pending(p) = {}
    /\ At(p, "migrated")
    /\ UNCHANGED <<schema, recorded, table, initdb, job, seen, tx, rolled, faults>>

(* rollback_one: begin, execute the .down.sql, which the data (rows of a     *)
(* kind the older schema refuses) or missing objects may make raise.         *)
down(p) ==
    /\ mpc[p] = "next" /\ job[p] # Apply
    /\ ~Locked(p, job[p])
    /\ \/ Raise(p)
       \/ /\ Needs[job[p]] \subseteq schema
          /\ tx' = [tx EXCEPT ![p] = job[p]]
          /\ At(p, "record")
    /\ UNCHANGED <<schema, recorded, table, initdb, job, seen, rolled, faults>>

(* How the commit ends: as for every transaction, the answer may be lost.    *)
CommitOutcome == {"ok"} \cup IF faults < MaxFaults THEN {"failed", "ack_lost"} ELSE {}

(* The INSERT of the record, and the commit of script and record together.   *)
(* The primary key refuses a version somebody else recorded meanwhile.       *)
record_applied(p) ==
    /\ mpc[p] = "record" /\ job[p] = Apply
    /\ \E o \in CommitOutcome :
        LET taken == tx[p] \in recorded
            commits == o # "failed" /\ ~taken IN
        /\ schema' = IF commits THEN schema \cup {tx[p]} ELSE schema
        /\ recorded' = IF commits THEN recorded \cup {tx[p]} ELSE recorded
        /\ IF o = "ok" /\ ~taken
           THEN /\ seen' = [seen EXCEPT ![p] = @ \cup {tx[p]}]
                /\ tx' = [tx EXCEPT ![p] = None]
                /\ At(p, "next")
           ELSE Raise(p) /\ UNCHANGED seen
        /\ faults' = IF o = "ok" THEN faults ELSE faults + 1
    /\ UNCHANGED <<table, initdb, job, rolled>>

(* The DELETE of the record, and the commit.                                 *)
record_rolled_back(p) ==
    /\ mpc[p] = "record" /\ job[p] # Apply
    /\ \E o \in CommitOutcome :
        /\ schema' = IF o = "failed" THEN schema ELSE schema \ {tx[p]}
        /\ recorded' = IF o = "failed" THEN recorded ELSE recorded \ {tx[p]}
        /\ rolled' = IF o = "failed" THEN rolled ELSE rolled \cup {tx[p]}
        /\ IF o = "ok" THEN At(p, "migrated") /\ tx' = [tx EXCEPT ![p] = None] ELSE Raise(p)
        /\ faults' = IF o = "ok" THEN faults ELSE faults + 1
    /\ UNCHANGED <<table, initdb, job, seen>>

(* Any of the other calls loses its connection.                              *)
Disconnect(p) ==
    /\ mpc[p] \in {"table", "read", "next"}
    /\ Fault
    /\ Raise(p)
    /\ UNCHANGED <<schema, recorded, table, initdb, job, seen, rolled>>

RunnerStep(p) ==
    \/ ensure_migrations_table(p) \/ applied_versions(p) \/ apply(p) \/ apply_done(p)
    \/ down(p) \/ record_applied(p) \/ record_rolled_back(p)

-----------------------------------------------------------------------------
(* schema_migrations tells the truth, whoever else migrates, rolls back or   *)
(* dies meanwhile: a recorded version is in the schema, and a version that   *)
(* is there without a record was put there by initdb.                        *)
SchemaMatchesRecord ==
    /\ recorded \subseteq schema
    /\ schema \ recorded \subseteq initdb
=============================================================================
