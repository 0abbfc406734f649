------------------------------ MODULE Startup ------------------------------
(***************************************************************************)
(* The life of API processes (app.py, _lifespan): optionally migrate, then *)
(* open the Postgres pool, Redis and Kafka, start the LISTEN consumer,     *)
(* load or create the signing key, select the policy client, serve, and on *)
(* the way out close what was opened.  An exception anywhere before the    *)
(* yield ends the process.  Several processes share the volume and the key *)
(* file; operators call rollback_one meanwhile.                            *)
(***************************************************************************)
EXTENDS Migrations

CONSTANTS
    Procs,      \* API processes
    Configs     \* environments a process may be started with

ASSUME StartupAssumption ==
    /\ Procs \subseteq Runners
    /\ Configs \subseteq [auto : BOOLEAN, profile : {"vllm", "cpu", "stub", "dev_default"},
                          env : {"local", "prod"}]
    /\ Configs # {}

VARIABLES
    spc,        \* where process p's _lifespan is
    config,     \* p's environment variables
    key,        \* the signing key p holds
    keyfile,    \* the file at SIGNING_KEY_PATH
    made,       \* keys generated so far
    overlap,    \* a starter that saw no file wrote over one that was there
    readyz      \* p's last answer to GET /ready

startVars == <<spc, config, key, keyfile, made, overlap, readyz>>
vars == <<migVars, startVars>>

NoKey == 0
Absent == 0      \* no file at SIGNING_KEY_PATH
Partial == -1    \* opened for writing, and not written

Starting == {"migrate", "connect", "key", "create", "write", "client"}

StartupTypeOK ==
    /\ MigrationsTypeOK
    /\ spc \in [Procs -> {"down", "serving"} \cup Starting]
    /\ config \in [Procs -> Configs]
    /\ key \in [Procs -> 0..made]
    /\ keyfile \in {Absent, Partial} \cup 1..made
    /\ made \in Nat
    /\ overlap \in BOOLEAN
    /\ readyz \in [Procs -> {"none", "ready", "not_ready"}]

StartupInit ==
    /\ MigrationsInit
    /\ spc = [p \in Procs |-> "down"]
    /\ config \in [Procs -> Configs]
    /\ key = [p \in Procs |-> NoKey]
    /\ keyfile = Absent
    /\ made = 0
    /\ overlap = FALSE
    /\ readyz = [p \in Procs |-> "none"]

Goto(p, l) == spc' = [spc EXCEPT ![p] = l]

(* The process ends: its memory and its connections go, and with them an     *)
(* open transaction.  The files stay.                                        *)
Exit(p) ==
    /\ Goto(p, "down")
    /\ key' = [key EXCEPT ![p] = NoKey]
    /\ readyz' = [readyz EXCEPT ![p] = "none"]
    /\ mpc' = [mpc EXCEPT ![p] = "idle"]
    /\ tx' = [tx EXCEPT ![p] = None]
    /\ UNCHANGED <<schema, recorded, table, initdb, job, seen, rolled, config, keyfile, made, overlap>>

-----------------------------------------------------------------------------
(* _lifespan up to its first await.                                          *)
Start(p) ==
    /\ spc[p] = "down"
    /\ IF config[p].auto
       THEN /\ Goto(p, "migrate")
            /\ mpc' = [mpc EXCEPT ![p] = "table"]
            /\ job' = [job EXCEPT ![p] = Apply]
       ELSE Goto(p, "connect") /\ UNCHANGED <<mpc, job>>
    /\ UNCHANGED <<schema, recorded, table, initdb, seen, tx, rolled, faults,
                   config, key, keyfile, made, overlap, readyz>>

(* Mutant: a failed apply_pending is logged and the start goes on.           *)
apply_pending_returns_anyway(p) ==
    /\ spc[p] = "migrate"
    /\ mpc[p] \in {"migrated", "failed"}
    /\ mpc' = [mpc EXCEPT ![p] = "idle"]
    /\ Goto(p, "connect")
    /\ UNCHANGED <<schema, recorded, table, initdb, job, seen, tx, rolled, faults,
                   config, key, keyfile, made, overlap, readyz>>

(* apply_pending returns, or its exception ends the process.                 *)
apply_pending_returns(p) ==
    /\ spc[p] = "migrate"
    /\ \/ /\ mpc[p] = "migrated"
          /\ mpc' = [mpc EXCEPT ![p] = "idle"]
          /\ Goto(p, "connect")
          /\ UNCHANGED <<schema, recorded, table, initdb, job, seen, tx, rolled,
                         config, key, keyfile, made, overlap, readyz>>
       \/ mpc[p] = "failed" /\ Exit(p)
    /\ UNCHANGED faults

(* The awaited calls, in order.  Nothing another actor reads changes between *)
(* them, so they are one step.  Database.connect and Producer.start fail     *)
(* when their server is away; HotStore.connect builds a client, and the      *)
(* consumer's start creates a task, without connecting.                      *)
connect(p) ==
    /\ spc[p] = "connect"
    /\ \/ /\ Goto(p, "key")
          /\ UNCHANGED <<migVars, config, key, keyfile, made, overlap, readyz>>
       \/ Fault /\ Exit(p)

(* LocalKeySigner.from_path: the file is looked for; load_pem_private_key    *)
(* raises on what a writer has not finished.                                 *)
from_path(p) ==
    /\ spc[p] = "key"
    /\ \/ /\ keyfile = Absent
          /\ Goto(p, "create")
          /\ UNCHANGED <<migVars, config, key, keyfile, made, overlap, readyz>>
       \/ /\ keyfile \notin {Absent, Partial}
          /\ key' = [key EXCEPT ![p] = keyfile]
          /\ Goto(p, "client")
          /\ UNCHANGED <<migVars, config, keyfile, made, overlap, readyz>>
       \/ keyfile = Partial /\ Exit(p) /\ UNCHANGED faults

(* Mutant: the new key is kept in memory only.                               *)
create_key_unsaved(p) ==
    /\ spc[p] = "create"
    /\ made' = made + 1
    /\ key' = [key EXCEPT ![p] = made']
    /\ Goto(p, "client")
    /\ UNCHANGED <<migVars, config, keyfile, overlap, readyz>>

(* Generate a key and open the file for writing, which truncates it.         *)
create_key(p) ==
    /\ spc[p] = "create"
    /\ made' = made + 1
    /\ key' = [key EXCEPT ![p] = made']
    /\ overlap' = (overlap \/ keyfile # Absent)
    /\ keyfile' = Partial
    /\ Goto(p, "write")
    /\ UNCHANGED <<migVars, config, readyz>>

write_bytes(p) ==
    /\ spc[p] = "write"
    /\ keyfile' = key[p]
    /\ Goto(p, "client")
    /\ UNCHANGED <<migVars, config, key, made, overlap, readyz>>

(* _select_policy_client: the development client is for local use only.  The *)
(* constructors of the clients connect to nothing; an environment they would *)
(* reject, a number that does not parse, is not among Configs.               *)
select_policy_client(c) == c.profile # "dev_default" \/ c.env = "local"

start_serving(p) ==
    /\ spc[p] = "client"
    /\ \/ /\ select_policy_client(config[p])
          /\ Goto(p, "serving")
          /\ UNCHANGED <<migVars, config, key, keyfile, made, overlap, readyz>>
       \/ ~select_policy_client(config[p]) /\ Exit(p) /\ UNCHANGED faults

(* GET /ready: Postgres and Redis are pinged; Kafka's answer is that the     *)
(* producer object exists, and the schema is not looked at.                  *)
ready(p) ==
    /\ spc[p] = "serving"
    /\ \/ readyz' = [readyz EXCEPT ![p] = "ready"] /\ UNCHANGED faults
       \/ readyz' = [readyz EXCEPT ![p] = "not_ready"] /\ Fault
    /\ UNCHANGED <<schema, recorded, table, initdb, mpc, job, seen, tx, rolled,
                   spc, config, key, keyfile, made, overlap>>

(* The shutdown half of _lifespan: worker, consumer, Kafka, Redis, Postgres. *)
Stop(p) ==
    /\ spc[p] = "serving"
    /\ Fault
    /\ Exit(p)

(* The process is killed at any point of its start.                          *)
Kill(p) ==
    /\ spc[p] \in Starting
    /\ Fault
    /\ Exit(p)

(* An operator asks for a rollback.                                          *)
rollback_one(p) ==
    /\ p \notin Procs /\ mpc[p] \in {"idle", "migrated", "failed"}
    /\ Fault
    /\ \E v \in Versions : job' = [job EXCEPT ![p] = v]
    /\ mpc' = [mpc EXCEPT ![p] = "table"]
    /\ UNCHANGED <<schema, recorded, table, initdb, seen, tx, rolled, startVars>>

ProcStep(p) ==
    \/ Start(p) \/ apply_pending_returns(p) \/ connect(p) \/ from_path(p)
    \/ create_key(p) \/ write_bytes(p) \/ start_serving(p)

Next ==
    \/ \E p \in Runners : (RunnerStep(p) \/ Disconnect(p)) /\ UNCHANGED startVars
    \/ \E p \in Runners : rollback_one(p)
    \/ \E p \in Procs : ProcStep(p) \/ ready(p) \/ Stop(p) \/ Kill(p)

Spec == StartupInit /\ [][Next]_vars

(* A call that can return does.  That somebody starts a process again that   *)
(* went down is a premise: compose gives the API no restart policy.          *)
FairSpec ==
    /\ Spec
    /\ \A p \in Runners : WF_vars(RunnerStep(p) /\ UNCHANGED startVars)
    /\ \A p \in Procs : WF_vars(ProcStep(p))
-----------------------------------------------------------------------------
(* What /ready promises of the schema: a process that was to migrate on      *)
(* start and answers "ready" has every version in place, but for the ones    *)
(* an operator rolled back, although migrating and serving are separated by  *)
(* six calls in which others migrate, roll back and die.                     *)
ReadyMeansMigrated ==
    \A p \in Procs : readyz[p] = "ready" /\ config[p].auto => Versions \subseteq schema \cup rolled

(* All processes that serve sign with one key, the one in the file, under    *)
(* the one key_id: unless two first starts overlapped and the second wrote   *)
(* over the first's file, restarts keep the key.                             *)
OneSigningKey ==
    ~overlap => \A p \in Procs : spc[p] \in {"client", "serving"} => key[p] = keyfile

(* A volume the initdb script put a tracked version on is one the runner     *)
(* cannot take over: a process that migrates on start never serves it, as    *)
(* long as one of those scripts raises when it is executed again.            *)
InitdbVolumeRefused ==
    initdb \ Reexecutable # {} => \A p \in Procs : spc[p] = "serving" => ~config[p].auto

(* Half a key file, and nobody left who would write the rest.                *)
KeyFileAbandoned ==
    keyfile = Partial /\ \A p \in Procs : spc[p] \notin {"create", "write"}

(* A failed start needs no repair: on a volume without tracked versions of   *)
(* initdb's, a process that somebody keeps starting ends up serving, whoever *)
(* beat it to a migration or rolled one back, unless a killed writer left    *)
(* half a key file.                                                          *)
StartsEventually ==
    \A p \in Procs :
        (initdb = {} /\ select_policy_client(config[p])) ~>
            (spc[p] = "serving" \/ KeyFileAbandoned)
=============================================================================
