------------------------------- MODULE Startup -------------------------------
(***************************************************************************)
(* From the start of the process to the first call of Run, and its exit:   *)
(* LoadConfig, NewProcessor, signal.Notify and election.New in the order   *)
(* of main, exit statuses, and systemd, which restarts a process that      *)
(* failed until it has started too often.  The database and Redis may be   *)
(* down for a while.                                                       *)
(*                                                                         *)
(* Five keys stand for the configuration: database_driver, postgres_url,   *)
(* consumer_id, polling_interval (keys of the top level) and               *)
(* cluster.enabled (a nested one).                                         *)
(***************************************************************************)
EXTENDS Integers

CONSTANTS
    Drivers,         \* values of database_driver: "sqlite", others mean PostgreSQL
    Unset,           \* no value in the file, no such variable
    StartLimitBurst, \* starts that systemd allows in an interval (its default: 5)
    RestartDelayed,  \* the unit has a RestartSec that keeps below that limit
    MaxTrouble       \* bound: outages, signals, timeouts and fatal errors

ASSUME StartupAssumption ==
    /\ MaxTrouble \in Nat
    /\ StartLimitBurst \in Nat /\ StartLimitBurst > 1
    /\ RestartDelayed \in BOOLEAN

VARIABLES
    flag,          \* --config: "path", or "" for no file
    file,          \* {} if there is no file, otherwise its settings
    env,           \* the environment: names of variables to values
    config,        \* what LoadConfig returned
    phase,         \* where main is
    told,          \* appCtx is cancelled
    status,        \* how the last process ended
    starts,        \* starts that systemd counts in its current interval
    up,            \* which servers can be reached
    trouble        \* counts towards MaxTrouble

inputs == <<flag, file, env>>
vars == <<inputs, config, phase, told, status, starts, up, trouble>>

Servers == {"database", "redis"}

(* "often" stands for whatever does not parse as the type of its key.      *)
Values ==
    [driver |-> Drivers, url |-> {"url"}, consumer |-> {"id"},
     polling |-> {"30", "often"}, cluster |-> {"true", "false"}]

Keys == DOMAIN Values

(* The names the documents give the variables (README.md:144,              *)
(* config.yaml.example:300-314).                                           *)
Documented ==
    [driver |-> "EP_DATABASE_DRIVER", url |-> "EP_POSTGRES_URL",
     consumer |-> "EP_CONSUMER_ID", polling |-> "EP_POLLING_INTERVAL",
     cluster |-> "EP_CLUSTER_ENABLED"]

Names == { Documented[k] : k \in Keys }

(* BindEnv upper-cases the prefix and the key and leaves the dot.          *)
Bound == [Documented EXCEPT !.cluster = "EP_CLUSTER.ENABLED"]

Defaults ==
    [driver |-> "postgres", url |-> "", consumer |-> "", polling |-> "0",
     cluster |-> "false"]

(* An empty variable counts as unset.                                      *)
FromEnv(k) ==
    IF Bound[k] \in DOMAIN env /\ env[Bound[k]] # "" THEN env[Bound[k]] ELSE Unset

(* An empty --config skips the file, one that names no file is an error.   *)
FileMissing == flag # "" /\ file = {}

FromFile(k) ==
    IF flag # "" /\ \E f \in file : f[k] # Unset
    THEN (CHOOSE f \in file : TRUE)[k] ELSE Defaults[k]

Setting(k) == IF FromEnv(k) # Unset THEN FromEnv(k) ELSE FromFile(k)

(* An empty consumer_id is replaced by one made of platform and region.    *)
Loaded ==
    [k \in Keys |-> IF k = "consumer" /\ Setting(k) = "" THEN "generated" ELSE Setting(k)]

Unparsable(c) == c.polling = "often"

MissingURL(c) == c.driver # "sqlite" /\ c.url = ""

Unsupported_Never(c) == FALSE
Unsupported(c) == c.driver = "sqlite" /\ c.cluster = "true"

-----------------------------------------------------------------------------
(* main                                                                    *)

Phases == {"load", "create", "handle", "elect", "run", "exited"}

Init ==
    /\ flag \in {"path", ""}
    /\ file \in { {} } \cup
                { {f} : f \in { g \in [Keys -> {Unset} \cup UNION { Values[k] : k \in Keys }] :
                                  \A k \in Keys : g[k] \in Values[k] \cup {Unset} } }
    /\ env \in { g \in [Names -> UNION { Values[k] : k \in Keys }] :
                   \A k \in Keys : g[Documented[k]] \in Values[k] \cup {""} }
    /\ config = Defaults
    /\ phase = "load"
    /\ told = FALSE
    /\ status = "none"
    /\ starts = 1
    /\ up \in SUBSET Servers
    /\ trouble = 0

Exit(how) == phase' = "exited" /\ status' = how

FailedStart_Clean == "success"
FailedStart == "failure"

LoadConfig ==
    /\ phase = "load"
    /\ IF FileMissing \/ Unparsable(Loaded) \/ MissingURL(Loaded)
       THEN Exit(FailedStart) /\ UNCHANGED config
       ELSE /\ config' = Loaded
            /\ phase' = "create"
            /\ UNCHANGED status
    /\ UNCHANGED <<inputs, told, starts, up, trouble>>

NewProcessor ==
    /\ phase = "create"
    /\ IF Unsupported(config) \/ "database" \notin up
       THEN Exit(FailedStart)
       ELSE phase' = "handle" /\ UNCHANGED status
    /\ UNCHANGED <<inputs, config, told, starts, up, trouble>>

Notify ==
    /\ phase = "handle"
    /\ phase' = IF config.cluster = "true" THEN "elect" ELSE "run"
    /\ UNCHANGED <<inputs, config, told, status, starts, up, trouble>>

(* election.New pings Redis under a context of its own.                    *)
NewElector ==
    /\ phase = "elect"
    /\ IF "redis" \notin up
       THEN Exit(FailedStart)
       ELSE phase' = "run" /\ UNCHANGED status
    /\ UNCHANGED <<inputs, config, told, starts, up, trouble>>

Trouble == trouble < MaxTrouble /\ trouble' = trouble + 1

(* The context Run was given is done.                                      *)
RunContextDone_Background == FALSE
RunContextDone == told

(* Standalone with the default polling_interval, Run returns after a poll. *)
RunsOnce == config.polling = "0" /\ config.cluster = "false"

(* Run returns: nil or context.Canceled once told; nil after its only      *)
(* poll; nil in a cluster when a call to Redis times out; or a fatal       *)
(* error, as when the checkpoint cannot be loaded.                         *)
RunEnds ==
    /\ phase = "run"
    /\ \/ RunContextDone /\ Exit("success") /\ UNCHANGED trouble
       \/ RunsOnce /\ "database" \in up /\ Exit("success") /\ UNCHANGED trouble
       \/ config.cluster = "true" /\ Exit("success") /\ Trouble
       \/ "database" \notin up /\ Exit("failure") /\ UNCHANGED trouble
       \/ Exit("failure") /\ Trouble
    /\ UNCHANGED <<inputs, config, told, starts, up>>

(* SIGTERM: before Notify it ends the process, afterwards the first one    *)
(* cancels appCtx and a second one is not received.                        *)
Signal ==
    /\ phase # "exited"
    /\ Trouble
    /\ IF phase \in {"load", "create", "handle"}
       THEN Exit("signal") /\ UNCHANGED told
       ELSE told' = TRUE /\ UNCHANGED <<phase, status>>
    /\ UNCHANGED <<inputs, config, starts, up>>

-----------------------------------------------------------------------------
(* systemd and the servers                                                 *)

(* Restart=on-failure.  Without RestartSec systemd waits 100 ms.           *)
Restart ==
    /\ phase = "exited"
    /\ status = "failure"
    /\ starts < StartLimitBurst
    /\ starts' = IF RestartDelayed THEN 1 ELSE starts + 1
    /\ phase' = "load"
    /\ told' = FALSE
    /\ config' = Defaults
    /\ UNCHANGED <<inputs, status, up, trouble>>

(* After too many starts in an interval the unit stays failed.             *)
GiveUp ==
    /\ phase = "exited"
    /\ status = "failure"
    /\ starts = StartLimitBurst
    /\ status' = "start-limit"
    /\ UNCHANGED <<inputs, config, phase, told, starts, up, trouble>>

(* A new interval of the limit begins.                                     *)
IntervalPasses ==
    /\ starts' = 0
    /\ UNCHANGED <<inputs, config, phase, told, status, up, trouble>>

Outage ==
    /\ Trouble
    /\ \E s \in up : up' = up \ {s}
    /\ UNCHANGED <<inputs, config, phase, told, status, starts>>

Recovery ==
    /\ up' = Servers
    /\ UNCHANGED <<inputs, config, phase, told, status, starts, trouble>>

Main == LoadConfig \/ NewProcessor \/ Notify \/ NewElector \/ RunEnds

Systemd == Restart \/ GiveUp

Next == Main \/ Signal \/ Systemd \/ IntervalPasses \/ Outage \/ Recovery

Spec == Init /\ [][Next]_vars

(* main runs, systemd restarts what failed or gives it up, servers come    *)
(* back.  Nothing says that the limit's interval passes between two starts.*)
FairSpec == Spec /\ WF_vars(Main) /\ WF_vars(Systemd) /\ WF_vars(Recovery)

-----------------------------------------------------------------------------
(* Properties.                                                             *)

(***************************************************************************)
(* Nothing runs on a configuration that cannot work, whichever of file,    *)
(* environment and defaults each setting came from: a cluster on SQLite,   *)
(* PostgreSQL (or an unknown driver, which means PostgreSQL) without a     *)
(* URL, a checkpoint without a consumer (config.go:253-261,                *)
(* processor.go:40-42).                                                    *)
(***************************************************************************)
RunsOnlyIfSound ==
    phase \in {"elect", "run"} =>
        /\ config.driver = "sqlite" => config.cluster = "false"
        /\ config.driver # "sqlite" => config.url # ""
        /\ config.consumer # ""

Overrides(keys) ==
    phase \in {"elect", "run"} =>
        \A k \in keys : LET value == env[Documented[k]]
                        IN  value # "" => config[k] = value

(***************************************************************************)
(* "Override any config with EP_ prefix" (README.md:144).                  *)
(***************************************************************************)
EnvOverrides == Overrides(Keys)

(***************************************************************************)
(* The variables alone are enough to start (config.yaml.example:320,       *)
(* "minimal - only required setting"; config.go:209, "if it exists").      *)
(***************************************************************************)
EnvIsEnough ==
    status = "failure" /\ trouble = 0 /\ up = Servers =>
        env["EP_POSTGRES_URL"] = "" \/ Unparsable(Loaded) \/ file # {}

(* LoadConfig and NewProcessor accept what file, environment and defaults  *)
(* add up to.                                                              *)
Sound ==
    /\ ~FileMissing
    /\ ~Unparsable(Loaded) /\ ~MissingURL(Loaded) /\ ~Unsupported(Loaded)

(***************************************************************************)
(* A process whose configuration is sound runs in the end, though servers  *)
(* are down when it starts: it exits with a status that systemd restarts,  *)
(* and the servers are back when the last start comes that the limit       *)
(* allows.  Unless a signal ends it first.                                 *)
(***************************************************************************)
RunsInTheEnd ==
    Sound /\ [](starts = StartLimitBurst => up = Servers) =>
        <>(phase = "run" \/ status = "signal" \/ told)

(***************************************************************************)
(* A process that failed is started again ("systemd restarts, resumes from *)
(* checkpoint", TECH_DOC.md:874).                                          *)
(***************************************************************************)
FailureIsRestarted ==
    Sound => (phase = "exited" /\ status = "failure" ~> phase = "load")

(***************************************************************************)
(* A process that was told to stop stops, also when the signal came before *)
(* anything was running.                                                   *)
(***************************************************************************)
StopsWhenTold == told ~> (phase = "exited")
=============================================================================
