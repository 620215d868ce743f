---------------------------- MODULE StartupProofs ----------------------------
(***************************************************************************)
(* Proofs about Startup, for every set of drivers and any number of        *)
(* outages, signals and restarts.                                          *)
(***************************************************************************)
EXTENDS Startup, TLAPS

(* The file and the environment a process is given, which nothing changes. *)
GivenInputs ==
    /\ \A f, g \in file : f = g
    /\ \A f \in file, k \in Keys : f[k] \in Values[k] \cup {Unset}
    /\ DOMAIN env = Names
    /\ \A k \in Keys : env[Documented[k]] \in Values[k] \cup {""}

(* Past LoadConfig, the configuration is what was loaded and has a URL;    *)
(* past NewProcessor, it does not ask for a cluster on SQLite.             *)
CheckedConfig ==
    /\ phase \in {"create", "handle", "elect", "run"} =>
          config = Loaded /\ ~MissingURL(config)
    /\ phase \in {"handle", "elect", "run"} => ~Unsupported(config)

StartupInv == GivenInputs /\ CheckedConfig

-----------------------------------------------------------------------------
LEMMA StartupInit == Init => StartupInv
<1> SUFFICES ASSUME Init PROVE StartupInv
  OBVIOUS
<1>1. /\ \A f, g \in file : f = g
      /\ \A f \in file, k \in Keys : f[k] \in Values[k] \cup {Unset}
  BY DEF Init
<1>2. /\ DOMAIN env = Names
      /\ \A k \in Keys : env[Documented[k]] \in Values[k] \cup {""}
  BY DEF Init
<1>3. CheckedConfig
  BY DEF Init, CheckedConfig
<1> QED
  BY <1>1, <1>2, <1>3 DEF StartupInv, GivenInputs

LEMMA StartupNext == StartupInv /\ [Next]_vars => StartupInv'
<1> SUFFICES ASSUME StartupInv, [Next]_vars PROVE StartupInv'
  OBVIOUS
<1>1. UNCHANGED inputs
  BY DEF Next, Main, LoadConfig, NewProcessor, Notify, NewElector, RunEnds,
     Signal, Systemd, Restart, GiveUp, IntervalPasses, Outage, Recovery, vars
<1>2. GivenInputs'
  BY <1>1 DEF StartupInv, GivenInputs, inputs
<1> SUFFICES CheckedConfig'
  BY <1>2 DEF StartupInv
<1>3. Loaded' = Loaded
  BY <1>1 DEF inputs, Loaded, Setting, FromEnv, FromFile
<1>4. CASE LoadConfig
  BY <1>3, <1>4 DEF LoadConfig, Exit, CheckedConfig, MissingURL
<1>5. CASE NewProcessor
  BY <1>3, <1>5 DEF StartupInv, CheckedConfig, NewProcessor, Exit,
     MissingURL, Unsupported
<1>6. CASE Notify
  BY <1>3, <1>6 DEF StartupInv, CheckedConfig, Notify,
     MissingURL, Unsupported
<1>7. CASE NewElector
  BY <1>3, <1>7 DEF StartupInv, CheckedConfig, NewElector, Exit,
     MissingURL, Unsupported
<1>8. CASE RunEnds
  BY <1>8 DEF CheckedConfig, RunEnds, Exit
<1>9. CASE Signal
  BY <1>3, <1>9 DEF StartupInv, CheckedConfig, Signal, Exit,
     MissingURL, Unsupported
<1>10. CASE Systemd
  BY <1>10 DEF CheckedConfig, Systemd, Restart, GiveUp
<1>11. CASE IntervalPasses \/ Outage \/ Recovery \/ UNCHANGED vars
  BY <1>3, <1>11 DEF StartupInv, CheckedConfig, IntervalPasses, Outage,
     Recovery, vars,
     MissingURL, Unsupported
<1> QED
  BY <1>4, <1>5, <1>6, <1>7, <1>8, <1>9, <1>10, <1>11
  DEF Next, Main

(* Whatever the file and the environment say, the switch of the cluster is *)
(* on or off.                                                              *)
LEMMA ClusterIsOnOrOff ==
    ASSUME GivenInputs
    PROVE  Setting("cluster") \in {"true", "false"}
<1>1. "cluster" \in Keys /\ Values["cluster"] = {"true", "false"}
  BY DEF Keys, Values
<1>2. FromEnv("cluster") = Unset
  <2>1. Bound["cluster"] = "EP_CLUSTER.ENABLED"
    BY DEF Bound, Documented
  <2>2. "EP_CLUSTER.ENABLED" \notin Names
    BY DEF Names, Documented, Keys, Values
  <2> QED
    BY <2>1, <2>2 DEF FromEnv, GivenInputs
<1>3. FromFile("cluster") \in {"true", "false"}
  BY <1>1 DEF FromFile, GivenInputs, Defaults
<1> QED
  BY <1>2, <1>3 DEF Setting

(***************************************************************************)
(* Nothing runs on a configuration that cannot work, whichever of file,    *)
(* environment and defaults its settings came from, and through every      *)
(* restart.                                                                *)
(***************************************************************************)
THEOREM RunsOnSoundConfig == Spec => []RunsOnlyIfSound
<1>1. StartupInv => RunsOnlyIfSound
  <2> SUFFICES ASSUME StartupInv, phase \in {"elect", "run"}
               PROVE  /\ config.driver = "sqlite" => config.cluster = "false"
                      /\ config.driver # "sqlite" => config.url # ""
                      /\ config.consumer # ""
    BY DEF RunsOnlyIfSound
  <2>1. /\ config = Loaded
        /\ ~MissingURL(config) /\ ~Unsupported(config)
    BY DEF StartupInv, CheckedConfig
  <2>2. /\ Loaded.cluster = Setting("cluster")
        /\ Loaded.consumer # ""
    BY DEF Loaded, Keys, Values
  <2>3. Loaded.cluster \in {"true", "false"}
    BY <2>2, ClusterIsOnOrOff DEF StartupInv
  <2> QED
    BY <2>1, <2>2, <2>3 DEF MissingURL, Unsupported
<1> QED
  BY StartupInit, StartupNext, <1>1, PTL DEF Spec
=============================================================================
