------------------------------ MODULE EnvStore ------------------------------
(***************************************************************************)
(* What a persistent environment promises, whatever the medium: the        *)
(* "saveenv" command and the load at boot, seen from the console.          *)
(*                                                                         *)
(* loadable is the set of environments the next boot is allowed to load.   *)
(* It is one environment while nothing is being saved; a save that has     *)
(* begun adds the environment being written, and only the save's success,  *)
(* or a boot, makes the set a single environment again.  So a save that    *)
(* returned success is never lost, and a save cut short by an error or by  *)
(* a power failure leaves the environment before or after it, never a      *)
(* third one.                                                              *)
(***************************************************************************)
CONSTANTS
    Envs,          \* the contents an environment can have
    DefaultEnv     \* the compiled-in default_environment

VARIABLES
    status,        \* "off", "idle" (console) or "saving" (in saveenv)
    env,           \* the environment in RAM
    loadable       \* the environments the next boot may load

vars == <<status, env, loadable>>

Init ==
    /\ status = "off"
    /\ env = DefaultEnv
    /\ loadable = {DefaultEnv}

Boot ==
    /\ status = "off"
    /\ status' = "idle"
    /\ env' \in loadable
    /\ loadable' = {env'}

SetEnv ==
    /\ status = "idle"
    /\ env' \in Envs
    /\ UNCHANGED <<status, loadable>>

SaveBegin ==
    /\ status = "idle"
    /\ status' = "saving"
    /\ loadable' = loadable \cup {env}
    /\ UNCHANGED env

SaveSucceeds ==
    /\ status = "saving"
    /\ status' = "idle"
    /\ loadable' = {env}
    /\ UNCHANGED env

SaveFails ==
    /\ status = "saving"
    /\ status' = "idle"
    /\ UNCHANGED <<env, loadable>>

PowerFail ==
    /\ status # "off"
    /\ status' = "off"
    /\ env' = DefaultEnv
    /\ UNCHANGED loadable

Next ==
    \/ Boot
    \/ SetEnv
    \/ SaveBegin
    \/ SaveSucceeds
    \/ SaveFails
    \/ PowerFail

Spec == Init /\ [][Next]_vars
=============================================================================
