-------------------------------- MODULE EnvSf --------------------------------
(***************************************************************************)
(* The redundant environment with an active/obsolete flag on SPI flash     *)
(* (common/env_sf.c): saveenv erases the copy that is not in use, writes   *)
(* it as ACTIVE and then marks the other one OBSOLETE.  Any of the three   *)
(* flash operations may fail, and power may fail between and inside them.  *)
(***************************************************************************)
EXTENDS Integers

CONSTANTS
    Envs,          \* the contents an environment can have
    DefaultEnv     \* the compiled-in default_environment

ASSUME DefaultEnvAssumption == DefaultEnv \in Envs

VARIABLES
    copy,          \* the flash: copy[1] at ENV_OFFSET, copy[2] at ENV_OFFSET_REDUND
    env_valid,     \* gd->env_valid
    env_htab,      \* the environment in RAM
    pc,            \* "off", "idle", or the next flash operation of saveenv
    loadable       \* history: what the next boot may load (see EnvStore)

vars == <<copy, env_valid, env_htab, pc, loadable>>

ACTIVE_FLAG == 1
OBSOLETE_FLAG == 0
ERASED_FLAG == 255

Copies == [crc_ok : BOOLEAN,
           flags  : {ACTIVE_FLAG, OBSOLETE_FLAG, ERASED_FLAG},
           data   : Envs]

TypeOK ==
    /\ copy \in [1..2 -> Copies]
    /\ env_valid \in 1..2
    /\ env_htab \in Envs
    /\ pc \in {"off", "idle", "erase", "write", "obsolete"}
    /\ loadable \in SUBSET Envs

\* An erased sector, or one whose erase or write was cut short.
Erased == [crc_ok |-> FALSE, flags |-> ERASED_FLAG, data |-> DefaultEnv]

Other(i) == 3 - i

NoneOk(c) == ~c[1].crc_ok /\ ~c[2].crc_ok

\* Mutant of Selected: the flags are not looked at.
SelectedIgnoringFlags(c) == IF c[1].crc_ok \/ ~c[2].crc_ok THEN 1 ELSE 2

\* The choice of env_relocate_spec; with no good copy env_valid keeps the 1
\* that env_init gave it.
Selected(c) ==
    IF ~c[2].crc_ok THEN 1
    ELSE IF ~c[1].crc_ok THEN 2
    ELSE IF c[1].flags = ACTIVE_FLAG /\ c[2].flags = OBSOLETE_FLAG THEN 1
    ELSE IF c[1].flags = OBSOLETE_FLAG /\ c[2].flags = ACTIVE_FLAG THEN 2
    ELSE IF c[1].flags = c[2].flags THEN 1
    ELSE IF c[1].flags = ERASED_FLAG THEN 1
    ELSE IF c[2].flags = ERASED_FLAG THEN 2
    ELSE 1

Loaded(c) == IF NoneOk(c) THEN DefaultEnv ELSE c[Selected(c)].data

\* Boot: env_init, then env_relocate_spec.
boot ==
    /\ pc = "off"
    /\ pc' = "idle"
    /\ env_valid' = Selected(copy)
    /\ env_htab' = Loaded(copy)
    /\ loadable' = {env_htab'}
    /\ UNCHANGED copy

\* setenv, "env default", "env import": any change of the hash table.
setenv ==
    /\ pc = "idle"
    /\ env_htab' \in Envs \ {env_htab}
    /\ UNCHANGED <<copy, env_valid, pc, loadable>>

\* saveenv when the flash does not answer the probe: the environment in RAM
\* is replaced by the default one.
saveenv_probe_fails ==
    /\ pc = "idle"
    /\ env_htab' = DefaultEnv
    /\ UNCHANGED <<copy, env_valid, pc, loadable>>

\* saveenv up to the erase: env_offset and env_new_offset follow env_valid.
saveenv ==
    /\ pc = "idle"
    /\ pc' = "erase"
    /\ loadable' = loadable \cup {env_htab}
    /\ UNCHANGED <<copy, env_valid, env_htab>>

\* env_export, and the flag of a copy to be used.
Written == [crc_ok |-> TRUE, flags |-> ACTIVE_FLAG, data |-> env_htab]

\* Mutant of spi_flash_erase: the copy in use is erased.
EraseInUse ==
    /\ pc = "erase"
    /\ pc' = "write"
    /\ copy' = [copy EXCEPT ![env_valid] = Erased]
    /\ UNCHANGED <<env_valid, env_htab, loadable>>

spi_flash_erase ==
    /\ pc = "erase"
    /\ pc' = "write"
    /\ copy' = [copy EXCEPT ![Other(env_valid)] = Erased]
    /\ UNCHANGED <<env_valid, env_htab, loadable>>

\* Mutant of spi_flash_write: the other copy is never marked.
WriteReportsDone ==
    /\ pc = "write"
    /\ pc' = "idle"
    /\ copy' = [copy EXCEPT ![Other(env_valid)] = Written]
    /\ env_valid' = Other(env_valid)
    /\ loadable' = {env_htab}
    /\ UNCHANGED env_htab

spi_flash_write ==
    /\ pc = "write"
    /\ pc' = "obsolete"
    /\ copy' = [copy EXCEPT ![Other(env_valid)] = Written]
    /\ UNCHANGED <<env_valid, env_htab, loadable>>

\* Mutant of mark_obsolete: the copy just written is marked.
ObsoleteNew ==
    /\ pc = "obsolete"
    /\ pc' = "idle"
    /\ copy' = [copy EXCEPT ![Other(env_valid)].flags = OBSOLETE_FLAG]
    /\ env_valid' = Other(env_valid)
    /\ loadable' = {env_htab}
    /\ UNCHANGED env_htab

\* Mutant of mark_obsolete: env_valid counts up instead of changing sides.
ValidCountsUp ==
    /\ pc = "obsolete"
    /\ pc' = "idle"
    /\ copy' = [copy EXCEPT ![env_valid].flags = OBSOLETE_FLAG]
    /\ env_valid' = env_valid + 1
    /\ loadable' = {env_htab}
    /\ UNCHANGED env_htab

\* The one-byte write that retires the copy in use, and the success of saveenv.
mark_obsolete ==
    /\ pc = "obsolete"
    /\ pc' = "idle"
    /\ copy' = [copy EXCEPT ![env_valid].flags = OBSOLETE_FLAG]
    /\ env_valid' = Other(env_valid)
    /\ loadable' = {env_htab}
    /\ UNCHANGED env_htab

\* A flash operation reports an error ("goto done"), whether or not it changed
\* the flash: saveenv fails and env_valid stays.
flash_error ==
    /\ pc \in {"erase", "write", "obsolete"}
    /\ pc' = "idle"
    /\ \/ copy' = copy
       \/ pc = "erase" /\ copy' = [copy EXCEPT ![Other(env_valid)] = Erased]
       \/ pc = "write" /\ copy' = [copy EXCEPT ![Other(env_valid)] = Written]
       \/ pc = "obsolete" /\ copy' = [copy EXCEPT ![env_valid].flags = OBSOLETE_FLAG]
    /\ UNCHANGED <<env_valid, env_htab, loadable>>

\* Power failure, or the reset command: RAM is lost, the flash is not.
power_fail ==
    /\ pc # "off"
    /\ pc' = "off"
    /\ env_valid' = 1
    /\ env_htab' = DefaultEnv
    /\ UNCHANGED <<copy, loadable>>

(* A new board: the flash is erased. *)
Init ==
    /\ copy = [i \in 1..2 |-> Erased]
    /\ env_valid = 1
    /\ env_htab = DefaultEnv
    /\ pc = "off"
    /\ loadable = {DefaultEnv}

Next ==
    \/ boot
    \/ setenv
    \/ saveenv_probe_fails
    \/ saveenv
    \/ spi_flash_erase
    \/ spi_flash_write
    \/ mark_obsolete
    \/ flash_error
    \/ power_fail

Spec == Init /\ [][Next]_vars

------------------------------------------------------------------------------
(* Properties *)

\* Wherever power fails in saveenv of env_sf.c, and after any number of failed
\* saves, the next boot loads the environment saved last or one that a later,
\* failed save tried to write.
LoadsLastSaved == Loaded(copy) \in loadable

\* No operation of saveenv touches the CRC or the data of the copy in use, the
\* one loaded at boot or written by the last successful save, not even to
\* retire it (README:4260-4263, "a valid backup copy in case there is a power
\* failure during a saveenv").
CopyInUseKept ==
    [][copy[env_valid].crc_ok =>
         /\ copy'[env_valid].crc_ok
         /\ copy'[env_valid].data = copy[env_valid].data]_vars

status == IF pc \in {"off", "idle"} THEN pc ELSE "saving"

\* The two copies and their flags implement the store of EnvStore.
Store == INSTANCE EnvStore WITH env <- env_htab

StoreSpec == Store!Spec
=============================================================================
