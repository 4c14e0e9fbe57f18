---------------------------- MODULE EnvSfProofs ----------------------------
(***************************************************************************)
(* Proofs about EnvSf, for every set of environments: with flash           *)
(* operations that fail and power that fails at any moment, the redundant  *)
(* environment on SPI flash loads the last one saved or one a failed save  *)
(* tried to write, never damages the copy in use, and implements the store *)
(* of EnvStore.                                                            *)
(***************************************************************************)
EXTENDS EnvSf, TLAPS

\* The inductive invariant.  After failed saves the copy a boot would choose
\* need not be the one gd->env_valid names, so both must hold an environment
\* the next boot may load: the first would be loaded now, the second is what
\* is left when the next saveenv erases the other.
InUseLoadable ==
    pc # "off" =>
        IF copy[env_valid].crc_ok THEN copy[env_valid].data \in loadable
        ELSE DefaultEnv \in loadable

\* Where saveenv stands, and what it has done to the copy it writes.
SaveUnderWay ==
    /\ pc \in {"erase", "write", "obsolete"} => env_htab \in loadable
    /\ pc = "write" => copy[Other(env_valid)] = Erased
    /\ pc = "obsolete" => copy[Other(env_valid)] = Written

IInv == TypeOK /\ LoadsLastSaved /\ InUseLoadable /\ SaveUnderWay

\* The two copies.
LEMMA OtherCopy ==
    ASSUME NEW i \in 1..2
    PROVE  Other(i) \in 1..2 /\ Other(i) # i /\ 1..2 = {i, Other(i)}
BY DEF Other

\* Both images saveenv leaves in the sector it writes are copies.
LEMMA CopyTypes ==
    ASSUME TypeOK
    PROVE  Erased \in Copies /\ Written \in Copies
BY DefaultEnvAssumption DEF TypeOK, Erased, Written, Copies

\* env_relocate_spec chooses a good copy whenever there is one.
LEMMA SelectedGood ==
    ASSUME NEW c \in [1..2 -> Copies]
    PROVE  /\ Selected(c) \in 1..2
           /\ ~NoneOk(c) => c[Selected(c)].crc_ok
<1>1. Selected(c) = 1 \/ Selected(c) = 2
  BY DEF Selected
<1>2. CASE ~c[2].crc_ok
  BY <1>1, <1>2 DEF Selected, NoneOk
<1>3. CASE c[2].crc_ok /\ ~c[1].crc_ok
  BY <1>1, <1>3 DEF Selected
<1>4. CASE c[1].crc_ok /\ c[2].crc_ok
  BY <1>1, <1>4
<1>5. QED
  BY <1>2, <1>3, <1>4

\* Of two copies a boot loads one that is good, or else the default.
LEMMA LoadedOne ==
    ASSUME NEW c \in [1..2 -> Copies], NEW i \in 1..2
    PROVE  \/ NoneOk(c) /\ Loaded(c) = DefaultEnv
           \/ c[i].crc_ok /\ Loaded(c) = c[i].data
           \/ c[Other(i)].crc_ok /\ Loaded(c) = c[Other(i)].data
<1>1. CASE NoneOk(c)
  BY <1>1 DEF Loaded
<1>2. CASE ~NoneOk(c)
  <2>1. Selected(c) = i \/ Selected(c) = Other(i)
    BY SelectedGood, OtherCopy
  <2>2. QED
    BY <1>2, <2>1, SelectedGood DEF Loaded
<1>3. QED
  BY <1>1, <1>2

\* Between a copy marked obsolete and an active one a boot chooses the latter.
LEMMA ActiveWins ==
    ASSUME NEW c \in [1..2 -> Copies], NEW i \in 1..2,
           c[i].flags = OBSOLETE_FLAG,
           c[Other(i)].crc_ok, c[Other(i)].flags = ACTIVE_FLAG
    PROVE  Loaded(c) = c[Other(i)].data
<1>1. CASE i = 1
  BY <1>1 DEF Loaded, NoneOk, Selected, Other, OBSOLETE_FLAG, ACTIVE_FLAG
<1>2. CASE i = 2
  BY <1>2 DEF Loaded, NoneOk, Selected, Other, OBSOLETE_FLAG, ACTIVE_FLAG
<1>3. QED
  BY <1>1, <1>2

------------------------------------------------------------------------------
\* A board with erased flash satisfies the invariant.
LEMMA InitInv == Init => IInv
<1>1. SUFFICES ASSUME Init PROVE IInv
  OBVIOUS
<1>2. TypeOK
  <2>1. Erased \in Copies
    BY DefaultEnvAssumption DEF Erased, Copies
  <2>2. QED
    BY <1>1, <2>1, DefaultEnvAssumption DEF Init, TypeOK
<1>3. ~copy[1].crc_ok /\ ~copy[2].crc_ok
  BY <1>1 DEF Init, Erased
<1>4. QED
  BY <1>1, <1>2, <1>3
     DEF Init, IInv, LoadsLastSaved, Loaded, NoneOk, InUseLoadable, SaveUnderWay

\* Boot: the copy loaded is the one in use.
LEMMA BootInv == IInv /\ boot => IInv'
<1>1. SUFFICES ASSUME IInv, boot PROVE IInv'
  OBVIOUS
<1>2. copy \in [1..2 -> Copies] /\ copy' = copy
  BY <1>1 DEF IInv, TypeOK, boot
<1>3. /\ env_valid' = Selected(copy) /\ Selected(copy) \in 1..2
      /\ pc' = "idle"
      /\ env_htab' = Loaded(copy)
      /\ loadable' = {Loaded(copy)}
  BY <1>1, <1>2, SelectedGood DEF boot
<1>4. Loaded(copy) \in Envs
  <2>1. copy[Selected(copy)].data \in Envs
    BY <1>2, <1>3 DEF Copies
  <2>2. QED
    BY <2>1, DefaultEnvAssumption DEF Loaded
<1>5. TypeOK'
  BY <1>2, <1>3, <1>4 DEF TypeOK
<1>6. InUseLoadable'
  <2>1. CASE NoneOk(copy)
    BY <1>2, <1>3, <2>1 DEF InUseLoadable, Loaded, NoneOk
  <2>2. CASE ~NoneOk(copy)
    BY <1>2, <1>3, <2>2, SelectedGood DEF InUseLoadable, Loaded
  <2>3. QED
    BY <2>1, <2>2
<1>7. LoadsLastSaved' /\ SaveUnderWay'
  BY <1>2, <1>3 DEF LoadsLastSaved, SaveUnderWay
<1>8. QED
  BY <1>5, <1>6, <1>7 DEF IInv

\* The steps that leave the flash and gd->env_valid alone, or lose RAM.
LEMMA RamStepsInv ==
    IInv /\ (setenv \/ saveenv_probe_fails \/ saveenv \/ power_fail) => IInv'
<1>1. SUFFICES ASSUME IInv, setenv \/ saveenv_probe_fails \/ saveenv \/ power_fail
               PROVE  IInv'
  OBVIOUS
<1>2. copy' = copy /\ Loaded(copy') = Loaded(copy)
  BY <1>1 DEF setenv, saveenv_probe_fails, saveenv, power_fail
<1>3. CASE setenv
  BY <1>1, <1>2, <1>3
     DEF IInv, TypeOK, LoadsLastSaved, InUseLoadable, SaveUnderWay, setenv
<1>4. CASE saveenv_probe_fails
  BY <1>1, <1>2, <1>4, DefaultEnvAssumption
     DEF IInv, TypeOK, LoadsLastSaved, InUseLoadable, SaveUnderWay, saveenv_probe_fails
<1>5. CASE saveenv
  BY <1>1, <1>2, <1>5
     DEF IInv, TypeOK, LoadsLastSaved, InUseLoadable, SaveUnderWay, saveenv
<1>6. CASE power_fail
  BY <1>1, <1>2, <1>6, DefaultEnvAssumption
     DEF IInv, TypeOK, LoadsLastSaved, InUseLoadable, SaveUnderWay, power_fail
<1>7. QED
  BY <1>1, <1>3, <1>4, <1>5, <1>6

\* Whatever a flash operation does, as long as it keeps the CRC and the data of
\* the copy in use, and what it leaves in the other one is bad or may be
\* loaded, the next boot loads something it may load.
LEMMA KeptLoadable ==
    ASSUME IInv, pc # "off",
           NEW c \in [1..2 -> Copies],
           c[env_valid].crc_ok = copy[env_valid].crc_ok,
           c[env_valid].data = copy[env_valid].data,
           c[Other(env_valid)].crc_ok => c[Other(env_valid)].data \in loadable
    PROVE  Loaded(c) \in loadable
<1>1. env_valid \in 1..2 /\ InUseLoadable
  BY DEF IInv, TypeOK
<1>2. CASE NoneOk(c) /\ Loaded(c) = DefaultEnv
  <2>1. ~c[env_valid].crc_ok
    BY <1>1, <1>2 DEF NoneOk
  <2>2. QED
    BY <1>1, <1>2, <2>1 DEF InUseLoadable
<1>3. CASE c[env_valid].crc_ok /\ Loaded(c) = c[env_valid].data
  BY <1>1, <1>3 DEF InUseLoadable
<1>4. CASE c[Other(env_valid)].crc_ok /\ Loaded(c) = c[Other(env_valid)].data
  BY <1>4
<1>5. QED
  BY <1>1, <1>2, <1>3, <1>4, LoadedOne

\* Erase and write: only the copy that is not in use changes.
LEMMA OtherWrittenInv ==
    ASSUME IInv, spi_flash_erase \/ spi_flash_write
    PROVE  IInv' /\ copy'[env_valid] = copy[env_valid]
<1>1. /\ copy \in [1..2 -> Copies] /\ env_valid \in 1..2
      /\ Other(env_valid) \in 1..2 /\ Other(env_valid) # env_valid
  BY OtherCopy DEF IInv, TypeOK
<1>2. PICK w \in {Erased, Written} :
        /\ copy' = [copy EXCEPT ![Other(env_valid)] = w]
        /\ \/ w = Erased /\ pc' = "write"
           \/ w = Written /\ pc' = "obsolete"
  BY DEF spi_flash_erase, spi_flash_write
<1>3. /\ pc \in {"erase", "write"}
      /\ UNCHANGED <<env_valid, env_htab, loadable>>
  BY DEF spi_flash_erase, spi_flash_write
<1>4. /\ copy' \in [1..2 -> Copies]
      /\ copy'[env_valid] = copy[env_valid]
      /\ copy'[Other(env_valid)] = w
  BY <1>1, <1>2, CopyTypes DEF IInv
<1>5. env_htab \in loadable
  BY <1>3 DEF IInv, SaveUnderWay
<1>6. w.crc_ok => w.data \in loadable
  BY <1>5, <1>2 DEF Erased, Written
<1>7. LoadsLastSaved'
  BY <1>3, <1>4, <1>6, KeptLoadable DEF LoadsLastSaved, Loaded
<1>8. TypeOK'
  BY <1>2, <1>3, <1>4 DEF IInv, TypeOK
<1>9. InUseLoadable'
  BY <1>3, <1>4 DEF IInv, InUseLoadable
<1>10. SaveUnderWay'
  BY <1>2, <1>3, <1>4, <1>5 DEF SaveUnderWay, Erased, Written
<1>11. QED
  BY <1>4, <1>7, <1>8, <1>9, <1>10 DEF IInv

\* What marking the copy in use OBSOLETE does to the flash.
LEMMA Marked ==
    ASSUME TypeOK, copy' = [copy EXCEPT ![env_valid].flags = OBSOLETE_FLAG]
    PROVE  /\ copy' \in [1..2 -> Copies]
           /\ copy'[env_valid].flags = OBSOLETE_FLAG
           /\ copy'[env_valid].crc_ok = copy[env_valid].crc_ok
           /\ copy'[env_valid].data = copy[env_valid].data
           /\ copy'[Other(env_valid)] = copy[Other(env_valid)]
<1>1. /\ copy \in [1..2 -> Copies] /\ env_valid \in 1..2
      /\ Other(env_valid) \in 1..2 /\ Other(env_valid) # env_valid
  BY OtherCopy DEF TypeOK
<1>2. copy[env_valid] \in Copies
  BY <1>1
<1>3. copy' = [copy EXCEPT ![env_valid] = [copy[env_valid] EXCEPT !.flags = OBSOLETE_FLAG]]
  BY <1>1
<1>4. [copy[env_valid] EXCEPT !.flags = OBSOLETE_FLAG] \in Copies
  BY <1>2 DEF Copies
<1>5. QED
  BY <1>1, <1>2, <1>3, <1>4 DEF Copies

\* The last write: what saveenv wrote becomes the copy in use, and the one a
\* boot chooses.
LEMMA MarkObsoleteInv ==
    ASSUME IInv, mark_obsolete
    PROVE  IInv'
<1>1. /\ copy' = [copy EXCEPT ![env_valid].flags = OBSOLETE_FLAG]
      /\ env_valid' = Other(env_valid) /\ env_htab' = env_htab
      /\ pc = "obsolete" /\ pc' = "idle" /\ loadable' = {env_htab}
  BY DEF mark_obsolete
<1>2. /\ TypeOK /\ env_valid \in 1..2 /\ env_htab \in Envs
      /\ Other(env_valid) \in 1..2
  BY OtherCopy DEF IInv, TypeOK
<1>3. copy'[Other(env_valid)] = Written
  BY <1>1, <1>2, Marked DEF IInv, SaveUnderWay
<1>4. /\ copy'[Other(env_valid)].crc_ok
      /\ copy'[Other(env_valid)].flags = ACTIVE_FLAG
      /\ copy'[Other(env_valid)].data = env_htab
  BY <1>3 DEF Written
<1>5. LoadsLastSaved'
  <2>1. Loaded(copy') = env_htab
    BY <1>1, <1>2, <1>4, Marked, ActiveWins
  <2>2. QED
    BY <1>1, <2>1 DEF LoadsLastSaved, Loaded
<1>6. TypeOK'
  BY <1>1, <1>2, Marked DEF TypeOK
<1>7. InUseLoadable' /\ SaveUnderWay'
  BY <1>1, <1>4 DEF InUseLoadable, SaveUnderWay
<1>8. QED
  BY <1>5, <1>6, <1>7 DEF IInv

\* A failed operation, whatever it did to the flash before it failed, changes
\* no copy in a way a boot could load by mistake.
LEMMA FlashErrorInv ==
    ASSUME IInv, flash_error
    PROVE  /\ IInv'
           /\ copy'[env_valid].crc_ok = copy[env_valid].crc_ok
           /\ copy'[env_valid].data = copy[env_valid].data
<1>1. /\ pc \in {"erase", "write", "obsolete"} /\ pc' = "idle"
      /\ UNCHANGED <<env_valid, env_htab, loadable>>
  BY DEF flash_error
<1>2. /\ TypeOK /\ copy \in [1..2 -> Copies] /\ env_valid \in 1..2
      /\ Other(env_valid) \in 1..2 /\ Other(env_valid) # env_valid
      /\ env_htab \in loadable
  BY <1>1, OtherCopy DEF IInv, TypeOK, SaveUnderWay
<1>3. SUFFICES /\ copy' \in [1..2 -> Copies]
               /\ copy'[env_valid].crc_ok = copy[env_valid].crc_ok
               /\ copy'[env_valid].data = copy[env_valid].data
               /\ Loaded(copy') \in loadable
  <2>1. TypeOK'
    BY <1>1, <1>3 DEF IInv, TypeOK
  <2>2. LoadsLastSaved' /\ SaveUnderWay'
    BY <1>1, <1>3 DEF LoadsLastSaved, SaveUnderWay, Loaded
  <2>3. InUseLoadable'
    BY <1>1, <1>3 DEF IInv, InUseLoadable
  <2>4. QED
    BY <1>3, <2>1, <2>2, <2>3 DEF IInv
<1>4. CASE copy' = copy
  BY <1>2, <1>4 DEF IInv, LoadsLastSaved
<1>5. ASSUME NEW w \in {Erased, Written},
             copy' = [copy EXCEPT ![Other(env_valid)] = w]
      PROVE  /\ copy' \in [1..2 -> Copies]
             /\ copy'[env_valid] = copy[env_valid]
             /\ Loaded(copy') \in loadable
  <2>1. /\ copy' \in [1..2 -> Copies]
        /\ copy'[env_valid] = copy[env_valid]
        /\ copy'[Other(env_valid)] = w
    BY <1>2, <1>5, CopyTypes
  <2>2. w.crc_ok => w.data \in loadable
    BY <1>2 DEF Erased, Written
  <2>3. QED
    BY <1>1, <2>1, <2>2, KeptLoadable
<1>6. CASE pc = "obsolete" /\ copy' = [copy EXCEPT ![env_valid].flags = OBSOLETE_FLAG]
  <2>1. copy[Other(env_valid)].data = env_htab
    BY <1>6 DEF IInv, SaveUnderWay, Written
  <2>2. QED
    BY <1>1, <1>2, <1>6, <2>1, Marked, KeptLoadable
<1>7. QED
  BY <1>4, <1>5, <1>6 DEF flash_error

\* Every step keeps the invariant.
LEMMA NextInv == IInv /\ [Next]_vars => IInv'
<1>1. SUFFICES ASSUME IInv, [Next]_vars PROVE IInv'
  OBVIOUS
<1>2. CASE UNCHANGED vars
  BY <1>1, <1>2
     DEF vars, IInv, TypeOK, LoadsLastSaved, Loaded, InUseLoadable, SaveUnderWay, Written
<1>3. QED
  BY <1>1, <1>2, BootInv, RamStepsInv, OtherWrittenInv, MarkObsoleteInv, FlashErrorInv
     DEF Next

\* The invariant holds throughout.
LEMMA SpecInv == Spec => []IInv
BY InitInv, NextInv, PTL DEF Spec

------------------------------------------------------------------------------
\* The state of env_sf.c keeps its type: gd->env_valid names a copy.
THEOREM SfTypeCorrect == Spec => []TypeOK
BY SpecInv, PTL DEF IInv

\* Wherever power fails in saveenv, and after any number of failed saves,
\* env_relocate_spec loads the environment saved last or one a later, failed
\* save tried to write.
THEOREM SfLastSavedIsLoaded == Spec => []LoadsLastSaved
BY SpecInv, PTL DEF IInv

\* No step of saveenv changes the CRC or the data of the copy in use.
THEOREM SfCopyInUseAlwaysKept == Spec => CopyInUseKept
<1>1. IInv /\ [Next]_vars =>
        [copy[env_valid].crc_ok =>
           /\ copy'[env_valid].crc_ok
           /\ copy'[env_valid].data = copy[env_valid].data]_vars
  <2>1. SUFFICES ASSUME IInv, Next
                 PROVE  /\ copy'[env_valid].crc_ok = copy[env_valid].crc_ok
                        /\ copy'[env_valid].data = copy[env_valid].data
    OBVIOUS
  <2>2. CASE copy' = copy
    BY <2>2
  <2>3. CASE spi_flash_erase \/ spi_flash_write
    BY <2>1, <2>3, OtherWrittenInv
  <2>4. CASE mark_obsolete
    BY <2>1, <2>4, Marked DEF IInv, mark_obsolete
  <2>5. CASE flash_error
    BY <2>1, <2>5, FlashErrorInv
  <2>6. QED
    BY <2>1, <2>2, <2>3, <2>4, <2>5
       DEF Next, boot, setenv, saveenv_probe_fails, saveenv, power_fail
<1>2. QED
  BY <1>1, SpecInv, PTL DEF Spec, CopyInUseKept

\* The two copies and the flags of env_sf.c implement the abstract store.
THEOREM SfImplementsStore == Spec => StoreSpec
<1>1. Init => Store!Init
  BY DEF Init, Store!Init, status
<1>2. ASSUME IInv, [Next]_vars PROVE [Store!Next]_(Store!vars)
  <2>1. CASE boot
    <3>1. Loaded(copy) \in loadable
      BY <1>2 DEF IInv, LoadsLastSaved
    <3>2. QED
      BY <2>1, <3>1 DEF boot, Store!Next, Store!Boot, status
  <2>2. CASE setenv \/ saveenv_probe_fails
    BY <2>2, DefaultEnvAssumption
       DEF setenv, saveenv_probe_fails, Store!Next, Store!SetEnv, status
  <2>3. CASE saveenv
    BY <2>3 DEF saveenv, Store!Next, Store!SaveBegin, status
  <2>4. CASE spi_flash_erase \/ spi_flash_write
    BY <2>4 DEF spi_flash_erase, spi_flash_write, Store!vars, status
  <2>5. CASE mark_obsolete
    BY <2>5 DEF mark_obsolete, Store!Next, Store!SaveSucceeds, status
  <2>6. CASE flash_error
    BY <2>6 DEF flash_error, Store!Next, Store!SaveFails, status
  <2>7. CASE power_fail
    BY <1>2, <2>7 DEF power_fail, Store!Next, Store!PowerFail, status, IInv, TypeOK
  <2>8. CASE UNCHANGED vars
    BY <2>8 DEF vars, Store!vars, status
  <2>9. QED
    BY <1>2, <2>1, <2>2, <2>3, <2>4, <2>5, <2>6, <2>7, <2>8 DEF Next
<1>3. QED
  BY <1>1, <1>2, SpecInv, PTL DEF Spec, StoreSpec, Store!Spec
=============================================================================
