------------------------------ MODULE GenesisFile ------------------------------
(***************************************************************************)
(* The genesis file of a data directory (core/genesis/src/lib.rs):        *)
(* Genesis::save creates the directory if needed, File::create truncates  *)
(* the file and write_all writes the scs encoding in one or more writes;  *)
(* Genesis::load_from_dir returns None when the file does not exist and   *)
(* otherwise reads it to the end and decodes it.  The process may crash   *)
(* at any point of save; the file keeps what was written.                 *)
(***************************************************************************)
EXTENDS Naturals

CONSTANTS
  GenesisValues,  \* genesis blocks that may be saved (networks, rebuilds)
  EncLen,         \* length of scs::to_bytes(genesis), in write units
  NONE,
  MaxCrashes      \* bound on crashes

VARIABLES
  dirExists,   \* data_dir.exists()
  file,        \* [exists, value, len]: the file and the prefix written
  saver,       \* the save call in progress: [pc, value]
  loaded,      \* the last load_from_dir: [result ("none", "error" or a
               \* value), saved (lastSaved when it ran)]
  lastSaved,   \* the genesis of the save that returned Ok, if no save has
               \* started since (NONE otherwise)
  crashes

vars == <<dirExists, file, saver, loaded, lastSaved, crashes>>

Init ==
  /\ dirExists \in BOOLEAN
  /\ file = [exists |-> FALSE, value |-> NONE, len |-> 0]
  /\ saver = [pc |-> "idle", value |-> NONE]
  /\ loaded = [result |-> "none", saved |-> NONE]
  /\ lastSaved = NONE
  /\ crashes = 0

\* save(&self, data_dir) is called with a genesis; if !data_dir.exists(),
\* create_dir_all.
StartSave(g) ==
  /\ saver.pc = "idle"
  /\ saver' = [pc |-> "create", value |-> g]
  /\ dirExists' = TRUE
  /\ lastSaved' = NONE
  /\ UNCHANGED <<file, loaded, crashes>>

\* File::create(genesis_file): creates or truncates.
CreateFile ==
  /\ saver.pc = "create"
  /\ file' = [exists |-> TRUE, value |-> saver.value, len |-> 0]
  /\ saver' = [saver EXCEPT !.pc = "write"]
  /\ UNCHANGED <<dirExists, loaded, lastSaved, crashes>>

\* Mutant: a single write (write instead of write_all) and save returns Ok.
WriteSomeOnce(n) ==
  /\ saver.pc = "write"
  /\ file.len + n <= EncLen
  /\ file' = [file EXCEPT !.len = @ + n]
  /\ saver' = [pc |-> "idle", value |-> NONE]
  /\ lastSaved' = saver.value
  /\ UNCHANGED <<dirExists, loaded, crashes>>

\* Mutant: the writes are not bounded by the length of the contents.
WriteSomeUnbounded(n) ==
  /\ saver.pc = "write"
  /\ file' = [file EXCEPT !.len = @ + n]
  /\ IF file.len + n = EncLen
     THEN /\ saver' = [pc |-> "idle", value |-> NONE]
          /\ lastSaved' = saver.value
     ELSE UNCHANGED <<saver, lastSaved>>
  /\ UNCHANGED <<dirExists, loaded, crashes>>

\* One write of write_all(&contents): at least one more unit; after the
\* last one save returns Ok(()).
WriteSome(n) ==
  /\ saver.pc = "write"
  /\ file.len + n <= EncLen
  /\ file' = [file EXCEPT !.len = @ + n]
  /\ IF file.len + n = EncLen
     THEN /\ saver' = [pc |-> "idle", value |-> NONE]
          /\ lastSaved' = saver.value
     ELSE UNCHANGED <<saver, lastSaved>>
  /\ UNCHANGED <<dirExists, loaded, crashes>>

\* The process stops; the directory and the file keep what was written.
Crash ==
  /\ saver.pc # "idle"
  /\ crashes < MaxCrashes
  /\ crashes' = crashes + 1
  /\ saver' = [pc |-> "idle", value |-> NONE]
  /\ UNCHANGED <<dirExists, file, loaded, lastSaved>>

\* Decoding what read_to_end returned: scs::from_bytes fails on a prefix.
Decode(f) == IF f.len = EncLen THEN f.value ELSE "error"

\* load_from_dir(data_dir): Ok(None) if the file does not exist, else the
\* decoded file or the decode error.
LoadFromDir ==
  /\ saver.pc = "idle"
  /\ loaded' = [result |-> IF dirExists /\ file.exists THEN Decode(file)
                                                      ELSE "none",
                saved |-> lastSaved]
  /\ UNCHANGED <<dirExists, file, saver, lastSaved, crashes>>

Next ==
  \/ \E g \in GenesisValues : StartSave(g)
  \/ CreateFile
  \/ \E n \in 1..EncLen : WriteSome(n)
  \/ Crash
  \/ LoadFromDir

Spec == Init /\ [][Next]_vars

-----------------------------------------------------------------------------
TypeOK ==
  /\ dirExists \in BOOLEAN
  /\ file.len \in 0..EncLen
  /\ saver.pc \in {"idle", "create", "write"}
  /\ loaded.result \in GenesisValues \union {"none", "error"}
  /\ lastSaved \in GenesisValues \union {NONE}
  /\ crashes \in 0..MaxCrashes

\* A load_from_dir after save returned Ok, with no save started since and
\* crashes in between, returns Some of that genesis, as do_test_genesis
\* asserts ("load genesis fail.", "genesis save and load different.").
SavedGenesisLoads ==
  loaded.saved # NONE => loaded.result = loaded.saved

\* load_from_dir never fails on a data directory: it finds the genesis or
\* None, so a node restarted after a crash in save can build the genesis
\* again.
LoadNeverFails == loaded.result # "error"
=============================================================================
