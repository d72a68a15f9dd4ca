------------------------------ MODULE ConfigBuild ------------------------------
(***************************************************************************)
(* Config::build and Config::get_account_for_name of the functional-test  *)
(* harness (vm/functional-tests/src/config/global.rs).  build walks the   *)
(* account entries in order: a validator entry panics; otherwise the next *)
(* keypair of the fixed-seed KeyGen is drawn, and the account is inserted *)
(* under its lowercased name, a name already present being an error.      *)
(* A "default" account with the next keypair is added when absent.  A key *)
(* is its index in the KeyGen stream.                                     *)
(***************************************************************************)
EXTENDS Naturals, Sequences, SequencesExt, Functions

CONSTANTS
  Names,          \* account names written in entries
  Lower,          \* Lower[n]: n.to_ascii_lowercase()
  GenesisNames,   \* names of make_genesis_accounts()
  MaxEntries      \* longest entry list

ASSUME Lower \in [Names \union {"default"} -> STRING]

\* Entry::AccountDefinition, abstracted to what build reads: the name, the
\* role (Some(Validator) or None) and the sequence number (an Option, as a
\* sequence of length at most one).
Entries == [name : Names, validator : BOOLEAN, seq : {<<>>, <<0>>, <<1>>}]

VARIABLES
  entries,    \* the &[Entry] argument
  i,          \* the loop's position in entries
  accounts,   \* the BTreeMap: lowercased name -> [key, seq]
  keygen,     \* keypairs drawn so far from KeyGen::from_seed([0x1f; 32])
  result      \* "running", "ok", "error" or "panic"

vars == <<entries, i, accounts, keygen, result>>

Init ==
  /\ entries \in BoundedSeq(Entries, MaxEntries)
  /\ i = 1
  /\ accounts = <<>>
  /\ keygen = 0
  /\ result = "running"

\* Mutant: two keypairs drawn per entry.
BuildEntryDoubleKeygen ==
  LET def == entries[i]
      name == Lower[def.name]
      data == [key |-> keygen + 1, seq |-> IF def.seq = <<>> THEN 0 ELSE Head(def.seq)]
  IN  /\ result = "running"
      /\ i <= Len(entries)
      /\ IF def.validator
         THEN /\ result' = "panic"
              /\ UNCHANGED <<i, accounts, keygen>>
         ELSE /\ keygen' = keygen + 2
              /\ IF name \in DOMAIN accounts
                 THEN /\ result' = "error"
                      /\ UNCHANGED <<i, accounts>>
                 ELSE /\ accounts' = accounts @@ (name :> data)
                      /\ i' = i + 1
                      /\ UNCHANGED result
      /\ UNCHANGED entries

\* One iteration of `for entry in entries`.
BuildEntry ==
  LET def == entries[i]
      name == Lower[def.name]
      data == [key |-> keygen, seq |-> IF def.seq = <<>> THEN 0 ELSE Head(def.seq)]
  IN  /\ result = "running"
      /\ i <= Len(entries)
      /\ IF def.validator
         THEN /\ result' = "panic"
              /\ UNCHANGED <<i, accounts, keygen>>
         ELSE /\ keygen' = keygen + 1
              /\ IF name \in DOMAIN accounts
                 THEN /\ result' = "error"
                      /\ UNCHANGED <<i, accounts>>
                 ELSE /\ accounts' = accounts @@ (name :> data)
                      /\ i' = i + 1
                      /\ UNCHANGED result
      /\ UNCHANGED entries

\* Mutant: the default keypair is drawn from a new KeyGen with the same seed.
AddDefaultFreshKeyGen ==
  /\ result = "running"
  /\ i > Len(entries)
  /\ accounts' = IF "default" \in DOMAIN accounts THEN accounts
                 ELSE accounts @@ ("default" :> [key |-> 0, seq |-> 0])
  /\ result' = "ok"
  /\ UNCHANGED <<entries, i, keygen>>

\* After the loop: if "default" is vacant, insert it with the next keypair;
\* Ok(Config).
AddDefault ==
  /\ result = "running"
  /\ i > Len(entries)
  /\ IF "default" \in DOMAIN accounts
     THEN UNCHANGED <<accounts, keygen>>
     ELSE /\ accounts' = accounts @@ ("default" :> [key |-> keygen, seq |-> 0])
          /\ keygen' = keygen + 1
  /\ result' = "ok"
  /\ UNCHANGED <<entries, i>>

\* The built Config is used by the test (or the error reported).
Finished ==
  /\ result # "running"
  /\ UNCHANGED vars

Next == BuildEntry \/ AddDefault \/ Finished

Spec == Init /\ [][Next]_vars

\* get_account_for_name(name): accounts.get(name), else genesis_accounts.
GetAccountForName(name) ==
  IF name \in DOMAIN accounts THEN "account"
  ELSE IF name \in GenesisNames THEN "genesis" ELSE "error"

-----------------------------------------------------------------------------
TypeOK ==
  /\ i \in 1..MaxEntries + 1
  /\ keygen \in 0..MaxEntries + 1
  /\ \A n \in DOMAIN accounts : accounts[n].key \in 0..MaxEntries
  /\ result \in {"running", "ok", "error", "panic"}

\* Every account of the table, the added "default" one included, has its
\* own keypair: no two test accounts can sign for each other.
KeysDistinct ==
  IsInjective([n \in DOMAIN accounts |-> accounts[n].key])
=============================================================================
