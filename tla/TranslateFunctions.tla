------------------------- MODULE TranslateFunctions -------------------------
(***************************************************************************)
(* The Boogie procedures BoogieTranslator::translate declares for the     *)
(* functions of a Move program, and the procedures the calls it emits     *)
(* name (vm/move-prover/src/bytecode_translator.rs).  One ModuleTranslator *)
(* per module runs translate_function on each function in order: a       *)
(* native gets at most an Indirect signature; any other function gets its *)
(* Definition (with the inline body), one entry per visibility, each a    *)
(* stub that calls the Definition unless the function is opaque, and,     *)
(* when it is verified, a VerificationDefinition (the body again, under   *)
(* the in_toplevel_verify flag) and a Verification stub calling it.       *)
(* A call in a body names the callee's Direct entry under the flag and    *)
(* its Indirect entry otherwise.                                          *)
(*                                                                         *)
(* Names, types, specs and the statements other than calls are left out: *)
(* a procedure is a pair <<function, entry point>>.                       *)
(***************************************************************************)
EXTENDS Naturals, Sequences

CONSTANTS
  Order,      \* the functions in the order get_modules and get_functions
              \* give them
  Modules,
  VcTimeout,  \* options.backend.vc_timeout
  Estimates   \* the values a verify_duration_estimate property may have

Funcs == {Order[i] : i \in DOMAIN Order}

\* A function as the translator sees it.  should_verify(verify_scope) is
\* inScope; an estimate of 0 stands for no estimate too (neither exceeds
\* the timeout).
FunctionInfos ==
  [public: BOOLEAN, native: BOOLEAN, opaque: BOOLEAN, inScope: BOOLEAN,
   estimate: Estimates, callees: SUBSET Funcs]

\* Programs the Move compiler and bytecode verifier accept: a native has no
\* body, a function of another module is called only if public, and the
\* functions of a module come one after another.
Programs ==
  { p \in [info: [Funcs -> FunctionInfos], moduleOf: [Funcs -> Modules]] :
      /\ \A f \in Funcs :
           p.info[f].native => p.info[f].callees = {} /\ ~p.info[f].opaque
                               /\ p.info[f].inScope /\ p.info[f].estimate = 0
      /\ \A f, g \in Funcs :
           g \in p.info[f].callees /\ p.moduleOf[g] # p.moduleOf[f] => p.info[g].public
      /\ \A i, j, k \in DOMAIN Order :
           i < j /\ j < k /\ p.moduleOf[Order[i]] = p.moduleOf[Order[k]]
             => p.moduleOf[Order[j]] = p.moduleOf[Order[i]] }

VARIABLES
  prog,         \* the program translated
  nativeStubs,  \* options.prover.native_stubs
  module,       \* the current ModuleTranslator's module ("none" before)
  inTopLevel,   \* its in_toplevel_verify flag
  fi,           \* the position in Order of the function being translated
  pc,           \* where translate_function is
  declared,     \* the procedures declared so far
  calls         \* the procedures named by the calls emitted so far

vars == <<prog, nativeStubs, module, inTopLevel, fi, pc, declared, calls>>

Info(f) == prog.info[f]

\* Mutant: the callee's nativeness is not checked.
CallEntryNativeUnchecked(f, g, flag) ==
  IF flag
  THEN IF prog.moduleOf[g] # prog.moduleOf[f] THEN "DirectInterModule"
                                              ELSE "DirectIntraModule"
  ELSE "Indirect"

\* The entry_point of the Function(mid, fid, _) arm of translate_bytecode.
CallEntry(f, g, flag) ==
  IF flag /\ ~Info(g).native
  THEN IF prog.moduleOf[g] # prog.moduleOf[f] THEN "DirectInterModule"
                                              ELSE "DirectIntraModule"
  ELSE "Indirect"

\* generate_inline_function_body of f: one call per callee.
BodyCalls(f, flag) == {<<g, CallEntry(f, g, flag)>> : g \in Info(f).callees}

\* The entries translate_function generates after the Definition.
Entries(f) ==
  IF Info(f).public THEN {"DirectInterModule", "DirectIntraModule", "Indirect"}
                    ELSE {"DirectIntraModule", "Indirect"}

\* translate_functions: the function translate_function is called on.
Current == Order[fi]

\* generate_function_stub(f, _, def): `call $ret... := f<def>(args);`.
StubCall(f, def) == <<f, def>>

Init ==
  /\ prog \in Programs
  /\ nativeStubs \in BOOLEAN
  /\ module = "none"
  /\ inTopLevel = FALSE
  /\ fi = 1
  /\ pc = "start"
  /\ declared = {}
  /\ calls = {}

\* ModuleTranslator::new for the next module: in_toplevel_verify default.
NewModuleTranslator ==
  /\ pc = "start"
  /\ fi <= Len(Order)
  /\ prog.moduleOf[Current] # module
  /\ module' = prog.moduleOf[Current]
  /\ inTopLevel' = FALSE
  /\ UNCHANGED <<prog, nativeStubs, fi, pc, declared, calls>>

Started == pc = "start" /\ fi <= Len(Order) /\ prog.moduleOf[Current] = module

\* A native: the Indirect signature and spec if native_stubs; return.
TranslateNative ==
  /\ Started
  /\ Info(Current).native
  /\ declared' = IF nativeStubs THEN declared \union {<<Current, "Indirect">>}
                                ELSE declared
  /\ fi' = fi + 1
  /\ UNCHANGED <<prog, nativeStubs, module, inTopLevel, pc, calls>>

\* generate_function_sig(Definition) and the inline body.
TranslateDefinition ==
  /\ Started
  /\ ~Info(Current).native
  /\ declared' = declared \union {<<Current, "Definition">>}
  /\ calls' = calls \union BodyCalls(Current, inTopLevel)
  /\ pc' = "entries"
  /\ UNCHANGED <<prog, nativeStubs, module, inTopLevel, fi>>

\* Each entry's signature, spec and, unless opaque, the stub that calls
\* the Definition.
GenerateEntries ==
  /\ pc = "entries"
  /\ declared' = declared \union {<<Current, e>> : e \in Entries(Current)}
  /\ calls' = IF Info(Current).opaque THEN calls
              ELSE calls \union {StubCall(Current, "Definition")}
  /\ pc' = "verify"
  /\ UNCHANGED <<prog, nativeStubs, module, inTopLevel, fi>>

\* Whether translate_function goes on to the verification procedures.
Verified(f) == Info(f).inScope /\ ~(Info(f).estimate > VcTimeout)

\* The function is not verified (out of scope, or estimated to take longer
\* than the timeout): return.
SkipVerification ==
  /\ pc = "verify"
  /\ ~Verified(Current)
  /\ fi' = fi + 1
  /\ pc' = "start"
  /\ UNCHANGED <<prog, nativeStubs, module, inTopLevel, declared, calls>>

\* generate_function_sig(VerificationDefinition), set_top_level_verify(true)
\* and the inline body.
VerificationDefinition ==
  /\ pc = "verify"
  /\ Verified(Current)
  /\ inTopLevel' = TRUE
  /\ declared' = declared \union {<<Current, "VerificationDefinition">>}
  /\ calls' = calls \union BodyCalls(Current, TRUE)
  /\ pc' = "verification"
  /\ UNCHANGED <<prog, nativeStubs, module, fi>>

\* set_top_level_verify(false); the Verification signature, spec and the
\* stub calling the VerificationDefinition.
Verification ==
  /\ pc = "verification"
  /\ inTopLevel' = FALSE
  /\ declared' = declared \union {<<Current, "Verification">>}
  /\ calls' = calls \union {StubCall(Current, "VerificationDefinition")}
  /\ fi' = fi + 1
  /\ pc' = "start"
  /\ UNCHANGED <<prog, nativeStubs, module>>

\* Every function translated.
Done ==
  /\ fi > Len(Order)
  /\ UNCHANGED vars

Next ==
  \/ NewModuleTranslator
  \/ TranslateNative
  \/ TranslateDefinition
  \/ GenerateEntries
  \/ SkipVerification
  \/ VerificationDefinition
  \/ Verification
  \/ Done

Spec == Init /\ [][Next]_vars

-----------------------------------------------------------------------------
\* The procedures the Boogie prelude provides: a native's, when the
\* translator emits no stub for it.
PreludeDeclared == {<<f, "Indirect">> : f \in {g \in Funcs : Info(g).native /\ ~nativeStubs}}

\* Every call the translator has emitted, in a body or a stub, names a
\* procedure that is declared, by this translation once it has ended and
\* by the prelude: the entry the Function arm picks from the
\* in_toplevel_verify flag and the callee's module and nativeness is one
\* translate_function generates for the callee's visibility.
CallsResolve ==
  fi > Len(Order) => calls \subseteq declared \union PreludeDeclared
=============================================================================
