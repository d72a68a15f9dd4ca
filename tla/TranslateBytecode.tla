-------------------------- MODULE TranslateBytecode --------------------------
(***************************************************************************)
(* The Boogie procedure body that ModuleTranslator::                      *)
(* generate_inline_function_body and translate_bytecode                   *)
(* (vm/move-prover/src/bytecode_translator.rs) emit for a function, and   *)
(* its execution.  Each stackless bytecode becomes a statement; what it   *)
(* writes to locals and the debug trace is left out, and what is kept is  *)
(* the control: whether the called procedure may set $abort_flag, the     *)
(* `if ($abort_flag) goto Abort` (propagate_abort) or                     *)
(* `assume $abort_flag == false` emitted after it, labels (with           *)
(* `assume !$abort_flag` at loop headers), gotos, return, and the Abort   *)
(* exit after the last bytecode.                                          *)
(*                                                                         *)
(* Which prelude procedures may set $abort_flag is not in this code; it   *)
(* is the constant MayAbort.                                              *)
(***************************************************************************)
EXTENDS Naturals, Sequences, SequencesExt

CONSTANTS
  Ops,       \* the non-control operations the bodies use
  MayAbort,  \* the operations whose Boogie procedure may set $abort_flag
  MaxCode    \* longest function body

\* A bytecode; target is the position of the label a Jump or Branch goes to
\* (the Branch's else label is the next bytecode).
Bytecodes ==
  [op: Ops \union {"Label", "Ret", "Abort"}, target: {0}]
  \union [op: {"Jump", "Branch"}, target: 1..MaxCode]

\* A body the stackless bytecode generator produces: gotos go to labels,
\* and the code ends in Ret, Abort or Jump (a branch falls through to its
\* else label, so it is never last).
WellFormed(code) ==
  /\ \A i \in DOMAIN code :
       code[i].op \in {"Jump", "Branch"} =>
         code[i].target <= Len(code) /\ code[code[i].target].op = "Label"
  /\ code[Len(code)].op \in {"Ret", "Abort", "Jump"}

\* collect_loop_targets' keys: the labels a back edge goes to.  (The code
\* takes them from Graph::compute_reducible, which is not under src/.)
IsLoopHeader(code, i) ==
  /\ code[i].op = "Label"
  /\ \E j \in i..Len(code) : code[j].op \in {"Jump", "Branch"} /\ code[j].target = i

-----------------------------------------------------------------------------
(* translate_bytecode: the operations grouped by the statements their     *)
(* match arms emit after the procedure call or assignment.                 *)

\* UnpackRef, PackRef (before/after update invariants), WriteBack, Splice
\* and SpecBlock: no abort check.
ReferenceOps == {"UnpackRef", "PackRef", "WriteBack", "Splice", "SpecBlock"}

\* Assign, Load, and the BorrowLoc, ReadRef and WriteRef calls: no abort
\* check.
LocalOps == {"Assign", "Load", "BorrowLoc", "ReadRef", "WriteRef"}

\* Pack, Unpack, BorrowField, GetField and Exists: no abort check.
StructOps == {"Pack", "Unpack", "BorrowField", "GetField", "Exists"}

\* BorrowGlobal, GetGlobal, MoveTo, MoveFrom: propagate_abort().
GlobalOps == {"BorrowGlobal", "GetGlobal", "MoveTo", "MoveFrom"}

\* CastU8, CastU64, CastU128: propagate_abort(); Not: none.
CastOps == {"CastU8", "CastU64", "CastU128"}

\* Add, Sub, Mul, Div, Mod: propagate_abort().
ArithOps == {"Add", "Sub", "Mul", "Div", "Mod"}

\* Shl, Shr, Lt, Gt, Le, Ge, Or, And, Eq, Neq: no abort check.
LogicOps == {"Shl", "Shr", "Lt", "Gt", "Le", "Ge", "Or", "And", "Eq", "Neq"}

\* BitOr, BitAnd, Xor: `assert false;` (bit operations not supported).
BitOps == {"BitOr", "BitAnd", "Xor"}

\* The operations after whose call propagate_abort() is emitted; a call of
\* a function without the assume_no_abort_from_here pragma is "Function".
PropagatesAbort == ArithOps \union CastOps \union GlobalOps \union {"Function"}

\* Mutant: the arithmetic arms emit no propagate_abort().
AfterCallArithUnchecked(op) ==
  CASE op = "FunctionNoAbort" -> "assume_no_abort"
    [] op \in CastOps \union GlobalOps \union {"Function"} -> "propagate"
    [] op \in BitOps -> "assert_false"
    [] op \in ReferenceOps \union LocalOps \union StructOps \union LogicOps
              \union ArithOps \union {"Not", "Destroy", "Nop"} -> "none"

\* The statement after the call: "propagate", "assume_no_abort" (a callee
\* with the pragma, FunctionNoAbort), "assert_false", or "none" (Destroy
\* and Nop emit nothing at all).
AfterCall(op) ==
  CASE op = "FunctionNoAbort" -> "assume_no_abort"
    [] op \in PropagatesAbort -> "propagate"
    [] op \in BitOps -> "assert_false"
    [] op \in ReferenceOps \union LocalOps \union StructOps \union LogicOps
              \union {"Not", "Destroy", "Nop"} -> "none"

-----------------------------------------------------------------------------
VARIABLES
  code,       \* the function's bytecode
  pc,         \* the next bytecode, or AbortLabel
  status,     \* "running" or how the procedure ended
  abortFlag,  \* $abort_flag
  raised      \* an operation or an Abort bytecode aborted on this path

vars == <<code, pc, status, abortFlag, raised>>

\* The `Abort:` label after the last bytecode.
AbortLabel == Len(code) + 1

\* Final states: returned, passed the Abort exit, failed an assert, or a
\* path Boogie drops because an assume is false there.
Final == {"returned", "aborted", "assert_failed", "pruned_pragma", "pruned_loop"}

Bodies == {c \in BoundedSeq(Bytecodes, MaxCode) : c # <<>> /\ WellFormed(c)}

\* generate_inline_function_body: `assume !$abort_flag;`, then the first
\* bytecode.
Init ==
  /\ code \in Bodies
  /\ pc = 1
  /\ status = "running"
  /\ abortFlag = FALSE
  /\ raised = FALSE

At(op) == status = "running" /\ pc \in DOMAIN code /\ code[pc].op = op

\* `call ... := $Op(...)` (the procedure sets $abort_flag or not), then the
\* statement AfterCall emits.
Operation ==
  LET after == AfterCall(code[pc].op) IN
  /\ status = "running"
  /\ pc \in DOMAIN code
  /\ code[pc].op \in Ops
  /\ \E aborts \in IF code[pc].op \in MayAbort THEN BOOLEAN ELSE {FALSE} :
       /\ abortFlag' = (abortFlag \/ aborts)
       /\ raised' = (raised \/ aborts)
       /\ pc' = IF after = "propagate" /\ abortFlag' THEN AbortLabel ELSE pc + 1
       /\ status' = CASE after = "assume_no_abort" /\ abortFlag' -> "pruned_pragma"
                       [] after = "assert_false" -> "assert_failed"
                       [] OTHER -> status
  /\ UNCHANGED code

\* `L<label>:`, with `assume !$abort_flag;` when the label is a loop
\* header (the ref-proxy and well-formedness assumes are about values).
Label ==
  /\ At("Label")
  /\ IF IsLoopHeader(code, pc) /\ abortFlag
     THEN status' = "pruned_loop" /\ UNCHANGED pc
     ELSE pc' = pc + 1 /\ UNCHANGED status
  /\ UNCHANGED <<code, abortFlag, raised>>

\* `goto L<target>;`
Jump ==
  /\ At("Jump")
  /\ pc' = code[pc].target
  /\ UNCHANGED <<code, status, abortFlag, raised>>

\* `if (b#$Boolean($tmp)) { goto L<then>; } else { goto L<else>; }`
Branch ==
  /\ At("Branch")
  /\ pc' \in {code[pc].target, pc + 1}
  /\ UNCHANGED <<code, status, abortFlag, raised>>

\* `$ret<i> := ...; return;`
Ret ==
  /\ At("Ret")
  /\ status' = "returned"
  /\ UNCHANGED <<code, pc, abortFlag, raised>>

\* Abort(..): `assume $DebugTrackAbort(...); goto Abort;`
AbortBytecode ==
  /\ At("Abort")
  /\ pc' = AbortLabel
  /\ raised' = TRUE
  /\ UNCHANGED <<code, status, abortFlag>>

\* `Abort: $abort_flag := true;` and the default return values.
AbortExit ==
  /\ status = "running"
  /\ pc = AbortLabel
  /\ abortFlag' = TRUE
  /\ status' = "aborted"
  /\ UNCHANGED <<code, pc, raised>>

\* The procedure has ended.
Ended ==
  /\ status \in Final
  /\ UNCHANGED vars

Next ==
  \/ Operation
  \/ Label
  \/ Jump
  \/ Branch
  \/ Ret
  \/ AbortBytecode
  \/ AbortExit
  \/ Ended

Spec == Init /\ [][Next]_vars

-----------------------------------------------------------------------------
\* The verified procedure reports exactly what happened on each path: it
\* returns normally only if nothing aborted, with $abort_flag false; it
\* leaves through the Abort exit only if an operation or an Abort bytecode
\* aborted; and the `assume !$abort_flag` that translate_bytecode emits at
\* every loop header never drops a path, so no abort escapes verification
\* by running into a loop header.
AbortReported ==
  /\ status = "returned" => ~raised /\ ~abortFlag
  /\ status = "aborted" => raised
  /\ status # "pruned_loop"
=============================================================================
