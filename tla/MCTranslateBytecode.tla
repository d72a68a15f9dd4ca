------------------------- MODULE MCTranslateBytecode -------------------------
EXTENDS TranslateBytecode

\* One operation of each kind of statement translate_bytecode emits after
\* the call: Add (ArithOps, may abort, propagate_abort), MoveTo (GlobalOps,
\* may abort, propagate_abort), Shl (LogicOps, does not abort, no check;
\* the LocalOps, StructOps and ReferenceOps behave alike), Xor (BitOps,
\* assert false), Function (a callee that may abort) and FunctionNoAbort
\* (a callee with the assume_no_abort_from_here pragma).
MCOps == {"Add", "MoveTo", "Shl", "Xor", "Function", "FunctionNoAbort"}
MCMayAbort == {"Add", "MoveTo", "Function", "FunctionNoAbort"}
=============================================================================
