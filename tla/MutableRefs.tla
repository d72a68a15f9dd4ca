---------------------------- MODULE MutableRefs ----------------------------
(***************************************************************************)
(* BytecodeContext::collect_mutable_refs (vm/move-prover/src/             *)
(* bytecode_translator.rs): the set of locals whose values the Boogie     *)
(* translation debug-tracks after every WriteRef and every call with      *)
(* mutable arguments.  Its field comment calls the set "a vast            *)
(* over-approximation" of the locals holding mutable references.          *)
(*                                                                         *)
(* A function body is a bounded sequence of stackless bytecodes: borrows  *)
(* (BorrowLoc, BorrowGlobal, BorrowField, all alike here), assigns of the *)
(* three AssignKinds, jumps and branches.  The pass is the code's single  *)
(* forward walk; the locals that may hold a mutable reference are what    *)
(* the executions of the body reach, over both successors of every       *)
(* branch.  Bodies the bytecode verifier rejects (a read of an            *)
(* unavailable local) are left out.                                       *)
(***************************************************************************)
EXTENDS Naturals, Sequences, SequencesExt

CONSTANTS
  Locals,       \* the local indices of the function
  Params,       \* the parameters, available on entry
  LocalType,    \* LocalType[l] \in {"mut_ref", "ref", "value"}
  AssignKinds,  \* AssignKind variants the bodies use
  MaxCode       \* longest function body

\* ty.is_mutable_reference() of func_target.get_local_type(l).
IsMutableReference(l) == LocalType[l] = "mut_ref"

\* One bytecode; unused fields are 0 or "none".
Bytecodes ==
  [op: {"borrow"}, dst: Locals, src: {0}, kind: {"none"}, target: {0}]
  \union [op: {"assign"}, dst: Locals, src: Locals, kind: AssignKinds, target: {0}]
  \union [op: {"jump", "branch"}, dst: {0}, src: {0}, kind: {"none"}, target: 1..MaxCode]

\* Well typed: a borrow goes to a reference-typed local, an assign copies
\* between two locals of one type, a jump or branch goes to a label of the
\* body.
WellTyped(code) ==
  \A i \in DOMAIN code :
    LET bc == code[i] IN
    /\ bc.op = "borrow" => LocalType[bc.dst] # "value"
    /\ bc.op = "assign" => bc.dst # bc.src /\ LocalType[bc.dst] = LocalType[bc.src]
    /\ bc.op \in {"jump", "branch"} => bc.target <= Len(code)

-----------------------------------------------------------------------------
(* The code: one pass over the bytecode, in order.                         *)

\* The match arm of one bytecode: a borrow into a mutable-reference local is
\* inserted; a Move or Store assign copies membership from src to dst.
CollectStep(mutable_refs, bc) ==
  CASE bc.op = "borrow" /\ IsMutableReference(bc.dst) ->
         mutable_refs \union {bc.dst}
    [] bc.op = "assign" /\ bc.kind \in {"Move", "Store"} /\ bc.src \in mutable_refs ->
         mutable_refs \union {bc.dst}
    [] OTHER -> mutable_refs

\* for bytecode in code { match bytecode { ... } }
CollectMutableRefs(code) == FoldLeft(CollectStep, {}, code)

\* track_mutable_refs: the locals tracked after a mutation, mutable_refs and
\* the mutable-reference parameters.
TrackedLocals(code) ==
  CollectMutableRefs(code) \union {p \in Params : IsMutableReference(p)}

-----------------------------------------------------------------------------
(* The reference: executions of the body.  A state is the next bytecode,  *)
(* the locals holding a mutable reference and the locals available.       *)

Entry ==
  [pc |-> 1, held |-> {p \in Params : IsMutableReference(p)}, avail |-> Params]

\* The states after executing code[s.pc]; pc = Len(code) + 1 has returned.
Successors(code, s) ==
  IF s.pc > Len(code) THEN {}
  ELSE LET bc == code[s.pc]
           next == s.pc + 1
       IN CASE bc.op = "borrow" ->
                 {[pc |-> next, avail |-> s.avail \union {bc.dst},
                   held |-> IF IsMutableReference(bc.dst) THEN s.held \union {bc.dst}
                                                         ELSE s.held \ {bc.dst}]}
            [] bc.op = "assign" ->
                 LET moved == IF bc.kind = "Copy" THEN {} ELSE {bc.src}
                     gets  == IF bc.src \in s.held THEN {bc.dst} ELSE {}
                 IN {[pc |-> next,
                      avail |-> (s.avail \ moved) \union {bc.dst},
                      held |-> ((s.held \ moved) \ {bc.dst}) \union gets]}
            [] bc.op = "jump" -> {[s EXCEPT !.pc = bc.target]}
            [] bc.op = "branch" ->
                 {[s EXCEPT !.pc = next], [s EXCEPT !.pc = bc.target]}

\* The states reachable from `states`, as a least fixpoint.
RECURSIVE Reachable(_, _)
Reachable(code, states) ==
  LET more == states \union UNION {Successors(code, s) : s \in states}
  IN  IF more = states THEN states ELSE Reachable(code, more)

Executions(code) == Reachable(code, {Entry})

\* The bytecode verifier accepts the body: no assign reads a local that is
\* unavailable (never assigned, or moved out) on some path.
Verified(code) ==
  \A s \in Executions(code) :
    s.pc <= Len(code) /\ code[s.pc].op = "assign" => code[s.pc].src \in s.avail

\* The locals that hold a mutable reference at some point of an execution.
MayHoldMutableRef(code) == UNION {s.held : s \in Executions(code)}

Bodies == {c \in BoundedSeq(Bytecodes, MaxCode) : WellTyped(c) /\ Verified(c)}

-----------------------------------------------------------------------------
VARIABLE code

Init == code \in Bodies

Next == UNCHANGED code

Spec == Init /\ [][Next]_code

\* mutable_refs is, as its comment says, an over-approximation: every local
\* that holds a mutable reference on some execution of the body is
\* debug-tracked by track_mutable_refs after a WriteRef.
MutableRefsOverApproximate == MayHoldMutableRef(code) \subseteq TrackedLocals(code)
=============================================================================
