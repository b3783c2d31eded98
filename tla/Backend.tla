------------------------------- MODULE Backend -------------------------------
(***************************************************************************)
(* How the calls of an instruction's contexts get into the generated code: *)
(* the exits of a block carry two jump slots each, the instrumentation     *)
(* operation behind them patches the slots into calls, and the block's     *)
(* qtrace_next_offset[] remembers where the slots are.  The code buffer is *)
(* an array of host instructions, executed one by one.                     *)
(***************************************************************************)
EXTENDS Integers, Sequences, FiniteSets, SequencesExt

CONSTANTS Blocks,     \* what may be translated: [shape, before, after]
          MaxBlocks,  \* code_gen_max_blocks
          MaxFlushes, \* times the code cache is flushed (a bound)
          BufferSize  \* length of the code buffer (a bound)

ASSUME BackendConstants ==
  /\ MaxBlocks \in Nat \ {0} /\ MaxFlushes \in Nat /\ BufferSize \in Nat \ {0}

VARIABLES nb_tbs, tbs,     \* TBContext
          code, code_ptr,  \* code_gen_buffer, code_gen_ptr
          current,         \* the block s->qtrace_next_offset belongs to, 0: none yet
          flushes,
          host             \* the host CPU in generated code

vars == <<nb_tbs, tbs, code, code_ptr, current, flushes, host>>

(* The micro-operations of one guest instruction, by where it goes next.  goto n
   and exit n are the halves of a direct exit; exit 0 alone is an indirect exit, a
   jump to another page, or the end of a block that does not jump.  A repeated
   string instruction leaves first when its count is zero. *)
Direct(n) == <<<<"goto", n>>, <<"exit", n>>>>
Indirect == <<<<"exit", 0>>>>
Branch(taken, other) == <<<<"br">>>> \o other \o <<<<"label">>>> \o taken
Instrumentation == <<<<"instrument">>>>
Access == <<<<"access">>>>

Shapes ==
  [plain    |-> Access \o Instrumentation \o Indirect,
   indirect |-> Access \o Indirect \o Instrumentation,
   jmp      |-> Direct(0) \o Instrumentation,
   jcc      |-> Branch(Direct(1), Direct(0)) \o Instrumentation,
   jcc_far  |-> Branch(Indirect, Direct(0)) \o Instrumentation,
   rep      |-> Branch(Access, Direct(1)) \o Direct(0) \o Instrumentation,
   rep_far  |-> Branch(Access, Indirect) \o Direct(0) \o Instrumentation]

TB_EXIT_REQUESTED == 3

(* gen_tb_start tests tcg_exit_req, gen_tb_end adds the exit for it. *)
Operations(shape) ==
  <<<<"start">>>> \o Shapes[shape] \o <<<<"exitreq">>, <<"exit", TB_EXIT_REQUESTED>>>>

(* Entries 6 and 7 of qtrace_next_offset are jmp_next[1] and jmp_first, which
   follow it in TranslationBlock; Linked is the value tb_link_page gives the
   latter, a pointer. *)
Slots == {0, 1, 2, 3, 6, 7}
Linked == -1
PREINST_INDEX(n) == 2 * n
PSTINST_INDEX(n) == 2 * n + 1

NoBlock == [shape |-> "plain", before |-> <<>>, after |-> <<>>]
NewTb == [tc |-> 0, block |-> NoBlock, qtrace_next_offset |-> [i \in Slots |-> 0]]
Outside == [at |-> "out", tb |-> 0, pc |-> 0, stack |-> <<>>, calls |-> <<>>, exit |-> 0]

Init == /\ nb_tbs = 0 /\ tbs = [i \in 1..MaxBlocks |-> NewTb]
        /\ code = [a \in 1..BufferSize |-> <<"free">>] /\ code_ptr = 1
        /\ current = 0 /\ flushes = 0 /\ host = Outside

-----------------------------------------------------------------------------
(* Code generation: e is [code, ptr, slot], the buffer, the write position and
   the slot array. *)

Emit(e, cells) ==
  [e EXCEPT !.ptr = @ + Len(cells),
            !.code = [a \in DOMAIN @ |->
                        IF a \in e.ptr..e.ptr + Len(cells) - 1 THEN cells[a - e.ptr + 1] ELSE @[a]]]

(* A slot is a jump to the next instruction until it is patched. *)
EmitSlot(e, i) == Emit([e EXCEPT !.slot[i] = e.ptr], <<<<"jmp">>>>)

INDEX_op_goto_tb(e, n) ==
  Emit(EmitSlot(EmitSlot(e, PREINST_INDEX(n)), PSTINST_INDEX(n)), <<<<"direct">>>>)

EmitMissingSlot(e, i) == IF e.slot[i] = 0 THEN EmitSlot(e, i) ELSE e

INDEX_op_exit_tb(e, n) ==
  Emit(EmitMissingSlot(EmitMissingSlot(e, PREINST_INDEX(n)), PSTINST_INDEX(n)), <<<<"exit", n>>>>)

Funs(list) == [i \in DOMAIN list |-> <<"fun", list[i]>>]

(* A displacement with its operands swapped; a call whose code does not return. *)
PatchBackwards(e, i, target, instrumented) ==
  IF instrumented /\ e.slot[i] # 0
  THEN Emit([e EXCEPT !.code[e.slot[i]] = <<"call", e.slot[i] - target>>], <<<<"ret">>>>)
  ELSE e

PatchWithoutReturn(e, i, target, instrumented) ==
  IF instrumented /\ e.slot[i] # 0
  THEN [e EXCEPT !.code[e.slot[i]] = <<"call", target>>]
  ELSE e

(* Turn slot i into a call of the code at target, which then needs a return. *)
PatchSlot(e, i, target, instrumented) ==
  IF instrumented /\ e.slot[i] # 0
  THEN Emit([e EXCEPT !.code[e.slot[i]] = <<"call", target>>], <<<<"ret">>>>)
  ELSE e

(* The loops stop after the first exit. *)
InstrumentFirstExit(e, block) ==
  LET e1 == PatchSlot(Emit(e, Funs(block.before)), 0, e.ptr, block.before # <<>>) IN
  PatchSlot(Emit(e1, Funs(block.after)), 1, e.ptr, block.after # <<>>)

(* Both loops patch in the address of the code for BEFORE. *)
INDEX_op_qtrace_instrumentation(e, block) ==
  LET preinst == block.before # <<>>
      pstinst == block.after # <<>>
      e0 == Emit(e, Funs(block.before))
      e2 == PatchSlot(PatchSlot(e0, 0, e.ptr, preinst), 2, e.ptr, preinst)
      e3 == Emit(e2, Funs(block.after)) IN
  PatchSlot(PatchSlot(e3, 1, e.ptr, pstinst), 3, e.ptr, pstinst)

EmitOp(block, e, op) ==
  CASE op[1] = "goto"       -> INDEX_op_goto_tb(e, op[2])
    [] op[1] = "exit"       -> INDEX_op_exit_tb(e, op[2])
    [] op[1] = "instrument" -> INDEX_op_qtrace_instrumentation(e, block)
    [] OTHER                -> Emit(e, <<op>>)

tcg_gen_code(e, block, operations) ==
  LET step(x, op) == EmitOp(block, x, op) IN FoldLeft(step, e, operations)

(* The most room one block can need. *)
Room == 24

Full == nb_tbs >= MaxBlocks \/ code_ptr + Room > BufferSize

(* A descriptor that is used again keeps its slots. *)
ClearNothing(slot) == slot

(* cpu_gen_code clears the slots of the first exit only. *)
ClearSlots(slot) == [slot EXCEPT ![0] = 0, ![1] = 0]

(* tb_alloc, cpu_gen_code and tb_link_page for a block the cache does not have. *)
tb_gen_code(block) ==
  /\ host.at = "out" /\ ~Full
  /\ LET n == nb_tbs + 1
         e == tcg_gen_code([code |-> code, ptr |-> code_ptr,
                            slot |-> ClearSlots(tbs[n].qtrace_next_offset)],
                           block, Operations(block.shape)) IN
     /\ nb_tbs' = n /\ current' = n
     /\ code' = e.code /\ code_ptr' = e.ptr
     /\ tbs' = [tbs EXCEPT ![n] = [tc |-> code_ptr, block |-> block,
                                   qtrace_next_offset |-> [e.slot EXCEPT ![6] = 0, ![7] = Linked]]]
  /\ UNCHANGED <<flushes, host>>

(* A flush that forgets the count of blocks. *)
flush_keeping_blocks ==
  /\ host.at = "out" /\ flushes < MaxFlushes
  /\ code_ptr' = 1 /\ flushes' = flushes + 1
  /\ UNCHANGED <<nb_tbs, tbs, code, current, host>>

(* On --flushcc, or when the cache is full: the descriptors keep their contents. *)
tb_flush ==
  /\ host.at = "out" /\ flushes < MaxFlushes
  /\ nb_tbs' = 0 /\ code_ptr' = 1 /\ flushes' = flushes + 1
  /\ UNCHANGED <<tbs, code, current, host>>

-----------------------------------------------------------------------------
(* Execution. *)

cpu_tb_exec(n) ==
  /\ host.at = "out" /\ n <= nb_tbs
  /\ host' = [Outside EXCEPT !.at = "code", !.tb = n, !.pc = tbs[n].tc]
  /\ UNCHANGED <<nb_tbs, tbs, code, code_ptr, current, flushes>>

Cell == code[host.pc]
Goes(pc) == host' = [host EXCEPT !.pc = pc]

(* The next instruction of a kind behind pc. *)
Ahead(kind) == CHOOSE a \in host.pc + 1..BufferSize :
                 code[a] = <<kind>> /\ \A b \in host.pc + 1..a - 1 : code[b] # <<kind>>

(* Branches: on tcg_exit_req, on the guest's condition.  No block is chained to
   another, so a direct jump continues behind itself. *)
RunStart == Cell = <<"start">> /\ (Goes(host.pc + 1) \/ Goes(Ahead("exitreq")))
RunBranch == Cell = <<"br">> /\ (Goes(host.pc + 1) \/ Goes(Ahead("label")))
RunThrough ==
  Cell \in {<<"label">>, <<"exitreq">>, <<"access">>, <<"jmp">>, <<"direct">>} /\ Goes(host.pc + 1)

RunFun == /\ Cell[1] = "fun"
          /\ host' = [host EXCEPT !.pc = @ + 1, !.calls = Append(@, Cell[2])]
RunCall == /\ Cell[1] = "call"
           /\ host' = [host EXCEPT !.pc = Cell[2], !.stack = Append(@, host.pc + 1)]
(* A return without a call takes its address from the frame of the prologue. *)
RunRet == /\ Cell = <<"ret">>
          /\ host' = IF host.stack = <<>> THEN [host EXCEPT !.at = "wild"]
                     ELSE [host EXCEPT !.pc = Last(host.stack), !.stack = Front(@)]
RunExit == /\ Cell[1] = "exit"
           /\ host' = [host EXCEPT !.at = "exited", !.exit = Cell[2]]

Run == /\ host.at = "code"
       /\ \/ RunStart \/ RunBranch \/ RunThrough \/ RunFun \/ RunCall \/ RunRet \/ RunExit
       /\ UNCHANGED <<nb_tbs, tbs, code, code_ptr, current, flushes>>

(* The search for the access runs on to the end of the block. *)
UpToEnd(operations) == operations

(* The operations up to and with the access that faults. *)
UpTo(operations) ==
  LET n == CHOOSE i \in DOMAIN operations : operations[i] = <<"access">> IN
  SubSeq(operations, 1, n)

(* An access faults: the block is generated once more, in place, up to the access.
   s->qtrace_next_offset is still the array of the block generated last. *)
cpu_restore_state_from_tb ==
  /\ host.at = "code" /\ Cell = <<"access">>
  /\ LET tb == tbs[host.tb]
         e == tcg_gen_code([code |-> code, ptr |-> tb.tc, slot |-> tbs[current].qtrace_next_offset],
                           tb.block, UpTo(Operations(tb.block.shape))) IN
     /\ code' = e.code
     /\ tbs' = [tbs EXCEPT ![current].qtrace_next_offset = e.slot]
  /\ host' = Outside
  /\ UNCHANGED <<nb_tbs, code_ptr, current, flushes>>

BackToLoop ==
  /\ host.at = "exited"
  /\ host' = Outside
  /\ UNCHANGED <<nb_tbs, tbs, code, code_ptr, current, flushes>>

Next == \/ \E block \in Blocks : tb_gen_code(block)
        \/ tb_flush \/ Run \/ cpu_restore_state_from_tb \/ BackToLoop
        \/ \E n \in 1..MaxBlocks : cpu_tb_exec(n)

Spec == Init /\ [][Next]_vars

-----------------------------------------------------------------------------
(* Properties. *)

(* The state has its type. *)
TypeOK ==
  /\ nb_tbs \in 0..MaxBlocks /\ code_ptr \in 1..BufferSize + 1 /\ current \in 0..MaxBlocks
  /\ \A i \in 1..MaxBlocks : \A s \in Slots : tbs[i].qtrace_next_offset[s] \in -1..BufferSize
  /\ host.at \in {"out", "code", "exited", "wild"} /\ host.pc \in 0..BufferSize + 1

(* tb_find_pc searches the blocks by bisection: their code lies in the order of
   their descriptors, below code_gen_ptr. *)
Ascending ==
  \A i \in 1..nb_tbs : tbs[i].tc < IF i = nb_tbs THEN code_ptr ELSE tbs[i + 1].tc

(* A block that leaves through an exit of its instruction has called the functions
   of the BEFORE contexts and then those of the AFTER contexts, once each in list
   order; one that leaves on tcg_exit_req has called none: the instruction has not
   been executed. *)
CalledAsAsked ==
  host.at = "exited" =>
    LET block == tbs[host.tb].block IN
    host.calls = IF host.exit = TB_EXIT_REQUESTED THEN <<>> ELSE block.before \o block.after

(* Every return in generated code answers a call of the same block: slots patched
   into calls and the returns emitted for them match. *)
NoStrayReturn == host.at # "wild" /\ (host.at = "exited" => host.stack = <<>>)

(* The code of a block in the cache stays as it was generated, until the cache is
   flushed: neither generating another block nor restoring the CPU state from this
   one changes it. *)
StableCode ==
  [][flushes' = flushes => \A a \in 1..code_ptr - 1 : code'[a] = code[a]]_vars
=============================================================================
