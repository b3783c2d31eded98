-------------------------- MODULE InstrumentProofs --------------------------
(***************************************************************************)
(* The bookkeeping of instrumentation contexts (qtrace.c) is right for any *)
(* plugins, any instructions and any number of them.                       *)
(***************************************************************************)
EXTENDS Instrument, TLAPS

(* The strengthening: with one instruction per block there is at most one root,
   none when an instruction starts, and within an instruction there is one exactly
   when the parser has run for it. *)
RootInv ==
  /\ uiid \in Nat /\ last_uiid \in Nat /\ rootcount \in Nat /\ num_insns \in Nat
  /\ last_uiid <= uiid
  /\ rootcount <= 1
  /\ phase = "insn" => rootcount = 0
  /\ phase = "disas" => (last_uiid = uiid <=> rootcount = 1)
  /\ DOMAIN rootarray = 1..MAX_ICONTEXT_ROOT
  /\ NoLeak

(* Actions that leave the contexts alone, and do not start an instruction. *)
Quiet ==
  /\ UNCHANGED qvars
  /\ num_insns' \in Nat
  /\ phase' \in {"idle", "run"} \/ phase' = phase

(* Init establishes RootInv: no instruction was translated and no root allocated. *)
LEMMA InitRoot == Init => RootInv
  BY InstrumentConstants DEF Init, RootInv, NoLeak

(* A quiet action keeps RootInv. *)
LEMMA QuietRoot == RootInv /\ Quiet => RootInv'
  BY DEF RootInv, Quiet, NoLeak, qvars

(* Freeing all contexts, as cpu_gen_code and cpu_restore_state_from_tb do, keeps
   RootInv when an instruction is to start. *)
LEMMA FreeRoot ==
  ASSUME RootInv, qtrace_free_all_icontexts, phase' = "insn", num_insns' = 0
  PROVE  RootInv'
<1>1. DOMAIN rootarray' = 1..MAX_ICONTEXT_ROOT
  BY DEF RootInv, qtrace_free_all_icontexts
<1>2. \A i \in DOMAIN rootarray : rootarray'[i] = <<>>
  BY DEF RootInv, NoLeak, qtrace_free_all_icontexts
<1>3. NoLeak'
  BY <1>1, <1>2 DEF NoLeak, RootInv
<1> QED BY <1>1, <1>3 DEF RootInv, qtrace_free_all_icontexts

(* QTRACE_CLIENT_MODULE opens a root exactly if its instruction has none. *)
LEMMA ClientRoot ==
  ASSUME RootInv, NEW requests, QTRACE_CLIENT_MODULE(requests)
  PROVE  RootInv'
<1> DEFINE roots == IF OpensRoot(requests) THEN rootcount + 1 ELSE rootcount
<1>1. phase = "disas" /\ phase' = "disas" /\ uiid' = uiid /\ num_insns' = num_insns
  BY DEF QTRACE_CLIENT_MODULE, Disas
<1>2. rootcount' = roots /\ last_uiid' = IF requests = <<>> THEN last_uiid ELSE uiid
  BY DEF QTRACE_CLIENT_MODULE
<1>3. \E list : rootarray' = rootarray \/ rootarray' = [rootarray EXCEPT ![roots] = list]
  BY DEF QTRACE_CLIENT_MODULE
<1>4. /\ uiid' \in Nat /\ last_uiid' \in Nat /\ rootcount' \in Nat /\ num_insns' \in Nat
      /\ last_uiid' <= uiid' /\ rootcount' <= 1
      /\ last_uiid' = uiid' <=> rootcount' = 1
  BY <1>1, <1>2 DEF RootInv, OpensRoot
<1>5. DOMAIN rootarray' = 1..MAX_ICONTEXT_ROOT
  BY <1>3 DEF RootInv
<1>6. NoLeak'
  <2> SUFFICES ASSUME NEW i \in DOMAIN rootarray', i > rootcount'
               PROVE  rootarray'[i] = <<>>
    BY DEF NoLeak
  <2>1. i \in DOMAIN rootarray /\ i # roots /\ i > rootcount
    BY <1>2, <1>4, <1>5 DEF RootInv, OpensRoot
  <2>2. rootarray'[i] = rootarray[i]
    BY <1>3, <2>1
  <2> QED BY <2>1, <2>2 DEF RootInv, NoLeak
<1> QED BY <1>1, <1>4, <1>5, <1>6 DEF RootInv

(* Every step of the translator keeps RootInv. *)
LEMMA TranslateRoot == RootInv /\ Translate => RootInv'
<1> SUFFICES ASSUME RootInv, Translate PROVE RootInv'
  OBVIOUS
<1>1. CASE cpu_gen_code
  BY <1>1, FreeRoot DEF cpu_gen_code
<1>2. CASE EmitWork
  BY <1>2, QuietRoot DEF EmitWork, Quiet, RootInv
<1>3. CASE FetchFault
  BY <1>3, QuietRoot DEF FetchFault, Quiet, RootInv
<1>4. CASE QTRACE_MATERIALIZE_INSTRUCTION_INSTRUMENT
  <2>1. ~(num_insns + 1 < max_insns)
    BY DEF RootInv, max_insns
  <2>2. phase' = "idle"
    BY <1>4, <2>1 DEF QTRACE_MATERIALIZE_INSTRUCTION_INSTRUMENT
  <2> QED BY <1>4, <2>2, QuietRoot DEF QTRACE_MATERIALIZE_INSTRUCTION_INSTRUMENT, Quiet, RootInv
<1>5. CASE \E i \in Insns : StartInsn(i)
  BY <1>5 DEF StartInsn, RootInv, NoLeak
<1>6. CASE \E size \in Sizes : EmitAccess(size)
  BY <1>6, QuietRoot DEF EmitAccess, Quiet, RootInv
<1>7. CASE Disas("client") /\ \E r \in AskLists(Shapes[dc.insn].flags) : QTRACE_CLIENT_MODULE(r)
  BY <1>7, ClientRoot
<1> QED BY <1>1, <1>2, <1>3, <1>4, <1>5, <1>6, <1>7 DEF Translate

(* Every step of the running block keeps RootInv. *)
LEMMA ExecuteRoot == RootInv /\ Execute => RootInv'
<1> SUFFICES ASSUME RootInv, Execute PROVE RootInv'
  OBVIOUS
<1>1. CASE cpu_tb_exec
  BY <1>1, QuietRoot DEF cpu_tb_exec, Quiet, RootInv
<1>2. CASE INDEX_op_qtrace_shadow_register
  BY <1>2, QuietRoot DEF INDEX_op_qtrace_shadow_register, Quiet, RootInv, tvars
<1>3. CASE INDEX_op_qtrace_instrumentation
  BY <1>3, QuietRoot DEF INDEX_op_qtrace_instrumentation, Quiet, RootInv, tvars
<1>4. CASE EndBlock
  BY <1>4, QuietRoot DEF EndBlock, Quiet, RootInv
<1>5. CASE \E a \in Addrs, path \in Paths : tcg_out_qemu_ld(a, path)
  BY <1>5, QuietRoot DEF tcg_out_qemu_ld, Quiet, RootInv, tvars
<1>6. CASE \E a \in Addrs, v \in Values, path \in Paths : tcg_out_qemu_st(a, v, path)
  BY <1>6, QuietRoot DEF tcg_out_qemu_st, Quiet, RootInv, tvars
<1>7. CASE \E a \in Addrs : cpu_restore_state_from_tb(a)
  BY <1>7, FreeRoot DEF cpu_restore_state_from_tb
<1>8. CASE \E r \in Registers, v \in Values : RunWork(r, v)
  BY <1>8, QuietRoot DEF RunWork, Quiet, RootInv, tvars
<1>9. CASE \E l \in Location, v \in Values : OtherBlock(l, v)
  BY <1>9, QuietRoot DEF OtherBlock, Quiet, RootInv, tvars
<1> QED BY <1>1, <1>2, <1>3, <1>4, <1>5, <1>6, <1>7, <1>8, <1>9 DEF Execute

(* RootInv implies both properties: 1 < MAX_ICONTEXT_ROOT. *)
LEMMA RootInvSafe == RootInv => RootValid /\ NoLeak
  BY InstrumentConstants DEF RootInv, RootValid

(* For any plugins and instructions: qtrace_instrument_parser always writes to an
   allocated root inside rootarray, and no context list is lost. *)
THEOREM RootSafety == Spec => [](RootValid /\ NoLeak)
<1>1. RootInv /\ [Next]_vars => RootInv'
  <2>1. CASE UNCHANGED vars
    BY <2>1, QuietRoot DEF vars, tvars, Quiet, RootInv
  <2> QED BY <2>1, TranslateRoot, ExecuteRoot DEF Next
<1> QED BY InitRoot, <1>1, RootInvSafe, PTL DEF Spec
=============================================================================
