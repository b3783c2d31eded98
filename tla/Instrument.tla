----------------------------- MODULE Instrument -----------------------------
(***************************************************************************)
(* From a plugin's request to the values its function receives.  The       *)
(* translator walks one guest instruction, asks the plugins, turns their   *)
(* requests into contexts (IContext) and emits micro-operations; the       *)
(* emulated CPU then runs them, records what it was asked to record in     *)
(* fetch_shadow, store_shadow and the shadow CPU, and calls the functions. *)
(* One block is followed closely; the blocks that run between its          *)
(* executions appear as OtherBlock.                                        *)
(***************************************************************************)
EXTENDS IContext

CONSTANTS Insns,             \* guest instructions in use, names of Shapes
          Asks,              \* requests a plugin may make
          MaxCalls,          \* parser calls per instruction
          MaxUiid,           \* instructions translated (a bound)
          MAX_ICONTEXT_ROOT, \* CF_COUNT_MASK in the code
          Addrs, Values, Sizes, Paths

ASSUME InstrumentConstants ==
  /\ MAX_ICONTEXT_ROOT \in Nat /\ MAX_ICONTEXT_ROOT > 1
  /\ MaxCalls \in Nat /\ MaxUiid \in Nat

VARIABLES uiid, last_uiid, rootcount, rootarray,  \* qtrace.c
          phase, num_insns, dc,                   \* the translator
          ops, tb,                                \* emitted, and generated
          env, shadowcpu, mem,                    \* the guest CPU and its memory
          run                                     \* the execution of tb

qvars == <<uiid, last_uiid, rootcount, rootarray>>
cpuvars == <<env, shadowcpu, mem>>
tvars == <<phase, num_insns, dc>>
vars == <<qvars, tvars, ops, tb, cpuvars, run>>

(* Mutant: two instructions per block. *)
two_insns == 2

(* What disas_insn does for the instrumented instructions, in order: ask the
   plugins, emit an access, emit the rest.  `flags` is what the plugins are told
   when they are asked.  Most instructions ask nobody. *)
Shapes ==
  [load    |-> [steps |-> <<"client", "fetch", "work">>, flags |-> {"fetch"}],
   store   |-> [steps |-> <<"client", "store">>, flags |-> {"store"}],
   movs    |-> [steps |-> <<"fetch", "client", "store", "work">>, flags |-> {"store"}],
   movreg  |-> [steps |-> <<"client", "work">>, flags |-> {}],
   silent  |-> [steps |-> <<"fetch", "work">>, flags |-> {}]]

max_insns == 1

(* A plugin asks for a fetch or a store only of an instruction flagged so. *)
About(k) == CASE k \in {"FETCH_VALUE", "FETCH_VPMA"} -> {"fetch"}
              [] k \in {"STORE_VALUE", "STORE_VPMA"} -> {"store"}
              [] k \in MemKinds -> {ShadowField[k][1]}
              [] OTHER -> {}

Fits(request, flags) ==
  \A i \in DOMAIN request : request[i][1] = "kind" => About(request[i][2]) \subseteq flags

AskLists(flags) ==
  LET fitting == {r \in Asks : Fits(r, flags)} IN
  UNION {[1..n -> fitting] : n \in 0..MaxCalls}

NewDc == [insn |-> "none", at |-> 1, instrument_memory |-> {}, search_pc |-> FALSE]

NoBlock == [insn |-> "none", code |-> <<>>]
NoAccess == [f \in Fields |-> 0]
NotRunning == [pc |-> 0, before |-> [l \in Location |-> 0],
               access |-> [fetch |-> NoAccess, store |-> NoAccess], got |-> <<>>]

Init == /\ uiid = 0 /\ last_uiid = 0 /\ rootcount = 0
        /\ rootarray = [i \in 1..MAX_ICONTEXT_ROOT |-> <<>>]
        /\ phase = "idle" /\ num_insns = 0 /\ dc = NewDc
        /\ ops = <<>> /\ tb = NoBlock /\ run = NotRunning
        /\ env = [l \in Location |-> 0] /\ shadowcpu = env
        /\ mem = [a \in Addrs |-> 0]

(* Mutant: the pointers are kept. *)
free_keeping_pointers ==
  /\ rootcount' = 0
  /\ UNCHANGED <<rootarray, uiid, last_uiid>>

-----------------------------------------------------------------------------
(* Translation. *)

qtrace_free_all_icontexts ==
  /\ rootcount' = 0
  /\ rootarray' = [i \in DOMAIN rootarray |-> IF i <= rootcount THEN <<>> ELSE rootarray[i]]
  /\ UNCHANGED <<uiid, last_uiid>>

cpu_gen_code ==
  /\ phase = "idle" /\ uiid + max_insns <= MaxUiid
  /\ qtrace_free_all_icontexts
  /\ ops' = <<>> /\ run' = NotRunning
  /\ phase' = "insn" /\ num_insns' = 0 /\ dc' = NewDc
  /\ UNCHANGED <<tb, cpuvars>>

(* Mutant: the instruction id is not incremented. *)
StartSameUiid(i) ==
  /\ phase = "insn"
  /\ dc.search_pc => i = dc.insn
  /\ phase' = "disas"
  /\ dc' = [dc EXCEPT !.insn = i, !.at = 1, !.instrument_memory = {}]
  /\ UNCHANGED <<qvars, num_insns, ops, tb, cpuvars, run>>

(* A restore translates the block that was running: the same instruction. *)
StartInsn(i) ==
  /\ phase = "insn"
  /\ dc.search_pc => i = dc.insn
  /\ uiid' = uiid + 1
  /\ phase' = "disas"
  /\ dc' = [dc EXCEPT !.insn = i, !.at = 1, !.instrument_memory = {}]
  /\ UNCHANGED <<last_uiid, rootcount, rootarray, num_insns, ops, tb, cpuvars, run>>

Step == IF dc.at \in DOMAIN Shapes[dc.insn].steps THEN Shapes[dc.insn].steps[dc.at] ELSE "end"
Disas(step) == phase = "disas" /\ Step = step

(* A context remembers the request and the instruction it was made for; the code
   does not. *)
Context(request) == [request |-> request, of |-> uiid] @@ qtrace_instrument_parser(request)

(* Every parser call allocates a root if it is the first of its instruction and
   puts its context in front.  CURRENT_ROOT is rootcount - 1, here rootcount. *)
OpensRoot(requests) == requests # <<>> /\ last_uiid # uiid

CurrentList(requests, roots) ==
  Reverse([i \in DOMAIN requests |-> Context(requests[i])])
    \o (IF OpensRoot(requests) \/ roots = 0 THEN <<>> ELSE rootarray[roots])

(* Ask the plugins, then interpret the list's first context. *)
QTRACE_CLIENT_MODULE(requests) ==
  /\ Disas("client")
  /\ LET roots == IF OpensRoot(requests) THEN rootcount + 1 ELSE rootcount
         list == CurrentList(requests, roots)
         q == qtrace_interpret_instrument_requirements(Head(list)) IN
     /\ rootcount' = roots
     /\ last_uiid' = IF requests = <<>> THEN last_uiid ELSE uiid
     /\ IF list = <<>>
        THEN /\ dc' = [dc EXCEPT !.at = @ + 1]
             /\ UNCHANGED <<rootarray, ops>>
        ELSE /\ rootarray' = [rootarray EXCEPT ![roots] =
                               <<[Head(list) EXCEPT !.iargs = q.iargs]>> \o Tail(list)]
             /\ dc' = [dc EXCEPT !.at = @ + 1, !.instrument_memory = @ \cup q.instrument_memory]
             /\ ops' = ops \o [i \in DOMAIN q.shadows |-> <<"shadow", q.shadows[i]>>]
  /\ UNCHANGED <<uiid, phase, num_insns, tb, cpuvars, run>>

EmitAccess(size) ==
  /\ phase = "disas" /\ Step \in {"fetch", "store"}
  /\ ops' = Append(ops, <<"access", Step, dc.instrument_memory, size>>)
  /\ dc' = [dc EXCEPT !.at = @ + 1]
  /\ UNCHANGED <<qvars, phase, num_insns, tb, cpuvars, run>>

EmitWork ==
  /\ Disas("work")
  /\ ops' = Append(ops, <<"work">>)
  /\ dc' = [dc EXCEPT !.at = @ + 1]
  /\ UNCHANGED <<qvars, phase, num_insns, tb, cpuvars, run>>

(* Reading the instruction's bytes may fault: longjmp out of the translator. *)
FetchFault ==
  /\ phase = "disas" /\ ~dc.search_pc
  /\ phase' = "idle"
  /\ UNCHANGED <<qvars, num_insns, dc, ops, tb, cpuvars, run>>

qtrace_get_current_icontext_list == IF rootcount # 0 THEN rootarray[rootcount] ELSE <<>>

(* The end of the instruction, and of the block after max_insns of them: the back
   end then generates tb, or, for a restore, drops what was emitted. *)
QTRACE_MATERIALIZE_INSTRUCTION_INSTRUMENT ==
  /\ Disas("end")
  /\ LET code == Append(ops, <<"instrument", uiid, qtrace_get_current_icontext_list>>) IN
     IF num_insns + 1 < max_insns
     THEN /\ phase' = "insn" /\ ops' = code
          /\ UNCHANGED tb
     ELSE /\ phase' = "idle" /\ ops' = <<>>
          /\ tb' = IF dc.search_pc THEN tb ELSE [insn |-> dc.insn, code |-> code]
  /\ num_insns' = num_insns + 1
  /\ UNCHANGED <<qvars, dc, cpuvars, run>>

-----------------------------------------------------------------------------
(* Execution of tb, one micro-operation at a time. *)

Op == tb.code[run.pc]
AtOp(name) == phase = "run" /\ run.pc \in DOMAIN tb.code /\ Op[1] = name

(* tb_find_fast has tb: run it from the start. *)
cpu_tb_exec ==
  /\ phase = "idle" /\ tb # NoBlock
  /\ phase' = "run"
  /\ run' = [NotRunning EXCEPT !.pc = 1, !.before = env]
  /\ UNCHANGED <<qvars, num_insns, dc, ops, tb, cpuvars>>

INDEX_op_qtrace_shadow_register ==
  /\ AtOp("shadow")
  /\ shadowcpu' = [shadowcpu EXCEPT ![Op[2]] = env[Op[2]]]
  /\ run' = [run EXCEPT !.pc = @ + 1]
  /\ UNCHANGED <<qvars, tvars, ops, tb, env, mem>>

(* A value is two digits in base 2; an access of size 1 sees the low one, and a
   store of size 1 leaves the high one of its target as it is. *)
Low(v, size) == IF size = 1 THEN v % 2 ELSE v
Stored(old, v, size) == IF size = 1 THEN 2 * (old \div 2) + (v % 2) ELSE v

(* The addend of the TLB entry gives the host address, and the code adds 10000. *)
Physical(a) == a + 10
HostAddress(a) == a + 20
TracedAddress(a) == HostAddress(a) + 10000

(* Size and virtual address are recorded before the TLB is compared; the rest on
   its hit path only: the slow path returns behind the recording code. *)
RecordedFields(which, trace, path) ==
  {f \in Fields : /\ \E k \in trace : ShadowField[k] = <<which, f>>
                  /\ f \in {"vaddr", "bsize"} \/ path = "hit"}

Record(which, trace, path, values) ==
  LET fields == RecordedFields(which, trace, path) IN
  [l \in Location |-> IF l[1] = which /\ l[2] \in fields THEN values[l[2]] ELSE env[l]]

tcg_out_qemu_ld(a, path) ==
  LET size == Op[4]
      v == Low(mem[a], size)
      access == [vaddr |-> a, paddr |-> Physical(a), bsize |-> size, prevalue |-> v, pstvalue |-> v] IN
  /\ AtOp("access") /\ Op[2] = "fetch"
  /\ env' = Record("fetch", Op[3], path, [access EXCEPT !.paddr = TracedAddress(a)])
  /\ run' = [run EXCEPT !.pc = @ + 1, !.access.fetch = access]
  /\ UNCHANGED <<qvars, tvars, ops, tb, shadowcpu, mem>>

(* The values are stored in store_shadow with the width of the access. *)
tcg_out_qemu_st(a, v, path) ==
  LET size == Op[4]
      access == [vaddr |-> a, paddr |-> Physical(a), bsize |-> size,
                 prevalue |-> Low(mem[a], size), pstvalue |-> Low(v, size)]
      shadow(f) == Stored(env[<<"store", f>>], access[f], size) IN
  /\ AtOp("access") /\ Op[2] = "store"
  /\ env' = Record("store", Op[3], path,
                   [access EXCEPT !.paddr = TracedAddress(a),
                                  !.prevalue = shadow("prevalue"), !.pstvalue = shadow("pstvalue")])
  /\ mem' = [mem EXCEPT ![a] = Stored(@, v, size)]
  /\ run' = [run EXCEPT !.pc = @ + 1, !.access.store = access]
  /\ UNCHANGED <<qvars, tvars, ops, tb, shadowcpu>>

(* The access faults in its slow path.  cpu_restore_state frees the contexts and
   translates the block once more, asking the plugins again. *)
cpu_restore_state_from_tb(a) ==
  /\ AtOp("access") /\ uiid + max_insns <= MaxUiid
  /\ env' = Record(Op[2], Op[3], "miss", [NoAccess EXCEPT !.vaddr = a, !.bsize = Op[4]])
  /\ qtrace_free_all_icontexts
  /\ ops' = <<>> /\ run' = NotRunning
  /\ phase' = "insn" /\ num_insns' = 0
  /\ dc' = [NewDc EXCEPT !.insn = tb.insn, !.search_pc = TRUE]
  /\ UNCHANGED <<tb, shadowcpu, mem>>

RunWork(r, v) ==
  /\ AtOp("work")
  /\ env' = [env EXCEPT ![<<"reg", r>>] = v]
  /\ run' = [run EXCEPT !.pc = @ + 1]
  /\ UNCHANGED <<qvars, tvars, ops, tb, shadowcpu, mem>>

(* The calls of one list: the contexts of the insertion point, in list order. *)
tcg_qtrace_out_instrumentation_call(list, ipoint) ==
  SelectSeq(list, LAMBDA c : c.ipoint = ipoint)

(* Bytes from the middle of two registers are no register's value. *)
ValueAt(base, offset) == IF offset \in Location THEN base[offset] ELSE -1

(* Mutant: a BEFORE context reads the CPU. *)
ReceiveCurrent(c) ==
  LET call == tcg_qtrace_instrument_call(c) IN
  [context |-> c, left |-> call.left,
   args |-> [i \in DOMAIN call.params |-> ValueAt(env, call.params[i])]]

(* Mutant: the operation is stepped over twice. *)
InstrumentationSkipping ==
  /\ AtOp("instrument")
  /\ run' = [run EXCEPT !.pc = @ + 2]
  /\ UNCHANGED <<qvars, tvars, ops, tb, cpuvars>>

(* A BEFORE context reads the shadow CPU, whatever the argument is. *)
Receive(c) ==
  LET call == tcg_qtrace_instrument_call(c)
      base == IF c.ipoint = "BEFORE" THEN shadowcpu ELSE env IN
  [context |-> c, left |-> call.left,
   args |-> [i \in DOMAIN call.params |-> ValueAt(base, call.params[i])]]

INDEX_op_qtrace_instrumentation ==
  /\ AtOp("instrument")
  /\ LET calls == tcg_qtrace_out_instrumentation_call(Op[3], "BEFORE")
                    \o tcg_qtrace_out_instrumentation_call(Op[3], "AFTER") IN
     run' = [run EXCEPT !.pc = @ + 1, !.got = @ \o [i \in DOMAIN calls |-> Receive(calls[i])]]
  /\ UNCHANGED <<qvars, tvars, ops, tb, cpuvars>>

EndBlock ==
  /\ phase = "run" /\ run.pc = Len(tb.code) + 1
  /\ phase' = "idle"
  /\ run' = NotRunning
  /\ UNCHANGED <<qvars, num_insns, dc, ops, tb, cpuvars>>

(* Other blocks, translated before, change registers and the process. *)
OtherBlock(l, v) ==
  /\ phase = "idle" /\ l[1] \in {"reg", "cr"}
  /\ env' = [env EXCEPT ![l] = v]
  /\ UNCHANGED <<qvars, tvars, ops, tb, shadowcpu, mem, run>>

Translate ==
  \/ cpu_gen_code \/ EmitWork \/ FetchFault \/ QTRACE_MATERIALIZE_INSTRUCTION_INSTRUMENT
  \/ \E i \in Insns : StartInsn(i)
  \/ \E size \in Sizes : EmitAccess(size)
  \/ Disas("client") /\ \E r \in AskLists(Shapes[dc.insn].flags) : QTRACE_CLIENT_MODULE(r)

Execute ==
  \/ cpu_tb_exec \/ INDEX_op_qtrace_shadow_register
  \/ INDEX_op_qtrace_instrumentation \/ EndBlock
  \/ \E a \in Addrs, path \in Paths : tcg_out_qemu_ld(a, path)
  \/ \E a \in Addrs, v \in Values, path \in Paths : tcg_out_qemu_st(a, v, path)
  \/ \E a \in Addrs : cpu_restore_state_from_tb(a)
  \/ \E r \in Registers, v \in Values : RunWork(r, v)
  \/ \E l \in Location, v \in Values : OtherBlock(l, v)

Next == Translate \/ Execute

Spec == Init /\ [][Next]_vars

-----------------------------------------------------------------------------
(* Properties. *)

(* The state has its type: roots are lists, the CPU has a value at each offset. *)
TypeOK ==
  /\ uiid \in Nat /\ last_uiid \in Nat /\ rootcount \in Nat
  /\ phase \in {"idle", "insn", "disas", "run"} /\ num_insns \in Nat
  /\ dc.insn \in Insns \cup {"none"} /\ dc.instrument_memory \subseteq MemKinds
  /\ DOMAIN rootarray = 1..MAX_ICONTEXT_ROOT
  /\ env \in [Location -> Int] /\ shadowcpu \in [Location -> Int]
  /\ mem \in [Addrs -> Nat] /\ run.pc \in 0..Len(tb.code) + 1

(* Whenever qtrace_instrument_parser finds that its instruction already has a root
   (last_uiid == uiid), rootarray[CURRENT_ROOT] is one that was allocated since the
   contexts were last freed; and the assertion of qtrace_allocate_icontext_root
   holds.  Faults that leave the translator early and restores that free the
   contexts in mid-execution come between. *)
RootValid ==
  /\ phase = "disas" /\ last_uiid = uiid => rootcount > 0
  /\ rootcount < MAX_ICONTEXT_ROOT

(* Contexts that rootcount no longer covers were freed: no list is overwritten by
   the `rootarray[rootcount++] = 0` of a later instruction while it is allocated. *)
NoLeak == \A i \in DOMAIN rootarray : i > rootcount => rootarray[i] = <<>>

(* The operation QTRACE_MATERIALIZE_INSTRUCTION_INSTRUMENT emits for an instruction
   carries contexts that were asked for that instruction, and none that an earlier
   instruction left behind in rootarray. *)
OwnContexts ==
  \A code \in {ops, tb.code} : \A i \in DOMAIN code : code[i][1] = "instrument" =>
    \A j \in DOMAIN code[i][3] : code[i][3][j].of = code[i][2]

(* What a request asks for: its argument kinds in order. *)
ArgPositions(request) ==
  LET asks(i) == request[i][1] = "kind" /\ request[i][2] \notin {"BEFORE", "AFTER", "IFUN", "END"} IN
  SelectSeq([i \in DOMAIN request |-> i], asks)

(* The value the i-th token of a request stands for: a register or the process at
   the insertion point, or the instruction's own access. *)
Wanted(c, i) ==
  LET k == c.request[i][2]
      value == IF c.ipoint = "BEFORE" THEN "prevalue" ELSE "pstvalue"
      cpu == IF c.ipoint = "BEFORE" THEN run.before ELSE env IN
  CASE k = "REG"  -> cpu[<<"reg", c.request[i + 1][2]>>]
    [] k = "UPID" -> cpu[CR3]
    [] k = "FETCH_VALUE" -> run.access.fetch[value]
    [] k = "STORE_VALUE" -> run.access.store[value]
    [] OTHER      -> run.access[ShadowField[k][1]][ShadowField[k][2]]

(* An instrumentation function receives one argument for each kind its request
   names, in that order, with the value that kind has for this execution of the
   instruction: registers as they were before it for BEFORE and as they are after
   it for AFTER, addresses, sizes and values of its own access. *)
ArgsAsRequested ==
  \A i \in DOMAIN run.got :
    LET c == run.got[i].context
        positions == ArgPositions(c.request) IN
    run.got[i].args = [j \in DOMAIN positions |-> Wanted(c, positions[j])]

=============================================================================
