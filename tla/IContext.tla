------------------------------ MODULE IContext ------------------------------
(***************************************************************************)
(* Instrumentation contexts as data: what the argument parser of qtrace.c  *)
(* builds from a plugin's request, what the x86 front end makes of it      *)
(* before it emits an instruction, and which call the x86-64 back end      *)
(* emits for it.                                                           *)
(*                                                                         *)
(* A request is the variable argument list of qtrace_instrument_parser: a  *)
(* sequence of pairs <<"kind", k>>, <<"fun", f>> (the operand of IFUN) and *)
(* <<"num", r>> (the operand of REG, a register number).  An entry of      *)
(* iargs[] is one of these pairs or a Location, that is, an offset into    *)
(* CPUX86State: the code keeps kinds, numbers and offsets in the same      *)
(* unsigned cells, and tells them apart by position only.                  *)
(***************************************************************************)
EXTENDS Integers, Sequences, FiniteSets, SequencesExt

Fields == {"vaddr", "paddr", "bsize", "prevalue", "pstvalue"}

(* Registers the front end has an offset for (R8 has the number of UPID). *)
Registers == {"EAX", "ECX", "R8"}

(* Offsets into CPUX86State that are a field of it.  Offset 0 is regs[R_EAX]. *)
Location == ({"reg"} \X Registers) \cup ({"cr"} \X {"CR3"})
            \cup ({"fetch", "store"} \X Fields)

OffsetZero == <<"reg", "EAX">>
CR3 == <<"cr", "CR3">>
Kind(k) == <<"kind", k>>
Num(r) == <<"num", r>>

(* The field of fetch_shadow or store_shadow that answers each memory kind the
   front end knows; VPMA is not among them. *)
ShadowField ==
  [FETCH_VMA   |-> <<"fetch", "vaddr">>,    STORE_VMA   |-> <<"store", "vaddr">>,
   FETCH_PMA   |-> <<"fetch", "paddr">>,    STORE_PMA   |-> <<"store", "paddr">>,
   FETCH_MSIZE |-> <<"fetch", "bsize">>,    STORE_MSIZE |-> <<"store", "bsize">>,
   FETCH_PREOP |-> <<"fetch", "prevalue">>, STORE_PREOP |-> <<"store", "prevalue">>,
   FETCH_PSTOP |-> <<"fetch", "pstvalue">>, STORE_PSTOP |-> <<"store", "pstvalue">>]

MemKinds == DOMAIN ShadowField
VpmaKinds == {"FETCH_VPMA", "STORE_VPMA"}

(* The register number of R8 is the kind QTRACE_PROCESS_UPID: 1<<3. *)
IsUpid(cell) == cell \in {Kind("UPID"), Num("R8")}
IsMem(cell) == cell[1] = "kind" /\ cell[2] \in MemKinds

-----------------------------------------------------------------------------
(* qtrace.c: the parser.  `operand` is the kind whose operand comes next. *)

NewContext == [ifun |-> "NULL", ipoint |-> "none", iargs |-> <<>>]

(* Mutant: always the value before the operation. *)
ValueKindBefore(k, ipoint) ==
  CASE k = "FETCH_VALUE" -> "FETCH_PREOP" [] k = "STORE_VALUE" -> "STORE_PREOP" [] OTHER -> k

(* FETCH_VALUE and STORE_VALUE become PREOP or PSTOP by the insertion point
   seen so far. *)
ValueKind(k, ipoint) ==
  CASE k = "FETCH_VALUE" -> IF ipoint = "BEFORE" THEN "FETCH_PREOP" ELSE "FETCH_PSTOP"
    [] k = "STORE_VALUE" -> IF ipoint = "BEFORE" THEN "STORE_PREOP" ELSE "STORE_PSTOP"
    [] OTHER -> k

(* Kinds the parser makes; a plugin that names one gets its default case. *)
OpKinds == {"FETCH_PREOP", "FETCH_PSTOP", "STORE_PREOP", "STORE_PSTOP"}

ParseKind(p, k) ==
  LET push(cells) == [p EXCEPT !.ctx.iargs = @ \o cells]
      m == ValueKind(k, p.ctx.ipoint) IN
  CASE k \in {"BEFORE", "AFTER"} -> [p EXCEPT !.ctx.ipoint = k]
    [] k = "IFUN"                -> [p EXCEPT !.operand = "IFUN"]
    [] k = "REG"                 -> [push(<<Kind("REG")>>) EXCEPT !.operand = "REG"]
    [] k = "END"                 -> [p EXCEPT !.ended = TRUE]
    [] k \notin OpKinds /\ m \in MemKinds \cup VpmaKinds -> push(<<Kind(m), OffsetZero>>)
    [] OTHER                     -> push(<<Kind(k)>>)

ParseStep(p, token) ==
  CASE p.ended            -> p
    [] p.operand = "IFUN" -> [p EXCEPT !.ctx.ifun = token[2], !.operand = "none"]
    [] p.operand = "REG"  -> [p EXCEPT !.ctx.iargs = Append(@, token), !.operand = "none"]
    [] OTHER              -> ParseKind(p, token[2])

qtrace_instrument_parser(request) ==
  FoldLeft(ParseStep, [ctx |-> NewContext, operand |-> "none", ended |-> FALSE], request).ctx

-----------------------------------------------------------------------------
(* target-i386/translate.c: the front end replaces the operand of each kind by
   an offset.  `next` says what the coming cell is to the loop. *)

(* A number without a case leaves the offset of the item before it. *)
RegisterOffset(r, offset) == IF r \in Registers THEN <<"reg", r>> ELSE offset

InterpretStep(ipoint, q, cell) ==
  LET put(c, next) == [q EXCEPT !.iargs = Append(@, c), !.next = next] IN
  CASE q.next = <<"register">> ->
         LET offset == RegisterOffset(cell[2], q.offset) IN
         [put(offset, <<"kind">>) EXCEPT
            !.offset = offset,
            !.shadows = IF ipoint = "BEFORE" THEN Append(@, offset) ELSE @]
    [] q.next[1] = "memory"    -> put(ShadowField[q.next[2]], <<"kind">>)
    [] q.next = <<"process">>  -> put(CR3, <<"kind">>)
    [] cell = Kind("REG")      -> put(cell, <<"register">>)
    [] IsMem(cell)             -> [put(cell, <<"memory", cell[2]>>) EXCEPT
                                     !.instrument_memory = @ \cup {cell[2]}]
    [] IsUpid(cell)            -> put(cell, <<"process">>)
    [] OTHER                   -> put(cell, <<"kind">>)

qtrace_interpret_instrument_requirements(ctx) ==
  LET step(q, cell) == InterpretStep(ctx.ipoint, q, cell) IN
  FoldLeft(step, [iargs |-> <<>>, next |-> <<"kind">>, offset |-> OffsetZero,
                  shadows |-> <<>>, instrument_memory |-> {}], ctx.iargs)

-----------------------------------------------------------------------------
(* tcg/i386/tcg-target.c: the call the back end emits for one context. *)

regcount == 6

(* An operand cell is an offset whatever was stored in it; registers are 8 bytes
   wide, so the numbers 0 and 8 are the offsets of the first two, and 1 is the
   offset of no field. *)
AsOffset(cell) ==
  CASE cell = Num("EAX") -> OffsetZero
    [] cell = Num("R8")  -> <<"reg", "ECX">>
    [] OTHER             -> cell

CallStep(q, cell) ==
  CASE q.operand      -> [q EXCEPT !.params = Append(@, AsOffset(cell)), !.operand = FALSE]
    [] cell = Kind("REG") -> [q EXCEPT !.operand = TRUE, !.paramcount = @ + 1]
    [] IsMem(cell)    -> [q EXCEPT !.operand = TRUE]
    [] IsUpid(cell)   -> [q EXCEPT !.params = Append(@, CR3)]
    [] OTHER          -> [q EXCEPT !.params = Append(@, OffsetZero)]


(* The offsets passed, in order, and the words the call leaves on the stack:
   pushes minus the fix-up, which counts register arguments only. *)
tcg_qtrace_instrument_call(ctx) ==
  LET q == FoldLeft(CallStep, [params |-> <<>>, operand |-> FALSE, paramcount |-> 0], ctx.iargs)
      over(n) == IF n > regcount THEN n - regcount ELSE 0 IN
  [params |-> q.params, left |-> over(Len(q.params)) - over(q.paramcount)]
=============================================================================
