---------------------------- MODULE MCInstrument ----------------------------
(* Requests for the runs of Instrument. *)
EXTENDS Instrument

Ask(ipoint, args) == <<Kind(ipoint), Kind("IFUN"), <<"fun", "f">>>> \o args

Reg(r) == <<Kind("REG"), Num(r)>>

(* Arguments every path answers. *)
SteadyAsks ==
  {Ask("AFTER", <<Kind("FETCH_VMA"), Kind("FETCH_MSIZE")>>),
   Ask("AFTER", <<Kind("STORE_VMA"), Kind("STORE_MSIZE"), Kind("END")>>),
   Ask("BEFORE", Reg("EAX") \o Reg("ECX")),
   Ask("AFTER", Reg("ECX") \o <<Kind("UPID")>>)}

(* Seven registers: one argument on the stack. *)
ManyRegs == Reg("EAX") \o Reg("ECX") \o Reg("R8") \o Reg("EAX") \o Reg("ECX") \o Reg("R8") \o Reg("ECX")

(* Values, right when the access hits the TLB, and many registers. *)
ValueAsks ==
  {Ask("AFTER", <<Kind("FETCH_VALUE"), Kind("FETCH_VMA")>>),
   Ask("AFTER", <<Kind("STORE_VALUE"), Kind("STORE_VMA")>>),
   Ask("AFTER", ManyRegs)}

(* Six registers in host registers, and a memory argument on the stack. *)
StackAsks == {Ask("AFTER", SubSeq(ManyRegs, 1, 12) \o <<Kind("FETCH_VMA")>>)}

(* The example of qtrace-common.h. *)
ExampleAsks == {Ask("BEFORE", <<Kind("FETCH_VMA"), Kind("FETCH_MSIZE")>>)}

ListAsks == {Ask("AFTER", Reg("ECX")), Ask("AFTER", <<Kind("FETCH_VMA")>>), Ask("BEFORE", Reg("R8"))}

ProcessFirstAsks == {Ask("AFTER", <<Kind("UPID")>> \o Reg("R8"))}
ProcessBeforeAsks == {Ask("BEFORE", <<Kind("UPID")>>)}
PhysicalAsks == {Ask("AFTER", <<Kind("FETCH_PMA")>>)}
=============================================================================
