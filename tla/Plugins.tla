-------------------------------- MODULE Plugins --------------------------------
(***************************************************************************)
(* The plugin registry of qtrace.c.  Every -instrument option of the       *)
(* command line makes vl.c call qtrace_instrument_setup, which loads one   *)
(* shared object and appends its callbacks to five singly linked lists.    *)
(* A list is a sequence here, a callback function a model value, and NULL  *)
(* is the function pointer 0.                                              *)
(***************************************************************************)
EXTENDS Naturals, Sequences

CONSTANTS
  Modules,    \* the -instrument options, in command-line order
  NULL        \* the null function pointer

(***************************************************************************)
(* What a shared object exports: whether dlopen finds it, its callback     *)
(* arrays and whether it defines InitializeInstructionInstrument.          *)
(***************************************************************************)
ListNames == {"instruction", "ibasicblock", "userdefine",
              "resetstats", "printstats"}

ASSUME ModulesAssumption ==
  \A i \in DOMAIN Modules :
    /\ {"name", "loads", "finit"} \cup ListNames \subseteq DOMAIN Modules[i]
    /\ \A l \in ListNames : \A j \in DOMAIN Modules[i][l] :
         {"rtn", "fname"} \subseteq DOMAIN Modules[i][l][j]

ResetStatsNameString == <<"ResetStats">>
PrintStatsNameString == <<"PrintStats">>

VARIABLES
  opt,      \* the next -instrument option to be processed
  lists,    \* the five GenericRtnContainer lists
  setup     \* "parsing", "ready", or how the start-up ended

pluginVars == <<opt, lists, setup>>

EmptyLists == [l \in ListNames |-> <<>>]

add_function_to_list(rtn, mname, fname, list) ==
  IF rtn = NULL THEN list
  ELSE Append(list, [rtn |-> rtn, mname |-> mname, fname |-> fname])

(***************************************************************************)
(* Register the entries of one callback array, in array order.             *)
(***************************************************************************)
register_all(cbs, mname, list) ==
  LET reg[n \in 0..Len(cbs)] ==
        IF n = 0 THEN list
        ELSE add_function_to_list(cbs[n].rtn, mname, cbs[n].fname, reg[n - 1])
  IN  reg[Len(cbs)]

(***************************************************************************)
(* Only entry 0 of a statistics array is registered, under a fixed name.   *)
(***************************************************************************)
register_stats(cbs, mname, fname, list) ==
  IF cbs = <<>> THEN list
  ELSE add_function_to_list(cbs[1].rtn, mname, fname, list)

registered(m) ==
  [l \in ListNames |->
     CASE l = "resetstats" ->
            register_stats(m[l], m.name, ResetStatsNameString, lists[l])
       [] l = "printstats" ->
            register_stats(m[l], m.name, PrintStatsNameString, lists[l])
       [] OTHER -> register_all(m[l], m.name, lists[l])]

(***************************************************************************)
(* The functions a request reaches: every entry with the requested         *)
(* function name and, unless the module name is NULL, module name.         *)
(***************************************************************************)
AnyModule == <<"NULL module name">>


qtrace_invoke_client_from_list(mn, fn, list) ==
  SelectSeq(list, LAMBDA e : e.fname = fn /\ (mn = AnyModule \/ mn = e.mname))

PluginInit ==
  /\ opt = 1
  /\ lists = EmptyLists
  /\ setup = "parsing"

(***************************************************************************)
(* qtrace_instrument_setup for the next option.  A module that cannot be   *)
(* loaded ends the process; one without an initializer fails the assertion *)
(* that follows the registrations.                                         *)
(***************************************************************************)
qtrace_instrument_setup ==
  LET m == Modules[opt] IN
  /\ setup = "parsing"
  /\ opt <= Len(Modules)
  /\ opt' = opt + 1
  /\ IF ~m.loads
     THEN setup' = "exited" /\ UNCHANGED lists
     ELSE /\ lists' = registered(m)
          /\ setup' = IF m.finit THEN "parsing" ELSE "aborted"

OptionsDone ==
  /\ setup = "parsing"
  /\ opt > Len(Modules)
  /\ setup' = "ready"
  /\ UNCHANGED <<opt, lists>>
================================================================================
