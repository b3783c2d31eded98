----------------------------- MODULE MCAsyncDebug -----------------------------
(***************************************************************************)
(* Small instances of AsyncDebug for TLC.                                  *)
(***************************************************************************)
EXTENDS AsyncDebug

(* Two plugins; the name of the first is a prefix of the name of the second. *)
ModA == <<"m">>
ModB == <<"m", "x">>
FnF == <<"f">>
FnG == <<"g">>

Plugin(m, f) ==
  [name |-> m, loads |-> TRUE, finit |-> TRUE,
   instruction |-> <<>>, ibasicblock |-> <<>>,
   userdefine |-> <<[rtn |-> f, fname |-> f]>>,
   resetstats |-> <<[rtn |-> <<"r">>, fname |-> <<"r">>]>>,
   printstats |-> <<[rtn |-> IF f = FnF THEN NULL ELSE f, fname |-> <<"p">>],
                    [rtn |-> <<"q">>, fname |-> <<"q">>]>>]

TwoPlugins == <<Plugin(ModA, FnF), Plugin(ModB, FnG)>>

Opt(k) == <<k>>

(* Two processes that compete for the channel. *)
TwoProcesses ==
  [c \in Clients |->
     IF c = "c1" THEN <<Opt("client_userd"), FnF, ModA>>
     ELSE <<Opt("client_print"), ModB, Opt("flushcc")>>]

(* One process with all the commands, only one of which has names. *)
OneNamed ==
  [c \in Clients |-> <<Opt("client_reset"), ModB, Opt("client_reset_all"),
                       Opt("client_print_all"), Opt("flushcc")>>]

(***************************************************************************)
(* A module name that is itself an option, an argument no test knows, a    *)
(* missing pair of names and a request for help.                           *)
(***************************************************************************)
OddArguments ==
  [c \in Clients |->
     CASE c = "c1" -> <<Opt("client_reset"), Opt("client_print")>>
       [] c = "c2" -> <<Opt("flushcc"), ModA>>
       [] c = "c3" -> <<Opt("client_userd")>>
       [] OTHER -> <<Opt("-h")>>]

FirstVariable == <<"e">>

OneFlush == [c \in Clients |-> <<Opt("flushcc")>>]

(* Two commands of one process, each with the name of a plugin. *)
TwoNamed ==
  [c \in Clients |-> <<Opt("client_reset"), ModA, Opt("client_print"), ModB>>]
================================================================================
