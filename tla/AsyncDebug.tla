------------------------------- MODULE AsyncDebug -------------------------------
(***************************************************************************)
(* The asynchronous debug channel: qemu-adebug processes post commands in  *)
(* a shared-memory DebugChannel, and the TCG thread of QEMU serves the     *)
(* channel in qtrace_cpu_handle_cmds before every translation block.       *)
(*                                                                         *)
(* Every load or store of a channel field is one step, so the steps of the *)
(* clients interleave with the checks and with the field by field memset   *)
(* of the handler.  A name is a sequence of characters: the sequence stops *)
(* where the terminating zero is, so the zeroed buffer is << >>.           *)
(***************************************************************************)
EXTENDS Plugins

CONSTANTS
  Clients,    \* the qemu-adebug processes
  Argv,       \* Argv[c]: the arguments of process c, argv[1] onwards
  Environ,    \* the first environment string, which lies behind argv[argc]
  Folded,     \* does the build fold the load in QTRACE_WAIT_COMMAND_HANDLED?
  MaxBoots    \* bound: how often QEMU is started

Kinds == {"flushcc", "client_userd", "client_reset", "client_print",
          "client_reset_all", "client_print_all"}

(***************************************************************************)
(* The tests of handle_connection_success, the checks of the handler and   *)
(* the fields of DebugChannel, each in program order.                      *)
(***************************************************************************)
Options == <<"flushcc", "client_userd", "client_reset", "client_print",
             "client_reset_all", "client_print_all">>

Checks == <<"flushcc", "client_reset_all", "client_print_all",
            "client_userd", "client_reset", "client_print">>

Fields == <<"client_userd", "client_reset", "client_print",
            "client_reset_all", "client_print_all", "flushcc",
            "fname", "mname">>

ASSUME ClientsAssumption ==
  /\ \A c \in Clients : Argv[c] \in Seq(Seq(STRING))
  /\ Environ \in Seq(STRING)
  /\ Folded \in BOOLEAN
  /\ MaxBoots \in Nat \ {0}

VARIABLES
  shm,      \* does the segment of key SHARED_MEM_KEY exist?
  flag,     \* the command flags of the DebugChannel in it
  name,     \* the fname and mname of the DebugChannel in it
  qemu,     \* "off", "boot" or "run"
  boot,     \* number of the current QEMU process
  step,     \* TCG thread: 0 runs a block, then the checks, then the memset
  cl,       \* the local state of every client
  pend,     \* history: the posts a command flag holds since it was cleared
  cleared,  \* history: the posts that were cleared from a flag
  calls,    \* history: the commands the handler carried out
  reached   \* history: the plugin functions each of them called

chan == <<flag, name>>
chanVars == <<shm, chan, qemu, boot, step, cl, pend, cleared, calls, reached>>
vars == <<pluginVars, chanVars>>

FirstMemset == Len(Checks) + 1
LastStep == Len(Checks) + Len(Fields)

Names == {"fname", "mname"}

FreshClient == [pc |-> "start", i |-> 1, test |-> 1, valid |-> FALSE,
                conn |-> FALSE, kind |-> "flushcc", fname |-> <<>>,
                mname |-> <<>>]

Finals == {"done", "failed", "crashed"}

(***************************************************************************)
(* memcpy(dst, src, strlen(src)) copies no terminator:   what the buffer   *)
(* held beyond the copied characters remains.                              *)
(***************************************************************************)
Memcpy(dst, src) == src \o SubSeq(dst, Len(src) + 1, Len(dst))

Init ==
  /\ PluginInit
  /\ shm = FALSE
  /\ flag = [k \in Kinds |-> 0]
  /\ name = [n \in Names |-> <<>>]
  /\ qemu = "boot"
  /\ boot = 1
  /\ step = 0
  /\ cl = [c \in Clients |-> FreshClient]
  /\ pend = [k \in Kinds |-> {}]
  /\ cleared = {}
  /\ calls = <<>>
  /\ reached = <<>>

--------------------------------------------------------------------------------
(* The QEMU process: vl.c. *)

LoadModule ==
  /\ qemu = "boot"
  /\ qtrace_instrument_setup \/ OptionsDone
  /\ UNCHANGED chanVars

(***************************************************************************)
(* shmget with IPC_CREAT attaches to a segment an earlier process left     *)
(* behind, with its contents; only a new segment is zero.                  *)
(***************************************************************************)
initialize_adebug ==
  /\ qemu = "boot"
  /\ setup = "ready"
  /\ shm' = TRUE
  /\ qemu' = "run"
  /\ step' = 0
  /\ UNCHANGED <<pluginVars, chan, boot, cl, pend, cleared, calls, reached>>

(***************************************************************************)
(* adebug_free detaches and never removes the segment.  On a shutdown      *)
(* pause_all_vcpus has brought the TCG thread out of cpu_exec before.      *)
(***************************************************************************)
adebug_free ==
  /\ qemu = "run"
  /\ step = 0
  /\ boot < MaxBoots
  /\ qemu' = "off"
  /\ UNCHANGED <<pluginVars, shm, chan, boot, step, cl, pend, cleared, calls, reached>>

Kill ==
  /\ qemu = "run"
  /\ boot < MaxBoots
  /\ qemu' = "off"
  /\ UNCHANGED <<pluginVars, shm, chan, boot, step, cl, pend, cleared, calls, reached>>

Restart ==
  /\ qemu = "off"
  /\ qemu' = "boot"
  /\ boot' = boot + 1
  /\ step' = 0
  /\ opt' = 1 /\ lists' = EmptyLists /\ setup' = "parsing"
  /\ UNCHANGED <<shm, chan, cl, pend, cleared, calls, reached>>

--------------------------------------------------------------------------------
(* The TCG thread: cpu_exec and qtrace_cpu_handle_cmds. *)


(***************************************************************************)
(* The rest of one turn of the cpu_exec loop, up to the next call of the   *)
(* handler.                                                                *)
(***************************************************************************)
ExecuteBlock ==
  /\ qemu = "run"
  /\ step = 0
  /\ step' = 1
  /\ UNCHANGED <<pluginVars, shm, chan, qemu, boot, cl, pend, cleared, calls, reached>>

(***************************************************************************)
(* The functions a command calls; a flush calls none.                      *)
(***************************************************************************)
Targets(k) ==
  CASE k = "flushcc" -> <<>>
    [] k = "client_reset_all" -> qtrace_invoke_client_from_list(
         AnyModule, ResetStatsNameString, lists["resetstats"])
    [] k = "client_print_all" -> qtrace_invoke_client_from_list(
         AnyModule, PrintStatsNameString, lists["printstats"])
    [] k = "client_userd" -> qtrace_invoke_client_from_list(
         name.mname, name.fname, lists["userdefine"])
    [] k = "client_reset" -> qtrace_invoke_client_from_list(
         name.mname, ResetStatsNameString, lists["resetstats"])
    [] k = "client_print" -> qtrace_invoke_client_from_list(
         name.mname, PrintStatsNameString, lists["printstats"])

CheckFlag ==
  LET k == Checks[step] IN
  /\ qemu = "run"
  /\ step \in 1..Len(Checks)
  /\ step' = step + 1
  /\ IF flag[k] = 0 THEN UNCHANGED <<calls, reached>>
     ELSE /\ calls' = Append(calls, [kind |-> k, boot |-> boot, ids |-> pend[k]])
          /\ reached' = Append(reached, Targets(k))
  /\ UNCHANGED <<pluginVars, shm, chan, qemu, boot, cl, pend, cleared>>

(* Seeded mistakes: a memset that spares some flags, one that never ends. *)
MemsetSparing(kept) ==
  LET f == Fields[step - Len(Checks)] IN
  /\ qemu = "run"
  /\ step \in FirstMemset..LastStep
  /\ step' = IF step = LastStep THEN 0 ELSE step + 1
  /\ IF f \in Kinds \ kept
     THEN /\ flag' = [flag EXCEPT ![f] = 0]
          /\ pend' = [pend EXCEPT ![f] = {}]
          /\ cleared' = cleared \cup pend[f]
     ELSE UNCHANGED <<flag, pend, cleared>>
  /\ name' = IF f \in Names THEN [name EXCEPT ![f] = <<>>] ELSE name
  /\ UNCHANGED <<pluginVars, shm, qemu, boot, cl, calls, reached>>

MemsetKeepsFlush == MemsetSparing({"flushcc"})

MemsetKeepsReset == MemsetSparing({"client_reset"})

MemsetRunsOn ==
  /\ qemu = "run"
  /\ step \in FirstMemset..LastStep
  /\ step' = step + 1
  /\ UNCHANGED <<pluginVars, shm, chan, qemu, boot, cl, pend, cleared, calls, reached>>

(***************************************************************************)
(* One field of memset(channel, 0, sizeof(DebugChannel)).                  *)
(***************************************************************************)
MemsetField ==
  LET f == Fields[step - Len(Checks)] IN
  /\ qemu = "run"
  /\ step \in FirstMemset..LastStep
  /\ step' = IF step = LastStep THEN 0 ELSE step + 1
  /\ IF f \in Kinds
     THEN /\ flag' = [flag EXCEPT ![f] = 0]
          /\ pend' = [pend EXCEPT ![f] = {}]
          /\ cleared' = cleared \cup pend[f]
          /\ UNCHANGED name
     ELSE /\ name' = [name EXCEPT ![f] = <<>>]
          /\ UNCHANGED <<flag, pend, cleared>>
  /\ UNCHANGED <<pluginVars, shm, qemu, boot, cl, calls, reached>>

--------------------------------------------------------------------------------
(* A qemu-adebug process: qemu-adebug.c. *)

Move(c, upd) == cl' = [cl EXCEPT ![c] = upd]

(* A process that is only asked for help prints it and does not connect. *)
AsksHelp(c) == Argv[c] \in {<<<<"-h">>>>, <<<<"--help">>>>}

Help(c) ==
  /\ cl[c].pc = "start"
  /\ AsksHelp(c)
  /\ Move(c, [cl[c] EXCEPT !.pc = "done"])
  /\ UNCHANGED <<pluginVars, shm, chan, qemu, boot, step, pend, cleared, calls, reached>>

(***************************************************************************)
(* shmat answers (void * ) -1 when the segment does not exist.  That is    *)
(* not NULL, so main goes on to handle_connection_success either way.      *)
(***************************************************************************)
Connect(c) ==
  /\ cl[c].pc = "start"
  /\ ~AsksHelp(c)
  /\ Move(c, [cl[c] EXCEPT !.pc = "parse", !.conn = shm])
  /\ UNCHANGED <<pluginVars, shm, chan, qemu, boot, step, pend, cleared, calls, reached>>

(* argv[argc] is NULL, from which nothing is copied. *)
ArgAt(c, j) == IF j <= Len(Argv[c]) THEN Argv[c][j]
               ELSE IF j = Len(Argv[c]) + 1 THEN <<>> ELSE Environ

(***************************************************************************)
(* The names a command takes from argv.  The two argv[++i] of the call for *)
(* --client-userd are unsequenced: compilers evaluate them in either       *)
(* order, or increment twice before they load.                             *)
(***************************************************************************)
CommandArgs(c, k) ==
  LET i == cl[c].i IN
  CASE k = "client_userd" ->
         {[used |-> 2, fname |-> ArgAt(c, i + p[1]), mname |-> ArgAt(c, i + p[2])] :
            p \in {<<1, 2>>, <<2, 1>>, <<2, 2>>}}
    [] k \in {"client_reset", "client_print"} ->
         {[used |-> 1, fname |-> <<>>, mname |-> ArgAt(c, i + 1)]}
    [] OTHER -> {[used |-> 0, fname |-> <<>>, mname |-> <<>>]}

(***************************************************************************)
(* The remaining tests of this turn that argv[i] passes.  A test that      *)
(* succeeds moves i, and the tests behind it look at the new argv[i].      *)
(***************************************************************************)
Matching(c) == {t \in cl[c].test..Len(Options) :
                  cl[c].i <= Len(Argv[c]) /\ Argv[c][cl[c].i] = <<Options[t]>>}

Parsing(c) == cl[c].pc = "parse"

InTurn(c) == Parsing(c) /\ (cl[c].i <= Len(Argv[c]) \/ cl[c].test > 1)

(***************************************************************************)
(* strcmp(argv[i], ...) with argv[i] = NULL, behind the last argument.  The *)
(* environment string behind that is no option.                            *)
(***************************************************************************)
NullArgument(c) == cl[c].i = Len(Argv[c]) + 1 /\ cl[c].test <= Len(Options)

Recognise(c) ==
  /\ InTurn(c)
  /\ \E t \in Matching(c) :
       /\ \A u \in Matching(c) : t <= u
       /\ \E a \in CommandArgs(c, Options[t]) :
            Move(c, [cl[c] EXCEPT !.pc = "fname", !.test = t + 1,
                                  !.i = cl[c].i + a.used, !.kind = Options[t],
                                  !.fname = a.fname, !.mname = a.mname])
  /\ UNCHANGED <<pluginVars, shm, chan, qemu, boot, step, pend, cleared, calls, reached>>

(***************************************************************************)
(* The end of a turn of the argument loop: an argument no test knew ends   *)
(* the process with an error.                                              *)
(***************************************************************************)
EndTurn(c) ==
  /\ InTurn(c)
  /\ Matching(c) = {}
  /\ Move(c, IF NullArgument(c) THEN [cl[c] EXCEPT !.pc = "crashed"]
             ELSE IF cl[c].valid
             THEN [cl[c] EXCEPT !.i = @ + 1, !.test = 1, !.valid = FALSE]
             ELSE [cl[c] EXCEPT !.pc = "failed"])
  /\ UNCHANGED <<pluginVars, shm, chan, qemu, boot, step, pend, cleared, calls, reached>>

Disconnect(c) ==
  /\ Parsing(c) /\ ~InTurn(c)
  /\ Move(c, [cl[c] EXCEPT !.pc = "done"])
  /\ UNCHANGED <<pluginVars, shm, chan, qemu, boot, step, pend, cleared, calls, reached>>

(***************************************************************************)
(* The first store through the pointer shmat returned in error faults.     *)
(***************************************************************************)
Fault(c) ==
  /\ cl[c].pc = "fname"
  /\ ~cl[c].conn
  /\ Move(c, [cl[c] EXCEPT !.pc = "crashed"])
  /\ UNCHANGED <<pluginVars, shm, chan, qemu, boot, step, pend, cleared, calls, reached>>

CopyFname(c) ==
  /\ cl[c].pc = "fname"
  /\ cl[c].conn
  /\ name' = [name EXCEPT !.fname = Memcpy(@, cl[c].fname)]
  /\ Move(c, [cl[c] EXCEPT !.pc = "mname"])
  /\ UNCHANGED <<pluginVars, shm, flag, qemu, boot, step, pend, cleared, calls, reached>>

CopyMname(c) ==
  /\ cl[c].pc = "mname"
  /\ name' = [name EXCEPT !.mname = Memcpy(@, cl[c].mname)]
  /\ Move(c, [cl[c] EXCEPT !.pc = "flag"])
  /\ UNCHANGED <<pluginVars, shm, flag, qemu, boot, step, pend, cleared, calls, reached>>

(* A post: client, place in argv and command. *)
Id(c) == <<c, cl[c].i, cl[c].kind>>

SetFlag(c) ==
  /\ cl[c].pc = "flag"
  /\ flag' = [flag EXCEPT ![cl[c].kind] = 1]
  /\ pend' = [pend EXCEPT ![cl[c].kind] = @ \cup {Id(c)}]
  /\ Move(c, [cl[c] EXCEPT !.pc = "wait"])
  /\ UNCHANGED <<pluginVars, shm, name, qemu, boot, step, cleared, calls, reached>>

(* Seeded mistake: a build that keeps the load. *)
WaitUnfolded(c) ==
  /\ cl[c].pc = "wait"
  /\ flag[cl[c].kind] # 0
  /\ Move(c, [cl[c] EXCEPT !.pc = "parse", !.valid = TRUE])
  /\ UNCHANGED <<pluginVars, shm, chan, qemu, boot, step, pend, cleared, calls, reached>>

(***************************************************************************)
(* QTRACE_WAIT_COMMAND_HANDLED: while(!X); just behind X = 1, on a field   *)
(* that is not volatile.  A build that folds the load never loops; one     *)
(* that keeps it leaves the loop when it reads a set flag.                 *)
(***************************************************************************)
WaitCommandHandled(c) ==
  /\ cl[c].pc = "wait"
  /\ Folded \/ flag[cl[c].kind] # 0
  /\ Move(c, [cl[c] EXCEPT !.pc = "parse", !.valid = TRUE])
  /\ UNCHANGED <<pluginVars, shm, chan, qemu, boot, step, pend, cleared, calls, reached>>

--------------------------------------------------------------------------------
Client(c) == \/ Help(c) \/ Connect(c) \/ Recognise(c) \/ EndTurn(c)
             \/ Disconnect(c) \/ Fault(c) \/ CopyFname(c) \/ CopyMname(c)
             \/ SetFlag(c) \/ WaitCommandHandled(c)

Handler == CheckFlag \/ MemsetField

TCGThread == ExecuteBlock \/ Handler

Boot == LoadModule \/ initialize_adebug \/ Restart

Next ==
  \/ Boot
  \/ adebug_free
  \/ TCGThread
  \/ \E c \in Clients : Client(c)

Spec == Init /\ [][Next]_vars

(***************************************************************************)
(* The operating system schedules every process, the vCPU thread runs      *)
(* whenever the machine is running, and a stopped QEMU is started again.   *)
(* Nothing obliges a running QEMU to shut down.                            *)
(***************************************************************************)
Fairness ==
  /\ WF_vars(Boot)
  /\ WF_vars(TCGThread)
  /\ \A c \in Clients : WF_vars(Client(c))

FairSpec == Spec /\ Fairness

(***************************************************************************)
(* The same, when a QEMU process may also be killed in the middle of the   *)
(* handler.                                                                *)
(***************************************************************************)
KillSpec == Init /\ [][Next \/ Kill]_vars

--------------------------------------------------------------------------------
Ids == Clients \X Nat \X Kinds

Calls == [kind : Kinds, boot : Nat, ids : SUBSET Ids]

PCs == {"start", "parse", "fname", "mname", "flag", "wait"} \cup Finals

ClientStates ==
  [pc : PCs, i : Nat, test : Nat, valid : BOOLEAN, conn : BOOLEAN, kind : Kinds,
   fname : Seq(STRING), mname : Seq(STRING)]

TypeOK ==
  /\ shm \in BOOLEAN
  /\ flag \in [Kinds -> {0, 1}]
  /\ name \in [Names -> Seq(STRING)]
  /\ qemu \in {"off", "boot", "run"}
  /\ boot \in Nat
  /\ step \in 0..LastStep
  /\ cl \in [Clients -> ClientStates]
  /\ pend \in [Kinds -> SUBSET Ids]
  /\ cleared \subseteq Ids
  /\ calls \in Seq(Calls)

(***************************************************************************)
(* A command is carried out only for a client that set its flag, and no    *)
(* post of a client is carried out twice by one QEMU process: the memset   *)
(* of qtrace_cpu_handle_cmds withdraws what was carried out before the     *)
(* checks come round again.                                                *)
(***************************************************************************)
OncePerBoot ==
  \A a \in DOMAIN calls :
    /\ calls[a].ids # {}
    /\ \A b \in DOMAIN calls :
         a # b /\ calls[a].boot = calls[b].boot
           => calls[a].ids \cap calls[b].ids = {}

(***************************************************************************)
(* When QEMU only ever leaves by an orderly shutdown, a post is carried    *)
(* out at most once over all restarts, although the segment that holds it  *)
(* outlives the process (adebug_free only detaches).                       *)
(***************************************************************************)
AtMostOnce ==
  \A a, b \in DOMAIN calls : a # b => calls[a].ids \cap calls[b].ids = {}

(***************************************************************************)
(* The argv words of a post name the entry: function and module for        *)
(* --client-userd, the module for --client-reset and --client-print.       *)
(***************************************************************************)
Requests(id, e) ==
  LET c == id[1]
      i == id[2]
  IN  CASE id[3] = "client_userd" -> ArgAt(c, i - 1) = e.fname /\ ArgAt(c, i) = e.mname
        [] id[3] \in {"client_reset", "client_print"} -> ArgAt(c, i) = e.mname
        [] OTHER -> TRUE


(***************************************************************************)
(* Every qemu-adebug process ends, whatever the handler does to the        *)
(* channel meanwhile.                                                      *)
(***************************************************************************)
ClientsFinish == \A c \in Clients : <>(cl[c].pc \in Finals)


--------------------------------------------------------------------------------
(* What the names, comments and messages of the tool promise. *)

CarriedOut(id) == \E a \in DOMAIN calls : id \in calls[a].ids

(***************************************************************************)
(* qemu-adebug's help text: every option says what QEMU does for it, so a  *)
(* posted command is carried out before the channel is reset.              *)
(***************************************************************************)
NoCommandLost == \A id \in cleared : CarriedOut(id)

(***************************************************************************)
(* QTRACE_WAIT_COMMAND_HANDLED: a client that is past the wait of its last *)
(* command knows that this command was carried out.                        *)
(***************************************************************************)
WaitedForHandling ==
  \A c \in Clients : cl[c].valid /\ Parsing(c) => CarriedOut(Id(c))

(***************************************************************************)
(* QTRACE_WAIT_COMMAND_HANDLED: a client whose command was handled, and    *)
(* the channel reset, stops waiting.                                       *)
(***************************************************************************)
HandledReleases ==
  \A c \in Clients : cl[c].pc = "wait" /\ Id(c) \in cleared ~> cl[c].pc # "wait"

(***************************************************************************)
(* handle_connection_error: a client that found no segment reports that it *)
(* is unable to connect, and exits.                                        *)
(***************************************************************************)
UnconnectedReports ==
  \A c \in Clients : cl[c].pc = "crashed" => cl[c].conn
================================================================================
