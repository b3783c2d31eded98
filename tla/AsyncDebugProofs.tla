--------------------------- MODULE AsyncDebugProofs ---------------------------
(***************************************************************************)
(* Proofs about the debug channel, for any number of clients, any command  *)
(* lines, any plugins and any number of restarts.                          *)
(***************************************************************************)
EXTENDS AsyncDebug, TLAPS

(***************************************************************************)
(* Where the handler checks a flag, where the memset clears it and which   *)
(* test of the argument loop recognises the option.                        *)
(***************************************************************************)
CheckPos == [k \in Kinds |->
  CASE k = "flushcc" -> 1 [] k = "client_reset_all" -> 2
    [] k = "client_print_all" -> 3 [] k = "client_userd" -> 4
    [] k = "client_reset" -> 5 [] OTHER -> 6]

ClearPos == [k \in Kinds |->
  CASE k = "client_userd" -> 7 [] k = "client_reset" -> 8
    [] k = "client_print" -> 9 [] k = "client_reset_all" -> 10
    [] k = "client_print_all" -> 11 [] OTHER -> 12]

OptionPos == [k \in Kinds |->
  CASE k = "flushcc" -> 1 [] k = "client_userd" -> 2
    [] k = "client_reset" -> 3 [] k = "client_print" -> 4
    [] k = "client_reset_all" -> 5 [] OTHER -> 6]

(* The lengths of the three tables. *)
LEMMA Lengths ==
  /\ Len(Checks) = 6 /\ Len(Fields) = 8 /\ Len(Options) = 6
  /\ FirstMemset = 7 /\ LastStep = 14
BY DEF Checks, Fields, Options, FirstMemset, LastStep

(* Every check of the handler is of a flag, and of one flag only. *)
LEMMA ChecksFact ==
  \A s \in 1..6 : Checks[s] \in Kinds /\ CheckPos[Checks[s]] = s
<1> SUFFICES ASSUME NEW s \in 1..6
             PROVE  Checks[s] \in Kinds /\ CheckPos[Checks[s]] = s
  OBVIOUS
<1>1. s = 1 \/ s = 2 \/ s = 3 \/ s = 4 \/ s = 5 \/ s = 6
  OBVIOUS
<1> QED BY <1>1 DEF Checks, Kinds, CheckPos

(* The memset clears six flags and then the two names. *)
LEMMA FieldsFact ==
  \A s \in 7..14 :
    LET f == Fields[s - 6] IN
    \/ f \in Kinds /\ ClearPos[f] = s
    \/ f \in Names /\ f \notin Kinds /\ s > 12
<1> SUFFICES ASSUME NEW s \in 7..14
             PROVE  \/ Fields[s - 6] \in Kinds /\ ClearPos[Fields[s - 6]] = s
                    \/ Fields[s - 6] \in Names /\ Fields[s - 6] \notin Kinds /\ s > 12
  OBVIOUS
<1>1. \/ s = 7 \/ s = 8 \/ s = 9 \/ s = 10 \/ s = 11 \/ s = 12
      \/ s = 13 \/ s = 14
  OBVIOUS
<1> QED BY <1>1 DEF Fields, Kinds, ClearPos, Names

(* No two flags are cleared by the same step of the memset. *)
LEMMA ClearPosInjective ==
  \A j, k \in Kinds : ClearPos[j] = ClearPos[k] => j = k
BY DEF Kinds, ClearPos

(* Every test of the argument loop is for one command. *)
LEMMA OptionsFact ==
  \A t \in 1..6 : Options[t] \in Kinds /\ OptionPos[Options[t]] = t
<1> SUFFICES ASSUME NEW t \in 1..6
             PROVE  Options[t] \in Kinds /\ OptionPos[Options[t]] = t
  OBVIOUS
<1>1. t = 1 \/ t = 2 \/ t = 3 \/ t = 4 \/ t = 5 \/ t = 6
  OBVIOUS
<1> QED BY <1>1 DEF Options, Kinds, OptionPos

(* All the checks come before all the clears. *)
LEMMA PosTypes ==
  \A k \in Kinds : /\ CheckPos[k] \in 1..6
                   /\ ClearPos[k] \in 7..12
                   /\ OptionPos[k] \in 1..6
BY DEF Kinds, CheckPos, ClearPos, OptionPos

--------------------------------------------------------------------------------
(***************************************************************************)
(* The inductive invariant.                                                *)
(***************************************************************************)
NextK == Next \/ Kill

Posting(c) == cl[c].pc \in {"fname", "mname", "flag"}

(* The client loop is past the test that recognised the command. *)
ClientInv ==
  \A c \in Clients :
    /\ cl[c].test \in 1..7
    /\ Posting(c) \/ cl[c].pc = "wait" => cl[c].test = OptionPos[cl[c].kind] + 1

(* Client id[1] has set the flag for id, and can never do so again. *)
Posted(id) ==
  LET c == id[1] IN
  \/ id[2] < cl[c].i
  \/ /\ id[2] = cl[c].i
     /\ OptionPos[id[3]] < cl[c].test
     /\ Posting(c) => id[3] # cl[c].kind

FlagInv ==
  \A k \in Kinds : /\ flag[k] = 1 => pend[k] # {}
                   /\ \A id \in pend[k] : id[3] = k /\ Posted(id)

CallInv ==
  \A a \in DOMAIN calls :
    /\ calls[a].ids # {}
    /\ calls[a].boot <= boot
    /\ \A id \in calls[a].ids : id[3] = calls[a].kind /\ Posted(id)

(* What was carried out may sit in its flag only between check and clear. *)
ServedInv ==
  \A a \in DOMAIN calls : \A id \in calls[a].ids :
    calls[a].boot = boot /\ id \in pend[id[3]]
      => CheckPos[id[3]] < step /\ step <= ClearPos[id[3]]

(* A QEMU process enters the handler only after it has attached. *)
BootInv == qemu = "boot" => step = 0

IInv == /\ TypeOK /\ ClientInv /\ FlagInv /\ CallInv /\ ServedInv /\ BootInv
        /\ OncePerBoot

USE ClientsAssumption

(* A word of argv, or what lies behind it, is a string. *)
LEMMA ArgAtType == ASSUME NEW c \in Clients, NEW j \in Nat, j > 0
                   PROVE  ArgAt(c, j) \in Seq(STRING)
<1>1. \A S : \A s \in Seq(S) : j \in 1..Len(s) => s[j] \in S
  OBVIOUS
<1>2. Argv[c] \in Seq(Seq(STRING)) /\ Len(Argv[c]) \in Nat
  OBVIOUS
<1>3. CASE j <= Len(Argv[c])
  <2>0. j \in 1..Len(Argv[c])
    BY <1>2, <1>3
  <2>1. Argv[c][j] \in Seq(STRING)
    BY <1>1, <1>2, <2>0, Zenon
  <2> QED BY <1>3, <2>1 DEF ArgAt
<1>4. CASE ~(j <= Len(Argv[c]))
  <2>1. <<>> \in Seq(STRING) /\ Environ \in Seq(STRING)
    OBVIOUS
  <2> QED BY <1>4, <2>1 DEF ArgAt
<1> QED BY <1>3, <1>4

(* The names a command takes are strings, and it takes at most two. *)
LEMMA ArgsType ==
  ASSUME TypeOK, NEW c \in Clients, NEW k \in Kinds, NEW a \in CommandArgs(c, k)
  PROVE  /\ a.used \in 0..2
         /\ a.fname \in Seq(STRING)
         /\ a.mname \in Seq(STRING)
<1> DEFINE i == cl[c].i
<1>0. i \in Nat
  BY DEF TypeOK, ClientStates
<1>1. /\ ArgAt(c, i + 1) \in Seq(STRING)
      /\ ArgAt(c, i + 2) \in Seq(STRING)
  BY <1>0, ArgAtType
<1>2. <<>> \in Seq(STRING)
  OBVIOUS
<1>3. CASE k = "client_userd"
  <2>1. PICK p \in {<<1, 2>>, <<2, 1>>, <<2, 2>>} :
          a = [used |-> 2, fname |-> ArgAt(c, i + p[1]), mname |-> ArgAt(c, i + p[2])]
    BY <1>3 DEF CommandArgs
  <2>2. p[1] \in {1, 2} /\ p[2] \in {1, 2}
    OBVIOUS
  <2>3. ArgAt(c, i + p[1]) \in Seq(STRING) /\ ArgAt(c, i + p[2]) \in Seq(STRING)
    BY <1>1, <2>2
  <2> HIDE DEF i
  <2> QED BY <2>1, <2>3
<1>4. CASE k \in {"client_reset", "client_print"}
  <2>1. a = [used |-> 1, fname |-> <<>>, mname |-> ArgAt(c, i + 1)]
    BY <1>4 DEF CommandArgs
  <2> QED BY <2>1, <1>1, <1>2
<1>5. CASE k \notin {"client_userd", "client_reset", "client_print"}
  <2>1. a = [used |-> 0, fname |-> <<>>, mname |-> <<>>]
    BY <1>5 DEF CommandArgs
  <2> QED BY <2>1, <1>2
<1> QED BY <1>3, <1>4, <1>5

--------------------------------------------------------------------------------
(***************************************************************************)
(* A step of client c leaves the other clients alone, keeps its own state  *)
(* well typed, and never forgets a post.                                   *)
(***************************************************************************)
ClientOK(c, s) ==
  /\ s \in ClientStates
  /\ s.test \in 1..7
  /\ s.pc \in {"fname", "mname", "flag", "wait"} => s.test = OptionPos[s.kind] + 1

PostedIn(s, id) ==
  \/ id[2] < s.i
  \/ /\ id[2] = s.i
     /\ OptionPos[id[3]] < s.test
     /\ s.pc \in {"fname", "mname", "flag"} => id[3] # s.kind

(* Updating one field of a client keeps its type. *)
LEMMA Updates ==
  ASSUME NEW s \in ClientStates
  PROVE  /\ \A x \in PCs : [s EXCEPT !.pc = x] \in ClientStates
         /\ \A x \in Nat : [s EXCEPT !.i = x] \in ClientStates
         /\ \A x \in Nat : [s EXCEPT !.test = x] \in ClientStates
         /\ \A x \in BOOLEAN : [s EXCEPT !.valid = x] \in ClientStates
         /\ \A x \in BOOLEAN : [s EXCEPT !.conn = x] \in ClientStates
         /\ \A x \in Kinds : [s EXCEPT !.kind = x] \in ClientStates
         /\ \A x \in Seq(STRING) : [s EXCEPT !.fname = x] \in ClientStates
         /\ \A x \in Seq(STRING) : [s EXCEPT !.mname = x] \in ClientStates
BY DEF ClientStates

(* Program counters of a client. *)
LEMMA PCFacts == /\ {"parse", "fname", "mname", "flag", "wait"} \subseteq PCs
                 /\ Finals \subseteq PCs
BY DEF PCs

(* Recognising a later test, or moving on in argv, forgets no post. *)
LEMMA PostedMono ==
  ASSUME NEW s \in ClientStates, NEW n \in ClientStates, NEW id \in Ids,
         s.i <= n.i,
         s.i = n.i => s.test <= n.test,
         s.i = n.i /\ n.pc \in {"fname", "mname", "flag"} =>
           \/ n.kind = s.kind /\ s.pc \in {"fname", "mname", "flag"}
           \/ s.test <= OptionPos[n.kind],
         PostedIn(s, id)
  PROVE  PostedIn(n, id)
<1>1. id[2] \in Nat /\ id[3] \in Kinds /\ OptionPos[id[3]] \in 1..6
  BY PosTypes DEF Ids
<1>2. s.i \in Nat /\ n.i \in Nat /\ s.test \in Nat /\ n.test \in Nat
  BY DEF ClientStates
<1>3. CASE id[2] < n.i
  BY <1>3 DEF PostedIn
<1>4. CASE id[2] = n.i
  <2>1. s.i = n.i /\ id[2] = s.i /\ OptionPos[id[3]] < s.test
        /\ (s.pc \in {"fname", "mname", "flag"} => id[3] # s.kind)
    BY <1>1, <1>2, <1>4 DEF PostedIn
  <2>2. OptionPos[id[3]] < n.test
    BY <1>1, <1>2, <2>1
  <2>3. ASSUME n.pc \in {"fname", "mname", "flag"}, id[3] = n.kind
        PROVE  FALSE
    BY <1>1, <1>2, <2>1, <2>3
  <2> QED BY <1>4, <2>2, <2>3 DEF PostedIn
<1> QED BY <1>1, <1>2, <1>3, <1>4 DEF PostedIn

(* The step of a client that stays where it is in argv forgets no post. *)
LEMMA SamePlace ==
  ASSUME NEW s \in ClientStates, NEW n \in ClientStates, NEW id \in Ids,
         n.i = s.i, n.test = s.test, n.kind = s.kind,
         n.pc \in {"fname", "mname", "flag"} => s.pc \in {"fname", "mname", "flag"},
         PostedIn(s, id)
  PROVE  PostedIn(n, id)
BY DEF PostedIn

ClientGoal(c) ==
  /\ cl' = [cl EXCEPT ![c] = cl'[c]]
  /\ ClientOK(c, cl'[c])
  /\ \A id \in Ids : PostedIn(cl[c], id) => PostedIn(cl'[c], id)

(* Recognise: the test moves on, i moves on by the names it took. *)
LEMMA RecogniseStep ==
  ASSUME TypeOK, ClientInv, NEW c \in Clients, Recognise(c)
  PROVE  ClientGoal(c)
<1>1. PICK t \in Matching(c) : \E a \in CommandArgs(c, Options[t]) :
        cl' = [cl EXCEPT ![c] = [cl[c] EXCEPT !.pc = "fname", !.test = t + 1,
                                  !.i = cl[c].i + a.used, !.kind = Options[t],
                                  !.fname = a.fname, !.mname = a.mname]]
  BY DEF Recognise, Move
<1>2. PICK a \in CommandArgs(c, Options[t]) :
        cl' = [cl EXCEPT ![c] = [cl[c] EXCEPT !.pc = "fname", !.test = t + 1,
                                  !.i = cl[c].i + a.used, !.kind = Options[t],
                                  !.fname = a.fname, !.mname = a.mname]]
  BY <1>1
<1>3. cl \in [Clients -> ClientStates] /\ cl[c] \in ClientStates
  BY DEF TypeOK
<1>4. t \in 1..6 /\ t >= cl[c].test
  <2>1. t \in cl[c].test..Len(Options)
    BY DEF Matching
  <2>2. cl[c].test \in 1..7
    BY DEF ClientInv
  <2> QED BY <2>1, <2>2, Lengths
<1>5. Options[t] \in Kinds /\ OptionPos[Options[t]] = t
  BY <1>4, OptionsFact
<1>6. a.used \in 0..2 /\ a.fname \in Seq(STRING) /\ a.mname \in Seq(STRING)
  BY <1>5, ArgsType
<1>7. cl'[c] = [cl[c] EXCEPT !.pc = "fname", !.test = t + 1,
                                  !.i = cl[c].i + a.used, !.kind = Options[t],
                                  !.fname = a.fname, !.mname = a.mname]
  BY <1>2, <1>3
<1>8. cl[c].i \in Nat /\ cl[c].test \in Nat
  BY <1>3 DEF ClientStates
<1>9. cl'[c] \in ClientStates
  <2> DEFINE s1 == [cl[c] EXCEPT !.pc = "fname"]
             s2 == [s1 EXCEPT !.test = t + 1]
             s3 == [s2 EXCEPT !.i = cl[c].i + a.used]
             s4 == [s3 EXCEPT !.kind = Options[t]]
             s5 == [s4 EXCEPT !.fname = a.fname]
             s6 == [s5 EXCEPT !.mname = a.mname]
  <2>1. cl'[c] = s6
    BY <1>7
  <2>2. t + 1 \in Nat /\ cl[c].i + a.used \in Nat
    BY <1>4, <1>6, <1>8
  <2>3. s1 \in ClientStates
    BY <1>3, Updates, PCFacts
  <2> HIDE DEF s1
  <2>4. s2 \in ClientStates
    BY <2>2, <2>3, Updates
  <2> HIDE DEF s2
  <2>5. s3 \in ClientStates
    BY <2>2, <2>4, Updates
  <2> HIDE DEF s3
  <2>6. s4 \in ClientStates
    BY <1>5, <2>5, Updates
  <2> HIDE DEF s4
  <2>7. s5 \in ClientStates
    BY <1>6, <2>6, Updates
  <2> HIDE DEF s5
  <2>8. s6 \in ClientStates
    BY <1>6, <2>7, Updates
  <2> QED BY <2>1, <2>8
<1>9a. /\ cl'[c].i = cl[c].i + a.used /\ cl'[c].test = t + 1
      /\ cl'[c].pc = "fname" /\ cl'[c].kind = Options[t]
  BY <1>3, <1>7 DEF ClientStates
<1>10. ASSUME NEW id \in Ids, PostedIn(cl[c], id)
       PROVE  PostedIn(cl'[c], id)
  <2>1. /\ cl[c].i <= cl'[c].i
        /\ cl[c].i = cl'[c].i => cl[c].test <= cl'[c].test
        /\ cl[c].test <= OptionPos[cl'[c].kind]
    <3>1. cl[c].i <= cl'[c].i
      BY <1>6, <1>8, <1>9a
    <3>2. cl[c].test <= cl'[c].test
      BY <1>4, <1>8, <1>9a
    <3>3. cl[c].test <= OptionPos[cl'[c].kind]
      BY <1>4, <1>5, <1>9a
    <3> QED BY <3>1, <3>2, <3>3
  <2> QED BY <1>3, <1>9, <1>9a, <1>10, <2>1, PostedMono
<1>11. ClientOK(c, cl'[c])
  BY <1>4, <1>5, <1>9, <1>9a DEF ClientOK
<1> QED BY <1>2, <1>7, <1>10, <1>11 DEF ClientGoal

(***************************************************************************)
(* The steps that only move the program counter.                           *)
(***************************************************************************)
LEMMA MoveOn ==
  ASSUME TypeOK, ClientInv, NEW c \in Clients, NEW p \in PCs,
         p \in {"fname", "mname", "flag"} => Posting(c),
         p = "wait" => Posting(c),
         cl' = [cl EXCEPT ![c] = [cl[c] EXCEPT !.pc = p]]
  PROVE  ClientGoal(c)
<1>1. cl \in [Clients -> ClientStates] /\ cl[c] \in ClientStates
  BY DEF TypeOK
<1>2. cl'[c] = [cl[c] EXCEPT !.pc = p]
  BY <1>1
<1>3. /\ cl'[c].i = cl[c].i /\ cl'[c].test = cl[c].test
      /\ cl'[c].kind = cl[c].kind /\ cl'[c].pc = p
      /\ cl'[c] \in ClientStates
  BY <1>1, <1>2, Updates DEF ClientStates
<1>4. ClientOK(c, cl'[c])
  BY <1>3 DEF ClientOK, ClientInv, Posting
<1>5. \A id \in Ids : PostedIn(cl[c], id) => PostedIn(cl'[c], id)
  BY <1>1, <1>3, SamePlace DEF Posting
<1> QED BY <1>2, <1>4, <1>5 DEF ClientGoal

(* Connect: the pointer shmat returned, good or bad. *)
LEMMA ConnectStep ==
  ASSUME TypeOK, ClientInv, NEW c \in Clients, Connect(c)
  PROVE  ClientGoal(c)
<1>1. cl \in [Clients -> ClientStates] /\ cl[c] \in ClientStates /\ shm \in BOOLEAN
  BY DEF TypeOK
<1>2. cl' = [cl EXCEPT ![c] = [cl[c] EXCEPT !.pc = "parse", !.conn = shm]]
  BY DEF Connect, Move
<1>3. cl'[c] = [cl[c] EXCEPT !.pc = "parse", !.conn = shm]
  BY <1>1, <1>2
<1>4. /\ cl'[c].i = cl[c].i /\ cl'[c].test = cl[c].test
      /\ cl'[c].kind = cl[c].kind /\ cl'[c].pc = "parse"
  BY <1>1, <1>3 DEF ClientStates
<1>5. cl'[c] \in ClientStates
  <2> DEFINE s1 == [cl[c] EXCEPT !.pc = "parse"]
  <2>1. s1 \in ClientStates
    BY <1>1, Updates, PCFacts
  <2>2. cl'[c] = [s1 EXCEPT !.conn = shm]
    BY <1>3
  <2> HIDE DEF s1
  <2> QED BY <1>1, <2>1, <2>2, Updates
<1>6. ClientOK(c, cl'[c])
  BY <1>4, <1>5 DEF ClientOK, ClientInv
<1>7. \A id \in Ids : PostedIn(cl[c], id) => PostedIn(cl'[c], id)
  BY <1>1, <1>4, <1>5, SamePlace
<1> QED BY <1>2, <1>3, <1>6, <1>7 DEF ClientGoal

(* WaitCommandHandled: back to the tests behind the one that matched. *)
LEMMA WaitStep ==
  ASSUME TypeOK, ClientInv, NEW c \in Clients, WaitCommandHandled(c)
  PROVE  ClientGoal(c)
<1>1. cl \in [Clients -> ClientStates] /\ cl[c] \in ClientStates
  BY DEF TypeOK
<1>2. cl' = [cl EXCEPT ![c] = [cl[c] EXCEPT !.pc = "parse", !.valid = TRUE]]
  BY DEF WaitCommandHandled, Move
<1>3. cl'[c] = [cl[c] EXCEPT !.pc = "parse", !.valid = TRUE]
  BY <1>1, <1>2
<1>4. /\ cl'[c].i = cl[c].i /\ cl'[c].test = cl[c].test
      /\ cl'[c].kind = cl[c].kind /\ cl'[c].pc = "parse"
  BY <1>1, <1>3 DEF ClientStates
<1>5. cl'[c] \in ClientStates
  <2> DEFINE s1 == [cl[c] EXCEPT !.pc = "parse"]
  <2>1. s1 \in ClientStates
    BY <1>1, Updates, PCFacts
  <2>2. cl'[c] = [s1 EXCEPT !.valid = TRUE]
    BY <1>3
  <2> HIDE DEF s1
  <2> QED BY <2>1, <2>2, Updates
<1>6. ClientOK(c, cl'[c])
  BY <1>4, <1>5 DEF ClientOK, ClientInv
<1>7. \A id \in Ids : PostedIn(cl[c], id) => PostedIn(cl'[c], id)
  BY <1>1, <1>4, <1>5, SamePlace
<1> QED BY <1>2, <1>3, <1>6, <1>7 DEF ClientGoal

(* EndTurn: the next argument, a crash or an invalid command. *)
LEMMA EndTurnStep ==
  ASSUME TypeOK, ClientInv, NEW c \in Clients, EndTurn(c)
  PROVE  ClientGoal(c)
<1>1. cl \in [Clients -> ClientStates] /\ cl[c] \in ClientStates
  BY DEF TypeOK
<1>2. CASE cl' = [cl EXCEPT ![c] = [cl[c] EXCEPT !.pc = "crashed"]]
  BY <1>2, MoveOn, PCFacts DEF Finals
<1>3. CASE cl' = [cl EXCEPT ![c] = [cl[c] EXCEPT !.pc = "failed"]]
  BY <1>3, MoveOn, PCFacts DEF Finals
<1>4. CASE cl' = [cl EXCEPT ![c] = [cl[c] EXCEPT !.i = @ + 1, !.test = 1, !.valid = FALSE]]
  <2>1. cl'[c] = [cl[c] EXCEPT !.i = cl[c].i + 1, !.test = 1, !.valid = FALSE]
    BY <1>1, <1>4
  <2>2. cl[c].i \in Nat /\ cl[c].i + 1 \in Nat
    BY <1>1 DEF ClientStates
  <2>3. /\ cl'[c].i = cl[c].i + 1 /\ cl'[c].test = 1 /\ cl'[c].pc = cl[c].pc
    BY <1>1, <2>1 DEF ClientStates
  <2>4. cl'[c] \in ClientStates
    <3> DEFINE s1 == [cl[c] EXCEPT !.i = cl[c].i + 1]
               s2 == [s1 EXCEPT !.test = 1]
    <3>1. cl'[c] = [s2 EXCEPT !.valid = FALSE]
      BY <2>1
    <3>2. s1 \in ClientStates
      BY <1>1, <2>2, Updates
    <3> HIDE DEF s1
    <3>3. s2 \in ClientStates
      BY <3>2, Updates
    <3> HIDE DEF s2
    <3> QED BY <3>1, <3>3, Updates
  <2>5. cl[c].pc = "parse"
    BY DEF EndTurn, InTurn, Parsing
  <2>6. ClientOK(c, cl'[c])
    BY <2>3, <2>4, <2>5 DEF ClientOK
  <2>7. \A id \in Ids : PostedIn(cl[c], id) => PostedIn(cl'[c], id)
    BY <2>2, <2>3 DEF PostedIn, Ids
  <2> QED BY <1>4, <2>1, <2>6, <2>7 DEF ClientGoal
<1> QED BY <1>2, <1>3, <1>4 DEF EndTurn, Move

--------------------------------------------------------------------------------
(* A step of one client preserves what is known of all clients. *)
LEMMA ClientTransfer ==
  ASSUME TypeOK, ClientInv, NEW c \in Clients, ClientGoal(c)
  PROVE  /\ cl' \in [Clients -> ClientStates]
         /\ ClientInv'
         /\ \A id \in Ids : Posted(id) => Posted(id)'
<1>1. cl \in [Clients -> ClientStates]
  BY DEF TypeOK
<1>2. cl' = [cl EXCEPT ![c] = cl'[c]] /\ ClientOK(c, cl'[c])
  BY DEF ClientGoal
<1>3. cl' \in [Clients -> ClientStates]
  BY <1>1, <1>2 DEF ClientOK
<1>4. \A d \in Clients : d # c => cl'[d] = cl[d]
  BY <1>1, <1>2
<1>5. ClientInv'
  BY <1>2, <1>4 DEF ClientInv, ClientOK, Posting
<1>6. ASSUME NEW id \in Ids, Posted(id)
      PROVE  Posted(id)'
  <2>1. id[1] \in Clients
    BY DEF Ids
  <2>2. CASE id[1] = c
    BY <1>6, <2>2 DEF ClientGoal, Posted, PostedIn, Posting
  <2>3. CASE id[1] # c
    BY <1>4, <1>6, <2>1, <2>3 DEF Posted, Posting
  <2> QED BY <2>2, <2>3
<1> QED BY <1>3, <1>5, <1>6

(* The fields of a carried out command. *)
LEMMA CallTypes ==
  ASSUME NEW q \in Seq(Calls), NEW a \in DOMAIN q
  PROVE  /\ q[a] \in Calls /\ q[a].kind \in Kinds /\ q[a].boot \in Nat
         /\ q[a].ids \subseteq Ids
         /\ \A id \in q[a].ids : id[3] \in Kinds
<1>1. \A S : \A s \in Seq(S) : \A j \in DOMAIN s : s[j] \in S
  OBVIOUS
<1>2. q[a] \in Calls
  BY <1>1, Zenon
<1>3. /\ q[a].kind \in Kinds /\ q[a].boot \in Nat /\ q[a].ids \subseteq Ids
  BY <1>2 DEF Calls
<1> QED BY <1>2, <1>3 DEF Ids

(* The client steps that do not touch the flags preserve the invariant. *)
LEMMA QuietClient ==
  ASSUME IInv, NEW c \in Clients, ClientGoal(c),
         name' \in [Names -> Seq(STRING)],
         UNCHANGED <<shm, flag, qemu, boot, step, pend, cleared, calls>>
  PROVE  IInv'
<1>1. /\ cl' \in [Clients -> ClientStates]
      /\ ClientInv'
      /\ \A id \in Ids : Posted(id) => Posted(id)'
  BY ClientTransfer DEF IInv
<1>2. TypeOK'
  BY <1>1 DEF IInv, TypeOK
<1>3. FlagInv'
  <2>1. \A k \in Kinds : pend[k] \subseteq Ids
    BY DEF IInv, TypeOK
  <2> QED BY <1>1, <2>1 DEF IInv, FlagInv
<1>4. CallInv'
  <2>1. \A a \in DOMAIN calls : calls[a].ids \subseteq Ids
    BY CallTypes DEF IInv, TypeOK
  <2> QED BY <1>1, <2>1 DEF IInv, CallInv
<1>5. ServedInv' /\ BootInv' /\ OncePerBoot'
  BY DEF IInv, ServedInv, BootInv, OncePerBoot
<1> QED BY <1>1, <1>2, <1>3, <1>4, <1>5 DEF IInv

(* The copied names are names. *)
LEMMA MemcpyType ==
  ASSUME NEW dst \in Seq(STRING), NEW src \in Seq(STRING)
  PROVE  Memcpy(dst, src) \in Seq(STRING)
<1>1. Len(src) \in Nat /\ Len(dst) \in Nat
  OBVIOUS
<1>2. SubSeq(dst, Len(src) + 1, Len(dst)) \in Seq(STRING)
  BY <1>1
<1> QED BY <1>2 DEF Memcpy

(***************************************************************************)
(* SetFlag posts an id that was not posted before, so no call has it yet.  *)
(***************************************************************************)
LEMMA SetFlagStep ==
  ASSUME IInv, NEW c \in Clients, SetFlag(c)
  PROVE  IInv'
<1> DEFINE k == cl[c].kind
<1>0. PICK x : x = Id(c)
  OBVIOUS
<1>1. cl[c] \in ClientStates /\ k \in Kinds /\ cl[c].i \in Nat
  BY DEF IInv, TypeOK, ClientStates
<1>2. x \in Ids /\ x[1] = c /\ x[2] = cl[c].i /\ x[3] = k
  BY <1>0, <1>1 DEF Id, Ids
<1>3. ClientGoal(c)
  BY MoveOn, PCFacts DEF SetFlag, Move, IInv, Posting
<1>4. /\ cl' \in [Clients -> ClientStates]
      /\ ClientInv'
      /\ \A id \in Ids : Posted(id) => Posted(id)'
  BY <1>3, ClientTransfer DEF IInv
<1>5. ~Posted(x)
  BY <1>1, <1>2 DEF Posted, SetFlag, Posting
<1>6. Posted(x)'
  <2>1. cl'[c] = [cl[c] EXCEPT !.pc = "wait"]
    BY DEF SetFlag, Move, IInv, TypeOK
  <2>2. cl'[c].pc = "wait" /\ cl'[c].i = cl[c].i /\ cl'[c].test = cl[c].test
    BY <1>1, <2>1 DEF ClientStates
  <2>3. cl[c].test = OptionPos[k] + 1 /\ OptionPos[k] \in Nat
    <3>1. cl[c].pc = "flag"
      BY DEF SetFlag
    <3>2. cl[c].test = OptionPos[k] + 1
      BY <3>1 DEF IInv, ClientInv, Posting
    <3>3. OptionPos[k] \in Nat
      BY <1>1, PosTypes
    <3> QED BY <3>2, <3>3
  <2>4. PostedIn(cl'[c], x)
    BY <1>2, <2>2, <2>3 DEF PostedIn
  <2> QED BY <1>2, <2>4 DEF Posted, PostedIn, Posting
<1> HIDE DEF k
<1>7. /\ flag' = [flag EXCEPT ![k] = 1]
      /\ pend' = [pend EXCEPT ![k] = pend[k] \cup {x}]
      /\ UNCHANGED <<shm, name, qemu, boot, step, cleared, calls>>
  BY <1>0 DEF SetFlag, k
<1>8. TypeOK'
  BY <1>1, <1>2, <1>4, <1>7 DEF IInv, TypeOK
<1>9. FlagInv'
  <2>1. \A j \in Kinds : pend[j] \subseteq Ids
    BY DEF IInv, TypeOK
  <2>2. \A j \in Kinds : j # k => pend'[j] = pend[j] /\ flag'[j] = flag[j]
    BY <1>7 DEF IInv, TypeOK
  <2>3. pend'[k] = pend[k] \cup {x}
    BY <1>1, <1>7 DEF IInv, TypeOK
  <2>4. \A j \in Kinds : j # k => (flag[j] = 1 => pend[j] # {})
    BY DEF IInv, FlagInv
  <2>5. \A j \in Kinds : \A id \in pend[j] : id[3] = j /\ Posted(id)'
    BY <1>4, <2>1 DEF IInv, FlagInv
  <2>6. ASSUME NEW j \in Kinds
        PROVE  /\ flag'[j] = 1 => pend'[j] # {}
               /\ \A id \in pend'[j] : id[3] = j /\ Posted(id)'
    <3>1. CASE j # k
      BY <2>2, <2>4, <2>5, <3>1
    <3>2. CASE j = k
      BY <1>2, <1>6, <2>3, <2>5, <3>2
    <3> QED BY <3>1, <3>2
  <2> QED BY <2>6 DEF FlagInv
<1>10. CallInv'
  <2>1. \A a \in DOMAIN calls : calls[a].ids \subseteq Ids
    BY CallTypes DEF IInv, TypeOK
  <2> QED BY <1>4, <1>7, <2>1 DEF IInv, CallInv
<1>11. ServedInv'
  <2>1. ASSUME NEW a \in DOMAIN calls, NEW id \in calls[a].ids,
               id \in pend'[id[3]]
        PROVE  id \in pend[id[3]]
    <3>1. id # x
      BY <1>5 DEF IInv, CallInv
    <3>2. id[3] \in Kinds
      BY CallTypes DEF IInv, TypeOK
    <3> QED BY <1>7, <2>1, <3>1, <3>2 DEF IInv, TypeOK
  <2> QED BY <1>7, <2>1 DEF IInv, ServedInv
<1>12. BootInv' /\ OncePerBoot'
  BY <1>7 DEF IInv, BootInv, OncePerBoot
<1> QED BY <1>4, <1>8, <1>9, <1>10, <1>11, <1>12 DEF IInv

(* Every step of a client preserves the invariant. *)
LEMMA ClientPreserves ==
  ASSUME IInv, NEW c \in Clients, Client(c)
  PROVE  IInv'
<1>0. name \in [Names -> Seq(STRING)] /\ cl[c] \in ClientStates
  BY DEF IInv, TypeOK
<1>1. CASE Help(c)
  <2>1. ClientGoal(c)
    BY <1>1, MoveOn, PCFacts DEF Help, Move, IInv, Finals
  <2> QED BY <1>0, <1>1, <2>1, QuietClient DEF Help, chan
<1>2. CASE Connect(c)
  <2>1. ClientGoal(c)
    BY <1>2, ConnectStep DEF IInv
  <2> QED BY <1>0, <1>2, <2>1, QuietClient DEF Connect, chan
<1>3. CASE Recognise(c)
  <2>1. ClientGoal(c)
    BY <1>3, RecogniseStep DEF IInv
  <2> QED BY <1>0, <1>3, <2>1, QuietClient DEF Recognise, chan
<1>4. CASE EndTurn(c)
  <2>1. ClientGoal(c)
    BY <1>4, EndTurnStep DEF IInv
  <2> QED BY <1>0, <1>4, <2>1, QuietClient DEF EndTurn, chan
<1>5. CASE Disconnect(c)
  <2>1. ClientGoal(c)
    BY <1>5, MoveOn, PCFacts DEF Disconnect, Move, IInv, Finals
  <2> QED BY <1>0, <1>5, <2>1, QuietClient DEF Disconnect, chan
<1>6. CASE Fault(c)
  <2>1. ClientGoal(c)
    BY <1>6, MoveOn, PCFacts DEF Fault, Move, IInv, Finals
  <2> QED BY <1>0, <1>6, <2>1, QuietClient DEF Fault, chan
<1>7. CASE CopyFname(c)
  <2>1. ClientGoal(c)
    BY <1>7, MoveOn, PCFacts DEF CopyFname, Move, IInv, Posting
  <2>2. Memcpy(name.fname, cl[c].fname) \in Seq(STRING)
    BY <1>0, MemcpyType DEF ClientStates, Names
  <2>3. name' \in [Names -> Seq(STRING)]
    BY <1>0, <1>7, <2>2 DEF CopyFname
  <2> QED BY <1>7, <2>1, <2>3, QuietClient DEF CopyFname
<1>8. CASE CopyMname(c)
  <2>1. ClientGoal(c)
    BY <1>8, MoveOn, PCFacts DEF CopyMname, Move, IInv, Posting
  <2>2. Memcpy(name.mname, cl[c].mname) \in Seq(STRING)
    BY <1>0, MemcpyType DEF ClientStates, Names
  <2>3. name' \in [Names -> Seq(STRING)]
    BY <1>0, <1>8, <2>2 DEF CopyMname
  <2> QED BY <1>8, <2>1, <2>3, QuietClient DEF CopyMname
<1>9. CASE SetFlag(c)
  BY <1>9, SetFlagStep
<1>10. CASE WaitCommandHandled(c)
  <2>1. ClientGoal(c)
    BY <1>10, WaitStep DEF IInv
  <2> QED BY <1>0, <1>10, <2>1, QuietClient DEF WaitCommandHandled, chan
<1> QED BY <1>1, <1>2, <1>3, <1>4, <1>5, <1>6, <1>7, <1>8, <1>9, <1>10 DEF Client

--------------------------------------------------------------------------------
(***************************************************************************)
(* The check of a flag at the step where the invariant says that nothing   *)
(* in the flag was carried out in this boot.                               *)
(***************************************************************************)
LEMMA CheckFlagStep ==
  ASSUME IInv, CheckFlag
  PROVE  IInv'
<1> DEFINE k == Checks[step]
           new == [kind |-> k, boot |-> boot, ids |-> pend[k]]
<1>1. /\ step \in 1..6 /\ step' = step + 1
      /\ UNCHANGED <<shm, flag, name, qemu, boot, cl, pend, cleared>>
  BY Lengths DEF CheckFlag, chan
<1>2. k \in Kinds /\ CheckPos[k] = step
  BY <1>1, ChecksFact
<1>3. qemu = "run"
  BY DEF CheckFlag
<1>4. calls \in Seq(Calls) /\ boot \in Nat /\ pend[k] \subseteq Ids
  BY <1>2 DEF IInv, TypeOK
<1>5. ClientInv' /\ FlagInv'
  <2>1. \A id : Posted(id)' <=> Posted(id)
    BY <1>1 DEF Posted, Posting
  <2> QED BY <1>1, <2>1 DEF IInv, ClientInv, Posting, FlagInv
<1>6. BootInv'
  BY <1>1, <1>3 DEF BootInv
<1>7. \A j \in Kinds : CheckPos[j] < step => CheckPos[j] < step' /\ step' <= ClearPos[j]
  BY <1>1, PosTypes
<1>8. CASE flag[k] = 0
  <2>1. calls' = calls
    BY <1>8 DEF CheckFlag
  <2>2. TypeOK'
    BY <1>1, <2>1, Lengths DEF IInv, TypeOK
  <2>3. CallInv'
    BY <1>1, <2>1 DEF IInv, CallInv, Posted, Posting
  <2>4. ServedInv'
    BY <1>1, <1>4, <1>7, <2>1, CallTypes DEF IInv, ServedInv
  <2>5. OncePerBoot'
    BY <2>1 DEF IInv, OncePerBoot
  <2> QED BY <1>5, <1>6, <2>2, <2>3, <2>4, <2>5 DEF IInv
<1>9. CASE flag[k] # 0
  <2>1. calls' = Append(calls, new)
    BY <1>9 DEF CheckFlag
  <2>2. new \in Calls
    BY <1>2, <1>4 DEF Calls
  <2>3. new.ids = pend[k] /\ new.boot = boot /\ new.kind = k
    OBVIOUS
  <2> HIDE DEF k, new
  <2>4. calls' \in Seq(Calls)
    BY <1>4, <2>1, <2>2
  <2>5. \A a \in DOMAIN calls' : \/ a \in DOMAIN calls /\ calls'[a] = calls[a]
                                 \/ a = Len(calls) + 1 /\ calls'[a] = new
    BY <1>4, <2>1, <2>2
  <2>6. new.ids # {}
    BY <1>2, <1>9, <2>3 DEF IInv, TypeOK, FlagInv
  <2>7. \A id \in new.ids : id[3] = k /\ Posted(id)
    BY <1>2, <2>3 DEF IInv, FlagInv
  <2>8. TypeOK'
    BY <1>1, <2>4, Lengths DEF IInv, TypeOK
  <2>9. CallInv'
    <3>1. \A id : Posted(id)' <=> Posted(id)
      BY <1>1 DEF Posted, Posting
    <3>2. ASSUME NEW a \in DOMAIN calls'
          PROVE  /\ calls'[a].ids # {} /\ calls'[a].boot <= boot'
                 /\ \A id \in calls'[a].ids : id[3] = calls'[a].kind /\ Posted(id)'
      <4>1. CASE calls'[a] = new
        BY <1>1, <1>4, <2>3, <2>6, <2>7, <3>1, <4>1
      <4>2. CASE a \in DOMAIN calls /\ calls'[a] = calls[a]
        BY <1>1, <3>1, <4>2 DEF IInv, CallInv
      <4> QED BY <2>5, <4>1, <4>2
    <3> QED BY <3>2 DEF CallInv
  <2>10. ServedInv'
    <3>1. ASSUME NEW a \in DOMAIN calls', NEW id \in calls'[a].ids,
                 calls'[a].boot = boot, id \in pend[id[3]]
          PROVE  CheckPos[id[3]] < step' /\ step' <= ClearPos[id[3]]
      <4>1. CASE calls'[a] = new
        BY <1>1, <1>2, <2>3, <2>7, <4>1, PosTypes
      <4>2. CASE a \in DOMAIN calls /\ calls'[a] = calls[a]
        BY <1>4, <1>7, <3>1, <4>2, CallTypes DEF IInv, ServedInv
      <4> QED BY <2>5, <4>1, <4>2
    <3> QED BY <1>1, <3>1 DEF ServedInv
  <2>11. ASSUME NEW a \in DOMAIN calls, calls[a].boot = boot
         PROVE  calls[a].ids \cap new.ids = {}
    <3>1. ASSUME NEW id \in calls[a].ids, id \in new.ids
          PROVE  FALSE
      <4>1. id[3] = k /\ id \in pend[k]
        BY <2>3, <2>7, <3>1
      <4>2. CheckPos[k] < step
        BY <2>11, <4>1 DEF IInv, ServedInv
      <4> QED BY <1>1, <1>2, <4>2
    <3> QED BY <3>1
  <2>12. OncePerBoot'
    <3>1. \A a \in DOMAIN calls' : calls'[a].ids # {}
      BY <2>5, <2>6 DEF IInv, OncePerBoot
    <3>2. ASSUME NEW a \in DOMAIN calls', NEW b \in DOMAIN calls', a # b,
                 calls'[a].boot = calls'[b].boot
          PROVE  calls'[a].ids \cap calls'[b].ids = {}
      <4>1. CASE a \in DOMAIN calls /\ calls'[a] = calls[a]
        <5>1. CASE b \in DOMAIN calls /\ calls'[b] = calls[b]
          BY <3>2, <4>1, <5>1 DEF IInv, OncePerBoot
        <5>2. CASE b = Len(calls) + 1 /\ calls'[b] = new
          BY <2>3, <2>11, <3>2, <4>1, <5>2
        <5> QED BY <2>5, <5>1, <5>2
      <4>2. CASE a = Len(calls) + 1 /\ calls'[a] = new
        <5>1. b \in DOMAIN calls /\ calls'[b] = calls[b]
          BY <2>5, <3>2, <4>2
        <5> QED BY <2>3, <2>11, <3>2, <4>2, <5>1
      <4> QED BY <2>5, <4>1, <4>2
    <3> QED BY <3>1, <3>2 DEF OncePerBoot
  <2> QED BY <1>5, <1>6, <2>8, <2>9, <2>10, <2>12 DEF IInv
<1> QED BY <1>8, <1>9

(* The memset of a flag empties it; at any other field nothing is at stake. *)
LEMMA MemsetFieldStep ==
  ASSUME IInv, MemsetField
  PROVE  IInv'
<1> DEFINE f == Fields[step - 6]
<1>1. /\ qemu = "run"
      /\ step \in 7..14
      /\ step' = IF step = 14 THEN 0 ELSE step + 1
      /\ UNCHANGED <<shm, qemu, boot, cl, calls>>
  BY Lengths DEF MemsetField
<1>2. \/ f \in Kinds /\ ClearPos[f] = step
      \/ f \in Names /\ f \notin Kinds /\ step > 12
  BY <1>1, FieldsFact
<1>3. /\ f \in Kinds => /\ flag' = [flag EXCEPT ![f] = 0]
                        /\ pend' = [pend EXCEPT ![f] = {}]
                        /\ cleared' = cleared \cup pend[f]
                        /\ name' = name
      /\ f \notin Kinds => /\ name' = [name EXCEPT ![f] = <<>>]
                           /\ UNCHANGED <<flag, pend, cleared>>
  BY Lengths DEF MemsetField
<1> HIDE DEF f
<1>4. \A j \in Kinds : \/ pend'[j] = pend[j] /\ flag'[j] = flag[j]
                       \/ pend'[j] = {} /\ flag'[j] = 0 /\ j = f
  BY <1>3 DEF IInv, TypeOK
<1>5. TypeOK'
  <2>1. step' \in 0..LastStep
    BY <1>1, Lengths
  <2>2. CASE f \in Kinds
    <3>1. /\ flag' \in [Kinds -> {0, 1}] /\ pend' \in [Kinds -> SUBSET Ids]
          /\ cleared' \subseteq Ids /\ name' = name
      BY <1>3, <2>2 DEF IInv, TypeOK
    <3> QED BY <1>1, <2>1, <3>1 DEF IInv, TypeOK
  <2>3. CASE f \notin Kinds
    <3>1. name \in [Names -> Seq(STRING)] /\ <<>> \in Seq(STRING)
      BY DEF IInv, TypeOK
    <3>2. name' \in [Names -> Seq(STRING)]
      BY <1>3, <2>3, <3>1
    <3> QED BY <1>1, <1>3, <2>1, <2>3, <3>2 DEF IInv, TypeOK
  <2> QED BY <2>2, <2>3
<1>6. \A id : Posted(id)' <=> Posted(id)
  BY <1>1 DEF Posted, Posting
<1>7. ClientInv' /\ CallInv' /\ OncePerBoot' /\ BootInv'
  BY <1>1, <1>6 DEF IInv, ClientInv, Posting, CallInv, OncePerBoot, BootInv
<1>8. FlagInv'
  BY <1>4, <1>6 DEF IInv, FlagInv
<1>9. ServedInv'
  <2>1. ASSUME NEW a \in DOMAIN calls, NEW id \in calls[a].ids,
               calls[a].boot = boot, id \in pend'[id[3]]
        PROVE  CheckPos[id[3]] < step' /\ step' <= ClearPos[id[3]]
    <3>1. id[3] \in Kinds
      BY CallTypes DEF IInv, TypeOK
    <3>2. id \in pend[id[3]] /\ (id[3] # f \/ f \notin Kinds)
      BY <1>3, <1>4, <2>1, <3>1 DEF IInv, TypeOK
    <3>3. CheckPos[id[3]] < step /\ step <= ClearPos[id[3]]
      BY <2>1, <3>2 DEF IInv, ServedInv
    <3>4. CheckPos[id[3]] \in 1..6 /\ ClearPos[id[3]] \in 7..12
      BY <3>1, PosTypes
    <3>5. f \in Kinds /\ ClearPos[f] = step
      BY <1>1, <1>2, <3>3, <3>4
    <3>6. step # ClearPos[id[3]]
      BY <3>1, <3>2, <3>5, ClearPosInjective
    <3> QED BY <1>1, <3>3, <3>4, <3>6
  <2> QED BY <1>1, <2>1 DEF ServedInv
<1> QED BY <1>5, <1>7, <1>8, <1>9 DEF IInv

(***************************************************************************)
(* Steps that change only the life of the QEMU process and the place in    *)
(* the loop, when no post that was carried out in the new boot can still   *)
(* sit in a flag.                                                          *)
(***************************************************************************)
LEMMA ProcessStep ==
  ASSUME IInv, UNCHANGED <<flag, name, cl, pend, cleared, calls>>,
         shm' \in BOOLEAN, qemu' \in {"off", "boot", "run"},
         boot' \in Nat, step' \in 0..14,
         boot' >= boot,
         qemu' = "boot" => step' = 0,
         boot' = boot => step' = step \/ step = 0
  PROVE  IInv'
<1>0. boot \in Nat /\ step \in 0..14 /\ calls \in Seq(Calls)
  BY Lengths DEF IInv, TypeOK
<1>1. TypeOK'
  BY Lengths DEF IInv, TypeOK
<1>2. \A id : Posted(id)' <=> Posted(id)
  BY DEF Posted, Posting
<1>3. ClientInv' /\ FlagInv' /\ OncePerBoot' /\ BootInv'
  BY <1>2 DEF IInv, ClientInv, Posting, FlagInv, OncePerBoot, BootInv
<1>4. CallInv'
  BY <1>0, <1>2, CallTypes DEF IInv, CallInv
<1>5. ServedInv'
  <2>1. ASSUME NEW a \in DOMAIN calls, NEW id \in calls[a].ids,
               calls[a].boot = boot', id \in pend[id[3]]
        PROVE  CheckPos[id[3]] < step' /\ step' <= ClearPos[id[3]]
    <3>1. calls[a].boot <= boot /\ calls[a].boot \in Nat /\ id[3] \in Kinds
      BY <1>0, CallTypes DEF IInv, CallInv
    <3>2. boot' = boot /\ calls[a].boot = boot
      BY <1>0, <2>1, <3>1
    <3>3. CheckPos[id[3]] < step /\ step <= ClearPos[id[3]]
      BY <2>1, <3>2 DEF IInv, ServedInv
    <3>4. step # 0
      <4>1. CheckPos[id[3]] \in 1..6
        BY <3>1, PosTypes
      <4> QED BY <3>3, <4>1
    <3> QED BY <3>2, <3>3, <3>4
  <2> QED BY <2>1 DEF ServedInv
<1> QED BY <1>1, <1>3, <1>4, <1>5 DEF IInv

(* The initial state satisfies the invariant. *)
LEMMA InitIInv == Init => IInv
<1> SUFFICES ASSUME Init PROVE IInv
  OBVIOUS
<1>1. FreshClient \in ClientStates
  BY DEF FreshClient, ClientStates, PCs, Kinds
<1>2. TypeOK
  <2>0. shm \in BOOLEAN
    BY Zenon DEF Init
  <2>1. /\ qemu \in {"off", "boot", "run"} /\ boot \in Nat
        /\ step \in 0..LastStep /\ cleared \subseteq Ids
    BY Lengths DEF Init
  <2>2. calls \in Seq(Calls)
    BY DEF Init
  <2>2a. name \in [Names -> Seq(STRING)]
    <3>1. <<>> \in Seq(STRING) /\ name = [n \in Names |-> <<>>]
      BY DEF Init
    <3> QED BY <3>1
  <2>3. flag \in [Kinds -> {0, 1}] /\ pend \in [Kinds -> SUBSET Ids]
    BY DEF Init
  <2>4. cl \in [Clients -> ClientStates]
    BY <1>1 DEF Init
  <2> QED BY <2>0, <2>1, <2>2, <2>2a, <2>3, <2>4 DEF TypeOK
<1>3. ClientInv
  BY DEF Init, ClientInv, FreshClient, Posting
<1>4. FlagInv /\ CallInv /\ ServedInv /\ BootInv /\ OncePerBoot
  BY DEF Init, FlagInv, CallInv, ServedInv, BootInv, OncePerBoot
<1> QED BY <1>2, <1>3, <1>4 DEF IInv

(* Every step, a kill in the middle of the handler included, preserves it. *)
LEMMA NextIInv == IInv /\ [Next \/ Kill]_vars => IInv'
<1> SUFFICES ASSUME IInv, [Next \/ Kill]_vars PROVE IInv'
  OBVIOUS
<1>0. /\ boot \in Nat /\ step \in 0..14 /\ shm \in BOOLEAN
      /\ qemu \in {"off", "boot", "run"}
  BY Lengths DEF IInv, TypeOK
<1>1. CASE LoadModule
  BY <1>0, <1>1, ProcessStep DEF LoadModule, chanVars, chan, IInv, BootInv
<1>2. CASE initialize_adebug
  BY <1>0, <1>2, ProcessStep DEF initialize_adebug, chan, IInv, BootInv
<1>3. CASE Restart
  BY <1>0, <1>3, ProcessStep DEF Restart, chan
<1>4. CASE adebug_free
  BY <1>0, <1>4, ProcessStep DEF adebug_free, chan
<1>5. CASE ExecuteBlock
  BY <1>0, <1>5, ProcessStep DEF ExecuteBlock, chan
<1>6. CASE CheckFlag
  BY <1>6, CheckFlagStep
<1>7. CASE MemsetField
  BY <1>7, MemsetFieldStep
<1>8. CASE \E c \in Clients : Client(c)
  BY <1>8, ClientPreserves
<1>9. CASE Kill
  BY <1>0, <1>9, ProcessStep DEF Kill, chan
<1>10. CASE UNCHANGED vars
  BY <1>0, <1>10, ProcessStep DEF vars, chanVars, chan, IInv, BootInv
<1> QED BY <1>1, <1>2, <1>3, <1>4, <1>5, <1>6, <1>7, <1>8, <1>9, <1>10
        DEF Next, Boot, TCGThread, Handler

(***************************************************************************)
(* The state of the channel keeps its type, and no post of a qemu-adebug   *)
(* process is carried out twice by one QEMU process, even when QEMU is     *)
(* killed in the middle of the handler and started again on the segment    *)
(* the killed process left behind.                                         *)
(***************************************************************************)
THEOREM KillSafety == KillSpec => [](TypeOK /\ OncePerBoot)
<1>1. KillSpec => []IInv
  BY InitIInv, NextIInv, PTL DEF KillSpec
<1>2. IInv => TypeOK /\ OncePerBoot
  BY DEF IInv
<1> QED BY <1>1, <1>2, PTL

--------------------------------------------------------------------------------
(***************************************************************************)
(* Without kills: outside the run of a QEMU process the handler is at its  *)
(* start, and what sits in a flag was not carried out in an earlier boot.  *)
(***************************************************************************)
Orderly ==
  /\ qemu # "run" => step = 0
  /\ \A a \in DOMAIN calls : \A id \in calls[a].ids :
       id \in pend[id[3]] => calls[a].boot = boot
  /\ AtMostOnce

(* Orderly is preserved by the steps of a system whose QEMU is not killed. *)
LEMMA NextOrderly == IInv /\ Orderly /\ [Next]_vars => Orderly'
<1> SUFFICES ASSUME IInv, Orderly, [Next]_vars PROVE Orderly'
  OBVIOUS
<1>0. /\ calls \in Seq(Calls) /\ boot \in Nat /\ step \in 0..14
      /\ pend \in [Kinds -> SUBSET Ids]
  BY Lengths DEF IInv, TypeOK
<1>1. CASE /\ UNCHANGED <<pend, calls, boot>>
           /\ qemu' # "run" => step' = 0
  BY <1>1 DEF Orderly, AtMostOnce
<1>2. CASE LoadModule \/ initialize_adebug \/ adebug_free \/ ExecuteBlock
  BY <1>1, <1>2 DEF LoadModule, initialize_adebug, adebug_free, ExecuteBlock,
                    chanVars, Orderly
<1>3. CASE Restart
  <2>1. UNCHANGED <<pend, calls>> /\ step = 0 /\ step' = 0
    BY <1>3 DEF Restart, Orderly
  <2>2. \A a \in DOMAIN calls : \A id \in calls[a].ids : id \notin pend[id[3]]
    <3> SUFFICES ASSUME NEW a \in DOMAIN calls, NEW id \in calls[a].ids,
                        id \in pend[id[3]]
                 PROVE  FALSE
      OBVIOUS
    <3>1. CheckPos[id[3]] < step /\ id[3] \in Kinds
      BY <1>0, CallTypes DEF IInv, ServedInv, Orderly
    <3> QED BY <2>1, <3>1, PosTypes
  <2> QED BY <2>1, <2>2 DEF Orderly, AtMostOnce
<1>4. CASE CheckFlag
  <2> DEFINE k == Checks[step]
             new == [kind |-> k, boot |-> boot, ids |-> pend[k]]
  <2>1. /\ step \in 1..6 /\ qemu = "run"
        /\ UNCHANGED <<qemu, boot, pend>>
    BY <1>4, Lengths DEF CheckFlag
  <2>2. k \in Kinds /\ CheckPos[k] = step
    BY <2>1, ChecksFact
  <2>3. CASE calls' = calls
    BY <2>1, <2>3 DEF Orderly, AtMostOnce
  <2>4. CASE calls' = Append(calls, new)
    <3>1. new \in Calls
      BY <1>0, <2>2 DEF Calls
    <3>2. new.ids = pend[k] /\ new.boot = boot
      OBVIOUS
    <3> HIDE DEF k, new
    <3>3. \A a \in DOMAIN calls' : \/ a \in DOMAIN calls /\ calls'[a] = calls[a]
                                   \/ a = Len(calls) + 1 /\ calls'[a] = new
      BY <1>0, <2>4, <3>1
    <3>4. ASSUME NEW a \in DOMAIN calls, NEW id \in calls[a].ids, id \in new.ids
          PROVE  FALSE
      <4>1. id[3] = k /\ id \in pend[k]
        BY <2>2, <3>2, <3>4 DEF IInv, FlagInv
      <4>2. CheckPos[k] < step
        BY <4>1 DEF IInv, ServedInv, Orderly
      <4> QED BY <2>1, <2>2, <4>2
    <3>5. AtMostOnce'
      <4> SUFFICES ASSUME NEW a \in DOMAIN calls', NEW b \in DOMAIN calls', a # b
                   PROVE  calls'[a].ids \cap calls'[b].ids = {}
        BY DEF AtMostOnce
      <4>1. CASE a \in DOMAIN calls /\ calls'[a] = calls[a]
        <5>1. CASE b \in DOMAIN calls /\ calls'[b] = calls[b]
          BY <4>1, <5>1 DEF Orderly, AtMostOnce
        <5>2. CASE b = Len(calls) + 1 /\ calls'[b] = new
          BY <3>4, <4>1, <5>2
        <5> QED BY <3>3, <5>1, <5>2
      <4>2. CASE a = Len(calls) + 1 /\ calls'[a] = new
        <5>1. b \in DOMAIN calls /\ calls'[b] = calls[b]
          BY <3>3, <4>2
        <5> QED BY <3>4, <4>2, <5>1
      <4> QED BY <3>3, <4>1, <4>2
    <3>6. \A a \in DOMAIN calls' : \A id \in calls'[a].ids :
            id \in pend[id[3]] => calls'[a].boot = boot
      BY <3>2, <3>3 DEF Orderly
    <3> QED BY <2>1, <3>5, <3>6 DEF Orderly
  <2> QED BY <1>4, <2>3, <2>4 DEF CheckFlag
<1>5. CASE MemsetField
  <2>1. UNCHANGED <<calls, boot, qemu>> /\ qemu = "run"
    BY <1>5 DEF MemsetField
  <2>2. \A j \in Kinds : pend'[j] \subseteq pend[j]
    BY <1>0, <1>5 DEF MemsetField
  <2>3. \A a \in DOMAIN calls : \A id \in calls[a].ids : id[3] \in Kinds
    BY <1>0, CallTypes
  <2> QED BY <2>1, <2>2, <2>3 DEF Orderly, AtMostOnce
<1>6. CASE \E c \in Clients : Client(c)
  <2>1. PICK c \in Clients : Client(c)
    BY <1>6
  <2>2. UNCHANGED <<qemu, boot, step, calls>>
    BY <2>1 DEF Client, Help, Connect, Recognise, EndTurn, Disconnect, Fault,
                CopyFname, CopyMname, SetFlag, WaitCommandHandled
  <2>3. CASE SetFlag(c)
    <3> DEFINE k == cl[c].kind
    <3>1. cl[c].pc = "flag" /\ pend' = [pend EXCEPT ![k] = pend[k] \cup {Id(c)}]
      BY <2>3 DEF SetFlag
    <3>2. k \in Kinds /\ cl[c].i \in Nat
      BY DEF IInv, TypeOK, ClientStates
    <3>3. ~Posted(Id(c))
      BY <3>1, <3>2 DEF Id, Posted, Posting
    <3>4. ASSUME NEW a \in DOMAIN calls, NEW id \in calls[a].ids, id \in pend'[id[3]]
          PROVE  id \in pend[id[3]]
      <4>1. id # Id(c) /\ id[3] \in Kinds
        BY <1>0, <3>3, CallTypes DEF IInv, CallInv
      <4> HIDE DEF k
      <4> QED BY <1>0, <3>1, <3>4, <4>1
    <3> QED BY <2>2, <3>4 DEF Orderly, AtMostOnce
  <2>4. CASE ~SetFlag(c)
    <3>1. UNCHANGED pend
      BY <2>1, <2>4 DEF Client, Help, Connect, Recognise, EndTurn, Disconnect,
                        Fault, CopyFname, CopyMname, WaitCommandHandled
    <3> QED BY <1>1, <2>2, <3>1 DEF Orderly
  <2> QED BY <2>3, <2>4
<1>7. CASE UNCHANGED vars
  BY <1>1, <1>7 DEF vars, chanVars, Orderly
<1> QED BY <1>2, <1>3, <1>4, <1>5, <1>6, <1>7 DEF Next, Boot, TCGThread, Handler

(***************************************************************************)
(* As long as QEMU leaves only by an orderly shutdown, a post is carried   *)
(* out at most once over any number of restarts on the same segment.       *)
(***************************************************************************)
THEOREM OrderlySafety == Spec => []AtMostOnce
<1>1. Init => IInv /\ Orderly
  <2>1. Init => Orderly
    BY DEF Init, Orderly, AtMostOnce
  <2> QED BY <2>1, InitIInv
<1>2. IInv /\ Orderly /\ [Next]_vars => IInv' /\ Orderly'
  BY NextIInv, NextOrderly
<1>3. IInv /\ Orderly => AtMostOnce
  BY DEF Orderly
<1> QED BY <1>1, <1>2, <1>3, PTL DEF Spec
================================================================================
