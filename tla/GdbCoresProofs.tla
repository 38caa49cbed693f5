---------------------------- MODULE GdbCoresProofs ----------------------------
(***************************************************************************)
(* Theorems about the corefiles of GdbSession: each is handed out once, to   *)
(* the request it belongs to, and a crash makes one; for any number of GDB   *)
(* processes, boots, requests and breakpoints.                              *)
(*                                                                         *)
(* A corefile is written by GDB, then a line of output nobody has read, then *)
(* an entry of corefiles, then handed out.  The invariants follow it.       *)
(***************************************************************************)
EXTENDS GdbSessionProofs

-----------------------------------------------------------------------------
(* Where a corefile is. *)

Saved(g, i) == stdout[g][i].kind = "saved"
Unread(c) ==
    \E g \in 1..Gdbs : \E i \in DOMAIN stdout[g] :
        Saved(g, i) /\ stdout[g][i].core = c
Kept(c)    == \E i \in DOMAIN corefiles : corefiles[i] = c
Written(c) == Unread(c) \/ Kept(c)
Pending(i, kind) == stdin[i].kind = kind

\* A GDB reports its own corefiles, each once, before they are kept.
OwnLines ==
    \A g \in 1..Gdbs : \A i \in DOMAIN stdout[g] : Saved(g, i) =>
        /\ stdout[g][i].core.gdb = g
        /\ ~Kept(stdout[g][i].core)
        /\ \A j \in DOMAIN stdout[g] :
              Saved(g, j) /\ stdout[g][j].core = stdout[g][i].core => i = j

\* Nothing was written for a GDB or a request there has not been.
NoneAhead ==
    \A c \in Cores : Written(c) => c.gdb <= gen /\ (Unasked(c) \/ c.of <= asked)

\* A request that GDB has yet to execute has no corefile yet.
NoneForPending ==
    \A i \in DOMAIN stdin : Pending(i, "gcore") =>
        /\ stdin[i].n <= asked
        /\ \A c \in Cores : Written(c) => c.of # stdin[i].n
        /\ \A j \in DOMAIN stdin :
              Pending(j, "gcore") /\ stdin[j].n = stdin[i].n => i = j

SetupPending == \E i \in DOMAIN stdin : Pending(i, "setup")

\* A breakpoint of the present GDB that has written is not armed any more, nor
\* are the siblings of a crash breakpoint, and none is set up again.
Spent(c) ==
    /\ ~SetupPending /\ pc \notin {"ready", "attach"}
    /\ c.of \notin armed
    /\ IsAuto(c) => armed \cap Specs = {}

ArmedOnce ==
    /\ \A c \in Cores : Written(c) /\ Unasked(c) /\ c.gdb = gen => Spent(c)
    /\ SetupPending \/ pc \in {"ready", "attach"} => armed = {}
    /\ pc \in {"ready", "attach"} => ~SetupPending
    /\ \A i, j \in DOMAIN stdin :
          Pending(i, "setup") /\ Pending(j, "setup") => i = j

OneAuto ==
    \A c, d \in Cores :
        Written(c) /\ Written(d) /\ IsAuto(c) /\ IsAuto(d) /\ c.gdb = d.gdb => c = d

CoreInv == OwnLines /\ NoneAhead /\ NoneForPending /\ ArmedOnce /\ OneAuto

\* What was handed out is consumed, and what is about to be is not.
HandedInv ==
    /\ \A k \in DOMAIN handed : handed[k].core \in consumed
    /\ \A c \in consumed : Kept(c)
    /\ lastCore # NoCore => Kept(lastCore)
    /\ pc = "gcore" /\ lastCore # NoCore => lastCore \notin consumed
    /\ HandedOnce

-----------------------------------------------------------------------------
(* Whose answer it is. *)

\* A request is under way and its end has not been seen.
Outstanding == pc = "gcore" /\ ~gcoreDone

Requested(line) == line.kind = "saved" /\ ~Unasked(line.core)

\* The commands of a request.
Asking == {"gcore", "echoGcore"}

\* All that is of requests is of the one outstanding, and its end comes last.
InputOrdered ==
    /\ \A i \in DOMAIN stdin : Pending(i, "gcore") =>
          Outstanding /\ stdin[i].n = asked
    /\ \A i \in DOMAIN stdin : Pending(i, "echoGcore") =>
          /\ Outstanding
          /\ \A j \in DOMAIN stdin : j > i => stdin[j].kind \notin Asking

OutputOrdered ==
    /\ \A i \in DOMAIN stdout[gen] : Requested(stdout[gen][i]) =>
          Outstanding /\ stdout[gen][i].core.of = asked
    /\ \A i \in DOMAIN stdout[gen] : stdout[gen][i].kind = "gcoreDone" =>
          /\ Outstanding
          /\ \A j \in DOMAIN stdin : stdin[j].kind \notin Asking
          /\ \A j \in DOMAIN stdout[gen] : j > i =>
                stdout[gen][j].kind # "gcoreDone" /\ ~Requested(stdout[gen][j])

InOrder == clean /\ ~late /\ gen # 0 => InputOrdered /\ OutputOrdered

DeadIsDeaf == ~alive => stdin = <<>>

LastIsOwn ==
    pc = "gcore" /\ lastCore # NoCore /\ clean =>
        /\ lastCore.gdb = gen
        /\ ~late => Unasked(lastCore) \/ lastCore.of = asked

AnswerInv == InOrder /\ DeadIsDeaf /\ LastIsOwn /\ AnswerIsOwn

\* The corefiles of a GDB with no reader beside its own are the latest ones.
PresentLast ==
    clean => \A i, j \in DOMAIN corefiles :
        i < j /\ corefiles[i].gdb = gen => corefiles[j].gdb = gen

-----------------------------------------------------------------------------
(* How the steps move a corefile along. *)

LEMMA WhatWasWritten ==
    ASSUME UNCHANGED <<stdout, corefiles>>
    PROVE  \A c : (Written(c)' <=> Written(c)) /\ (Kept(c)' <=> Kept(c))
BY DEF Written, Unread, Kept, Saved

(* A line that is printed is the last of its GDB's.                         *)
LEMMA LinePrinted ==
    ASSUME TypeOK, alive, NEW line \in Lines, Prints(<<line>>)
    PROVE  /\ gen \in 1..Gdbs
           /\ stdout'[gen] \in Seq(Lines)
           /\ \A g \in 1..Gdbs : g # gen => stdout'[g] = stdout[g]
           /\ DOMAIN stdout'[gen] = DOMAIN stdout[gen] \cup {Len(stdout[gen]) + 1}
           /\ \A i \in DOMAIN stdout[gen] :
                 stdout'[gen][i] = stdout[gen][i] /\ i < Len(stdout[gen]) + 1
           /\ stdout'[gen][Len(stdout[gen]) + 1] = line
<1>1. gen \in 1..Gdbs
  BY BoundAssumption DEF TypeOK, CallOK
<1>2. stdout[gen] \in Seq(Lines) /\ stdout'[gen] = Append(stdout[gen], line)
  BY <1>1 DEF Prints, TypeOK, OutputOK
<1>3. \A g \in 1..Gdbs : g # gen => stdout'[g] = stdout[g]
  BY <1>1 DEF Prints, TypeOK, OutputOK
<1>4. /\ stdout'[gen] \in Seq(Lines)
      /\ Len(stdout'[gen]) = Len(stdout[gen]) + 1
      /\ \A i \in 1..Len(stdout[gen]) : stdout'[gen][i] = stdout[gen][i]
      /\ stdout'[gen][Len(stdout[gen]) + 1] = line
  BY <1>2, AppendProperties
<1>5. /\ DOMAIN stdout[gen] = 1..Len(stdout[gen])
      /\ DOMAIN stdout'[gen] = 1..(Len(stdout[gen]) + 1)
      /\ Len(stdout[gen]) \in Nat
  BY <1>2, <1>4, LenProperties
<1> QED BY <1>1, <1>3, <1>4, <1>5

LEMMA WrittenByPrint ==
    ASSUME TypeOK, alive, NEW line \in Lines, Prints(<<line>>),
           UNCHANGED corefiles
    PROVE  /\ \A c : Kept(c)' <=> Kept(c)
           /\ \A c : Written(c)' <=>
                        Written(c) \/ (line.kind = "saved" /\ line.core = c)
<1>1. \A c : Kept(c)' <=> Kept(c)
  BY DEF Kept
<1>2. ASSUME NEW c, Unread(c)'
      PROVE  Unread(c) \/ (line.kind = "saved" /\ line.core = c)
  <2>1. PICK g \in 1..Gdbs : \E i \in DOMAIN stdout'[g] :
                stdout'[g][i].kind = "saved" /\ stdout'[g][i].core = c
    BY <1>2 DEF Unread, Saved
  <2> QED BY <2>1, LinePrinted DEF Unread, Saved
<1>3. ASSUME NEW c, Unread(c) PROVE Unread(c)'
  <2>1. PICK g \in 1..Gdbs : \E i \in DOMAIN stdout[g] :
                Saved(g, i) /\ stdout[g][i].core = c
    BY <1>3 DEF Unread
  <2>2. PICK i \in DOMAIN stdout[g] : Saved(g, i) /\ stdout[g][i].core = c
    BY <2>1
  <2>3. i \in DOMAIN stdout'[g] /\ stdout'[g][i] = stdout[g][i]
    BY <2>2, LinePrinted
  <2> QED BY <2>2, <2>3 DEF Unread, Saved
<1>4. ASSUME NEW c, line.kind = "saved", line.core = c PROVE Unread(c)'
  BY <1>4, LinePrinted DEF Unread, Saved
<1> QED BY <1>1, <1>2, <1>3, <1>4 DEF Written

(* A line that is read was the first of its GDB's.                          *)
LEMMA LineTaken ==
    ASSUME TypeOK, NEW g \in 1..Gdbs, ReadLine(g)
    PROVE  /\ \A h \in 1..Gdbs : h # g => stdout'[h] = stdout[h]
           /\ 1 \in DOMAIN stdout[g] /\ stdout[g][1] = Head(stdout[g])
           /\ stdout[g][1] \in Lines
           /\ \A i \in DOMAIN stdout'[g] :
                 /\ i \in Nat \ {0}
                 /\ i + 1 \in DOMAIN stdout[g]
                 /\ stdout'[g][i] = stdout[g][i + 1]
           /\ \A i \in DOMAIN stdout[g] :
                 i = 1 \/ (i - 1 \in DOMAIN stdout'[g]
                             /\ stdout'[g][i - 1] = stdout[g][i])
<1>1. stdout[g] \in Seq(Lines) /\ stdout[g] # <<>>
      /\ stdout'[g] = Tail(stdout[g])
      /\ \A h \in 1..Gdbs : h # g => stdout'[h] = stdout[h]
  BY DEF ReadLine, TypeOK, OutputOK
<1>2. /\ Tail(stdout[g]) \in Seq(Lines)
      /\ Len(Tail(stdout[g])) = Len(stdout[g]) - 1
      /\ \A i \in 1..Len(Tail(stdout[g])) : Tail(stdout[g])[i] = stdout[g][i + 1]
  BY <1>1, HeadTailProperties
<1>3. /\ DOMAIN stdout[g] = 1..Len(stdout[g]) /\ Len(stdout[g]) \in Nat \ {0}
      /\ DOMAIN stdout'[g] = 1..(Len(stdout[g]) - 1)
  BY <1>1, <1>2, LenProperties, EmptySeq
<1>4. stdout[g][1] = Head(stdout[g]) /\ stdout[g][1] \in Lines
  BY <1>1, <1>3, ElementOfSeq
<1> QED BY <1>1, <1>2, <1>3, <1>4

LEMMA KeptByRead ==
    ASSUME TypeOK, NEW g \in 1..Gdbs, ReadLine(g)
    PROVE  \A c : Kept(c)' <=> Kept(c) \/ (Saved(g, 1) /\ stdout[g][1].core = c)
<1>1. stdout[g][1] = Head(stdout[g]) /\ stdout[g][1] \in Lines
  BY LineTaken
<1>2. CASE Saved(g, 1)
  <2>1. stdout[g][1].core \in Cores
    BY <1>1, <1>2 DEF Saved, Lines, Line, Marker
  <2>2. corefiles' = Append(corefiles, stdout[g][1].core) /\ corefiles \in Seq(Cores)
    BY <1>1, <1>2 DEF ReadLine, Saved, TypeOK, CoresOK
  <2>3. /\ corefiles' \in Seq(Cores)
        /\ Len(corefiles') = Len(corefiles) + 1
        /\ \A i \in 1..Len(corefiles) : corefiles'[i] = corefiles[i]
        /\ corefiles'[Len(corefiles) + 1] = stdout[g][1].core
    BY <2>1, <2>2, AppendProperties
  <2>4. /\ DOMAIN corefiles = 1..Len(corefiles) /\ Len(corefiles) \in Nat
        /\ DOMAIN corefiles' = 1..(Len(corefiles) + 1)
    BY <2>2, <2>3, LenProperties
  <2> QED BY <1>2, <2>3, <2>4 DEF Kept
<1>3. CASE ~Saved(g, 1)
  BY <1>1, <1>3 DEF ReadLine, Saved, Kept
<1> QED BY <1>2, <1>3

LEMMA WrittenByRead ==
    ASSUME TypeOK, NEW g \in 1..Gdbs, ReadLine(g)
    PROVE  \A c : Written(c)' <=> Written(c)
<1>1. ASSUME NEW c, Unread(c)' PROVE Unread(c)
  <2>1. PICK h \in 1..Gdbs : \E i \in DOMAIN stdout'[h] :
                stdout'[h][i].kind = "saved" /\ stdout'[h][i].core = c
    BY <1>1 DEF Unread, Saved
  <2> QED BY <2>1, LineTaken DEF Unread, Saved
<1>2. ASSUME NEW c, Unread(c)
      PROVE  Unread(c)' \/ (Saved(g, 1) /\ stdout[g][1].core = c)
  <2>1. PICK h \in 1..Gdbs : \E i \in DOMAIN stdout[h] :
                Saved(h, i) /\ stdout[h][i].core = c
    BY <1>2 DEF Unread
  <2>2. CASE h = g
    BY <2>1, <2>2, LineTaken DEF Unread, Saved
  <2>3. CASE h # g
    BY <2>1, <2>3, LineTaken DEF Unread, Saved
  <2> QED BY <2>2, <2>3
<1>3. Saved(g, 1) => Unread(stdout[g][1].core)
  BY LineTaken DEF Unread
<1> QED BY <1>1, <1>2, <1>3, KeptByRead DEF Written

-----------------------------------------------------------------------------
(* How the steps change GDB's input. *)

\* All commands of some kinds after the step were there before it.
Fewer(kinds) ==
    \E k \in {0, 1} : \A i \in DOMAIN stdin' : stdin'[i].kind \in kinds =>
        i \in Nat /\ i + k \in DOMAIN stdin /\ stdin'[i] = stdin[i + k]

LEMMA InputTaken ==
    ASSUME TypeOK, stdin # <<>>, stdin' = Tail(stdin)
    PROVE  /\ 1 \in DOMAIN stdin /\ stdin[1] = Head(stdin)
           /\ stdin[1] \in Commands
           /\ \A i \in DOMAIN stdin' :
                 /\ i \in Nat \ {0}
                 /\ i + 1 \in DOMAIN stdin
                 /\ stdin'[i] = stdin[i + 1]
<1>1. stdin \in Seq(Commands)
  BY DEF TypeOK, GdbOK
<1>2. /\ Tail(stdin) \in Seq(Commands)
      /\ Len(Tail(stdin)) = Len(stdin) - 1
      /\ \A i \in 1..Len(Tail(stdin)) : Tail(stdin)[i] = stdin[i + 1]
  BY <1>1, HeadTailProperties
<1>3. /\ DOMAIN stdin = 1..Len(stdin) /\ Len(stdin) \in Nat \ {0}
      /\ DOMAIN stdin' = 1..(Len(stdin) - 1)
  BY <1>1, <1>2, LenProperties, EmptySeq
<1>4. stdin[1] = Head(stdin) /\ stdin[1] \in Commands
  BY <1>1, <1>3, ElementOfSeq
<1> QED BY <1>2, <1>3, <1>4

LEMMA FewerTaken ==
    ASSUME TypeOK, NEW kinds,
           \/ stdin' = stdin \/ stdin' = <<>>
           \/ stdin # <<>> /\ stdin' = Tail(stdin)
    PROVE  Fewer(kinds)
<1>1. CASE stdin' = stdin
  <2>1. \A i \in DOMAIN stdin : i \in Nat /\ i + 0 = i
    BY LenProperties DEF TypeOK, GdbOK
  <2> QED BY <1>1, <2>1 DEF Fewer
<1>2. CASE stdin' = <<>>
  BY <1>2 DEF Fewer
<1>3. CASE stdin # <<>> /\ stdin' = Tail(stdin)
  BY <1>3, InputTaken DEF Fewer
<1> QED BY <1>1, <1>2, <1>3

LEMMA InputSent ==
    ASSUME TypeOK, NEW commands \in Seq(Commands), Send(commands), alive
    PROVE  /\ \A i \in DOMAIN stdin' :
                 \/ i \in DOMAIN stdin /\ stdin'[i] = stdin[i]
                 \/ /\ i > Len(stdin) /\ i - Len(stdin) \in DOMAIN commands
                    /\ stdin'[i] = commands[i - Len(stdin)]
           /\ \A i \in DOMAIN stdin' : i \in Nat
           /\ \A i \in DOMAIN stdin : i \in Nat /\ i <= Len(stdin)
           /\ Len(stdin) \in Nat
<1>1. stdin \in Seq(Commands) /\ stdin' = stdin \o commands
  BY DEF TypeOK, GdbOK, Send
<1>2. /\ stdin' \in Seq(Commands)
      /\ Len(stdin') = Len(stdin) + Len(commands)
      /\ \A i \in 1..Len(stdin) + Len(commands) :
            stdin'[i] = IF i <= Len(stdin) THEN stdin[i]
                                           ELSE commands[i - Len(stdin)]
  BY <1>1, ConcatProperties
<1>3. /\ DOMAIN stdin = 1..Len(stdin) /\ Len(stdin) \in Nat
      /\ DOMAIN commands = 1..Len(commands) /\ Len(commands) \in Nat
      /\ DOMAIN stdin' = 1..(Len(stdin) + Len(commands))
  BY <1>1, <1>2, LenProperties
<1> QED BY <1>2, <1>3

LEMMA FewerSent ==
    ASSUME TypeOK, NEW kinds, NEW commands \in Seq(Commands), Send(commands),
           \A i \in DOMAIN commands : commands[i].kind \notin kinds
    PROVE  Fewer(kinds)
<1>1. CASE alive
  <2>1. \A i \in DOMAIN stdin' : stdin'[i].kind \in kinds =>
            i \in Nat /\ i \in DOMAIN stdin /\ stdin'[i] = stdin[i]
    BY <1>1, InputSent
  <2>2. \A i \in Nat : i + 0 = i
    OBVIOUS
  <2> QED BY <2>1, <2>2 DEF Fewer
<1>2. CASE ~alive
  BY <1>2, FewerTaken DEF Send
<1> QED BY <1>1, <1>2

-----------------------------------------------------------------------------
(* What leaves the parts of the invariant alone. *)

LEMMA PendingFrame ==
    ASSUME TypeOK, TypeOK', NoneForPending, asked <= asked', Fewer({"gcore"}),
           \A c \in Cores : Written(c)' => Written(c)
    PROVE  NoneForPending'
<1>1. PICK k \in {0, 1} : \A i \in DOMAIN stdin' : Pending(i, "gcore")' =>
          i \in Nat /\ i + k \in DOMAIN stdin /\ stdin'[i] = stdin[i + k]
  BY DEF Fewer, Pending
<1>2. \A c \in Commands : c.kind = "gcore" => c.n \in Int
  BY GcoreCommand, BoundAssumption
<1>3. asked \in Int /\ asked' \in Int
  BY BoundAssumption DEF TypeOK, CallOK
<1> SUFFICES ASSUME NEW i \in DOMAIN stdin', Pending(i, "gcore")'
             PROVE  /\ stdin'[i].n <= asked'
                    /\ \A c \in Cores : Written(c)' => c.of # stdin'[i].n
                    /\ \A j \in DOMAIN stdin' :
                          Pending(j, "gcore")' /\ stdin'[j].n = stdin'[i].n => i = j
  BY DEF NoneForPending, Pending
<1>4. /\ i + k \in DOMAIN stdin /\ stdin'[i] = stdin[i + k] /\ i \in Nat
      /\ Pending(i + k, "gcore")
  BY <1>1 DEF Pending
<1>5. stdin[i + k] \in Commands
  BY <1>4, LenProperties, ElementOfSeq DEF TypeOK, GdbOK
<1>6. stdin[i + k].n \in Int /\ stdin[i + k].n <= asked
  BY <1>2, <1>4, <1>5 DEF NoneForPending, Pending
<1>7. ASSUME NEW j \in DOMAIN stdin', Pending(j, "gcore")', stdin'[j].n = stdin'[i].n
      PROVE  i = j
  <2>1. /\ j + k \in DOMAIN stdin /\ stdin'[j] = stdin[j + k] /\ j \in Nat
        /\ Pending(j + k, "gcore")
    BY <1>1, <1>7 DEF Pending
  <2>2. i + k = j + k
    BY <1>4, <1>7, <2>1 DEF NoneForPending
  <2> QED BY <1>4, <2>1, <2>2
<1> QED BY <1>3, <1>4, <1>6, <1>7 DEF NoneForPending

LEMMA ArmedFrame ==
    ASSUME ArmedOnce, UNCHANGED gen, Fewer({"setup"}), armed' \subseteq armed,
           pc' \in {"ready", "attach"} => pc \in {"ready", "attach"},
           \A c \in Cores : Written(c)' => Written(c)
    PROVE  ArmedOnce'
<1>1. PICK k \in {0, 1} : \A i \in DOMAIN stdin' : Pending(i, "setup")' =>
          i \in Nat /\ i + k \in DOMAIN stdin /\ stdin'[i] = stdin[i + k]
  BY DEF Fewer, Pending
<1>2. \A i \in DOMAIN stdin' : Pending(i, "setup")' =>
          i \in Nat /\ i + k \in DOMAIN stdin /\ Pending(i + k, "setup")
  BY <1>1 DEF Pending
<1>3. SetupPending' => SetupPending
  BY <1>2 DEF SetupPending
<1>4. \A i, j \in DOMAIN stdin' :
          Pending(i, "setup")' /\ Pending(j, "setup")' => i = j
  <2> SUFFICES ASSUME NEW i \in DOMAIN stdin', NEW j \in DOMAIN stdin',
                      Pending(i, "setup")', Pending(j, "setup")'
               PROVE  i = j
    OBVIOUS
  <2>1. i + k = j + k /\ i \in Nat /\ j \in Nat
    BY <1>2 DEF ArmedOnce
  <2> QED BY <2>1
<1>5. \A c \in Cores : Spent(c) => Spent(c)'
  BY <1>3 DEF Spent, IsAuto
<1> QED BY <1>3, <1>4, <1>5 DEF ArmedOnce, Unasked

\* Steps that print and read nothing.
LEMMA CoreFrame ==
    ASSUME TypeOK, TypeOK', CoreInv, UNCHANGED <<stdout, corefiles, gen>>,
           asked <= asked', Fewer({"gcore"}), Fewer({"setup"}),
           armed' \subseteq armed,
           pc' \in {"ready", "attach"} => pc \in {"ready", "attach"}
    PROVE  CoreInv'
<1>1. \A c : (Written(c)' <=> Written(c)) /\ (Kept(c)' <=> Kept(c))
  BY WhatWasWritten
<1>2. NoneForPending' /\ ArmedOnce'
  BY <1>1, PendingFrame, ArmedFrame DEF CoreInv
<1>3. OwnLines'
  BY <1>1 DEF CoreInv, OwnLines, Saved
<1>4. OneAuto'
  BY <1>1 DEF CoreInv, OneAuto, IsAuto
<1>5. NoneAhead'
  <2> SUFFICES ASSUME NEW c \in Cores, Written(c)
               PROVE  c.gdb <= gen /\ (Unasked(c) \/ c.of <= asked')
    BY <1>1 DEF NoneAhead, Unasked
  <2>1. c.gdb <= gen /\ (Unasked(c) \/ c.of <= asked)
    BY DEF CoreInv, NoneAhead
  <2>2. Unasked(c) \/ c.of \in 1..Requests
    BY DEF Cores, Unasked
  <2>3. asked \in Int /\ asked' \in Int /\ (~Unasked(c) => c.of \in Int)
    BY <2>2, BoundAssumption DEF TypeOK, CallOK
  <2> QED BY <2>1, <2>3
<1> QED BY <1>2, <1>3, <1>4, <1>5 DEF CoreInv

-----------------------------------------------------------------------------
(* The invariant is kept by the caller. *)

(* A new GDB has written nothing, and knows of no request.                  *)
LEMMA CoreLaunch ==
    ASSUME TypeOK, TypeOK', CoreInv, Launch
    PROVE  CoreInv'
<1>1. UNCHANGED <<stdout, corefiles>>
  BY DEF Launch, coreVars
<1>2. CASE Spawned
  <2>1. gen \in Nat /\ gen' = gen + 1 /\ asked' = asked /\ armed' = {}
        /\ stdin' = <<Command("echoReady", 0)>>
    BY <1>2, BoundAssumption DEF Spawned, TypeOK, CallOK
  <2>2. \A c : (Written(c)' <=> Written(c)) /\ (Kept(c)' <=> Kept(c))
    BY <1>1, WhatWasWritten
  <2>3. \A i \in DOMAIN stdin' : stdin'[i].kind = "echoReady"
    BY <2>1 DEF Command
  <2>4. NoneForPending' /\ ~SetupPending'
    BY <2>3 DEF NoneForPending, SetupPending, Pending
  <2>5. OwnLines' /\ OneAuto'
    BY <1>1, <2>2 DEF CoreInv, OwnLines, OneAuto, Saved, IsAuto
  <2>6. \A c \in Cores : Written(c) =>
            c.gdb < gen + 1 /\ (Unasked(c) \/ c.of <= asked)
    <3> SUFFICES ASSUME NEW c \in Cores, Written(c)
                 PROVE  c.gdb < gen + 1 /\ (Unasked(c) \/ c.of <= asked)
      OBVIOUS
    <3>1. c.gdb <= gen /\ (Unasked(c) \/ c.of <= asked)
      BY DEF CoreInv, NoneAhead
    <3>2. c.gdb \in Int
      BY BoundAssumption DEF Cores
    <3> QED BY <2>1, <3>1, <3>2
  <2>7. NoneAhead'
    <3> SUFFICES ASSUME NEW c \in Cores, Written(c)
                 PROVE  c.gdb <= gen + 1 /\ (Unasked(c) \/ c.of <= asked)
      BY <2>1, <2>2 DEF NoneAhead, Unasked
    <3>1. c.gdb \in Int
      BY BoundAssumption DEF Cores
    <3> QED BY <2>1, <2>6, <3>1
  <2>8. \A c \in Cores : Written(c)' => c.gdb # gen'
    <3> SUFFICES ASSUME NEW c \in Cores, Written(c) PROVE c.gdb # gen + 1
      BY <2>1, <2>2
    <3>1. c.gdb \in Int
      BY BoundAssumption DEF Cores
    <3> QED BY <2>1, <2>6, <3>1
  <2>9. ArmedOnce'
    BY <2>1, <2>3, <2>4, <2>8 DEF ArmedOnce, Pending
  <2> QED BY <2>4, <2>5, <2>7, <2>9 DEF CoreInv
<1>3. CASE UNCHANGED <<callVars, gdbVars, readerVars>>
  <2>1. UNCHANGED <<gen, asked, stdin, armed, pc>>
    BY <1>3 DEF callVars, gdbVars
  <2>2. Fewer({"gcore"}) /\ Fewer({"setup"})
    BY <2>1, FewerTaken
  <2>3. asked <= asked'
    BY <2>1, BoundAssumption DEF TypeOK, CallOK
  <2> QED BY <1>1, <2>1, <2>2, <2>3, CoreFrame
<1> QED BY <1>2, <1>3 DEF Launch

(* The breakpoints are set up once, after the start.                        *)
LEMMA CoreAttached ==
    ASSUME TypeOK, TypeOK', CoreInv, AttachAnswered
    PROVE  CoreInv'
<1>1. /\ UNCHANGED <<stdout, corefiles, gen, asked>> /\ asked <= asked'
      /\ armed' \subseteq armed
  BY BoundAssumption DEF AttachAnswered, Goto, Send, GdbGone, coreVars, TypeOK,
     CallOK
<1>2. CASE attached /\ alive
  <2> DEFINE setup == <<Command("setup", 0)>>
  <2>1. setup \in Seq(Commands) /\ Send(setup) /\ pc = "attach" /\ pc' = "up"
    BY <1>2, CommandTypes DEF AttachAnswered, Goto
  <2>2. DOMAIN setup = {1} /\ setup[1].kind = "setup"
    BY DEF Command
  <2> HIDE DEF setup
  <2>3. Fewer({"gcore"})
    BY <2>1, <2>2, FewerSent
  <2>4. \A c : (Written(c)' <=> Written(c)) /\ (Kept(c)' <=> Kept(c))
    BY <1>1, WhatWasWritten
  <2>5. NoneForPending'
    BY <1>1, <2>3, <2>4, PendingFrame DEF CoreInv
  <2>6. OwnLines' /\ OneAuto' /\ NoneAhead'
    BY <1>1, <2>4 DEF CoreInv, OwnLines, OneAuto, NoneAhead, Saved, IsAuto, Unasked
  <2>7. ~SetupPending /\ armed = {}
        /\ \A c \in Cores : Written(c) /\ Unasked(c) => c.gdb # gen
    BY <2>1 DEF CoreInv, ArmedOnce, Spent
  <2>8. \A i \in DOMAIN stdin' : Pending(i, "setup")' => i = Len(stdin) + 1
    BY <1>2, <2>1, <2>2, <2>7, InputSent DEF SetupPending, Pending
  <2>9. ArmedOnce'
    BY <1>1, <2>1, <2>4, <2>7, <2>8 DEF ArmedOnce, Unasked
  <2> QED BY <2>5, <2>6, <2>9 DEF CoreInv
<1>3. CASE ~(attached /\ alive)
  <2>1. stdin' = stdin \/ stdin' = <<>>
    BY <1>3 DEF AttachAnswered, Send, GdbGone
  <2>2. pc' \notin {"ready", "attach"}
    BY <1>3 DEF AttachAnswered, Goto
  <2> QED BY <1>1, <2>1, <2>2, FewerTaken, CoreFrame
<1> QED BY <1>2, <1>3

(* A request is a new one.                                                  *)
LEMMA CoreAsked ==
    ASSUME TypeOK, TypeOK', CoreInv, AskGcore
    PROVE  CoreInv'
<1> DEFINE commands == <<Command("gcore", asked + 1), Command("echoGcore", 0)>>
<1>1. /\ UNCHANGED <<stdout, corefiles, gen, armed>> /\ alive
      /\ asked' = asked + 1 /\ pc' = "gcore" /\ asked \in Nat
      /\ asked + 1 \in 1..Requests
  BY BoundAssumption DEF AskGcore, Send, TypeOK, CallOK
<1>2. commands \in Seq(Commands) /\ Send(commands)
  BY <1>1, CommandTypes DEF AskGcore
<1>3. /\ DOMAIN commands = {1, 2}
      /\ commands[1].kind = "gcore" /\ commands[1].n = asked + 1
      /\ commands[2].kind = "echoGcore"
  BY DEF Command
<1> HIDE DEF commands
<1>4. \A c : (Written(c)' <=> Written(c)) /\ (Kept(c)' <=> Kept(c))
  BY <1>1, WhatWasWritten
<1>5. Fewer({"setup"})
  BY <1>2, <1>3, FewerSent
<1>6. ArmedOnce'
  BY <1>1, <1>4, <1>5, ArmedFrame DEF CoreInv
<1>7. OwnLines' /\ OneAuto'
  BY <1>1, <1>4 DEF CoreInv, OwnLines, OneAuto, Saved, IsAuto
<1>8. \A c \in Cores : Written(c) =>
          /\ c.gdb <= gen
          /\ Unasked(c) \/ (c.of <= asked /\ c.of <= asked + 1)
          /\ c.of # asked + 1
  <2> SUFFICES ASSUME NEW c \in Cores, Written(c)
               PROVE  /\ c.gdb <= gen
                      /\ Unasked(c) \/ (c.of <= asked /\ c.of <= asked + 1)
                      /\ c.of # asked + 1
    OBVIOUS
  <2>1. c.gdb <= gen /\ (Unasked(c) \/ c.of <= asked)
    BY DEF CoreInv, NoneAhead
  <2>2. Unasked(c) \/ c.of \in 1..Requests
    BY DEF Cores, Unasked
  <2>3. CASE Unasked(c)
    BY <1>1, <2>1, <2>3, SpecAssumption DEF Unasked, Breakpoints
  <2>4. CASE ~Unasked(c)
    <3>1. c.of \in Int /\ c.of <= asked
      BY <2>1, <2>2, <2>4, BoundAssumption
    <3> QED BY <1>1, <2>1, <3>1
  <2> QED BY <2>3, <2>4
<1>9. NoneAhead'
  BY <1>1, <1>4, <1>8 DEF NoneAhead, Unasked
<1>10. NoneForPending'
  <2>1. \A i \in DOMAIN stdin' : Pending(i, "gcore")' =>
            \/ /\ i \in DOMAIN stdin /\ Pending(i, "gcore")
               /\ stdin'[i] = stdin[i]
            \/ i = Len(stdin) + 1 /\ stdin'[i].n = asked + 1
    BY <1>1, <1>2, <1>3, InputSent DEF Pending
  <2>2. \A i \in DOMAIN stdin : Pending(i, "gcore") =>
            stdin[i].n <= asked + 1 /\ stdin[i].n # asked + 1
    <3> SUFFICES ASSUME NEW i \in DOMAIN stdin, Pending(i, "gcore")
                 PROVE  stdin[i].n <= asked + 1 /\ stdin[i].n # asked + 1
      OBVIOUS
    <3>1. stdin[i] \in Commands
      BY LenProperties, ElementOfSeq DEF TypeOK, GdbOK
    <3>2. stdin[i].n \in Int /\ stdin[i].n <= asked
      BY <3>1, GcoreCommand, BoundAssumption DEF Pending, CoreInv, NoneForPending
    <3> QED BY <1>1, <3>2
  <2>3. \A i \in DOMAIN stdin' : Pending(i, "gcore")' =>
            /\ stdin'[i].n <= asked + 1
            /\ \A c \in Cores : Written(c) => c.of # stdin'[i].n
    BY <1>1, <1>8, <2>1, <2>2 DEF CoreInv, NoneForPending
  <2>4. \A i, j \in DOMAIN stdin' :
            Pending(i, "gcore")' /\ Pending(j, "gcore")'
              /\ stdin'[j].n = stdin'[i].n => i = j
    BY <2>1, <2>2 DEF CoreInv, NoneForPending
  <2> QED BY <1>1, <1>4, <2>3, <2>4 DEF NoneForPending, Pending
<1> QED BY <1>6, <1>7, <1>9, <1>10 DEF CoreInv

LEMMA CoreCaller ==
    ASSUME TypeOK, TypeOK', CoreInv, Caller
    PROVE  CoreInv'
<1>1. asked \in Int
  BY BoundAssumption DEF TypeOK, CallOK
<1>2. ASSUME NEW commands \in Seq(Commands), Send(commands),
             \A i \in DOMAIN commands : commands[i].kind \notin {"gcore", "setup"}
      PROVE  Fewer({"gcore"}) /\ Fewer({"setup"}) /\ armed' \subseteq armed
  BY <1>2, FewerSent DEF Send
<1>3. ASSUME GdbGone
      PROVE  Fewer({"gcore"}) /\ Fewer({"setup"}) /\ armed' \subseteq armed
  BY <1>3, FewerTaken DEF GdbGone
<1>4. ASSUME UNCHANGED gdbVars
      PROVE  Fewer({"gcore"}) /\ Fewer({"setup"}) /\ armed' \subseteq armed
  BY <1>4, FewerTaken DEF gdbVars
<1>5. CASE PromptSeen
  <2> DEFINE commands == <<Command("attach", 0), Command("echoAttach", 0)>>
  <2>1. commands \in Seq(Commands)
    BY CommandTypes
  <2>2. \A i \in DOMAIN commands : commands[i].kind \notin {"gcore", "setup"}
    BY DEF Command
  <2>3. Send(commands) \/ GdbGone \/ UNCHANGED gdbVars
    BY <1>5 DEF PromptSeen
  <2> HIDE DEF commands
  <2>4. Fewer({"gcore"}) /\ Fewer({"setup"}) /\ armed' \subseteq armed
    BY <1>2, <1>3, <1>4, <2>1, <2>2, <2>3
  <2>5. UNCHANGED <<stdout, corefiles, gen, asked>> /\ pc = "ready"
    BY <1>5 DEF PromptSeen, Goto, coreVars
  <2> QED BY <1>1, <2>4, <2>5, CoreFrame
<1>6. CASE Stop
  <2> DEFINE commands == <<Command("quit", 0)>>
  <2>1. commands \in Seq(Commands) /\ Send(commands)
    BY <1>6, CommandTypes DEF Stop
  <2>2. \A i \in DOMAIN commands : commands[i].kind \notin {"gcore", "setup"}
    BY DEF Command
  <2> HIDE DEF commands
  <2>3. Fewer({"gcore"}) /\ Fewer({"setup"}) /\ armed' \subseteq armed
    BY <1>2, <2>1, <2>2
  <2>4. UNCHANGED <<stdout, corefiles, gen, asked>> /\ pc' = "quit"
    BY <1>6 DEF Stop, Goto, coreVars
  <2> QED BY <1>1, <2>3, <2>4, CoreFrame
<1>7. CASE StartTimesOut \/ StopReaps \/ StopJoins
  <2>1. UNCHANGED <<stdout, corefiles, gen, asked>> /\ pc' \in {"down", "join"}
        /\ (GdbGone \/ UNCHANGED gdbVars)
    BY <1>7 DEF StartTimesOut, StopReaps, StopJoins, Goto, coreVars
  <2> QED BY <1>1, <1>3, <1>4, <2>1, CoreFrame
<1>8. CASE GcoreAnswered \/ GcoreTimesOut \/ AskHarvest \/ Harvest \/ HarvestTimesOut
  <2>1. UNCHANGED <<stdout, corefiles, gen>> /\ UNCHANGED gdbVars
        /\ pc' \in {"up", "harvest"} /\ (asked' = asked \/ asked' = asked + 1)
    BY <1>8 DEF GcoreAnswered, GcoreTimesOut, AskHarvest, Harvest, HarvestTimesOut,
       Goto, HandOut, coreVars
  <2>2. asked <= asked'
    BY <1>1, <2>1
  <2> QED BY <1>4, <2>1, <2>2, CoreFrame
<1> QED BY <1>5, <1>6, <1>7, <1>8, CoreLaunch, CoreAttached, CoreAsked DEF Caller

-----------------------------------------------------------------------------
(* The invariant is kept by GDB and by the readers. *)

(* A line that is no corefile, and any change of GDB's input that is none.   *)
LEMMA CorePrintsOther ==
    ASSUME TypeOK, TypeOK', CoreInv, alive, NEW line \in Lines,
           Prints(<<line>>), line.kind # "saved",
           UNCHANGED <<corefiles, gen, asked, armed, pc>>,
           Fewer({"gcore"}), Fewer({"setup"})
    PROVE  CoreInv'
<1>1. \A c : (Written(c)' <=> Written(c)) /\ (Kept(c)' <=> Kept(c))
  BY WrittenByPrint
<1>2. asked <= asked'
  BY BoundAssumption DEF TypeOK, CallOK
<1>3. NoneForPending' /\ ArmedOnce'
  BY <1>1, <1>2, PendingFrame, ArmedFrame DEF CoreInv
<1>4. NoneAhead' /\ OneAuto'
  BY <1>1 DEF CoreInv, NoneAhead, OneAuto, IsAuto, Unasked
<1>5. OwnLines'
  BY <1>1, LinePrinted DEF CoreInv, OwnLines, Saved
<1> QED BY <1>3, <1>4, <1>5 DEF CoreInv

(* A corefile that was not there before is written by the present GDB.      *)
LEMMA OwnLinePrinted ==
    ASSUME TypeOK, CoreInv, alive, NEW line \in Lines, Prints(<<line>>),
           UNCHANGED corefiles, line.kind = "saved", line.core.gdb = gen,
           ~Written(line.core)
    PROVE  OwnLines'
<1>1. \A c : Kept(c)' <=> Kept(c)
  BY WrittenByPrint
<1> SUFFICES ASSUME NEW g \in 1..Gdbs, NEW i \in DOMAIN stdout'[g], Saved(g, i)'
             PROVE  /\ stdout'[g][i].core.gdb = g
                    /\ ~Kept(stdout'[g][i].core)
                    /\ \A j \in DOMAIN stdout'[g] :
                          Saved(g, j)' /\ stdout'[g][j].core = stdout'[g][i].core
                             => i = j
  BY <1>1 DEF OwnLines, Saved
<1> DEFINE last == Len(stdout[gen]) + 1
<1>2. \A j \in DOMAIN stdout[g] : Saved(g, j) => stdout[g][j].core # line.core
  BY DEF Written, Unread
<1>3. CASE g = gen
  <2>1. CASE i = last
    BY <1>2, <1>3, <2>1, LinePrinted DEF Saved, Written
  <2>2. CASE i # last
    BY <1>2, <1>3, <2>2, LinePrinted DEF CoreInv, OwnLines, Saved
  <2> QED BY <2>1, <2>2
<1>4. CASE g # gen
  BY <1>4, LinePrinted DEF CoreInv, OwnLines, Saved
<1> QED BY <1>3, <1>4

LEMMA CoreWritten ==
    ASSUME TypeOK, TypeOK', CoreInv, WriteCore, ~UNCHANGED stdout
    PROVE  CoreInv'
<1> DEFINE n == Head(stdin).n
           line == Line("saved", Core(n))
<1>1. /\ alive /\ stdin # <<>> /\ stdin' = Tail(stdin)
      /\ UNCHANGED <<corefiles, gen, asked, armed, pc>>
      /\ Executes("gcore") /\ target # 0 /\ Prints(<<line>>)
  BY DEF WriteCore, Executes, callVars, coreVars
<1>2. /\ stdin[1] = Head(stdin) /\ 1 \in DOMAIN stdin /\ Pending(1, "gcore")
      /\ \A i \in DOMAIN stdin' :
            i \in Nat \ {0} /\ i + 1 \in DOMAIN stdin /\ stdin'[i] = stdin[i + 1]
  BY <1>1, InputTaken DEF Executes, Pending
<1>3. line \in Lines /\ line.kind = "saved" /\ line.core = Core(n)
  BY <1>1, WrittenCore DEF Line
<1>4. n \in 1..Requests /\ n <= asked
  BY <1>1, <1>2, InputTaken, GcoreCommand DEF Pending, CoreInv, NoneForPending
<1>5. Core(n).gdb = gen /\ Core(n).of = n /\ ~Unasked(Core(n)) /\ Core(n) \in Cores
  <2>1. Core(n).gdb = gen /\ Core(n).of = n
    BY DEF Core
  <2>2. ~Unasked(Core(n))
    BY <1>4, <2>1, SpecAssumption DEF Unasked, Breakpoints
  <2>3. gen \in 1..Gdbs /\ target \in 1..Boots
    BY <1>1, BoundAssumption DEF TypeOK, CallOK, GdbOK
  <2>4. Core(n) \in Cores
    BY <1>4, <2>3 DEF Cores, Core
  <2> QED BY <2>1, <2>2, <2>4
<1>6. \A c \in Cores : Written(c) => c.of # n
  BY <1>2 DEF CoreInv, NoneForPending
<1>7. ~Written(Core(n))
  BY <1>5, <1>6
<1> HIDE DEF line, n
<1>8. \A c : Written(c)' <=> Written(c) \/ c = Core(n)
  BY <1>1, <1>3, WrittenByPrint
<1>9. OwnLines'
  BY <1>1, <1>3, <1>5, <1>7, OwnLinePrinted
<1>10. NoneAhead'
  <2>1. gen <= gen
    BY BoundAssumption DEF TypeOK, CallOK
  <2> QED BY <1>1, <1>4, <1>5, <1>8, <2>1 DEF CoreInv, NoneAhead, Unasked
<1>11. NoneForPending'
  <2> SUFFICES ASSUME NEW i \in DOMAIN stdin', Pending(i, "gcore")'
               PROVE  /\ stdin'[i].n <= asked
                      /\ \A c \in Cores : Written(c)' => c.of # stdin'[i].n
                      /\ \A j \in DOMAIN stdin' :
                            Pending(j, "gcore")' /\ stdin'[j].n = stdin'[i].n => i = j
    BY <1>1 DEF NoneForPending, Pending
  <2>1. i + 1 \in DOMAIN stdin /\ stdin'[i] = stdin[i + 1] /\ i \in Nat \ {0}
        /\ Pending(i + 1, "gcore")
    BY <1>2 DEF Pending
  <2>2. stdin[i + 1].n # n
    <3>1. i + 1 # 1
      BY <2>1
    <3> QED BY <1>2, <2>1, <3>1 DEF CoreInv, NoneForPending, n
  <2>3. ASSUME NEW j \in DOMAIN stdin', Pending(j, "gcore")', stdin'[j].n = stdin'[i].n
        PROVE  i = j
    <3>1. j + 1 \in DOMAIN stdin /\ stdin'[j] = stdin[j + 1] /\ j \in Nat
          /\ Pending(j + 1, "gcore")
      BY <1>2, <2>3 DEF Pending
    <3>2. i + 1 = j + 1
      BY <2>1, <2>3, <3>1 DEF CoreInv, NoneForPending
    <3> QED BY <2>1, <3>1, <3>2
  <2> QED BY <1>5, <1>8, <2>1, <2>2, <2>3 DEF CoreInv, NoneForPending
<1>12. ArmedOnce'
  <2>1. Fewer({"setup"})
    BY <1>1, FewerTaken
  <2>2. PICK k \in {0, 1} : \A i \in DOMAIN stdin' : Pending(i, "setup")' =>
            i \in Nat /\ i + k \in DOMAIN stdin /\ stdin'[i] = stdin[i + k]
    BY <2>1 DEF Fewer, Pending
  <2>3. SetupPending' => SetupPending
    BY <2>2 DEF SetupPending, Pending
  <2>4. \A i, j \in DOMAIN stdin' :
            Pending(i, "setup")' /\ Pending(j, "setup")' => i = j
    <3> SUFFICES ASSUME NEW i \in DOMAIN stdin', NEW j \in DOMAIN stdin',
                        Pending(i, "setup")', Pending(j, "setup")'
                 PROVE  i = j
      OBVIOUS
    <3>1. i + k = j + k /\ i \in Nat /\ j \in Nat
      BY <2>2 DEF CoreInv, ArmedOnce, Pending
    <3> QED BY <3>1
  <2>5. \A c \in Cores : Spent(c) => Spent(c)'
    BY <1>1, <2>3 DEF Spent, IsAuto
  <2>6. \A c \in Cores : Written(c)' /\ Unasked(c) => Written(c)
    BY <1>5, <1>8
  <2> QED BY <1>1, <2>3, <2>4, <2>5, <2>6 DEF CoreInv, ArmedOnce, Unasked
<1>13. OneAuto'
  BY <1>5, <1>8 DEF CoreInv, OneAuto, IsAuto, Unasked, Breakpoints
<1> QED BY <1>9, <1>10, <1>11, <1>12, <1>13 DEF CoreInv

(* A breakpoint that is hit is not armed any more, nor are its siblings.    *)
LEMMA CoreHit ==
    ASSUME TypeOK, TypeOK', CoreInv, NEW b \in armed, Fires(b),
           ~UNCHANGED stdout
    PROVE  CoreInv'
<1> DEFINE line == Line("saved", Core(b))
<1>1. /\ armed' \subseteq armed /\ b \notin armed'
      /\ b \in Specs => armed' \cap Specs = {}
      /\ Prints(<<line>>)
  BY DEF Fires
<1>2. /\ alive /\ target = boot
      /\ UNCHANGED <<stdin, corefiles, gen, asked, pc>>
  BY DEF Fires, callVars, coreVars
<1>3. line \in Lines /\ line.kind = "saved" /\ line.core = Core(b)
  BY BreakpointCore DEF Line
<1>4. /\ b \in Breakpoints /\ Core(b).gdb = gen /\ Core(b).of = b
      /\ Unasked(Core(b)) /\ Core(b) \in Cores
  <2>1. b \in Breakpoints /\ Core(b).gdb = gen /\ Core(b).of = b
    BY DEF Core, TypeOK, GdbOK
  <2>2. gen \in 1..Gdbs /\ target \in 1..Boots
    BY <1>2, BoundAssumption DEF TypeOK, CallOK, DeviceOK
  <2> QED BY <2>1, <2>2 DEF Cores, Core, Unasked
<1>5. \A c \in Cores : Written(c) /\ Unasked(c) /\ c.gdb = gen => c.of # b
  BY DEF CoreInv, ArmedOnce, Spent
<1>6. b \in Specs =>
          \A c \in Cores : Written(c) /\ IsAuto(c) => c.gdb # gen
  BY DEF CoreInv, ArmedOnce, Spent, IsAuto, Unasked, Breakpoints
<1>7. ~SetupPending /\ pc \notin {"ready", "attach"}
  BY DEF CoreInv, ArmedOnce
<1>8. ~Written(Core(b))
  BY <1>4, <1>5
<1> HIDE DEF line
<1>9. \A c : Written(c)' <=> Written(c) \/ c = Core(b)
  BY <1>1, <1>2, <1>3, WrittenByPrint
<1>10. OwnLines'
  BY <1>1, <1>2, <1>3, <1>4, <1>8, OwnLinePrinted
<1>11. NoneAhead'
  <2>1. gen <= gen
    BY BoundAssumption DEF TypeOK, CallOK
  <2> QED BY <1>2, <1>4, <1>9, <2>1 DEF CoreInv, NoneAhead, Unasked
<1>12. NoneForPending'
  <2> SUFFICES ASSUME NEW i \in DOMAIN stdin, Pending(i, "gcore")
               PROVE  Core(b).of # stdin[i].n
    BY <1>2, <1>9 DEF CoreInv, NoneForPending, Pending
  <2>1. stdin[i] \in Commands
    BY LenProperties, ElementOfSeq DEF TypeOK, GdbOK
  <2>2. stdin[i].n \in 1..Requests
    BY <2>1, GcoreCommand DEF Pending
  <2> QED BY <1>4, <2>2, SpecAssumption DEF Breakpoints
<1>13. ArmedOnce'
  <2>1. ~SetupPending'
    BY <1>2, <1>7 DEF SetupPending, Pending
  <2>2. \A c \in Cores : Spent(c) => Spent(c)'
    BY <1>1, <1>2, <2>1 DEF Spent, IsAuto
  <2>3. \A c \in Cores : c = Core(b) => Spent(c)'
    BY <1>1, <1>2, <1>4, <1>7, <2>1 DEF Spent, IsAuto
  <2>4. \A c \in Cores : Written(c)' /\ Unasked(c) /\ c.gdb = gen => Spent(c)'
    BY <1>9, <2>2, <2>3 DEF CoreInv, ArmedOnce
  <2> QED BY <1>1, <1>2, <1>7, <2>1, <2>4
          DEF CoreInv, ArmedOnce, Pending, Unasked
<1>14. OneAuto'
  BY <1>4, <1>6, <1>9 DEF CoreInv, OneAuto, IsAuto
<1> QED BY <1>10, <1>11, <1>12, <1>13, <1>14 DEF CoreInv

LEMMA CoreGdb ==
    ASSUME TypeOK, TypeOK', CoreInv, Gdb
    PROVE  CoreInv'
<1>1. asked <= asked
  BY BoundAssumption DEF TypeOK, CallOK
<1>2. ASSUME NEW kind, Executes(kind)
      PROVE  /\ alive /\ UNCHANGED <<corefiles, gen, asked, pc>>
             /\ Fewer({"gcore"}) /\ Fewer({"setup"})
             /\ stdin # <<>> /\ stdin' = Tail(stdin) /\ Head(stdin).kind = kind
  BY <1>2, FewerTaken DEF Executes, callVars, coreVars
<1>3. CASE EchoMarker
  <2>1. PICK kind \in {"ready", "attachDone", "gcoreDone"} : Prints(<<Marker(kind)>>)
    BY <1>3 DEF EchoMarker
  <2>2. Marker(kind) \in Lines /\ Marker(kind).kind # "saved"
    BY <2>1 DEF Lines, Marker, Line
  <2>3. UNCHANGED armed
    BY <1>3 DEF EchoMarker
  <2> QED BY <1>2, <1>3, <2>1, <2>2, <2>3, CorePrintsOther DEF EchoMarker
<1>4. CASE AttachTarget
  <2>1. Marker("attached") \in Lines /\ Marker("attached").kind # "saved"
    BY DEF Lines, Marker, Line
  <2>2. UNCHANGED armed /\ (Prints(<<Marker("attached")>>) \/ UNCHANGED stdout)
    BY <1>4 DEF AttachTarget
  <2>3. CASE Prints(<<Marker("attached")>>)
    BY <1>2, <1>4, <2>1, <2>2, <2>3, CorePrintsOther DEF AttachTarget
  <2>4. CASE UNCHANGED stdout
    BY <1>1, <1>2, <1>4, <2>2, <2>4, CoreFrame DEF AttachTarget
  <2> QED BY <2>2, <2>3, <2>4
<1>5. CASE SetupTarget
  <2>1. /\ UNCHANGED <<stdout, corefiles, gen, asked, pc>>
        /\ armed' \in {armed, Breakpoints}
    BY <1>2, <1>5 DEF SetupTarget
  <2>2. \A c : (Written(c)' <=> Written(c)) /\ (Kept(c)' <=> Kept(c))
    BY <2>1, WhatWasWritten
  <2>3. NoneForPending'
    BY <1>1, <1>2, <1>5, <2>1, <2>2, PendingFrame DEF CoreInv, SetupTarget
  <2>4. OwnLines' /\ OneAuto' /\ NoneAhead'
    BY <2>1, <2>2 DEF CoreInv, OwnLines, OneAuto, NoneAhead, Saved, IsAuto, Unasked
  <2>5. /\ 1 \in DOMAIN stdin /\ Pending(1, "setup")
        /\ \A i \in DOMAIN stdin' :
              i \in Nat \ {0} /\ i + 1 \in DOMAIN stdin /\ stdin'[i] = stdin[i + 1]
    BY <1>2, <1>5, InputTaken DEF SetupTarget, Pending
  <2>6. ~SetupPending'
    <3> SUFFICES ASSUME NEW i \in DOMAIN stdin', Pending(i, "setup")' PROVE FALSE
      BY DEF SetupPending
    <3>1. i + 1 = 1 /\ i \in Nat \ {0}
      BY <2>5 DEF Pending, CoreInv, ArmedOnce
    <3> QED BY <3>1
  <2>7. /\ \A c \in Cores : Written(c) /\ Unasked(c) => c.gdb # gen
        /\ pc \notin {"ready", "attach"}
    BY <2>5 DEF CoreInv, ArmedOnce, Spent, SetupPending
  <2>8. ArmedOnce'
    BY <2>1, <2>2, <2>6, <2>7 DEF ArmedOnce, SetupPending, Unasked
  <2> QED BY <2>3, <2>4, <2>8 DEF CoreInv
<1>6. CASE WriteCore
  <2>1. CASE UNCHANGED stdout
    BY <1>1, <1>2, <1>6, <2>1, CoreFrame DEF WriteCore
  <2> QED BY <1>6, <2>1, CoreWritten
<1>7. CASE GdbExits \/ TargetStops
  <2>1. UNCHANGED <<stdout, corefiles, gen, asked, pc>> /\ armed' \subseteq armed
        /\ (stdin' = stdin \/ stdin' = <<>>)
    BY <1>7 DEF GdbExits, GdbGone, TargetStops, callVars, coreVars
  <2> QED BY <1>1, <2>1, FewerTaken, CoreFrame
<1>8. CASE BreakpointHit \/ LeakBreakpointHit
  <2> PICK b \in armed : Fires(b)
    BY <1>8, HitFires
  <2>1. CASE UNCHANGED stdout
    <3>1. /\ UNCHANGED <<stdout, stdin, corefiles, gen, asked, pc>>
          /\ armed' \subseteq armed
      BY <2>1 DEF Fires, callVars, coreVars
    <3> QED BY <1>1, <3>1, FewerTaken, CoreFrame
  <2> QED BY <2>1, CoreHit
<1> QED BY <1>3, <1>4, <1>5, <1>6, <1>7, <1>8 DEF Gdb

(* A corefile that is read moves from the output to the list.               *)
LEMMA CoreReader ==
    ASSUME TypeOK, TypeOK', CoreInv, Readers
    PROVE  CoreInv'
<1>1. asked <= asked
  BY BoundAssumption DEF TypeOK, CallOK
<1>2. ASSUME NEW g \in 1..Gdbs, ReadEof(g) PROVE CoreInv'
  <2>1. UNCHANGED <<stdout, corefiles, gen, asked, stdin, armed, pc>>
    BY <1>2 DEF ReadEof, callVars, gdbVars, coreVars
  <2> QED BY <1>1, <2>1, FewerTaken, CoreFrame
<1>3. ASSUME NEW g \in 1..Gdbs, ReadLine(g) PROVE CoreInv'
  <2>1. UNCHANGED <<gen, asked, stdin, armed, pc>>
    BY <1>3 DEF ReadLine, callVars, gdbVars
  <2>2. \A c : Written(c)' <=> Written(c)
    BY <1>3, WrittenByRead
  <2>3. \A c : Kept(c)' <=> Kept(c) \/ (Saved(g, 1) /\ stdout[g][1].core = c)
    BY <1>3, KeptByRead
  <2>4. NoneForPending' /\ ArmedOnce'
    BY <1>1, <2>1, <2>2, FewerTaken, PendingFrame, ArmedFrame DEF CoreInv
  <2>5. NoneAhead' /\ OneAuto'
    BY <2>1, <2>2 DEF CoreInv, NoneAhead, OneAuto, IsAuto, Unasked
  <2>6. OwnLines'
    <3> SUFFICES ASSUME NEW h \in 1..Gdbs, NEW i \in DOMAIN stdout'[h], Saved(h, i)'
                 PROVE  /\ stdout'[h][i].core.gdb = h
                        /\ ~\E k \in DOMAIN corefiles' :
                              corefiles'[k] = stdout'[h][i].core
                        /\ \A j \in DOMAIN stdout'[h] :
                              Saved(h, j)' /\ stdout'[h][j].core = stdout'[h][i].core
                                 => i = j
      BY DEF OwnLines, Saved, Kept
    <3>1. CASE h # g
      <4>1. stdout'[h] = stdout[h]
        BY <1>3, <3>1, LineTaken
      <4>2. stdout[h][i].core.gdb = h /\ ~Kept(stdout[h][i].core)
        BY <4>1 DEF CoreInv, OwnLines, Saved
      <4>3. Saved(g, 1) => stdout[g][1].core.gdb = g
        BY <1>3, LineTaken DEF CoreInv, OwnLines
      <4>4. ~\E k \in DOMAIN corefiles' : corefiles'[k] = stdout[h][i].core
        BY <2>3, <3>1, <4>2, <4>3 DEF Kept
      <4> QED BY <4>1, <4>2, <4>4 DEF CoreInv, OwnLines, Saved
    <3>2. CASE h = g
      <4>1. i \in Nat \ {0} /\ i + 1 \in DOMAIN stdout[g]
            /\ stdout'[g][i] = stdout[g][i + 1] /\ Saved(g, i + 1)
        BY <1>3, <3>2, LineTaken DEF Saved
      <4>2. stdout[g][i + 1].core.gdb = g /\ ~Kept(stdout[g][i + 1].core)
        BY <4>1 DEF CoreInv, OwnLines
      <4>3. Saved(g, 1) => stdout[g][1].core # stdout[g][i + 1].core
        <5>1. 1 \in DOMAIN stdout[g] /\ i + 1 # 1
          BY <1>3, <4>1, LineTaken
        <5> QED BY <4>1, <5>1 DEF CoreInv, OwnLines
      <4>4. ASSUME NEW j \in DOMAIN stdout'[g], Saved(g, j)',
                   stdout'[g][j].core = stdout'[g][i].core
            PROVE  i = j
        <5>1. j \in Nat \ {0} /\ j + 1 \in DOMAIN stdout[g]
              /\ stdout'[g][j] = stdout[g][j + 1] /\ Saved(g, j + 1)
          BY <1>3, <4>4, LineTaken DEF Saved
        <5>2. i + 1 = j + 1
          BY <4>1, <4>4, <5>1 DEF CoreInv, OwnLines
        <5> QED BY <4>1, <5>1, <5>2
      <4>5. ~\E k \in DOMAIN corefiles' : corefiles'[k] = stdout[g][i + 1].core
        BY <2>3, <4>2, <4>3 DEF Kept
      <4> QED BY <3>2, <4>1, <4>2, <4>4, <4>5
    <3> QED BY <3>1, <3>2
  <2> QED BY <2>4, <2>5, <2>6 DEF CoreInv
<1> QED BY <1>2, <1>3 DEF Readers

LEMMA CoreStep ==
    ASSUME TypeOK, CoreInv, [Next]_vars
    PROVE  CoreInv'
<1>1. TypeOK'
  BY StepType
<1>2. CASE DeviceCrashes \/ DeviceReboots \/ UNCHANGED vars
  <2>1. UNCHANGED <<stdout, corefiles, gen, asked, stdin, armed, pc>>
    BY <1>2 DEF DeviceCrashes, DeviceReboots, vars, callVars, gdbVars, coreVars
  <2>2. asked <= asked'
    BY <2>1, BoundAssumption DEF TypeOK, CallOK
  <2> QED BY <1>1, <2>1, <2>2, FewerTaken, CoreFrame
<1> QED BY <1>1, <1>2, CoreCaller, CoreGdb, CoreReader DEF Next

LEMMA CoreInit == Init => CoreInv
<1> SUFFICES ASSUME Init PROVE CoreInv
  OBVIOUS
<1>1. \A g \in 1..Gdbs : DOMAIN stdout[g] = {}
  BY DEF Init
<1>2. DOMAIN stdin = {} /\ DOMAIN corefiles = {}
  BY DEF Init
<1>3. \A c : ~Written(c)
  BY <1>1, <1>2 DEF Written, Unread, Kept
<1>4. OwnLines /\ NoneForPending /\ ~SetupPending
  BY <1>1, <1>2 DEF OwnLines, NoneForPending, SetupPending
<1>5. ArmedOnce
  BY <1>2, <1>3, <1>4 DEF ArmedOnce, Init
<1> QED BY <1>3, <1>4, <1>5 DEF CoreInv, NoneAhead, OneAuto

LEMMA CoreInvariant == Spec => []CoreInv
<1>1. TypeOK /\ CoreInv /\ [Next]_vars => CoreInv'
  BY CoreStep
<1> QED BY <1>1, CoreInit, GdbTypeCorrect, PTL DEF Spec

(* One crash makes one coredump of each GDB: the first breakpoint that is    *)
(* hit disarms its siblings, and none is armed again (AutoBp).              *)
THEOREM CrashesDumpOnce == Spec => []OneDumpPerCrash
<1>1. TypeOK /\ CoreInv => OneDumpPerCrash
  <2> SUFFICES ASSUME TypeOK, CoreInv, NEW c \in ToSet(corefiles),
                      NEW d \in ToSet(corefiles), IsAuto(c), IsAuto(d), c.gdb = d.gdb
               PROVE  c = d
    BY DEF OneDumpPerCrash
  <2>1. c \in Cores /\ d \in Cores
    BY ElementOfSeq DEF ToSet, TypeOK, CoresOK
  <2>2. Written(c) /\ Written(d)
    BY DEF ToSet, Written, Kept
  <2> QED BY <2>1, <2>2 DEF CoreInv, OneAuto
<1> QED BY <1>1, CoreInvariant, GdbTypeCorrect, PTL

-----------------------------------------------------------------------------
(* Each corefile is handed out once. *)

LEMMA HandedFrame ==
    ASSUME HandedInv, UNCHANGED <<handed, consumed, corefiles, lastCore>>,
           pc' = "gcore" => pc = "gcore"
    PROVE  HandedInv'
BY DEF HandedInv, HandedOnce, Kept

\* An answer is added after the others.
LEMMA AnswerAdded ==
    ASSUME TypeOK, NEW core, NEW request, HandOut(core, request), TypeOK',
           NEW k \in DOMAIN handed'
    PROVE  /\ DOMAIN handed' = DOMAIN handed \cup {Len(handed) + 1}
           /\ Len(handed) + 1 \notin DOMAIN handed
           /\ Len(handed') = Len(handed) + 1
           /\ k # Len(handed) + 1 => k \in DOMAIN handed /\ handed'[k] = handed[k]
           /\ k = Len(handed) + 1 =>
                 handed'[k] = [core |-> core, request |-> request, gdb |-> gen,
                               clean |-> clean, late |-> late]
<1> DEFINE answer == [core |-> core, request |-> request, gdb |-> gen,
                      clean |-> clean, late |-> late]
<1>1. handed' = Append(handed, answer) /\ handed \in Seq(Answers) /\ handed' \in Seq(Answers)
  BY DEF HandOut, TypeOK, CallOK
<1> HIDE DEF answer
<1>2. /\ Len(handed') = Len(handed) + 1
      /\ \A i \in 1..Len(handed) : handed'[i] = handed[i]
      /\ handed'[Len(handed) + 1] = answer
  <2>1. handed \in Seq(Answers \cup {answer})
    BY <1>1, SeqMonotonic
  <2> QED BY <1>1, <2>1, AppendProperties
<1>3. /\ DOMAIN handed = 1..Len(handed) /\ Len(handed) \in Nat
      /\ DOMAIN handed' = 1..(Len(handed) + 1)
  BY <1>1, <1>2, LenProperties
<1> QED BY <1>2, <1>3 DEF answer

LEMMA HandedOut ==
    ASSUME TypeOK, TypeOK', HandedInv, NEW core, NEW request,
           HandOut(core, request), consumed' = consumed \cup {core},
           Kept(core), core \notin consumed, UNCHANGED <<corefiles, lastCore>>
    PROVE  HandedInv'
<1>1. pc' = "up"
  BY DEF HandOut
<1>2. \A c \in consumed' : Kept(c)'
  BY DEF HandedInv, Kept
<1>3. lastCore' # NoCore => Kept(lastCore)'
  BY DEF HandedInv, Kept
<1>4. ASSUME NEW k \in DOMAIN handed'
      PROVE  /\ handed'[k].core \in consumed'
             /\ k # Len(handed) + 1 => handed'[k].core # core
             /\ k = Len(handed) + 1 => handed'[k].core = core
  BY <1>4, AnswerAdded DEF HandedInv
<1>5. HandedOnce'
  <2> SUFFICES ASSUME NEW i \in DOMAIN handed', NEW j \in DOMAIN handed', i # j
               PROVE  handed'[i].core # handed'[j].core
    BY DEF HandedOnce
  <2>1. CASE i = Len(handed) + 1 \/ j = Len(handed) + 1
    BY <1>4, <2>1
  <2>2. CASE i # Len(handed) + 1 /\ j # Len(handed) + 1
    BY <2>2, AnswerAdded DEF HandedInv, HandedOnce
  <2> QED BY <2>1, <2>2
<1> QED BY <1>1, <1>2, <1>3, <1>4, <1>5 DEF HandedInv

LEMMA HandedStep ==
    ASSUME TypeOK, CoreInv, HandedInv, [Next]_vars
    PROVE  HandedInv'
<1>1. TypeOK'
  BY StepType
<1>2. CASE Caller
  <2>1. CASE AskGcore
    BY <2>1 DEF AskGcore, HandedInv, HandedOnce, Kept
  <2>2. CASE GcoreAnswered
    <3>1. CASE lastCore = NoCore
      BY <2>2, <3>1, HandedFrame DEF GcoreAnswered, Goto
    <3>2. CASE lastCore # NoCore
      BY <1>1, <2>2, <3>2, HandedOut DEF GcoreAnswered, HandedInv
    <3> QED BY <3>1, <3>2
  <2>3. CASE Harvest
    <3>1. PICK c \in Unconsumed : HandOut(c, 0) /\ consumed' = consumed \cup {c}
      BY <2>3 DEF Harvest
    <3>2. Kept(c) /\ c \notin consumed
      BY <3>1 DEF Unconsumed, ToSet, Kept
    <3> QED BY <1>1, <2>3, <3>1, <3>2, HandedOut DEF Harvest
  <2>4. CASE ~(AskGcore \/ GcoreAnswered \/ Harvest)
    <3>1. \/ UNCHANGED <<handed, consumed, corefiles, lastCore>> /\ pc' # "gcore"
          \/ UNCHANGED <<callVars, coreVars>>
      BY <1>2, <2>4 DEF Caller, Launch, Spawned, PromptSeen, AttachAnswered,
         StartTimesOut, Stop, StopReaps, StopJoins, GcoreTimesOut, AskHarvest,
         HarvestTimesOut, Goto, coreVars
    <3> QED BY <3>1, HandedFrame DEF callVars, coreVars
  <2> QED BY <2>1, <2>2, <2>3, <2>4
<1>3. ASSUME NEW g \in 1..Gdbs, ReadLine(g) PROVE HandedInv'
  <2>1. UNCHANGED <<pc, handed, consumed>>
    BY <1>3 DEF ReadLine, callVars
  <2>2. \A c : Kept(c)' <=> Kept(c) \/ (Saved(g, 1) /\ stdout[g][1].core = c)
    BY <1>3, KeptByRead
  <2>3. 1 \in DOMAIN stdout[g] /\ Head(stdout[g]) = stdout[g][1]
    BY <1>3, LineTaken
  <2>4. CASE Saved(g, 1)
    <3>1. lastCore' = stdout[g][1].core
      BY <1>3, <2>3, <2>4 DEF ReadLine, Saved
    <3>2. ~Kept(stdout[g][1].core)
      BY <2>3, <2>4 DEF CoreInv, OwnLines
    <3>3. lastCore' \notin consumed
      BY <3>1, <3>2 DEF HandedInv
    <3>4. \E i \in DOMAIN corefiles' : corefiles'[i] = lastCore'
      BY <2>2, <2>4, <3>1 DEF Kept
    <3> QED BY <2>1, <2>2, <3>3, <3>4 DEF HandedInv, HandedOnce, Kept
  <2>5. CASE ~Saved(g, 1)
    <3>1. UNCHANGED <<lastCore, corefiles>>
      BY <1>3, <2>3, <2>5 DEF ReadLine, Saved
    <3> QED BY <2>1, <3>1, HandedFrame
  <2> QED BY <2>4, <2>5
<1>4. CASE \/ Gdb \/ \E g \in 1..Gdbs : ReadEof(g)
           \/ DeviceCrashes \/ DeviceReboots \/ UNCHANGED vars
  <2>1. UNCHANGED <<callVars, coreVars>>
    BY <1>4 DEF Gdb, EchoMarker, AttachTarget, SetupTarget, WriteCore, Executes,
       GdbExits, BreakpointHit, LeakBreakpointHit, TargetStops,
       ReadEof, DeviceCrashes,
       DeviceReboots, vars
  <2> QED BY <2>1, HandedFrame DEF callVars, coreVars
<1> QED BY <1>2, <1>3, <1>4 DEF Next, Readers

LEMMA HandedInvariant == Spec => []HandedInv
<1>1. Init => HandedInv
  BY DEF Init, HandedInv, HandedOnce
<1>2. TypeOK /\ CoreInv /\ HandedInv /\ [Next]_vars => HandedInv'
  BY HandedStep
<1> QED BY <1>1, <1>2, CoreInvariant, GdbTypeCorrect, PTL DEF Spec

(* A corefile is handed out at most once, over both ways to ask for one,     *)
(* all GDBs and whatever arrives late (wait_corefile, generate_coredump).   *)
THEOREM CoresAreHandedOnce == Spec => []HandedOnce
<1>1. HandedInv => HandedOnce
  BY DEF HandedInv
<1> QED BY <1>1, HandedInvariant, PTL

-----------------------------------------------------------------------------
(* A request gets its own answer. *)

LEMMA InputFrame ==
    ASSUME InputOrdered, Fewer(Asking), Outstanding => Outstanding' /\ asked' = asked
    PROVE  /\ InputOrdered'
           /\ \A i \in DOMAIN stdin' : stdin'[i].kind \in Asking =>
                 \E j \in DOMAIN stdin : stdin[j].kind \in Asking
<1>1. PICK k \in {0, 1} : \A i \in DOMAIN stdin' : stdin'[i].kind \in Asking =>
          i \in Nat /\ i + k \in DOMAIN stdin /\ stdin'[i] = stdin[i + k]
  BY DEF Fewer
<1>2. ASSUME NEW i \in DOMAIN stdin', stdin'[i].kind = "gcore"
      PROVE  Outstanding' /\ stdin'[i].n = asked'
  BY <1>1, <1>2 DEF InputOrdered, Pending, Asking
<1>3. ASSUME NEW i \in DOMAIN stdin', stdin'[i].kind = "echoGcore"
      PROVE  /\ Outstanding'
             /\ \A j \in DOMAIN stdin' : j > i => stdin'[j].kind \notin Asking
  <2>1. /\ i \in Nat /\ i + k \in DOMAIN stdin /\ stdin'[i] = stdin[i + k]
        /\ Pending(i + k, "echoGcore")
    BY <1>1, <1>3 DEF Pending, Asking
  <2>2. ASSUME NEW j \in DOMAIN stdin', j > i, stdin'[j].kind \in Asking PROVE FALSE
    <3>1. j \in Nat /\ j + k \in DOMAIN stdin /\ stdin'[j] = stdin[j + k]
      BY <1>1, <2>2
    <3>2. j + k > i + k
      BY <2>1, <2>2, <3>1
    <3> QED BY <2>1, <2>2, <3>1, <3>2 DEF InputOrdered
  <2> QED BY <2>1, <2>2 DEF InputOrdered
<1> QED BY <1>1, <1>2, <1>3 DEF InputOrdered, Pending

\* Steps that print nothing and read nothing.
LEMMA OrderFrame ==
    ASSUME InOrder, UNCHANGED <<clean, late, gen, stdout>>, Fewer(Asking),
           Outstanding => Outstanding' /\ asked' = asked
    PROVE  InOrder'
<1> SUFFICES ASSUME clean, ~late, gen # 0 PROVE InputOrdered' /\ OutputOrdered'
  BY DEF InOrder
<1>1. InputOrdered /\ OutputOrdered
  BY DEF InOrder
<1> QED BY <1>1, InputFrame DEF OutputOrdered, Requested, Unasked

\* GDB prints what says nothing of a request.
LEMMA OrderPrints ==
    ASSUME TypeOK, InOrder, alive, NEW line \in Lines, Prints(<<line>>),
           ~Requested(line), line.kind # "gcoreDone", Fewer(Asking),
           UNCHANGED <<clean, late, gen, asked, pc, gcoreDone>>
    PROVE  InOrder'
<1> SUFFICES ASSUME clean, ~late, gen # 0 PROVE InputOrdered' /\ OutputOrdered'
  BY DEF InOrder
<1>1. InputOrdered /\ OutputOrdered
  BY DEF InOrder
<1>2. (Outstanding' <=> Outstanding) /\ InputOrdered'
      /\ \A i \in DOMAIN stdin' : stdin'[i].kind \in Asking =>
            \E j \in DOMAIN stdin : stdin[j].kind \in Asking
  BY <1>1, InputFrame DEF Outstanding
<1>3. \A i \in DOMAIN stdout'[gen] :
          stdout'[gen][i].kind = "gcoreDone" \/ Requested(stdout'[gen][i]) =>
             i \in DOMAIN stdout[gen] /\ stdout'[gen][i] = stdout[gen][i]
  BY LinePrinted
<1> QED BY <1>1, <1>2, <1>3 DEF OutputOrdered, Requested, Unasked

\* The corefile of the request outstanding.
LEMMA OrderWrites ==
    ASSUME TypeOK, InOrder, WriteCore, ~UNCHANGED stdout
    PROVE  InOrder'
<1> DEFINE n == Head(stdin).n
           line == Line("saved", Core(n))
           last == Len(stdout[gen]) + 1
<1>1. /\ alive /\ stdin # <<>> /\ stdin' = Tail(stdin) /\ Executes("gcore")
      /\ UNCHANGED <<clean, late, gen, asked, pc, gcoreDone>>
      /\ target # 0 /\ Prints(<<line>>)
  BY DEF WriteCore, Executes, callVars, events
<1>2. 1 \in DOMAIN stdin /\ Pending(1, "gcore") /\ stdin[1] = Head(stdin)
  BY <1>1, InputTaken DEF Executes, Pending
<1>3. line \in Lines /\ line.core.of = n /\ line.kind # "gcoreDone"
  BY <1>1, WrittenCore DEF Line, Core
<1> SUFFICES ASSUME clean, ~late, gen # 0 PROVE InputOrdered' /\ OutputOrdered'
  BY <1>1 DEF InOrder
<1>4. InputOrdered /\ OutputOrdered
  BY DEF InOrder
<1>5. Outstanding /\ Outstanding' /\ n = asked
  BY <1>1, <1>2, <1>4 DEF InputOrdered, Outstanding
<1>6. InputOrdered'
  BY <1>1, <1>4, <1>5, FewerTaken, InputFrame
<1>7. \A i \in DOMAIN stdout[gen] : stdout[gen][i].kind # "gcoreDone"
  BY <1>2, <1>4 DEF OutputOrdered, Pending, Asking
<1> HIDE DEF line, n
<1>8. ASSUME NEW i \in DOMAIN stdout'[gen]
      PROVE  \/ i \in DOMAIN stdout[gen] /\ stdout'[gen][i] = stdout[gen][i]
             \/ stdout'[gen][i] = line
  BY <1>1, <1>3, LinePrinted
<1>9. OutputOrdered'
  BY <1>1, <1>3, <1>4, <1>5, <1>7, <1>8 DEF OutputOrdered, Requested, Unasked
<1> QED BY <1>6, <1>9

\* The end of the request outstanding.
LEMMA OrderEnds ==
    ASSUME TypeOK, InOrder, Executes("echoGcore"), Prints(<<Marker("gcoreDone")>>)
    PROVE  InOrder'
<1> DEFINE line == Marker("gcoreDone")
           last == Len(stdout[gen]) + 1
<1>1. /\ alive /\ stdin # <<>> /\ stdin' = Tail(stdin)
      /\ UNCHANGED <<clean, late, gen, asked, pc, gcoreDone>>
  BY DEF Executes, callVars, events
<1>2. /\ 1 \in DOMAIN stdin /\ Pending(1, "echoGcore")
      /\ \A i \in DOMAIN stdin' :
            i \in Nat \ {0} /\ i + 1 \in DOMAIN stdin /\ stdin'[i] = stdin[i + 1]
  BY <1>1, InputTaken DEF Executes, Pending
<1>3. line \in Lines /\ ~Requested(line)
  BY DEF Lines, Marker, Line, Requested
<1> SUFFICES ASSUME clean, ~late, gen # 0 PROVE InputOrdered' /\ OutputOrdered'
  BY <1>1 DEF InOrder
<1>4. InputOrdered /\ OutputOrdered
  BY DEF InOrder
<1>5. Outstanding /\ Outstanding'
  BY <1>1, <1>2, <1>4 DEF InputOrdered, Outstanding
<1>6. \A i \in DOMAIN stdin' : stdin'[i].kind \notin Asking
  <2> SUFFICES ASSUME NEW i \in DOMAIN stdin' PROVE stdin'[i].kind \notin Asking
    OBVIOUS
  <2>1. i + 1 > 1 /\ i + 1 \in DOMAIN stdin /\ stdin'[i] = stdin[i + 1]
    BY <1>2
  <2> QED BY <1>2, <1>4, <2>1 DEF InputOrdered
<1>7. InputOrdered'
  BY <1>6 DEF InputOrdered, Pending, Asking
<1>8. \A i \in DOMAIN stdout[gen] : stdout[gen][i].kind # "gcoreDone"
  BY <1>2, <1>4 DEF OutputOrdered, Pending, Asking
<1> HIDE DEF line
<1>9. /\ \A i \in DOMAIN stdout'[gen] :
            \/ i \in DOMAIN stdout[gen] /\ stdout'[gen][i] = stdout[gen][i]
            \/ i = last /\ stdout'[gen][i] = line
      /\ \A i \in DOMAIN stdout'[gen] : ~(i > last)
  <2>1. Len(stdout[gen]) \in Nat /\ gen \in 1..Gdbs
    BY BoundAssumption, LenProperties DEF TypeOK, CallOK, OutputOK
  <2> QED BY <1>1, <1>3, <2>1, LinePrinted DEF line
<1>10. OutputOrdered'
  <2>1. \A i \in DOMAIN stdout'[gen] : Requested(stdout'[gen][i]) =>
            i \in DOMAIN stdout[gen] /\ stdout'[gen][i] = stdout[gen][i]
    BY <1>3, <1>9
  <2>2. \A i \in DOMAIN stdout'[gen] : stdout'[gen][i].kind = "gcoreDone" => i = last
    BY <1>8, <1>9
  <2>3. \A i \in DOMAIN stdout'[gen] : Requested(stdout'[gen][i]) =>
            Outstanding' /\ stdout'[gen][i].core.of = asked'
    BY <1>1, <1>4, <1>5, <2>1 DEF OutputOrdered
  <2>4. \A i \in DOMAIN stdout'[gen] : stdout'[gen][i].kind = "gcoreDone" =>
            \A j \in DOMAIN stdout'[gen] : ~(j > i)
    BY <1>9, <2>2
  <2> QED BY <1>1, <1>5, <1>6, <2>3, <2>4 DEF OutputOrdered, Requested, Unasked
<1> QED BY <1>7, <1>10

LEMMA OrderCaller ==
    ASSUME TypeOK, AttachInv, InOrder, Caller
    PROVE  InOrder'
<1>1. ASSUME NEW commands \in Seq(Commands), Send(commands),
             \A i \in DOMAIN commands : commands[i].kind \notin Asking
      PROVE  Fewer(Asking)
  BY <1>1, FewerSent
<1>2. ASSUME GdbGone \/ UNCHANGED gdbVars
      PROVE  Fewer(Asking)
  BY <1>2, FewerTaken DEF GdbGone, gdbVars
<1>3. CASE Launch
  <2>1. CASE Spawned
    <3>1. gen \in Nat /\ gen + 1 \in 1..Gdbs /\ gen' = gen + 1
          /\ stdin' = <<Command("echoReady", 0)>> /\ UNCHANGED stdout
      BY <1>3, <2>1, BoundAssumption DEF Launch, Spawned, TypeOK, CallOK
    <3>2. stdout'[gen'] = <<>>
      <4>1. gen + 1 > gen
        BY <3>1
      <4> QED BY <3>1, <4>1 DEF AttachInv, LaterSilent
    <3>3. \A i \in DOMAIN stdin' : stdin'[i].kind \notin Asking
      BY <3>1 DEF Asking, Command
    <3>4. InputOrdered' /\ OutputOrdered'
      BY <3>2, <3>3 DEF InputOrdered, OutputOrdered, Pending, Asking
    <3> QED BY <3>4 DEF InOrder
  <2>2. CASE UNCHANGED <<callVars, gdbVars, readerVars>>
    <3>1. UNCHANGED <<clean, late, gen, stdout, asked, pc, gcoreDone>>
          /\ UNCHANGED gdbVars
      BY <1>3, <2>2 DEF Launch, callVars
    <3> QED BY <1>2, <3>1, OrderFrame DEF Outstanding
  <2> QED BY <1>3, <2>1, <2>2 DEF Launch
<1>4. CASE PromptSeen
  <2> DEFINE commands == <<Command("attach", 0), Command("echoAttach", 0)>>
  <2>1. commands \in Seq(Commands)
    BY CommandTypes
  <2>2. \A i \in DOMAIN commands : commands[i].kind \notin Asking
    BY DEF Command, Asking
  <2>3. Send(commands) \/ GdbGone \/ UNCHANGED gdbVars
    BY <1>4 DEF PromptSeen
  <2> HIDE DEF commands
  <2>4. UNCHANGED <<clean, late, gen, stdout>> /\ ~Outstanding
    BY <1>4 DEF PromptSeen, Goto, Outstanding
  <2> QED BY <1>1, <1>2, <2>1, <2>2, <2>3, <2>4, OrderFrame
<1>5. CASE AttachAnswered
  <2> DEFINE commands == <<Command("setup", 0)>>
  <2>1. commands \in Seq(Commands)
    BY CommandTypes
  <2>2. \A i \in DOMAIN commands : commands[i].kind \notin Asking
    BY DEF Command, Asking
  <2>3. Send(commands) \/ GdbGone
    BY <1>5 DEF AttachAnswered
  <2> HIDE DEF commands
  <2>4. UNCHANGED <<clean, late, gen, stdout>> /\ ~Outstanding
    BY <1>5 DEF AttachAnswered, Goto, Outstanding
  <2> QED BY <1>1, <1>2, <2>1, <2>2, <2>3, <2>4, OrderFrame
<1>6. CASE Stop
  <2> DEFINE commands == <<Command("quit", 0)>>
  <2>1. commands \in Seq(Commands) /\ Send(commands)
    BY <1>6, CommandTypes DEF Stop
  <2>2. \A i \in DOMAIN commands : commands[i].kind \notin Asking
    BY DEF Command, Asking
  <2> HIDE DEF commands
  <2>3. UNCHANGED <<clean, late, gen, stdout>> /\ ~Outstanding
    BY <1>6 DEF Stop, Goto, Outstanding
  <2> QED BY <1>1, <2>1, <2>2, <2>3, OrderFrame
<1>7. CASE \/ StartTimesOut \/ StopReaps \/ StopJoins \/ GcoreAnswered
           \/ AskHarvest \/ Harvest \/ HarvestTimesOut
  <2>1. /\ UNCHANGED <<clean, late, gen, stdout>> /\ ~Outstanding
        /\ GdbGone \/ UNCHANGED gdbVars
    BY <1>7 DEF StartTimesOut, StopReaps, StopJoins, GcoreAnswered, AskHarvest,
       Harvest, HarvestTimesOut, Goto, HandOut, Outstanding
  <2> QED BY <1>2, <2>1, OrderFrame
<1>8. CASE GcoreTimesOut
  BY <1>8 DEF GcoreTimesOut, InOrder
<1>9. CASE AskGcore
  <2> DEFINE commands == <<Command("gcore", asked + 1), Command("echoGcore", 0)>>
  <2>1. /\ UNCHANGED <<clean, late, gen, stdout>> /\ alive /\ ~Outstanding
        /\ asked' = asked + 1 /\ Outstanding' /\ asked + 1 \in 1..Requests
    BY <1>9, BoundAssumption DEF AskGcore, Outstanding, TypeOK, CallOK
  <2>2. commands \in Seq(Commands) /\ Send(commands)
    BY <1>9, <2>1, CommandTypes DEF AskGcore
  <2>3. /\ DOMAIN commands = {1, 2}
        /\ commands[1].kind = "gcore" /\ commands[1].n = asked + 1
        /\ commands[2].kind = "echoGcore"
    BY DEF Command
  <2> HIDE DEF commands
  <2> SUFFICES ASSUME clean, ~late, gen # 0 PROVE InputOrdered' /\ OutputOrdered'
    BY <2>1 DEF InOrder
  <2>4. InputOrdered /\ OutputOrdered
    BY DEF InOrder
  <2>5. \A i \in DOMAIN stdin : stdin[i].kind \notin Asking
    BY <2>1, <2>4 DEF InputOrdered, Pending, Asking
  <2>6. \A i \in DOMAIN stdin' : stdin'[i].kind \in Asking =>
            \/ i = Len(stdin) + 1 /\ stdin'[i].kind = "gcore" /\ stdin'[i].n = asked + 1
            \/ i = Len(stdin) + 2 /\ stdin'[i].kind = "echoGcore"
    BY <2>1, <2>2, <2>3, <2>5, InputSent
  <2>7. Len(stdin) \in Nat
    BY <2>1, <2>2, InputSent
  <2>8. InputOrdered'
    BY <2>1, <2>6, <2>7 DEF InputOrdered, Pending, Asking
  <2>9. OutputOrdered'
    BY <2>1, <2>4 DEF OutputOrdered
  <2> QED BY <2>8, <2>9
<1> QED BY <1>3, <1>4, <1>5, <1>6, <1>7, <1>8, <1>9 DEF Caller

LEMMA OrderGdb ==
    ASSUME TypeOK, InOrder, Gdb
    PROVE  InOrder'
<1>1. ASSUME NEW kind, Executes(kind)
      PROVE  /\ alive /\ UNCHANGED <<clean, late, gen, asked, pc, gcoreDone>>
             /\ Fewer(Asking)
  BY <1>1, FewerTaken DEF Executes, callVars, events
<1>2. CASE EchoMarker
  <2>1. CASE Executes("echoGcore") /\ Prints(<<Marker("gcoreDone")>>)
    BY <2>1, OrderEnds
  <2>2. ASSUME NEW kind \in {"echoReady", "echoAttach"}, Executes(kind),
               NEW mark \in {"ready", "attachDone"}, Prints(<<Marker(mark)>>)
        PROVE  InOrder'
    <3>1. Marker(mark) \in Lines /\ ~Requested(Marker(mark))
          /\ Marker(mark).kind # "gcoreDone"
      BY <2>2 DEF Lines, Marker, Line, Requested
    <3> QED BY <1>1, <2>2, <3>1, OrderPrints
  <2> QED BY <1>2, <2>1, <2>2 DEF EchoMarker
<1>3. CASE AttachTarget
  <2>1. Marker("attached") \in Lines /\ ~Requested(Marker("attached"))
        /\ Marker("attached").kind # "gcoreDone"
    BY DEF Lines, Marker, Line, Requested
  <2>2. Prints(<<Marker("attached")>>) \/ UNCHANGED stdout
    BY <1>3 DEF AttachTarget
  <2> QED BY <1>1, <1>3, <2>1, <2>2, OrderPrints, OrderFrame
          DEF AttachTarget, Outstanding
<1>4. CASE SetupTarget
  BY <1>1, <1>4, OrderFrame DEF SetupTarget, Outstanding
<1>5. CASE WriteCore
  <2>1. CASE UNCHANGED stdout
    BY <1>1, <1>5, <2>1, OrderFrame DEF WriteCore, Outstanding
  <2> QED BY <1>5, <2>1, OrderWrites
<1>6. CASE GdbExits \/ TargetStops
  <2>1. UNCHANGED <<clean, late, gen, asked, pc, gcoreDone, stdout>>
        /\ (stdin' = stdin \/ stdin' = <<>>)
    BY <1>6 DEF GdbExits, GdbGone, TargetStops, callVars, events
  <2> QED BY <2>1, FewerTaken, OrderFrame DEF Outstanding
<1>7. CASE BreakpointHit \/ LeakBreakpointHit
  <2> PICK b \in armed : Fires(b)
    BY <1>7, HitFires
  <2>1. UNCHANGED <<clean, late, gen, asked, pc, gcoreDone, stdin>> /\ alive
    BY DEF Fires, callVars, events
  <2>2. Fewer(Asking)
    BY <2>1, FewerTaken
  <2>3. CASE UNCHANGED stdout
    BY <2>1, <2>2, <2>3, OrderFrame DEF Outstanding
  <2>4. CASE Prints(<<Line("saved", Core(b))>>)
    <3>1. Line("saved", Core(b)) \in Lines
      BY BreakpointCore
    <3>2. ~Requested(Line("saved", Core(b)))
      BY DEF Line, Core, Requested, Unasked, TypeOK, GdbOK
    <3>3. Line("saved", Core(b)).kind # "gcoreDone"
      BY DEF Line
    <3> QED BY <2>1, <2>2, <2>4, <3>1, <3>2, <3>3, OrderPrints
  <2> QED BY <2>3, <2>4 DEF Fires
<1> QED BY <1>2, <1>3, <1>4, <1>5, <1>6, <1>7 DEF Gdb

\* A reader at work beside a clean GDB is the GDB's own.
LEMMA OwnReader ==
    ASSUME TypeOK, AttachInv, clean, NEW g \in 1..Gdbs,
           reader[g] \notin {"none", "ended"}
    PROVE  g = gen /\ gen # 0
BY BoundAssumption DEF TypeOK, CallOK, AttachInv, EarlierEnded, LaterSilent

LEMMA OrderReader ==
    ASSUME TypeOK, AttachInv, DeadIsDeaf, InOrder, Readers
    PROVE  InOrder'
<1>1. ASSUME NEW g \in 1..Gdbs, ReadEof(g) PROVE InOrder'
  <2>1. /\ UNCHANGED <<clean, late, gen, stdout, stdin, alive>>
        /\ reader[g] \notin {"none", "ended"} /\ stdout[g] = <<>>
        /\ g < gen \/ ~alive
    BY <1>1 DEF ReadEof, callVars, gdbVars
  <2> SUFFICES ASSUME clean, ~late, gen # 0 PROVE InputOrdered' /\ OutputOrdered'
    BY <2>1 DEF InOrder
  <2>2. g = gen
    BY <2>1, OwnReader
  <2>3. stdin' = <<>> /\ stdout'[gen'] = <<>>
    BY <2>1, <2>2, BoundAssumption DEF DeadIsDeaf
  <2> QED BY <2>3 DEF InputOrdered, OutputOrdered
<1>2. ASSUME NEW g \in 1..Gdbs, ReadLine(g) PROVE InOrder'
  <2>1. /\ UNCHANGED <<clean, late, gen, asked, pc, stdin>>
        /\ reader[g] = "reading"
        /\ gcoreDone' = (gcoreDone \/ stdout[g][1].kind = "gcoreDone")
    BY <1>2, LineTaken DEF ReadLine, callVars, gdbVars
  <2> SUFFICES ASSUME clean, ~late, gen # 0 PROVE InputOrdered' /\ OutputOrdered'
    BY <2>1 DEF InOrder
  <2>2. g = gen
    BY <2>1, OwnReader
  <2>3. InputOrdered /\ OutputOrdered
    BY DEF InOrder
  <2>4. /\ 1 \in DOMAIN stdout[gen]
        /\ \A i \in DOMAIN stdout'[gen] :
              /\ i \in Nat \ {0} /\ i + 1 \in DOMAIN stdout[gen]
              /\ stdout'[gen][i] = stdout[gen][i + 1]
    BY <1>2, <2>2, LineTaken
  <2>5. CASE stdout[gen][1].kind = "gcoreDone"
    <3>1. \A i \in DOMAIN stdin' : stdin'[i].kind \notin Asking
      BY <2>1, <2>3, <2>4, <2>5 DEF OutputOrdered
    <3>2. ASSUME NEW i \in DOMAIN stdout'[gen]
          PROVE  stdout'[gen][i].kind # "gcoreDone" /\ ~Requested(stdout'[gen][i])
      <4>1. i + 1 > 1 /\ i + 1 \in DOMAIN stdout[gen]
            /\ stdout'[gen][i] = stdout[gen][i + 1]
        BY <2>4
      <4> QED BY <2>3, <2>4, <2>5, <4>1 DEF OutputOrdered
    <3> QED BY <2>1, <3>1, <3>2 DEF InputOrdered, OutputOrdered, Pending, Asking,
               Requested, Unasked
  <2>6. CASE stdout[gen][1].kind # "gcoreDone"
    <3>1. Outstanding' <=> Outstanding
      BY <2>1, <2>2, <2>6 DEF Outstanding
    <3>2. InputOrdered'
      BY <2>1, <2>3, <3>1 DEF InputOrdered, Pending
    <3>3. ASSUME NEW i \in DOMAIN stdout'[gen], stdout'[gen][i].kind = "gcoreDone"
          PROVE  /\ Outstanding
                 /\ \A j \in DOMAIN stdin : stdin[j].kind \notin Asking
                 /\ \A j \in DOMAIN stdout'[gen] : j > i =>
                       /\ stdout'[gen][j].kind # "gcoreDone"
                       /\ ~Requested(stdout'[gen][j])
      <4>1. i + 1 \in DOMAIN stdout[gen] /\ stdout'[gen][i] = stdout[gen][i + 1]
            /\ i \in Nat
        BY <2>4
      <4>2. ASSUME NEW j \in DOMAIN stdout'[gen], j > i
            PROVE  /\ stdout'[gen][j].kind # "gcoreDone"
                   /\ ~Requested(stdout'[gen][j])
        <5>1. j + 1 \in DOMAIN stdout[gen] /\ stdout'[gen][j] = stdout[gen][j + 1]
              /\ j \in Nat
          BY <2>4
        <5>2. j + 1 > i + 1
          BY <4>1, <4>2, <5>1
        <5> QED BY <2>3, <3>3, <4>1, <5>1, <5>2 DEF OutputOrdered
      <4> QED BY <2>3, <3>3, <4>1, <4>2 DEF OutputOrdered
    <3>4. ASSUME NEW i \in DOMAIN stdout'[gen], Requested(stdout'[gen][i])
          PROVE  Outstanding /\ stdout'[gen][i].core.of = asked
      BY <2>3, <2>4, <3>4 DEF OutputOrdered
    <3> QED BY <2>1, <3>1, <3>2, <3>3, <3>4 DEF OutputOrdered, Requested, Unasked
  <2> QED BY <2>5, <2>6
<1> QED BY <1>1, <1>2 DEF Readers

LEMMA OrderStep ==
    ASSUME TypeOK, AttachInv, DeadIsDeaf, InOrder, [Next]_vars
    PROVE  InOrder'
<1>1. CASE DeviceCrashes \/ DeviceReboots \/ UNCHANGED vars
  <2>1. UNCHANGED <<callVars, gdbVars, stdout, events>>
    BY <1>1 DEF DeviceCrashes, DeviceReboots, vars
  <2>2. Fewer(Asking)
    BY <2>1, FewerTaken DEF gdbVars
  <2> QED BY <2>1, <2>2, OrderFrame DEF callVars, events, Outstanding
<1> QED BY <1>1, OrderCaller, OrderGdb, OrderReader DEF Next

LEMMA DeafStep ==
    ASSUME DeadIsDeaf, [Next]_vars
    PROVE  DeadIsDeaf'
<1>1. CASE Caller
  <2>1. CASE Launch
    <3>1. alive' \/ UNCHANGED <<alive, stdin>>
      BY <2>1 DEF Launch, Spawned, gdbVars
    <3> QED BY <3>1 DEF DeadIsDeaf
  <2>2. ASSUME NEW commands, Send(commands) PROVE DeadIsDeaf'
    BY <2>2 DEF Send, DeadIsDeaf
  <2>3. CASE GdbGone \/ UNCHANGED gdbVars
    BY <2>3 DEF GdbGone, gdbVars, DeadIsDeaf
  <2> QED BY <1>1, <2>1, <2>2, <2>3 DEF Caller, PromptSeen, AttachAnswered,
             StartTimesOut, Stop, StopReaps, StopJoins, AskGcore, GcoreAnswered,
             GcoreTimesOut, AskHarvest, Harvest, HarvestTimesOut
<1>2. CASE Gdb
  BY <1>2 DEF Gdb, EchoMarker, AttachTarget, SetupTarget, WriteCore, Executes,
     GdbExits, GdbGone, BreakpointHit, LeakBreakpointHit, TargetStops, DeadIsDeaf
<1>3. CASE Readers \/ DeviceCrashes \/ DeviceReboots \/ UNCHANGED vars
  BY <1>3 DEF Readers, ReadLine, ReadEof, DeviceCrashes, DeviceReboots, vars,
     gdbVars, DeadIsDeaf
<1> QED BY <1>1, <1>2, <1>3 DEF Next

LEMMA LastStep ==
    ASSUME TypeOK, AttachInv, OwnLines, InOrder, LastIsOwn, [Next]_vars
    PROVE  LastIsOwn'
<1>1. CASE Caller
  <2>1. CASE AskGcore
    BY <2>1 DEF AskGcore, LastIsOwn
  <2>2. CASE ~AskGcore
    <3>1. pc' # "gcore" \/ UNCHANGED <<callVars, lastCore>>
      BY <1>1, <2>2 DEF Caller, Launch, Spawned, PromptSeen, AttachAnswered,
         StartTimesOut, Stop, StopReaps, StopJoins, GcoreAnswered, GcoreTimesOut,
         AskHarvest, Harvest, HarvestTimesOut, Goto, HandOut, callVars, coreVars
    <3> QED BY <3>1 DEF LastIsOwn, callVars, Unasked
  <2> QED BY <2>1, <2>2
<1>2. ASSUME NEW g \in 1..Gdbs, ReadLine(g) PROVE LastIsOwn'
  <2>1. UNCHANGED callVars /\ reader[g] = "reading"
    BY <1>2 DEF ReadLine
  <2>2. 1 \in DOMAIN stdout[g] /\ Head(stdout[g]) = stdout[g][1]
    BY <1>2, LineTaken
  <2>3. CASE Saved(g, 1)
    <3> SUFFICES ASSUME clean, pc = "gcore"
                 PROVE  /\ lastCore'.gdb = gen
                        /\ ~late => Unasked(lastCore') \/ lastCore'.of = asked
      BY <2>1 DEF LastIsOwn, callVars, Unasked
    <3>1. lastCore' = stdout[g][1].core
      BY <1>2, <2>2, <2>3 DEF ReadLine, Saved
    <3>2. g = gen /\ gen # 0
      BY <2>1, OwnReader
    <3>3. lastCore'.gdb = gen
      BY <2>2, <2>3, <3>1, <3>2 DEF OwnLines
    <3>4. ~late => Unasked(lastCore') \/ lastCore'.of = asked
      BY <2>2, <2>3, <3>1, <3>2 DEF InOrder, OutputOrdered, Requested, Saved
    <3> QED BY <3>3, <3>4
  <2>4. CASE ~Saved(g, 1)
    BY <1>2, <2>1, <2>2, <2>4 DEF ReadLine, Saved, LastIsOwn, callVars, Unasked
  <2> QED BY <2>3, <2>4
<1>3. CASE \/ Gdb \/ \E g \in 1..Gdbs : ReadEof(g)
           \/ DeviceCrashes \/ DeviceReboots \/ UNCHANGED vars
  <2>1. UNCHANGED <<callVars, coreVars>>
    BY <1>3 DEF Gdb, EchoMarker, AttachTarget, SetupTarget, WriteCore, Executes,
       GdbExits, BreakpointHit, LeakBreakpointHit, TargetStops,
       ReadEof, DeviceCrashes,
       DeviceReboots, vars
  <2> QED BY <2>1 DEF LastIsOwn, callVars, coreVars, Unasked
<1> QED BY <1>1, <1>2, <1>3 DEF Next, Readers

LEMMA OwnStep ==
    ASSUME TypeOK, TypeOK', LastIsOwn, AnswerIsOwn, [Next]_vars
    PROVE  AnswerIsOwn'
<1>1. CASE UNCHANGED handed
  BY <1>1 DEF AnswerIsOwn, Unasked
<1>2. ASSUME NEW core, NEW request, HandOut(core, request),
             clean /\ request # 0 =>
                /\ core.gdb = gen
                /\ ~late => Unasked(core) \/ core.of = request
      PROVE  AnswerIsOwn'
  <2> SUFFICES ASSUME NEW k \in DOMAIN handed',
                      handed'[k].request # 0, handed'[k].clean
               PROVE  /\ handed'[k].core.gdb = handed'[k].gdb
                      /\ ~handed'[k].late => \/ Unasked(handed'[k].core)
                                             \/ handed'[k].core.of = handed'[k].request
    BY DEF AnswerIsOwn, Unasked
  <2>1. CASE k = Len(handed) + 1
    BY <1>2, <2>1, AnswerAdded
  <2>2. CASE k # Len(handed) + 1
    <3>1. k \in DOMAIN handed /\ handed'[k] = handed[k]
      BY <1>2, <2>2, AnswerAdded
    <3> QED BY <3>1 DEF AnswerIsOwn
  <2> QED BY <2>1, <2>2
<1>3. CASE GcoreAnswered
  <2>1. CASE lastCore = NoCore
    BY <1>1, <1>3, <2>1 DEF GcoreAnswered, Goto
  <2>2. CASE lastCore # NoCore
    BY <1>2, <1>3, <2>2 DEF GcoreAnswered, LastIsOwn
  <2> QED BY <2>1, <2>2
<1>4. CASE Harvest
  BY <1>2, <1>4 DEF Harvest
<1>5. CASE ~(GcoreAnswered \/ Harvest)
  <2>1. CASE Caller
    BY <1>1, <1>5, <2>1 DEF Caller, Launch, Spawned, PromptSeen, AttachAnswered,
       StartTimesOut, Stop, StopReaps, StopJoins, AskGcore, GcoreTimesOut,
       AskHarvest, HarvestTimesOut, Goto, callVars
  <2>2. CASE \/ Gdb \/ Readers \/ DeviceCrashes \/ DeviceReboots \/ UNCHANGED vars
    BY <1>1, <2>2 DEF Gdb, EchoMarker, AttachTarget, SetupTarget, WriteCore,
       Executes, GdbExits, BreakpointHit, LeakBreakpointHit, TargetStops,
       Readers, ReadLine, ReadEof,
       DeviceCrashes, DeviceReboots, vars, callVars
  <2> QED BY <2>1, <2>2 DEF Next
<1> QED BY <1>3, <1>4, <1>5

LEMMA AnswerInvariant == Spec => []AnswerInv
<1>1. Init => AnswerInv
  BY DEF Init, AnswerInv, InOrder, DeadIsDeaf, LastIsOwn, AnswerIsOwn
<1>2. TypeOK /\ TypeOK' /\ AttachInv /\ CoreInv /\ AnswerInv /\ [Next]_vars
         => AnswerInv'
  BY OrderStep, DeafStep, LastStep, OwnStep DEF AnswerInv, CoreInv
<1> QED BY <1>1, <1>2, GdbTypeCorrect, AttachInvariant, CoreInvariant, PTL DEF Spec

(* generate_coredump answers with a corefile of the GDB it asked and, when   *)
(* none of its requests has timed out, with the one it asked for or one that *)
(* it wrote by itself, for a crash or a leak; unless the reader of an        *)
(* earlier GDB was still at work.                                           *)
THEOREM AnswersAreOwn == Spec => []AnswerIsOwn
<1>1. AnswerInv => AnswerIsOwn
  BY DEF AnswerInv
<1> QED BY <1>1, AnswerInvariant, PTL

-----------------------------------------------------------------------------
(* A harvest looks at the present GDB's corefiles first. *)

LEMMA PresentStep ==
    ASSUME TypeOK, AttachInv, CoreInv, PresentLast, [Next]_vars
    PROVE  PresentLast'
<1>1. CASE UNCHANGED <<clean, gen, corefiles>>
  BY <1>1 DEF PresentLast
<1>2. corefiles \in Seq(Cores) /\ Len(corefiles) \in Nat
      /\ DOMAIN corefiles = 1..Len(corefiles)
      /\ \A i \in DOMAIN corefiles : corefiles[i] \in Cores
  BY LenProperties, ElementOfSeq DEF TypeOK, CoresOK
<1>3. CASE Launch
  <2>1. CASE Spawned
    <3>1. UNCHANGED corefiles /\ gen' = gen + 1 /\ gen \in Nat
      BY <1>3, <2>1, BoundAssumption DEF Launch, Spawned, coreVars, TypeOK, CallOK
    <3>2. \A i \in DOMAIN corefiles : corefiles[i].gdb <= gen
      BY <1>2 DEF CoreInv, NoneAhead, Written, Kept
    <3>3. \A i \in DOMAIN corefiles : corefiles[i].gdb \in Nat
      BY <1>2, BoundAssumption DEF Cores
    <3> QED BY <3>1, <3>2, <3>3 DEF PresentLast
  <2> QED BY <1>1, <1>3, <2>1 DEF Launch, callVars, coreVars
<1>4. ASSUME NEW g \in 1..Gdbs, ReadLine(g) PROVE PresentLast'
  <2>1. UNCHANGED callVars /\ reader[g] = "reading"
    BY <1>4 DEF ReadLine
  <2>2. 1 \in DOMAIN stdout[g] /\ Head(stdout[g]) = stdout[g][1]
        /\ stdout[g][1] \in Lines
    BY <1>4, LineTaken
  <2>3. CASE Saved(g, 1)
    <3> DEFINE core == stdout[g][1].core
    <3> SUFFICES ASSUME clean,
                        NEW i \in DOMAIN corefiles', NEW j \in DOMAIN corefiles',
                        i < j, corefiles'[i].gdb = gen
                 PROVE  corefiles'[j].gdb = gen
      BY <2>1 DEF PresentLast, callVars
    <3>1. corefiles' = Append(corefiles, core) /\ core \in Cores
      BY <1>4, <2>2, <2>3 DEF ReadLine, Saved, Lines, Line, Marker
    <3>2. core.gdb = gen
      BY <2>1, <2>2, <2>3, OwnReader DEF CoreInv, OwnLines
    <3> HIDE DEF core
    <3>3. /\ corefiles' \in Seq(Cores)
          /\ Len(corefiles') = Len(corefiles) + 1
          /\ \A k \in 1..Len(corefiles) : corefiles'[k] = corefiles[k]
          /\ corefiles'[Len(corefiles) + 1] = core
      BY <1>2, <3>1, AppendProperties
    <3>4. DOMAIN corefiles' = 1..(Len(corefiles) + 1)
      BY <1>2, <3>3, LenProperties
    <3>5. CASE j = Len(corefiles) + 1
      BY <3>2, <3>3, <3>5
    <3>6. CASE j # Len(corefiles) + 1
      BY <1>2, <3>3, <3>4, <3>6 DEF PresentLast
    <3> QED BY <3>5, <3>6
  <2>4. CASE ~Saved(g, 1)
    BY <1>1, <1>4, <2>1, <2>2, <2>4 DEF ReadLine, Saved, callVars
  <2> QED BY <2>3, <2>4
<1>5. CASE Caller /\ ~Launch
  BY <1>1, <1>5 DEF Caller, PromptSeen, AttachAnswered, StartTimesOut, Stop,
     StopReaps, StopJoins, AskGcore, GcoreAnswered, GcoreTimesOut, AskHarvest,
     Harvest, HarvestTimesOut, Goto, HandOut, coreVars
<1>6. CASE \/ Gdb \/ \E g \in 1..Gdbs : ReadEof(g)
           \/ DeviceCrashes \/ DeviceReboots \/ UNCHANGED vars
  <2>1. UNCHANGED <<callVars, coreVars>>
    BY <1>6 DEF Gdb, EchoMarker, AttachTarget, SetupTarget, WriteCore, Executes,
       GdbExits, BreakpointHit, LeakBreakpointHit, TargetStops,
       ReadEof, DeviceCrashes,
       DeviceReboots, vars
  <2> QED BY <1>1, <2>1 DEF callVars, coreVars
<1> QED BY <1>3, <1>4, <1>5, <1>6 DEF Next, Readers

LEMMA OnlyHarvest ==
    ASSUME pc = "harvest", handed' # handed, [Next]_vars
    PROVE  Harvest
<1>1. CASE Caller
  BY <1>1 DEF Caller, Launch, PromptSeen, AttachAnswered, StartTimesOut, Stop,
     StopReaps, StopJoins, AskGcore, GcoreAnswered, GcoreTimesOut, AskHarvest,
     HarvestTimesOut, Goto
<1>2. CASE \/ Gdb \/ Readers \/ DeviceCrashes \/ DeviceReboots \/ UNCHANGED vars
  <2>1. UNCHANGED callVars
    BY <1>2 DEF Gdb, EchoMarker, AttachTarget, SetupTarget, WriteCore, Executes,
       GdbExits, BreakpointHit, LeakBreakpointHit, TargetStops,
       Readers, ReadLine, ReadEof,
       DeviceCrashes, DeviceReboots, vars
  <2> QED BY <2>1 DEF callVars
<1> QED BY <1>1, <1>2 DEF Next

(* A harvest answers with a corefile of an earlier GDB only if the present   *)
(* one has none to give, unless the reader of an earlier one was still at    *)
(* work (_next_unconsumed_corefile).                                        *)
THEOREM HarvestsPreferPresent == Spec => HarvestPrefersPresent
<1> DEFINE present == \E c \in Unconsumed : c.gdb = gen
           Prefers == pc = "harvest" /\ handed' # handed /\ clean /\ present
                         => Last(handed').core.gdb = gen
<1>1. Init => PresentLast
  BY DEF Init, PresentLast
<1>2. TypeOK /\ AttachInv /\ CoreInv /\ PresentLast /\ [Next]_vars => PresentLast'
  BY PresentStep
<1>3. ASSUME TypeOK, TypeOK', PresentLast, [Next]_vars PROVE [Prefers]_vars
  <2> SUFFICES ASSUME pc = "harvest", handed' # handed, clean, present
               PROVE  Last(handed').core.gdb = gen
    OBVIOUS
  <2>1. PICK c \in Unconsumed : Newest(c) /\ HandOut(c, 0)
    BY <1>3, OnlyHarvest DEF Harvest
  <2>2. PICK i \in DOMAIN corefiles :
            /\ corefiles[i] = c
            /\ \A j \in DOMAIN corefiles : j > i => corefiles[j] \in consumed
    BY <2>1 DEF Newest
  <2>3. PICK d \in Unconsumed : d.gdb = gen
    OBVIOUS
  <2>4. PICK k \in DOMAIN corefiles : corefiles[k] = d
    BY <2>3 DEF Unconsumed, ToSet
  <2>5. ~(k > i)
    BY <2>2, <2>4 DEF Unconsumed
  <2>6. i \in Nat /\ k \in Nat
    BY <1>3, LenProperties DEF TypeOK, CoresOK
  <2>7. c.gdb = gen
    <3>1. CASE k = i
      BY <2>2, <2>3, <2>4, <3>1
    <3>2. CASE k < i
      BY <1>3, <2>2, <2>3, <2>4, <3>2 DEF PresentLast
    <3> QED BY <2>5, <2>6, <3>1, <3>2
  <2>8. Last(handed') = handed'[Len(handed) + 1]
        /\ handed'[Len(handed) + 1].core = c
    <3>1. handed \in Seq(Answers) /\ handed' \in Seq(Answers)
      BY <1>3 DEF TypeOK, CallOK
    <3>2. handed' # <<>>
      BY <2>1, <3>1, AppendProperties DEF HandOut
    <3>3. Len(handed') \in DOMAIN handed'
      BY <3>1, <3>2, LenProperties, EmptySeq
    <3>4. Len(handed') = Len(handed) + 1
      BY <1>3, <2>1, <3>3, AnswerAdded
    <3> QED BY <1>3, <2>1, <3>3, <3>4, AnswerAdded DEF Last
  <2> QED BY <2>7, <2>8
<1>4. Spec => [][Prefers]_vars
  BY <1>1, <1>2, <1>3, GdbTypeCorrect, AttachInvariant, CoreInvariant, PTL DEF Spec
<1> QED BY <1>4, PTL DEF HarvestPrefersPresent
=============================================================================
