-------------------------- MODULE GdbSessionProofs --------------------------
(***************************************************************************)
(* Theorems about GdbSession, for any number of GDB processes, boots,       *)
(* requests and breakpoints.                                               *)
(***************************************************************************)
EXTENDS GdbSession, SequenceTheorems, TLAPS

-----------------------------------------------------------------------------
(* Type correctness, part by part. *)

LEMMA CommandTypes ==
    /\ <<Command("attach", 0), Command("echoAttach", 0)>> \in Seq(Commands)
    /\ <<Command("setup", 0)>> \in Seq(Commands)
    /\ <<Command("quit", 0)>> \in Seq(Commands)
    /\ <<Command("echoReady", 0)>> \in Seq(Commands)
    /\ \A n \in 1..Requests :
          <<Command("gcore", n), Command("echoGcore", 0)>> \in Seq(Commands)
BY DEF Commands

(* What is sent keeps the type of GDB's input. *)
LEMMA SendType ==
    ASSUME GdbOK, NEW commands \in Seq(Commands), Send(commands)
    PROVE  GdbOK'
<1>1. stdin \o commands \in Seq(Commands)
  BY ConcatProperties DEF GdbOK
<1> QED BY <1>1 DEF Send, GdbOK

LEMMA GoneType ==
    ASSUME GdbOK, GdbGone
    PROVE  GdbOK' /\ ~alive'
<1>1. <<>> \in Seq(Commands)
  OBVIOUS
<1> QED BY <1>1 DEF GdbGone, GdbOK

(* A gcore command carries the number of a request. *)
LEMMA GcoreCommand ==
    ASSUME NEW c \in Commands, c.kind = "gcore"
    PROVE  c.n \in 1..Requests
<1>1. CASE c \in {Command("gcore", n) : n \in 1..Requests}
  BY <1>1 DEF Command
<1>2. CASE c \notin {Command("gcore", n) : n \in 1..Requests}
  <2>1. c.kind \in {"echoReady", "attach", "echoAttach", "setup", "echoGcore", "quit"}
    BY <1>2 DEF Commands, Command
  <2> QED BY <2>1
<1> QED BY <1>1, <1>2

(* Starting and stopping. *)
LEMMA StartStopType ==
    ASSUME TypeOK,
           \/ Launch \/ PromptSeen \/ AttachAnswered \/ StartTimesOut
           \/ Stop \/ StopReaps \/ StopJoins
    PROVE  TypeOK'
<1> USE DEF TypeOK
<1>1. CASE Launch
  <2>1. CoresOK' /\ DeviceOK'
    BY <1>1 DEF Launch, CoresOK, DeviceOK, coreVars, deviceVars
  <2>2. CASE Spawned
    <3>1. gen + 1 \in 1..Gdbs /\ gen' = gen + 1
      BY <1>1, <2>2, BoundAssumption DEF Launch, Spawned, CallOK
    <3>2. CallOK'
      <4>1. gen' # 0 /\ gen' \in 0..Gdbs
        BY <3>1, BoundAssumption
      <4>2. clean' \in BOOLEAN /\ late' \in BOOLEAN
        BY <2>2 DEF Spawned
      <4> QED BY <2>2, <4>1, <4>2 DEF Spawned, CallOK
    <3>3. GdbOK'
      <4>1. stdin' \in Seq(Commands)
        BY <2>2, CommandTypes DEF Spawned
      <4>2. alive' \in BOOLEAN /\ running' \in BOOLEAN
        BY <2>2 DEF Spawned
      <4>3. target' \in 0..Boots /\ armed' \subseteq Breakpoints
        BY <2>2, BoundAssumption DEF Spawned
      <4> QED BY <4>1, <4>2, <4>3 DEF GdbOK
    <3>4. OutputOK'
      BY <1>1, <2>2, <3>1 DEF Launch, Spawned, OutputOK
    <3> QED BY <2>1, <3>2, <3>3, <3>4
  <2>3. CASE UNCHANGED <<callVars, gdbVars, readerVars>>
    <3>1. CallOK' /\ GdbOK'
      BY <2>3 DEF callVars, gdbVars, CallOK, GdbOK
    <3>2. OutputOK'
      BY <1>1, <2>3 DEF Launch, OutputOK, readerVars
    <3> QED BY <2>1, <3>1, <3>2
  <2> QED BY <1>1, <2>2, <2>3 DEF Launch
<1>2. ASSUME UNCHANGED <<stdout, readerVars, events, attached, coreVars, deviceVars>>
      PROVE  OutputOK' /\ CoresOK' /\ DeviceOK'
  BY <1>2 DEF readerVars, events, coreVars, deviceVars, OutputOK, CoresOK, DeviceOK
<1>3. CASE PromptSeen
  <2>1. GdbOK'
    BY <1>3, SendType, CommandTypes, GoneType DEF PromptSeen, gdbVars, GdbOK
  <2>2. CallOK'
    BY <1>3 DEF PromptSeen, Goto, CallOK
  <2> QED BY <1>2, <1>3, <2>1, <2>2 DEF PromptSeen
<1>4. CASE AttachAnswered
  <2>1. GdbOK'
    BY <1>4, SendType, CommandTypes, GoneType DEF AttachAnswered
  <2>2. CallOK'
    BY <1>4 DEF AttachAnswered, Goto, CallOK
  <2> QED BY <1>2, <1>4, <2>1, <2>2 DEF AttachAnswered
<1>5. CASE Stop
  <2>1. GdbOK'
    BY <1>5, SendType, CommandTypes DEF Stop
  <2>2. CallOK'
    BY <1>5 DEF Stop, Goto, CallOK
  <2> QED BY <1>2, <1>5, <2>1, <2>2 DEF Stop
<1>6. CASE StartTimesOut \/ StopReaps
  <2>1. GdbOK'
    BY <1>6, GoneType DEF StartTimesOut, StopReaps
  <2>2. CallOK'
    BY <1>6 DEF StartTimesOut, StopReaps, Goto, CallOK
  <2> QED BY <1>2, <1>6, <2>1, <2>2 DEF StartTimesOut, StopReaps
<1>7. CASE StopJoins
  <2>1. GdbOK' /\ CallOK'
    BY <1>7 DEF StopJoins, Goto, gdbVars, GdbOK, CallOK
  <2> QED BY <1>2, <1>7, <2>1 DEF StopJoins
<1> QED BY <1>1, <1>3, <1>4, <1>5, <1>6, <1>7

(* A corefile that is handed out is a corefile, asked of a GDB. *)
LEMMA HandOutType ==
    ASSUME CallOK, gen # 0, NEW core \in Cores, NEW request \in 0..Requests,
           HandOut(core, request)
    PROVE  CallOK'
<1> DEFINE answer == [core |-> core, request |-> request, gdb |-> gen,
                      clean |-> clean, late |-> late]
<1>1. answer \in Answers
  BY BoundAssumption DEF CallOK, Answers
<1>2. Append(handed, answer) \in Seq(Answers)
  BY <1>1, AppendProperties DEF CallOK
<1> QED BY <1>2 DEF HandOut, CallOK

(* Asking for coredumps. *)
LEMMA CoredumpType ==
    ASSUME TypeOK,
           \/ AskGcore \/ GcoreAnswered \/ GcoreTimesOut
           \/ AskHarvest \/ Harvest \/ HarvestTimesOut
    PROVE  TypeOK'
<1> USE DEF TypeOK
<1>1. CASE AskGcore
  <2>1. asked + 1 \in 1..Requests
    BY <1>1, BoundAssumption DEF AskGcore, CallOK
  <2>2. GdbOK'
    <3> DEFINE commands == <<Command("gcore", asked + 1), Command("echoGcore", 0)>>
    <3>1. commands \in Seq(Commands) /\ Send(commands)
      BY <1>1, <2>1, CommandTypes DEF AskGcore
    <3> HIDE DEF commands
    <3> QED BY <3>1, SendType
  <2>3. CallOK'
    BY <1>1, <2>1, BoundAssumption DEF AskGcore, CallOK
  <2>4. OutputOK' /\ CoresOK' /\ DeviceOK'
    BY <1>1 DEF AskGcore, OutputOK, CoresOK, DeviceOK, readerVars, deviceVars
  <2> QED BY <2>2, <2>3, <2>4
<1>2. ASSUME UNCHANGED <<gdbVars, stdout, readerVars, events, attached, deviceVars>>
      PROVE  GdbOK' /\ OutputOK' /\ DeviceOK'
  BY <1>2 DEF gdbVars, readerVars, events, deviceVars, GdbOK, OutputOK, DeviceOK
<1>3. CASE GcoreAnswered
  <2>1. CASE lastCore = NoCore
    <3>1. CallOK' /\ CoresOK'
      BY <1>3, <2>1 DEF GcoreAnswered, Goto, CallOK, CoresOK
    <3> QED BY <1>2, <1>3, <3>1 DEF GcoreAnswered
  <2>2. CASE lastCore # NoCore
    <3>1. lastCore \in Cores /\ gen # 0 /\ asked \in 0..Requests
      BY <1>3, <2>2 DEF GcoreAnswered, CallOK, CoresOK
    <3>2. CallOK'
      BY <1>3, <2>2, <3>1, HandOutType DEF GcoreAnswered
    <3>3. CoresOK'
      BY <1>3, <2>2, <3>1 DEF GcoreAnswered, CoresOK
    <3> QED BY <1>2, <1>3, <3>2, <3>3 DEF GcoreAnswered
  <2> QED BY <2>1, <2>2
<1>4. CASE Harvest
  <2>1. PICK c \in Unconsumed : HandOut(c, 0) /\ consumed' = consumed \cup {c}
    BY <1>4 DEF Harvest
  <2>2. c \in Cores
    BY <2>1, ElementOfSeq DEF Unconsumed, ToSet, CoresOK
  <2>3. gen # 0 /\ 0 \in 0..Requests
    BY <1>4, BoundAssumption DEF Harvest, CallOK
  <2>4. CallOK'
    BY <2>1, <2>2, <2>3, HandOutType
  <2>5. CoresOK'
    BY <1>4, <2>1, <2>2 DEF Harvest, CoresOK
  <2> QED BY <1>2, <1>4, <2>4, <2>5 DEF Harvest
<1>5. CASE GcoreTimesOut \/ AskHarvest \/ HarvestTimesOut
  <2>1. CallOK'
    <3>1. asked' \in 0..Requests
      BY <1>5, BoundAssumption DEF GcoreTimesOut, AskHarvest, HarvestTimesOut,
               Goto, CallOK
    <3>2. late' \in BOOLEAN /\ gen # 0
      BY <1>5 DEF GcoreTimesOut, AskHarvest, HarvestTimesOut, Goto, CallOK
    <3> QED BY <1>5, <3>1, <3>2 DEF GcoreTimesOut, AskHarvest, HarvestTimesOut,
                                    Goto, CallOK
  <2>2. CoresOK'
    BY <1>5 DEF GcoreTimesOut, AskHarvest, HarvestTimesOut, coreVars, CoresOK
  <2> QED BY <1>2, <1>5, <2>1, <2>2 DEF GcoreTimesOut, AskHarvest, HarvestTimesOut
<1> QED BY <1>1, <1>3, <1>4, <1>5

(* What GDB prints keeps the type of its output. *)
LEMMA PrintsType ==
    ASSUME OutputOK, gen \in 1..Gdbs, NEW line \in Lines, Prints(<<line>>)
    PROVE  stdout' \in [1..Gdbs -> Seq(Lines)]
<1>1. stdout[gen] \o <<line>> \in Seq(Lines)
  BY ConcatProperties DEF OutputOK
<1> QED BY <1>1 DEF Prints, OutputOK

(* What GDB says of a corefile it has written is a line. *)
LEMMA WrittenCore ==
    ASSUME TypeOK, Executes("gcore"), target # 0
    PROVE  Line("saved", Core(Head(stdin).n)) \in Lines
<1>1. gen \in 1..Gdbs
  BY BoundAssumption DEF Executes, TypeOK, CallOK
<1>2. Head(stdin) \in Commands /\ Head(stdin).kind = "gcore"
  BY HeadTailProperties DEF Executes, TypeOK, GdbOK
<1>3. Head(stdin).n \in 1..Requests
  BY <1>2, GcoreCommand
<1>4. Core(Head(stdin).n) \in Cores
  BY <1>1, <1>3, BoundAssumption DEF Cores, Core, TypeOK, GdbOK
<1> QED BY <1>4 DEF Lines

\* A breakpoint that is hit, of a crash with its siblings or of the leak check.
Fires(b) ==
    /\ alive /\ target = boot
    /\ armed' = IF b \in Specs THEN armed \ Specs ELSE armed \ {b}
    /\ Prints(<<Line("saved", Core(b))>>) \/ UNCHANGED stdout
    /\ UNCHANGED <<callVars, alive, stdin, running, target, readerVars, events,
                   attached, coreVars, deviceVars>>

LEMMA HitFires ==
    ASSUME BreakpointHit \/ LeakBreakpointHit
    PROVE  \E b \in armed : Fires(b)
<1>1. CASE BreakpointHit
  BY <1>1 DEF BreakpointHit, Fires
<1>2. CASE LeakBreakpointHit
  BY <1>2, SpecAssumption DEF LeakBreakpointHit, Fires
<1> QED BY <1>1, <1>2

LEMMA BreakpointCore ==
    ASSUME TypeOK, NEW b \in armed, Fires(b)
    PROVE  Line("saved", Core(b)) \in Lines
<1>1. gen \in 1..Gdbs
  BY BoundAssumption DEF Fires, TypeOK, CallOK
<1>2. Core(b) \in Cores
  BY <1>1 DEF Fires, Cores, Core, TypeOK, GdbOK, DeviceOK
<1> QED BY <1>2 DEF Lines

(* GDB and its plugin. *)
LEMMA GdbType ==
    ASSUME TypeOK, Gdb
    PROVE  TypeOK'
<1> USE DEF TypeOK
<1>1. alive => gen \in 1..Gdbs
  BY BoundAssumption DEF CallOK
<1>2. ASSUME NEW kind, Executes(kind)
      PROVE  /\ stdin' \in Seq(Commands) /\ Head(stdin) \in Commands
             /\ Head(stdin).kind = kind /\ gen \in 1..Gdbs
             /\ UNCHANGED <<callVars, readerVars, events, attached, coreVars,
                            deviceVars>>
  BY <1>1, <1>2, HeadTailProperties DEF Executes, GdbOK
<1>3. ASSUME UNCHANGED <<callVars, alive>>
      PROVE  CallOK'
  BY <1>3 DEF callVars, CallOK
<1>4. ASSUME UNCHANGED <<readerVars, events, attached, coreVars, deviceVars>>,
             stdout' \in [1..Gdbs -> Seq(Lines)]
      PROVE  OutputOK' /\ CoresOK' /\ DeviceOK'
  BY <1>4 DEF readerVars, events, coreVars, deviceVars, OutputOK, CoresOK, DeviceOK
<1>5. stdout \in [1..Gdbs -> Seq(Lines)]
  BY DEF OutputOK
<1>6. CASE EchoMarker
  <2>1. PICK kind \in {"echoReady", "echoAttach", "echoGcore"} : Executes(kind)
    BY <1>6 DEF EchoMarker
  <2>2. PICK line \in Lines : Prints(<<line>>)
    BY <1>6 DEF EchoMarker, Lines
  <2>3. stdout' \in [1..Gdbs -> Seq(Lines)]
    BY <1>2, <2>1, <2>2, PrintsType
  <2>4. GdbOK'
    BY <1>2, <1>6, <2>1 DEF EchoMarker, GdbOK
  <2> QED BY <1>2, <1>3, <1>4, <1>6, <2>1, <2>3, <2>4 DEF EchoMarker
<1>7. CASE AttachTarget
  <2>1. Marker("attached") \in Lines
    BY DEF Lines
  <2>2. stdout' \in [1..Gdbs -> Seq(Lines)]
    BY <1>2, <1>5, <1>7, <2>1, PrintsType DEF AttachTarget
  <2>3. GdbOK'
    BY <1>2, <1>7, BoundAssumption DEF AttachTarget, GdbOK, DeviceOK
  <2> QED BY <1>2, <1>3, <1>4, <1>7, <2>2, <2>3 DEF AttachTarget
<1>8. CASE SetupTarget
  <2>1. GdbOK'
    BY <1>2, <1>8 DEF SetupTarget, GdbOK
  <2> QED BY <1>2, <1>3, <1>4, <1>5, <1>8, <2>1 DEF SetupTarget
<1>9. CASE WriteCore
  <2>1. stdout' \in [1..Gdbs -> Seq(Lines)]
    BY <1>2, <1>5, <1>9, WrittenCore, PrintsType DEF WriteCore
  <2>2. GdbOK'
    BY <1>2, <1>9 DEF WriteCore, GdbOK
  <2> QED BY <1>2, <1>3, <1>4, <1>9, <2>1, <2>2 DEF WriteCore
<1>10. CASE GdbExits
  <2>1. GdbOK' /\ CallOK'
    BY <1>10, GoneType DEF GdbExits, callVars, CallOK
  <2> QED BY <1>4, <1>5, <1>10, <2>1 DEF GdbExits
<1>11. CASE BreakpointHit \/ LeakBreakpointHit
  <2>1. PICK b \in armed : Fires(b)
    BY <1>11, HitFires
  <2>2. stdout' \in [1..Gdbs -> Seq(Lines)]
    BY <1>1, <1>5, <2>1, BreakpointCore, PrintsType DEF Fires
  <2>3. GdbOK'
    BY <2>1 DEF Fires, GdbOK
  <2> QED BY <1>3, <1>4, <2>1, <2>2, <2>3 DEF Fires
<1>12. CASE TargetStops
  <2>1. GdbOK'
    BY <1>12 DEF TargetStops, GdbOK
  <2> QED BY <1>3, <1>4, <1>5, <1>12, <2>1 DEF TargetStops
<1> QED BY <1>6, <1>7, <1>8, <1>9, <1>10, <1>11, <1>12 DEF Gdb

(* The readers. *)
LEMMA ReaderType ==
    ASSUME TypeOK, Readers
    PROVE  TypeOK'
<1> USE DEF TypeOK
<1>1. ASSUME NEW g \in 1..Gdbs, ReadLine(g) PROVE TypeOK'
  <2> DEFINE line == Head(stdout[g])
  <2>1. line \in Lines /\ Tail(stdout[g]) \in Seq(Lines)
    BY <1>1, HeadTailProperties DEF ReadLine, OutputOK
  <2>2. line.kind = "saved" => line.core \in Cores
    BY <2>1 DEF Lines, Line, Marker
  <2>3. CASE line.kind = "saved"
    <3>1. Append(corefiles, line.core) \in Seq(Cores)
      BY <2>2, <2>3, AppendProperties DEF CoresOK
    <3> QED
      <4>1. CoresOK'
        BY <1>1, <2>2, <2>3, <3>1 DEF ReadLine, CoresOK
      <4>2. OutputOK'
        BY <1>1, <2>1 DEF ReadLine, OutputOK, readerVars
      <4>3. CallOK' /\ GdbOK' /\ DeviceOK'
        BY <1>1 DEF ReadLine, CallOK, GdbOK, DeviceOK, callVars, gdbVars, deviceVars
      <4> QED BY <4>1, <4>2, <4>3
  <2>4. CASE line.kind # "saved"
    <3>1. CoresOK'
      BY <1>1, <2>4 DEF ReadLine, CoresOK
    <3>2. OutputOK'
      BY <1>1, <2>1 DEF ReadLine, OutputOK, readerVars
    <3>3. CallOK' /\ GdbOK' /\ DeviceOK'
      BY <1>1 DEF ReadLine, CallOK, GdbOK, DeviceOK, callVars, gdbVars, deviceVars
    <3> QED BY <3>1, <3>2, <3>3
  <2> QED BY <2>3, <2>4
<1>2. ASSUME NEW g \in 1..Gdbs, ReadEof(g) PROVE TypeOK'
  <2>1. OutputOK'
    BY <1>2 DEF ReadEof, OutputOK
  <2>2. CallOK' /\ GdbOK' /\ DeviceOK' /\ CoresOK'
    BY <1>2 DEF ReadEof, CallOK, GdbOK, DeviceOK, CoresOK, callVars, gdbVars,
                deviceVars, coreVars
  <2> QED BY <2>1, <2>2
<1> QED BY <1>1, <1>2 DEF Readers

LEMMA StepType ==
    ASSUME TypeOK, [Next]_vars
    PROVE  TypeOK'
<1> USE DEF TypeOK
<1>1. ASSUME UNCHANGED <<callVars, gdbVars, stdout, readerVars, events,
                         attached, coreVars>>
      PROVE  CallOK' /\ GdbOK' /\ OutputOK' /\ CoresOK'
  BY <1>1 DEF CallOK, GdbOK, OutputOK, CoresOK, callVars, gdbVars, readerVars,
              events, coreVars
<1>2. CASE DeviceCrashes \/ DeviceReboots
  <2>1. CASE DeviceCrashes
    <3>1. boot' = boot /\ crashed' = TRUE
      BY <2>1 DEF DeviceCrashes
    <3> QED BY <1>1, <2>1, <3>1 DEF DeviceCrashes, DeviceOK
  <2>2. CASE DeviceReboots
    <3>1. boot' \in 1..Boots /\ crashed' = FALSE
      BY <2>2, BoundAssumption DEF DeviceReboots, DeviceOK
    <3> QED BY <1>1, <2>2, <3>1 DEF DeviceReboots, DeviceOK
  <2> QED BY <1>2, <2>1, <2>2
<1>3. CASE UNCHANGED vars
  BY <1>1, <1>3 DEF vars, deviceVars, DeviceOK
<1> QED BY <1>2, <1>3, StartStopType, CoredumpType, GdbType, ReaderType
        DEF Next, Caller

(* Every run of a controller is well typed. *)
THEOREM GdbTypeCorrect == Spec => []TypeOK
<1>1. Init => TypeOK
  <2> SUFFICES ASSUME Init PROVE TypeOK
    OBVIOUS
  <2>1. \A S : <<>> \in Seq(S)
    OBVIOUS
  <2>2. CallOK
    <3>1. gen \in 0..Gdbs /\ asked \in 0..Requests
      BY BoundAssumption DEF Init
    <3> QED BY <2>1, <3>1 DEF Init, CallOK
  <2>3. GdbOK
    <3>1. target \in 0..Boots
      BY BoundAssumption DEF Init
    <3> QED BY <2>1, <3>1 DEF Init, GdbOK
  <2>4. OutputOK
    BY <2>1 DEF Init, OutputOK
  <2>5. CoresOK /\ DeviceOK
    <3>1. boot \in 1..Boots
      BY BoundAssumption DEF Init
    <3> QED BY <2>1, <3>1 DEF Init, CoresOK, DeviceOK
  <2> QED BY <2>2, <2>3, <2>4, <2>5 DEF TypeOK
<1>2. TypeOK /\ [Next]_vars => TypeOK'
  BY StepType
<1> QED BY <1>1, <1>2, PTL DEF Spec

-----------------------------------------------------------------------------
(* A start that answers True has attached.  The flag the caller trusts is   *)
(* set by a line of any GDB, so what is invariant is about the lines still  *)
(* unread and about who reads them.                                        *)

Attached(g) == \E i \in DOMAIN stdout[g] : stdout[g][i].kind = "attached"

EarlierEnded == clean => \A g \in 1..Gdbs : g < gen => reader[g] = "ended"
LaterSilent  == \A g \in 1..Gdbs :
                    g > gen => reader[g] = "none" /\ stdout[g] = <<>>
FlagTrue     == clean /\ attached => target # 0
LinesTrue    == clean /\ gen # 0 => (Attached(gen) => target # 0)
Started      == pc \in {"up", "gcore", "harvest", "quit", "join"}
UpAttached   == clean /\ Started => target # 0

AttachInv == EarlierEnded /\ LaterSilent /\ FlagTrue /\ LinesTrue /\ UpAttached

(* Most steps touch neither the lines nor who reads them.                   *)
LEMMA AttachFrame ==
    ASSUME AttachInv, UNCHANGED <<gen, clean, target, stdout, reader, attached>>,
           Started' => Started
    PROVE  AttachInv'
BY DEF AttachInv, EarlierEnded, LaterSilent, FlagTrue, LinesTrue, UpAttached,
       Attached

(* A new GDB is not attached, and nothing of it can have been read.         *)
LEMMA AttachLaunch ==
    ASSUME TypeOK, AttachInv, Launch
    PROVE  AttachInv'
<1>1. attached' = FALSE /\ UNCHANGED stdout /\ pc = "down" /\ gen < Gdbs
  BY DEF Launch
<1>2. CASE Spawned
  <2>1. gen \in Nat /\ gen + 1 \in 1..Gdbs /\ gen' = gen + 1
    BY <1>1, <1>2, BoundAssumption DEF Spawned, TypeOK, CallOK
  <2>2. \A g \in 1..Gdbs : g # gen + 1 => reader'[g] = reader[g]
    BY <1>2, <2>1 DEF Spawned, TypeOK, OutputOK
  <2>3. EarlierEnded'
    <3> SUFFICES ASSUME clean', NEW g \in 1..Gdbs, g < gen + 1
                 PROVE  reader'[g] = "ended"
      BY <2>1 DEF EarlierEnded
    <3>1. g \in 1..gen /\ g # gen + 1
      BY <2>1, BoundAssumption
    <3> QED BY <1>2, <2>2, <3>1 DEF Spawned
  <2>4. LaterSilent'
    <3> SUFFICES ASSUME NEW g \in 1..Gdbs, g > gen + 1
                 PROVE  reader'[g] = "none" /\ stdout'[g] = <<>>
      BY <2>1 DEF LaterSilent
    <3>1. g > gen /\ g # gen + 1
      BY <2>1, BoundAssumption
    <3> QED BY <1>1, <2>2, <3>1 DEF AttachInv, LaterSilent
  <2>5. FlagTrue'
    BY <1>1 DEF FlagTrue
  <2>6. LinesTrue'
    <3>1. gen + 1 > gen
      BY <2>1
    <3>2. stdout'[gen'] = <<>>
      BY <1>1, <2>1, <3>1 DEF AttachInv, LaterSilent
    <3> QED BY <3>2 DEF LinesTrue, Attached
  <2>7. UpAttached'
    BY <1>2 DEF Spawned, UpAttached, Started
  <2> QED BY <2>3, <2>4, <2>5, <2>6, <2>7 DEF AttachInv
<1>3. CASE UNCHANGED <<callVars, gdbVars, readerVars>>
  BY <1>1, <1>3 DEF callVars, gdbVars, readerVars, AttachInv, EarlierEnded,
     LaterSilent, FlagTrue, LinesTrue, UpAttached, Started, Attached
<1> QED BY <1>2, <1>3 DEF Launch

LEMMA AttachCaller ==
    ASSUME TypeOK, AttachInv, Caller
    PROVE  AttachInv'
<1>1. CASE Launch
  BY <1>1, AttachLaunch
<1>2. CASE PromptSeen
  BY <1>2, AttachFrame DEF PromptSeen, Goto, Send, GdbGone, Started, gdbVars,
     readerVars
<1>3. CASE AttachAnswered
  <2>1. UNCHANGED <<gen, clean, target, stdout, reader, attached>>
    BY <1>3 DEF AttachAnswered, Goto, Send, GdbGone, readerVars
  <2>2. pc' = "up" /\ clean' => target' # 0
    BY <1>3, <2>1 DEF AttachAnswered, Goto, AttachInv, FlagTrue
  <2>3. pc' \in {"up", "down"}
    BY <1>3 DEF AttachAnswered, Goto
  <2> QED BY <2>1, <2>2, <2>3 DEF AttachInv, EarlierEnded, LaterSilent, FlagTrue,
             LinesTrue, UpAttached, Started, Attached
<1>4. CASE StartTimesOut \/ Stop \/ StopReaps \/ StopJoins
  BY <1>4, AttachFrame DEF StartTimesOut, Stop, StopReaps, StopJoins, Goto, Send,
     GdbGone, Started, gdbVars, readerVars
<1>5. CASE AskGcore \/ GcoreAnswered \/ GcoreTimesOut
  BY <1>5, AttachFrame DEF AskGcore, GcoreAnswered, GcoreTimesOut, Goto, Send,
     HandOut, Started, gdbVars, readerVars
<1>6. CASE AskHarvest \/ Harvest \/ HarvestTimesOut
  BY <1>6, AttachFrame DEF AskHarvest, Harvest, HarvestTimesOut, Goto, HandOut,
     Started, gdbVars, readerVars
<1> QED BY <1>1, <1>2, <1>3, <1>4, <1>5, <1>6 DEF Caller

(* What GDB prints is no claim of being attached, unless it is.             *)
LEMMA AttachPrints ==
    ASSUME TypeOK, AttachInv, alive, NEW line \in Lines, Prints(<<line>>),
           target' = target \/ target' # 0,
           line.kind = "attached" => target' # 0,
           UNCHANGED <<gen, clean, reader, attached, pc>>
    PROVE  AttachInv'
<1>1. gen \in 1..Gdbs
  BY BoundAssumption DEF TypeOK, CallOK
<1>2. stdout[gen] \in Seq(Lines) /\ stdout'[gen] = Append(stdout[gen], line)
  BY <1>1 DEF Prints, TypeOK, OutputOK
<1>3. \A g \in 1..Gdbs : g # gen => stdout'[g] = stdout[g]
  BY <1>1 DEF Prints, TypeOK, OutputOK
<1>4. EarlierEnded'
  BY DEF AttachInv, EarlierEnded
<1>5. LaterSilent'
  <2> SUFFICES ASSUME NEW g \in 1..Gdbs, g > gen
               PROVE  reader'[g] = "none" /\ stdout'[g] = <<>>
    BY DEF LaterSilent
  <2>1. g # gen
    BY <1>1, BoundAssumption
  <2> QED BY <1>3, <2>1 DEF AttachInv, LaterSilent
<1>6. FlagTrue' /\ UpAttached'
  BY DEF AttachInv, FlagTrue, UpAttached, Started
<1>7. LinesTrue'
  <2> SUFFICES ASSUME clean, gen # 0, target' = target,
                      NEW i \in DOMAIN stdout'[gen],
                      stdout'[gen][i].kind = "attached"
               PROVE  target' # 0
    BY DEF LinesTrue, Attached
  <2>1. CASE i \in DOMAIN stdout[gen]
    <3>1. stdout'[gen][i] = stdout[gen][i]
      BY <1>2, <2>1, AppendProperties
    <3> QED BY <2>1, <3>1 DEF AttachInv, LinesTrue, Attached
  <2>2. CASE i \notin DOMAIN stdout[gen]
    <3>1. stdout'[gen][i] = line
      BY <1>2, <2>2, AppendProperties
    <3> QED BY <3>1
  <2> QED BY <2>1, <2>2
<1> QED BY <1>4, <1>5, <1>6, <1>7 DEF AttachInv

LEMMA AttachGdb ==
    ASSUME TypeOK, AttachInv, Gdb
    PROVE  AttachInv'
<1>1. ASSUME NEW kind, Executes(kind)
      PROVE  alive /\ UNCHANGED <<gen, clean, reader, attached, pc>>
  BY <1>1 DEF Executes, callVars, readerVars
<1>2. CASE EchoMarker
  <2>1. alive /\ UNCHANGED <<gen, clean, reader, attached, pc, target>>
    BY <1>1, <1>2 DEF EchoMarker
  <2>2. PICK kind \in {"ready", "attachDone", "gcoreDone"} : Prints(<<Marker(kind)>>)
    BY <1>2 DEF EchoMarker
  <2>3. Marker(kind) \in Lines /\ Marker(kind).kind # "attached"
    BY <2>2 DEF Lines, Marker, Line
  <2> QED BY <2>1, <2>2, <2>3, AttachPrints
<1>3. CASE AttachTarget
  <2>1. alive /\ UNCHANGED <<gen, clean, reader, attached, pc>>
    BY <1>1, <1>3 DEF AttachTarget
  <2>2. CASE target' = boot /\ Prints(<<Marker("attached")>>)
    <3>1. target' # 0
      BY <2>2 DEF TypeOK, DeviceOK
    <3>2. Marker("attached") \in Lines
      BY DEF Lines
    <3> QED BY <2>1, <2>2, <3>1, <3>2, AttachPrints
  <2>3. CASE UNCHANGED <<target, stdout>>
    BY <2>1, <2>3, AttachFrame DEF Started
  <2> QED BY <1>3, <2>2, <2>3 DEF AttachTarget
<1>4. CASE SetupTarget
  BY <1>1, <1>4, AttachFrame DEF SetupTarget, Started
<1>5. CASE WriteCore
  <2>1. alive /\ UNCHANGED <<gen, clean, reader, attached, pc, target>>
    BY <1>1, <1>5 DEF WriteCore
  <2>2. CASE UNCHANGED stdout
    BY <2>1, <2>2, AttachFrame DEF Started
  <2>3. CASE target # 0 /\ Prints(<<Line("saved", Core(Head(stdin).n))>>)
    <3> DEFINE line == Line("saved", Core(Head(stdin).n))
    <3>1. line \in Lines
      BY <1>5, <2>3, WrittenCore DEF WriteCore
    <3>2. line.kind # "attached" /\ Prints(<<line>>)
      BY <2>3 DEF Line
    <3> HIDE DEF line
    <3> QED BY <2>1, <3>1, <3>2, AttachPrints
  <2> QED BY <1>5, <2>2, <2>3 DEF WriteCore
<1>6. CASE GdbExits
  BY <1>6, AttachFrame DEF GdbExits, GdbGone, Started, callVars, readerVars
<1>7. CASE BreakpointHit \/ LeakBreakpointHit
  <2> PICK b \in armed : Fires(b)
    BY <1>7, HitFires
  <2>1. alive /\ UNCHANGED <<gen, clean, reader, attached, pc, target>>
    BY DEF Fires, callVars, readerVars
  <2>2. CASE UNCHANGED stdout
    BY <2>1, <2>2, AttachFrame DEF Started
  <2>3. CASE Prints(<<Line("saved", Core(b))>>)
    <3> DEFINE line == Line("saved", Core(b))
    <3>1. line \in Lines
      BY BreakpointCore
    <3>2. line.kind # "attached" /\ Prints(<<line>>)
      BY <2>3 DEF Line
    <3> HIDE DEF line
    <3> QED BY <2>1, <3>1, <3>2, AttachPrints
  <2> QED BY <2>2, <2>3 DEF Fires
<1>8. CASE TargetStops
  BY <1>8, AttachFrame DEF TargetStops, Started, callVars, readerVars
<1> QED BY <1>2, <1>3, <1>4, <1>5, <1>6, <1>7, <1>8 DEF Gdb

(* A line is read by the only reader there is, or all is lost already.      *)
LEMMA AttachReader ==
    ASSUME TypeOK, AttachInv, Readers
    PROVE  AttachInv'
<1>1. gen \in 0..Gdbs
  BY DEF TypeOK, CallOK
<1>2. ASSUME NEW g \in 1..Gdbs, ReadLine(g) PROVE AttachInv'
  <2>1. /\ UNCHANGED <<gen, clean, target, reader, pc>>
        /\ reader[g] = "reading" /\ stdout[g] # <<>>
        /\ stdout' = [stdout EXCEPT ![g] = Tail(@)]
        /\ attached' = (attached \/ Head(stdout[g]).kind = "attached")
    BY <1>2 DEF ReadLine, callVars, gdbVars, readerVars
  <2>2. stdout[g] \in Seq(Lines) /\ stdout'[g] = Tail(stdout[g])
    BY <2>1 DEF TypeOK, OutputOK
  <2>3. \A h \in 1..Gdbs : h # g => stdout'[h] = stdout[h]
    BY <2>1 DEF TypeOK, OutputOK
  <2>4. clean => g = gen /\ gen # 0
    BY <1>1, <2>1, BoundAssumption DEF AttachInv, EarlierEnded, LaterSilent
  <2>5. EarlierEnded' /\ UpAttached'
    BY <2>1 DEF AttachInv, EarlierEnded, UpAttached, Started
  <2>6. LaterSilent'
    BY <2>1, <2>3 DEF AttachInv, LaterSilent
  <2>7. FlagTrue'
    <3> SUFFICES ASSUME clean, ~attached, Head(stdout[g]).kind = "attached"
                 PROVE  target # 0
      BY <2>1 DEF AttachInv, FlagTrue
    <3>1. 1 \in DOMAIN stdout[g] /\ Head(stdout[g]) = stdout[g][1]
      BY <2>1, <2>2
    <3> QED BY <2>4, <3>1 DEF AttachInv, LinesTrue, Attached
  <2>8. LinesTrue'
    <3> SUFFICES ASSUME clean, NEW i \in DOMAIN Tail(stdout[g]),
                        Tail(stdout[g])[i].kind = "attached"
                 PROVE  target # 0
      BY <2>1, <2>2, <2>4 DEF LinesTrue, Attached
    <3>1. i + 1 \in DOMAIN stdout[g] /\ Tail(stdout[g])[i] = stdout[g][i + 1]
      BY <2>1, <2>2
    <3> QED BY <2>4, <3>1 DEF AttachInv, LinesTrue, Attached
  <2> QED BY <2>5, <2>6, <2>7, <2>8 DEF AttachInv
<1>3. ASSUME NEW g \in 1..Gdbs, ReadEof(g) PROVE AttachInv'
  <2>1. UNCHANGED <<gen, clean, target, stdout, attached, pc>>
    BY <1>3 DEF ReadEof, callVars, gdbVars
  <2>2. \A h \in 1..Gdbs : reader[h] \in {"none", "ended"} => reader'[h] = reader[h]
    BY <1>3 DEF ReadEof, TypeOK, OutputOK
  <2>3. EarlierEnded' /\ LaterSilent'
    BY <2>1, <2>2 DEF AttachInv, EarlierEnded, LaterSilent
  <2>4. FlagTrue' /\ LinesTrue' /\ UpAttached'
    BY <2>1 DEF AttachInv, FlagTrue, LinesTrue, UpAttached, Started, Attached
  <2> QED BY <2>3, <2>4 DEF AttachInv
<1> QED BY <1>2, <1>3 DEF Readers

LEMMA AttachInvariant == Spec => []AttachInv
<1>1. Init => AttachInv
  <2> SUFFICES ASSUME Init PROVE AttachInv
    OBVIOUS
  <2>1. EarlierEnded
    <3> SUFFICES ASSUME NEW g \in 1..Gdbs, g < gen PROVE FALSE
      BY DEF EarlierEnded
    <3> QED BY BoundAssumption DEF Init
  <2> QED BY <2>1 DEF Init, AttachInv, LaterSilent, FlagTrue, LinesTrue,
             UpAttached, Started
<1>2. TypeOK /\ AttachInv /\ [Next]_vars => AttachInv'
  <2> SUFFICES ASSUME TypeOK, AttachInv, [Next]_vars PROVE AttachInv'
    OBVIOUS
  <2>1. CASE DeviceCrashes \/ DeviceReboots \/ UNCHANGED vars
    BY <2>1, AttachFrame DEF DeviceCrashes, DeviceReboots, vars, callVars,
       gdbVars, readerVars, Started
  <2> QED BY <2>1, AttachCaller, AttachGdb, AttachReader DEF Next
<1> QED BY <1>1, <1>2, GdbTypeCorrect, PTL DEF Spec

(* When start() answers True, GDB is attached, unless the reader of an      *)
(* earlier GDB was still at work (GdbController.start, _verify_attach).     *)
THEOREM StartsAreVerified == Spec => []StartVerified
<1>1. AttachInv => StartVerified
  BY DEF AttachInv, UpAttached, Started, StartVerified
<1> QED BY <1>1, AttachInvariant, PTL
=============================================================================
