----------------------------- MODULE GdbSession -----------------------------
(***************************************************************************)
(* GdbController with the GDB process it drives and the threads that read   *)
(* what GDB prints.                                                        *)
(*                                                                         *)
(* The caller is the main thread: DebugSetup starts, stops and restarts     *)
(* the controller, GdbHandler asks it for coredumps.  It writes commands    *)
(* into GDB's stdin and waits, with a timeout, for events that a reader     *)
(* thread sets when it meets a marker.  Each GDB has a reader of its own,   *)
(* and the reader of a GDB that is gone may still be at work: stop() waits  *)
(* five seconds for it, a start that fails does not wait at all.           *)
(***************************************************************************)
EXTENDS Naturals, SequencesExt

CONSTANTS
    Gdbs,       \* bound: GDB processes started
    Boots,      \* bound: boots of the device
    Requests,   \* bound: coredumps asked for
    Leaky,      \* bound: the GDBs whose leak check finds a leak
    Specs,      \* CRASH_BP_SPECS, the crash breakpoints of auto_breakpoints
    Notifier    \* its breakpoint on reboot_notifier_call_chain

ASSUME BoundAssumption ==
    Gdbs \in Nat \ {0} /\ Boots \in Nat \ {0} /\ Requests \in Nat

\* A breakpoint is named after a function, a request has a number.
ASSUME SpecAssumption ==
    (Specs \cup {Notifier}) \cap (1..Requests) = {} /\ Notifier \notin Specs

VARIABLES
    pc,         \* where the caller is
    gen,        \* number of the latest GDB
    clean,      \* no earlier reader was at work when it was started
    late,       \* a request to it has timed out
    asked,      \* requests so far
    handed,     \* what they were answered with
    alive,      \* the GDB process runs
    stdin,      \* commands GDB has not executed
    running,    \* GDB has let the target run and reads no commands
    armed,      \* breakpoints of the plugin
    target,     \* the boot GDB is attached to, 0 if none
    stdout,     \* lines of each GDB not yet read
    reader,     \* of each GDB
    ready, attachDone, gcoreDone,       \* the events
    attached, lastCore, corefiles, consumed,
    boot, crashed                       \* the device

callVars   == <<pc, gen, clean, late, asked, handed>>
gdbVars    == <<alive, stdin, running, armed, target>>
readerVars == <<reader>>
events     == <<ready, attachDone, gcoreDone>>
coreVars   == <<lastCore, corefiles, consumed>>
deviceVars == <<boot, crashed>>
vars == <<callVars, gdbVars, stdout, readerVars, events, attached, coreVars,
          deviceVars>>

\* A corefile: the GDB that wrote it, the boot it shows, and what asked for it.
Breakpoints == Specs \cup {Notifier}
Cores  == [gdb : 1..Gdbs, boot : 1..Boots, of : (1..Requests) \cup Breakpoints]
NoCore == [gdb |-> 0, boot |-> 0, of |-> 0]
IsAuto(c)  == c.of \in Specs
Unasked(c) == c.of \in Breakpoints

Command(kind, n) == [kind |-> kind, n |-> n]
Line(kind, core) == [kind |-> kind, core |-> core]
Marker(kind)     == Line(kind, NoCore)

Commands == {Command(k, 0) : k \in {"echoReady", "attach", "echoAttach",
                                    "setup", "echoGcore", "quit"}}
              \cup {Command("gcore", n) : n \in 1..Requests}
Lines    == {Marker(k) : k \in {"ready", "attached", "attachDone", "gcoreDone"}}
              \cup {Line("saved", c) : c \in Cores}
Answers  == [core : Cores, request : 0..Requests, gdb : 1..Gdbs,
             clean : BOOLEAN, late : BOOLEAN]

CallOK ==
    /\ pc \in {"down", "ready", "attach", "up", "gcore", "harvest", "quit",
               "join"}
    /\ gen \in 0..Gdbs /\ asked \in 0..Requests
    /\ gen = 0 => pc = "down" /\ ~alive
    /\ clean \in BOOLEAN /\ late \in BOOLEAN
    /\ handed \in Seq(Answers)

GdbOK ==
    /\ alive \in BOOLEAN /\ running \in BOOLEAN
    /\ stdin \in Seq(Commands)
    /\ armed \subseteq Breakpoints
    /\ target \in 0..Boots

OutputOK ==
    /\ stdout \in [1..Gdbs -> Seq(Lines)]
    /\ reader \in [1..Gdbs -> {"none", "reading", "eofReady", "eofAttach",
                               "ended"}]
    /\ ready \in BOOLEAN /\ attachDone \in BOOLEAN /\ gcoreDone \in BOOLEAN
    /\ attached \in BOOLEAN

CoresOK ==
    /\ lastCore \in Cores \cup {NoCore}
    /\ corefiles \in Seq(Cores)
    /\ consumed \subseteq Cores

DeviceOK == boot \in 1..Boots /\ crashed \in BOOLEAN

TypeOK == CallOK /\ GdbOK /\ OutputOK /\ CoresOK /\ DeviceOK

Init ==
    /\ pc = "down" /\ gen = 0 /\ clean = TRUE /\ late = FALSE
    /\ asked = 0 /\ handed = <<>>
    /\ alive = FALSE /\ stdin = <<>> /\ running = FALSE
    /\ armed = {} /\ target = 0
    /\ stdout = [g \in 1..Gdbs |-> <<>>]
    /\ reader = [g \in 1..Gdbs |-> "none"]
    /\ ready = FALSE /\ attachDone = FALSE /\ gcoreDone = FALSE
    /\ attached = FALSE
    /\ lastCore = NoCore /\ corefiles = <<>> /\ consumed = {}
    /\ boot = 1 /\ crashed = FALSE

-----------------------------------------------------------------------------
(* The caller: start and stop. *)

Goto(next) == pc' = next /\ UNCHANGED <<gen, clean, late, asked, handed>>

\* _send: silently nothing when the process is gone.
Send(commands) ==
    /\ stdin' = IF alive THEN stdin \o commands ELSE stdin
    /\ UNCHANGED <<alive, running, armed, target>>

GdbGone ==
    /\ alive' = FALSE /\ stdin' = <<>> /\ running' = FALSE /\ armed' = {}
    /\ UNCHANGED target

Spawned ==
    /\ pc' = "ready" /\ gen' = gen + 1 /\ late' = FALSE
    /\ clean' = \A g \in 1..gen : reader[g] = "ended"
    /\ alive' = TRUE /\ stdin' = <<Command("echoReady", 0)>>
    /\ running' = FALSE /\ armed' = {} /\ target' = 0
    /\ reader' = [reader EXCEPT ![gen + 1] = "reading"]
    /\ UNCHANGED <<asked, handed>>

\* Mutant: the outcome of the previous attach is not forgotten.
LaunchKeepsAttached ==
    /\ pc = "down"
    /\ gen < Gdbs
    /\ ready' = FALSE /\ attachDone' = FALSE
    /\ UNCHANGED attached
    /\ \/ Spawned
       \/ UNCHANGED <<callVars, gdbVars, readerVars>>
    /\ UNCHANGED <<stdout, gcoreDone, coreVars, deviceVars>>

\* start() up to the wait for the prompt; Popen may raise.
Launch ==
    /\ pc = "down"
    /\ gen < Gdbs
    /\ ready' = FALSE /\ attachDone' = FALSE
    /\ attached' = FALSE
    /\ \/ Spawned
       \/ UNCHANGED <<callVars, gdbVars, readerVars>>
    /\ UNCHANGED <<stdout, gcoreDone, coreVars, deviceVars>>

\* The prompt is there, or seems to be; without a PID there is no attach.
PromptSeen ==
    /\ pc = "ready"
    /\ ready
    /\ \/ /\ alive
          /\ Goto("attach")
          /\ Send(<<Command("attach", 0), Command("echoAttach", 0)>>)
       \/ alive /\ Goto("down") /\ GdbGone
       \/ ~alive /\ Goto("down") /\ UNCHANGED gdbVars
    /\ UNCHANGED <<stdout, readerVars, events, attached, coreVars, deviceVars>>

\* _verify_attach and, when it answers True, setup.
AttachAnswered ==
    /\ pc = "attach"
    /\ attachDone
    /\ IF attached
         THEN Goto("up") /\ Send(<<Command("setup", 0)>>)
         ELSE Goto("down") /\ GdbGone
    /\ UNCHANGED <<stdout, readerVars, events, attached, coreVars, deviceVars>>

\* A timeout of start() terminates GDB and leaves its reader alone.
StartTimesOut ==
    /\ \/ pc = "ready" /\ ~ready
       \/ pc = "attach" /\ ~attachDone
    /\ Goto("down")
    /\ GdbGone
    /\ UNCHANGED <<stdout, readerVars, events, attached, coreVars, deviceVars>>

Stop ==
    /\ pc = "up"
    /\ Goto("quit")
    /\ Send(<<Command("quit", 0)>>)
    /\ UNCHANGED <<stdout, readerVars, events, attached, coreVars, deviceVars>>

\* GDB has quit or is terminated after five seconds.
StopReaps ==
    /\ pc = "quit"
    /\ Goto("join")
    /\ GdbGone
    /\ UNCHANGED <<stdout, readerVars, events, attached, coreVars, deviceVars>>

\* The reader is joined, or left behind after five seconds.
StopJoins ==
    /\ pc = "join"
    /\ Goto("down")
    /\ UNCHANGED <<gdbVars, stdout, readerVars, events, attached, coreVars,
                   deviceVars>>

-----------------------------------------------------------------------------
(* The caller: coredumps. *)

\* Mutant: the corefile of an earlier request is not forgotten.
AskGcoreKeepsLast ==
    /\ pc = "up"
    /\ alive
    /\ asked < Requests
    /\ pc' = "gcore" /\ asked' = asked + 1
    /\ gcoreDone' = FALSE
    /\ Send(<<Command("gcore", asked + 1), Command("echoGcore", 0)>>)
    /\ UNCHANGED <<gen, clean, late, handed, stdout, readerVars, ready,
                   attachDone, attached, coreVars, deviceVars>>

\* is_available, then generate_coredump up to its wait; a panic that is forced
\* before it is one of DeviceCrashes.
AskGcore ==
    /\ pc = "up"
    /\ alive
    /\ asked < Requests
    /\ pc' = "gcore" /\ asked' = asked + 1
    /\ gcoreDone' = FALSE
    /\ lastCore' = NoCore
    /\ Send(<<Command("gcore", asked + 1), Command("echoGcore", 0)>>)
    /\ UNCHANGED <<gen, clean, late, handed, stdout, readerVars, ready,
                   attachDone, attached, corefiles, consumed, deviceVars>>

HandOut(core, request) ==
    /\ pc' = "up"
    /\ handed' = Append(handed, [core |-> core, request |-> request,
                                 gdb |-> gen, clean |-> clean, late |-> late])
    /\ UNCHANGED <<gen, clean, late, asked>>

\* Mutant: a corefile that was asked for stays available to wait_corefile.
GcoreAnsweredUnconsumed ==
    /\ pc = "gcore"
    /\ gcoreDone
    /\ IF lastCore = NoCore
         THEN Goto("up")
         ELSE HandOut(lastCore, asked)
    /\ UNCHANGED <<gdbVars, stdout, readerVars, events, attached, coreVars,
                   deviceVars>>

GcoreAnswered ==
    /\ pc = "gcore"
    /\ gcoreDone
    /\ IF lastCore = NoCore
         THEN Goto("up") /\ UNCHANGED consumed
         ELSE HandOut(lastCore, asked) /\ consumed' = consumed \cup {lastCore}
    /\ UNCHANGED <<gdbVars, stdout, readerVars, events, attached, lastCore,
                   corefiles, deviceVars>>

GcoreTimesOut ==
    /\ pc = "gcore"
    /\ ~gcoreDone
    /\ pc' = "up" /\ late' = TRUE
    /\ UNCHANGED <<gen, clean, asked, handed, gdbVars, stdout, readerVars,
                   events, attached, coreVars, deviceVars>>

(* GdbHandler.collect when product.crash is set: GDB's own corefile is      *)
(* waited for.  A crash sets it when its output has been read, which may    *)
(* be at once or never: until then the product is asked by AskGcore.        *)
AskHarvest ==
    /\ pc = "up"
    /\ alive
    /\ asked < Requests
    /\ crashed
    /\ pc' = "harvest" /\ asked' = asked + 1
    /\ UNCHANGED <<gen, clean, late, handed, gdbVars, stdout, readerVars,
                   events, attached, coreVars, deviceVars>>

Unconsumed == ToSet(corefiles) \ consumed

Newest(c) ==
    \E i \in DOMAIN corefiles :
        /\ corefiles[i] = c
        /\ \A j \in DOMAIN corefiles : j > i => corefiles[j] \in consumed

\* Mutant: the corefiles are searched from the front.
HarvestOldest ==
    /\ pc = "harvest"
    /\ \E i \in DOMAIN corefiles :
          /\ corefiles[i] \notin consumed
          /\ \A j \in DOMAIN corefiles : j < i => corefiles[j] \in consumed
          /\ HandOut(corefiles[i], 0)
          /\ consumed' = consumed \cup {corefiles[i]}
    /\ UNCHANGED <<gdbVars, stdout, readerVars, events, attached, lastCore,
                   corefiles, deviceVars>>

\* wait_corefile finds one; all under the condition's lock.
Harvest ==
    /\ pc = "harvest"
    /\ \E c \in Unconsumed :
          /\ Newest(c)
          /\ HandOut(c, 0)
          /\ consumed' = consumed \cup {c}
    /\ UNCHANGED <<gdbVars, stdout, readerVars, events, attached, lastCore,
                   corefiles, deviceVars>>

\* Mutant: a harvest that found nothing answers with what there is.
HarvestAlways ==
    /\ pc = "harvest"
    /\ Unconsumed = {}
    /\ HandOut(lastCore, 0)
    /\ UNCHANGED <<gdbVars, stdout, readerVars, events, attached, coreVars,
                   deviceVars>>

HarvestTimesOut ==
    /\ pc = "harvest"
    /\ Unconsumed = {}
    /\ Goto("up")
    /\ UNCHANGED <<gdbVars, stdout, readerVars, events, attached, coreVars,
                   deviceVars>>

-----------------------------------------------------------------------------
(* GDB and its plugin. *)

Prints(lines) == stdout' = [stdout EXCEPT ![gen] = @ \o lines]

Core(of) == [gdb |-> gen, boot |-> target, of |-> of]

\* GDB takes the next command unless it waits for a running target.
Executes(kind) ==
    /\ alive /\ ~running
    /\ stdin # <<>> /\ Head(stdin).kind = kind
    /\ stdin' = Tail(stdin)
    /\ UNCHANGED <<callVars, readerVars, events, attached, coreVars, deviceVars>>

EchoMarker ==
    /\ \/ Executes("echoReady")  /\ Prints(<<Marker("ready")>>)
       \/ Executes("echoAttach") /\ Prints(<<Marker("attachDone")>>)
       \/ Executes("echoGcore")  /\ Prints(<<Marker("gcoreDone")>>)
    /\ UNCHANGED <<alive, running, armed, target>>

AttachTarget ==
    /\ Executes("attach")
    /\ \/ target' = boot /\ Prints(<<Marker("attached")>>)
       \/ UNCHANGED <<target, stdout>>
    /\ UNCHANGED <<alive, running, armed>>

(* The commands of setup(): with auto_breakpoints the crash breakpoints,    *)
(* the one of the leak check and `continue', otherwise what setup_cmds says.*)
SetupTarget ==
    /\ Executes("setup")
    /\ \/ armed' = Breakpoints /\ running' = TRUE
       \/ running' \in BOOLEAN /\ UNCHANGED armed
    /\ UNCHANGED <<alive, target, stdout>>

WriteCore ==
    /\ Executes("gcore")
    /\ \/ target # 0 /\ Prints(<<Line("saved", Core(Head(stdin).n))>>)
       \/ UNCHANGED stdout
    /\ UNCHANGED <<alive, running, armed, target>>

\* The caller's terminate, the quit command, the plugin's exit event.
GdbExits ==
    /\ alive
    /\ GdbGone
    /\ UNCHANGED <<callVars, stdout, readerVars, events, attached, coreVars,
                   deviceVars>>

\* Mutant: a breakpoint leaves its siblings armed.
BreakpointHitAlone ==
    /\ alive /\ running /\ crashed /\ target = boot
    /\ \E s \in armed \cap Specs :
          /\ armed' = armed \ {s}
          /\ \/ Prints(<<Line("saved", Core(s))>>)
             \/ UNCHANGED stdout
    /\ UNCHANGED <<callVars, alive, stdin, running, target, readerVars, events,
                   attached, coreVars, deviceVars>>

(* AutoBp.stop: ntfcautogcore, which may fail; then the stop event deletes  *)
(* the breakpoint and its siblings and lets the target continue.           *)
BreakpointHit ==
    /\ alive /\ running /\ crashed /\ target = boot
    /\ \E s \in armed \cap Specs :
          /\ armed' = armed \ Specs
          /\ \/ Prints(<<Line("saved", Core(s))>>)
             \/ UNCHANGED stdout
    /\ UNCHANGED <<callVars, alive, stdin, running, target, readerVars, events,
                   attached, coreVars, deviceVars>>

(* The target is about to reboot or to power off, crashed or not: ntfcmmleak *)
(* writes a corefile if it finds a leak, and the breakpoint, which has no    *)
(* siblings, is deleted.                                                   *)
LeakBreakpointHit ==
    /\ alive /\ running /\ target = boot
    /\ Notifier \in armed
    /\ armed' = armed \ {Notifier}
    /\ \/ gen \in Leaky /\ Prints(<<Line("saved", Core(Notifier))>>)
       \/ UNCHANGED stdout
    /\ UNCHANGED <<callVars, alive, stdin, running, target, readerVars, events,
                   attached, coreVars, deviceVars>>

\* A breakpoint of the user's, or a signal the plugin does not resume from: GDB
\* reads commands again.
TargetStops ==
    /\ alive /\ running
    /\ running' = FALSE
    /\ UNCHANGED <<callVars, alive, stdin, armed, target, stdout, readerVars,
                   events, attached, coreVars, deviceVars>>

-----------------------------------------------------------------------------
(* The reader threads: _read_stdout. *)

ReadLine(g) ==
    /\ reader[g] = "reading"
    /\ stdout[g] # <<>>
    /\ stdout' = [stdout EXCEPT ![g] = Tail(@)]
    /\ LET line == Head(stdout[g]) IN
         /\ ready' = (ready \/ line.kind = "ready")
         /\ attached' = (attached \/ line.kind = "attached")
         /\ attachDone' = (attachDone \/ line.kind = "attachDone")
         /\ gcoreDone' = (gcoreDone \/ line.kind = "gcoreDone")
         /\ IF line.kind = "saved"
              THEN /\ lastCore' = line.core
                   /\ corefiles' = Append(corefiles, line.core)
              ELSE UNCHANGED <<lastCore, corefiles>>
    /\ UNCHANGED <<callVars, gdbVars, readerVars, consumed, deviceVars>>

\* The end of the output sets the events one after the other.
ReadEof(g) ==
    /\ reader[g] \in {"reading", "eofReady", "eofAttach"}
    /\ stdout[g] = <<>>
    /\ g < gen \/ ~alive
    /\ \/ /\ reader[g] = "reading" /\ reader' = [reader EXCEPT ![g] = "eofReady"]
          /\ ready' = TRUE /\ UNCHANGED <<attachDone, gcoreDone>>
       \/ /\ reader[g] = "eofReady" /\ reader' = [reader EXCEPT ![g] = "eofAttach"]
          /\ attachDone' = TRUE /\ UNCHANGED <<ready, gcoreDone>>
       \/ /\ reader[g] = "eofAttach" /\ reader' = [reader EXCEPT ![g] = "ended"]
          /\ gcoreDone' = TRUE /\ UNCHANGED <<ready, attachDone>>
    /\ UNCHANGED <<callVars, gdbVars, stdout, attached, coreVars, deviceVars>>

-----------------------------------------------------------------------------
(* The device under test. *)

\* A crash, forced or not.
DeviceCrashes ==
    /\ ~crashed
    /\ crashed' = TRUE
    /\ UNCHANGED <<callVars, gdbVars, stdout, readerVars, events, attached,
                   coreVars, boot>>

DeviceReboots ==
    /\ pc \in {"up", "down"}
    /\ boot < Boots
    /\ boot' = boot + 1 /\ crashed' = FALSE
    /\ UNCHANGED <<callVars, gdbVars, stdout, readerVars, events, attached,
                   coreVars>>

Caller == \/ Launch \/ PromptSeen \/ AttachAnswered \/ StartTimesOut
          \/ Stop \/ StopReaps \/ StopJoins
          \/ AskGcore \/ GcoreAnswered \/ GcoreTimesOut
          \/ AskHarvest \/ Harvest \/ HarvestTimesOut

Gdb == \/ EchoMarker \/ AttachTarget \/ SetupTarget \/ WriteCore
       \/ GdbExits \/ BreakpointHit \/ LeakBreakpointHit \/ TargetStops

Readers == \E g \in 1..Gdbs : ReadLine(g) \/ ReadEof(g)

Next == Caller \/ Gdb \/ Readers \/ DeviceCrashes \/ DeviceReboots

Spec == Init /\ [][Next]_vars

-----------------------------------------------------------------------------
(* Properties. *)

(* "Each corefile is handed out at most once" (wait_corefile), over both    *)
(* ways to ask, all GDBs and whatever arrives late.                        *)
HandedOnce ==
    \A i, j \in DOMAIN handed :
        i # j => handed[i].core # handed[j].core

(* generate_coredump answers with a corefile of the GDB it asked, if that   *)
(* GDB was started after the readers of the earlier ones had ended; and if  *)
(* none of its requests has timed out, with the one asked for or one that   *)
(* GDB wrote by itself, for a crash or a leak (_read_stdout takes any saved *)
(* corefile for the answer): never with that of another request.            *)
AnswerIsOwn ==
    \A i \in DOMAIN handed :
        LET h == handed[i] IN
        h.request # 0 /\ h.clean =>
            /\ h.core.gdb = h.gdb
            /\ ~h.late => Unasked(h.core) \/ h.core.of = h.request

(* start() answers True only when GDB is attached, if the readers of the    *)
(* earlier GDBs had ended (_verify_attach).                                *)
StartVerified ==
    pc = "up" /\ clean => target # 0

(* "a single crash produces one coredump" (AutoBp).                         *)
OneDumpPerCrash ==
    \A c, d \in ToSet(corefiles) :
        /\ IsAuto(c) /\ IsAuto(d)
        /\ c.gdb = d.gdb /\ c.boot = d.boot
        => c = d

(* A harvest takes a corefile of an earlier GDB only if the present one has *)
(* none to give (_next_unconsumed_corefile).                               *)
HarvestPrefersPresent ==
    [][pc = "harvest" /\ handed' # handed /\ clean
          /\ (\E c \in Unconsumed : c.gdb = gen)
       => Last(handed').core.gdb = gen]_vars
=============================================================================
