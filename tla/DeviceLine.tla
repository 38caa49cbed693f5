----------------------------- MODULE DeviceLine -----------------------------
(***************************************************************************)
(* The console of one device as a stream of tokens, and the one thread that *)
(* talks over it: ntfc.device.common.DeviceCommon, the transports           *)
(* .host.DeviceHost, .renode.DeviceRenode and .serial.DeviceSerial, and     *)
(* ntfc.core.ProductCore with its command builder.                          *)
(*                                                                         *)
(* DeviceMonitor follows several threads and forgets the text; here one     *)
(* thread reads text: which answer a pattern matches, what a read drops,    *)
(* and what starting, stopping and rebooting leave on the line.             *)
(*                                                                         *)
(* The target is a shell that prints its answers one token at a time.  A    *)
(* token or a line is the caller's `own` from the call that sent it until   *)
(* the next call begins.                                                   *)
(***************************************************************************)
EXTENDS Naturals, SequencesExt

CONSTANTS
    Transports,     \* which of "host", "socket" and "serial" to consider
    ChunkMax,       \* tokens that one _read returns at most
    MaxWire,        \* tokens the operating system keeps for the reader
    MaxInput,       \* lines the target keeps unread
    Signatures,     \* crash signatures that one crash dump holds
    Suites          \* for a transport, the sets of operations callers use

ASSUME TransportAssumption == Transports \subseteq {"host", "socket", "serial"}
ASSUME SizeAssumption ==
    /\ {ChunkMax, MaxWire, MaxInput, Signatures} \subseteq Nat \ {0}
    /\ ChunkMax <= MaxWire
ASSUME SuiteAssumption == Suites \in [Transports -> SUBSET SUBSET
    {"ask", "expect", "info", "list", "read", "switch", "panic", "start",
     "stop", "reboot", "soft", "poweroff"}]

VARIABLES
    transport,      \* the class of the device
    suite,          \* the operations its caller uses
    resets,         \* `reboot` and `poweroff` commands of the configuration
    handle,         \* _child, or _ser, is not None
    sock,           \* console of a socket transport: none, open, or at its end
    opened,         \* DeviceHost._cmd is set
    fault,          \* the state manager holds a fault
    shell,          \* the target: off, booting, ready or crashed
    remote,         \* its shell is connected to another core by `cu`
    input,          \* lines the target has yet to execute
    toPrint,        \* tokens it has yet to print
    wire,           \* tokens printed and not read
    pc,             \* stage of the calling thread
    call,           \* what it is doing, and whether the line was quiet
    window,         \* what the current _read_all has read
    buf,            \* output accumulated by the pattern loop
    late,           \* the deadline of the command has passed
    bootLate,       \* the deadline of _wait_for_boot has passed
    ret,            \* how the last call ended
    cores,          \* ProductCore._cores
    listing,        \* ProductCore._runtime_cmds
    since           \* auxiliary: what the target has done about the last reboot

confVars   == <<transport, suite, resets>>
connVars   == <<handle, sock, opened>>
targetVars == <<shell, remote, input, toPrint>>
threadVars == <<pc, call, window, buf, late, bootLate>>
coreVars   == <<ret, cores, listing>>
vars == <<confVars, connVars, fault, targetVars, wire, threadVars, coreVars,
          since>>

Parts   == {"echo", "text", "nocmd", "prompt", "remote prompt", "sig", "nature"}
Tokens  == [own : BOOLEAN, part : Parts]
Lines   == {"enter", "known", "unknown", "cu", "poweroff", "reboot"}
Asks    == {"ask", "expect", "info", "list"}
Ops     == Asks \cup {"read", "switch", "panic", "start", "stop", "reboot",
                      "soft", "poweroff"}
Stages  == {"idle", "drain", "write", "garbage", "first", "loop", "check",
            "flush", "read", "boot", "kill", "open", "connect"}
Phases  == {"asking", "stopping", "asking reboot", "settling", "confirming"}

NoCall == [op |-> "none", line |-> "enter", phase |-> "asking",
           quiet |-> FALSE]
NoRet  == [op |-> "none", status |-> "none", quiet |-> FALSE, text |-> FALSE,
           foreign |-> FALSE]

CallRecords == [op : Ops, line : Lines, phase : Phases, quiet : BOOLEAN]
Statuses == {"SUCCESS", "NOTFOUND", "TIMEOUT", "raised", "done", "TRUE", "FALSE"}
Results == [op : Ops, status : Statuses, quiet : BOOLEAN, text : BOOLEAN,
            foreign : BOOLEAN]

ConnOK ==
    /\ transport \in Transports /\ suite \in Suites[transport] /\ resets \in BOOLEAN
    /\ handle \in BOOLEAN /\ opened \in BOOLEAN /\ fault \in BOOLEAN
    /\ sock \in {"none", "open", "eof"}
    /\ sock # "none" => transport = "socket" /\ handle

TargetOK ==
    /\ shell \in {"off", "booting", "ready", "crashed"}
    /\ remote \in BOOLEAN /\ since \in {"nothing", "ignored", "booted"}
    /\ input \in Seq([own : BOOLEAN, line : Lines]) /\ Len(input) <= MaxInput
    /\ toPrint \in Seq(Tokens)
    /\ wire \in Seq(Tokens) /\ Len(wire) <= MaxWire

ThreadOK ==
    /\ window \in Seq(Tokens) /\ buf \in Seq(Tokens)
    /\ pc \in Stages
    /\ late \in BOOLEAN /\ bootLate \in BOOLEAN
    /\ call \in {NoCall} \cup CallRecords

CoreOK ==
    /\ ret \in {NoRet} \cup Results
    /\ cores \in {"unset", "default", "listed"}
    /\ listing \in [of : {"none", "names", "nothing", "other"},
                    quiet : BOOLEAN]

TypeOK == ConnOK /\ TargetOK /\ ThreadOK /\ CoreOK

Init ==
    /\ transport \in Transports /\ suite \in Suites[transport]
    /\ resets \in (IF transport = "serial" THEN BOOLEAN ELSE {FALSE})
    /\ handle = FALSE /\ sock = "none" /\ opened = FALSE /\ fault = FALSE
    /\ shell = IF transport = "serial" THEN "ready" ELSE "off"
    /\ remote = FALSE /\ input = <<>> /\ toPrint = <<>> /\ wire = <<>>
    /\ pc = "idle" /\ call = NoCall /\ window = <<>> /\ buf = <<>>
    /\ late = FALSE /\ bootLate = FALSE
    /\ ret = NoRet /\ cores = "unset"
    /\ listing = [of |-> "none", quiet |-> FALSE]
    /\ since = "nothing"

Alive == handle /\ shell # "off"

\* _dev_is_health_priv of the three transports, and dev_is_health.
TransportOK ==
    \/ transport = "host" /\ Alive
    \/ transport = "socket" /\ Alive /\ sock # "none"
    \/ transport = "serial" /\ handle
DevIsHealth == TransportOK /\ ~fault

-----------------------------------------------------------------------------
(* The target.                                                             *)

Own(part) == [own |-> TRUE, part |-> part]
HisPrompt(far) == IF far THEN "remote prompt" ELSE "prompt"

\* What the shell prints for a line, as token parts.
Answer(line) ==
    CASE line = "enter"   -> <<HisPrompt(remote)>>
      [] line = "known"   -> <<"echo", "text", HisPrompt(remote)>>
      [] line = "unknown" -> <<"echo", "nocmd", HisPrompt(remote)>>
      [] line = "cu"      -> <<"echo", HisPrompt(TRUE)>>
      [] OTHER            -> <<"echo", HisPrompt(remote)>>

TargetBoots ==
    /\ shell = "booting"
    /\ shell' = "ready"
    /\ toPrint' = <<[own |-> FALSE, part |-> "prompt"]>>
    /\ since' = IF call.op \in {"reboot", "soft"} THEN "booted" ELSE since
    /\ UNCHANGED <<confVars, connVars, fault, remote, input, wire, threadVars,
                   coreVars>>

\* Nobody keeps what a target prints to a closed port or socket.
TargetPrints ==
    /\ toPrint # <<>>
    /\ shell \in {"ready", "crashed"}
    /\ Len(wire) < MaxWire
    /\ wire' = IF handle /\ (transport = "socket" => sock = "open")
                 THEN Append(wire, Head(toPrint)) ELSE wire
    /\ toPrint' = Tail(toPrint)
    /\ UNCHANGED <<confVars, connVars, fault, shell, remote, input, threadVars,
                   coreVars, since>>

(* A shell without the command says so, one that refuses it says something  *)
(* else; either prompts again.                                             *)
TargetRefuses ==
    /\ shell = "ready" /\ toPrint = <<>> /\ input # <<>>
    /\ Head(input).line \in {"poweroff", "reboot"} /\ ~remote
    /\ input' = Tail(input)
    /\ toPrint' = LET parts == Answer("unknown") IN
          [i \in DOMAIN parts |-> [own |-> Head(input).own, part |-> parts[i]]]
    /\ since' = IF call.op = "soft" /\ since = "nothing" THEN "ignored"
                                                       ELSE since
    /\ UNCHANGED <<confVars, connVars, fault, shell, remote, wire, threadVars,
                   coreVars>>

\* `poweroff` ends an emulator's process, and `reboot` starts the shell anew.
TargetExecutes ==
    /\ shell = "ready" /\ toPrint = <<>> /\ input # <<>>
    /\ LET cmd == Head(input)
           gone == cmd.line \in {"poweroff", "reboot"} /\ ~remote IN
         /\ shell' = IF ~gone THEN "ready"
                     ELSE IF cmd.line = "poweroff" THEN "off" ELSE "booting"
         /\ input' = IF gone THEN <<>> ELSE Tail(input)
         /\ remote' = (remote \/ cmd.line = "cu")
         /\ toPrint' = IF gone THEN <<>> ELSE
              LET parts == Answer(cmd.line) IN
              [i \in DOMAIN parts |-> [own |-> cmd.own, part |-> parts[i]]]
    /\ UNCHANGED <<confVars, connVars, fault, wire, threadVars, coreVars,
                   since>>

(* A crash dump holds more than one signature; a signature is two tokens   *)
(* that a read may part.                                                   *)
Panics ==
    /\ shell = "ready"
    /\ shell' = "crashed"
    /\ toPrint' = [i \in 1 .. 2 * Signatures |->
          [own |-> FALSE, part |-> IF i % 2 = 1 THEN "sig" ELSE "nature"]]
    /\ input' = <<>>
    /\ UNCHANGED remote

TargetCrashes ==
    /\ Panics
    /\ UNCHANGED <<confVars, connVars, fault, wire, threadVars, coreVars,
                   since>>

\* The emulator's process dies, or closes the console but lives on.
EmulatorFails ==
    /\ transport # "serial" /\ Alive
    /\ \/ /\ shell' = "off" /\ input' = <<>> /\ toPrint' = <<>>
          /\ sock' = IF sock = "open" THEN "eof" ELSE sock
       \/ /\ sock = "open" /\ sock' = "eof"
          /\ UNCHANGED <<shell, input, toPrint>>
    /\ UNCHANGED <<confVars, handle, opened, fault, remote, wire, threadVars,
                   coreVars, since>>

TimePasses ==
    /\ pc \in {"loop", "check"} /\ ~late
    /\ late' = TRUE
    /\ UNCHANGED <<confVars, connVars, fault, targetVars, wire, pc, call,
                   window, buf, bootLate, coreVars, since>>

BootTimePasses ==
    /\ call.phase \in {"settling", "confirming"} /\ ~bootLate
    /\ bootLate' = TRUE
    /\ UNCHANGED <<confVars, connVars, fault, targetVars, wire, pc, call,
                   window, buf, late, coreVars, since>>

Environment ==
    \/ TargetBoots \/ TargetPrints \/ TargetExecutes \/ TargetRefuses
    \/ TargetCrashes \/ EmulatorFails \/ TimePasses \/ BootTimePasses

-----------------------------------------------------------------------------
(* Reading and writing.                                                    *)

lineVars == <<wire, sock, fault>>
restVars == <<confVars, handle, opened, targetVars, since>>

\* One _read: what there is, up to its size, and nothing from a sick device.
Chunk == IF DevIsHealth
           THEN SubSeq(wire, 1, IF Len(wire) < ChunkMax THEN Len(wire)
                                                        ELSE ChunkMax)
           ELSE <<>>

\* check_crash looks for whole signatures in what one _read_all has read.
Signature(text) ==
    \E i \in 1 .. Len(text) - 1 :
        text[i].part = "sig" /\ text[i + 1].part = "nature"

\* A socket that is ready and yields nothing has been closed by its peer.
Read ==
    /\ wire' = SubSeq(wire, Len(Chunk) + 1, Len(wire))
    /\ sock' = IF DevIsHealth /\ sock = "eof" /\ wire = <<>> THEN "none"
                                                             ELSE sock
    /\ fault' = (fault \/ Signature(window \o Chunk))

GoTo(stage) ==
    /\ pc' = stage
    /\ UNCHANGED <<call, late, bootLate, coreVars, restVars>>

\* Mutant: the output pending before a command is left on the line.
DrainNothing ==
    /\ pc = "drain"
    /\ GoTo("write")
    /\ UNCHANGED <<lineVars, window, buf>>

\* _read_all(timeout=0) before a command; nothing of it is kept ...
Drain ==
    /\ pc = "drain"
    /\ Read
    /\ GoTo("write")
    /\ UNCHANGED <<window, buf>>

\* ... nor of what a serial line yields right after it, to be rid of the echo.
DropEcho ==
    /\ pc = "garbage"
    /\ Read
    /\ GoTo(IF call.phase = "asking" THEN "first" ELSE "read")
    /\ UNCHANGED <<window, buf>>

(* A line is lost on a target that cannot take it; what is written while it *)
(* boots may be.                                                           *)
Write ==
    /\ pc = "write"
    /\ \/ /\ DevIsHealth /\ shell \in {"ready", "booting"}
          /\ Len(input) < MaxInput
          /\ input' = Append(input, [own |-> TRUE, line |-> call.line])
       \/ /\ DevIsHealth /\ shell = "ready" => Len(input) = MaxInput
          /\ UNCHANGED input
    /\ pc' = IF transport = "serial" /\ DevIsHealth THEN "garbage"
             ELSE IF call.phase = "asking" THEN "first" ELSE "read"
    /\ UNCHANGED <<confVars, connVars, fault, shell, remote, toPrint, wire,
                   call, window, buf, late, bootLate, coreVars, since>>

\* The initial output of send_cmd_read_until_pattern.
ReadFirst ==
    /\ pc = "first"
    /\ Read
    /\ buf' = Chunk
    /\ GoTo("loop")
    /\ UNCHANGED window

\* A _read_all with a timeout reads again while there is time.
ReadOn ==
    /\ pc \in {"loop", "read", "flush"}
    /\ Chunk # <<>> /\ ~Signature(window \o Chunk)
    /\ Read
    /\ window' = window \o Chunk
    /\ GoTo(pc)
    /\ UNCHANGED buf

ReadEnds ==
    /\ pc = "loop"
    /\ Read
    /\ buf' = buf \o window \o Chunk
    /\ window' = <<>>
    /\ GoTo("check")

-----------------------------------------------------------------------------
(* The pattern loop, and what ProductCore makes of its result.             *)

Has(text, part) == \E i \in DOMAIN text : text[i].part = part

Result(op, status, quiet, output) ==
    [op |-> op, status |-> status, quiet |-> quiet,
     text |-> Own("text") \in ToSet(output),
     foreign |-> \E token \in ToSet(output) :
                    ~token.own /\ token.part \notin {"sig", "nature"}]

\* The call returns, and with it go its locals.
Return(status, output) ==
    /\ pc' = "idle"
    /\ ret' = Result(call.op, status, call.quiet, output)
    /\ call' = NoCall
    /\ window' = <<>> /\ buf' = <<>>
    /\ late' = FALSE /\ bootLate' = FALSE

(* A prompt that the command's own echo does not follow: nowhere, where the *)
(* dot of the pattern matches a newline, and else on the prompt's line.    *)
PromptAt(text, i) ==
    LET ahead == IF call.op = "ask" THEN i + 1 .. Len(text) ELSE {i + 1} IN
    /\ text[i].part = "prompt"
    /\ \A j \in ahead \cap DOMAIN text : text[j] # Own("echo")

(* The places at which the pattern of the call can match.  An expected     *)
(* text is a lookahead from the start of the buffer.                       *)
PatternAt(text) ==
    CASE call.op \in {"ask", "list"} ->
            {i \in DOMAIN text : PromptAt(text, i)}
      [] call.op = "info" -> {i \in DOMAIN text : text[i].part = "prompt"}
      [] call.op \in {"expect", "read"} ->
            {i \in DOMAIN text : i = 1 /\ Has(text, "text")}
      [] OTHER -> {i \in DOMAIN text : text[i].part = "remote prompt"}

NotFoundAt(text) ==
    IF call.op \in {"ask", "expect", "switch"}
      THEN {i \in DOMAIN text : text[i] = Own("nocmd")} ELSE {}

Matched == PatternAt(buf) \cup NotFoundAt(buf) # {}

\* The leftmost match decides whether the command was found.
Status == IF \E i \in NotFoundAt(buf) : \A j \in PatternAt(buf) : i < j
            THEN "NOTFOUND" ELSE "SUCCESS"

\* _cores after get_core_info: those it could read, or a default.
CoresRead(output) == IF call.op # "info" THEN cores
                     ELSE IF Own("text") \in ToSet(output) THEN "listed"
                     ELSE "default"

\* _runtime_cmds: the words of a listing that came back without an error.
Listing(output) ==
    IF call.op # "list" \/ Has(output, "nocmd") THEN listing
    ELSE [of |-> IF Own("text") \in ToSet(output) THEN "names"
                 ELSE IF Has(output, "text") THEN "other" ELSE "nothing",
          quiet |-> call.quiet /\ transport # "serial"]

(* Each turn of the pattern loop ends with the questions in this order: has *)
(* the pattern matched, has the deadline passed, is the device sick.       *)
Matches ==
    /\ pc = "check" /\ Matched
    /\ Return(Status, buf)
    /\ cores' = CoresRead(buf)
    /\ listing' = Listing(buf)
    /\ UNCHANGED <<lineVars, restVars>>

\* Mutant: the pattern loop has no deadline.
GivesUpWhenSick ==
    /\ pc = "check" /\ ~Matched
    /\ GoTo(IF ~DevIsHealth THEN "flush" ELSE "loop")
    /\ UNCHANGED <<lineVars, window, buf>>

GivesUpOrReadsOn ==
    /\ pc = "check" /\ ~Matched
    /\ GoTo(IF late \/ ~DevIsHealth THEN "flush" ELSE "loop")
    /\ UNCHANGED <<lineVars, window, buf>>

\* After the deadline the line is read until a read comes back empty.
FlushAgain ==
    /\ pc = "flush" /\ window \o Chunk # <<>>
    /\ Read
    /\ window' = <<>>
    /\ GoTo("flush")
    /\ UNCHANGED buf

\* Mutant: a listing is kept although its command timed out.
FlushEndsKeepingList ==
    /\ pc = "flush" /\ window \o Chunk = <<>>
    /\ Read
    /\ Return("TIMEOUT", buf)
    /\ cores' = CoresRead(<<>>)
    /\ listing' = Listing(buf)
    /\ UNCHANGED restVars

FlushEnds ==
    /\ pc = "flush" /\ window \o Chunk = <<>>
    /\ Read
    /\ Return("TIMEOUT", buf)
    /\ cores' = CoresRead(<<>>)
    /\ UNCHANGED <<listing, restVars>>

-----------------------------------------------------------------------------
(* Starting, stopping and rebooting.                                       *)

ToBoot(phase) ==
    /\ pc' = "boot" /\ bootLate' = FALSE
    /\ call' = [call EXCEPT !.phase = phase, !.line = "enter"]
    /\ window' = <<>> /\ buf' = <<>>
    /\ UNCHANGED <<late, coreVars>>

(* _wait_for_boot ends: in host_open and _start_impl a boot that failed is *)
(* an exception, in reboot() it is the result.                             *)
BootEnds(booted) ==
    \/ /\ call.phase = "confirming" /\ call.op # "start"
       /\ Return(IF booted THEN "TRUE" ELSE "FALSE", <<>>)
       /\ UNCHANGED <<cores, listing>>
    \/ /\ call.phase = "confirming" /\ call.op = "start"
       /\ ToBoot("settling")
    \/ /\ call.phase = "settling" /\ booted /\ call.op = "reboot"
       /\ ToBoot("confirming")
    \/ /\ call.phase = "settling" /\ ~(booted /\ call.op = "reboot")
       /\ Return(IF ~booted THEN "raised"
                 ELSE IF call.op = "poweroff" THEN "TRUE" ELSE "done", <<>>)
       /\ UNCHANGED <<cores, listing>>

\* Mutant: whatever the target prints is taken for its prompt.
AnyResponse(response) ==
    \/ /\ call.phase = "stopping"
       /\ pc' = "kill" /\ window' = <<>>
       /\ UNCHANGED <<call, late, bootLate, buf, coreVars>>
    \/ call.phase = "asking reboot" /\ ToBoot("confirming")
    \/ call.phase \in {"settling", "confirming"} /\ response # <<>> /\ BootEnds(TRUE)
    \/ /\ call.phase \in {"settling", "confirming"} /\ response = <<>>
       /\ pc' = "boot" /\ window' = <<>>
       /\ UNCHANGED <<call, late, bootLate, buf, coreVars>>

\* The response of send_command, which only the wait for the boot looks at.
Responded(response) ==
    \/ /\ call.phase = "stopping"
       /\ pc' = "kill" /\ window' = <<>>
       /\ UNCHANGED <<call, late, bootLate, buf, coreVars>>
    \/ call.phase = "asking reboot" /\ ToBoot("confirming")
    \/ call.phase \in {"settling", "confirming"} /\ Has(response, "prompt") /\ BootEnds(TRUE)
    \/ /\ call.phase \in {"settling", "confirming"} /\ ~Has(response, "prompt")
       /\ pc' = "boot" /\ window' = <<>>
       /\ UNCHANGED <<call, late, bootLate, buf, coreVars>>

ReadResponse ==
    /\ pc = "read"
    /\ Read
    /\ Responded(window \o Chunk)
    /\ UNCHANGED restVars

AskForPrompt ==
    /\ pc = "boot" /\ ~bootLate
    /\ GoTo("drain")
    /\ UNCHANGED <<lineVars, window, buf>>

BootTimeout ==
    /\ pc = "boot" /\ bootLate
    /\ BootEnds(FALSE)
    /\ UNCHANGED <<lineVars, restVars>>

\* A new process, or a reset board: what the old one had not printed is gone.
NewTarget(state) ==
    /\ shell' = state
    /\ remote' = FALSE /\ input' = <<>> /\ toPrint' = <<>>

\* host_open: it refuses a device that is open.
OpenHost ==
    /\ pc = "open" /\ transport # "serial" /\ ~handle
    /\ handle' = TRUE /\ opened' = TRUE /\ fault' = FALSE
    /\ NewTarget("booting") /\ wire' = <<>>
    /\ IF transport = "host" THEN ToBoot("settling")
       ELSE pc' = "connect" /\ UNCHANGED <<call, window, buf, late, bootLate,
                                           coreVars>>
    /\ UNCHANGED <<confVars, sock, since>>

AlreadyOpen ==
    /\ pc = "open" /\ transport # "serial" /\ handle
    /\ Return("raised", <<>>)
    /\ UNCHANGED <<cores, listing, lineVars, restVars>>

\* _start_impl finds no image or no command to run in the configuration.
NothingToRun ==
    /\ pc = "open" /\ transport # "serial" /\ ~opened
    /\ Return("raised", <<>>)
    /\ UNCHANGED <<cores, listing, lineVars, restVars>>

(* DeviceRenode._post_spawn: the process may exit, or not listen in time,  *)
(* and stays the device's child then.                                      *)
Connect ==
    /\ pc = "connect"
    /\ \/ /\ shell # "off"
          /\ sock' = "open" /\ ToBoot("settling")
       \/ /\ Return("raised", <<>>)
          /\ UNCHANGED <<sock, cores, listing>>
    /\ UNCHANGED <<wire, fault, restVars>>

\* The reset and power commands of a board: one that ends well may do nothing.
BoardReset(state) == NewTarget(state) \/ UNCHANGED targetVars

\* DeviceSerial._start_impl, with the reboot it tries first.
OpenSerial ==
    /\ pc = "open" /\ transport = "serial"
    /\ handle' = TRUE
    /\ IF resets
         THEN /\ BoardReset("booting") /\ fault' = FALSE
              /\ ToBoot("confirming")
         ELSE /\ ToBoot("settling")
              /\ UNCHANGED <<targetVars, fault>>
    /\ UNCHANGED <<confVars, sock, opened, wire, since>>

\* The port cannot be opened, or it can and the reset command fails.
SerialRaises ==
    /\ pc = "open" /\ transport = "serial"
    /\ handle' \in {handle, handle \/ resets}
    /\ Return("raised", <<>>)
    /\ UNCHANGED <<confVars, sock, opened, fault, targetVars, wire, cores,
                   listing, since>>

\* The end of _stop_impl: the process group is killed if it is still alive.
Kill ==
    /\ pc = "kill"
    /\ handle' = FALSE
    /\ NewTarget("off")
    /\ wire' = <<>>
    /\ IF call.op = "stop"
         THEN Return("done", <<>>) /\ UNCHANGED <<cores, listing>>
         ELSE pc' = "open" /\ UNCHANGED <<call, window, buf, late, bootLate,
                                          coreVars>>
    /\ UNCHANGED <<confVars, sock, opened, fault, since>>

-----------------------------------------------------------------------------
(* The calls.                                                              *)

(* Nothing is under way on the line, and what waits to be read is no more  *)
(* than a drain takes.                                                     *)
Quiet ==
    /\ input = <<>> /\ toPrint = <<>> /\ shell # "booting"
    /\ Len(wire) <= ChunkMax

\* What earlier calls left behind is not the new one's own.
Disown ==
    /\ wire' = [i \in DOMAIN wire |-> [wire[i] EXCEPT !.own = FALSE]]
    /\ input' = [i \in DOMAIN input |-> [input[i] EXCEPT !.own = FALSE]]
    /\ toPrint' = [i \in DOMAIN toPrint |-> [toPrint[i] EXCEPT !.own = FALSE]]

Begin(op, line, phase, stage) ==
    /\ pc = "idle" /\ op \in suite
    /\ pc' = stage
    /\ call' = [op |-> op, line |-> line, phase |-> phase, quiet |-> Quiet]
    /\ ret' = NoRet
    /\ UNCHANGED <<confVars, opened, window, buf, late, bootLate, cores,
                   listing>>

\* A call that returns without touching the device.
ReturnAtOnce(op, status) ==
    /\ pc = "idle" /\ op \in suite
    /\ ret' = Result(op, status, FALSE, <<>>)
    /\ UNCHANGED <<lineVars, restVars, threadVars, cores, listing>>

(* sendCommand with and without expected texts, get_core_info, the listing *)
(* of check_cmd if it is not cached, and readUntilPattern.                 *)
Ask ==
    /\ \/ \E op \in {"ask", "expect", "info"}, line \in {"known", "unknown"} :
            Begin(op, line, "asking", "drain")
       \/ \E line \in {"known", "unknown"} :
            listing.of = "none" /\ Begin("list", line, "asking", "drain")
       \/ Begin("read", "enter", "asking", "loop")
    /\ Disown
    /\ since' = "nothing"
    /\ UNCHANGED <<handle, sock, fault, shell, remote>>

\* A command longer than CONFIG_LINE_MAX is refused.
LineTooLong ==
    \E op \in {"ask", "expect"} : ReturnAtOnce(op, "raised")

CachedList ==
    /\ listing.of # "none"
    /\ ReturnAtOnce("list", IF listing.of = "names" THEN "SUCCESS"
                                                    ELSE "NOTFOUND")

(* A switch to the main core ends with success where it is, one to a core   *)
(* that is not listed without.                                             *)
SwitchNowhere ==
    \/ cores = "unset" /\ ReturnAtOnce("switch", "raised")
    \/ cores # "unset" /\ ReturnAtOnce("switch", "SUCCESS")
    \/ cores # "unset" /\ ReturnAtOnce("switch", "NOTFOUND")

SwitchCore ==
    /\ cores = "listed"
    /\ Begin("switch", "cu", "asking", "drain")
    /\ Disown
    /\ since' = "nothing"
    /\ UNCHANGED <<handle, sock, fault, shell, remote>>

(* force_panic is a success whenever the target has a panic character, also *)
(* when a sick device is not written to.                                   *)
ForcePanic ==
    /\ pc = "idle" /\ "panic" \in suite
    /\ \/ ReturnAtOnce("panic", "FALSE")
       \/ /\ ~DevIsHealth \/ shell # "ready"
          /\ ReturnAtOnce("panic", "TRUE")
       \/ /\ DevIsHealth /\ Panics
          /\ ret' = Result("panic", "TRUE", FALSE, <<>>)
          /\ UNCHANGED <<confVars, connVars, fault, wire, threadVars, cores,
                         listing, since>>

Start ==
    /\ Begin("start", "enter", "settling", "open")
    /\ Disown
    /\ since' = "nothing"
    /\ UNCHANGED <<handle, sock, fault, shell, remote>>

\* Mutant: a socket transport is stopped without closing its socket.
StopKeepsSocket(op) ==
    /\ transport # "serial" /\ handle
    /\ IF transport = "host" /\ shell # "off"
         THEN Begin(op, "poweroff", "stopping", "drain")
         ELSE Begin(op, "poweroff", "stopping", "kill")
    /\ Disown
    /\ UNCHANGED <<handle, sock, fault, shell, remote>>

(* stop, and the stop within _dev_reopen.  A host device is asked to power *)
(* off first; the socket of the other is closed first.                     *)
StopEmulator(op) ==
    /\ transport # "serial" /\ handle
    /\ IF transport = "host" /\ shell # "off"
         THEN Begin(op, "poweroff", "stopping", "drain")
         ELSE Begin(op, "poweroff", "stopping", "kill")
    /\ sock' = "none"
    /\ Disown
    /\ UNCHANGED <<handle, fault, shell, remote>>

Stop ==
    \/ StopEmulator("stop") /\ since' = "nothing"
    \/ /\ ~handle /\ ReturnAtOnce("stop", "done")
    \/ /\ transport = "serial" /\ handle /\ pc = "idle" /\ "stop" \in suite
       /\ handle' = FALSE /\ wire' = <<>>
       /\ ret' = Result("stop", "done", FALSE, <<>>)
       /\ UNCHANGED <<confVars, sock, opened, fault, targetVars, threadVars,
                      cores, listing, since>>

(* Hard reboot and hard power-off are the same restart on an emulator; one *)
(* that was never opened has no command to open it with.                   *)
Restart(op) ==
    /\ since' = "nothing"
    /\ \/ StopEmulator(op)
       \/ /\ transport # "serial" /\ ~handle
          /\ transport = "socket" \/ opened
          /\ Begin(op, "enter", "settling", "open")
          /\ UNCHANGED <<handle, lineVars, targetVars>>

RestartRefused(op) ==
    \/ transport = "host" /\ ~handle /\ ~opened /\ ReturnAtOnce(op, "raised")
    \/ transport = "serial" /\ ~resets /\ ReturnAtOnce(op, "FALSE")
    \/ transport = "serial" /\ resets /\ ReturnAtOnce(op, "raised")

\* The system commands of a serial device.
ResetSerial ==
    /\ transport = "serial" /\ resets
    /\ Begin("reboot", "enter", "confirming", "boot")
    /\ \/ NewTarget("booting") /\ since' = "nothing"
          /\ wire' = [i \in DOMAIN wire |-> [wire[i] EXCEPT !.own = FALSE]]
       \/ Disown /\ UNCHANGED <<shell, remote>> /\ since' = "ignored"
    /\ fault' = FALSE
    /\ UNCHANGED <<handle, sock>>

PoweroffSerial ==
    /\ transport = "serial" /\ resets /\ pc = "idle" /\ "poweroff" \in suite
    /\ BoardReset("off") /\ fault' = FALSE
    /\ ret' = Result("poweroff", "TRUE", FALSE, <<>>)
    /\ UNCHANGED <<confVars, connVars, wire, threadVars, cores, listing,
                   since>>

SoftReboot ==
    /\ Begin("soft", "reboot", "asking reboot", "drain")
    /\ Disown
    /\ since' = "nothing"
    /\ UNCHANGED <<handle, sock, fault, shell, remote>>

Calls ==
    \/ Ask \/ LineTooLong \/ CachedList \/ SwitchNowhere \/ SwitchCore
    \/ ForcePanic
    \/ Start \/ Stop
    \/ Restart("reboot") \/ Restart("poweroff")
    \/ RestartRefused("reboot") \/ RestartRefused("poweroff")
    \/ ResetSerial \/ PoweroffSerial \/ SoftReboot

CallStep ==
    \/ Drain \/ Write \/ DropEcho \/ ReadFirst \/ ReadOn \/ ReadEnds
    \/ Matches \/ GivesUpOrReadsOn \/ FlushAgain \/ FlushEnds
    \/ ReadResponse \/ AskForPrompt \/ BootTimeout
    \/ OpenHost \/ AlreadyOpen \/ NothingToRun \/ Connect \/ OpenSerial
    \/ SerialRaises \/ Kill

Next == Calls \/ CallStep \/ Environment

Spec == Init /\ [][Next]_vars

(* The thread runs on and the clock goes on; the target owes nothing.  A   *)
(* read with a timeout is over in time however much there is to read.      *)
FairSpec ==
    /\ Spec
    /\ WF_vars(CallStep)
    /\ WF_vars(ReadEnds) /\ WF_vars(ReadResponse)
    /\ WF_vars(FlushAgain) /\ WF_vars(FlushEnds)
    /\ WF_vars(TimePasses) /\ WF_vars(BootTimePasses)

-----------------------------------------------------------------------------
(* A command given on a quiet line succeeds on its own output alone; and    *)
(* but on a serial line, where the reads that drop the echo may drop the   *)
(* answer too, on all of it (DeviceCommon.send_cmd_read_until_pattern,     *)
(* CommandBuilder._default_prompt_pattern).                                *)
AnswerIsOwn ==
    ret.op \in Asks /\ ret.status = "SUCCESS" /\ ret.quiet =>
        /\ ~ret.foreign
        /\ transport # "serial" /\ ret.op \in {"ask", "expect"} => ret.text

(* The cached list of commands, if it was asked for on a quiet line other  *)
(* than a serial port's, where `quiet' is never set in it, holds the        *)
(* target's commands, in every later state (_check_cmd_runtime).           *)
ListingIsTrue == listing.quiet => listing.of = "names"

(* reboot() never takes a prompt from before for the boot: where it reports *)
(* success a restarted emulator has booted since, and behind a line that    *)
(* was quiet the target has booted or has let the reset command or the      *)
(* shell's own `reboot' pass without effect, which nobody looks at          *)
(* (DeviceCommon.reboot, _wait_for_boot).                                  *)
RebootIsReal ==
    ret.op \in {"reboot", "soft"} /\ ret.status = "TRUE" =>
        IF ret.op = "reboot" /\ transport # "serial"
          THEN since = "booted" ELSE ret.quiet => since # "nothing"

\* Every call returns, whatever the target does (the deadlines of all loops).
CallsReturn == pc # "idle" ~> pc = "idle"

=============================================================================
