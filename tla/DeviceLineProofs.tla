--------------------------- MODULE DeviceLineProofs ---------------------------
(***************************************************************************)
(* Theorems about DeviceLine, for any sizes of reads, buffers and input      *)
(* queues, any number of signatures in a crash dump and any callers.         *)
(***************************************************************************)
EXTENDS DeviceLine, SequenceTheorems, TLAPS

-----------------------------------------------------------------------------
(* The stages of a call. *)

Pattern == {"drain", "write", "garbage", "first", "loop", "check", "flush"}
Booting == {"boot", "drain", "write", "garbage", "read"}

PhaseOK ==
    \/ /\ call.phase = "asking"
       /\ call.op \in Asks \cup {"read", "switch"} /\ pc \in Pattern
    \/ /\ call.phase = "stopping" /\ call.line = "poweroff"
       /\ call.op \in {"stop", "reboot", "poweroff"}
       /\ transport # "serial" /\ sock = "none"
       /\ pc \in {"drain", "write", "read", "kill", "open", "connect"}
       /\ call.op = "stop" => pc \notin {"open", "connect"}
    \/ /\ call.phase = "asking reboot" /\ call.line = "reboot"
       /\ call.op = "soft" /\ pc \in Booting \ {"boot"}
    \/ /\ call.phase = "settling" /\ call.line = "enter"
       /\ call.op \in {"start", "reboot", "poweroff"}
       /\ pc \in Booting \cup {"open", "connect"}
    \/ /\ call.phase = "confirming" /\ call.line = "enter"
       /\ call.op \in {"start", "reboot", "soft"} /\ pc \in Booting

(* Where a call can be, and what is empty then.                             *)
Shape ==
    /\ IF pc = "idle" THEN call = NoCall ELSE call # NoCall /\ PhaseOK
    /\ pc = "connect" => handle /\ transport = "socket"
    /\ pc = "garbage" => transport = "serial"
    /\ transport = "serial" =>
          /\ pc = "open" => call.op = "start"
          /\ call.op = "reboot" => call.phase = "confirming"
    /\ pc \notin {"loop", "read", "flush"} => window = <<>>
    /\ pc \notin {"loop", "check", "flush"} => buf = <<>>
    /\ ~handle => wire = <<>>

-----------------------------------------------------------------------------
(* Reboots. *)

NoPrompt(text) == \A i \in DOMAIN text : text[i].part # "prompt"

\* The call reboots a target of which nothing was to come.
Rebooting ==
    \/ /\ call.op = "reboot" /\ transport # "serial"
       /\ pc = "connect" \/ (call.phase \in {"settling", "confirming"} /\ pc # "open")
    \/ call.op = "reboot" /\ transport = "serial" /\ call.quiet
    \/ call.op = "soft" /\ call.quiet

\* What the target will do next is reboot, if it does anything.
Mute ==
    shell = "ready" /\ ~remote =>
        /\ call.op = "soft"
        /\ IF input = <<>>
             THEN call.phase = "asking reboot" /\ pc \in {"drain", "write"}
             ELSE Head(input).line = "reboot"

\* No prompt is on its way that outlives the next drain.
Clear ==
    /\ NoPrompt(toPrint)
    /\ \A i \in DOMAIN wire : wire[i].part = "prompt" =>
          pc \in {"boot", "drain"} /\ i <= ChunkMax
    /\ Mute

\* Only a reset board and a shell can ignore a reboot.
Heeded == call.op = "reboot" /\ transport # "serial" => since # "ignored"

RebootInv ==
    /\ Rebooting /\ since = "nothing" =>
          /\ NoPrompt(window)
          /\ DevIsHealth \/ pc = "connect" => Clear
    /\ Heeded /\ RebootIsReal

-----------------------------------------------------------------------------
(* Answers. *)

\* Written by the command under way, or by a crash.
Ours(token) == token.own \/ token.part \in {"sig", "nature"}

Word == Own(IF call.line = "known" THEN "text" ELSE "nocmd")

\* The word that tells whether the command is known comes before any prompt.
Ordered(text, word) ==
    (\E j \in DOMAIN text : text[j] = Own("prompt")) =>
        \E i \in DOMAIN text :
            /\ text[i] = word
            /\ \A j \in DOMAIN text : text[j] = Own("prompt") => i < j

Stream == buf \o window \o wire

Connected == handle /\ (transport = "socket" => sock = "open")

\* A command under way that was given on a quiet line.
Asking == call.op \in Asks /\ call.quiet /\ pc # "flush"

\* What the target does is the command's own.
TargetOurs ==
    /\ shell # "booting"
    /\ \A i \in DOMAIN toPrint : Ours(toPrint[i])
    /\ \A i \in DOMAIN input : input[i].own /\ input[i].line = call.line
    /\ \A i \in DOMAIN wire : ~Ours(wire[i]) => pc = "drain" /\ i <= ChunkMax
    /\ pc = "drain" =>
          /\ input = <<>>
          /\ \A i \in DOMAIN toPrint : ~toPrint[i].own
          /\ \A i \in DOMAIN wire : ~wire[i].own

\* A foreign prompt on the wire is dropped before the command is written.
AnswerInOrder ==
    transport # "serial" =>
        /\ Ordered(buf \o window, Word)
        /\ DevIsHealth =>
              /\ Ordered(Stream, Word)
              /\ Connected => Ordered(Stream \o toPrint, Word)

AskInv ==
    /\ Asking =>
          /\ call.line \in {"known", "unknown"}
          /\ \A i \in DOMAIN window : Ours(window[i])
          /\ \A i \in DOMAIN buf : Ours(buf[i])
          /\ DevIsHealth => TargetOurs
          /\ AnswerInOrder
    /\ AnswerIsOwn /\ ListingIsTrue

-----------------------------------------------------------------------------
(* What the operators on texts return. *)

Rest == SubSeq(wire, Len(Chunk) + 1, Len(wire))

LEMMA SizeTypes == ChunkMax \in Nat \ {0} /\ MaxWire \in Nat \ {0}
                   /\ MaxInput \in Nat \ {0} /\ Signatures \in Nat \ {0}
BY SizeAssumption

(* A read takes the head of what is on the wire.                            *)
LEMMA ChunkTaken ==
    ASSUME TypeOK
    PROVE  /\ Chunk \in Seq(Tokens) /\ Rest \in Seq(Tokens)
           /\ Chunk \o Rest = wire
           /\ \A i \in DOMAIN Chunk : i \in DOMAIN wire /\ Chunk[i] = wire[i]
           /\ \A i \in DOMAIN Rest :
                 /\ i \in Nat \ {0}
                 /\ i + Len(Chunk) \in DOMAIN wire
                 /\ Rest[i] = wire[i + Len(Chunk)]
           /\ Len(Chunk) \in Nat /\ Len(Rest) <= Len(wire)
           /\ DevIsHealth => \A i \in DOMAIN Rest : Len(Chunk) = ChunkMax
           /\ ~DevIsHealth => Chunk = <<>> /\ Rest = wire
           /\ wire = <<>> => Rest = <<>>
<1> DEFINE size == IF Len(wire) < ChunkMax THEN Len(wire) ELSE ChunkMax
           n == IF DevIsHealth THEN size ELSE 0
<1>1. /\ wire \in Seq(Tokens) /\ Len(wire) \in Nat
      /\ DOMAIN wire = 1..Len(wire)
      /\ \A i \in 1..Len(wire) : wire[i] \in Tokens
  BY LenProperties, ElementOfSeq DEF TypeOK, TargetOK
<1>2. n \in 0..Len(wire) /\ size \in 0..Len(wire)
  BY <1>1, SizeTypes
<1>3. Chunk = SubSeq(wire, 1, n) /\ Len(Chunk) = n /\ Chunk \in Seq(Tokens)
      /\ \A i \in 1..n : Chunk[i] = wire[i]
  <2>1. CASE DevIsHealth
    <3>1. n = size /\ Chunk = SubSeq(wire, 1, size)
      BY <2>1 DEF Chunk
    <3> HIDE DEF n, size
    <3> QED BY <1>1, <1>2, <3>1, SubSeqProperties
  <2>2. CASE ~DevIsHealth
    <3>1. n = 0 /\ Chunk = <<>>
      BY <2>2 DEF Chunk
    <3>2. SubSeq(wire, 1, n) = <<>>
      BY <3>1, SubSeqEmpty
    <3> QED BY <3>1, <3>2, EmptySeq
  <2> QED BY <2>1, <2>2
<1>13. n \in Nat /\ n <= Len(wire) /\ Len(wire) \in Nat
  BY <1>1, <1>2
<1>14. DevIsHealth /\ n < Len(wire) => n = ChunkMax
  <2> SUFFICES ASSUME DevIsHealth, n < Len(wire) PROVE n = ChunkMax
    OBVIOUS
  <2>1. n = size
    OBVIOUS
  <2> HIDE DEF n
  <2>2. CASE Len(wire) < ChunkMax
    BY <1>13, <2>1, <2>2
  <2>3. CASE ~(Len(wire) < ChunkMax)
    BY <2>1, <2>3
  <2> QED BY <2>2, <2>3
<1> HIDE DEF n, size
<1>4. Rest = SubSeq(wire, n + 1, Len(wire)) /\ Rest \in Seq(Tokens)
      /\ Len(Rest) = Len(wire) - n
      /\ \A i \in 1..(Len(wire) - n) : Rest[i] = wire[i + n]
  <2>1. Rest = SubSeq(wire, n + 1, Len(wire))
    BY <1>3 DEF Rest
  <2>2. n + 1 \in Int /\ Len(wire) \in Int
        /\ \A i \in (n + 1)..Len(wire) : wire[i] \in Tokens
    BY <1>1, <1>2
  <2>3. /\ Rest \in Seq(Tokens)
        /\ Len(Rest) = IF n + 1 <= Len(wire) THEN Len(wire) - (n + 1) + 1 ELSE 0
        /\ \A i \in 1..(Len(wire) - (n + 1) + 1) : Rest[i] = wire[n + 1 + i - 1]
    BY <2>1, <2>2, SubSeqProperties
  <2>4. \A i \in 1..(Len(wire) - n) : i \in 1..(Len(wire) - (n + 1) + 1)
                                      /\ n + 1 + i - 1 = i + n
    BY <1>1, <1>2
  <2>5. Len(Rest) = Len(wire) - n
    <3> DEFINE w == Len(wire)
    <3>1. n \in Nat /\ w \in Nat /\ n <= w
      BY <1>13
    <3>2. Len(Rest) = IF n + 1 <= w THEN w - (n + 1) + 1 ELSE 0
      BY <2>3
    <3> HIDE DEF w
    <3>3. (IF n + 1 <= w THEN w - (n + 1) + 1 ELSE 0) = w - n
      BY <3>1
    <3>4. Len(Rest) = w - n
      BY <3>2, <3>3
    <3> QED BY <3>4 DEF w
  <2> QED BY <2>1, <2>3, <2>4, <2>5
<1>5. Chunk \o Rest = wire
  <2>1. 1 \in 1..(Len(wire) + 1) /\ n \in (1 - 1)..Len(wire)
        /\ Len(wire) \in n..Len(wire)
    BY <1>1, <1>2
  <2>2. SubSeq(wire, 1, n) \o SubSeq(wire, n + 1, Len(wire))
           = SubSeq(wire, 1, Len(wire))
    BY <1>1, <2>1, ConcatAdjacentSubSeq
  <2> QED BY <1>1, <1>3, <1>4, <2>2, SubSeqFull
<1>6. DOMAIN Chunk = 1..n /\ DOMAIN Rest = 1..(Len(wire) - n)
  BY <1>3, <1>4, LenProperties
<1>7. DevIsHealth => \A i \in DOMAIN Rest : n = ChunkMax
  <2> SUFFICES ASSUME DevIsHealth, NEW i \in DOMAIN Rest PROVE n = ChunkMax
    OBVIOUS
  <2>1. n < Len(wire)
    BY <1>1, <1>2, <1>6
  <2> QED BY <1>14, <2>1
<1>8. ~DevIsHealth => n = 0
  BY DEF n
<1>9. ~DevIsHealth => Chunk = <<>> /\ Rest = wire
  BY <1>1, <1>3, <1>4, <1>8, SubSeqFull DEF Chunk
<1>10. wire = <<>> => Rest = <<>>
  BY <1>1, <1>4, EmptySeq
<1>11. /\ \A i \in DOMAIN Chunk : i \in DOMAIN wire /\ Chunk[i] = wire[i]
       /\ \A i \in DOMAIN Rest :
             i \in Nat \ {0} /\ i + n \in DOMAIN wire /\ Rest[i] = wire[i + n]
  <2>1. \A i \in 1..n : i \in 1..Len(wire)
    BY <1>13
  <2>2. \A i \in 1..(Len(wire) - n) : i \in Nat \ {0} /\ i + n \in 1..Len(wire)
    BY <1>13
  <2> QED BY <1>1, <1>3, <1>4, <1>6, <2>1, <2>2
<1>12. Len(Rest) <= Len(wire) /\ Len(Chunk) \in Nat
  BY <1>3, <1>4, <1>13
<1> QED BY <1>3, <1>4, <1>5, <1>7, <1>9, <1>10, <1>11, <1>12

LEMMA DisownedText ==
    ASSUME NEW text \in Seq(Tokens)
    PROVE  LET new == [i \in DOMAIN text |-> [text[i] EXCEPT !.own = FALSE]] IN
           /\ new \in Seq(Tokens) /\ Len(new) = Len(text)
           /\ DOMAIN new = DOMAIN text
           /\ \A i \in DOMAIN new : new[i].own = FALSE /\ new[i].part = text[i].part
           /\ text = <<>> => new = <<>>
<1> DEFINE new == [i \in DOMAIN text |-> [text[i] EXCEPT !.own = FALSE]]
<1>1. DOMAIN text = 1..Len(text) /\ Len(text) \in Nat
      /\ \A i \in 1..Len(text) : text[i] \in Tokens
  BY LenProperties, ElementOfSeq
<1>2. new \in [1..Len(text) -> Tokens]
  BY <1>1 DEF Tokens
<1>3. new \in Seq(Tokens)
  BY <1>1, <1>2, SeqDef
<1>4. DOMAIN new = 1..Len(text) /\ DOMAIN new = 1..Len(new) /\ Len(new) \in Nat
  BY <1>2, <1>3, LenProperties
<1>5. Len(new) = Len(text)
  BY <1>1, <1>4
<1>6. \A i \in DOMAIN new : new[i].own = FALSE /\ new[i].part = text[i].part
  BY <1>1 DEF Tokens
<1>7. text = <<>> => new = <<>>
  BY <1>3, <1>5, EmptySeq
<1> QED BY <1>1, <1>3, <1>4, <1>5, <1>6, <1>7

LEMMA DisownedInput ==
    ASSUME TypeOK
    PROVE  LET new == [i \in DOMAIN input |-> [input[i] EXCEPT !.own = FALSE]] IN
           /\ new \in Seq([own : BOOLEAN, line : Lines]) /\ Len(new) = Len(input)
           /\ input = <<>> => new = <<>>
<1> DEFINE new == [i \in DOMAIN input |-> [input[i] EXCEPT !.own = FALSE]]
           R == [own : BOOLEAN, line : Lines]
<1>1. DOMAIN input = 1..Len(input) /\ Len(input) \in Nat /\ input \in Seq(R)
      /\ \A i \in 1..Len(input) : input[i] \in R
  BY LenProperties, ElementOfSeq DEF TypeOK, TargetOK
<1>2. new \in [1..Len(input) -> R]
  BY <1>1
<1>3. new \in Seq(R)
  BY <1>1, <1>2, SeqDef
<1>4. DOMAIN new = 1..Len(input) /\ DOMAIN new = 1..Len(new) /\ Len(new) \in Nat
  BY <1>2, <1>3, LenProperties
<1>5. Len(new) = Len(input)
  BY <1>1, <1>4
<1>6. input = <<>> => new = <<>>
  BY <1>3, <1>5, EmptySeq
<1> QED BY <1>3, <1>5, <1>6

(* An answer, and the line at which it says whether the command is known.   *)
LEMMA AnswerText ==
    ASSUME NEW own \in BOOLEAN, NEW line \in Lines, remote \in BOOLEAN
    PROVE  LET parts == Answer(line)
               new == [i \in DOMAIN parts |-> [own |-> own, part |-> parts[i]]] IN
           /\ new \in Seq(Tokens)
           /\ \A i \in DOMAIN new :
                 /\ new[i].own = own /\ i \in Nat \ {0}
                 /\ new[i].part = "prompt" => ~remote
                 /\ new[i].part = "prompt" /\ line \in {"known", "unknown"} =>
                       /\ i = 3 /\ 2 \in DOMAIN new
                       /\ new[2].part = IF line = "known" THEN "text" ELSE "nocmd"
<1> DEFINE parts == Answer(line)
           new == [i \in DOMAIN parts |-> [own |-> own, part |-> parts[i]]]
<1>1. HisPrompt(remote) \in {"prompt", "remote prompt"} /\ HisPrompt(TRUE) = "remote prompt"
      /\ (HisPrompt(remote) = "prompt" => ~remote)
  BY DEF HisPrompt
<1>2. \/ parts = <<HisPrompt(remote)>> /\ line \notin {"known", "unknown"}
      \/ parts = <<"echo", "text", HisPrompt(remote)>> /\ line = "known"
      \/ parts = <<"echo", "nocmd", HisPrompt(remote)>> /\ line = "unknown"
      \/ parts = <<"echo", HisPrompt(TRUE)>> /\ line \notin {"known", "unknown"}
      \/ parts = <<"echo", HisPrompt(remote)>> /\ line \notin {"known", "unknown"}
  BY DEF Answer, Lines
<1> HIDE DEF parts
<1>3. parts \in Seq(Parts)
  <2>1. {"echo", "text", "nocmd", HisPrompt(remote), HisPrompt(TRUE)} \subseteq Parts
    BY <1>1 DEF Parts
  <2> HIDE DEF Parts
  <2>2. \A a, b, c \in Parts :
            <<a>> \in Seq(Parts) /\ <<a, b>> \in Seq(Parts) /\ <<a, b, c>> \in Seq(Parts)
    OBVIOUS
  <2>3. parts \in {<<HisPrompt(remote)>>, <<"echo", "text", HisPrompt(remote)>>,
                   <<"echo", "nocmd", HisPrompt(remote)>>, <<"echo", HisPrompt(TRUE)>>,
                   <<"echo", HisPrompt(remote)>>}
    BY <1>2
  <2> QED BY <2>1, <2>2, <2>3
<1>4. DOMAIN parts = 1..Len(parts) /\ Len(parts) \in Nat
      /\ \A i \in 1..Len(parts) : parts[i] \in Parts
  BY <1>3, LenProperties, ElementOfSeq
<1>5. new \in Seq(Tokens)
  BY <1>4, SeqDef DEF Tokens
<1>6. \A i \in DOMAIN parts : parts[i] = "prompt" =>
          /\ ~remote
          /\ line \in {"known", "unknown"} =>
                /\ i = 3 /\ 2 \in DOMAIN parts
                /\ parts[2] = IF line = "known" THEN "text" ELSE "nocmd"
  <2>1. CASE parts = <<HisPrompt(remote)>> /\ line \notin {"known", "unknown"}
    <3>1. DOMAIN parts = {1} /\ parts[1] = HisPrompt(remote)
      BY <2>1
    <3> QED BY <1>1, <2>1, <3>1
  <2>2. CASE parts = <<"echo", "text", HisPrompt(remote)>> /\ line = "known"
    <3>1. DOMAIN parts = {1, 2, 3} /\ parts[1] = "echo" /\ parts[2] = "text"
          /\ parts[3] = HisPrompt(remote)
      BY <2>2
    <3> QED BY <1>1, <2>2, <3>1
  <2>3. CASE parts = <<"echo", "nocmd", HisPrompt(remote)>> /\ line = "unknown"
    <3>1. DOMAIN parts = {1, 2, 3} /\ parts[1] = "echo" /\ parts[2] = "nocmd"
          /\ parts[3] = HisPrompt(remote)
      BY <2>3
    <3> QED BY <1>1, <2>3, <3>1
  <2>4. CASE parts = <<"echo", HisPrompt(TRUE)>> /\ line \notin {"known", "unknown"}
    <3>1. DOMAIN parts = {1, 2} /\ parts[1] = "echo" /\ parts[2] = HisPrompt(TRUE)
      BY <2>4
    <3> QED BY <1>1, <2>4, <3>1
  <2>5. CASE parts = <<"echo", HisPrompt(remote)>> /\ line \notin {"known", "unknown"}
    <3>1. DOMAIN parts = {1, 2} /\ parts[1] = "echo" /\ parts[2] = HisPrompt(remote)
      BY <2>5
    <3> QED BY <1>1, <2>5, <3>1
  <2> QED BY <1>2, <2>1, <2>2, <2>3, <2>4, <2>5
<1> QED BY <1>4, <1>5, <1>6 DEF parts

LEMMA PanicText ==
    ASSUME Panics
    PROVE  /\ toPrint' \in Seq(Tokens)
           /\ \A i \in DOMAIN toPrint' :
                 /\ ~toPrint'[i].own
                 /\ toPrint'[i].part \in {"sig", "nature"}
<1>1. 2 * Signatures \in Nat
  BY SizeTypes
<1>2. toPrint' \in [1 .. 2 * Signatures -> Tokens]
  BY DEF Panics, Tokens, Parts
<1>3. toPrint' \in Seq(Tokens)
  BY <1>1, <1>2, SeqDef
<1> QED BY <1>3 DEF Panics

-----------------------------------------------------------------------------
(* Type correctness, with the stages of a call. *)

LEMMA Active ==
    ASSUME TypeOK, Shape
    PROVE  \/ pc = "idle" /\ call = NoCall
           \/ pc # "idle" /\ call \in CallRecords /\ PhaseOK
BY DEF TypeOK, ThreadOK, Shape

\* Nothing moves but the target.
LEMMA TargetShape ==
    ASSUME Shape, UNCHANGED <<transport, handle, sock, pc, call, window, buf>>,
           ~handle => wire' = wire
    PROVE  Shape'
BY DEF Shape, PhaseOK

LEMMA TypeFrame ==
    ASSUME TypeOK
    PROVE  /\ UNCHANGED <<confVars, connVars, fault>> => ConnOK'
           /\ UNCHANGED <<targetVars, wire, since>> => TargetOK'
           /\ UNCHANGED threadVars => ThreadOK'
           /\ UNCHANGED coreVars => CoreOK'
BY DEF TypeOK, ConnOK, TargetOK, ThreadOK, CoreOK, confVars, connVars, targetVars,
   threadVars, coreVars

LEMMA EnvironmentType ==
    ASSUME TypeOK, Shape, Environment
    PROVE  TypeOK' /\ Shape'
<1> USE DEF TypeOK, ConnOK, TargetOK, ThreadOK, CoreOK
<1>1. CASE TargetBoots
  <2>1. [own |-> FALSE, part |-> "prompt"] \in Tokens
    BY DEF Tokens, Parts
  <2>2. toPrint' \in Seq(Tokens)
    <3> HIDE DEF TypeOK, ConnOK, TargetOK, ThreadOK, CoreOK
    <3>1. \A t \in Tokens : <<t>> \in Seq(Tokens)
      OBVIOUS
    <3> QED BY <1>1, <2>1, <3>1 DEF TargetBoots
  <2>3. Shape'
    BY <1>1, TargetShape DEF TargetBoots, confVars, connVars, threadVars
  <2> QED BY <1>1, <2>2, <2>3 DEF TargetBoots, confVars, connVars, threadVars, coreVars
<1>2. CASE TargetPrints
  <2>1. Head(toPrint) \in Tokens /\ Tail(toPrint) \in Seq(Tokens)
    BY <1>2, HeadTailProperties DEF TargetPrints
  <2>2. /\ Append(wire, Head(toPrint)) \in Seq(Tokens)
        /\ Len(Append(wire, Head(toPrint))) = Len(wire) + 1
        /\ Len(wire) \in Nat
    BY <2>1, AppendProperties, LenProperties
  <2>3. wire' \in Seq(Tokens) /\ Len(wire') <= MaxWire
    BY <1>2, <2>2, SizeTypes DEF TargetPrints
  <2>4. Shape'
    BY <1>2, TargetShape DEF TargetPrints, confVars, connVars, threadVars
  <2> QED BY <1>2, <2>1, <2>3, <2>4
          DEF TargetPrints, confVars, connVars, threadVars, coreVars
<1>3. CASE TargetExecutes
  <2> DEFINE line == Head(input)
             R == [own : BOOLEAN, line : Lines]
             parts == Answer(line.line)
             text == [i \in DOMAIN parts |-> [own |-> line.own, part |-> parts[i]]]
  <2>1. line \in R /\ Tail(input) \in Seq(R) /\ Len(Tail(input)) = Len(input) - 1
        /\ Len(input) \in Nat
    BY <1>3, HeadTailProperties, LenProperties DEF TargetExecutes
  <2>2. text \in Seq(Tokens)
    BY <2>1, AnswerText
  <2>3. <<>> \in Seq(Tokens) /\ <<>> \in Seq(R) /\ Len(<<>>) = 0
    BY EmptySeq
  <2>4. toPrint' \in {<<>>, text} /\ input' \in {<<>>, Tail(input)}
        /\ shell' \in {"ready", "off", "booting"} /\ remote' \in BOOLEAN
    BY <1>3 DEF TargetExecutes
  <2> HIDE DEF line, text, parts
  <2>5. Len(input') <= MaxInput
    BY <2>1, <2>3, <2>4, SizeTypes
  <2>6. Shape'
    BY <1>3, TargetShape DEF TargetExecutes, confVars, connVars, threadVars
  <2>7. UNCHANGED <<confVars, connVars, fault, wire, threadVars, coreVars, since>>
    BY <1>3 DEF TargetExecutes
  <2>8. input' \in Seq(R) /\ toPrint' \in Seq(Tokens)
    BY <2>1, <2>2, <2>3, <2>4
  <2>9. TargetOK'
    BY <2>4, <2>5, <2>7, <2>8
  <2> HIDE DEF TypeOK, ConnOK, TargetOK, ThreadOK, CoreOK
  <2>10. ConnOK' /\ ThreadOK' /\ CoreOK'
    BY <2>7, TypeFrame
  <2> QED BY <2>6, <2>9, <2>10 DEF TypeOK
<1>4. CASE TargetCrashes
  <2>1. toPrint' \in Seq(Tokens)
    BY <1>4, PanicText DEF TargetCrashes
  <2>2. input' = <<>> /\ input' \in Seq([own : BOOLEAN, line : Lines])
        /\ Len(input') = 0
    BY <1>4, EmptySeq DEF TargetCrashes, Panics
  <2>3. Shape'
    BY <1>4, TargetShape DEF TargetCrashes, confVars, connVars, threadVars
  <2> QED BY <1>4, <2>1, <2>2, <2>3, SizeTypes
          DEF TargetCrashes, Panics, confVars, connVars, threadVars, coreVars
<1>5. CASE EmulatorFails
  <2>1. <<>> \in Seq([own : BOOLEAN, line : Lines]) /\ <<>> \in Seq(Tokens)
        /\ Len(<<>>) <= MaxInput
    BY EmptySeq, SizeTypes
  <2>2. /\ UNCHANGED <<confVars, handle, opened, fault, remote, wire, threadVars,
                        coreVars, since>>
        /\ sock' \in {sock, "eof"} /\ (sock = "none" => sock' = "none")
        /\ \/ shell' = "off" /\ input' = <<>> /\ toPrint' = <<>>
           \/ UNCHANGED <<shell, input, toPrint>>
    BY <1>5 DEF EmulatorFails
  <2>3. ConnOK'
    BY <2>2 DEF confVars
  <2>4. TargetOK'
    <3>1. input' \in Seq([own : BOOLEAN, line : Lines]) /\ Len(input') <= MaxInput
          /\ toPrint' \in Seq(Tokens)
      BY <2>1, <2>2
    <3> QED BY <2>2, <3>1
  <2>5. Shape'
    BY <2>2 DEF confVars, threadVars, Shape, PhaseOK
  <2> HIDE DEF TypeOK, ConnOK, TargetOK, ThreadOK, CoreOK
  <2>6. ThreadOK' /\ CoreOK'
    BY <2>2, TypeFrame
  <2> QED BY <2>3, <2>4, <2>5, <2>6 DEF TypeOK
<1>6. CASE TimePasses \/ BootTimePasses
  <2>1. /\ UNCHANGED <<confVars, connVars, fault, targetVars, wire, coreVars, since>>
        /\ UNCHANGED <<pc, call, window, buf>>
        /\ late' \in {late, TRUE} /\ bootLate' \in {bootLate, TRUE}
    BY <1>6 DEF TimePasses, BootTimePasses
  <2>2. ThreadOK'
    BY <2>1
  <2>3. Shape'
    BY <2>1, TargetShape DEF confVars, connVars
  <2> HIDE DEF TypeOK, ConnOK, TargetOK, ThreadOK, CoreOK
  <2>4. ConnOK' /\ TargetOK' /\ CoreOK'
    BY <2>1, TypeFrame
  <2> QED BY <2>2, <2>3, <2>4 DEF TypeOK
<1>7. CASE TargetRefuses
  <2> DEFINE line == Head(input)
             R == [own : BOOLEAN, line : Lines]
             parts == Answer("unknown")
             text == [i \in DOMAIN parts |-> [own |-> line.own, part |-> parts[i]]]
  <2>1. line \in R /\ Tail(input) \in Seq(R) /\ Len(Tail(input)) = Len(input) - 1
        /\ Len(input) \in Nat
    BY <1>7, HeadTailProperties, LenProperties DEF TargetRefuses
  <2>2. text \in Seq(Tokens)
    <3>1. line.own \in BOOLEAN /\ "unknown" \in Lines /\ remote \in BOOLEAN
      BY <2>1 DEF Lines
    <3>2. [own |-> line.own, line |-> "unknown"] \in R
      BY <3>1
    <3> HIDE DEF line
    <3> QED BY <3>1, <3>2, AnswerText
  <2>3. toPrint' = text /\ input' = Tail(input) /\ since' \in {since, "ignored"}
        /\ UNCHANGED <<confVars, connVars, fault, shell, remote, wire, threadVars, coreVars>>
    BY <1>7 DEF TargetRefuses
  <2> HIDE DEF line, text, parts
  <2>4. Len(input') <= MaxInput
    BY <2>1, <2>3, SizeTypes
  <2>5. Shape'
    BY <2>3, TargetShape DEF confVars, connVars, threadVars
  <2>6. TargetOK'
    BY <2>1, <2>2, <2>3, <2>4
  <2> HIDE DEF TypeOK, ConnOK, TargetOK, ThreadOK, CoreOK
  <2>7. ConnOK' /\ ThreadOK' /\ CoreOK'
    BY <2>3, TypeFrame
  <2> QED BY <2>5, <2>6, <2>7 DEF TypeOK
<1> QED BY <1>1, <1>2, <1>3, <1>4, <1>5, <1>6, <1>7 DEF Environment

LEMMA ReadType ==
    ASSUME TypeOK, Shape, Read, UNCHANGED restVars
    PROVE  /\ ConnOK' /\ TargetOK'
           /\ ~handle => wire' = <<>>
           /\ sock = "none" => sock' = "none"
           /\ wire' = Rest
<1>1. wire' = Rest
  BY DEF Read, Rest
<1>2. Rest \in Seq(Tokens) /\ Len(Rest) <= Len(wire) /\ Len(wire) \in Nat
      /\ Len(Rest) \in Nat /\ (wire = <<>> => Rest = <<>>)
  BY ChunkTaken, LenProperties DEF TypeOK, TargetOK
<1>3. fault' \in BOOLEAN
  BY DEF Read
<1>4. sock' \in {sock, "none"}
  BY DEF Read
<1>5. Len(wire') <= MaxWire
  BY <1>1, <1>2, SizeTypes DEF TypeOK, TargetOK
<1>6. ConnOK'
  BY <1>3, <1>4 DEF restVars, confVars, TypeOK, ConnOK
<1>7. TargetOK'
  BY <1>1, <1>2, <1>5 DEF restVars, targetVars, TypeOK, TargetOK
<1> QED BY <1>1, <1>2, <1>4, <1>6, <1>7 DEF Shape

LEMMA ResultType ==
    ASSUME NEW op \in Ops, NEW status \in Statuses, NEW quiet \in BOOLEAN, NEW output
    PROVE  Result(op, status, quiet, output) \in Results
BY DEF Result, Results

LEMMA ReturnType ==
    ASSUME TypeOK, Shape, pc # "idle", NEW status \in Statuses, NEW output,
           Return(status, output)
    PROVE  ThreadOK' /\ ret' \in Results /\ pc' = "idle" /\ call' = NoCall
           /\ window' = <<>> /\ buf' = <<>>
<1>1. call.op \in Ops /\ call.quiet \in BOOLEAN
  BY Active DEF CallRecords
<1>2. ret' \in Results
  BY <1>1, ResultType DEF Return
<1>3. ThreadOK'
  BY EmptySeq DEF Return, ThreadOK, Stages
<1> QED BY <1>2, <1>3 DEF Return

LEMMA ToBootType ==
    ASSUME TypeOK, Shape, pc # "idle", NEW phase \in Phases, ToBoot(phase)
    PROVE  /\ ThreadOK' /\ CoreOK' /\ pc' = "boot" /\ window' = <<>> /\ buf' = <<>>
           /\ call' \in CallRecords /\ call'.phase = phase /\ call'.line = "enter"
           /\ call'.op = call.op /\ call'.quiet = call.quiet
<1>1. call \in CallRecords
  BY Active
<1>2. /\ call' \in CallRecords /\ call'.phase = phase /\ call'.line = "enter"
      /\ call'.op = call.op /\ call'.quiet = call.quiet
  BY <1>1 DEF ToBoot, CallRecords, Lines
<1>3. ThreadOK'
  BY <1>2, EmptySeq DEF ToBoot, ThreadOK, TypeOK, Stages
<1>4. CoreOK'
  BY DEF ToBoot, coreVars, TypeOK, CoreOK
<1> QED BY <1>2, <1>3, <1>4 DEF ToBoot

\* The steps of a call that read, write or move on.
LEMMA LineType ==
    ASSUME TypeOK, Shape,
           Drain \/ DropEcho \/ ReadFirst \/ ReadOn \/ ReadEnds
             \/ GivesUpOrReadsOn \/ FlushAgain \/ AskForPrompt
    PROVE  TypeOK' /\ Shape'
<1>1. UNCHANGED <<call, late, bootLate, coreVars, restVars>>
  BY DEF Drain, DropEcho, ReadFirst, ReadOn, ReadEnds, GivesUpOrReadsOn,
     FlushAgain, AskForPrompt, GoTo
<1>2. Read \/ UNCHANGED lineVars
  BY DEF Drain, DropEcho, ReadFirst, ReadOn, ReadEnds, GivesUpOrReadsOn,
     FlushAgain, AskForPrompt
<1>3. /\ ConnOK' /\ TargetOK' /\ (~handle => wire' = <<>>)
      /\ (sock = "none" => sock' = "none")
  <2>1. CASE Read
    BY <1>1, <2>1, ReadType
  <2>2. CASE UNCHANGED lineVars
    <3>1. ConnOK' /\ TargetOK'
      BY <1>1, <2>2, TypeFrame DEF lineVars, restVars, confVars, connVars, targetVars
    <3> QED BY <2>2, <3>1 DEF lineVars, Shape
  <2> QED BY <1>2, <2>1, <2>2
<1>4. CoreOK'
  BY <1>1, TypeFrame
<1>5. window \in Seq(Tokens) /\ buf \in Seq(Tokens) /\ Chunk \in Seq(Tokens)
  BY ChunkTaken DEF TypeOK, ThreadOK
<1>6. window \o Chunk \in Seq(Tokens)
  BY <1>5, ConcatProperties
<1>7. /\ <<>> \in Seq(Tokens) /\ buf \o window \in Seq(Tokens)
      /\ (buf \o window) \o Chunk \in Seq(Tokens)
  BY <1>5, ConcatProperties, EmptySeq
<1>8. /\ window' \in {window, window \o Chunk, <<>>}
      /\ buf' \in {buf, Chunk, (buf \o window) \o Chunk}
  BY DEF Drain, DropEcho, ReadFirst, ReadOn, ReadEnds, GivesUpOrReadsOn,
     FlushAgain, AskForPrompt
<1>9. pc' \in Stages /\ pc # "idle" /\ pc' # "idle" /\ pc' \notin {"connect", "open", "garbage"}
  BY DEF Drain, DropEcho, ReadFirst, ReadOn, ReadEnds, GivesUpOrReadsOn,
     FlushAgain, AskForPrompt, GoTo, Stages
<1>10. ThreadOK'
  BY <1>1, <1>5, <1>6, <1>7, <1>8, <1>9 DEF TypeOK, ThreadOK
<1>11. /\ pc' \notin {"loop", "read", "flush"} => window' = <<>>
       /\ pc' \notin {"loop", "check", "flush"} => buf' = <<>>
  BY DEF Drain, DropEcho, ReadFirst, ReadOn, ReadEnds, GivesUpOrReadsOn,
     FlushAgain, AskForPrompt, GoTo, Shape
<1>12. PhaseOK
  BY <1>9, Active
<1>13. UNCHANGED <<transport, handle>>
  BY <1>1 DEF restVars, confVars
<1>14. PhaseOK'
  <2> USE DEF PhaseOK, Pattern, Booting
  <2>1. CASE Drain
    BY <1>1, <1>3, <1>12, <1>13, <2>1 DEF Drain, GoTo
  <2>2. CASE DropEcho
    <3>1. pc = "garbage" /\ pc' = (IF call.phase = "asking" THEN "first" ELSE "read")
      BY <2>2 DEF DropEcho, GoTo
    <3>2. call' = call
      BY <1>1
    <3> QED BY <1>3, <1>12, <1>13, <3>1, <3>2
  <2>3. CASE ReadFirst \/ ReadEnds \/ GivesUpOrReadsOn \/ FlushAgain
    BY <1>1, <1>3, <1>12, <1>13, <2>3 DEF ReadFirst, ReadEnds, GivesUpOrReadsOn, FlushAgain, GoTo
  <2>4. CASE ReadOn
    <3>1. pc' = pc /\ call' = call
      BY <2>4 DEF ReadOn, GoTo
    <3> QED BY <1>3, <1>12, <1>13, <3>1
  <2>5. CASE AskForPrompt
    BY <1>1, <1>3, <1>12, <1>13, <2>5 DEF AskForPrompt, GoTo
  <2> QED BY <2>1, <2>2, <2>3, <2>4, <2>5
<1>15. Shape'
  BY <1>1, <1>3, <1>9, <1>11, <1>13, <1>14 DEF Shape
<1> QED BY <1>3, <1>4, <1>10, <1>15 DEF TypeOK

LEMMA WriteType ==
    ASSUME TypeOK, Shape, Write
    PROVE  TypeOK' /\ Shape'
<1> DEFINE R == [own : BOOLEAN, line : Lines]
           line == [own |-> TRUE, line |-> call.line]
<1>1. pc = "write" /\ call \in CallRecords /\ PhaseOK
  BY Active DEF Write
<1>2. line \in R
  BY <1>1 DEF CallRecords
<1>3. input \in Seq(R) /\ Len(input) \in Nat /\ Len(input) <= MaxInput
  BY LenProperties DEF TypeOK, TargetOK
<1>4. /\ Append(input, line) \in Seq(R)
      /\ Len(Append(input, line)) = Len(input) + 1
  BY <1>2, <1>3, AppendProperties
<1>5. input' \in Seq(R) /\ Len(input') <= MaxInput
  <2>1. input' = input \/ (input' = Append(input, line) /\ Len(input) < MaxInput)
    BY DEF Write
  <2> HIDE DEF line, R
  <2>2. CASE input' = input
    BY <1>3, <2>2
  <2>3. CASE input' = Append(input, line) /\ Len(input) < MaxInput
    BY <1>3, <1>4, <2>3, SizeTypes
  <2> QED BY <2>1, <2>2, <2>3
<1>6. /\ UNCHANGED <<confVars, connVars, fault, shell, remote, toPrint, wire, call,
                     window, buf, late, bootLate, coreVars, since>>
      /\ pc' \in {"garbage", "first", "read"}
      /\ pc' = "garbage" => transport = "serial"
      /\ pc' = "first" => call.phase = "asking"
      /\ pc' = "read" => call.phase # "asking"
  BY DEF Write
<1>7. TargetOK'
  BY <1>5, <1>6 DEF TypeOK, TargetOK
<1>8. ThreadOK'
  BY <1>6 DEF TypeOK, ThreadOK, Stages
<1>9. PhaseOK'
  BY <1>1, <1>6 DEF PhaseOK, Pattern, Booting, confVars, connVars
<1>10. window = <<>> /\ buf = <<>> /\ (~handle => wire = <<>>) /\ call # NoCall
  BY <1>1 DEF Shape
<1>11. transport = "serial" /\ call.op = "reboot" => call.phase = "confirming"
  BY DEF Shape
<1>12. Shape'
  BY <1>6, <1>9, <1>10, <1>11 DEF Shape, confVars, connVars
<1>13. ConnOK' /\ CoreOK'
  BY <1>6, TypeFrame
<1> QED BY <1>7, <1>8, <1>12, <1>13 DEF TypeOK

LEMMA ReturnShape ==
    ASSUME pc' = "idle", call' = NoCall, window' = <<>>, buf' = <<>>,
           ~handle' => wire' = <<>>
    PROVE  Shape'
BY DEF Shape, NoCall

LEMMA ReturnKeeps ==
    ASSUME TypeOK, Shape, pc # "idle", NEW status \in Statuses, NEW output,
           Return(status, output), UNCHANGED <<cores, listing>>,
           ~handle' => wire' = <<>>
    PROVE  ThreadOK' /\ CoreOK' /\ Shape'
<1>1. ThreadOK' /\ ret' \in Results /\ pc' = "idle" /\ call' = NoCall
      /\ window' = <<>> /\ buf' = <<>>
  BY ReturnType
<1>2. Shape'
  BY <1>1, ReturnShape
<1>3. CoreOK'
  BY <1>1 DEF TypeOK, CoreOK
<1> QED BY <1>1, <1>2, <1>3

LEMMA ToBootKeeps ==
    ASSUME TypeOK, Shape, pc # "idle", NEW phase \in {"settling", "confirming"},
           ToBoot(phase), ~handle' => wire' = <<>>, UNCHANGED transport,
           IF phase = "settling" THEN call.op \in {"start", "reboot", "poweroff"}
                                 ELSE call.op \in {"start", "reboot", "soft"},
           transport = "serial" /\ call.op = "reboot" => phase = "confirming"
    PROVE  ThreadOK' /\ CoreOK' /\ Shape'
<1>1. phase \in Phases
  BY DEF Phases
<1>2. /\ ThreadOK' /\ CoreOK' /\ pc' = "boot" /\ window' = <<>> /\ buf' = <<>>
      /\ call' \in CallRecords /\ call'.phase = phase /\ call'.line = "enter"
      /\ call'.op = call.op
  BY <1>1, ToBootType
<1>3. call' # NoCall
  BY <1>2 DEF NoCall, CallRecords, Ops, Asks
<1>4. PhaseOK'
  BY <1>2 DEF PhaseOK, Booting
<1>5. Shape'
  BY <1>2, <1>3, <1>4 DEF Shape
<1> QED BY <1>2, <1>5

LEMMA BootEndsType ==
    ASSUME TypeOK, Shape, pc \in {"read", "boot"},
           call.phase \in {"settling", "confirming"}, NEW booted \in BOOLEAN,
           BootEnds(booted), ~handle' => wire' = <<>>, UNCHANGED transport
    PROVE  ThreadOK' /\ CoreOK' /\ Shape'
<1>1. call \in CallRecords /\ PhaseOK /\ pc # "idle"
  BY Active
<1>2. \/ \E status \in Statuses : Return(status, <<>>) /\ UNCHANGED <<cores, listing>>
      \/ call.phase = "confirming" /\ call.op = "start" /\ ToBoot("settling")
      \/ call.phase = "settling" /\ call.op = "reboot" /\ ToBoot("confirming")
  <2> DEFINE first == IF booted THEN "TRUE" ELSE "FALSE"
             last == IF ~booted THEN "raised"
                     ELSE IF call.op = "poweroff" THEN "TRUE" ELSE "done"
  <2>1. first \in Statuses /\ last \in Statuses
    BY DEF Statuses
  <2> QED BY <2>1 DEF BootEnds
<1>3. CASE \E status \in Statuses : Return(status, <<>>) /\ UNCHANGED <<cores, listing>>
  BY <1>1, <1>3, ReturnKeeps
<1>4. CASE call.phase = "confirming" /\ call.op = "start" /\ ToBoot("settling")
  BY <1>1, <1>4, ToBootKeeps
<1>5. CASE call.phase = "settling" /\ call.op = "reboot" /\ ToBoot("confirming")
  BY <1>1, <1>5, ToBootKeeps
<1> QED BY <1>2, <1>3, <1>4, <1>5

LEMMA PatternType ==
    ASSUME TypeOK, Shape, Matches \/ FlushEnds
    PROVE  TypeOK' /\ Shape'
<1>1. pc # "idle" /\ UNCHANGED restVars /\ (Read \/ UNCHANGED lineVars)
  BY DEF Matches, FlushEnds
<1>2. ConnOK' /\ TargetOK' /\ (~handle => wire' = <<>>)
  <2>1. CASE Read
    BY <1>1, <2>1, ReadType
  <2>2. CASE UNCHANGED lineVars
    <3>1. ConnOK' /\ TargetOK'
      BY <1>1, <2>2, TypeFrame DEF lineVars, restVars, confVars, connVars, targetVars
    <3> QED BY <2>2, <3>1 DEF lineVars, Shape
  <2> QED BY <1>1, <2>1, <2>2
<1>3. ~handle' => wire' = <<>>
  BY <1>1, <1>2 DEF restVars
<1>4. PICK status \in Statuses : Return(status, buf)
  BY DEF Matches, FlushEnds, Status, Statuses
<1>5. ThreadOK' /\ ret' \in Results /\ pc' = "idle" /\ call' = NoCall
      /\ window' = <<>> /\ buf' = <<>>
  BY <1>1, <1>4, ReturnType
<1>6. Shape'
  BY <1>3, <1>5, ReturnShape
<1>7. call.quiet \in BOOLEAN
  BY <1>1, Active DEF CallRecords
<1>8. \A output : /\ CoresRead(output) \in {"unset", "default", "listed"}
                  /\ Listing(output) \in [of : {"none", "names", "nothing", "other"},
                                          quiet : BOOLEAN]
  BY <1>7 DEF CoresRead, Listing, TypeOK, CoreOK
<1>9. CoreOK'
  <2>1. /\ \E output : cores' = CoresRead(output)
        /\ listing' = listing \/ \E output : listing' = Listing(output)
    BY DEF Matches, FlushEnds
  <2> QED BY <1>5, <1>8, <2>1 DEF TypeOK, CoreOK
<1> QED BY <1>2, <1>5, <1>6, <1>9 DEF TypeOK

LEMMA ResponseType ==
    ASSUME TypeOK, Shape, ReadResponse
    PROVE  TypeOK' /\ Shape'
<1>1. pc = "read" /\ UNCHANGED restVars /\ Read /\ Responded(window \o Chunk)
  BY DEF ReadResponse
<1>2. ConnOK' /\ TargetOK' /\ (~handle => wire' = <<>>)
      /\ (sock = "none" => sock' = "none")
  BY <1>1, ReadType
<1>3. (~handle' => wire' = <<>>) /\ UNCHANGED <<transport, handle>>
  BY <1>1, <1>2 DEF restVars, confVars
<1>4. call \in CallRecords /\ PhaseOK /\ pc # "idle"
  BY <1>1, Active
<1>5. CASE /\ call.phase = "stopping" /\ pc' = "kill" /\ window' = <<>>
           /\ UNCHANGED <<call, late, bootLate, buf, coreVars>>
  <2>1. ThreadOK' /\ CoreOK'
    BY <1>5, EmptySeq, TypeFrame DEF TypeOK, ThreadOK, Stages
  <2>2. PhaseOK'
    BY <1>2, <1>3, <1>4, <1>5 DEF PhaseOK
  <2>3. buf' = <<>>
    BY <1>1, <1>5 DEF Shape
  <2>4. Shape'
    BY <1>3, <1>4, <1>5, <2>2, <2>3 DEF Shape
  <2> QED BY <1>2, <2>1, <2>4 DEF TypeOK
<1>6. CASE call.phase = "asking reboot" /\ ToBoot("confirming")
  BY <1>2, <1>3, <1>4, <1>6, ToBootKeeps DEF PhaseOK, TypeOK
<1>7. CASE call.phase \in {"settling", "confirming"} /\ BootEnds(TRUE)
  BY <1>1, <1>2, <1>3, <1>7, BootEndsType DEF TypeOK
<1>8. CASE /\ call.phase \in {"settling", "confirming"} /\ pc' = "boot" /\ window' = <<>>
           /\ UNCHANGED <<call, late, bootLate, buf, coreVars>>
  <2>1. ThreadOK' /\ CoreOK'
    BY <1>8, EmptySeq, TypeFrame DEF TypeOK, ThreadOK, Stages
  <2>2. PhaseOK'
    BY <1>2, <1>3, <1>4, <1>8 DEF PhaseOK, Booting
  <2>3. buf' = <<>>
    BY <1>1, <1>8 DEF Shape
  <2>4. Shape'
    BY <1>3, <1>4, <1>8, <2>2, <2>3 DEF Shape
  <2> QED BY <1>2, <2>1, <2>4 DEF TypeOK
<1> QED BY <1>1, <1>5, <1>6, <1>7, <1>8 DEF Responded

\* A target made anew, and the line to it as long as it was at most.
LEMMA NewTargetType ==
    ASSUME TypeOK, NEW state \in {"off", "booting"}, NewTarget(state),
           wire' \in Seq(Tokens), Len(wire') <= Len(wire), since' \in {"nothing", "ignored", "booted"}
    PROVE  TargetOK'
<1>1. input' \in Seq([own : BOOLEAN, line : Lines]) /\ Len(input') = 0
      /\ toPrint' \in Seq(Tokens)
  BY EmptySeq DEF NewTarget
<1>2. Len(wire) \in Nat /\ Len(wire') \in Nat /\ Len(wire) <= MaxWire
  BY LenProperties DEF TypeOK, TargetOK
<1>3. Len(wire') <= MaxWire
  BY <1>2, SizeTypes
<1>4. Len(input') <= MaxInput
  BY <1>1, SizeTypes
<1> QED BY <1>1, <1>3, <1>4 DEF NewTarget, TargetOK

\* The steps of a call that open the device, wait for it to boot or close it.
LEMMA OpenType ==
    ASSUME TypeOK, Shape, OpenHost \/ Connect \/ OpenSerial
    PROVE  TypeOK' /\ Shape'
<1>1. pc # "idle" /\ call \in CallRecords /\ PhaseOK
  BY Active DEF OpenHost, Connect, OpenSerial
<1>2. <<>> \in Seq(Tokens) /\ Len(<<>>) = 0 /\ Len(wire) \in Nat /\ wire \in Seq(Tokens)
      /\ 0 <= Len(wire) /\ Len(wire) <= Len(wire)
  BY EmptySeq, LenProperties DEF TypeOK, TargetOK
<1>3. CASE OpenHost
  <2>1. ConnOK'
    BY <1>3 DEF OpenHost, TypeOK, ConnOK, confVars
  <2>2. TargetOK'
    <3>1. wire' = <<>> /\ since' \in {"nothing", "ignored", "booted"} /\ NewTarget("booting")
      BY <1>3 DEF OpenHost, TypeOK, TargetOK
    <3> QED BY <1>2, <3>1, NewTargetType
  <2>3. (~handle' => wire' = <<>>) /\ UNCHANGED <<transport, sock>> /\ handle'
    BY <1>3 DEF OpenHost, confVars
  <2>4. call.op \in {"start", "reboot", "poweroff"} /\ transport # "serial"
        /\ window = <<>> /\ buf = <<>> /\ call # NoCall
    <3>1. pc = "open" /\ transport # "serial"
      BY <1>3 DEF OpenHost
    <3>2. call.op \in {"start", "reboot", "poweroff"}
      BY <1>1, <3>1 DEF PhaseOK, Pattern, Booting
    <3> QED BY <3>1, <3>2 DEF Shape
  <2>5. CASE ToBoot("settling")
    BY <1>1, <2>1, <2>2, <2>3, <2>4, <2>5, ToBootKeeps DEF TypeOK
  <2>6. CASE /\ transport = "socket" /\ pc' = "connect"
             /\ UNCHANGED <<call, window, buf, late, bootLate, coreVars>>
    <3>1. ThreadOK' /\ CoreOK'
      BY <2>6, TypeFrame DEF TypeOK, ThreadOK, Stages
    <3>2. PhaseOK'
      BY <1>1, <1>3, <2>3, <2>6 DEF OpenHost, PhaseOK, Pattern, Booting
    <3>3. Shape'
      BY <2>3, <2>4, <2>6, <3>2 DEF Shape
    <3> QED BY <2>1, <2>2, <3>1, <3>3 DEF TypeOK
  <2>7. ToBoot("settling") \/ /\ transport = "socket" /\ pc' = "connect"
                              /\ UNCHANGED <<call, window, buf, late, bootLate, coreVars>>
    BY <1>3, TransportAssumption DEF OpenHost, TypeOK, ConnOK
  <2> QED BY <2>5, <2>6, <2>7
<1>4. CASE Connect
  <2>1. handle /\ transport = "socket" /\ UNCHANGED <<wire, fault, restVars>>
        /\ sock' \in {sock, "open"} /\ pc = "connect"
    BY <1>4 DEF Connect, Shape
  <2>2. ConnOK' /\ TargetOK' /\ (~handle' => wire' = <<>>) /\ UNCHANGED transport
    BY <2>1 DEF TypeOK, ConnOK, TargetOK, restVars, confVars, targetVars
  <2>3. CASE ToBoot("settling")
    <3>1. call.op \in {"start", "reboot", "poweroff"}
      BY <1>1, <2>1 DEF PhaseOK, Pattern, Booting
    <3> QED BY <1>1, <2>1, <2>2, <2>3, <3>1, ToBootKeeps DEF TypeOK
  <2>4. CASE Return("raised", <<>>) /\ UNCHANGED <<sock, cores, listing>>
    <3>1. "raised" \in Statuses
      BY DEF Statuses
    <3> QED BY <1>1, <2>2, <2>4, <3>1, ReturnKeeps DEF TypeOK
  <2> QED BY <1>4, <2>3, <2>4 DEF Connect
<1>5. CASE OpenSerial
  <2>1. handle' = TRUE /\ transport = "serial" /\ call.op = "start"
        /\ UNCHANGED <<confVars, sock, opened, wire, since>>
    BY <1>5 DEF OpenSerial, Shape
  <2>2. ConnOK' /\ (~handle' => wire' = <<>>) /\ UNCHANGED transport
    <3>1. fault' \in BOOLEAN
      BY <1>5 DEF OpenSerial, TypeOK, ConnOK
    <3> QED BY <2>1, <3>1 DEF TypeOK, ConnOK, confVars
  <2>3. TargetOK'
    <3>1. CASE UNCHANGED targetVars
      BY <2>1, <3>1, TypeFrame
    <3>2. CASE NewTarget("booting")
      <4>1. since' \in {"nothing", "ignored", "booted"}
        BY <2>1 DEF TypeOK, TargetOK
      <4> QED BY <1>2, <2>1, <3>2, <4>1, NewTargetType
    <3> QED BY <1>5, <3>1, <3>2 DEF OpenSerial, BoardReset
  <2>4. PICK phase \in {"settling", "confirming"} : ToBoot(phase)
    BY <1>5 DEF OpenSerial
  <2> QED BY <1>1, <2>1, <2>2, <2>3, <2>4, ToBootKeeps DEF TypeOK
<1> QED BY <1>3, <1>4, <1>5

LEMMA CloseType ==
    ASSUME TypeOK, Shape,
           BootTimeout \/ AlreadyOpen \/ NothingToRun \/ SerialRaises \/ Kill
    PROVE  TypeOK' /\ Shape'
<1>1. pc # "idle" /\ call \in CallRecords /\ PhaseOK
  BY Active DEF BootTimeout, AlreadyOpen, NothingToRun, SerialRaises, Kill
<1>2. "raised" \in Statuses /\ "done" \in Statuses /\ (~handle => wire = <<>>)
  BY DEF Statuses, Shape
<1>3. CASE BootTimeout
  <2>1. UNCHANGED <<lineVars, restVars>> /\ pc = "boot" /\ BootEnds(FALSE)
    BY <1>3 DEF BootTimeout
  <2>2. ConnOK' /\ TargetOK'
    BY <2>1, TypeFrame DEF lineVars, restVars, confVars, connVars, targetVars
  <2>3. (~handle' => wire' = <<>>) /\ UNCHANGED transport
    BY <1>2, <2>1 DEF lineVars, restVars, confVars
  <2>4. call.phase \in {"settling", "confirming"}
    BY <1>1, <2>1 DEF PhaseOK, Pattern, Booting
  <2>5. ThreadOK' /\ CoreOK' /\ Shape'
    <3> HIDE DEF TypeOK, Shape
    <3> QED BY <2>1, <2>3, <2>4, BootEndsType
  <2> QED BY <2>2, <2>5 DEF TypeOK
<1>4. CASE AlreadyOpen \/ NothingToRun
  <2>1. /\ UNCHANGED <<lineVars, restVars, cores, listing>> /\ Return("raised", <<>>)
    BY <1>4 DEF AlreadyOpen, NothingToRun
  <2>2. ConnOK' /\ TargetOK'
    BY <2>1, TypeFrame DEF lineVars, restVars, confVars, connVars, targetVars
  <2>3. ~handle' => wire' = <<>>
    BY <1>2, <2>1 DEF lineVars, restVars
  <2> QED BY <1>1, <1>2, <2>1, <2>2, <2>3, ReturnKeeps DEF TypeOK
<1>5. CASE SerialRaises
  <2>1. /\ UNCHANGED <<confVars, sock, opened, fault, targetVars, wire, cores, listing, since>>
        /\ Return("raised", <<>>) /\ handle' \in {handle, handle \/ resets}
    BY <1>5 DEF SerialRaises
  <2>2. TargetOK'
    BY <2>1, TypeFrame
  <2>3. ConnOK'
    BY <2>1 DEF TypeOK, ConnOK, confVars
  <2>4. ~handle' => wire' = <<>>
    BY <1>2, <2>1
  <2> QED BY <1>1, <1>2, <2>1, <2>2, <2>3, <2>4, ReturnKeeps DEF TypeOK
<1>6. CASE Kill
  <2>1. /\ UNCHANGED <<confVars, sock, opened, fault, since>> /\ handle' = FALSE
        /\ wire' = <<>> /\ NewTarget("off") /\ pc = "kill"
    BY <1>6 DEF Kill
  <2>2. transport # "serial" /\ sock = "none" /\ call.phase = "stopping"
        /\ call.line = "poweroff" /\ call.op \in {"stop", "reboot", "poweroff"}
    BY <1>1, <2>1 DEF PhaseOK, Pattern, Booting
  <2>3. ConnOK'
    BY <2>1, <2>2 DEF TypeOK, ConnOK, confVars
  <2>4. TargetOK'
    <3>1. <<>> \in Seq(Tokens) /\ Len(<<>>) = 0 /\ Len(wire) \in Nat /\ since' \in {"nothing", "ignored", "booted"}
      BY <2>1, EmptySeq, LenProperties DEF TypeOK, TargetOK
    <3>2. wire' \in Seq(Tokens) /\ Len(wire') <= Len(wire)
      BY <2>1, <3>1
    <3> QED BY <2>1, <3>1, <3>2, NewTargetType
  <2>5. CASE Return("done", <<>>) /\ UNCHANGED <<cores, listing>>
    BY <1>1, <1>2, <2>1, <2>3, <2>4, <2>5, ReturnKeeps DEF TypeOK
  <2>6. CASE /\ pc' = "open" /\ UNCHANGED <<call, window, buf, late, bootLate, coreVars>>
             /\ call.op # "stop"
    <3>1. ThreadOK' /\ CoreOK'
      BY <2>6, TypeFrame DEF TypeOK, ThreadOK, Stages
    <3>2. window = <<>> /\ buf = <<>> /\ call # NoCall
      BY <2>1 DEF Shape
    <3>3. PhaseOK'
      BY <2>1, <2>2, <2>6 DEF PhaseOK, confVars
    <3>4. Shape'
      BY <2>1, <2>2, <2>6, <3>2, <3>3 DEF Shape, confVars
    <3> QED BY <2>3, <2>4, <3>1, <3>4 DEF TypeOK
  <2> QED BY <1>6, <2>5, <2>6 DEF Kill
<1> QED BY <1>3, <1>4, <1>5, <1>6

LEMMA DisownType ==
    ASSUME TypeOK, Disown, UNCHANGED <<shell, remote>>, since' \in {"nothing", "ignored", "booted"}
    PROVE  TargetOK' /\ (wire = <<>> => wire' = <<>>)
<1>1. wire \in Seq(Tokens) /\ toPrint \in Seq(Tokens)
      /\ Len(wire) <= MaxWire /\ Len(input) <= MaxInput
  BY DEF TypeOK, TargetOK
<1>2. /\ wire' \in Seq(Tokens) /\ Len(wire') = Len(wire)
      /\ wire = <<>> => wire' = <<>>
  BY <1>1, DisownedText DEF Disown
<1>3. toPrint' \in Seq(Tokens)
  BY <1>1, DisownedText DEF Disown
<1>4. input' \in Seq([own : BOOLEAN, line : Lines]) /\ Len(input') = Len(input)
  BY DisownedInput DEF Disown
<1> QED BY <1>1, <1>2, <1>3, <1>4 DEF TypeOK, TargetOK

LEMMA BeginType ==
    ASSUME TypeOK, Shape, NEW op \in Ops, NEW line \in Lines, NEW phase \in Phases,
           NEW stage \in Stages \ {"idle", "connect", "garbage"}, Begin(op, line, phase, stage),
           PhaseOK', ~handle' => wire' = <<>>,
           transport = "serial" =>
               /\ stage = "open" => op = "start"
               /\ op = "reboot" => phase = "confirming"
    PROVE  ThreadOK' /\ CoreOK' /\ Shape'
<1> DEFINE new == [op |-> op, line |-> line, phase |-> phase, quiet |-> Quiet]
<1>1. /\ pc = "idle" /\ pc' = stage /\ call' = new /\ ret' = NoRet
      /\ UNCHANGED <<transport, window, buf, late, bootLate, cores, listing>>
  BY DEF Begin, confVars
<1>2. Quiet \in BOOLEAN
  BY DEF Quiet
<1>3. new \in CallRecords /\ new # NoCall
  BY <1>2 DEF CallRecords, NoCall, Ops, Asks
<1>4. window = <<>> /\ buf = <<>>
  BY <1>1 DEF Shape
<1>5. new.op = op /\ new.phase = phase
  OBVIOUS
<1> HIDE DEF new
<1>6. ThreadOK'
  BY <1>1, <1>3 DEF TypeOK, ThreadOK
<1>7. CoreOK'
  BY <1>1 DEF TypeOK, CoreOK
<1>8. Shape'
  BY <1>1, <1>3, <1>4, <1>5 DEF Shape
<1> QED BY <1>6, <1>7, <1>8

LEMMA AtOnceType ==
    ASSUME TypeOK, Shape, NEW op \in Ops, NEW status \in Statuses,
           ReturnAtOnce(op, status)
    PROVE  TypeOK' /\ Shape'
<1>1. UNCHANGED <<lineVars, restVars, threadVars, cores, listing>>
      /\ ret' = Result(op, status, FALSE, <<>>)
  BY DEF ReturnAtOnce
<1>2. UNCHANGED <<confVars, connVars, fault, targetVars, wire, since>>
  BY <1>1 DEF lineVars, restVars, confVars, connVars, targetVars
<1>3. CoreOK'
  BY <1>1, ResultType DEF TypeOK, CoreOK
<1>4. Shape'
  BY <1>1, <1>2, TargetShape DEF confVars, connVars, threadVars
<1>5. ConnOK' /\ TargetOK' /\ ThreadOK'
  BY <1>1, <1>2, TypeFrame
<1> QED BY <1>3, <1>4, <1>5 DEF TypeOK

\* Calls that send a line, or that start.
LEMMA AskType ==
    ASSUME TypeOK, Shape, Ask \/ SwitchCore \/ Start \/ SoftReboot
    PROVE  TypeOK' /\ Shape'
<1>1. /\ Disown /\ UNCHANGED <<handle, sock, fault, shell, remote>>
      /\ since' \in {since, "nothing"}
  BY DEF Ask, SwitchCore, Start, SoftReboot
<1>2. PICK op \in Ops, line \in Lines, phase \in Phases, stage \in Stages :
          /\ Begin(op, line, phase, stage)
          /\ \/ phase = "asking" /\ op \in Asks /\ stage = "drain"
             \/ phase = "asking" /\ op = "read" /\ stage = "loop"
             \/ phase = "asking" /\ op = "switch" /\ stage = "drain"
             \/ op = "start" /\ phase = "settling" /\ line = "enter" /\ stage = "open"
             \/ op = "soft" /\ phase = "asking reboot" /\ line = "reboot" /\ stage = "drain"
  <2> USE DEF Ops, Lines, Phases, Stages, Asks
  <2>1. CASE Ask
    <3>1. \/ \E op \in {"ask", "expect", "info", "list"}, line \in {"known", "unknown"} :
                 Begin(op, line, "asking", "drain")
          \/ Begin("read", "enter", "asking", "loop")
      BY <2>1 DEF Ask
    <3>2. ASSUME NEW op \in {"ask", "expect", "info", "list"},
                 NEW line \in {"known", "unknown"},
                 Begin(op, line, "asking", "drain")
          PROVE  \E o \in Ops, l \in Lines, phase \in Phases, stage \in Stages :
                    Begin(o, l, phase, stage) /\ phase = "asking" /\ o \in Asks
                    /\ stage = "drain"
      BY <3>2
    <3> HIDE DEF Ops, Lines, Phases, Stages, Asks
    <3>3. "read" \in Ops /\ "enter" \in Lines /\ "asking" \in Phases /\ "loop" \in Stages
      BY DEF Ops, Lines, Phases, Stages
    <3> QED BY <3>1, <3>2, <3>3
  <2>2. CASE SwitchCore
    BY <2>2 DEF SwitchCore
  <2>3. CASE Start
    BY <2>3 DEF Start
  <2>4. CASE SoftReboot
    BY <2>4 DEF SoftReboot
  <2> QED BY <2>1, <2>2, <2>3, <2>4
<1>3. UNCHANGED confVars /\ UNCHANGED opened /\ pc' = stage
      /\ call' = [op |-> op, line |-> line, phase |-> phase, quiet |-> Quiet]
  BY <1>2 DEF Begin
<1>4. PhaseOK'
  <2>1. call'.op = op /\ call'.line = line /\ call'.phase = phase
    BY <1>3
  <2> QED BY <1>2, <1>3, <2>1 DEF PhaseOK, Pattern, Booting
<1>5. ConnOK'
  BY <1>1, <1>3 DEF TypeOK, ConnOK, confVars
<1>6. TargetOK' /\ (wire = <<>> => wire' = <<>>)
  <2>1. since' \in {"nothing", "ignored", "booted"}
    BY <1>1 DEF TypeOK, TargetOK
  <2> QED BY <1>1, <2>1, DisownType
<1>7. ~handle' => wire' = <<>>
  BY <1>1, <1>6 DEF Shape
<1>8. stage \notin {"idle", "connect", "garbage"} /\ (stage = "open" => op = "start") /\ op # "reboot"
  BY <1>2 DEF Asks
<1> QED BY <1>2, <1>4, <1>5, <1>6, <1>7, <1>8, BeginType DEF TypeOK

LEMMA RestartType ==
    ASSUME TypeOK, Shape, NEW op \in {"stop", "reboot", "poweroff"},
           \/ StopEmulator(op) /\ since' \in {since, "nothing"}
           \/ op # "stop" /\ Restart(op)
    PROVE  TypeOK' /\ Shape'
<1>1. op \in Ops /\ since' \in {"nothing", "ignored", "booted"}
  BY DEF Ops, Restart, TypeOK, TargetOK
<1>2. CASE StopEmulator(op)
  <2>1. /\ transport # "serial" /\ handle /\ sock' = "none" /\ Disown
        /\ UNCHANGED <<handle, fault, shell, remote>>
    BY <1>2 DEF StopEmulator
  <2>2. PICK stage \in {"drain", "kill"} : Begin(op, "poweroff", "stopping", stage)
    BY <1>2 DEF StopEmulator
  <2>3. /\ "poweroff" \in Lines /\ "stopping" \in Phases
        /\ stage \in Stages \ {"idle", "connect", "garbage"}
    BY DEF Lines, Phases, Stages
  <2>4. UNCHANGED <<confVars, opened>> /\ pc' = stage
        /\ call' = [op |-> op, line |-> "poweroff", phase |-> "stopping", quiet |-> Quiet]
    BY <2>2 DEF Begin
  <2>5. PhaseOK'
    <3>1. call'.op = op /\ call'.line = "poweroff" /\ call'.phase = "stopping"
      BY <2>4
    <3> QED BY <2>1, <2>4, <3>1 DEF PhaseOK, confVars
  <2>6. ConnOK'
    BY <2>1, <2>4 DEF TypeOK, ConnOK, confVars
  <2>7. TargetOK'
    BY <1>1, <2>1, DisownType
  <2> QED BY <1>1, <2>1, <2>2, <2>3, <2>5, <2>6, <2>7, BeginType DEF TypeOK
<1>3. CASE op # "stop" /\ Restart(op) /\ ~StopEmulator(op)
  <2>1. /\ Begin(op, "enter", "settling", "open") /\ transport # "serial" /\ ~handle
        /\ UNCHANGED <<handle, lineVars, targetVars>>
    BY <1>3 DEF Restart
  <2>2. /\ "enter" \in Lines /\ "settling" \in Phases
        /\ "open" \in Stages \ {"idle", "connect", "garbage"}
    BY DEF Lines, Phases, Stages
  <2>3. UNCHANGED <<confVars, opened>> /\ pc' = "open"
        /\ call' = [op |-> op, line |-> "enter", phase |-> "settling", quiet |-> Quiet]
    BY <2>1 DEF Begin
  <2>4. PhaseOK'
    <3>1. call'.op = op /\ call'.line = "enter" /\ call'.phase = "settling"
      BY <2>3
    <3> QED BY <1>3, <2>3, <3>1 DEF PhaseOK
  <2>5. ConnOK' /\ (~handle' => wire' = <<>>)
    BY <2>1, <2>3 DEF TypeOK, ConnOK, confVars, lineVars, Shape
  <2>6. TargetOK'
    BY <1>1, <2>1 DEF TypeOK, TargetOK, lineVars, targetVars
  <2> QED BY <1>1, <2>1, <2>2, <2>4, <2>5, <2>6, BeginType DEF TypeOK
<1> QED BY <1>2, <1>3

\* Calls that are over when they return, and the reset of a board.
LEMMA ResetType ==
    ASSUME TypeOK, Shape, ForcePanic \/ Stop \/ ResetSerial \/ PoweroffSerial
    PROVE  TypeOK' /\ Shape'
<1>1. <<>> \in Seq(Tokens) /\ Len(<<>>) = 0 /\ Len(wire) \in Nat /\ wire \in Seq(Tokens)
      /\ 0 <= Len(wire) /\ Len(wire) <= Len(wire) /\ since \in {"nothing", "ignored", "booted"}
  BY EmptySeq, LenProperties DEF TypeOK, TargetOK
<1>2. {"panic", "stop", "poweroff", "reboot"} \subseteq Ops
      /\ {"TRUE", "FALSE", "done"} \subseteq Statuses
  BY DEF Ops, Statuses
<1>3. CASE \E op \in {"panic", "stop"}, status \in {"TRUE", "FALSE", "done"} :
              ReturnAtOnce(op, status)
  BY <1>2, <1>3, AtOnceType
<1>4. CASE /\ DevIsHealth /\ Panics /\ ret' = Result("panic", "TRUE", FALSE, <<>>)
           /\ UNCHANGED <<confVars, connVars, fault, wire, threadVars, cores, listing, since>>
  <2>1. TargetOK'
    <3>1. toPrint' \in Seq(Tokens) /\ input' = <<>> /\ shell' = "crashed"
          /\ UNCHANGED <<remote, wire, since>>
      BY <1>4, PanicText DEF Panics
    <3>2. input' \in Seq([own : BOOLEAN, line : Lines]) /\ Len(input') <= MaxInput
      BY <3>1, EmptySeq, SizeTypes
    <3> QED BY <3>1, <3>2 DEF TypeOK, TargetOK
  <2>2. CoreOK'
    BY <1>2, <1>4, ResultType DEF TypeOK, CoreOK
  <2>3. ConnOK' /\ ThreadOK'
    BY <1>4, TypeFrame
  <2>4. Shape'
    BY <1>4, TargetShape DEF confVars, connVars, threadVars
  <2> QED BY <2>1, <2>2, <2>3, <2>4 DEF TypeOK
<1>5. CASE StopEmulator("stop") /\ since' = "nothing"
  BY <1>5, RestartType
<1>6. CASE /\ transport = "serial" /\ handle /\ pc = "idle"
           /\ handle' = FALSE /\ wire' = <<>>
           /\ ret' = Result("stop", "done", FALSE, <<>>)
           /\ UNCHANGED <<confVars, sock, opened, fault, targetVars, threadVars,
                          cores, listing, since>>
  <2>1. ConnOK'
    BY <1>6 DEF TypeOK, ConnOK, confVars
  <2>2. TargetOK'
    BY <1>1, <1>6, SizeTypes DEF TypeOK, TargetOK, targetVars
  <2>3. ThreadOK'
    BY <1>6, TypeFrame
  <2>4. CoreOK'
    BY <1>2, <1>6, ResultType DEF TypeOK, CoreOK
  <2>5. Shape'
    BY <1>6 DEF Shape, threadVars, confVars, NoCall
  <2> QED BY <2>1, <2>2, <2>3, <2>4, <2>5 DEF TypeOK
<1>7. CASE ResetSerial
  <2>1. /\ transport = "serial" /\ Begin("reboot", "enter", "confirming", "boot")
        /\ fault' = FALSE
        /\ UNCHANGED <<handle, sock>>
        /\ wire' = [i \in DOMAIN wire |-> [wire[i] EXCEPT !.own = FALSE]]
        /\ since' \in {"nothing", "ignored"}
        /\ NewTarget("booting") \/ (Disown /\ UNCHANGED <<shell, remote>>)
    BY <1>7 DEF ResetSerial, Disown
  <2>2. wire' \in Seq(Tokens) /\ Len(wire') = Len(wire) /\ (wire = <<>> => wire' = <<>>)
    BY <1>1, <2>1, DisownedText
  <2>3. TargetOK'
    BY <1>1, <2>1, <2>2, NewTargetType, DisownType
  <2>4. UNCHANGED <<confVars, opened>> /\ pc' = "boot"
        /\ call' = [op |-> "reboot", line |-> "enter", phase |-> "confirming",
                    quiet |-> Quiet]
    BY <2>1 DEF Begin
  <2>5. PhaseOK'
    <3>1. call'.op = "reboot" /\ call'.line = "enter" /\ call'.phase = "confirming"
      BY <2>4
    <3> QED BY <2>4, <3>1 DEF PhaseOK, Booting
  <2>6. ConnOK' /\ (~handle' => wire' = <<>>)
    BY <2>1, <2>2, <2>4 DEF TypeOK, ConnOK, confVars, Shape
  <2>7. "enter" \in Lines /\ "confirming" \in Phases /\ "reboot" \in Ops
        /\ "boot" \in Stages \ {"idle", "connect", "garbage"}
    BY DEF Lines, Phases, Stages, Ops
  <2> QED BY <2>1, <2>3, <2>5, <2>6, <2>7, BeginType DEF TypeOK
<1>8. CASE PoweroffSerial
  <2>1. /\ NewTarget("off") \/ UNCHANGED targetVars
        /\ fault' = FALSE
        /\ ret' = Result("poweroff", "TRUE", FALSE, <<>>)
        /\ UNCHANGED <<confVars, connVars, wire, threadVars, cores, listing, since>>
    BY <1>8 DEF PoweroffSerial, BoardReset
  <2>2. TargetOK'
    BY <1>1, <2>1, NewTargetType, TypeFrame DEF coreVars
  <2>3. CoreOK'
    BY <1>2, <2>1, ResultType DEF TypeOK, CoreOK
  <2>4. ConnOK' /\ ThreadOK'
    BY <2>1, TypeFrame DEF TypeOK, ConnOK, confVars, connVars
  <2>5. Shape'
    BY <2>1, TargetShape DEF confVars, connVars, threadVars
  <2> QED BY <2>2, <2>3, <2>4, <2>5 DEF TypeOK
<1> QED BY <1>3, <1>4, <1>5, <1>6, <1>7, <1>8
        DEF ForcePanic, Stop, ResetSerial, PoweroffSerial

LEMMA CallsType ==
    ASSUME TypeOK, Shape, Calls
    PROVE  TypeOK' /\ Shape'
<1>1. CASE Ask \/ SwitchCore \/ Start \/ SoftReboot
  BY <1>1, AskType
<1>2. CASE LineTooLong \/ CachedList \/ SwitchNowhere
           \/ RestartRefused("reboot") \/ RestartRefused("poweroff")
  <2>1. PICK op \in Ops, status \in Statuses : ReturnAtOnce(op, status)
    BY <1>2 DEF LineTooLong, CachedList, SwitchNowhere, RestartRefused, Ops, Asks,
                Statuses
  <2> QED BY <2>1, AtOnceType
<1>3. CASE Restart("reboot") \/ Restart("poweroff")
  BY <1>3, RestartType
<1>4. CASE ForcePanic \/ Stop \/ ResetSerial \/ PoweroffSerial
  BY <1>4, ResetType
<1> QED BY <1>1, <1>2, <1>3, <1>4 DEF Calls

LEMMA TypeStep ==
    ASSUME TypeOK, Shape, [Next]_vars
    PROVE  TypeOK' /\ Shape'
<1>1. CASE Calls
  BY <1>1, CallsType
<1>2. CASE CallStep
  BY <1>2, LineType, WriteType, PatternType, ResponseType, OpenType, CloseType DEF CallStep
<1>3. CASE Environment
  BY <1>3, EnvironmentType
<1>4. CASE UNCHANGED vars
  <2>1. Shape'
    BY <1>4, TargetShape DEF vars, confVars, connVars, threadVars
  <2> QED BY <1>4, <2>1, TypeFrame DEF vars, TypeOK
<1> QED BY <1>1, <1>2, <1>3, <1>4 DEF Next

LEMMA TypeInit == Init => TypeOK /\ Shape
<1> SUFFICES ASSUME Init PROVE TypeOK /\ Shape
  OBVIOUS
<1>1. /\ <<>> \in Seq(Tokens) /\ <<>> \in Seq([own : BOOLEAN, line : Lines])
      /\ Len(<<>>) = 0
  BY EmptySeq
<1>2. ConnOK
  BY DEF Init, ConnOK
<1>3. TargetOK
  <2>1. 0 <= MaxInput /\ 0 <= MaxWire
    BY SizeTypes
  <2>2. input = <<>> /\ toPrint = <<>> /\ wire = <<>> /\ Len(input) = 0 /\ Len(wire) = 0
    BY <1>1 DEF Init
  <2>3. Len(input) <= MaxInput /\ Len(wire) <= MaxWire
    BY <2>1, <2>2
  <2>4. input \in Seq([own : BOOLEAN, line : Lines]) /\ toPrint \in Seq(Tokens)
        /\ wire \in Seq(Tokens)
    BY <1>1, <2>2
  <2>5. shell \in {"off", "booting", "ready", "crashed"} /\ remote \in BOOLEAN
        /\ since \in {"nothing", "ignored", "booted"}
    BY DEF Init
  <2> QED BY <2>3, <2>4, <2>5 DEF TargetOK
<1>4. ThreadOK
  BY <1>1 DEF Init, ThreadOK, Stages
<1>5. CoreOK
  BY DEF Init, CoreOK
<1>6. Shape
  BY DEF Init, Shape, NoCall
<1> QED BY <1>2, <1>3, <1>4, <1>5, <1>6 DEF TypeOK

(* Every reachable state has the declared types, whatever the transports,   *)
(* the sizes of buffers and queues and the operations of callers (the state *)
(* of DeviceCommon, its transports and ProductCore).                        *)
THEOREM LineTypeCorrect == Spec => []TypeOK
<1>1. TypeOK /\ Shape /\ [Next]_vars => (TypeOK /\ Shape)'
  BY TypeStep
<1> QED BY <1>1, TypeInit, PTL DEF Spec

-----------------------------------------------------------------------------
(* A reboot that is reported has happened. *)

\* Only a healthy device has something to read, and no read heals one.
LEMMA ReadHealth ==
    ASSUME Read, UNCHANGED restVars
    PROVE  DevIsHealth' => DevIsHealth
BY DEF Read, restVars, confVars, targetVars, DevIsHealth, TransportOK, Alive

\* A read leaves no prompt on the wire, and but in a drain it takes none.
LEMMA ReadPrompts ==
    ASSUME TypeOK, Read, DevIsHealth => Clear
    PROVE  /\ DevIsHealth => \A i \in DOMAIN wire' : wire'[i].part # "prompt"
           /\ pc \notin {"boot", "drain"} => NoPrompt(Chunk)
<1>1. wire' = Rest
  BY DEF Read, Rest
<1>2. /\ \A i \in DOMAIN Chunk : i \in DOMAIN wire /\ Chunk[i] = wire[i]
      /\ \A i \in DOMAIN Rest : i \in Nat \ {0} /\ i + Len(Chunk) \in DOMAIN wire
                                /\ Rest[i] = wire[i + Len(Chunk)]
      /\ DevIsHealth => \A i \in DOMAIN Rest : Len(Chunk) = ChunkMax
      /\ ~DevIsHealth => Chunk = <<>>
  BY ChunkTaken
<1>3. ASSUME DevIsHealth, NEW i \in DOMAIN Rest PROVE Rest[i].part # "prompt"
  <2>1. i \in Nat \ {0} /\ Len(Chunk) = ChunkMax /\ Rest[i] = wire[i + ChunkMax]
        /\ i + ChunkMax \in DOMAIN wire
    BY <1>2, <1>3
  <2>2. ~(i + ChunkMax <= ChunkMax)
    BY <2>1, SizeTypes
  <2>3. \A j \in DOMAIN wire : wire[j].part = "prompt" => j <= ChunkMax
    BY <1>3 DEF Clear
  <2> QED BY <2>1, <2>2, <2>3
<1>4. pc \notin {"boot", "drain"} => NoPrompt(Chunk)
  <2>1. CASE DevIsHealth
    BY <1>2, <2>1 DEF Clear, NoPrompt
  <2>2. CASE ~DevIsHealth
    <3>1. Chunk = <<>>
      BY <1>2, <2>2
    <3>2. \A i \in DOMAIN <<>> : FALSE
      OBVIOUS
    <3> QED BY <3>1, <3>2 DEF NoPrompt
  <2> QED BY <2>1, <2>2
<1> QED BY <1>1, <1>3, <1>4

LEMMA NoPromptConcat ==
    ASSUME NEW s \in Seq(Tokens), NEW t \in Seq(Tokens), NoPrompt(s), NoPrompt(t)
    PROVE  NoPrompt(s \o t)
<1>1. /\ Len(s) \in Nat /\ Len(t) \in Nat
      /\ DOMAIN s = 1..Len(s) /\ DOMAIN t = 1..Len(t)
      /\ s \o t \in Seq(Tokens) /\ Len(s \o t) = Len(s) + Len(t)
      /\ \A i \in 1..(Len(s) + Len(t)) :
            (s \o t)[i] = IF i <= Len(s) THEN s[i] ELSE t[i - Len(s)]
  BY LenProperties, ConcatProperties
<1>2. DOMAIN (s \o t) = 1..(Len(s) + Len(t))
  BY <1>1, LenProperties
<1>3. ASSUME NEW i \in 1..(Len(s) + Len(t)) PROVE (s \o t)[i].part # "prompt"
  <2>1. CASE i <= Len(s)
    <3>1. i \in 1..Len(s)
      BY <1>1, <2>1
    <3> QED BY <1>1, <2>1, <3>1 DEF NoPrompt
  <2>2. CASE ~(i <= Len(s))
    <3>1. i - Len(s) \in 1..Len(t)
      BY <1>1, <2>2
    <3> QED BY <1>1, <2>2, <3>1 DEF NoPrompt
  <2> QED BY <2>1, <2>2
<1> QED BY <1>2, <1>3 DEF NoPrompt

LEMMA RebootEnvironment ==
    ASSUME TypeOK, Shape, RebootInv, Environment
    PROVE  RebootInv'
<1>1. UNCHANGED <<confVars, handle, fault, pc, call, window, coreVars>>
      /\ \/ since' \in {since, "booted"}
         \/ since = "nothing" /\ since' = "ignored" /\ call.op = "soft"
  BY DEF Environment, TargetBoots, TargetPrints, TargetExecutes, TargetRefuses,
     TargetCrashes, EmulatorFails, TimePasses, BootTimePasses, connVars, threadVars
<1>2. RebootIsReal' /\ Heeded'
  BY <1>1 DEF RebootInv, RebootIsReal, Heeded, coreVars, confVars
<1>3. SUFFICES ASSUME Rebooting', since' = "nothing"
               PROVE  NoPrompt(window)' /\ (DevIsHealth' \/ pc' = "connect" => Clear')
  BY <1>2 DEF RebootInv
<1>4. Rebooting /\ since = "nothing" /\ since' = "nothing" /\ ~TargetBoots
  <2>1. Rebooting
    BY <1>1, <1>3 DEF Rebooting, confVars
  <2>2. ~TargetBoots
    BY <2>1, <1>3 DEF TargetBoots, Rebooting
  <2>3. since = "nothing"
    BY <1>1, <1>3 DEF TypeOK, TargetOK
  <2> QED BY <1>3, <2>1, <2>2, <2>3
<1>5. NoPrompt(window) /\ (DevIsHealth \/ pc = "connect" => Clear)
  BY <1>4 DEF RebootInv
<1>6. NoPrompt(window)'
  BY <1>1, <1>5
<1>7. (DevIsHealth' \/ pc' = "connect") => (DevIsHealth \/ pc = "connect")
  BY <1>1 DEF Environment, TargetBoots, TargetPrints, TargetExecutes, TargetRefuses,
     TargetCrashes, EmulatorFails, TimePasses, BootTimePasses, Panics, DevIsHealth, TransportOK,
     Alive, confVars, connVars, targetVars
<1>8. SUFFICES ASSUME Clear PROVE Clear'
  BY <1>5, <1>6, <1>7
<1>9. CASE TargetPrints
  <2>1. Head(toPrint) \in Tokens /\ Tail(toPrint) \in Seq(Tokens)
        /\ Len(Tail(toPrint)) = Len(toPrint) - 1 /\ Len(toPrint) \in Nat \ {0}
        /\ Head(toPrint) = toPrint[1] /\ 1 \in DOMAIN toPrint
        /\ \A i \in 1..(Len(toPrint) - 1) : Tail(toPrint)[i] = toPrint[i + 1]
    BY <1>9, HeadTailProperties, EmptySeq, LenProperties DEF TargetPrints, TypeOK, TargetOK
  <2>2. NoPrompt(toPrint)'
    <3>1. DOMAIN Tail(toPrint) = 1..(Len(toPrint) - 1) /\ DOMAIN toPrint = 1..Len(toPrint)
      BY <2>1, LenProperties DEF TypeOK, TargetOK
    <3>2. \A i \in 1..(Len(toPrint) - 1) : i + 1 \in 1..Len(toPrint)
      BY <2>1
    <3> QED BY <1>8, <1>9, <2>1, <3>1, <3>2 DEF TargetPrints, Clear, NoPrompt
  <2>3. Head(toPrint).part # "prompt"
    BY <1>8, <2>1 DEF Clear, NoPrompt
  <2>4. ASSUME NEW i \in DOMAIN wire', wire'[i].part = "prompt"
        PROVE  pc \in {"boot", "drain"} /\ i <= ChunkMax
    <3>1. CASE wire' = wire
      BY <1>8, <2>4, <3>1 DEF Clear
    <3>2. CASE wire' = Append(wire, Head(toPrint))
      <4> DEFINE new == Append(wire, Head(toPrint))
      <4>1. /\ Len(wire) \in Nat /\ DOMAIN wire = 1..Len(wire)
            /\ DOMAIN new = 1..(Len(wire) + 1)
            /\ \A j \in 1..Len(wire) : new[j] = wire[j]
            /\ new[Len(wire) + 1] = Head(toPrint)
        BY <2>1, AppendProperties, LenProperties DEF TypeOK, TargetOK
      <4> HIDE DEF new
      <4>2. wire' = new
        BY <3>2 DEF new
      <4>3. i \in 1..Len(wire) \/ i = Len(wire) + 1
        BY <2>4, <4>1, <4>2
      <4> QED BY <1>8, <2>3, <2>4, <4>1, <4>2, <4>3 DEF Clear
    <3> QED BY <1>9, <3>1, <3>2 DEF TargetPrints
  <2>5. Mute'
    BY <1>1, <1>8, <1>9 DEF TargetPrints, Clear, Mute
  <2> QED BY <1>1, <2>2, <2>4, <2>5 DEF Clear
<1>10. CASE TargetExecutes
  <2> DEFINE cmd == Head(input)
             parts == Answer(cmd.line)
             text == [i \in DOMAIN parts |-> [own |-> cmd.own, part |-> parts[i]]]
             gone == cmd.line \in {"poweroff", "reboot"} /\ ~remote
  <2>1. shell = "ready" /\ input # <<>> /\ wire' = wire
        /\ shell' = (IF ~gone THEN "ready" ELSE IF cmd.line = "poweroff" THEN "off" ELSE "booting")
        /\ remote' = (remote \/ cmd.line = "cu")
        /\ toPrint' = IF gone THEN <<>> ELSE text
    BY <1>10 DEF TargetExecutes
  <2>2. cmd \in [own : BOOLEAN, line : Lines] /\ remote \in BOOLEAN
    BY <2>1, HeadTailProperties DEF TypeOK, TargetOK
  <2>3. remote \/ cmd.line = "reboot"
    BY <1>8, <2>1 DEF Clear, Mute
  <2>4. Mute'
    BY <2>1, <2>3 DEF Mute
  <2>5. NoPrompt(toPrint)'
    <3>1. remote => \A i \in DOMAIN text : text[i].part # "prompt"
      BY <2>2, AnswerText
    <3>2. \A i \in DOMAIN <<>> : FALSE
      OBVIOUS
    <3> HIDE DEF text
    <3> QED BY <2>1, <2>3, <3>1, <3>2 DEF NoPrompt
  <2> QED BY <1>1, <1>8, <2>1, <2>4, <2>5 DEF Clear
<1>11. CASE TargetCrashes
  <2>1. NoPrompt(toPrint)'
    BY <1>11, PanicText DEF TargetCrashes, NoPrompt
  <2>2. Mute' /\ wire' = wire
    BY <1>11 DEF TargetCrashes, Panics, Mute
  <2> QED BY <1>1, <1>8, <2>1, <2>2 DEF Clear
<1>12. CASE EmulatorFails
  <2>1. /\ wire' = wire /\ UNCHANGED remote
        /\ (shell' = "off" /\ toPrint' = <<>>) \/ UNCHANGED <<shell, input, toPrint>>
    BY <1>12 DEF EmulatorFails
  <2>2. \A i \in DOMAIN <<>> : FALSE
    OBVIOUS
  <2>3. NoPrompt(toPrint)'
    BY <1>8, <2>1, <2>2 DEF Clear, NoPrompt
  <2>4. Mute'
    BY <1>1, <1>8, <2>1 DEF Clear, Mute
  <2> QED BY <1>1, <1>8, <2>1, <2>3, <2>4 DEF Clear
<1>13. CASE TimePasses \/ BootTimePasses
  BY <1>1, <1>8, <1>13 DEF TimePasses, BootTimePasses, targetVars, Clear, Mute, NoPrompt
<1>14. ~TargetRefuses
  <2>1. SUFFICES ASSUME TargetRefuses PROVE FALSE
    OBVIOUS
  <2>2. call.op = "soft"
    BY <1>8, <2>1 DEF TargetRefuses, Clear, Mute
  <2> QED BY <1>4, <2>1, <2>2 DEF TargetRefuses
<1> QED BY <1>4, <1>9, <1>10, <1>11, <1>12, <1>13, <1>14 DEF Environment

LEMMA RebootReads ==
    ASSUME TypeOK, Shape, RebootInv,
           Drain \/ DropEcho \/ ReadFirst \/ ReadOn \/ ReadEnds
             \/ GivesUpOrReadsOn \/ FlushAgain \/ AskForPrompt
    PROVE  RebootInv'
<1>1. UNCHANGED <<call, coreVars, restVars>> /\ pc # "idle"
      /\ pc' \notin {"open", "connect"}
  BY DEF Drain, DropEcho, ReadFirst, ReadOn, ReadEnds, GivesUpOrReadsOn,
     FlushAgain, AskForPrompt, GoTo
<1>2. RebootIsReal' /\ Heeded'
  BY <1>1 DEF RebootInv, RebootIsReal, Heeded, coreVars, restVars, confVars
<1>3. SUFFICES ASSUME Rebooting', since' = "nothing"
               PROVE  NoPrompt(window)' /\ (DevIsHealth' => Clear')
  BY <1>1, <1>2 DEF RebootInv
<1>4. call.op \in {"reboot", "soft"}
  BY <1>1, <1>3 DEF Rebooting
<1>5. call.phase # "asking" /\ pc \notin {"loop", "first", "check", "flush"} /\ PhaseOK
  BY <1>1, <1>4, Active DEF PhaseOK, Asks, Booting
<1>6. Drain \/ DropEcho \/ (pc = "read" /\ ReadOn) \/ AskForPrompt
  BY <1>5 DEF ReadFirst, ReadEnds, ReadOn, GivesUpOrReadsOn, FlushAgain
<1>7. pc \notin {"open", "connect"}
  BY <1>6 DEF Drain, DropEcho, AskForPrompt
<1>8. Rebooting /\ since = "nothing"
  BY <1>1, <1>3, <1>7 DEF Rebooting, restVars, confVars
<1>9. NoPrompt(window) /\ (DevIsHealth => Clear)
  BY <1>8 DEF RebootInv
<1>10. CASE AskForPrompt
  <2>1. UNCHANGED <<lineVars, window>> /\ pc = "boot" /\ pc' = "drain"
    BY <1>10 DEF AskForPrompt, GoTo
  <2>2. DevIsHealth' => DevIsHealth
    BY <1>1, <2>1 DEF lineVars, restVars, confVars, targetVars, DevIsHealth,
       TransportOK, Alive
  <2>3. Clear => Clear'
    BY <1>1, <2>1 DEF lineVars, restVars, targetVars, Clear, NoPrompt, Mute
  <2>4. NoPrompt(window)'
    BY <1>9, <2>1
  <2> QED BY <1>9, <2>2, <2>3, <2>4
<1>11. CASE Drain \/ DropEcho \/ (pc = "read" /\ ReadOn)
  <2>1. Read /\ UNCHANGED restVars
    BY <1>1, <1>11 DEF Drain, DropEcho, ReadOn
  <2>2. DevIsHealth' => DevIsHealth
    BY <2>1, ReadHealth
  <2>3. /\ DevIsHealth => \A i \in DOMAIN wire' : wire'[i].part # "prompt"
        /\ pc \notin {"boot", "drain"} => NoPrompt(Chunk)
    BY <1>9, <2>1, ReadPrompts
  <2>4. Mute => Mute'
    <3>1. UNCHANGED <<shell, remote, input, call>>
      BY <1>1 DEF restVars, targetVars
    <3>2. pc \in {"drain", "write"} => pc' \in {"drain", "write"}
      BY <1>11 DEF Drain, DropEcho, GoTo
    <3> QED BY <3>1, <3>2 DEF Mute
  <2>5. DevIsHealth' => Clear'
    BY <1>1, <1>9, <2>2, <2>3, <2>4 DEF Clear, restVars, targetVars, NoPrompt
  <2>6. NoPrompt(window)'
    <3>1. CASE pc = "read" /\ ReadOn
      <4>1. window \in Seq(Tokens) /\ Chunk \in Seq(Tokens)
        BY ChunkTaken DEF TypeOK, ThreadOK
      <4>2. NoPrompt(window \o Chunk)
        BY <1>9, <2>3, <3>1, <4>1, NoPromptConcat
      <4> QED BY <3>1, <4>2 DEF ReadOn
    <3>2. CASE Drain \/ DropEcho
      BY <1>9, <3>2 DEF Drain, DropEcho
    <3> QED BY <1>11, <3>1, <3>2
  <2> QED BY <2>5, <2>6
<1> QED BY <1>6, <1>10, <1>11

LEMMA RebootWrite ==
    ASSUME TypeOK, Shape, RebootInv, Write
    PROVE  RebootInv'
<1>1. /\ UNCHANGED <<confVars, connVars, fault, shell, remote, toPrint, wire, call,
                     window, buf, late, bootLate, coreVars, since>>
      /\ pc = "write" /\ pc' \in {"garbage", "first", "read"}
  BY DEF Write
<1>2. RebootIsReal' /\ Heeded'
  BY <1>1 DEF RebootInv, RebootIsReal, Heeded, coreVars, confVars
<1>3. SUFFICES ASSUME Rebooting', since' = "nothing"
               PROVE  NoPrompt(window)' /\ (DevIsHealth' => Clear')
  BY <1>1, <1>2 DEF RebootInv
<1>4. Rebooting /\ since = "nothing"
  BY <1>1, <1>3 DEF Rebooting, confVars
<1>5. NoPrompt(window) /\ (DevIsHealth => Clear)
  BY <1>4 DEF RebootInv
<1>6. DevIsHealth' = DevIsHealth
  BY <1>1 DEF DevIsHealth, TransportOK, Alive, confVars, connVars
<1>7. SUFFICES ASSUME DevIsHealth, Clear PROVE Mute' /\ \A i \in DOMAIN wire : wire[i].part # "prompt"
  BY <1>1, <1>5, <1>6 DEF Clear, NoPrompt
<1>8. \A i \in DOMAIN wire : wire[i].part # "prompt"
  BY <1>1, <1>7 DEF Clear
<1>9. SUFFICES ASSUME shell = "ready", ~remote PROVE input' # <<>> /\ Head(input').line = "reboot"
  BY <1>1, <1>7, <1>8 DEF Clear, Mute
<1> DEFINE R == [own : BOOLEAN, line : Lines]
           line == [own |-> TRUE, line |-> call.line]
<1>10. line \in R /\ line.line = call.line /\ input \in Seq(R)
  BY <1>1, Active DEF CallRecords, TypeOK, TargetOK
<1>11. input' = Append(input, line) \/ (input' = input /\ Len(input) = MaxInput)
  BY <1>7, <1>9 DEF Write
<1> HIDE DEF R, line
<1>12. CASE input = <<>>
  <2>1. call.line = "reboot"
    <3>1. call.phase = "asking reboot"
      BY <1>7, <1>9, <1>12 DEF Clear, Mute
    <3> QED BY <1>1, <3>1, Active DEF PhaseOK
  <2>2. Len(input) # MaxInput
    BY <1>12, EmptySeq, SizeTypes
  <2>3. input' = <<line>>
    BY <1>10, <1>11, <1>12, <2>2
  <2> QED BY <1>10, <2>1, <2>3
<1>13. CASE input # <<>>
  <2>1. Head(input).line = "reboot"
    BY <1>7, <1>9, <1>13 DEF Clear, Mute
  <2>2. Len(input) \in Nat \ {0} /\ DOMAIN input = 1..Len(input)
    BY <1>10, <1>13, EmptySeq, LenProperties
  <2>3. Append(input, line) \in Seq(R) /\ Append(input, line)[1] = input[1]
        /\ Append(input, line) # <<>>
    BY <1>10, <2>2, AppendProperties
  <2>4. Head(Append(input, line)) = Head(input)
    BY <1>10, <1>13, <2>3, HeadTailProperties
  <2> QED BY <1>11, <1>13, <2>1, <2>3, <2>4
<1> QED BY <1>12, <1>13

LEMMA RebootReturn ==
    ASSUME NEW status, NEW output, Return(status, output), UNCHANGED transport,
           call.op \in {"reboot", "soft"} /\ status = "TRUE" =>
              IF call.op = "reboot" /\ transport # "serial"
                THEN since' = "booted" ELSE call.quiet => since' # "nothing"
    PROVE  RebootInv'
<1>1. pc' = "idle" /\ call' = NoCall
      /\ ret'.op = call.op /\ ret'.status = status /\ ret'.quiet = call.quiet
  BY DEF Return, Result
<1>2. call'.op = "none"
  BY <1>1 DEF NoCall
<1>3. ~Rebooting'
  BY <1>2 DEF Rebooting
<1>4. RebootIsReal'
  BY <1>1 DEF RebootIsReal
<1> QED BY <1>2, <1>3, <1>4 DEF RebootInv, Heeded

LEMMA RebootPattern ==
    ASSUME TypeOK, Shape, RebootInv, Matches \/ FlushEnds
    PROVE  RebootInv'
<1>1. pc \in {"check", "flush"} /\ UNCHANGED restVars
      /\ \E status : Return(status, buf)
  BY DEF Matches, FlushEnds
<1>2. call.op \notin {"reboot", "soft"}
  BY <1>1, Active DEF PhaseOK, Booting, Asks
<1> QED BY <1>1, <1>2, RebootReturn DEF restVars, confVars

(* The wait for the boot ends: with a prompt only if the target of a reboot *)
(* has booted.                                                             *)
LEMMA RebootFinished ==
    ASSUME TypeOK, Shape, RebootInv, NEW booted \in BOOLEAN, BootEnds(booted),
           pc \in {"read", "boot"}, UNCHANGED <<confVars, since>>,
           booted => ~(Rebooting /\ since = "nothing")
    PROVE  RebootInv'
<1>1. PhaseOK /\ call \in CallRecords
  BY Active
<1>2. call.op = "reboot" /\ transport # "serial"
        /\ call.phase \in {"settling", "confirming"} => Rebooting
  BY DEF Rebooting
<1>3. CASE /\ call.phase = "confirming" /\ call.op # "start"
           /\ Return(IF booted THEN "TRUE" ELSE "FALSE", <<>>)
  <2>1. /\ call.op \in {"reboot", "soft"} /\ booted
        /\ call.quiet \/ (call.op = "reboot" /\ transport # "serial")
        => since' # "nothing"
    BY <1>2, <1>3 DEF Rebooting
  <2>2. call.op = "reboot" /\ transport # "serial" /\ booted => since' = "booted"
    BY <2>1 DEF RebootInv, Heeded, TypeOK, TargetOK
  <2> QED BY <1>3, <2>1, <2>2, RebootReturn DEF confVars
<1>4. CASE call.phase = "confirming" /\ call.op = "start" /\ ToBoot("settling")
  <2>1. call'.op = "start" /\ ret' = ret
    BY <1>1, <1>4 DEF ToBoot, CallRecords, coreVars
  <2>2. RebootIsReal'
    BY <2>1 DEF RebootInv, RebootIsReal, confVars
  <2> QED BY <2>1, <2>2 DEF RebootInv, Rebooting, Heeded
<1>5. CASE call.phase = "settling" /\ booted /\ call.op = "reboot" /\ ToBoot("confirming")
  <2>1. transport # "serial"
    BY <1>5 DEF Shape
  <2>2. since' = "booted"
    BY <1>2, <1>5, <2>1 DEF RebootInv, Heeded, TypeOK, TargetOK
  <2>3. RebootIsReal'
    BY <2>2 DEF RebootIsReal
  <2> QED BY <2>2, <2>3 DEF RebootInv, Heeded
<1>6. CASE /\ call.phase = "settling" /\ ~(booted /\ call.op = "reboot")
           /\ Return(IF ~booted THEN "raised"
                     ELSE IF call.op = "poweroff" THEN "TRUE" ELSE "done", <<>>)
  BY <1>6, RebootReturn DEF confVars
<1> QED BY <1>3, <1>4, <1>5, <1>6 DEF BootEnds

LEMMA RebootResponse ==
    ASSUME TypeOK, Shape, RebootInv, ReadResponse
    PROVE  RebootInv'
<1>1. pc = "read" /\ UNCHANGED restVars /\ Read /\ Responded(window \o Chunk)
  BY DEF ReadResponse
<1>2. PhaseOK /\ call \in CallRecords
  BY <1>1, Active
<1>3. DevIsHealth' => DevIsHealth
  BY <1>1, ReadHealth
<1>4. UNCHANGED <<confVars, handle, since, targetVars>>
  BY <1>1 DEF restVars
<1>5. ASSUME Rebooting, since = "nothing"
      PROVE  /\ NoPrompt(window \o Chunk)
             /\ DevIsHealth => Clear /\ \A i \in DOMAIN wire' : wire'[i].part # "prompt"
  <2>1. NoPrompt(window) /\ (DevIsHealth => Clear)
    BY <1>5 DEF RebootInv
  <2>2. /\ DevIsHealth => \A i \in DOMAIN wire' : wire'[i].part # "prompt"
        /\ NoPrompt(Chunk)
    BY <1>1, <2>1, ReadPrompts
  <2>3. window \in Seq(Tokens) /\ Chunk \in Seq(Tokens)
    BY ChunkTaken DEF TypeOK, ThreadOK
  <2> QED BY <2>1, <2>2, <2>3, NoPromptConcat
<1>6. CASE /\ call.phase = "stopping" /\ pc' = "kill"
           /\ UNCHANGED <<call, coreVars>>
  <2>1. ~Rebooting'
    BY <1>2, <1>4, <1>6 DEF PhaseOK, Rebooting, confVars
  <2>2. RebootIsReal' /\ Heeded'
    BY <1>4, <1>6 DEF RebootInv, RebootIsReal, Heeded, coreVars, confVars
  <2> QED BY <2>1, <2>2 DEF RebootInv
<1>7. CASE /\ pc' = "boot" /\ window' = <<>> /\ UNCHANGED coreVars
           /\ call'.op = call.op /\ call'.quiet = call.quiet
           /\ \/ call.phase \in {"settling", "confirming"} /\ call' = call
              \/ call.phase = "asking reboot" /\ call'.phase = "confirming"
  <2>1. RebootIsReal' /\ Heeded'
    BY <1>4, <1>7 DEF RebootInv, RebootIsReal, Heeded, coreVars, confVars
  <2>2. SUFFICES ASSUME Rebooting', since' = "nothing"
                 PROVE  NoPrompt(window)' /\ (DevIsHealth' => Clear')
    BY <1>7, <2>1 DEF RebootInv
  <2>3. Rebooting
    <3>1. CASE call.phase = "asking reboot"
      BY <1>2, <1>4, <1>7, <2>2, <3>1 DEF PhaseOK, Rebooting, confVars
    <3>2. CASE call' = call /\ call.phase \in {"settling", "confirming"}
      BY <1>1, <1>4, <1>7, <2>2, <3>2 DEF Rebooting, confVars
    <3> QED BY <1>7, <3>1, <3>2
  <2>4. since = "nothing"
    BY <1>4, <2>2
  <2>5. \A i \in DOMAIN <<>> : FALSE
    OBVIOUS
  <2>6. NoPrompt(window)'
    BY <1>7, <2>5 DEF NoPrompt
  <2>7. ASSUME DevIsHealth' PROVE Clear'
    <3>1. Clear /\ \A i \in DOMAIN wire' : wire'[i].part # "prompt"
      BY <1>3, <1>5, <2>3, <2>4, <2>7
    <3>2. Mute'
      BY <1>1, <1>4, <1>7, <3>1 DEF Clear, Mute, targetVars
    <3> QED BY <1>4, <3>1, <3>2 DEF Clear, NoPrompt, targetVars
  <2> QED BY <2>6, <2>7
<1>8. CASE Has(window \o Chunk, "prompt") /\ BootEnds(TRUE)
  <2>1. ~(Rebooting /\ since = "nothing")
    BY <1>5, <1>8 DEF Has, NoPrompt
  <2> QED BY <1>1, <1>4, <1>8, <2>1, RebootFinished
<1>9. \/ /\ call.phase = "stopping" /\ pc' = "kill" /\ UNCHANGED <<call, coreVars>>
      \/ call.phase = "asking reboot" /\ ToBoot("confirming")
      \/ Has(window \o Chunk, "prompt") /\ BootEnds(TRUE)
      \/ /\ call.phase \in {"settling", "confirming"} /\ pc' = "boot" /\ window' = <<>>
         /\ UNCHANGED <<call, coreVars>>
  BY <1>1 DEF Responded
<1>10. ToBoot("confirming") =>
          /\ pc' = "boot" /\ window' = <<>> /\ UNCHANGED coreVars
          /\ call'.op = call.op /\ call'.quiet = call.quiet
          /\ call'.phase = "confirming"
  BY <1>2 DEF ToBoot, CallRecords
<1> QED BY <1>6, <1>7, <1>8, <1>9, <1>10

LEMMA RebootOpen ==
    ASSUME TypeOK, Shape, RebootInv, OpenHost \/ Connect \/ OpenSerial
    PROVE  RebootInv'
<1>1. PhaseOK /\ call \in CallRecords
  BY Active DEF OpenHost, Connect, OpenSerial
<1>2. \A i \in DOMAIN <<>> : FALSE
  OBVIOUS
<1>3. \A phase : ToBoot(phase) =>
          /\ pc' = "boot" /\ window' = <<>> /\ ret' = ret
          /\ call'.op = call.op /\ call'.quiet = call.quiet
  BY <1>1 DEF ToBoot, CallRecords, coreVars
<1>4. UNCHANGED <<confVars, since>>
  BY DEF OpenHost, Connect, OpenSerial, restVars
<1>5. CASE OpenHost
  <2>1. ret' = ret
    BY <1>3, <1>5 DEF OpenHost, coreVars
  <2>2. window' = <<>>
    BY <1>3, <1>5 DEF OpenHost, Shape
  <2>3. shell' = "booting" /\ toPrint' = <<>> /\ wire' = <<>>
    BY <1>5 DEF OpenHost, NewTarget
  <2>4. Clear' /\ NoPrompt(window)'
    BY <1>2, <2>2, <2>3 DEF Clear, Mute, NoPrompt
  <2>5. Heeded'
    BY <1>3, <1>4, <1>5 DEF OpenHost, RebootInv, Heeded, confVars
  <2> QED BY <1>4, <2>1, <2>4, <2>5 DEF RebootInv, RebootIsReal, confVars
<1>6. CASE Connect
  <2>1. pc = "connect" /\ UNCHANGED <<wire, targetVars>>
    BY <1>6 DEF Connect, restVars
  <2>2. CASE Return("raised", <<>>)
    BY <1>4, <2>2, RebootReturn DEF confVars
  <2>3. CASE ToBoot("settling")
    <3>1. RebootIsReal' /\ Heeded'
      BY <1>3, <1>4, <2>3 DEF RebootInv, RebootIsReal, Heeded, confVars
    <3>2. SUFFICES ASSUME Rebooting', since' = "nothing"
                   PROVE  NoPrompt(window)' /\ Clear'
      BY <3>1 DEF RebootInv
    <3>3. transport # "serial" /\ transport' = transport
      BY <1>4, <2>1 DEF Shape, confVars
    <3>4. Rebooting
      <4>1. call.op \in {"reboot", "poweroff", "start"}
        BY <1>1, <2>1 DEF PhaseOK, Booting, Pattern
      <4>2. call.op = "reboot"
        BY <1>3, <2>3, <3>2, <4>1 DEF Rebooting
      <4> QED BY <2>1, <3>3, <4>2 DEF Rebooting
    <3>5. Clear
      BY <1>4, <2>1, <3>2, <3>4 DEF RebootInv
    <3>6. Clear'
      BY <1>3, <2>1, <2>3, <3>5 DEF Clear, Mute, NoPrompt, targetVars
    <3>7. NoPrompt(window)'
      BY <1>2, <1>3, <2>3 DEF NoPrompt
    <3> QED BY <3>6, <3>7
  <2> QED BY <1>6, <2>2, <2>3 DEF Connect
<1>7. CASE OpenSerial
  <2>1. call.op = "start"
    BY <1>7 DEF OpenSerial, Shape
  <2>2. call'.op = "start" /\ ret' = ret
    BY <1>3, <1>7, <2>1 DEF OpenSerial
  <2> QED BY <1>4, <2>2 DEF RebootInv, RebootIsReal, Rebooting, Heeded, confVars
<1> QED BY <1>5, <1>6, <1>7

LEMMA RebootClose ==
    ASSUME TypeOK, Shape, RebootInv,
           BootTimeout \/ AlreadyOpen \/ NothingToRun \/ SerialRaises \/ Kill
    PROVE  RebootInv'
<1>1. UNCHANGED confVars /\ since' = since
  BY DEF BootTimeout, AlreadyOpen, NothingToRun, SerialRaises, Kill, restVars
<1>2. CASE BootTimeout
  <2>1. BootEnds(FALSE) /\ pc = "boot"
    BY <1>2 DEF BootTimeout
  <2> QED BY <1>1, <2>1, RebootFinished
<1>3. CASE AlreadyOpen \/ NothingToRun \/ SerialRaises
  <2>1. Return("raised", <<>>)
    BY <1>3 DEF AlreadyOpen, NothingToRun, SerialRaises
  <2> QED BY <1>1, <2>1, RebootReturn DEF confVars
<1>4. CASE Kill
  <2>1. CASE Return("done", <<>>)
    BY <1>1, <2>1, RebootReturn DEF confVars
  <2>2. CASE pc' = "open" /\ UNCHANGED <<call, coreVars>>
    <3>1. PhaseOK /\ pc = "kill"
      BY <1>4, Active DEF Kill
    <3>2. transport # "serial" /\ call.op # "soft"
      BY <3>1 DEF PhaseOK, Booting, Pattern
    <3>3. ~Rebooting'
      BY <1>1, <2>2, <3>2 DEF Rebooting, confVars
    <3> QED BY <1>1, <2>2, <3>3 DEF RebootInv, RebootIsReal, Heeded, coreVars, confVars
  <2> QED BY <1>4, <2>1, <2>2 DEF Kill
<1> QED BY <1>2, <1>3, <1>4

LEMMA RebootCalls ==
    ASSUME TypeOK, Shape, RebootInv, Calls
    PROVE  RebootInv'
<1>1. call = NoCall /\ pc = "idle" /\ window = <<>> /\ transport' = transport
  BY DEF Calls, Ask, LineTooLong, CachedList, SwitchNowhere, SwitchCore, ForcePanic,
     Start, Stop, StopEmulator, Restart, RestartRefused, ResetSerial, PoweroffSerial,
     SoftReboot, Begin, ReturnAtOnce, restVars, confVars, Shape
<1>2. \A i \in DOMAIN <<>> : FALSE
  OBVIOUS
<1>3. ASSUME call' = call, ret'.op \notin {"reboot", "soft"} \/ ret'.status # "TRUE"
      PROVE  RebootInv'
  <2>1. call'.op = "none"
    BY <1>1, <1>3 DEF NoCall
  <2> QED BY <1>3, <2>1 DEF RebootInv, Rebooting, RebootIsReal, Heeded
<1>4. ASSUME NEW op, NEW line, NEW phase, NEW stage, Begin(op, line, phase, stage)
      PROVE  /\ RebootIsReal' /\ window' = <<>>
             /\ pc' = stage /\ call'.op = op /\ call'.phase = phase
             /\ call'.quiet = Quiet
  BY <1>1, <1>4 DEF Begin, RebootIsReal, NoRet
<1>5. ASSUME NEW op, NEW line, NEW phase, NEW stage, Begin(op, line, phase, stage),
             op \notin {"reboot", "soft"} \/
                /\ op = "reboot" /\ transport # "serial" /\ stage # "connect"
                /\ phase = "stopping" \/ stage = "open"
                /\ since' = "nothing"
      PROVE  RebootInv'
  <2>1. /\ RebootIsReal' /\ pc' = stage /\ call'.op = op /\ call'.phase = phase
    BY <1>4, <1>5
  <2>2. ~Rebooting'
    BY <1>1, <1>5, <2>1 DEF Rebooting
  <2> QED BY <1>5, <2>1, <2>2 DEF RebootInv, Heeded
<1>6. CASE Ask \/ SwitchCore \/ Start
  <2>1. PICK op : /\ op \notin {"reboot", "soft"}
                  /\ \E line, phase, stage : Begin(op, line, phase, stage)
    BY <1>6 DEF Ask, SwitchCore, Start
  <2> QED BY <1>5, <2>1
<1>7. CASE \E op, status : /\ op \notin {"reboot", "soft"} \/ status # "TRUE"
                           /\ ret' = Result(op, status, FALSE, <<>>)
                           /\ call' = call
  BY <1>3, <1>7 DEF Result
<1>8. CASE LineTooLong \/ CachedList \/ SwitchNowhere \/ ForcePanic
           \/ RestartRefused("reboot") \/ RestartRefused("poweroff") \/ PoweroffSerial
           \/ (Stop /\ ~StopEmulator("stop"))
  BY <1>7, <1>8 DEF LineTooLong, CachedList, SwitchNowhere, ForcePanic, RestartRefused,
     PoweroffSerial, Stop, ReturnAtOnce, threadVars
<1>9. ASSUME NEW op \in {"stop", "reboot", "poweroff"}, StopEmulator(op),
             op = "reboot" => since' = "nothing"
      PROVE  RebootInv'
  <2>1. transport # "serial" /\ \E stage \in {"drain", "kill"} :
            Begin(op, "poweroff", "stopping", stage)
    BY <1>9 DEF StopEmulator
  <2> QED BY <1>5, <1>9, <2>1
<1>10. ASSUME NEW op \in {"reboot", "poweroff"}, Restart(op)
       PROVE  RebootInv'
  <2>1. \/ StopEmulator(op)
        \/ transport # "serial" /\ Begin(op, "enter", "settling", "open")
    BY <1>10 DEF Restart
  <2>2. since' = "nothing"
    BY <1>10 DEF Restart
  <2> QED BY <2>2, <1>5, <1>9, <2>1
<1>11. CASE ResetSerial
  <2>1. /\ Begin("reboot", "enter", "confirming", "boot")
        /\ NewTarget("booting") \/ since' = "ignored"
        /\ wire' = [i \in DOMAIN wire |-> [wire[i] EXCEPT !.own = FALSE]]
        /\ transport = "serial"
    BY <1>11 DEF ResetSerial, Disown
  <2>2. RebootIsReal' /\ Heeded' /\ window' = <<>> /\ pc' = "boot" /\ call'.quiet = Quiet
    BY <1>1, <1>4, <2>1 DEF Heeded
  <2>3. SUFFICES ASSUME Rebooting', since' = "nothing" PROVE NoPrompt(window)' /\ Clear'
    BY <2>2 DEF RebootInv
  <2>4. Quiet
    <3>1. call'.op = "reboot" /\ transport' = "serial"
      BY <1>1, <1>4, <2>1
    <3> QED BY <2>2, <2>3, <3>1 DEF Rebooting
  <2>5. \A i \in DOMAIN wire' : i <= ChunkMax
    <3>1. Len(wire) <= ChunkMax /\ Len(wire) \in Nat /\ DOMAIN wire = 1..Len(wire)
      BY <2>4, LenProperties DEF Quiet, TypeOK, TargetOK
    <3>2. DOMAIN wire' = DOMAIN wire
      BY <2>1, DisownedText DEF TypeOK, TargetOK
    <3> QED BY <3>1, <3>2, SizeTypes
  <2>6. NoPrompt(toPrint)' /\ Mute' /\ NoPrompt(window)'
    BY <1>2, <2>1, <2>2, <2>3 DEF NewTarget, NoPrompt, Mute
  <2> QED BY <2>2, <2>5, <2>6 DEF Clear
<1>12. CASE SoftReboot
  <2>1. Begin("soft", "reboot", "asking reboot", "drain") /\ Disown
    BY <1>12 DEF SoftReboot
  <2>2. RebootIsReal' /\ window' = <<>> /\ pc' = "drain" /\ call'.quiet = Quiet
        /\ call'.op = "soft" /\ call'.phase = "asking reboot"
    BY <1>4, <2>1
  <2>8. Heeded'
    BY <2>2 DEF Heeded
  <2>3. SUFFICES ASSUME Rebooting' PROVE NoPrompt(window)' /\ Clear'
    BY <2>2, <2>8 DEF RebootInv
  <2>4. Quiet
    BY <2>2, <2>3 DEF Rebooting
  <2>5. \A i \in DOMAIN wire' : i <= ChunkMax
    <3>1. Len(wire) <= ChunkMax /\ Len(wire) \in Nat /\ DOMAIN wire = 1..Len(wire)
      BY <2>4, LenProperties DEF Quiet, TypeOK, TargetOK
    <3>2. DOMAIN wire' = DOMAIN wire
      BY <2>1, DisownedText DEF Disown, TypeOK, TargetOK
    <3> QED BY <3>1, <3>2, SizeTypes
  <2>6. input' = <<>> /\ toPrint' = <<>>
    <3>1. input = <<>> /\ toPrint = <<>> /\ toPrint \in Seq(Tokens)
      BY <2>4 DEF Quiet, TypeOK, TargetOK
    <3>2. toPrint' = <<>>
      BY <2>1, <3>1, DisownedText DEF Disown
    <3>3. input' = <<>>
      BY <2>1, <3>1, DisownedInput DEF Disown
    <3> QED BY <3>2, <3>3
  <2>7. NoPrompt(toPrint)' /\ Mute' /\ NoPrompt(window)'
    BY <1>2, <2>2, <2>6 DEF NoPrompt, Mute
  <2> QED BY <2>2, <2>5, <2>7 DEF Clear
<1> QED BY <1>6, <1>8, <1>9, <1>10, <1>11, <1>12 DEF Calls, Stop

LEMMA RebootStep ==
    ASSUME TypeOK, Shape, RebootInv, [Next]_vars
    PROVE  RebootInv'
<1>1. CASE Calls
  BY <1>1, RebootCalls
<1>2. CASE CallStep
  BY <1>2, RebootReads, RebootWrite, RebootPattern, RebootResponse, RebootOpen,
     RebootClose DEF CallStep
<1>3. CASE Environment
  BY <1>3, RebootEnvironment
<1>4. CASE UNCHANGED vars
  BY <1>4 DEF vars, confVars, connVars, targetVars, threadVars, coreVars, RebootInv,
     Rebooting, Heeded, Clear, Mute, NoPrompt, RebootIsReal, DevIsHealth, TransportOK, Alive
<1> QED BY <1>1, <1>2, <1>3, <1>4 DEF Next

(* No prompt from before is taken for the boot: an emulator whose reboot is *)
(* reported has booted since the call began, and behind a line that was     *)
(* quiet a board or a shell has booted or has ignored the command, whose    *)
(* response the code ignores as well (DeviceCommon.reboot, _wait_for_boot). *)
THEOREM RebootsAreReal == Spec => []RebootIsReal
<1>1. Init => RebootInv
  BY DEF Init, RebootInv, Rebooting, Heeded, RebootIsReal, NoCall, NoRet
<1>2. /\ TypeOK /\ Shape /\ RebootInv /\ [Next]_vars
      => (TypeOK /\ Shape /\ RebootInv)'
  BY TypeStep, RebootStep
<1>3. RebootInv => RebootIsReal
  BY DEF RebootInv
<1> QED BY <1>1, <1>2, <1>3, TypeInit, PTL DEF Spec

-----------------------------------------------------------------------------
(* An answer is the command's own. *)

LEMMA ConcatText ==
    ASSUME NEW s \in Seq(Tokens), NEW t \in Seq(Tokens)
    PROVE  /\ s \o t \in Seq(Tokens)
           /\ Len(s) \in Nat
           /\ \A i \in DOMAIN s : /\ i \in Nat /\ i <= Len(s)
                                  /\ i \in DOMAIN (s \o t) /\ (s \o t)[i] = s[i]
           /\ \A i \in DOMAIN t : /\ i \in Nat \ {0} /\ Len(s) + i \in DOMAIN (s \o t)
                                  /\ (s \o t)[Len(s) + i] = t[i]
           /\ \A i \in DOMAIN (s \o t) :
                 \/ i \in DOMAIN s
                 \/ i - Len(s) \in DOMAIN t /\ Len(s) + (i - Len(s)) = i
<1> DEFINE n == Len(s)
           m == Len(t)
           u == s \o t
<1>1. /\ n \in Nat /\ m \in Nat /\ DOMAIN s = 1..n /\ DOMAIN t = 1..m
      /\ u \in Seq(Tokens) /\ Len(u) = n + m
      /\ \A i \in 1..(n + m) : u[i] = IF i <= n THEN s[i] ELSE t[i - n]
  BY LenProperties, ConcatProperties
<1>2. DOMAIN u = 1..(n + m)
  BY <1>1, LenProperties
<1> HIDE DEF n, m, u
<1>3. ASSUME NEW i \in 1..n
      PROVE  i \in Nat /\ i <= n /\ i \in 1..(n + m) /\ u[i] = s[i]
  <2>1. i \in Nat /\ i <= n /\ i \in 1..(n + m)
    BY <1>1
  <2> QED BY <1>1, <2>1
<1>4. ASSUME NEW i \in 1..m
      PROVE  i \in Nat \ {0} /\ n + i \in 1..(n + m) /\ u[n + i] = t[i]
  <2>1. i \in Nat \ {0} /\ n + i \in 1..(n + m) /\ ~(n + i <= n) /\ (n + i) - n = i
    BY <1>1
  <2> QED BY <1>1, <2>1
<1>5. ASSUME NEW i \in 1..(n + m)
      PROVE  i \in 1..n \/ (i - n \in 1..m /\ n + (i - n) = i)
  BY <1>1
<1> QED BY <1>1, <1>2, <1>3, <1>4, <1>5 DEF n, m, u

LEMMA OrderedPrefix ==
    ASSUME NEW word, NEW s \in Seq(Tokens), NEW t \in Seq(Tokens), Ordered(s \o t, word)
    PROVE  Ordered(s, word)
<1> DEFINE u == s \o t
<1>1. /\ Len(s) \in Nat
      /\ \A i \in DOMAIN s : i \in Nat /\ i <= Len(s) /\ i \in DOMAIN u /\ u[i] = s[i]
      /\ \A i \in DOMAIN u : i \in DOMAIN s \/ (i - Len(s) \in DOMAIN t /\ Len(s) + (i - Len(s)) = i)
      /\ \A i \in DOMAIN t : i \in Nat \ {0}
  BY ConcatText
<1> HIDE DEF u
<1>2. SUFFICES ASSUME NEW j \in DOMAIN s, s[j] = Own("prompt")
               PROVE  \E i \in DOMAIN s :
                         /\ s[i] = word
                         /\ \A k \in DOMAIN s : s[k] = Own("prompt") => i < k
  BY DEF Ordered
<1>3. Ordered(u, word)
  BY DEF u
<1>4. PICK i \in DOMAIN u : u[i] = word /\ \A k \in DOMAIN u : u[k] = Own("prompt") => i < k
  BY <1>1, <1>2, <1>3 DEF Ordered
<1>5. i < j
  BY <1>1, <1>2, <1>4
<1>6. i \in DOMAIN s
  <2>1. j \in Nat /\ j <= Len(s)
    BY <1>1, <1>2
  <2>2. SUFFICES ASSUME i - Len(s) \in Nat \ {0}, Len(s) + (i - Len(s)) = i PROVE FALSE
    BY <1>1, <1>4
  <2>3. \A x \in Nat \ {0} : ~(Len(s) + x < j)
    BY <1>1, <2>1
  <2> QED BY <1>5, <2>2, <2>3
<1> QED BY <1>1, <1>4, <1>6

LEMMA OrderedConcat ==
    ASSUME NEW word, NEW s \in Seq(Tokens), NEW t \in Seq(Tokens), Ordered(s, word),
           Ordered(t, word)
    PROVE  Ordered(s \o t, word)
<1> DEFINE u == s \o t
           n == Len(s)
<1>1. /\ n \in Nat
      /\ \A i \in DOMAIN s : i \in Nat /\ i <= n /\ i \in DOMAIN u /\ u[i] = s[i]
      /\ \A i \in DOMAIN t : i \in Nat \ {0} /\ n + i \in DOMAIN u /\ u[n + i] = t[i]
      /\ \A i \in DOMAIN u : i \in DOMAIN s \/ (i - n \in DOMAIN t /\ n + (i - n) = i)
  BY ConcatText
<1> HIDE DEF u, n
<1>2. CASE \E j \in DOMAIN s : s[j] = Own("prompt")
  <2>1. PICK i \in DOMAIN s : s[i] = word /\ \A k \in DOMAIN s : s[k] = Own("prompt") => i < k
    BY <1>2 DEF Ordered
  <2>2. i \in DOMAIN u /\ u[i] = word /\ i \in Nat /\ i <= n
    BY <1>1, <2>1
  <2>3. ASSUME NEW k \in DOMAIN u, u[k] = Own("prompt") PROVE i < k
    <3>1. CASE k \in DOMAIN s
      BY <1>1, <2>1, <2>3, <3>1
    <3>2. CASE k - n \in DOMAIN t /\ n + (k - n) = k
      <4>1. k - n \in Nat \ {0}
        BY <1>1, <3>2
      <4>2. \A x \in Nat \ {0} : i < n + x
        BY <1>1, <2>2
      <4>3. i < n + (k - n)
        BY <4>1, <4>2
      <4> QED BY <3>2, <4>3
    <3> QED BY <1>1, <3>1, <3>2
  <2>4. Ordered(u, word)
    BY <2>2, <2>3 DEF Ordered
  <2> QED BY <2>4 DEF u
<1>3. CASE \A j \in DOMAIN s : s[j] # Own("prompt")
  <2>1. ASSUME NEW j \in DOMAIN u, u[j] = Own("prompt")
        PROVE  j - n \in DOMAIN t /\ n + (j - n) = j /\ t[j - n] = Own("prompt")
    BY <1>1, <1>3, <2>1
  <2>2. SUFFICES ASSUME NEW j \in DOMAIN t, t[j] = Own("prompt") PROVE Ordered(u, word)
    <3>1. (\A j \in DOMAIN u : u[j] # Own("prompt")) => Ordered(u, word)
      BY DEF Ordered
    <3> QED BY <2>1, <3>1 DEF u
  <2>3. PICK i \in DOMAIN t : t[i] = word /\ \A k \in DOMAIN t : t[k] = Own("prompt") => i < k
    BY <2>2 DEF Ordered
  <2>4. n + i \in DOMAIN u /\ u[n + i] = word
    BY <1>1, <2>3
  <2>5. ASSUME NEW k \in DOMAIN u, u[k] = Own("prompt") PROVE n + i < k
    <3>1. k - n \in DOMAIN t /\ n + (k - n) = k /\ i < k - n
      BY <2>1, <2>3, <2>5
    <3>2. i \in Nat /\ k - n \in Nat
      BY <1>1, <2>3, <3>1
    <3>3. \A x \in Nat : i < x => n + i < n + x
      BY <1>1, <3>2
    <3>4. n + i < n + (k - n)
      BY <3>1, <3>2, <3>3
    <3> QED BY <3>1, <3>4
  <2> QED BY <2>4, <2>5 DEF Ordered
<1> QED BY <1>2, <1>3

LEMMA OrderedForeign ==
    ASSUME NEW word, NEW t \in Seq(Tokens), \A i \in DOMAIN t : ~t[i].own
    PROVE  Ordered(t, word)
BY DEF Ordered, Own

LEMMA AskEnvironment ==
    ASSUME TypeOK, Shape, AskInv, Environment
    PROVE  AskInv'
<1>1. UNCHANGED <<confVars, handle, fault, pc, call, window, buf, coreVars>>
  BY DEF Environment, TargetBoots, TargetPrints, TargetExecutes, TargetRefuses,
     TargetCrashes, EmulatorFails, TimePasses, BootTimePasses, connVars, threadVars
<1>2. AnswerIsOwn' /\ ListingIsTrue'
  BY <1>1 DEF AskInv, AnswerIsOwn, ListingIsTrue, coreVars, confVars
<1>3. SUFFICES ASSUME Asking'
               PROVE  /\ call'.line \in {"known", "unknown"}
                      /\ (\A i \in DOMAIN window : Ours(window[i]))'
                      /\ (\A i \in DOMAIN buf : Ours(buf[i]))'
                      /\ DevIsHealth' => TargetOurs'
                      /\ AnswerInOrder'
  BY <1>2 DEF AskInv
<1>4. Asking /\ Word' = Word
  BY <1>1, <1>3 DEF Asking, Word
<1>5. /\ call.line \in {"known", "unknown"}
      /\ \A i \in DOMAIN window : Ours(window[i])
      /\ \A i \in DOMAIN buf : Ours(buf[i])
      /\ DevIsHealth => TargetOurs
      /\ AnswerInOrder
  BY <1>4 DEF AskInv
<1>6. DevIsHealth' => DevIsHealth
  BY <1>1 DEF Environment, TargetBoots, TargetPrints, TargetExecutes, TargetRefuses,
     TargetCrashes, EmulatorFails, TimePasses, BootTimePasses, Panics, DevIsHealth, TransportOK,
     Alive, confVars, connVars, targetVars
<1>7. transport # "serial" => Ordered(buf \o window, Word)'
  BY <1>1, <1>4, <1>5 DEF AnswerInOrder
<1>8. /\ call'.line \in {"known", "unknown"}
      /\ (\A i \in DOMAIN window : Ours(window[i]))'
      /\ (\A i \in DOMAIN buf : Ours(buf[i]))'
  BY <1>1, <1>5
<1>9. SUFFICES ASSUME DevIsHealth, DevIsHealth', TargetOurs
               PROVE  /\ TargetOurs'
                      /\ transport # "serial" =>
                            /\ Ordered(Stream, Word)'
                            /\ Connected' => Ordered(Stream \o toPrint, Word)'
  BY <1>1, <1>5, <1>6, <1>7, <1>8 DEF AnswerInOrder, confVars
<1>10. transport # "serial" => /\ Ordered(Stream, Word)
                               /\ Connected => Ordered(Stream \o toPrint, Word)
  BY <1>5, <1>9 DEF AnswerInOrder
<1>11. /\ wire \in Seq(Tokens) /\ toPrint \in Seq(Tokens) /\ buf \o window \in Seq(Tokens)
       /\ Stream \in Seq(Tokens) /\ Stream = (buf \o window) \o wire
  BY ConcatProperties DEF TypeOK, TargetOK, ThreadOK, Stream
<1>12. ~TargetBoots
  BY <1>9 DEF TargetBoots, TargetOurs
<1>13. CASE TargetPrints
  <2> DEFINE token == Head(toPrint)
             rest == Tail(toPrint)
  <2>1. /\ token \in Tokens /\ rest \in Seq(Tokens)
        /\ toPrint = <<token>> \o rest
        /\ token = toPrint[1] /\ 1 \in DOMAIN toPrint
        /\ \A i \in DOMAIN rest : i + 1 \in DOMAIN toPrint /\ rest[i] = toPrint[i + 1]
    <3>1. /\ toPrint # <<>> /\ Len(toPrint) \in Nat \ {0} /\ DOMAIN toPrint = 1..Len(toPrint)
      BY <1>11, <1>13, EmptySeq, LenProperties DEF TargetPrints
    <3>2. /\ token \in Tokens /\ rest \in Seq(Tokens)
          /\ toPrint = <<token>> \o rest /\ token = toPrint[1]
          /\ Len(rest) = Len(toPrint) - 1
          /\ \A i \in 1..Len(rest) : rest[i] = toPrint[i + 1]
      BY <1>11, <3>1, HeadTailProperties
    <3>3. DOMAIN rest = 1..(Len(toPrint) - 1) /\ DOMAIN rest = 1..Len(rest)
      BY <3>2, LenProperties
    <3> HIDE DEF token, rest
    <3>4. 1 \in 1..Len(toPrint) /\ \A i \in 1..(Len(toPrint) - 1) : i + 1 \in 1..Len(toPrint)
      BY <3>1
    <3> QED BY <3>1, <3>2, <3>3, <3>4
  <2>2. /\ toPrint' = rest /\ UNCHANGED <<shell, remote, input, sock>>
        /\ wire' = IF Connected THEN Append(wire, token) ELSE wire
    BY <1>13 DEF TargetPrints, Connected, connVars
  <2> HIDE DEF token, rest
  <2>3. \A i \in DOMAIN toPrint' : Ours(toPrint'[i]) /\ (pc = "drain" => ~toPrint'[i].own)
    BY <1>9, <2>1, <2>2 DEF TargetOurs
  <2>4. /\ Append(wire, token) = wire \o <<token>> /\ <<token>> \in Seq(Tokens)
    <3>1. \A t \in Tokens : <<t>> \in Seq(Tokens)
      OBVIOUS
    <3> QED BY <1>11, <2>1, <3>1, AppendIsConcat
  <2>5. ASSUME NEW i \in DOMAIN wire'
        PROVE  /\ ~Ours(wire'[i]) => pc = "drain" /\ i <= ChunkMax
               /\ pc = "drain" => ~wire'[i].own
    <3>1. CASE wire' = wire
      BY <1>9, <2>5, <3>1 DEF TargetOurs
    <3>2. CASE wire' = Append(wire, token)
      <4> DEFINE new == Append(wire, token)
      <4>1. /\ Len(wire) \in Nat /\ DOMAIN wire = 1..Len(wire)
            /\ DOMAIN new = 1..(Len(wire) + 1)
            /\ \A j \in 1..Len(wire) : new[j] = wire[j]
            /\ new[Len(wire) + 1] = token
        BY <1>11, <2>1, AppendProperties, LenProperties
      <4> HIDE DEF new
      <4>2. wire' = new
        BY <3>2 DEF new
      <4>3. i \in 1..Len(wire) \/ i = Len(wire) + 1
        BY <2>5, <4>1, <4>2
      <4>4. Ours(token) /\ (pc = "drain" => ~token.own)
        BY <1>9, <2>1 DEF TargetOurs
      <4> QED BY <1>9, <4>1, <4>2, <4>3, <4>4 DEF TargetOurs
    <3> QED BY <2>2, <3>1, <3>2
  <2>6. TargetOurs'
    BY <1>1, <1>9, <2>2, <2>3, <2>5 DEF TargetOurs
  <2>7. CASE ~Connected
    <3>1. Stream' = Stream /\ ~Connected'
      BY <1>1, <2>2, <2>7 DEF Stream, Connected, confVars
    <3> QED BY <1>4, <1>10, <2>6, <3>1
  <2>8. CASE Connected
    <3>1. Stream' = Stream \o <<token>>
      <4>1. wire' = wire \o <<token>>
        BY <2>2, <2>4, <2>8
      <4>2. Stream' = (buf \o window) \o (wire \o <<token>>)
        BY <1>1, <4>1 DEF Stream
      <4> QED BY <1>11, <2>4, <4>2, ConcatAssociative
    <3>2. Stream' \o toPrint' = Stream \o toPrint
      BY <1>11, <2>1, <2>2, <2>4, <3>1, ConcatAssociative
    <3>3. Stream' \in Seq(Tokens)
      BY <1>11, <2>4, <3>1, ConcatProperties
    <3>4. transport # "serial" => Ordered(Stream' \o toPrint', Word)
      BY <1>10, <2>8, <3>2
    <3>5. transport # "serial" => Ordered(Stream', Word)
      BY <2>1, <2>2, <3>3, <3>4, OrderedPrefix
    <3> QED BY <1>4, <2>6, <3>4, <3>5
  <2> QED BY <2>7, <2>8
<1>14. CASE TargetExecutes
  <2> DEFINE cmd == Head(input)
             parts == Answer(cmd.line)
             text == [i \in DOMAIN parts |-> [own |-> cmd.own, part |-> parts[i]]]
             gone == cmd.line \in {"poweroff", "reboot"} /\ ~remote
             R == [own : BOOLEAN, line : Lines]
  <2>1. /\ shell = "ready" /\ input # <<>> /\ UNCHANGED <<wire, sock>> /\ toPrint = <<>>
        /\ shell' = (IF ~gone THEN "ready" ELSE IF cmd.line = "poweroff" THEN "off" ELSE "booting")
        /\ input' = (IF gone THEN <<>> ELSE Tail(input))
        /\ toPrint' = IF gone THEN <<>> ELSE text
    BY <1>14 DEF TargetExecutes, connVars
  <2>2. /\ cmd \in R /\ cmd = input[1] /\ 1 \in DOMAIN input
        /\ DOMAIN input = 1..Len(input) /\ Len(input) \in Nat \ {0}
        /\ DOMAIN Tail(input) = 1..(Len(input) - 1)
        /\ \A i \in 1..(Len(input) - 1) : Tail(input)[i] = input[i + 1]
    <3>1. input \in Seq(R) /\ Len(input) \in Nat \ {0} /\ DOMAIN input = 1..Len(input)
      BY <2>1, EmptySeq, LenProperties DEF TypeOK, TargetOK
    <3> HIDE DEF R
    <3>2. /\ cmd \in R /\ cmd = input[1] /\ Tail(input) \in Seq(R)
          /\ Len(Tail(input)) = Len(input) - 1
          /\ \A i \in 1..Len(Tail(input)) : Tail(input)[i] = input[i + 1]
      BY <2>1, <3>1, HeadTailProperties
    <3>3. DOMAIN Tail(input) = 1..Len(Tail(input))
      BY <3>2, LenProperties
    <3>4. 1 \in 1..Len(input)
      BY <3>1
    <3> QED BY <3>1, <3>2, <3>3, <3>4
  <2> HIDE DEF cmd
  <2>3. cmd.own /\ cmd.line = call.line /\ ~gone /\ pc # "drain"
    <3>1. cmd.own /\ cmd.line = call.line
      BY <1>9, <2>2 DEF TargetOurs
    <3>2. pc # "drain"
      BY <1>9, <2>1 DEF TargetOurs
    <3>3. ~gone
      BY <1>5, <3>1
    <3> QED BY <3>1, <3>2, <3>3
  <2>4. shell' = "ready" /\ input' = Tail(input) /\ toPrint' = text
    BY <2>1, <2>3
  <2>5. /\ text \in Seq(Tokens)
        /\ \A i \in DOMAIN text :
              /\ text[i].own = cmd.own
              /\ text[i].part = "prompt" =>
                    /\ i = 3 /\ 2 \in DOMAIN text
                    /\ text[2].part = IF cmd.line = "known" THEN "text" ELSE "nocmd"
    <3>1. cmd.own \in BOOLEAN /\ cmd.line \in Lines /\ remote \in BOOLEAN
      BY <2>2 DEF TypeOK, TargetOK
    <3>2. /\ text \in Seq(Tokens)
          /\ \A i \in DOMAIN text :
                /\ text[i].own = cmd.own /\ i \in Nat \ {0}
                /\ text[i].part = "prompt" => ~remote
                /\ text[i].part = "prompt" /\ cmd.line \in {"known", "unknown"} =>
                      /\ i = 3 /\ 2 \in DOMAIN text
                      /\ text[2].part = IF cmd.line = "known" THEN "text" ELSE "nocmd"
      BY <3>1, AnswerText
    <3>3. cmd.line \in {"known", "unknown"}
      BY <1>5, <2>3
    <3> HIDE DEF text
    <3> QED BY <3>2, <3>3
  <2> HIDE DEF text, gone
  <2>6. \A i \in DOMAIN input' : input'[i].own /\ input'[i].line = call.line
    <3>1. \A i \in 1..(Len(input) - 1) : i + 1 \in 1..Len(input)
      BY <2>2
    <3> QED BY <1>9, <2>2, <2>4, <3>1 DEF TargetOurs
  <2>7. TargetOurs'
    BY <1>1, <1>9, <2>1, <2>3, <2>4, <2>5, <2>6 DEF TargetOurs, Ours
  <2>8. Ordered(text, Word)
    <3>1. \A i \in DOMAIN text : text[i] \in Tokens
      BY <2>5, ElementOfSeq, LenProperties
    <3>2. ASSUME NEW j \in DOMAIN text, text[j] = Own("prompt")
          PROVE  j = 3 /\ 2 \in DOMAIN text /\ text[2] = Word
      <4>1. text[j].part = "prompt"
        BY <3>2 DEF Own
      <4>2. j = 3 /\ 2 \in DOMAIN text
            /\ text[2].part = (IF call.line = "known" THEN "text" ELSE "nocmd")
        BY <2>3, <2>5, <4>1
      <4>3. text[2].own = TRUE /\ text[2] \in Tokens
        BY <2>3, <2>5, <3>1, <4>2 DEF Tokens
      <4> QED BY <4>2, <4>3 DEF Tokens, Own, Word
    <3>3. 2 < 3
      OBVIOUS
    <3> QED BY <3>2, <3>3 DEF Ordered
  <2>9. Stream' = Stream
    BY <1>1, <2>1 DEF Stream
  <2>10. transport # "serial" => Ordered(Stream \o text, Word)
    BY <1>10, <1>11, <2>5, <2>8, OrderedConcat
  <2> QED BY <1>4, <1>10, <2>4, <2>7, <2>9, <2>10
<1>15. CASE TargetCrashes
  <2>1. /\ toPrint' \in Seq(Tokens) /\ input' = <<>> /\ shell' = "crashed" /\ wire' = wire
        /\ \A i \in DOMAIN toPrint' : /\ ~toPrint'[i].own
                                      /\ toPrint'[i].part \in {"sig", "nature"}
    BY <1>15, PanicText DEF TargetCrashes, Panics
  <2>2. \A i \in DOMAIN <<>> : FALSE
    OBVIOUS
  <2>3. TargetOurs'
    BY <1>1, <1>9, <2>1, <2>2 DEF TargetOurs, Ours
  <2>4. Ordered(toPrint', Word)
    BY <2>1, OrderedForeign
  <2>5. Stream' = Stream
    BY <1>1, <2>1 DEF Stream
  <2>6. transport # "serial" => Ordered(Stream \o toPrint', Word)
    BY <1>10, <1>11, <2>1, <2>4, OrderedConcat
  <2> QED BY <1>4, <1>10, <2>3, <2>5, <2>6
<1>16. CASE EmulatorFails
  <2>1. wire' = wire /\ transport # "serial"
        /\ (shell' = "off" \/ (sock' = "eof" /\ sock = "open" /\ UNCHANGED <<shell, input, toPrint>>))
    BY <1>16 DEF EmulatorFails
  <2>2. sock' = "eof" /\ sock = "open" /\ UNCHANGED <<shell, input, toPrint>>
    BY <1>1, <1>9, <2>1 DEF DevIsHealth, TransportOK, Alive, confVars
  <2>3. TargetOurs' /\ Stream' = Stream
    BY <1>1, <1>9, <2>1, <2>2 DEF TargetOurs, Stream
  <2>4. ~Connected'
    BY <1>1, <2>1, <2>2 DEF Connected, TypeOK, ConnOK, confVars
  <2> QED BY <1>4, <1>10, <2>3, <2>4
<1>17. CASE TimePasses \/ BootTimePasses
  <2>1. UNCHANGED <<confVars, connVars, targetVars, wire>>
    BY <1>17 DEF TimePasses, BootTimePasses
  <2>2. TargetOurs' /\ Stream' = Stream /\ toPrint' = toPrint
    BY <1>1, <1>9, <2>1 DEF TargetOurs, Stream, targetVars
  <2>3. Connected' = Connected
    BY <2>1 DEF Connected, confVars, connVars
  <2> QED BY <1>4, <1>10, <2>2, <2>3
<1>18. ~TargetRefuses
  <2>1. SUFFICES ASSUME TargetRefuses PROVE FALSE
    OBVIOUS
  <2>2. Head(input) = input[1] /\ 1 \in DOMAIN input
    <3>1. input \in Seq([own : BOOLEAN, line : Lines]) /\ input # <<>>
      BY <2>1 DEF TargetRefuses, TypeOK, TargetOK
    <3>2. Len(input) \in Nat \ {0} /\ DOMAIN input = 1..Len(input)
      BY <3>1, EmptySeq, LenProperties
    <3> QED BY <3>1, <3>2, HeadTailProperties
  <2>3. Head(input).line = call.line
    BY <1>9, <2>2 DEF TargetOurs
  <2> QED BY <1>5, <2>1, <2>3 DEF TargetRefuses
<1> QED BY <1>12, <1>13, <1>14, <1>15, <1>16, <1>17, <1>18 DEF Environment

LEMMA EmptyConcat ==
    ASSUME NEW s \in Seq(Tokens)
    PROVE  s \o <<>> = s /\ <<>> \o s = s
BY ConcatEmptySeq

LEMMA OursConcat ==
    ASSUME NEW s \in Seq(Tokens), NEW t \in Seq(Tokens),
           \A i \in DOMAIN s : Ours(s[i]), \A i \in DOMAIN t : Ours(t[i])
    PROVE  \A i \in DOMAIN (s \o t) : Ours((s \o t)[i])
<1> DEFINE u == s \o t
           n == Len(s)
<1>1. /\ \A i \in DOMAIN s : u[i] = s[i]
      /\ \A i \in DOMAIN t : u[n + i] = t[i]
      /\ \A i \in DOMAIN u : i \in DOMAIN s \/ (i - n \in DOMAIN t /\ n + (i - n) = i)
  BY ConcatText
<1> HIDE DEF u, n, Ours
<1>2. ASSUME NEW i \in DOMAIN u PROVE Ours(u[i])
  <2>1. CASE i \in DOMAIN s
    BY <1>1, <2>1
  <2>2. CASE i - n \in DOMAIN t /\ n + (i - n) = i
    <3>1. u[n + (i - n)] = t[i - n]
      BY <1>1, <2>2
    <3> QED BY <2>2, <3>1
  <2> QED BY <1>1, <2>1, <2>2
<1> QED BY <1>2 DEF u

(* What the pattern loop has read is what the target printed, in order.     *)
LEMMA ReadText ==
    ASSUME TypeOK, Shape, Read, UNCHANGED restVars,
           ReadFirst \/ ReadOn \/ ReadEnds
    PROVE  /\ buf' \o window' = (buf \o window) \o Chunk
           /\ (buf \o window) \o Chunk \in Seq(Tokens)
           /\ Stream' = Stream
           /\ Stream = ((buf \o window) \o Chunk) \o wire'
           /\ wire' \in Seq(Tokens)
<1> DEFINE old == buf \o window
<1>1. /\ wire' = Rest /\ Chunk \o Rest = wire /\ Chunk \in Seq(Tokens)
      /\ Rest \in Seq(Tokens) /\ buf \in Seq(Tokens) /\ window \in Seq(Tokens)
      /\ <<>> \in Seq(Tokens)
  BY ChunkTaken, EmptySeq DEF Read, Rest, TypeOK, ThreadOK
<1> HIDE DEF Chunk, Rest
<1>2. old \in Seq(Tokens) /\ old \o Chunk \in Seq(Tokens)
  BY <1>1, ConcatProperties
<1>3. buf' \o window' = old \o Chunk
  <2>1. CASE ReadFirst
    <3>1. buf = <<>> /\ window = <<>> /\ buf' = Chunk /\ window' = <<>>
      BY <2>1 DEF ReadFirst, Shape
    <3>2. old = <<>>
      BY <1>1, <3>1, EmptyConcat
    <3> HIDE DEF old
    <3> QED BY <1>1, <3>1, <3>2, EmptyConcat
  <2>2. CASE ReadOn
    <3>1. buf' = buf /\ window' = window \o Chunk
      BY <2>2 DEF ReadOn
    <3>2. buf \o (window \o Chunk) = old \o Chunk
      BY <1>1, ConcatAssociative
    <3> HIDE DEF old
    <3> QED BY <3>1, <3>2
  <2>3. CASE ReadEnds
    <3>1. buf' = old \o Chunk /\ window' = <<>>
      BY <2>3 DEF ReadEnds
    <3> HIDE DEF old
    <3> QED BY <1>2, <3>1, EmptyConcat
  <2> QED BY <2>1, <2>2, <2>3
<1>4. (old \o Chunk) \o Rest = old \o wire
  <2> HIDE DEF old
  <2>1. (old \o Chunk) \o Rest = old \o (Chunk \o Rest)
    <3>1. old \in Seq(Tokens) /\ Chunk \in Seq(Tokens) /\ Rest \in Seq(Tokens)
      BY <1>1, <1>2
    <3>2. \A s, t, u \in Seq(Tokens) : (s \o t) \o u = s \o (t \o u)
      BY ConcatAssociative
    <3> QED BY <3>1, <3>2
  <2>2. Chunk \o Rest = wire
    BY <1>1
  <2> QED BY <2>1, <2>2
<1>5. Stream = old \o wire /\ Stream' = (buf' \o window') \o wire'
  BY DEF Stream
<1> HIDE DEF old
<1>6. Stream' = (old \o Chunk) \o Rest
  BY <1>1, <1>3, <1>5
<1>7. Stream' = Stream /\ Stream = (old \o Chunk) \o wire'
  BY <1>1, <1>4, <1>5, <1>6
<1> QED BY <1>1, <1>2, <1>3, <1>7 DEF old

LEMMA AskReads ==
    ASSUME TypeOK, Shape, AskInv,
           Drain \/ DropEcho \/ ReadFirst \/ ReadOn \/ ReadEnds
             \/ GivesUpOrReadsOn \/ FlushAgain \/ AskForPrompt
    PROVE  AskInv'
<1>1. UNCHANGED <<call, coreVars, restVars>> /\ pc # "idle"
  BY DEF Drain, DropEcho, ReadFirst, ReadOn, ReadEnds, GivesUpOrReadsOn,
     FlushAgain, AskForPrompt, GoTo
<1>2. AnswerIsOwn' /\ ListingIsTrue'
  BY <1>1 DEF AskInv, AnswerIsOwn, ListingIsTrue, coreVars, restVars, confVars
<1>3. SUFFICES ASSUME Asking'
               PROVE  /\ call'.line \in {"known", "unknown"}
                      /\ (\A i \in DOMAIN window : Ours(window[i]))'
                      /\ (\A i \in DOMAIN buf : Ours(buf[i]))'
                      /\ DevIsHealth' => TargetOurs'
                      /\ AnswerInOrder'
  BY <1>2 DEF AskInv
<1>4. /\ call.op \in Asks /\ call.quiet /\ pc' # "flush" /\ Word' = Word
      /\ call.phase = "asking" /\ pc \in Pattern
  <2>1. call.op \in Asks /\ call.quiet /\ pc' # "flush" /\ Word' = Word
    BY <1>1, <1>3 DEF Asking, Word
  <2> QED BY <1>1, <2>1, Active DEF PhaseOK, Asks
<1>5. pc # "flush" /\ (Drain \/ DropEcho \/ ReadFirst \/ ReadOn \/ ReadEnds \/ GivesUpOrReadsOn)
  BY <1>4 DEF Drain, DropEcho, ReadFirst, ReadOn, ReadEnds, GivesUpOrReadsOn,
     FlushAgain, AskForPrompt, GoTo, Pattern
<1>6. Asking
  BY <1>4, <1>5 DEF Asking
<1>7. /\ call.line \in {"known", "unknown"}
      /\ \A i \in DOMAIN window : Ours(window[i])
      /\ \A i \in DOMAIN buf : Ours(buf[i])
      /\ DevIsHealth => TargetOurs
      /\ AnswerInOrder
  BY <1>6 DEF AskInv
<1>8. UNCHANGED <<transport, handle, shell, input, toPrint>>
  BY <1>1 DEF restVars, confVars, targetVars
<1>9. CASE GivesUpOrReadsOn
  <2>1. UNCHANGED <<lineVars, window, buf>> /\ pc' # "drain" /\ pc # "drain"
    BY <1>9 DEF GivesUpOrReadsOn, GoTo
  <2>2. DevIsHealth' = DevIsHealth /\ Connected' = Connected /\ Stream' = Stream
    BY <1>8, <2>1 DEF lineVars, DevIsHealth, TransportOK, Alive, Connected, Stream
  <2>3. TargetOurs => TargetOurs'
    BY <1>1, <1>8, <2>1 DEF TargetOurs, lineVars
  <2>4. AnswerInOrder'
    BY <1>4, <1>7, <1>8, <2>1, <2>2 DEF AnswerInOrder
  <2> QED BY <1>1, <1>7, <2>1, <2>2, <2>3, <2>4
<1>10. CASE Drain \/ DropEcho \/ ReadFirst \/ ReadOn \/ ReadEnds
  <2>1. Read /\ pc' # "drain" /\ UNCHANGED restVars
    BY <1>1, <1>4, <1>10 DEF Drain, DropEcho, ReadFirst, ReadOn, ReadEnds, GoTo
  <2>2. DevIsHealth' => DevIsHealth
    BY <2>1, ReadHealth
  <2>3. Connected' => Connected
    BY <1>8, <2>1 DEF Read, Connected
  <2>4. /\ wire' = Rest
        /\ Chunk \in Seq(Tokens) /\ Rest \in Seq(Tokens)
        /\ window \in Seq(Tokens) /\ buf \in Seq(Tokens) /\ toPrint \in Seq(Tokens)
        /\ \A i \in DOMAIN Chunk : i \in DOMAIN wire /\ Chunk[i] = wire[i]
        /\ \A i \in DOMAIN Rest : i \in Nat \ {0} /\ i + Len(Chunk) \in DOMAIN wire
                                  /\ Rest[i] = wire[i + Len(Chunk)]
        /\ DevIsHealth => \A i \in DOMAIN Rest : Len(Chunk) = ChunkMax
        /\ ~DevIsHealth => Chunk = <<>> /\ Rest = wire
    BY <2>1, ChunkTaken DEF Read, Rest, TypeOK, TargetOK, ThreadOK
  <2>5. ASSUME pc # "drain", NEW i \in DOMAIN Chunk PROVE Ours(Chunk[i])
    <3>1. DevIsHealth
      <4>1. \A j \in DOMAIN <<>> : FALSE
        OBVIOUS
      <4> QED BY <2>4, <2>5, <4>1
    <3> QED BY <1>7, <2>4, <2>5, <3>1 DEF TargetOurs
  <2>6. ASSUME DevIsHealth, NEW i \in DOMAIN Rest
        PROVE  Ours(Rest[i]) /\ (pc = "drain" => ~Rest[i].own)
    <3>1. i \in Nat \ {0} /\ i + ChunkMax \in DOMAIN wire /\ Rest[i] = wire[i + ChunkMax]
      BY <2>4, <2>6
    <3>2. ~(i + ChunkMax <= ChunkMax)
      BY <3>1, SizeTypes
    <3> QED BY <1>7, <2>6, <3>1, <3>2 DEF TargetOurs
  <2>7. DevIsHealth' => TargetOurs'
    BY <1>1, <1>7, <1>8, <2>1, <2>2, <2>4, <2>6 DEF TargetOurs
  <2>8. pc # "drain" => \A i \in DOMAIN (window \o Chunk) : Ours((window \o Chunk)[i])
    BY <1>7, <2>4, <2>5, OursConcat
  <2>9. (\A i \in DOMAIN window : Ours(window[i]))'
    <3>1. \A j \in DOMAIN <<>> : FALSE
      OBVIOUS
    <3>2. window' = window \/ window' = <<>> \/ (pc # "drain" /\ window' = window \o Chunk)
      BY <1>10 DEF Drain, DropEcho, ReadFirst, ReadOn, ReadEnds
    <3>3. CASE window' = window
      BY <1>7, <3>3
    <3>4. CASE window' = <<>>
      BY <3>1, <3>4
    <3>5. CASE pc # "drain" /\ window' = window \o Chunk
      BY <2>8, <3>5
    <3> QED BY <3>2, <3>3, <3>4, <3>5
  <2>10. (\A i \in DOMAIN buf : Ours(buf[i]))'
    <3>1. CASE Drain \/ DropEcho \/ ReadOn
      <4>1. buf' = buf
        BY <3>1 DEF Drain, DropEcho, ReadOn
      <4> QED BY <1>7, <4>1
    <3>2. CASE ReadFirst
      <4>1. buf' = Chunk /\ pc # "drain"
        BY <3>2 DEF ReadFirst
      <4> QED BY <2>5, <4>1
    <3>3. CASE ReadEnds
      <4> DEFINE old == buf \o window
      <4>1. buf' = old \o Chunk /\ pc # "drain"
        BY <3>3 DEF ReadEnds
      <4>2. old \in Seq(Tokens) /\ \A i \in DOMAIN old : Ours(old[i])
        BY <1>7, <2>4, OursConcat, ConcatProperties
      <4> HIDE DEF old
      <4>3. \A i \in DOMAIN (old \o Chunk) : Ours((old \o Chunk)[i])
        BY <2>4, <2>5, <4>1, <4>2, OursConcat
      <4> QED BY <4>1, <4>3
    <3> QED BY <1>10, <3>1, <3>2, <3>3
  <2>11. AnswerInOrder'
    <3>1. SUFFICES ASSUME transport # "serial"
                   PROVE  /\ Ordered(buf \o window, Word)'
                          /\ DevIsHealth' => /\ Ordered(Stream, Word)'
                                             /\ Connected' => Ordered(Stream \o toPrint, Word)'
      BY <1>8 DEF AnswerInOrder
    <3>2. /\ Ordered(buf \o window, Word)
          /\ DevIsHealth => /\ Ordered(Stream, Word)
                            /\ Connected => Ordered(Stream \o toPrint, Word)
      BY <1>7, <3>1 DEF AnswerInOrder
    <3>3. ~DropEcho
      BY <3>1 DEF DropEcho, Shape
    <3>4. CASE Drain
      <4> DEFINE old == buf \o window
      <4>1. UNCHANGED <<buf, window>> /\ pc = "drain" /\ old \in Seq(Tokens)
        BY <2>4, <3>4, ConcatProperties DEF Drain
      <4>2. Stream' = old \o Rest
        BY <2>4, <4>1 DEF Stream
      <4>3. Ordered(old, Word)' /\ Ordered(old, Word) /\ old' = old
        BY <1>4, <3>2, <4>1
      <4> HIDE DEF old
      <4>4. DevIsHealth => Ordered(Rest, Word) /\ Ordered(toPrint, Word)
        BY <1>7, <2>4, <2>6, <4>1, OrderedForeign DEF TargetOurs
      <4>5. old \o Rest \in Seq(Tokens)
        BY <2>4, <4>1, ConcatProperties
      <4>6. DevIsHealth => Ordered(old \o Rest, Word)
        BY <2>4, <4>1, <4>3, <4>4, OrderedConcat
      <4>7. DevIsHealth => Ordered((old \o Rest) \o toPrint, Word)
        <5> DEFINE new == old \o Rest
        <5>1. new \in Seq(Tokens) /\ (DevIsHealth => Ordered(new, Word))
          BY <4>5, <4>6
        <5> HIDE DEF new
        <5>2. DevIsHealth => Ordered(new \o toPrint, Word)
          BY <2>4, <4>4, <5>1, OrderedConcat
        <5> QED BY <5>2 DEF new
      <4>8. Ordered(buf \o window, Word)'
        BY <4>3 DEF old
      <4> QED BY <1>4, <1>8, <2>2, <4>2, <4>6, <4>7, <4>8
    <3>5. CASE ReadFirst \/ ReadOn \/ ReadEnds
      <4> DEFINE old == buf \o window
                 new == old \o Chunk
      <4>1. /\ buf' \o window' = new /\ new \in Seq(Tokens) /\ Stream' = Stream
            /\ Stream = new \o wire' /\ wire' \in Seq(Tokens)
        BY <2>1, <3>5, ReadText
      <4>2. old \in Seq(Tokens) /\ (~DevIsHealth => new = old)
        <5>1. old \in Seq(Tokens)
          BY <2>4, ConcatProperties
        <5> HIDE DEF old
        <5>2. ~DevIsHealth => Chunk = <<>>
          BY <2>4
        <5>3. old \o <<>> = old
          BY <5>1, EmptyConcat
        <5> QED BY <5>1, <5>2, <5>3
      <4>3. Ordered(new, Word)
        <5>1. ~DevIsHealth => Ordered(new, Word)
          <6>1. Ordered(old, Word)
            BY <3>2
          <6> HIDE DEF old, new
          <6> QED BY <4>2, <6>1
        <5>2. ASSUME DevIsHealth PROVE Ordered(new, Word)
          <6>1. Ordered(new \o wire', Word)
            <7> HIDE DEF new
            <7> QED BY <3>2, <4>1, <5>2
          <6> HIDE DEF new
          <6> QED BY <4>1, <6>1, OrderedPrefix
        <5> QED BY <5>1, <5>2
      <4> HIDE DEF old, new
      <4> QED BY <1>4, <1>8, <2>2, <2>3, <3>2, <4>1, <4>3
    <3> QED BY <1>10, <3>3, <3>4, <3>5
  <2> QED BY <1>1, <1>7, <2>7, <2>9, <2>10, <2>11
<1> QED BY <1>5, <1>9, <1>10

LEMMA AskWrite ==
    ASSUME TypeOK, Shape, AskInv, Write
    PROVE  AskInv'
<1>1. /\ UNCHANGED <<confVars, connVars, fault, shell, remote, toPrint, wire, call,
                     window, buf, late, bootLate, coreVars, since>>
      /\ pc = "write" /\ pc' \in {"garbage", "first", "read"}
  BY DEF Write
<1>2. AnswerIsOwn' /\ ListingIsTrue'
  BY <1>1 DEF AskInv, AnswerIsOwn, ListingIsTrue, coreVars, confVars
<1>3. SUFFICES ASSUME Asking'
               PROVE  /\ call'.line \in {"known", "unknown"}
                      /\ (\A i \in DOMAIN window : Ours(window[i]))'
                      /\ (\A i \in DOMAIN buf : Ours(buf[i]))'
                      /\ DevIsHealth' => TargetOurs'
                      /\ AnswerInOrder'
  BY <1>2 DEF AskInv
<1>4. Asking /\ Word' = Word
  BY <1>1, <1>3 DEF Asking, Word
<1>5. /\ call.line \in {"known", "unknown"}
      /\ \A i \in DOMAIN window : Ours(window[i])
      /\ \A i \in DOMAIN buf : Ours(buf[i])
      /\ DevIsHealth => TargetOurs
      /\ AnswerInOrder
  BY <1>4 DEF AskInv
<1>6. /\ DevIsHealth' = DevIsHealth /\ Stream' = Stream /\ Connected' = Connected
      /\ UNCHANGED <<transport, toPrint, buf, window>>
  BY <1>1 DEF DevIsHealth, TransportOK, Alive, Stream, Connected, confVars, connVars
<1>7. AnswerInOrder'
  BY <1>4, <1>5, <1>6 DEF AnswerInOrder
<1>8. TargetOurs => \A i \in DOMAIN input' : input'[i].own /\ input'[i].line = call.line
  <2> DEFINE R == [own : BOOLEAN, line : Lines]
             line == [own |-> TRUE, line |-> call.line]
             new == Append(input, line)
  <2>1. line \in R /\ line.line = call.line /\ line.own /\ input \in Seq(R)
    BY <1>1, Active DEF CallRecords, TypeOK, TargetOK
  <2>2. input' = new \/ input' = input
    BY DEF Write
  <2> HIDE DEF R, line
  <2>3. /\ Len(input) \in Nat /\ DOMAIN input = 1..Len(input)
        /\ DOMAIN new = 1..(Len(input) + 1)
        /\ \A j \in 1..Len(input) : new[j] = input[j]
        /\ new[Len(input) + 1] = line
    BY <2>1, AppendProperties, LenProperties
  <2> HIDE DEF new
  <2>4. \A i \in 1..(Len(input) + 1) : i \in 1..Len(input) \/ i = Len(input) + 1
    BY <2>3
  <2>5. ASSUME TargetOurs, NEW i \in DOMAIN input'
        PROVE  input'[i].own /\ input'[i].line = call.line
    <3>1. CASE input' = input
      BY <2>5, <3>1 DEF TargetOurs
    <3>2. CASE input' = new
      BY <2>1, <2>3, <2>4, <2>5, <3>2 DEF TargetOurs
    <3> QED BY <2>2, <3>1, <3>2
  <2> QED BY <2>5
<1>9. TargetOurs => TargetOurs'
  BY <1>1, <1>8 DEF TargetOurs
<1> QED BY <1>1, <1>5, <1>6, <1>7, <1>9

\* A call that asked nothing, or one that is over, has no answer to guard.
LEMMA AskNothing ==
    ASSUME AskInv, call'.op \notin Asks, UNCHANGED listing,
           \/ UNCHANGED <<ret, transport>>
           \/ ret'.op \notin Asks \/ ret'.status # "SUCCESS" \/ ~ret'.quiet
    PROVE  AskInv'
<1>1. ~Asking'
  BY DEF Asking
<1>2. AnswerIsOwn' /\ ListingIsTrue'
  BY DEF AskInv, AnswerIsOwn, ListingIsTrue
<1> QED BY <1>1, <1>2 DEF AskInv

(* The pattern matches: on the answer alone, and with the word that tells   *)
(* whether the command is known read before its prompt.                     *)
LEMMA AskMatches ==
    ASSUME TypeOK, Shape, AskInv, Matches
    PROVE  AskInv'
<1>1. /\ pc = "check" /\ Matched /\ Return(Status, buf) /\ listing' = Listing(buf)
      /\ transport' = transport
  BY DEF Matches, restVars, confVars
<1>2. ret' = Result(call.op, Status, call.quiet, buf) /\ call' = NoCall
  BY <1>1 DEF Return
<1>3. ~Asking'
  BY <1>2 DEF Asking, NoCall, Asks
<1>4. buf \in Seq(Tokens) /\ DOMAIN buf = 1..Len(buf)
      /\ \A i \in DOMAIN buf : buf[i] \in Tokens
  BY ElementOfSeq, LenProperties DEF TypeOK, ThreadOK
<1>5. ToSet(buf) = {buf[i] : i \in DOMAIN buf}
  BY DEF ToSet
<1>6. ASSUME Asking
      PROVE  /\ call.line \in {"known", "unknown"}
             /\ \A i \in DOMAIN buf : Ours(buf[i])
             /\ transport # "serial" => Ordered(buf, Word)
  <2>1. window = <<>>
    BY <1>1 DEF Shape
  <2>2. buf \o window = buf
    BY <1>4, <2>1, EmptyConcat
  <2> QED BY <1>6, <2>2 DEF AskInv, AnswerInOrder
<1>7. ASSUME Asking, transport # "serial", NEW i \in DOMAIN buf, buf[i].part = "prompt"
      PROVE  \E j \in DOMAIN buf :
                /\ buf[j] = Word
                /\ \A k \in DOMAIN buf : buf[k].part = "prompt" => j < k
  <2>1. \A k \in DOMAIN buf : buf[k].part = "prompt" => buf[k] = Own("prompt")
    BY <1>4, <1>6, <1>7 DEF Ours, Own, Tokens
  <2> QED BY <1>6, <1>7, <2>1 DEF Ordered
<1>8. AnswerIsOwn'
  <2>1. SUFFICES ASSUME call.op \in Asks, Status = "SUCCESS", call.quiet
                 PROVE  /\ ~ret'.foreign
                        /\ transport # "serial" /\ call.op \in {"ask", "expect"} => ret'.text
    BY <1>1, <1>2 DEF AnswerIsOwn, Result
  <2>2. Asking
    BY <1>1, <2>1 DEF Asking
  <2>3. ~ret'.foreign
    <3>1. ret'.foreign = \E token \in ToSet(buf) :
                            ~token.own /\ token.part \notin {"sig", "nature"}
      BY <1>2 DEF Result
    <3> QED BY <1>5, <1>6, <2>2, <3>1 DEF Ours
  <2>4. ASSUME transport # "serial", call.op \in {"ask", "expect"}
        PROVE  \E i \in DOMAIN buf : buf[i] = Own("text")
    <3>1. NotFoundAt(buf) = {i \in DOMAIN buf : buf[i] = Own("nocmd")}
      BY <2>4 DEF NotFoundAt
    <3>2. ~ \E i \in NotFoundAt(buf) : \A j \in PatternAt(buf) : i < j
      BY <2>1 DEF Status
    <3>3. PICK j : j \in PatternAt(buf)
      BY <1>1, <3>2 DEF Matched
    <3>4. CASE call.op = "expect"
      <4>1. PatternAt(buf) = {i \in DOMAIN buf : i = 1 /\ Has(buf, "text")}
        BY <3>4 DEF PatternAt
      <4>2. PICK i \in DOMAIN buf : buf[i].part = "text"
        BY <3>3, <4>1 DEF Has
      <4>3. buf[i] = Own("text")
        BY <1>4, <1>6, <2>2, <4>2 DEF Ours, Own, Tokens
      <4> QED BY <4>3
    <3>5. CASE call.op = "ask"
      <4>1. PatternAt(buf) = {i \in DOMAIN buf : PromptAt(buf, i)}
        BY <3>5 DEF PatternAt
      <4>2. \A k \in PatternAt(buf) : k \in DOMAIN buf /\ buf[k].part = "prompt"
        BY <4>1 DEF PromptAt
      <4>3. PICK i \in DOMAIN buf :
                /\ buf[i] = Word
                /\ \A k \in DOMAIN buf : buf[k].part = "prompt" => i < k
        BY <1>7, <2>2, <2>4, <3>3, <4>2
      <4>4. i \notin NotFoundAt(buf)
        BY <3>2, <4>2, <4>3
      <4>5. Word = Own("text")
        BY <3>1, <4>3, <4>4 DEF Word
      <4> QED BY <4>3, <4>5
    <3> QED BY <2>4, <3>4, <3>5
  <2>5. ret'.text = (Own("text") \in ToSet(buf))
    BY <1>2 DEF Result
  <2> QED BY <1>5, <2>3, <2>4, <2>5
<1>9. ListingIsTrue'
  <2>1. CASE listing' = listing
    BY <2>1 DEF AskInv, ListingIsTrue
  <2>2. CASE listing' # listing
    <3>1. /\ call.op = "list" /\ ~Has(buf, "nocmd")
          /\ listing' = [of |-> IF Own("text") \in ToSet(buf) THEN "names"
                                ELSE IF Has(buf, "text") THEN "other" ELSE "nothing",
                         quiet |-> call.quiet /\ transport # "serial"]
      BY <1>1, <2>2 DEF Listing
    <3>2. SUFFICES ASSUME call.quiet, transport # "serial"
                   PROVE  Own("text") \in ToSet(buf)
      BY <3>1 DEF ListingIsTrue
    <3>3. Asking
      BY <1>1, <3>1, <3>2 DEF Asking, Asks
    <3>4. PatternAt(buf) = {i \in DOMAIN buf : PromptAt(buf, i)} /\ NotFoundAt(buf) = {}
      BY <3>1 DEF PatternAt, NotFoundAt
    <3>5. PICK k \in DOMAIN buf : buf[k].part = "prompt"
      BY <1>1, <3>4 DEF Matched, PromptAt
    <3>6. PICK i \in DOMAIN buf : buf[i] = Word
      BY <1>7, <3>2, <3>3, <3>5
    <3>7. Word = Own("text")
      <4>1. buf[i].part # "nocmd"
        BY <3>1, <3>6 DEF Has
      <4>2. call.line = "known"
        BY <3>6, <4>1 DEF Word, Own
      <4> QED BY <4>2 DEF Word
    <3> QED BY <1>5, <3>6, <3>7
  <2> QED BY <2>1, <2>2
<1> QED BY <1>3, <1>8, <1>9 DEF AskInv

\* The stages that only starting, stopping and rebooting go through.
LEMMA AskOthers ==
    ASSUME TypeOK, Shape, AskInv,
           \/ FlushEnds \/ ReadResponse \/ BootTimeout \/ OpenHost \/ AlreadyOpen
           \/ NothingToRun \/ Connect \/ OpenSerial \/ SerialRaises \/ Kill
    PROVE  AskInv'
<1>1. \A phase : ToBoot(phase) => call'.op = call.op /\ UNCHANGED <<ret, listing>>
  <2>1. pc # "idle"
    BY DEF FlushEnds, ReadResponse, BootTimeout, OpenHost, AlreadyOpen, NothingToRun,
       Connect, OpenSerial, SerialRaises, Kill
  <2> QED BY <2>1, Active DEF ToBoot, CallRecords, coreVars
<1>2. \A status, output : Return(status, output) =>
          call'.op \notin Asks /\ ret'.op = call.op /\ ret'.status = status
  BY DEF Return, Result, NoCall, Asks
<1>3. \A booted : BootEnds(booted) =>
          /\ UNCHANGED listing
          /\ call'.op = call.op \/ call'.op \notin Asks
          /\ ret' = ret \/ ret'.op = call.op
  BY <1>1, <1>2 DEF BootEnds
<1>4. UNCHANGED listing /\ transport' = transport
  BY <1>1, <1>3 DEF FlushEnds, ReadResponse, Responded, BootTimeout, OpenHost, AlreadyOpen,
     NothingToRun, Connect, OpenSerial, SerialRaises, Kill, restVars, confVars, coreVars
<1>5. CASE FlushEnds
  <2>1. Return("TIMEOUT", buf)
    BY <1>5 DEF FlushEnds
  <2> QED BY <1>2, <1>4, <2>1, AskNothing
<1>6. CASE ~FlushEnds
  <2>1. pc \in {"read", "boot", "open", "connect", "kill"}
    BY <1>6 DEF ReadResponse, BootTimeout, OpenHost, AlreadyOpen, NothingToRun,
       Connect, OpenSerial, SerialRaises, Kill
  <2>2. call.op \notin Asks
    BY <2>1, Active DEF PhaseOK, Pattern, Asks
  <2>3. /\ call'.op = call.op \/ call'.op \notin Asks
        /\ ret' = ret \/ ret'.op = call.op
    BY <1>1, <1>2, <1>3, <1>6 DEF ReadResponse, Responded, BootTimeout, OpenHost, AlreadyOpen,
       NothingToRun, Connect, OpenSerial, SerialRaises, Kill, coreVars
  <2> QED BY <1>4, <2>2, <2>3, AskNothing
<1> QED BY <1>5, <1>6

(* A command that is given on a quiet line.                                 *)
LEMMA AskBegins ==
    ASSUME TypeOK, Shape, AskInv, NEW op \in Asks, NEW line \in {"known", "unknown"},
           Begin(op, line, "asking", "drain"), Disown,
           UNCHANGED <<handle, sock, fault, shell, remote>>
    PROVE  AskInv'
<1>1. /\ pc = "idle" /\ pc' = "drain" /\ ret' = NoRet
      /\ call' = [op |-> op, line |-> line, phase |-> "asking", quiet |-> Quiet]
      /\ UNCHANGED <<transport, window, buf, listing>>
  BY DEF Begin, confVars
<1>2. AnswerIsOwn' /\ ListingIsTrue'
  BY <1>1 DEF AskInv, AnswerIsOwn, ListingIsTrue, NoRet, Asks
<1>3. SUFFICES ASSUME Asking'
               PROVE  /\ call'.line \in {"known", "unknown"}
                      /\ (\A i \in DOMAIN window : Ours(window[i]))'
                      /\ (\A i \in DOMAIN buf : Ours(buf[i]))'
                      /\ TargetOurs'
                      /\ AnswerInOrder'
  BY <1>2 DEF AskInv
<1>4. Quiet
  BY <1>1, <1>3 DEF Asking
<1>5. window' = <<>> /\ buf' = <<>> /\ <<>> \in Seq(Tokens)
  BY <1>1, EmptySeq DEF Shape
<1>6. \A i \in DOMAIN <<>> : FALSE
  OBVIOUS
<1>7. input' = <<>> /\ toPrint' = <<>>
  <2>1. input = <<>> /\ toPrint = <<>> /\ toPrint \in Seq(Tokens)
    BY <1>4 DEF Quiet, TypeOK, TargetOK
  <2>2. toPrint' = <<>>
    BY <2>1, DisownedText DEF Disown
  <2>3. input' = <<>>
    BY <2>1, DisownedInput DEF Disown
  <2> QED BY <2>2, <2>3
<1>8. /\ wire' \in Seq(Tokens)
      /\ \A i \in DOMAIN wire' : ~wire'[i].own /\ i <= ChunkMax
  <2>1. wire \in Seq(Tokens) /\ Len(wire) <= ChunkMax
        /\ Len(wire) \in Nat /\ DOMAIN wire = 1..Len(wire)
    BY <1>4, LenProperties DEF Quiet, TypeOK, TargetOK
  <2>2. /\ wire' \in Seq(Tokens) /\ DOMAIN wire' = DOMAIN wire
        /\ \A i \in DOMAIN wire' : ~wire'[i].own
    BY <2>1, DisownedText DEF Disown
  <2>3. \A i \in 1..Len(wire) : i <= ChunkMax
    BY <2>1, SizeTypes
  <2> QED BY <2>1, <2>2, <2>3
<1>9. TargetOurs'
  BY <1>1, <1>4, <1>6, <1>7, <1>8 DEF TargetOurs, Quiet
<1>10. /\ buf' \o window' = <<>> /\ Stream' = wire' /\ Stream' \o toPrint' = wire'
  BY <1>5, <1>7, <1>8, EmptyConcat DEF Stream
<1>11. \A word : Ordered(<<>>, word) /\ Ordered(wire', word)
  BY <1>5, <1>6, <1>8, OrderedForeign
<1>12. AnswerInOrder'
  BY <1>10, <1>11 DEF AnswerInOrder
<1> QED BY <1>1, <1>5, <1>6, <1>9, <1>12

LEMMA AskCalls ==
    ASSUME TypeOK, Shape, AskInv, Calls
    PROVE  AskInv'
<1>1. call = NoCall /\ listing' = listing /\ transport' = transport
  BY DEF Calls, Ask, LineTooLong, CachedList, SwitchNowhere, SwitchCore, ForcePanic,
     Start, Stop, StopEmulator, Restart, RestartRefused, ResetSerial, PoweroffSerial,
     SoftReboot, Begin, ReturnAtOnce, restVars, confVars, Shape
<1>2. ASSUME call' = call, \E op, status : ret' = Result(op, status, FALSE, <<>>)
      PROVE  AskInv'
  <2>1. ~ret'.quiet /\ call'.op \notin Asks
    BY <1>1, <1>2 DEF Result, NoCall, Asks
  <2> QED BY <1>1, <2>1, AskNothing
<1>3. ASSUME NEW op, NEW line, NEW phase, NEW stage, Begin(op, line, phase, stage),
             op \notin Asks
      PROVE  AskInv'
  <2>1. call'.op \notin Asks /\ ret'.op \notin Asks
    BY <1>3 DEF Begin, NoRet, Asks
  <2> QED BY <1>1, <2>1, AskNothing
<1>4. CASE Ask
  <2>1. /\ Disown /\ UNCHANGED <<handle, sock, fault, shell, remote>>
        /\ \/ \E op \in {"ask", "expect", "info", "list"}, line \in {"known", "unknown"} :
                  Begin(op, line, "asking", "drain")
           \/ Begin("read", "enter", "asking", "loop")
    BY <1>4 DEF Ask
  <2>2. CASE Begin("read", "enter", "asking", "loop")
    BY <1>3, <2>2 DEF Asks
  <2>3. CASE \E op \in {"ask", "expect", "info", "list"}, line \in {"known", "unknown"} :
                  Begin(op, line, "asking", "drain")
    BY <2>1, <2>3, AskBegins DEF Asks
  <2> QED BY <2>1, <2>2, <2>3
<1>5. CASE LineTooLong \/ CachedList \/ SwitchNowhere \/ ForcePanic
           \/ RestartRefused("reboot") \/ RestartRefused("poweroff") \/ PoweroffSerial
           \/ (Stop /\ ~StopEmulator("stop"))
  BY <1>2, <1>5 DEF LineTooLong, CachedList, SwitchNowhere, ForcePanic, RestartRefused,
     PoweroffSerial, Stop, ReturnAtOnce, threadVars
<1>6. CASE SwitchCore \/ Start \/ ResetSerial \/ SoftReboot
  <2>1. \E op, line, phase, stage : op \notin Asks /\ Begin(op, line, phase, stage)
    BY <1>6 DEF SwitchCore, Start, ResetSerial, SoftReboot, Asks
  <2> QED BY <1>3, <2>1
<1>7. ASSUME NEW op \in {"stop", "reboot", "poweroff"}, StopEmulator(op) \/ Restart(op)
      PROVE  AskInv'
  <2>1. \E line, phase, stage : Begin(op, line, phase, stage)
    BY <1>7 DEF StopEmulator, Restart
  <2>2. op \notin Asks
    BY <1>7 DEF Asks
  <2> QED BY <1>3, <2>1, <2>2
<1> QED BY <1>4, <1>5, <1>6, <1>7 DEF Calls, Stop

LEMMA AskStep ==
    ASSUME TypeOK, Shape, AskInv, [Next]_vars
    PROVE  AskInv'
<1>1. CASE Calls
  BY <1>1, AskCalls
<1>2. CASE CallStep
  BY <1>2, AskReads, AskWrite, AskMatches, AskOthers DEF CallStep
<1>3. CASE Environment
  BY <1>3, AskEnvironment
<1>4. CASE UNCHANGED vars
  BY <1>4 DEF vars, confVars, connVars, targetVars, threadVars, coreVars, AskInv, Asking,
     TargetOurs, Ours, AnswerInOrder, Ordered, Word, Stream, Connected, AnswerIsOwn,
     ListingIsTrue, DevIsHealth, TransportOK, Alive
<1> QED BY <1>1, <1>2, <1>3, <1>4 DEF Next

LEMMA AskInvariant == Spec => []AskInv
<1>1. Init => AskInv
  BY DEF Init, AskInv, Asking, AnswerIsOwn, ListingIsTrue, NoCall, NoRet, Asks
<1>2. /\ TypeOK /\ Shape /\ AskInv /\ [Next]_vars
      => (TypeOK /\ Shape /\ AskInv)'
  BY TypeStep, AskStep
<1> QED BY <1>1, <1>2, TypeInit, PTL DEF Spec

(* A command given on a quiet line succeeds on its own output alone, and but *)
(* on a serial line on all of it (send_cmd_read_until_pattern).             *)
THEOREM AnswersAreOwn == Spec => []AnswerIsOwn
<1>1. AskInv => AnswerIsOwn
  BY DEF AskInv
<1> QED BY <1>1, AskInvariant, PTL

(* The cached list of commands, asked for on a quiet line but a serial      *)
(* port's, holds the target's commands for as long as it is kept            *)
(* (_check_cmd_runtime).                                                   *)
THEOREM ListingsAreTrue == Spec => []ListingIsTrue
<1>1. AskInv => ListingIsTrue
  BY DEF AskInv
<1> QED BY <1>1, AskInvariant, PTL
=============================================================================
