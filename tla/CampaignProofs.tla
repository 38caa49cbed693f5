---------------------------- MODULE CampaignProofs ----------------------------
(***************************************************************************)
(* Theorems about Campaign: what is built, flashed and tested, for any       *)
(* number of configurations, cores, directories, boards, options, tests and  *)
(* invocations, each of which may fail or be killed at any command.          *)
(***************************************************************************)
EXTENDS Campaign, SequenceTheorems, TLAPS

-----------------------------------------------------------------------------
(* Where an invocation can be. *)

Core(u, i)    == Conf(u).cores[i]
Options(u, i) == KconfigOverrides(Conf(u), Core(u, i))

Changing  == {"configure", "tweak", "olddefconfig", "again", "check", "compile"}
Tweaked   == {"tweak", "olddefconfig", "again", "check"}
HereDir   == Core(cur, at).dir

\* The builder is at work in the directory of the core it is at.
Working == phase = "build" /\ step \in Changing

\* What the directory of that core holds.
WorkOK ==
    LET d == HereDir
    IN /\ Core(cur, at).def # NONE
       /\ step # "configure" =>
             dotconf[d] # NONE /\ dotconf[d].def = Core(cur, at).def
       /\ step \in Tweaked => Keys(Options(cur, at)) # {}
       /\ step \in {"again", "check"} => dotconf[d].bare = {}
       /\ step \in {"check", "compile"} =>
             apps[d] = dotconf[d].on \ dotconf[d].bare
       /\ step = "compile" =>
             /\ Keys(Options(cur, at)) # {} => dotconf[d].bare = {}
             /\ Fits(dotconf[d], Options(cur, at))

Shape ==
    /\ built \in Seq(Nat)
    /\ step = "failed" => phase = "build"
    /\ phase \in {"key", "build"} => Len(built) = cur - 1
    /\ phase = "key" => step = "core" /\ at = 1
    /\ phase = "build" =>
          /\ at \in DOMAIN Conf(cur).cores
          /\ NeedBuild(Conf(cur))
          /\ step \in Changing => WorkOK
    /\ Testing => Len(built) = Len(cmd.sessions)
    /\ phase = "collect" => ~Multi

-----------------------------------------------------------------------------
(* Which cores have been built or flashed so far. *)

Own(u) == u \in DOMAIN built /\ built[u] = u

\* Its image is there: built by this invocation.
Ready(u, i) ==
    /\ u \in Sessions /\ i \in DOMAIN Conf(u).cores
    /\ Core(u, i).def # NONE
    /\ \/ Own(u)
       \/ /\ phase = "build" /\ u = cur
          /\ step \in {"flash", "built"} \/ i < at \/ (i = at /\ step = "register")

\* It is on its board.
Flashed(u, i) ==
    /\ Ready(u, i)
    /\ \/ Own(u)
       \/ step = "built" \/ (step = "flash" /\ i < at)

\* This invocation builds or flashes it, or will.
Handled(u, i) ==
    /\ u \in Sessions /\ i \in DOMAIN Conf(u).cores
    /\ (Own(u) /\ NeedBuild(Conf(u))) \/ (phase = "build" /\ u = cur)

Apart(c, d) == c.dir # d.dir /\ (c.board = NONE \/ c.board # d.board)

Separate(u, i) ==
    \A v \in Sessions : \A j \in DOMAIN Conf(v).cores :
        Handled(v, j) /\ <<v, j>> # <<u, i>> => Apart(Core(v, j), Core(u, i))

-----------------------------------------------------------------------------
(* What the directories and boards hold. *)

Matches(d) ==
    /\ elf[d] # NONE
    /\ elf[d].def = dotconf[d].def
    /\ elf[d].on = dotconf[d].on \ dotconf[d].bare

\* An image that is ready is what the .config says, unless its directory is
\* being rebuilt for another core.
MatchInv ==
    \A u \in Sessions : \A i \in DOMAIN Conf(u).cores :
        Ready(u, i) /\ cmd.rebuild /\ step # "failed" =>
            LET d == Core(u, i).dir
                here == Working /\ d = HereDir
            IN /\ dotconf[d] # NONE
               /\ ~here => Matches(d)
               /\ /\ Keys(Options(u, i)) # {}
                  /\ ~(here /\ step \in {"tweak", "olddefconfig"})
                  => dotconf[d].bare = {}

\* The image of a core that shares no directory has its options.
FitInv ==
    \A u \in Sessions : \A i \in DOMAIN Conf(u).cores :
        Ready(u, i) /\ cmd.rebuild /\ Separate(u, i) =>
            LET image == elf[Core(u, i).dir]
            IN /\ image # NONE
               /\ image.def = Core(u, i).def
               /\ image.env = BuildEnv(Conf(u), Core(u, i))
               /\ Fits(image, Options(u, i))

\* And it is the one on its board.
BoardInv ==
    \A u \in Sessions : \A i \in DOMAIN Conf(u).cores :
        Flashed(u, i) /\ Flashing /\ Separate(u, i) /\ Core(u, i).board # NONE =>
            board[Core(u, i).board] = elf[Core(u, i).dir]

\* A session uses a build with its own key.
KeyInv == \A i \in DOMAIN built : BuildKey(built[i]) = BuildKey(i)

\* The tests to be run were found supported.
CollectInv ==
    phase = "run" \/ (~Multi /\ phase \in {"cleanup", "mkdir", "start"}) =>
        collected \subseteq Supported(cur)

-----------------------------------------------------------------------------
(* The configurations of a command. *)

LEMMA OverlayType ==
    ASSUME NEW kv \in Overrides, NEW over \in Overrides
    PROVE  Overlay(kv, over) \in Overrides
BY DEF Overrides, Overlay

LEMMA CommandType ==
    ASSUME cmd \in Commands
    PROVE  /\ cmd.sessions \in Seq([conf : Confs, tests : SUBSET Tests])
           /\ cmd.sessions # <<>>
           /\ cmd.json \in Overrides
           /\ cmd.kind \in {"build", "collect", "test", "multi"}
           /\ {cmd.rebuild, cmd.flash, cmd.failFast} \subseteq BOOLEAN
           /\ cmd.kind # "multi" => Len(cmd.sessions) = 1
           /\ Sessions = 1..Len(cmd.sessions)
           /\ Len(cmd.sessions) \in Nat \ {0}
           /\ 1 \in Sessions
<1>1. /\ cmd.sessions \in Seq([conf : Confs, tests : SUBSET Tests]) \ {<<>>}
      /\ cmd.json \in Overrides
      /\ cmd.kind \in {"build", "collect", "test", "multi"}
      /\ {cmd.rebuild, cmd.flash, cmd.failFast} \subseteq BOOLEAN
      /\ cmd.kind # "multi" => Len(cmd.sessions) = 1
  BY TestAssumption
<1> DEFINE S == [conf : Confs, tests : SUBSET Tests]
           q == cmd.sessions
<1>2. q \in Seq(S) /\ q # <<>>
  BY <1>1
<1> HIDE DEF S, q
<1>3. Len(q) \in Nat /\ DOMAIN q = 1..Len(q) /\ (q # <<>> => Len(q) # 0)
  BY <1>2, LenProperties, EmptySeq
<1> USE DEF q
<1>4. Len(cmd.sessions) \in Nat \ {0} /\ Sessions = 1..Len(cmd.sessions)
  BY <1>2, <1>3 DEF Sessions
<1>5. 1 \in Sessions
  BY <1>4
<1> QED BY <1>1, <1>4, <1>5

LEMMA ConfType ==
    ASSUME cmd \in Commands, NEW u \in Sessions
    PROVE  /\ Conf(u) \in Confs
           /\ Conf(u).cores \in Seq(Cores)
           /\ Conf(u).kv \in Overrides
           /\ Conf(u).env \in Envs
           /\ Conf(u).kv = Overlay(cmd.sessions[u].conf.kv, cmd.json)
           /\ Conf(u).env = cmd.sessions[u].conf.env
           /\ Conf(u).cores = cmd.sessions[u].conf.cores
           /\ Len(Conf(u).cores) \in Nat \ {0}
           /\ DOMAIN Conf(u).cores = 1..Len(Conf(u).cores)
           /\ cmd.sessions[u].tests \subseteq Tests
<1> DEFINE conf == cmd.sessions[u].conf
           q    == conf.cores
<1>1. cmd.sessions[u] \in [conf : Confs, tests : SUBSET Tests]
  <2> DEFINE S == [conf : Confs, tests : SUBSET Tests]
  <2>1. cmd.sessions \in Seq(S) /\ u \in 1..Len(cmd.sessions)
    BY CommandType
  <2> HIDE DEF S
  <2>2. cmd.sessions[u] \in S
    BY <2>1, ElementOfSeq
  <2> QED BY <2>2 DEF S
<1>2. conf \in Confs /\ cmd.sessions[u].tests \subseteq Tests
  BY <1>1
<1>3. conf.kv \in Overrides /\ conf.env \in Envs /\ q \in Seq(Cores)
  BY <1>2 DEF Confs
<1>4. q # <<>>
  BY TestAssumption DEF Sessions
<1>5. Overlay(conf.kv, cmd.json) \in Overrides
  BY <1>3, CommandType, OverlayType
<1>6. Conf(u) = [conf EXCEPT !.kv = Overlay(@, cmd.json)]
  BY DEF Conf
<1>7. /\ Conf(u) = [kv |-> Overlay(conf.kv, cmd.json), env |-> conf.env,
                    cores |-> conf.cores]
  BY <1>2, <1>6 DEF Confs
<1> HIDE DEF q
<1>8. Len(q) \in Nat /\ DOMAIN q = 1..Len(q) /\ Len(q) # 0
  BY <1>3, <1>4, LenProperties, EmptySeq
<1> USE DEF q
<1>9. Conf(u).cores = q
  BY <1>7
<1> HIDE DEF conf
<1>10. Conf(u) \in Confs
  BY <1>3, <1>5, <1>7 DEF Confs
<1> USE DEF conf
<1> QED BY <1>2, <1>3, <1>5, <1>7, <1>8, <1>9, <1>10

LEMMA CoreType ==
    ASSUME cmd \in Commands, NEW u \in Sessions, NEW i \in DOMAIN Conf(u).cores
    PROVE  /\ i \in Nat \ {0} /\ i <= Len(Conf(u).cores)
           /\ Core(u, i) \in Cores
           /\ Core(u, i).dir \in Dirs
           /\ Core(u, i).def # NONE => Core(u, i).def \in Defconfigs
           /\ Core(u, i).kv \in Overrides
           /\ BuildEnv(Conf(u), Core(u, i)) \in Envs
           /\ Core(u, i).board # NONE => Core(u, i).board \in Boards
           /\ Options(u, i) \in Overrides
           /\ Keys(Options(u, i)) \subseteq Symbols
<1>1. Conf(u).cores \in Seq(Cores) /\ DOMAIN Conf(u).cores = 1..Len(Conf(u).cores)
      /\ Len(Conf(u).cores) \in Nat
  BY ConfType
<1> DEFINE q == Conf(u).cores
<1> HIDE DEF q
<1>2. q[i] \in Cores
  BY <1>1, ElementOfSeq DEF q
<1>3. Core(u, i) \in Cores
  BY <1>2 DEF q, Core
<1>4. i \in Nat \ {0} /\ i <= Len(Conf(u).cores)
  BY <1>1
<1>5. /\ Core(u, i).dir \in Dirs
      /\ Core(u, i).def # NONE => Core(u, i).def \in Defconfigs
      /\ Core(u, i).kv \in Overrides
      /\ Core(u, i).board # NONE => Core(u, i).board \in Boards
      /\ Core(u, i).env # NONE => Core(u, i).env \in Envs
  BY <1>3 DEF Cores
<1>6. BuildEnv(Conf(u), Core(u, i)) \in Envs
  BY <1>5, ConfType DEF BuildEnv
<1>7. Options(u, i) \in Overrides
  BY <1>5, ConfType, OverlayType DEF Options, KconfigOverrides
<1>8. Keys(Options(u, i)) \subseteq Symbols
  BY <1>7 DEF Keys, Overrides
<1> QED BY <1>3, <1>4, <1>5, <1>6, <1>7, <1>8

(* A configuration does not change while its command runs. *)
LEMMA ConfFrame ==
    ASSUME cmd' = cmd
    PROVE  /\ Sessions' = Sessions /\ Multi' = Multi /\ Flashing' = Flashing
           /\ \A u : /\ Conf(u)' = Conf(u)
                     /\ BuildKey(u)' = BuildKey(u)
                     /\ \A i : /\ Core(u, i)' = Core(u, i)
                               /\ Options(u, i)' = Options(u, i)
<1>1. Sessions' = Sessions /\ Multi' = Multi /\ Flashing' = Flashing
  BY DEF Sessions, Multi, Flashing
<1>2. \A u : Conf(u)' = Conf(u)
  BY DEF Conf
<1>3. \A u : BuildKey(u)' = BuildKey(u)
  BY <1>2 DEF BuildKey
<1>4. \A u, i : Core(u, i)' = Core(u, i) /\ Options(u, i)' = Options(u, i)
  BY <1>2 DEF Core, Options
<1> QED BY <1>1, <1>2, <1>3, <1>4

\* Nor does the core the builder is at while it works on it.
LEMMA HereFrame ==
    ASSUME cmd' = cmd, cur' = cur
    PROVE  /\ Conf(cur)' = Conf(cur)
           /\ NeedBuild(Conf(cur))' = NeedBuild(Conf(cur))
           /\ at' = at => /\ Core(cur, at)' = Core(cur, at)
                          /\ HereDir' = HereDir
                          /\ Options(cur, at)' = Options(cur, at)
<1>1. Conf(cur)' = Conf(cur)
  BY DEF Conf
<1>2. NeedBuild(Conf(cur))' = NeedBuild(Conf(cur))
  BY <1>1 DEF NeedBuild
<1>3. at' = at => Core(cur, at)' = Core(cur, at)
  BY <1>1 DEF Core
<1>4. at' = at => HereDir' = HereDir /\ Options(cur, at)' = Options(cur, at)
  BY <1>1, <1>3 DEF HereDir, Options
<1> QED BY <1>1, <1>2, <1>3, <1>4

-----------------------------------------------------------------------------
(* Types, and where an invocation can be.                                   *)

LEMMA AbortType ==
    ASSUME TypeOK, Shape, Abort
    PROVE  TypeOK' /\ Shape'
<1>1. BuildTypeOK'
  BY DEF TypeOK, Abort, BuildTypeOK, disk, Steps
<1>2. /\ cmd' = cmd /\ cur' = 1 /\ built' = <<>> /\ phase' = "done"
      /\ exit' = "error" /\ collected' = {} /\ step' = "built"
      /\ reports' = reports /\ code' = code /\ runs' = runs
  BY DEF Abort, End, results
<1>3. Sessions' = Sessions /\ 1 \in Sessions /\ Len(cmd.sessions) \in Nat
  BY <1>2, CommandType, ConfFrame DEF TypeOK
<1>4. Len(<<>>) = 0 /\ <<>> \in Seq(Nat) /\ DOMAIN <<>> = {}
  OBVIOUS
<1>5. TypeOK'
  BY <1>1, <1>2, <1>3, <1>4 DEF TypeOK, Phases
<1>6. Shape'
  BY <1>2, <1>4 DEF Shape, Testing
<1> QED BY <1>5, <1>6

LEMMA SettledType ==
    ASSUME TypeOK, Shape, phase \in {"key", "build"},
           NEW s \in 1..cur, s # cur => s \in DOMAIN built /\ built[s] = s,
           Settled(s), UNCHANGED <<disk, runs, cmd, collected, results>>
    PROVE  TypeOK' /\ Shape'
<1>1. /\ cmd' = cmd /\ built' = Append(built, s) /\ step' = "core" /\ at' = 1
      /\ todo' = {} /\ reports' = reports /\ code' = code /\ runs' = runs
      /\ collected' = collected
  BY DEF Settled, results
<1>2. BuildTypeOK'
  BY <1>1 DEF TypeOK, BuildTypeOK, disk, Steps
<1>3. /\ Sessions' = Sessions /\ Multi' = Multi /\ Sessions = 1..Len(cmd.sessions)
      /\ Len(cmd.sessions) \in Nat \ {0} /\ 1 \in Sessions
  BY <1>1, CommandType, ConfFrame DEF TypeOK
<1>4. /\ built \in Seq(Nat) /\ Len(built) = cur - 1 /\ s \in Nat
      /\ cur \in 1..Len(cmd.sessions)
  BY <1>3 DEF Shape, TypeOK
<1>5. /\ built' \in Seq(Nat) /\ Len(built') = cur
      /\ DOMAIN built = 1..(cur - 1) /\ DOMAIN built' = 1..cur
      /\ built'[cur] = s /\ \A i \in 1..(cur - 1) : built'[i] = built[i]
  BY <1>1, <1>4, AppendProperties, LenProperties
<1>6. \A i \in DOMAIN built' : built'[i] \in 1..i /\ built'[built'[i]] = built'[i]
  <2> SUFFICES ASSUME NEW i \in 1..cur
               PROVE  built'[i] \in 1..i /\ built'[built'[i]] = built'[i]
    BY <1>5
  <2>1. CASE i = cur
    BY <1>4, <1>5, <2>1
  <2>2. CASE i # cur
    <3>1. i \in DOMAIN built /\ built'[i] = built[i]
      BY <1>4, <1>5, <2>2
    <3>2. built[i] \in 1..i /\ built[built[i]] = built[i]
      BY <3>1 DEF TypeOK
    <3>3. built[i] \in 1..(cur - 1)
      BY <1>4, <2>2, <3>2
    <3> QED BY <1>5, <3>1, <3>2, <3>3
  <2> QED BY <2>1, <2>2
<1>7. /\ phase' \in {"key", "cleanup", "done", "collect"}
      /\ cur' \in Sessions
      /\ exit' \in {exit, "ok"}
      /\ phase' = "key" => cur' = cur + 1
      /\ phase' # "key" => cur = Len(cmd.sessions)
      /\ phase' = "collect" => ~Multi
  <2>1. CASE cur < Len(cmd.sessions)
    BY <1>3, <1>4, <2>1 DEF Settled
  <2>2. CASE ~(cur < Len(cmd.sessions))
    <3>1. cur' = 1 /\ cur = Len(cmd.sessions)
      BY <1>4, <2>2 DEF Settled
    <3>2. CASE Multi
      BY <1>3, <2>2, <3>1, <3>2 DEF Settled, Multi
    <3>3. CASE ~Multi
      <4>1. phase' \in {"done", "collect"} /\ exit' \in {exit, "ok"}
        BY <2>2, <3>3 DEF Settled, End
      <4> QED BY <1>3, <3>1, <3>3, <4>1
    <3> QED BY <3>2, <3>3
  <2> QED BY <2>1, <2>2
<1>8. TypeOK'
  <2>1. Len(built') <= Len(cmd'.sessions)
    BY <1>1, <1>4, <1>5
  <2> QED BY <1>1, <1>2, <1>3, <1>6, <1>7, <2>1 DEF TypeOK, Phases
<1>9. Shape'
  <2>1. phase' = "key" => Len(built') = cur' - 1
    BY <1>4, <1>5, <1>7
  <2>2. phase' # "key" => Len(built') = Len(cmd'.sessions)
    BY <1>1, <1>5, <1>7
  <2> QED BY <1>1, <1>3, <1>5, <1>7, <2>1, <2>2 DEF Shape, Testing
<1> QED BY <1>8, <1>9

LEMMA LookUpType ==
    ASSUME TypeOK, Shape, LookUp
    PROVE  TypeOK' /\ Shape'
<1> DEFINE same == {s \in 1..(cur - 1) : BuildKey(s) = BuildKey(cur)}
           s0 == CHOOSE s \in same : TRUE
<1>1. /\ Sessions = 1..Len(cmd.sessions) /\ Len(cmd.sessions) \in Nat
      /\ cur \in Sessions /\ cur \in Nat \ {0}
  BY CommandType DEF TypeOK
<1>2. Len(built) = cur - 1 /\ built \in Seq(Nat) /\ phase = "key"
      /\ DOMAIN built = 1..(cur - 1)
  BY LenProperties DEF Shape, LookUp
<1>3. UNCHANGED <<disk, runs, cmd, collected, results>>
  BY DEF LookUp
<1>4. CASE same # {}
  <2>1. s0 \in 1..(cur - 1)
    BY <1>4
  <2>2. Settled(built[s0])
    BY <1>4 DEF LookUp
  <2> HIDE DEF s0, same
  <2>3. built[s0] \in 1..s0 /\ built[built[s0]] = built[s0]
    BY <1>2, <2>1 DEF TypeOK
  <2>4. built[s0] \in 1..cur /\ built[s0] \in 1..(cur - 1)
    BY <1>1, <2>1, <2>3
  <2> QED BY <1>2, <1>3, <2>2, <2>3, <2>4, SettledType
<1>5. CASE same = {} /\ ~NeedBuild(Conf(cur))
  <2>1. Settled(cur)
    BY <1>5 DEF LookUp
  <2>2. cur \in 1..cur
    BY <1>1
  <2> QED BY <1>2, <1>3, <2>1, <2>2, SettledType
<1>6. CASE same = {} /\ NeedBuild(Conf(cur))
  <2>1. /\ phase' = "build" /\ UNCHANGED <<builder, cur, built, exit>>
    BY <1>6 DEF LookUp
  <2>2. /\ UNCHANGED <<elf, dotconf, apps, board, step, at, todo, runs, cmd, cur,
                       built, collected, reports, code, exit>>
    BY <1>3, <2>1 DEF disk, builder, results
  <2>3. Sessions' = Sessions
    BY <2>2, ConfFrame
  <2>4. TypeOK'
    BY <2>1, <2>2, <2>3 DEF TypeOK, BuildTypeOK, Phases
  <2>5. step = "core" /\ at = 1
    BY <1>2 DEF Shape
  <2>6. 1 \in DOMAIN Conf(cur).cores
    BY <1>1, ConfType DEF TypeOK
  <2>7. at' \in DOMAIN Conf(cur)'.cores /\ NeedBuild(Conf(cur))'
    BY <1>6, <2>2, <2>5, <2>6, HereFrame
  <2>8. Shape'
    BY <1>2, <2>1, <2>2, <2>5, <2>7 DEF Shape, Testing, Changing
  <2> QED BY <2>4, <2>8
<1> QED BY <1>4, <1>5, <1>6

(* What a step of the builder leaves alone.                                 *)
LEMMA BuildFrame ==
    ASSUME TypeOK, Shape, Build, BuildTypeOK', at' \in DOMAIN Conf(cur).cores,
           step' \in Changing => WorkOK'
    PROVE  TypeOK' /\ Shape'
<1>1. /\ phase = "build"
      /\ UNCHANGED <<runs, cmd, phase, cur, built, collected, reports, code, exit>>
  BY DEF Build, results
<1>2. Sessions' = Sessions /\ Multi' = Multi
  BY <1>1, ConfFrame
<1>3. TypeOK'
  BY <1>1, <1>2 DEF TypeOK
<1>4. Conf(cur)' = Conf(cur) /\ NeedBuild(Conf(cur))' = NeedBuild(Conf(cur))
  BY <1>1, HereFrame
<1>5. Shape'
  BY <1>1, <1>4 DEF Shape, Testing
<1> QED BY <1>3, <1>5

\* The core the builder is at.
LEMMA HereType ==
    ASSUME TypeOK, Shape, phase = "build"
    PROVE  /\ cur \in Sessions /\ at \in DOMAIN Conf(cur).cores
           /\ Core(cur, at) = Conf(cur).cores[at]
           /\ Core(cur, at) \in Cores
           /\ HereDir \in Dirs /\ HereDir = Conf(cur).cores[at].dir
           /\ Core(cur, at).def # NONE => Core(cur, at).def \in Defconfigs
           /\ Core(cur, at).board # NONE => Core(cur, at).board \in Boards
           /\ BuildEnv(Conf(cur), Core(cur, at)) \in Envs
           /\ Options(cur, at) = KconfigOverrides(Conf(cur), Conf(cur).cores[at])
           /\ Keys(Options(cur, at)) \subseteq Symbols
           /\ Options(cur, at) \in Overrides
BY CoreType DEF TypeOK, Shape, Core, HereDir, Options

LEMMA StartCoreType ==
    ASSUME TypeOK, Shape, Build, StartCore(Conf(cur), cmd.rebuild, Flashing)
    PROVE  TypeOK' /\ Shape'
<1>1. phase = "build" /\ UNCHANGED <<elf, dotconf, apps, board, at, todo, cmd, cur>>
  BY DEF Build, StartCore, disk, Goes
<1>2. /\ step' \in {"register", "configure"}
      /\ step' = "configure" => Conf(cur).cores[at].def # NONE
  BY DEF StartCore, Goes
<1>3. BuildTypeOK'
  BY <1>1, <1>2 DEF TypeOK, BuildTypeOK, Steps
<1>4. at' \in DOMAIN Conf(cur).cores /\ Core(cur, at)' = Conf(cur).cores[at]
  BY <1>1, HereType, HereFrame
<1>5. step' \in Changing => WorkOK'
  BY <1>2, <1>4 DEF WorkOK, Changing, Tweaked
<1> QED BY <1>3, <1>4, <1>5, BuildFrame

LEMMA FailType ==
    ASSUME TypeOK, Shape, Build, Fail, UNCHANGED <<dotconf, apps>>,
           elf' \in [Dirs -> Images \cup {NONE}],
           board' \in [Boards -> Images \cup {NONE}]
    PROVE  TypeOK' /\ Shape'
<1>1. phase = "build" /\ step' = "failed" /\ at' = at /\ todo' = todo
  BY DEF Build, Fail
<1>2. BuildTypeOK'
  BY <1>1 DEF TypeOK, BuildTypeOK, Steps
<1>3. at' \in DOMAIN Conf(cur).cores
  BY <1>1, HereType
<1>4. step' \notin Changing
  BY <1>1 DEF Changing
<1> QED BY <1>2, <1>3, <1>4, BuildFrame

\* The .config a configure leaves.
LEMMA ConfiguredType ==
    ASSUME dotconf \in [Dirs -> DotConfigs \cup {NONE}],
           NEW d \in Dirs, NEW def \in Defconfigs
    PROVE  /\ Configured(d, def) \in DotConfigs
           /\ Configured(d, def) # NONE
           /\ Configured(d, def).def = def
           /\ \/ Configured(d, def) = dotconf[d]
              \/ Configured(d, def).bare = {}
           /\ dotconf[d] # NONE /\ dotconf[d].def = def =>
                 Configured(d, def) = dotconf[d]
<1>1. CASE dotconf[d] # NONE /\ dotconf[d].def = def
  BY <1>1, NoneAssumption DEF Configured
<1>2. CASE ~(dotconf[d] # NONE /\ dotconf[d].def = def)
  <2>1. Configured(d, def) = [def |-> def, on |-> Default[def], bare |-> {}]
    BY <1>2 DEF Configured
  <2>2. Default[def] \in SUBSET Symbols
    BY KconfigAssumption
  <2>3. Configured(d, def) \in DotConfigs
    BY <2>1, <2>2 DEF DotConfigs
  <2> QED BY <1>2, <2>1, <2>3, NoneAssumption
<1> QED BY <1>1, <1>2

LEMMA ConfigureType ==
    ASSUME TypeOK, Shape, Build, Configure(Conf(cur))
    PROVE  TypeOK' /\ Shape'
<1> DEFINE d   == HereDir
           new == Configured(HereDir, Core(cur, at).def)
<1>1. phase = "build" /\ step \in {"configure", "again"} /\ cmd' = cmd /\ cur' = cur
  BY DEF Build, Configure
<1>2. WorkOK /\ d \in Dirs /\ Core(cur, at).def \in Defconfigs
      /\ Keys(Options(cur, at)) \subseteq Symbols
      /\ Options(cur, at) \in Overrides
  BY <1>1, HereType DEF Shape, Changing, WorkOK
<1>3. new \in DotConfigs /\ new # NONE /\ new.def = Core(cur, at).def
      /\ (dotconf[d] # NONE /\ dotconf[d].def = Core(cur, at).def => new = dotconf[d])
  BY <1>2, ConfiguredType DEF TypeOK, BuildTypeOK
<1>4. CASE Fail /\ UNCHANGED disk
  <2>1. UNCHANGED <<elf, dotconf, apps, board>> /\ Fail
    BY <1>4 DEF disk
  <2> QED BY <2>1, FailType DEF TypeOK, BuildTypeOK
<1>5. CASE /\ dotconf' = [dotconf EXCEPT ![d] = new]
           /\ apps' = [apps EXCEPT ![d] = new.on \ new.bare]
           /\ step' = IF step = "again" THEN "check"
                        ELSE IF Keys(Options(cur, at)) = {} THEN "compile" ELSE "tweak"
           /\ todo' = IF step = "again" THEN {} ELSE Keys(Options(cur, at))
           /\ UNCHANGED <<elf, board, at>>
  <2> HIDE DEF new, d
  <2>1. /\ dotconf'[d] = new /\ apps'[d] = new.on \ new.bare
        /\ dotconf' \in [Dirs -> DotConfigs \cup {NONE}]
    BY <1>2, <1>3, <1>5 DEF TypeOK, BuildTypeOK
  <2>2. new.on \ new.bare \subseteq Symbols
    BY <1>3 DEF DotConfigs
  <2>3. apps' \in [Dirs -> SUBSET Symbols]
    BY <1>2, <1>5, <2>2 DEF TypeOK, BuildTypeOK
  <2>4. step' \in {"check", "compile", "tweak"} /\ todo' \subseteq Symbols
    BY <1>2, <1>5
  <2>5. BuildTypeOK'
    BY <1>5, <2>1, <2>3, <2>4 DEF TypeOK, BuildTypeOK, Steps
  <2>6. /\ at' \in DOMAIN Conf(cur).cores
        /\ Core(cur, at)' = Core(cur, at) /\ Options(cur, at)' = Options(cur, at)
        /\ HereDir' = d
    BY <1>1, <1>5, HereType, HereFrame DEF d
  <2>7. step' = "check" => new.bare = {} /\ Keys(Options(cur, at)) # {}
    <3>1. step' = "check" => step = "again"
      BY <1>5
    <3>2. step = "again" => new = dotconf[d]
      BY <1>2, <1>3 DEF WorkOK, d
    <3> QED BY <1>2, <3>1, <3>2 DEF WorkOK, Tweaked, d
  <2>8. step' = "compile" => Keys(Options(cur, at)) = {}
    BY <1>5
  <2>9. step' = "tweak" => Keys(Options(cur, at)) # {}
    BY <1>5
  <2>10. step' = "compile" => Fits(new, Options(cur, at))
    BY <2>8 DEF Fits, Keys
  <2>11. Core(cur, at).def # NONE
    BY <1>2 DEF WorkOK
  <2>12. WorkOK'
    <3>1. dotconf'[HereDir'] = new /\ apps'[HereDir'] = new.on \ new.bare
      BY <2>1, <2>6
    <3>2. Fits(dotconf[HereDir], Options(cur, at))' <=> Fits(new, Options(cur, at))
      BY <2>6, <3>1 DEF Fits
    <3> QED BY <1>3, <2>4, <2>6, <2>7, <2>8, <2>9, <2>10, <2>11, <3>1, <3>2
         DEF WorkOK, Tweaked
  <2> QED BY <2>5, <2>6, <2>12, BuildFrame
<1> QED
  <2>1. \/ /\ dotconf' = [dotconf EXCEPT ![d] = new]
           /\ apps' = [apps EXCEPT ![d] = new.on \ new.bare]
           /\ step' = IF step = "again" THEN "check"
                        ELSE IF Keys(Options(cur, at)) = {} THEN "compile" ELSE "tweak"
           /\ todo' = IF step = "again" THEN {} ELSE Keys(Options(cur, at))
           /\ UNCHANGED <<elf, board, at>>
        \/ Fail /\ UNCHANGED disk
    BY DEF Configure, Core, HereDir, Options
  <2> QED BY <2>1, <1>4, <1>5

LEMMA TweakType ==
    ASSUME TypeOK, Shape, Build, Tweak(Conf(cur))
    PROVE  TypeOK' /\ Shape'
<1> DEFINE d == HereDir
<1>1. phase = "build" /\ step = "tweak" /\ cmd' = cmd /\ cur' = cur
  BY DEF Build, Tweak
<1>2. /\ WorkOK /\ d \in Dirs /\ dotconf[d] # NONE
      /\ Core(cur, at).def # NONE /\ dotconf[d].def = Core(cur, at).def
      /\ Keys(Options(cur, at)) # {}
  BY <1>1, HereType DEF Shape, Changing, WorkOK, Tweaked
<1>3. dotconf[d] \in DotConfigs /\ todo \subseteq Symbols
  BY <1>2 DEF TypeOK, BuildTypeOK
<1>4. CASE /\ todo # {}
           /\ \E s \in todo :
                LET c == Conf(cur).cores[at]
                    old == dotconf[c.dir]
                    on == s \in KconfigOverrides(Conf(cur), c).on
                IN /\ dotconf' = [dotconf EXCEPT ![c.dir] =
                         [old EXCEPT
                            !.on = IF on THEN @ \cup {s} ELSE @ \ {s},
                            !.bare = IF on /\ s \notin old.on
                                       THEN @ \cup {s} ELSE @ \ {s}]]
                   /\ todo' = todo \ {s}
           /\ UNCHANGED <<elf, apps, board, step, at>>
  <2>1. PICK s \in todo :
           LET old == dotconf[d]
               on == s \in Options(cur, at).on
           IN /\ dotconf' = [dotconf EXCEPT ![d] =
                    [old EXCEPT
                       !.on = IF on THEN @ \cup {s} ELSE @ \ {s},
                       !.bare = IF on /\ s \notin old.on
                                  THEN @ \cup {s} ELSE @ \ {s}]]
              /\ todo' = todo \ {s}
    BY <1>1, <1>4, HereType
  <2> DEFINE new ==
        [dotconf[d] EXCEPT
           !.on = IF s \in Options(cur, at).on THEN @ \cup {s} ELSE @ \ {s},
           !.bare = IF s \in Options(cur, at).on /\ s \notin dotconf[d].on
                      THEN @ \cup {s} ELSE @ \ {s}]
  <2>2. new \in DotConfigs /\ new.def = dotconf[d].def
    BY <1>3 DEF DotConfigs
  <2>3. dotconf' = [dotconf EXCEPT ![d] = new]
    BY <2>1
  <2> HIDE DEF new
  <2>4. new # NONE
    BY <2>2, NoneAssumption
  <2>5. /\ dotconf'[d] = new
        /\ dotconf' \in [Dirs -> DotConfigs \cup {NONE}]
    BY <1>2, <2>2, <2>3 DEF TypeOK, BuildTypeOK
  <2>6. BuildTypeOK'
    BY <1>3, <1>4, <2>1, <2>5 DEF TypeOK, BuildTypeOK
  <2>7. /\ at' \in DOMAIN Conf(cur).cores
        /\ Core(cur, at)' = Core(cur, at) /\ Options(cur, at)' = Options(cur, at)
        /\ HereDir' = d
    BY <1>1, <1>4, HereType, HereFrame
  <2>8. step' = "tweak"
    BY <1>1, <1>4
  <2>9. WorkOK'
    BY <1>2, <2>2, <2>4, <2>5, <2>7, <2>8 DEF WorkOK, Tweaked
  <2> QED BY <2>6, <2>7, <2>9, BuildFrame
<1>5. CASE Fail /\ UNCHANGED disk
  <2>1. UNCHANGED <<elf, dotconf, apps, board>> /\ Fail
    BY <1>5 DEF disk
  <2> QED BY <2>1, FailType DEF TypeOK, BuildTypeOK
<1>6. CASE Goes("olddefconfig") /\ UNCHANGED disk
  <2>1. /\ UNCHANGED <<elf, dotconf, apps, board, at, todo>>
        /\ step' = "olddefconfig"
    BY <1>6 DEF disk, Goes
  <2>2. BuildTypeOK'
    BY <2>1 DEF TypeOK, BuildTypeOK, Steps
  <2>3. /\ at' \in DOMAIN Conf(cur).cores
        /\ Core(cur, at)' = Core(cur, at) /\ Options(cur, at)' = Options(cur, at)
        /\ HereDir' = d
    BY <1>1, <2>1, HereType, HereFrame
  <2>4. WorkOK'
    BY <1>2, <2>1, <2>3 DEF WorkOK, Tweaked
  <2> QED BY <2>2, <2>3, <2>4, BuildFrame
<1> QED BY <1>4, <1>5, <1>6 DEF Tweak

LEMMA OldDefConfigType ==
    ASSUME TypeOK, Shape, Build, OldDefConfig(Conf(cur))
    PROVE  TypeOK' /\ Shape'
<1> DEFINE d == HereDir
           new == [dotconf[d] EXCEPT !.on = Settle(@), !.bare = {}]
<1>1. phase = "build" /\ step = "olddefconfig" /\ cmd' = cmd /\ cur' = cur
  BY DEF Build, OldDefConfig
<1>2. /\ WorkOK /\ d \in Dirs /\ dotconf[d] # NONE
      /\ Core(cur, at).def # NONE /\ dotconf[d].def = Core(cur, at).def
      /\ Keys(Options(cur, at)) # {} /\ d = Conf(cur).cores[at].dir
  BY <1>1, HereType DEF Shape, Changing, WorkOK, Tweaked
<1>3. dotconf[d] \in DotConfigs
  BY <1>2 DEF TypeOK, BuildTypeOK
<1>4. CASE /\ dotconf' = [dotconf EXCEPT ![d].on = Settle(@), ![d].bare = {}]
           /\ Goes("again")
           /\ UNCHANGED <<elf, apps, board>>
  <2>1. Settle(dotconf[d].on) \subseteq Symbols
    BY <1>3 DEF Settle, DotConfigs
  <2>2. new \in DotConfigs /\ new.def = dotconf[d].def /\ new.bare = {}
    BY <1>3, <2>1 DEF DotConfigs
  <2>3. dotconf'[d] = new /\ dotconf' \in [Dirs -> DotConfigs \cup {NONE}]
    <3>1. dotconf' = [dotconf EXCEPT ![d] = new]
      BY <1>2, <1>3, <1>4 DEF TypeOK, BuildTypeOK, DotConfigs
    <3> HIDE DEF new
    <3> QED BY <1>2, <2>2, <3>1 DEF TypeOK, BuildTypeOK
  <2> HIDE DEF new
  <2>4. new # NONE
    BY <2>2, NoneAssumption
  <2>5. step' = "again" /\ UNCHANGED <<elf, apps, board, at, todo>>
    BY <1>4 DEF Goes
  <2>6. BuildTypeOK'
    BY <2>3, <2>5 DEF TypeOK, BuildTypeOK, Steps
  <2>7. /\ at' \in DOMAIN Conf(cur).cores
        /\ Core(cur, at)' = Core(cur, at) /\ Options(cur, at)' = Options(cur, at)
        /\ HereDir' = d
    BY <1>1, <2>5, HereType, HereFrame
  <2>8. WorkOK'
    BY <1>2, <2>2, <2>3, <2>4, <2>5, <2>7 DEF WorkOK, Tweaked
  <2> QED BY <2>6, <2>7, <2>8, BuildFrame
<1>5. CASE Fail /\ UNCHANGED disk
  <2>1. UNCHANGED <<elf, dotconf, apps, board>> /\ Fail
    BY <1>5 DEF disk
  <2> QED BY <2>1, FailType DEF TypeOK, BuildTypeOK
<1> QED BY <1>2, <1>4, <1>5 DEF OldDefConfig

LEMMA CheckType ==
    ASSUME TypeOK, Shape, Build, CheckOverrides(Conf(cur))
    PROVE  TypeOK' /\ Shape'
<1>1. /\ phase = "build" /\ step = "check" /\ cmd' = cmd /\ cur' = cur
      /\ UNCHANGED <<elf, dotconf, apps, board>>
  BY DEF Build, CheckOverrides, disk
<1>2. WorkOK
  BY <1>1 DEF Shape, Changing
<1>3. CASE Fail
  BY <1>1, <1>3, FailType DEF TypeOK, BuildTypeOK
<1>4. CASE Goes("compile") /\ Fits(dotconf[HereDir], Options(cur, at))
  <2>1. step' = "compile" /\ UNCHANGED <<at, todo>>
    BY <1>4 DEF Goes
  <2>2. BuildTypeOK'
    BY <1>1, <2>1 DEF TypeOK, BuildTypeOK, Steps
  <2>3. /\ at' \in DOMAIN Conf(cur).cores
        /\ Core(cur, at)' = Core(cur, at) /\ Options(cur, at)' = Options(cur, at)
        /\ HereDir' = HereDir
    BY <1>1, <2>1, HereType, HereFrame
  <2>4. Fits(dotconf[HereDir], Options(cur, at))' <=>
           Fits(dotconf[HereDir], Options(cur, at))
    BY <1>1, <2>3 DEF Fits
  <2>5. WorkOK'
    BY <1>1, <1>2, <1>4, <2>1, <2>3, <2>4 DEF WorkOK, Tweaked
  <2> QED BY <2>2, <2>3, <2>5, BuildFrame
<1>5. Fail \/ (Goes("compile") /\ Fits(dotconf[HereDir], Options(cur, at)))
  BY <1>1, HereType DEF CheckOverrides, Fits
<1> QED BY <1>3, <1>4, <1>5

\* The image a compilation makes.
Made == [def |-> dotconf[HereDir].def,
         on  |-> dotconf[HereDir].on \cap apps[HereDir],
         env |-> BuildEnv(Conf(cur), Core(cur, at))]

LEMMA MadeType ==
    ASSUME TypeOK, Shape, phase = "build", step = "compile"
    PROVE  /\ Made \in Images /\ Made # NONE
           /\ Made.def = dotconf[HereDir].def
           /\ Made.def = Core(cur, at).def
           /\ Made.on = dotconf[HereDir].on \ dotconf[HereDir].bare
           /\ Made.env = BuildEnv(Conf(cur), Core(cur, at))
           /\ Fits(Made, Options(cur, at))
<1>1. /\ WorkOK /\ HereDir \in Dirs
      /\ BuildEnv(Conf(cur), Core(cur, at)) \in Envs
  BY HereType DEF Shape, Changing
<1>2. /\ dotconf[HereDir] # NONE /\ dotconf[HereDir].def = Core(cur, at).def
      /\ apps[HereDir] = dotconf[HereDir].on \ dotconf[HereDir].bare
      /\ Keys(Options(cur, at)) # {} => dotconf[HereDir].bare = {}
      /\ Fits(dotconf[HereDir], Options(cur, at))
  BY <1>1 DEF WorkOK
<1>3. dotconf[HereDir] \in DotConfigs
  BY <1>1, <1>2 DEF TypeOK, BuildTypeOK
<1>4. Made \in Images
  BY <1>1, <1>3 DEF Made, Images, DotConfigs
<1>5. /\ Made.def = dotconf[HereDir].def
      /\ Made.on = dotconf[HereDir].on \ dotconf[HereDir].bare
      /\ Made.env = BuildEnv(Conf(cur), Core(cur, at))
  BY <1>2 DEF Made
<1>6. Fits(Made, Options(cur, at))
  BY <1>2, <1>5 DEF Fits, Keys
<1> QED BY <1>2, <1>4, <1>5, <1>6, NoneAssumption

LEMMA CompileCases ==
    ASSUME TypeOK, Shape, Build, Compile(Conf(cur))
    PROVE  /\ phase = "build" /\ step = "compile"
           /\ UNCHANGED <<dotconf, apps, board>>
           /\ \/ elf' = [elf EXCEPT ![HereDir] = Made] /\ Goes("register")
              \/ elf' = [elf EXCEPT ![HereDir] = NONE] /\ Fail
              \/ elf' = elf /\ Fail
BY DEF Build, Compile, Made, HereDir, Core

LEMMA CompileType ==
    ASSUME TypeOK, Shape, Build, Compile(Conf(cur))
    PROVE  TypeOK' /\ Shape'
<1>1. phase = "build" /\ step = "compile" /\ UNCHANGED <<dotconf, apps, board>>
  BY CompileCases
<1>2. HereDir \in Dirs /\ Made \in Images
  BY <1>1, HereType, MadeType
<1>3. elf' \in [Dirs -> Images \cup {NONE}]
  BY <1>2, CompileCases DEF TypeOK, BuildTypeOK
<1>4. CASE Fail
  BY <1>1, <1>3, <1>4, FailType DEF TypeOK, BuildTypeOK
<1>5. CASE Goes("register")
  <2>1. step' = "register" /\ UNCHANGED <<at, todo>>
    BY <1>5 DEF Goes
  <2>2. BuildTypeOK'
    BY <1>1, <1>3, <2>1 DEF TypeOK, BuildTypeOK, Steps
  <2>3. at' \in DOMAIN Conf(cur).cores /\ step' \notin Changing
    BY <1>1, <2>1, HereType DEF Changing
  <2> QED BY <2>2, <2>3, BuildFrame
<1> QED BY <1>4, <1>5, CompileCases

LEMMA RegisterType ==
    ASSUME TypeOK, Shape, Build, Register(Conf(cur), Flashing)
    PROVE  TypeOK' /\ Shape'
<1>1. phase = "build" /\ UNCHANGED <<elf, dotconf, apps, board>>
  BY DEF Build, Register, disk
<1>2. CASE Fail
  BY <1>1, <1>2, FailType DEF TypeOK, BuildTypeOK
<1>3. CASE NextCore(Conf(cur), Flashing) /\ UNCHANGED todo
  <2>1. /\ at \in DOMAIN Conf(cur).cores
        /\ DOMAIN Conf(cur).cores = 1..Len(Conf(cur).cores)
        /\ Len(Conf(cur).cores) \in Nat \ {0}
    BY <1>1, HereType, ConfType DEF TypeOK
  <2>2. at' \in DOMAIN Conf(cur).cores /\ step' \in {"core", "flash", "built"}
    <3>1. CASE at < Len(Conf(cur).cores)
      BY <1>3, <2>1, <3>1 DEF NextCore
    <3>2. CASE ~(at < Len(Conf(cur).cores))
      BY <1>3, <2>1, <3>2 DEF NextCore
    <3> QED BY <3>1, <3>2
  <2>3. step' \notin Changing
    BY <2>2 DEF Changing
  <2>4. at' \in Nat \ {0}
    BY <2>1, <2>2
  <2>5. BuildTypeOK'
    BY <1>1, <1>3, <2>2, <2>4 DEF TypeOK, BuildTypeOK, Steps
  <2> QED BY <2>2, <2>3, <2>5, BuildFrame
<1> QED BY <1>2, <1>3 DEF Register

\* What a flash command does to the boards.
LEMMA FlashCases ==
    ASSUME TypeOK, Shape, Build, Flash(Conf(cur))
    PROVE  /\ phase = "build" /\ step = "flash" /\ UNCHANGED <<elf, dotconf, apps>>
           /\ board' \in [Boards -> Images \cup {NONE}]
           /\ \A b \in Boards : Core(cur, at).board # b => board'[b] = board[b]
           /\ \/ Fail
              \/ /\ Core(cur, at).board # NONE =>
                       board'[Core(cur, at).board] = elf[HereDir]
                 /\ todo' = todo
                 /\ IF at = Len(Conf(cur).cores)
                      THEN step' = "built" /\ at' = 1
                      ELSE step' = "flash" /\ at' = at + 1
<1> DEFINE b0 == Core(cur, at).board
           written == IF b0 = NONE THEN board
                        ELSE [board EXCEPT ![b0] = elf[HereDir]]
<1>1. /\ phase = "build" /\ step = "flash" /\ UNCHANGED <<elf, dotconf, apps>>
  BY DEF Build, Flash
<1>2. HereDir \in Dirs /\ (b0 # NONE => b0 \in Boards)
  BY <1>1, HereType
<1>3. elf[HereDir] \in Images \cup {NONE} /\ board \in [Boards -> Images \cup {NONE}]
  BY <1>2 DEF TypeOK, BuildTypeOK
<1>4. \/ /\ board' = written
         /\ step' = IF at = Len(Conf(cur).cores) THEN "built" ELSE "flash"
         /\ at' = IF at = Len(Conf(cur).cores) THEN 1 ELSE at + 1
         /\ todo' = todo
      \/ board' \in {board, written} /\ Fail
  BY DEF Flash, Core, HereDir
<1> HIDE DEF b0
<1>5. /\ written \in [Boards -> Images \cup {NONE}]
      /\ \A b \in Boards : b0 # b => written[b] = board[b]
      /\ b0 # NONE => written[b0] = elf[HereDir]
  BY <1>2, <1>3
<1> HIDE DEF written
<1>6. board' = written \/ board' = board
  BY <1>4
<1>7. /\ board' \in [Boards -> Images \cup {NONE}]
      /\ \A b \in Boards : b0 # b => board'[b] = board[b]
  BY <1>3, <1>5, <1>6
<1> QED BY <1>1, <1>4, <1>5, <1>7 DEF b0

LEMMA FlashType ==
    ASSUME TypeOK, Shape, Build, Flash(Conf(cur))
    PROVE  TypeOK' /\ Shape'
<1>1. /\ phase = "build" /\ step = "flash" /\ UNCHANGED <<elf, dotconf, apps>>
      /\ board' \in [Boards -> Images \cup {NONE}]
  BY FlashCases
<1>2. CASE Fail
  BY <1>1, <1>2, FailType DEF TypeOK, BuildTypeOK
<1>3. CASE /\ todo' = todo
           /\ IF at = Len(Conf(cur).cores)
                THEN step' = "built" /\ at' = 1
                ELSE step' = "flash" /\ at' = at + 1
  <2>1. /\ at \in DOMAIN Conf(cur).cores
        /\ DOMAIN Conf(cur).cores = 1..Len(Conf(cur).cores)
        /\ Len(Conf(cur).cores) \in Nat \ {0}
    BY <1>1, HereType, ConfType DEF TypeOK
  <2>2. at' \in DOMAIN Conf(cur).cores /\ step' \in {"flash", "built"}
    BY <1>3, <2>1
  <2>3. step' \notin Changing /\ at' \in Nat \ {0}
    BY <2>1, <2>2 DEF Changing
  <2>4. BuildTypeOK'
    BY <1>1, <1>3, <2>2, <2>3 DEF TypeOK, BuildTypeOK, Steps
  <2> QED BY <2>2, <2>3, <2>4, BuildFrame
<1> QED BY <1>2, <1>3, FlashCases

LEMMA BuildType ==
    ASSUME TypeOK, Shape, Build
    PROVE  TypeOK' /\ Shape'
BY StartCoreType, ConfigureType, TweakType, OldDefConfigType, CheckType,
   CompileType, RegisterType, FlashType DEF Build, BuildStep

LEMMA BuildEndsType ==
    ASSUME TypeOK, Shape, BuildEnds
    PROVE  TypeOK' /\ Shape'
<1>1. CASE Abort
  BY <1>1, AbortType
<1>2. CASE Settled(cur) /\ UNCHANGED <<disk, runs, cmd, collected, results>>
  <2>1. cur \in 1..cur
    BY CommandType DEF TypeOK
  <2> QED BY <1>2, <2>1, SettledType DEF BuildEnds
<1> QED BY <1>1, <1>2 DEF BuildEnds

LEMMA InvokeType ==
    ASSUME TypeOK, Shape, Invoke
    PROVE  TypeOK' /\ Shape'
<1>1. /\ runs < MaxRuns /\ runs' = runs + 1 /\ cmd' \in Commands
      /\ phase' = "key" /\ cur' = 1 /\ built' = <<>>
      /\ step' = "core" /\ at' = 1 /\ todo' = {} /\ collected' = {}
      /\ exit' = "none"
      /\ UNCHANGED <<elf, dotconf, apps, board>>
  BY DEF Invoke, disk
<1>2. cmd'.sessions # <<>> /\ Len(cmd'.sessions) \in Nat \ {0}
      /\ Sessions' = 1..Len(cmd'.sessions)
  <2>1. cmd' \in Commands /\ cmd'.sessions \in Seq([conf : Confs, tests : SUBSET Tests])
        /\ cmd'.sessions # <<>>
    <3>1. cmd' \in [kind : {"build", "collect", "test", "multi"},
           sessions : Seq([conf : Confs, tests : SUBSET Tests]) \ {<<>>},
           json : Overrides, rebuild : BOOLEAN, flash : BOOLEAN,
           failFast : BOOLEAN, index : SUBSET Nat]
      BY <1>1, TestAssumption
    <3> DEFINE S == Seq([conf : Confs, tests : SUBSET Tests]) \ {<<>>}
    <3>2. cmd'.sessions \in S
      BY <3>1
    <3> QED BY <1>1, <3>2
  <2> DEFINE S == [conf : Confs, tests : SUBSET Tests]
             q == cmd'.sessions
  <2> HIDE DEF S
  <2>2. q \in Seq(S) /\ q # <<>>
    BY <2>1 DEF S
  <2> HIDE DEF q
  <2>3. Len(q) \in Nat /\ DOMAIN q = 1..Len(q) /\ Len(q) # 0
    BY <2>2, LenProperties, EmptySeq
  <2> QED BY <2>3 DEF q, Sessions
<1>3. 1 \in Sessions'
  BY <1>2
<1>4. /\ DOMAIN reports' = Sessions' /\ DOMAIN code' = Sessions'
      /\ \A s \in Sessions' : code'[s] = "none"
  BY DEF Invoke, Sessions
<1>5. Len(<<>>) = 0 /\ <<>> \in Seq(Nat) /\ DOMAIN <<>> = {}
  OBVIOUS
<1>6. runs' \in 0..MaxRuns
  BY <1>1, TestAssumption DEF TypeOK
<1>7. BuildTypeOK'
  BY <1>1 DEF TypeOK, BuildTypeOK, Steps
<1>8. TypeOK'
  BY <1>1, <1>2, <1>3, <1>4, <1>5, <1>6, <1>7 DEF TypeOK, Phases
<1>9. Shape'
  BY <1>1, <1>5 DEF Shape, Testing
<1> QED BY <1>8, <1>9

\* What a step of the testing leaves alone.
LEMMA TestFrame ==
    ASSUME TypeOK, Shape, Testing, Elsewhere,
           phase' \in {"cleanup", "mkdir", "start", "run", "finish", "merge", "done"},
           cur' \in Sessions, collected' \subseteq Tests,
           DOMAIN reports' = Sessions, DOMAIN code' = Sessions,
           \A s \in Sessions : code'[s] \in {"none", "passed", "failed"},
           exit' \in {exit, "ok", "error"}
    PROVE  TypeOK' /\ Shape'
<1>1. UNCHANGED <<elf, dotconf, apps, board, step, at, todo, runs, cmd, built>>
  BY DEF Elsewhere, buildVars
<1>2. Sessions' = Sessions /\ Multi' = Multi
  BY <1>1, ConfFrame
<1>3. TypeOK'
  BY <1>1, <1>2 DEF TypeOK, BuildTypeOK, Phases
<1>4. Shape'
  BY <1>1, <1>2 DEF Shape, Testing
<1> QED BY <1>3, <1>4

\* The tests that are left are tests of the session.
LEMMA SupportedType ==
    ASSUME cmd \in Commands, NEW s \in Sessions
    PROVE  Supported(s) \subseteq Tests
BY ConfType DEF Supported

LEMMA TestType ==
    ASSUME TypeOK, Shape,
           Collect \/ CollectFails \/ Cleanup \/ NewSessionDir \/ StartSession
             \/ RunTests \/ FinishSession \/ Merge
    PROVE  TypeOK' /\ Shape'
<1>1. /\ cur \in Sessions /\ cmd \in Commands /\ Sessions = 1..Len(cmd.sessions)
      /\ Len(cmd.sessions) \in Nat
      /\ collected \subseteq Tests /\ Supported(cur) \subseteq Tests
      /\ DOMAIN reports = Sessions /\ DOMAIN code = Sessions
      /\ \A s \in Sessions : code[s] \in {"none", "passed", "failed"}
  BY CommandType, SupportedType DEF TypeOK
<1>2. CASE Abort
  BY <1>2, AbortType
<1>3. CASE Collect
  <2>1. Testing /\ Elsewhere /\ UNCHANGED <<cur, reports, code>>
    BY <1>3 DEF Collect, Testing, results
  <2>2. /\ phase' \in {"cleanup", "done"} /\ exit' \in {exit, "ok"}
        /\ collected' \subseteq Supported(cur)
    BY <1>3 DEF Collect, End, Selected
  <2> QED BY <1>1, <2>1, <2>2, TestFrame
<1>4. CASE Cleanup
  <2>1. Testing /\ Elsewhere /\ UNCHANGED <<cur, collected, reports, code, exit>>
        /\ phase' = "mkdir"
    BY <1>4 DEF Cleanup, Testing, results
  <2> QED BY <1>1, <2>1, TestFrame
<1>5. CASE NewSessionDir
  <2>1. Testing /\ Elsewhere /\ UNCHANGED <<cur, collected, reports, code, exit>>
        /\ phase' = "start"
    BY <1>5 DEF NewSessionDir, Testing, results
  <2> QED BY <1>1, <2>1, TestFrame
<1>6. CASE StartSession
  <2>1. CASE Abort
    BY <2>1, AbortType
  <2>2. CASE ~Abort
    <3>1. /\ Testing /\ Elsewhere /\ UNCHANGED <<cur, reports, code, exit>>
          /\ phase' = "run" /\ collected' \in {collected, Supported(cur)}
      BY <1>6, <2>2 DEF StartSession, Testing, results
    <3> QED BY <1>1, <3>1, TestFrame
  <2> QED BY <2>1, <2>2
<1>7. CASE RunTests
  <2>1. /\ Testing /\ Elsewhere /\ UNCHANGED <<cur, collected, exit>>
        /\ phase' = "finish"
    BY <1>7 DEF RunTests, Testing
  <2>2. PICK xml : /\ reports' = [reports EXCEPT ![cur] = PytestReport(xml)]
                   /\ code' = [code EXCEPT ![cur] =
                        IF PytestPassed(xml) THEN "passed" ELSE "failed"]
    BY <1>7 DEF RunTests
  <2>3. /\ DOMAIN reports' = Sessions /\ DOMAIN code' = Sessions
        /\ \A s \in Sessions : code'[s] \in {"none", "passed", "failed"}
    BY <1>1, <2>2
  <2> QED BY <1>1, <2>1, <2>3, TestFrame
<1>8. CASE FinishSession
  <2>1. /\ Testing /\ Elsewhere /\ UNCHANGED <<collected, code>>
        /\ DOMAIN reports' = DOMAIN reports
    BY <1>8 DEF FinishSession, Testing
  <2>2. /\ phase' \in {"done", "merge", "start"} /\ cur' \in Sessions
        /\ exit' \in {exit, "ok", "error"}
    <3>1. CASE ~Multi
      <4>1. phase' = "done" /\ exit' \in {"ok", "error"} /\ cur' = cur
        BY <1>8, <3>1 DEF FinishSession, End
      <4> QED BY <1>1, <4>1
    <3>2. CASE Multi /\ (cur = Len(cmd.sessions) \/ Broken)
      <4>1. phase' = "merge" /\ UNCHANGED <<cur, exit>>
        BY <1>8, <3>2 DEF FinishSession
      <4> QED BY <1>1, <4>1
    <3>3. CASE Multi /\ ~(cur = Len(cmd.sessions) \/ Broken)
      <4>1. phase' = "start" /\ cur' = cur + 1 /\ UNCHANGED exit
        BY <1>8, <3>3 DEF FinishSession
      <4> QED BY <1>1, <3>3, <4>1
    <3> QED BY <3>1, <3>2, <3>3
  <2> QED BY <1>1, <2>1, <2>2, TestFrame
<1>9. CASE Merge
  <2>1. /\ Testing /\ Elsewhere /\ UNCHANGED <<cur, collected, reports, code>>
        /\ phase' = "done" /\ exit' \in {"ok", "error"}
    BY <1>9 DEF Merge, Testing, End
  <2> QED BY <1>1, <2>1, TestFrame
<1> QED BY <1>2, <1>3, <1>4, <1>5, <1>6, <1>7, <1>8, <1>9 DEF CollectFails

LEMMA TypeStep ==
    ASSUME TypeOK, Shape, [Next]_vars
    PROVE  TypeOK' /\ Shape'
<1>1. CASE UNCHANGED vars \/ DaysPass
  <2>1. UNCHANGED <<elf, dotconf, apps, board, step, at, todo, runs, cmd, phase,
                    cur, built, collected, reports, code, exit>>
    BY <1>1 DEF vars, DaysPass, buildVars, results
  <2>2. Sessions' = Sessions /\ Multi' = Multi /\ Testing' = Testing
    BY <2>1, ConfFrame DEF Testing
  <2>3. TypeOK'
    BY <2>1, <2>2 DEF TypeOK, BuildTypeOK
  <2>4. /\ Conf(cur)' = Conf(cur) /\ NeedBuild(Conf(cur))' = NeedBuild(Conf(cur))
        /\ Core(cur, at)' = Core(cur, at) /\ Options(cur, at)' = Options(cur, at)
        /\ HereDir' = HereDir
    BY <2>1, HereFrame
  <2>5. WorkOK' <=> WorkOK
    BY <2>1, <2>4 DEF WorkOK, Fits
  <2>6. Shape'
    BY <2>1, <2>2, <2>4, <2>5 DEF Shape
  <2> QED BY <2>3, <2>6
<1>2. CASE Killed
  BY <1>2, AbortType DEF Killed
<1> QED BY <1>1, <1>2, InvokeType, LookUpType, BuildType, BuildEndsType, TestType
     DEF Next

LEMMA TypeInit == Init => TypeOK /\ Shape
<1> SUFFICES ASSUME Init PROVE TypeOK /\ Shape
  OBVIOUS
<1>1. cmd \in Commands /\ cur = 1 /\ built = <<>> /\ phase = "done"
      /\ step = "built" /\ at = 1 /\ runs = 0 /\ collected = {} /\ exit = "none"
      /\ todo = {}
  BY DEF Init, BuildInit
<1>2. 1 \in Sessions
  BY <1>1, CommandType
<1>3. /\ DOMAIN reports = Sessions /\ DOMAIN code = Sessions
      /\ \A s \in Sessions : code[s] = "none"
  BY DEF Init
<1>4. \A d \in DOMAIN Prebuilt : Prebuilt[d] \in Images
  BY PrebuiltAssumption
<1>5. elf \in [Dirs -> Images \cup {NONE}]
  BY <1>4 DEF Init, BuildInit
<1>6. dotconf \in [Dirs -> DotConfigs \cup {NONE}]
  <2>1. \A d \in DOMAIN Prebuilt :
           [def |-> Prebuilt[d].def, on |-> Prebuilt[d].on, bare |-> {}] \in DotConfigs
    BY <1>4 DEF Images, DotConfigs
  <2> QED BY <2>1 DEF Init, BuildInit
<1>7. apps \in [Dirs -> SUBSET Symbols] /\ board \in [Boards -> Images \cup {NONE}]
  BY DEF Init, BuildInit
<1>8. BuildTypeOK
  BY <1>1, <1>5, <1>6, <1>7 DEF BuildTypeOK, Steps
<1>9. Len(<<>>) = 0 /\ <<>> \in Seq(Nat) /\ DOMAIN <<>> = {}
  OBVIOUS
<1>10. Len(cmd.sessions) \in Nat
  BY <1>1, CommandType
<1>11. TypeOK
  BY <1>1, <1>2, <1>3, <1>8, <1>9, <1>10, TestAssumption DEF TypeOK, Phases
<1>12. Shape
  BY <1>1, <1>9 DEF Shape, Testing
<1> QED BY <1>11, <1>12

LEMMA ShapeInvariant == Spec => [](TypeOK /\ Shape)
<1>1. Init => TypeOK /\ Shape
  BY TypeInit
<1>2. TypeOK /\ Shape /\ [Next]_vars => (TypeOK /\ Shape)'
  BY TypeStep
<1> QED BY <1>1, <1>2, PTL DEF Spec

(* Every variable keeps its type, whatever the commands and configurations,   *)
(* wherever an invocation fails or is killed.                               *)
THEOREM CampaignTypeCorrect == Spec => []TypeOK
BY ShapeInvariant, PTL

-----------------------------------------------------------------------------
(* What the directories and boards hold.                                    *)

\* The step makes no core ready or flashed, and stops handling none.
NoneNew ==
    \A u \in Sessions : \A i \in DOMAIN Conf(u).cores :
        /\ cmd.rebuild /\ Ready(u, i)' => Ready(u, i)
        /\ Flashing /\ Flashed(u, i)' => Flashed(u, i)
        /\ Handled(u, i) => Handled(u, i)'

LEMMA SeparateFrame ==
    ASSUME cmd' = cmd,
           \A v \in Sessions : \A j \in DOMAIN Conf(v).cores :
               Handled(v, j) => Handled(v, j)',
           NEW u, NEW i, Separate(u, i)'
    PROVE  Separate(u, i)
BY ConfFrame DEF Separate, Apart

LEMMA FitQuiet ==
    ASSUME FitInv, BoardInv, cmd' = cmd, UNCHANGED <<elf, board>>, NoneNew
    PROVE  FitInv' /\ BoardInv'
<1>1. /\ Sessions' = Sessions /\ Flashing' = Flashing
      /\ \A u : /\ Conf(u)' = Conf(u)
                /\ \A i : Core(u, i)' = Core(u, i) /\ Options(u, i)' = Options(u, i)
  BY ConfFrame
<1>2. \A u, i : Separate(u, i)' => Separate(u, i)
  BY SeparateFrame DEF NoneNew
<1>3. FitInv'
  <2> SUFFICES ASSUME NEW u \in Sessions, NEW i \in DOMAIN Conf(u).cores,
                      Ready(u, i)', cmd.rebuild, Separate(u, i)'
               PROVE  LET image == elf[Core(u, i).dir]
                      IN /\ image # NONE
                         /\ image.def = Core(u, i).def
                         /\ image.env = BuildEnv(Conf(u), Core(u, i))
                         /\ Fits(image, Options(u, i))
    BY <1>1 DEF FitInv, Fits, BuildEnv
  <2>1. Ready(u, i) /\ Separate(u, i)
    BY <1>2 DEF NoneNew
  <2> QED BY <2>1 DEF FitInv
<1>4. BoardInv'
  <2> SUFFICES ASSUME NEW u \in Sessions, NEW i \in DOMAIN Conf(u).cores,
                      Flashed(u, i)', Flashing, Separate(u, i)',
                      Core(u, i).board # NONE
               PROVE  board[Core(u, i).board] = elf[Core(u, i).dir]
    BY <1>1 DEF BoardInv
  <2>1. Flashed(u, i) /\ Separate(u, i)
    BY <1>2 DEF NoneNew
  <2> QED BY <2>1 DEF BoardInv
<1> QED BY <1>3, <1>4

LEMMA MatchQuiet ==
    ASSUME MatchInv, cmd' = cmd, UNCHANGED <<elf, dotconf>>, NoneNew,
           step = "failed" => step' = "failed",
           Working => \/ step' = "failed"
                      \/ /\ Working' /\ HereDir' = HereDir
                         /\ step \in {"tweak", "olddefconfig"} =>
                               step' \in {"tweak", "olddefconfig"}
    PROVE  MatchInv'
<1>1. /\ Sessions' = Sessions
      /\ \A u : /\ Conf(u)' = Conf(u)
                /\ \A i : Core(u, i)' = Core(u, i) /\ Options(u, i)' = Options(u, i)
  BY ConfFrame
<1> SUFFICES ASSUME NEW u \in Sessions, NEW i \in DOMAIN Conf(u).cores,
                    Ready(u, i)', cmd.rebuild, step' # "failed"
             PROVE  LET d == Core(u, i).dir
                        here == Working' /\ d = HereDir'
                    IN /\ dotconf[d] # NONE
                       /\ ~here => Matches(d)
                       /\ /\ Keys(Options(u, i)) # {}
                          /\ ~(here /\ step' \in {"tweak", "olddefconfig"})
                          => dotconf[d].bare = {}
  BY <1>1 DEF MatchInv, Matches
<1>2. Ready(u, i) /\ step # "failed"
  BY DEF NoneNew
<1> DEFINE d == Core(u, i).dir
<1>3. /\ dotconf[d] # NONE
      /\ ~(Working /\ d = HereDir) => Matches(d)
      /\ /\ Keys(Options(u, i)) # {}
         /\ ~(Working /\ d = HereDir /\ step \in {"tweak", "olddefconfig"})
         => dotconf[d].bare = {}
  BY <1>2 DEF MatchInv
<1> QED BY <1>3

\* The builder has not got to a build of session cur yet.
LEMMA NotOwn ==
    ASSUME TypeOK, Shape, phase \in {"key", "build"}
    PROVE  ~Own(cur)
<1>1. built \in Seq(Nat) /\ Len(built) = cur - 1 /\ cur \in Nat
  BY CommandType DEF Shape, TypeOK
<1>2. DOMAIN built = 1..(cur - 1)
  BY <1>1, LenProperties
<1> QED BY <1>1, <1>2 DEF Own

\* Within a build only the builder's place decides what is ready.
LEMMA BuildReady ==
    ASSUME TypeOK, Shape, Build
    PROVE  /\ cmd' = cmd /\ cur' = cur /\ phase = "build" /\ phase' = "build"
           /\ built' = built /\ ~Own(cur)
           /\ \A u : Own(u)' = Own(u)
           /\ \A u \in Sessions : \A i \in DOMAIN Conf(u).cores :
                 /\ Handled(u, i)' = Handled(u, i)
                 /\ Ready(u, i)' <=>
                      /\ Core(u, i).def # NONE
                      /\ \/ Own(u)
                         \/ /\ u = cur
                            /\ \/ step' \in {"flash", "built"} \/ i < at'
                               \/ (i = at' /\ step' = "register")
                 /\ Flashed(u, i)' <=>
                      /\ Ready(u, i)'
                      /\ \/ Own(u)
                         \/ step' = "built" \/ (step' = "flash" /\ i < at')
                 /\ Ready(u, i) => Core(u, i).def # NONE /\ (Own(u) \/ u = cur)
<1>1. /\ cmd' = cmd /\ cur' = cur /\ phase = "build" /\ phase' = "build"
      /\ built' = built
  BY DEF Build
<1>2. ~Own(cur)
  BY <1>1, NotOwn
<1>3. \A u : Own(u)' = Own(u)
  BY <1>1 DEF Own
<1>4. /\ Sessions' = Sessions
      /\ \A u : /\ Conf(u)' = Conf(u)
                /\ \A i : Core(u, i)' = Core(u, i)
  BY <1>1, ConfFrame
<1> SUFFICES ASSUME NEW u \in Sessions, NEW i \in DOMAIN Conf(u).cores
             PROVE  /\ Handled(u, i)' = Handled(u, i)
                    /\ Ready(u, i)' <=>
                         /\ Core(u, i).def # NONE
                         /\ \/ Own(u)
                            \/ /\ u = cur
                               /\ \/ step' \in {"flash", "built"} \/ i < at'
                                  \/ (i = at' /\ step' = "register")
                    /\ Flashed(u, i)' <=>
                         /\ Ready(u, i)'
                         /\ \/ Own(u)
                            \/ step' = "built" \/ (step' = "flash" /\ i < at')
                    /\ Ready(u, i) => Core(u, i).def # NONE /\ (Own(u) \/ u = cur)
  BY <1>1, <1>2, <1>3
<1>5. Handled(u, i)' = Handled(u, i)
  BY <1>1, <1>3, <1>4 DEF Handled, NeedBuild
<1>6. Ready(u, i)' <=>
        /\ Core(u, i).def # NONE
        /\ \/ Own(u)
           \/ /\ u = cur
              /\ \/ step' \in {"flash", "built"} \/ i < at'
                 \/ (i = at' /\ step' = "register")
  BY <1>1, <1>3, <1>4 DEF Ready
<1>7. Flashed(u, i)' <=>
        /\ Ready(u, i)'
        /\ \/ Own(u)
           \/ step' = "built" \/ (step' = "flash" /\ i < at')
  BY <1>3 DEF Flashed
<1>8. Ready(u, i) => Core(u, i).def # NONE /\ (Own(u) \/ u = cur)
  BY DEF Ready
<1> QED BY <1>5, <1>6, <1>7, <1>8

ImageInv == MatchInv /\ FitInv /\ BoardInv

LEMMA ImageStart ==
    ASSUME TypeOK, Shape, ImageInv, Build,
           StartCore(Conf(cur), cmd.rebuild, Flashing)
    PROVE  ImageInv'
<1>1. /\ step = "core" /\ phase = "build" /\ UNCHANGED <<elf, dotconf, apps, board, at>>
      /\ step' \in {"register", "configure"}
      /\ step' = "register" /\ cmd.rebuild => Core(cur, at).def = NONE
  BY DEF Build, StartCore, disk, Goes, Core
<1>2. NoneNew
  <2> SUFFICES ASSUME NEW u \in Sessions, NEW i \in DOMAIN Conf(u).cores
               PROVE  /\ cmd.rebuild /\ Ready(u, i)' => Ready(u, i)
                      /\ Flashing /\ Flashed(u, i)' => Flashed(u, i)
                      /\ Handled(u, i) => Handled(u, i)'
    BY DEF NoneNew
  <2>1. ASSUME cmd.rebuild, Ready(u, i)' PROVE Ready(u, i)
    BY <1>1, <2>1, BuildReady DEF Ready
  <2>2. ASSUME Flashed(u, i)' PROVE Flashed(u, i)
    BY <1>1, <2>2, BuildReady DEF Ready, Flashed
  <2> QED BY <2>1, <2>2, BuildReady
<1>3. ~Working /\ step # "failed" /\ cmd' = cmd
  BY <1>1, BuildReady DEF Working, Changing
<1> QED BY <1>1, <1>2, <1>3, FitQuiet, MatchQuiet DEF ImageInv

\* A step that leaves a failed build keeps what other cores have.
LEMMA FailQuiet ==
    ASSUME TypeOK, Shape, Build, Fail
    PROVE  NoneNew
<1>1. step' = "failed" /\ at' = at
  BY DEF Fail
<1> SUFFICES ASSUME NEW u \in Sessions, NEW i \in DOMAIN Conf(u).cores
             PROVE  /\ Ready(u, i)' => Ready(u, i)
                    /\ Flashed(u, i)' => Flashed(u, i)
                    /\ Handled(u, i) => Handled(u, i)'
  BY DEF NoneNew
<1>2. ASSUME Ready(u, i)' PROVE Ready(u, i)
  BY <1>1, <1>2, BuildReady DEF Ready
<1>3. ASSUME Flashed(u, i)' PROVE Flashed(u, i)
  BY <1>1, <1>2, <1>3, BuildReady DEF Flashed
<1> QED BY <1>2, <1>3, BuildReady

\* So does one that stays with the core under work.
LEMMA WorkQuiet ==
    ASSUME TypeOK, Shape, Build, Working, step' \in Changing, at' = at
    PROVE  NoneNew /\ Working' /\ HereDir' = HereDir
<1>1. step' \notin {"flash", "built", "register"} /\ step \in Changing
  BY DEF Changing, Working
<1> SUFFICES ASSUME NEW u \in Sessions, NEW i \in DOMAIN Conf(u).cores
             PROVE  /\ Ready(u, i)' => Ready(u, i)
                    /\ Flashed(u, i)' => Flashed(u, i)
                    /\ Handled(u, i) => Handled(u, i)'
  BY BuildReady, HereFrame DEF NoneNew, Working
<1>2. ASSUME Ready(u, i)' PROVE Ready(u, i)
  BY <1>1, <1>2, BuildReady DEF Ready
<1>3. ASSUME Flashed(u, i)' PROVE Flashed(u, i)
  BY <1>1, <1>2, <1>3, BuildReady DEF Flashed
<1> QED BY <1>2, <1>3, BuildReady

\* A step on the .config of the core under work.
LEMMA MatchConfig ==
    ASSUME TypeOK, Shape, MatchInv, Build, Working, step' \in Changing, at' = at,
           elf' = elf,
           \A d \in Dirs : d # HereDir => dotconf'[d] = dotconf[d],
           dotconf'[HereDir] # NONE,
           \/ step' \in {"tweak", "olddefconfig"}
           \/ dotconf'[HereDir].bare = {}
           \/ /\ dotconf'[HereDir] = dotconf[HereDir]
              /\ step \notin {"tweak", "olddefconfig"}
    PROVE  MatchInv'
<1>1. /\ Sessions' = Sessions /\ cmd' = cmd
      /\ \A u : /\ Conf(u)' = Conf(u)
                /\ \A i : Core(u, i)' = Core(u, i) /\ Options(u, i)' = Options(u, i)
  BY BuildReady, ConfFrame
<1>2. NoneNew /\ Working' /\ HereDir' = HereDir
  BY WorkQuiet
<1> SUFFICES ASSUME NEW u \in Sessions, NEW i \in DOMAIN Conf(u).cores,
                    Ready(u, i)', cmd.rebuild, step' # "failed"
             PROVE  LET d == Core(u, i).dir
                        here == Working' /\ d = HereDir'
                    IN /\ dotconf'[d] # NONE
                       /\ ~here => Matches(d)'
                       /\ /\ Keys(Options(u, i)) # {}
                          /\ ~(here /\ step' \in {"tweak", "olddefconfig"})
                          => dotconf'[d].bare = {}
  BY <1>1 DEF MatchInv, Matches
<1>3. Ready(u, i) /\ step # "failed"
  BY <1>2 DEF NoneNew, Working, Changing
<1> DEFINE d == Core(u, i).dir
<1>4. /\ dotconf[d] # NONE
      /\ ~(Working /\ d = HereDir) => Matches(d)
      /\ /\ Keys(Options(u, i)) # {}
         /\ ~(Working /\ d = HereDir /\ step \in {"tweak", "olddefconfig"})
         => dotconf[d].bare = {}
  BY <1>3 DEF MatchInv
<1>5. d \in Dirs
  BY CoreType DEF TypeOK
<1>6. CASE d = HereDir
  BY <1>2, <1>4, <1>6
<1>7. CASE d # HereDir
  <2>1. dotconf'[d] = dotconf[d]
    BY <1>5, <1>7
  <2> QED BY <1>1, <1>2, <1>4, <1>7, <2>1 DEF Matches
<1> QED BY <1>6, <1>7

LEMMA ImageConfigure ==
    ASSUME TypeOK, Shape, ImageInv, Build, Configure(Conf(cur))
    PROVE  ImageInv'
<1>1. phase = "build" /\ step \in {"configure", "again"} /\ cmd' = cmd
      /\ UNCHANGED <<elf, board>>
  BY DEF Build, Configure, disk
<1>2. Working /\ WorkOK /\ HereDir \in Dirs /\ Core(cur, at).def \in Defconfigs
  BY <1>1, HereType DEF Working, Shape, Changing, WorkOK
<1>3. CASE Fail /\ dotconf' = dotconf
  <2>1. NoneNew /\ step' = "failed"
    BY <1>3, FailQuiet DEF Fail
  <2> QED BY <1>1, <1>3, <2>1, FitQuiet, MatchQuiet DEF ImageInv
<1>4. CASE /\ dotconf' = [dotconf EXCEPT ![HereDir] =
                            Configured(HereDir, Core(cur, at).def)]
           /\ step' \in {"check", "compile", "tweak"} /\ at' = at
           /\ step = "again" => step' = "check"
  <2> DEFINE new == Configured(HereDir, Core(cur, at).def)
  <2>1. new # NONE /\ (new = dotconf[HereDir] \/ new.bare = {})
    BY <1>2, ConfiguredType DEF TypeOK, BuildTypeOK
  <2> HIDE DEF new
  <2>2. dotconf' = [dotconf EXCEPT ![HereDir] = new]
    BY <1>4 DEF new
  <2>3. /\ dotconf'[HereDir] = new
        /\ \A d \in Dirs : d # HereDir => dotconf'[d] = dotconf[d]
    BY <1>2, <2>2 DEF TypeOK, BuildTypeOK
  <2>4. step' \in Changing
    BY <1>4 DEF Changing
  <2>5. step \notin {"tweak", "olddefconfig"}
    BY <1>1
  <2>6. MatchInv'
    BY <1>1, <1>2, <1>4, <2>1, <2>3, <2>4, <2>5, MatchConfig DEF ImageInv
  <2>7. NoneNew
    BY <1>2, <1>4, <2>4, WorkQuiet
  <2> QED BY <1>1, <2>6, <2>7, FitQuiet DEF ImageInv
<1>5. \/ Fail /\ dotconf' = dotconf
      \/ /\ dotconf' = [dotconf EXCEPT ![HereDir] =
                            Configured(HereDir, Core(cur, at).def)]
         /\ step' \in {"check", "compile", "tweak"} /\ at' = at
         /\ step = "again" => step' = "check"
  BY DEF Configure, Core, HereDir, disk
<1> QED BY <1>3, <1>4, <1>5

LEMMA ImageTweak ==
    ASSUME TypeOK, Shape, ImageInv, Build, Tweak(Conf(cur)) \/ OldDefConfig(Conf(cur))
    PROVE  ImageInv'
<1>1. /\ phase = "build" /\ step \in {"tweak", "olddefconfig"} /\ cmd' = cmd
      /\ UNCHANGED <<elf, board>>
  BY DEF Build, Tweak, OldDefConfig, disk
<1>2. /\ Working /\ HereDir \in Dirs /\ dotconf[HereDir] # NONE
  BY <1>1, HereType DEF Working, Shape, Changing, WorkOK
<1>3. TypeOK' /\ dotconf[HereDir] \in DotConfigs
  BY <1>2, TweakType, OldDefConfigType DEF TypeOK, BuildTypeOK
<1>4. CASE Fail /\ dotconf' = dotconf
  <2>1. NoneNew /\ step' = "failed"
    BY <1>4, FailQuiet DEF Fail
  <2> QED BY <1>1, <1>4, <2>1, FitQuiet, MatchQuiet DEF ImageInv
<1>5. CASE /\ \/ dotconf' = dotconf
              \/ /\ dotconf'[HereDir] # NONE
                 /\ \A d \in Dirs : d # HereDir => dotconf'[d] = dotconf[d]
           /\ at' = at
           /\ \/ step' \in {"tweak", "olddefconfig"}
              \/ step' = "again" /\ dotconf'[HereDir].bare = {}
  <2>1. step' \in Changing
    BY <1>5 DEF Changing
  <2>2. NoneNew
    BY <1>2, <1>5, <2>1, WorkQuiet
  <2>3. MatchInv'
    BY <1>1, <1>2, <1>5, <2>1, MatchConfig DEF ImageInv
  <2> QED BY <1>1, <2>2, <2>3, FitQuiet DEF ImageInv
<1>6. CASE Tweak(Conf(cur)) /\ ~Fail
  <2>1. CASE Goes("olddefconfig") /\ UNCHANGED disk
    BY <2>1, <1>5 DEF Goes, disk
  <2>2. CASE ~(Goes("olddefconfig") /\ UNCHANGED disk)
    <3>1. /\ UNCHANGED <<step, at>> /\ step = "tweak"
          /\ \E x : dotconf' = [dotconf EXCEPT ![HereDir] =
               [dotconf[HereDir] EXCEPT !.on = x[1], !.bare = x[2]]]
      <4>1. UNCHANGED <<step, at>> /\ step = "tweak"
        BY <1>6, <2>2 DEF Tweak
      <4>2. PICK s \in todo :
              dotconf' = [dotconf EXCEPT ![HereDir] =
                [dotconf[HereDir] EXCEPT
                   !.on = IF s \in Options(cur, at).on THEN @ \cup {s} ELSE @ \ {s},
                   !.bare = IF s \in Options(cur, at).on /\ s \notin dotconf[HereDir].on
                              THEN @ \cup {s} ELSE @ \ {s}]]
        BY <1>6, <2>2 DEF Tweak, HereDir, Core, Options
      <4> DEFINE old == dotconf[HereDir]
                 on == IF s \in Options(cur, at).on THEN old.on \cup {s} ELSE old.on \ {s}
                 bare == IF s \in Options(cur, at).on /\ s \notin old.on
                           THEN old.bare \cup {s} ELSE old.bare \ {s}
      <4>3. dotconf' = [dotconf EXCEPT ![HereDir] =
               [dotconf[HereDir] EXCEPT !.on = <<on, bare>>[1], !.bare = <<on, bare>>[2]]]
        BY <4>2
      <4> QED BY <4>1, <4>3
    <3>2. PICK x : dotconf' = [dotconf EXCEPT ![HereDir] =
               [dotconf[HereDir] EXCEPT !.on = x[1], !.bare = x[2]]]
      BY <3>1
    <3>3. \A d \in Dirs : d # HereDir => dotconf'[d] = dotconf[d]
      BY <1>2, <3>2 DEF TypeOK, BuildTypeOK
    <3>4. /\ Shape' /\ phase' = "build" /\ step' = "tweak"
          /\ HereDir' = HereDir
      BY <1>1, <1>6, <3>1, TweakType, BuildReady, HereFrame
    <3>5. dotconf'[HereDir] # NONE
      BY <3>4 DEF Shape, WorkOK, Changing
    <3> QED BY <1>5, <3>1, <3>3, <3>5
  <2> QED BY <2>1, <2>2
<1>7. CASE OldDefConfig(Conf(cur)) /\ ~Fail
  <2>1. /\ dotconf' = [dotconf EXCEPT ![HereDir].on = Settle(@), ![HereDir].bare = {}]
        /\ step' = "again" /\ at' = at
    BY <1>7 DEF OldDefConfig, Goes, HereDir, Core
  <2> DEFINE new == [dotconf[HereDir] EXCEPT !.on = Settle(@), !.bare = {}]
  <2>2. dotconf' = [dotconf EXCEPT ![HereDir] = new]
    BY <1>2, <1>3, <2>1 DEF TypeOK, BuildTypeOK, DotConfigs
  <2>3. new.bare = {}
    BY <1>3 DEF DotConfigs
  <2> HIDE DEF new
  <2>4. /\ dotconf'[HereDir] = new
        /\ \A d \in Dirs : d # HereDir => dotconf'[d] = dotconf[d]
    BY <1>2, <2>2 DEF TypeOK, BuildTypeOK
  <2>5. Shape' /\ phase' = "build" /\ HereDir' = HereDir
    BY <1>7, <2>1, OldDefConfigType, BuildReady, HereFrame
  <2>6. dotconf'[HereDir] # NONE
    BY <2>1, <2>5 DEF Shape, WorkOK, Changing
  <2> QED BY <1>5, <2>1, <2>3, <2>4, <2>6
<1>8. Fail => dotconf' = dotconf
  <2>1. CASE Tweak(Conf(cur))
    BY <1>1, <2>1 DEF Tweak, Fail, Goes, disk
  <2>2. CASE OldDefConfig(Conf(cur))
    BY <1>1, <2>2 DEF OldDefConfig, Fail, Goes, disk
  <2> QED BY <2>1, <2>2
<1> QED BY <1>4, <1>6, <1>7, <1>8

LEMMA ImageCheck ==
    ASSUME TypeOK, Shape, ImageInv, Build, CheckOverrides(Conf(cur))
    PROVE  ImageInv'
<1>1. /\ phase = "build" /\ step = "check" /\ cmd' = cmd
      /\ UNCHANGED <<elf, dotconf, board, at>> /\ step' \in {"compile", "failed"}
  BY DEF Build, CheckOverrides, disk, Goes, Fail
<1>2. Working
  BY <1>1 DEF Working, Changing
<1>3. NoneNew
  <2>1. CASE Fail
    BY <2>1, FailQuiet
  <2>2. CASE ~Fail
    <3>1. step' \in Changing
      BY <2>2 DEF CheckOverrides, Goes, Changing
    <3> QED BY <1>1, <1>2, <3>1, WorkQuiet
  <2> QED BY <2>1, <2>2
<1>4. step' = "compile" => Working' /\ HereDir' = HereDir
  BY <1>1, <1>2, WorkQuiet DEF Changing
<1> QED BY <1>1, <1>3, <1>4, FitQuiet, MatchQuiet DEF ImageInv

\* The core under work is not ready, and shares nothing with a separate one.
LEMMA HereApart ==
    ASSUME TypeOK, Shape, Build, NEW u \in Sessions, NEW i \in DOMAIN Conf(u).cores,
           <<u, i>> # <<cur, at>>, Separate(u, i)'
    PROVE  Separate(u, i) /\ Apart(Core(cur, at), Core(u, i))
<1>1. cmd' = cmd /\ phase = "build" /\ cur \in Sessions /\ at \in DOMAIN Conf(cur).cores
  BY BuildReady, HereType
<1>2. Separate(u, i)
  BY <1>1, BuildReady, SeparateFrame
<1>3. Handled(cur, at)
  BY <1>1 DEF Handled
<1> QED BY <1>1, <1>2, <1>3 DEF Separate

LEMMA ImageCompile ==
    ASSUME TypeOK, Shape, ImageInv, Build, Compile(Conf(cur))
    PROVE  ImageInv'
<1>1. /\ phase = "build" /\ step = "compile" /\ cmd' = cmd /\ phase' = "build"
      /\ UNCHANGED <<dotconf, board>>
      /\ \A u : /\ Conf(u)' = Conf(u)
                /\ \A i : Core(u, i)' = Core(u, i) /\ Options(u, i)' = Options(u, i)
      /\ Sessions' = Sessions /\ Flashing' = Flashing
  BY CompileCases, BuildReady, ConfFrame
<1>2. /\ Working /\ WorkOK /\ HereDir \in Dirs /\ HereDir = Core(cur, at).dir
      /\ cur \in Sessions /\ at \in DOMAIN Conf(cur).cores
  BY <1>1, HereType DEF Working, Shape, Changing, HereDir
<1>3. /\ \A d \in Dirs : d # HereDir => elf'[d] = elf[d]
      /\ at' = at
      /\ step' = "failed" \/ (step' = "register" /\ elf'[HereDir] = Made)
  BY <1>2, CompileCases DEF TypeOK, BuildTypeOK, Goes, Fail
<1>4. ASSUME NEW u \in Sessions, NEW i \in DOMAIN Conf(u).cores, Ready(u, i)'
      PROVE  Ready(u, i) \/ (u = cur /\ i = at /\ step' = "register")
  BY <1>1, <1>3, <1>4, BuildReady DEF Ready
<1>5. ASSUME NEW u \in Sessions, NEW i \in DOMAIN Conf(u).cores, Ready(u, i)
      PROVE  <<u, i>> # <<cur, at>>
  <2>1. i \in Nat
    BY CoreType DEF TypeOK
  <2> QED BY <1>1, <1>5, <2>1, BuildReady DEF Ready
<1>6. MatchInv'
  <2> SUFFICES ASSUME NEW u \in Sessions, NEW i \in DOMAIN Conf(u).cores,
                      Ready(u, i)', cmd.rebuild, step' # "failed"
               PROVE  LET d == Core(u, i).dir
                      IN /\ dotconf[d] # NONE
                         /\ Matches(d)'
                         /\ Keys(Options(u, i)) # {} => dotconf[d].bare = {}
    BY <1>1 DEF MatchInv, Matches
  <2>1. CASE Core(u, i).dir = HereDir
    <3>1. dotconf[HereDir] # NONE
      BY <1>1, <1>2 DEF WorkOK
    <3>2. elf'[HereDir] = Made /\ dotconf' = dotconf
      BY <1>1, <1>3
    <3>3. Matches(Core(u, i).dir)'
      BY <1>1, <2>1, <3>2, MadeType DEF Matches
    <3>4. Keys(Options(u, i)) # {} => dotconf[HereDir].bare = {}
      <4>1. CASE Ready(u, i)
        BY <1>1, <2>1, <4>1 DEF ImageInv, MatchInv
      <4>2. CASE u = cur /\ i = at
        BY <1>1, <1>2, <4>2 DEF WorkOK
      <4> QED BY <1>4, <4>1, <4>2
    <3> QED BY <2>1, <3>1, <3>3, <3>4
  <2>2. CASE Core(u, i).dir # HereDir
    <3>1. Ready(u, i) /\ Core(u, i).dir \in Dirs
      BY <1>2, <1>4, <2>2, CoreType DEF TypeOK
    <3>2. /\ dotconf[Core(u, i).dir] # NONE /\ Matches(Core(u, i).dir)
          /\ Keys(Options(u, i)) # {} => dotconf[Core(u, i).dir].bare = {}
      BY <1>1, <2>2, <3>1 DEF ImageInv, MatchInv
    <3>3. elf'[Core(u, i).dir] = elf[Core(u, i).dir]
      BY <1>3, <2>2, <3>1
    <3> QED BY <1>1, <3>2, <3>3 DEF Matches
  <2> QED BY <2>1, <2>2
<1>7. FitInv'
  <2> SUFFICES ASSUME NEW u \in Sessions, NEW i \in DOMAIN Conf(u).cores,
                      Ready(u, i)', cmd.rebuild, Separate(u, i)'
               PROVE  LET image == elf'[Core(u, i).dir]
                      IN /\ image # NONE
                         /\ image.def = Core(u, i).def
                         /\ image.env = BuildEnv(Conf(u), Core(u, i))
                         /\ Fits(image, Options(u, i))
    BY <1>1 DEF FitInv, Fits, BuildEnv
  <2>1. CASE Ready(u, i)
    <3>1. Separate(u, i) /\ Core(u, i).dir # HereDir
      BY <1>2, <1>5, <2>1, HereApart DEF Apart
    <3>2. elf'[Core(u, i).dir] = elf[Core(u, i).dir]
      BY <1>3, <3>1, CoreType DEF TypeOK
    <3> QED BY <2>1, <3>1, <3>2 DEF ImageInv, FitInv
  <2>2. CASE u = cur /\ i = at /\ step' = "register"
    <3>1. elf'[Core(u, i).dir] = Made
      BY <1>2, <1>3, <2>2
    <3> QED BY <1>1, <2>2, <3>1, MadeType
  <2> QED BY <1>4, <2>1, <2>2
<1>8. BoardInv'
  <2> SUFFICES ASSUME NEW u \in Sessions, NEW i \in DOMAIN Conf(u).cores,
                      Flashed(u, i)', Flashing, Separate(u, i)',
                      Core(u, i).board # NONE
               PROVE  board[Core(u, i).board] = elf'[Core(u, i).dir]
    BY <1>1 DEF BoardInv
  <2>1. Flashed(u, i) /\ <<u, i>> # <<cur, at>>
    <3>1. Own(u) /\ Ready(u, i)'
      BY <1>3, BuildReady
    <3>2. Ready(u, i)
      BY <3>1, BuildReady DEF Ready
    <3> QED BY <1>5, <3>1, <3>2 DEF Flashed
  <2>2. Separate(u, i) /\ Core(u, i).dir # HereDir
    BY <1>2, <2>1, HereApart DEF Apart
  <2>3. elf'[Core(u, i).dir] = elf[Core(u, i).dir]
    BY <1>3, <2>2, CoreType DEF TypeOK
  <2> QED BY <2>1, <2>2, <2>3 DEF ImageInv, BoardInv
<1> QED BY <1>6, <1>7, <1>8 DEF ImageInv

LEMMA ImageRegister ==
    ASSUME TypeOK, Shape, ImageInv, Build, Register(Conf(cur), Flashing)
    PROVE  ImageInv'
<1>1. /\ phase = "build" /\ step = "register" /\ cmd' = cmd
      /\ UNCHANGED <<elf, dotconf, board>>
  BY BuildReady DEF Register, disk
<1>2. /\ at \in Nat /\ at <= Len(Conf(cur).cores)
      /\ Len(Conf(cur).cores) \in Nat \ {0}
  BY <1>1, HereType, CoreType, ConfType DEF TypeOK
<1>3. NoneNew
  <2>1. CASE Fail
    BY <2>1, FailQuiet
  <2>2. CASE NextCore(Conf(cur), Flashing)
    <3> SUFFICES ASSUME NEW u \in Sessions, NEW i \in DOMAIN Conf(u).cores
                 PROVE  /\ Ready(u, i)' => Ready(u, i)
                        /\ Flashing /\ Flashed(u, i)' => Flashed(u, i)
                        /\ Handled(u, i) => Handled(u, i)'
      BY DEF NoneNew
    <3>1. i \in Nat \ {0} /\ i <= Len(Conf(u).cores)
      BY CoreType DEF TypeOK
    <3>2. CASE at < Len(Conf(cur).cores)
      <4>1. step' = "core" /\ at' = at + 1
        BY <2>2, <3>2 DEF NextCore
      <4>2. i < at + 1 => i < at \/ i = at
        BY <1>2, <3>1
      <4>3. Ready(u, i)' => Ready(u, i)
        BY <1>1, <4>1, <4>2, BuildReady DEF Ready
      <4>4. Flashed(u, i)' => Flashed(u, i)
        BY <4>1, <4>3, BuildReady DEF Flashed
      <4> QED BY <4>3, <4>4, BuildReady
    <3>3. CASE ~(at < Len(Conf(cur).cores))
      <4>1. step' = (IF Flashing THEN "flash" ELSE "built") /\ at' = 1
        BY <2>2, <3>3 DEF NextCore
      <4>2. at = Len(Conf(cur).cores)
        BY <1>2, <3>3
      <4>3. u = cur => i < at \/ i = at
        BY <1>2, <3>1, <4>2
      <4>4. Ready(u, i)' => Ready(u, i)
        BY <1>1, <4>3, BuildReady DEF Ready
      <4>5. ~(i < at')
        BY <3>1, <4>1
      <4>6. Flashing /\ Flashed(u, i)' => Flashed(u, i)
        BY <4>1, <4>4, <4>5, BuildReady DEF Flashed
      <4> QED BY <4>4, <4>6, BuildReady
    <3> QED BY <3>2, <3>3
  <2> QED BY <2>1, <2>2 DEF Register
<1>4. ~Working /\ step # "failed"
  BY <1>1 DEF Working, Changing
<1> QED BY <1>1, <1>3, <1>4, FitQuiet, MatchQuiet DEF ImageInv

LEMMA ImageFlash ==
    ASSUME TypeOK, Shape, ImageInv, Build, Flash(Conf(cur))
    PROVE  ImageInv'
<1>1. /\ phase = "build" /\ step = "flash" /\ cmd' = cmd /\ UNCHANGED <<elf, dotconf>>
      /\ \A u : /\ Conf(u)' = Conf(u)
                /\ \A i : Core(u, i)' = Core(u, i) /\ Options(u, i)' = Options(u, i)
      /\ Sessions' = Sessions /\ Flashing' = Flashing
      /\ step' \in {"flash", "built", "failed"}
  BY FlashCases, BuildReady, ConfFrame DEF Fail
<1>2. /\ HereDir = Core(cur, at).dir
      /\ cur \in Sessions /\ at \in DOMAIN Conf(cur).cores
      /\ at \in Nat /\ at <= Len(Conf(cur).cores) /\ Len(Conf(cur).cores) \in Nat
  BY <1>1, HereType, CoreType, ConfType DEF HereDir, TypeOK
<1>3. ASSUME NEW u \in Sessions, NEW i \in DOMAIN Conf(u).cores
      PROVE  /\ Ready(u, i)' => Ready(u, i)
             /\ Handled(u, i) => Handled(u, i)'
             /\ Flashed(u, i)' =>
                   \/ Flashed(u, i) /\ <<u, i>> # <<cur, at>>
                   \/ u = cur /\ i = at /\ ~Fail
  <2>1. i \in Nat \ {0} /\ i <= Len(Conf(u).cores)
    BY CoreType DEF TypeOK
  <2>2. Ready(u, i)' => Ready(u, i)
    BY <1>1, BuildReady DEF Ready
  <2>3. ASSUME Flashed(u, i)', u # cur PROVE Flashed(u, i)
    BY <2>2, <2>3, BuildReady DEF Flashed
  <2>4. ASSUME Flashed(u, i)', u = cur PROVE ~Fail /\ (Flashed(u, i) \/ i = at)
    <3>1. ~Own(u) /\ (step' = "built" \/ (step' = "flash" /\ i < at'))
      BY <2>4, BuildReady
    <3>2. ~Fail
      BY <3>1 DEF Fail
    <3>3. i < at \/ i = at
      <4>1. CASE at = Len(Conf(cur).cores)
        BY <1>2, <2>1, <2>4, <4>1
      <4>2. CASE at # Len(Conf(cur).cores)
        <5>1. step' = "flash" /\ at' = at + 1
          BY <3>2, <4>2, FlashCases
        <5> QED BY <1>2, <2>1, <3>1, <5>1
      <4> QED BY <4>1, <4>2
    <3> QED BY <1>1, <2>2, <2>4, <3>2, <3>3, BuildReady DEF Flashed
  <2>5. u # cur => <<u, i>> # <<cur, at>>
    OBVIOUS
  <2>6. i # at => <<u, i>> # <<cur, at>>
    OBVIOUS
  <2> QED BY <2>2, <2>3, <2>4, <2>5, <2>6, BuildReady
<1>4. MatchInv'
  <2> SUFFICES ASSUME NEW u \in Sessions, NEW i \in DOMAIN Conf(u).cores,
                      Ready(u, i)', cmd.rebuild, step' # "failed"
               PROVE  LET d == Core(u, i).dir
                      IN /\ dotconf[d] # NONE
                         /\ Matches(d)
                         /\ Keys(Options(u, i)) # {} => dotconf[d].bare = {}
    BY <1>1 DEF MatchInv, Matches
  <2>1. Ready(u, i) /\ step # "failed" /\ ~Working
    BY <1>1, <1>3 DEF Working, Changing
  <2> QED BY <2>1 DEF ImageInv, MatchInv
<1>5. \A u, i : Separate(u, i)' => Separate(u, i)
  BY <1>1, <1>3, SeparateFrame
<1>6. FitInv'
  <2> SUFFICES ASSUME NEW u \in Sessions, NEW i \in DOMAIN Conf(u).cores,
                      Ready(u, i)', cmd.rebuild, Separate(u, i)'
               PROVE  LET image == elf[Core(u, i).dir]
                      IN /\ image # NONE
                         /\ image.def = Core(u, i).def
                         /\ image.env = BuildEnv(Conf(u), Core(u, i))
                         /\ Fits(image, Options(u, i))
    BY <1>1 DEF FitInv, Fits, BuildEnv
  <2> QED BY <1>3, <1>5 DEF ImageInv, FitInv
<1>7. BoardInv'
  <2> SUFFICES ASSUME NEW u \in Sessions, NEW i \in DOMAIN Conf(u).cores,
                      Flashed(u, i)', Flashing, Separate(u, i)',
                      Core(u, i).board # NONE
               PROVE  board'[Core(u, i).board] = elf[Core(u, i).dir]
    BY <1>1 DEF BoardInv
  <2>1. CASE Flashed(u, i) /\ <<u, i>> # <<cur, at>>
    <3>1. Separate(u, i) /\ Apart(Core(cur, at), Core(u, i))
      BY <2>1, HereApart
    <3>2. Core(cur, at).board # Core(u, i).board /\ Core(u, i).board \in Boards
      BY <3>1, CoreType DEF Apart, TypeOK
    <3>3. board'[Core(u, i).board] = board[Core(u, i).board]
      BY <3>2, FlashCases
    <3> QED BY <2>1, <3>1, <3>3 DEF ImageInv, BoardInv
  <2>2. CASE u = cur /\ i = at /\ ~Fail
    BY <1>2, <2>2, FlashCases
  <2> QED BY <1>3, <2>1, <2>2
<1> QED BY <1>4, <1>6, <1>7 DEF ImageInv

LEMMA ImageBuilder ==
    ASSUME TypeOK, Shape, ImageInv, Build
    PROVE  ImageInv'
BY ImageStart, ImageConfigure, ImageTweak, ImageCheck, ImageCompile, ImageRegister,
   ImageFlash DEF Build, BuildStep

\* Without a build nothing is claimed.
LEMMA ImageReset ==
    ASSUME built' = <<>>, phase' # "build"
    PROVE  ImageInv' /\ KeyInv'
<1>1. \A u : ~Own(u)'
  BY DEF Own
<1>2. \A u, i : ~Ready(u, i)' /\ ~Flashed(u, i)'
  BY <1>1 DEF Ready, Flashed
<1>3. KeyInv'
  BY DEF KeyInv
<1> QED BY <1>2, <1>3 DEF ImageInv, MatchInv, FitInv, BoardInv

\* Nor does anything change when no builder is at work.
LEMMA ImageIdle ==
    ASSUME TypeOK, Shape, ImageInv, KeyInv, phase # "build", phase' # "build",
           UNCHANGED <<elf, dotconf, board, step, at, cmd, built>>
    PROVE  ImageInv' /\ KeyInv'
<1>1. /\ Sessions' = Sessions
      /\ \A u : /\ Conf(u)' = Conf(u) /\ BuildKey(u)' = BuildKey(u)
                /\ \A i : Core(u, i)' = Core(u, i)
  BY ConfFrame
<1>2. \A u : Own(u)' = Own(u)
  BY DEF Own
<1>3. NoneNew
  BY <1>1, <1>2 DEF NoneNew, Ready, Flashed, Handled, NeedBuild
<1>4. ~Working
  BY DEF Working
<1>5. ImageInv'
  BY <1>3, <1>4, FitQuiet, MatchQuiet DEF ImageInv
<1>6. KeyInv'
  BY <1>1 DEF KeyInv
<1> QED BY <1>5, <1>6

LEMMA ImageSettled ==
    ASSUME TypeOK, Shape, ImageInv, KeyInv, phase \in {"key", "build"},
           NEW s \in 1..cur, s # cur => s \in DOMAIN built /\ built[s] = s,
           phase = "build" => step = "built" /\ s = cur,
           s = cur /\ phase = "key" => ~NeedBuild(Conf(cur)),
           BuildKey(s) = BuildKey(cur),
           Settled(s), UNCHANGED <<disk, cmd>>
    PROVE  ImageInv' /\ KeyInv'
<1>1. /\ cmd' = cmd /\ built' = Append(built, s) /\ step' = "core"
      /\ UNCHANGED <<elf, dotconf, board>> /\ phase' # "build"
      /\ cur \in Nat /\ s \in Nat
  <2>1. phase' # "build"
    BY DEF Settled, End, Multi
  <2> QED BY <2>1, CommandType DEF Settled, disk, TypeOK
<1>2. /\ Sessions' = Sessions /\ Flashing' = Flashing
      /\ \A u : /\ Conf(u)' = Conf(u) /\ BuildKey(u)' = BuildKey(u)
                /\ \A i : Core(u, i)' = Core(u, i) /\ Options(u, i)' = Options(u, i)
  BY <1>1, ConfFrame
<1>3. built \in Seq(Nat) /\ Len(built) = cur - 1
  BY DEF Shape
<1>4. /\ DOMAIN built = 1..(cur - 1) /\ DOMAIN built' = 1..cur
      /\ built'[cur] = s /\ \A i \in 1..(cur - 1) : built'[i] = built[i]
  BY <1>1, <1>3, AppendProperties, LenProperties
<1>5. \A u : Own(u)' <=> Own(u) \/ (u = cur /\ s = cur)
  <2> SUFFICES ASSUME NEW u PROVE Own(u)' <=> Own(u) \/ (u = cur /\ s = cur)
    OBVIOUS
  <2>1. CASE u \in 1..(cur - 1)
    BY <1>1, <1>4, <2>1 DEF Own
  <2>2. CASE u \notin 1..(cur - 1)
    <3>1. ~Own(u) /\ (u \in 1..cur <=> u = cur)
      BY <1>1, <1>4, <2>2 DEF Own
    <3> QED BY <1>4, <3>1 DEF Own
  <2> QED BY <2>1, <2>2
<1>6. NoneNew
  <2> SUFFICES ASSUME NEW u \in Sessions, NEW i \in DOMAIN Conf(u).cores
               PROVE  /\ Ready(u, i)' => Ready(u, i)
                      /\ Flashed(u, i)' => Flashed(u, i)
                      /\ Handled(u, i) => Handled(u, i)'
    BY DEF NoneNew
  <2>1. Ready(u, i)' => Ready(u, i)
    <3> SUFFICES ASSUME Ready(u, i)' PROVE Ready(u, i)
      OBVIOUS
    <3>1. Core(u, i).def # NONE /\ (Own(u) \/ (u = cur /\ s = cur))
      BY <1>1, <1>2, <1>5 DEF Ready
    <3>2. CASE Own(u)
      BY <3>1, <3>2 DEF Ready
    <3>3. CASE u = cur /\ s = cur /\ phase = "key"
      BY <3>1, <3>3 DEF NeedBuild, Core
    <3>4. CASE u = cur /\ phase = "build"
      BY <3>1, <3>4 DEF Ready
    <3> QED BY <3>1, <3>2, <3>3, <3>4
  <2>2. Flashed(u, i)' => Flashed(u, i)
    <3> SUFFICES ASSUME Flashed(u, i)' PROVE Flashed(u, i)
      OBVIOUS
    <3>1. Ready(u, i) /\ (Own(u) \/ (u = cur /\ s = cur))
      BY <1>1, <1>5, <2>1 DEF Flashed
    <3>2. CASE Own(u)
      BY <3>1, <3>2 DEF Flashed
    <3>3. CASE phase = "build"
      BY <3>1, <3>3 DEF Flashed
    <3>4. CASE ~Own(u) /\ phase = "key"
      BY <3>1, <3>4 DEF Ready
    <3> QED BY <3>2, <3>3, <3>4
  <2>3. Handled(u, i) => Handled(u, i)'
    <3> SUFFICES ASSUME Handled(u, i) PROVE Handled(u, i)'
      OBVIOUS
    <3>1. \/ Own(u) /\ NeedBuild(Conf(u))
          \/ phase = "build" /\ u = cur
      BY DEF Handled
    <3>2. CASE Own(u) /\ NeedBuild(Conf(u))
      BY <1>2, <1>5, <3>2 DEF Handled, NeedBuild
    <3>3. CASE phase = "build" /\ u = cur
      <4>1. s = cur /\ NeedBuild(Conf(cur))
        BY <3>3 DEF Shape
      <4> QED BY <1>2, <1>5, <3>3, <4>1 DEF Handled, NeedBuild
    <3> QED BY <3>1, <3>2, <3>3
  <2> QED BY <2>1, <2>2, <2>3
<1>7. ~Working /\ step # "failed"
  BY DEF Working, Changing, Shape
<1>8. ImageInv'
  BY <1>1, <1>6, <1>7, FitQuiet, MatchQuiet DEF ImageInv
<1>9. KeyInv'
  <2> SUFFICES ASSUME NEW i \in 1..cur PROVE BuildKey(built'[i]) = BuildKey(i)
    BY <1>2, <1>4 DEF KeyInv
  <2>1. CASE i = cur
    BY <1>4, <2>1
  <2>2. CASE i # cur
    <3>1. i \in 1..(cur - 1)
      BY <1>1, <2>2
    <3> QED BY <1>4, <3>1 DEF KeyInv
  <2> QED BY <2>1, <2>2
<1> QED BY <1>8, <1>9

LEMMA ImageLookUp ==
    ASSUME TypeOK, Shape, ImageInv, KeyInv, LookUp
    PROVE  ImageInv' /\ KeyInv'
<1> DEFINE same == {s \in 1..(cur - 1) : BuildKey(s) = BuildKey(cur)}
           s0 == CHOOSE s \in same : TRUE
<1>1. /\ cur \in Nat \ {0} /\ phase = "key"
      /\ DOMAIN built = 1..(cur - 1) /\ Len(built) = cur - 1 /\ built \in Seq(Nat)
  BY CommandType, LenProperties DEF TypeOK, Shape, LookUp
<1>2. UNCHANGED <<disk, cmd>>
  BY DEF LookUp
<1>3. CASE same # {}
  <2>1. s0 \in 1..(cur - 1) /\ BuildKey(s0) = BuildKey(cur)
    BY <1>3
  <2>2. Settled(built[s0])
    BY <1>3 DEF LookUp
  <2> HIDE DEF s0, same
  <2>3. built[s0] \in 1..s0 /\ built[built[s0]] = built[s0]
    BY <1>1, <2>1 DEF TypeOK
  <2>4. built[s0] \in 1..cur /\ built[s0] \in 1..(cur - 1) /\ built[s0] # cur
    BY <1>1, <2>1, <2>3
  <2>5. BuildKey(built[s0]) = BuildKey(cur)
    BY <1>1, <2>1 DEF KeyInv
  <2> QED BY <1>1, <1>2, <2>2, <2>3, <2>4, <2>5, ImageSettled
<1>4. CASE same = {} /\ ~NeedBuild(Conf(cur))
  <2>1. Settled(cur) /\ cur \in 1..cur
    BY <1>1, <1>4 DEF LookUp
  <2> QED BY <1>1, <1>2, <1>4, <2>1, ImageSettled
<1>5. CASE same = {} /\ NeedBuild(Conf(cur))
  <2>1. /\ phase' = "build" /\ UNCHANGED <<elf, dotconf, board, step, at, cur, built, cmd>>
    BY <1>2, <1>5 DEF LookUp, disk, builder
  <2>2. step = "core" /\ at = 1 /\ ~Own(cur)
    BY <1>1, NotOwn DEF Shape
  <2>3. /\ Sessions' = Sessions
        /\ \A u : /\ Conf(u)' = Conf(u) /\ BuildKey(u)' = BuildKey(u)
                  /\ \A i : Core(u, i)' = Core(u, i)
    BY <2>1, ConfFrame
  <2>4. \A u : Own(u)' = Own(u)
    BY <2>1 DEF Own
  <2>5. NoneNew
    <3> SUFFICES ASSUME NEW u \in Sessions, NEW i \in DOMAIN Conf(u).cores
                 PROVE  /\ Ready(u, i)' => Ready(u, i)
                        /\ Flashed(u, i)' => Flashed(u, i)
                        /\ Handled(u, i) => Handled(u, i)'
      BY DEF NoneNew
    <3>1. ~(i < 1)
      BY CoreType DEF TypeOK
    <3>2. Ready(u, i)' => Ready(u, i)
      BY <2>1, <2>2, <2>3, <2>4, <3>1 DEF Ready
    <3>3. Flashed(u, i)' => Flashed(u, i)
      BY <2>1, <2>2, <2>4, <3>2 DEF Flashed
    <3>4. Handled(u, i) => Handled(u, i)'
      BY <1>1, <2>1, <2>3, <2>4 DEF Handled, NeedBuild
    <3> QED BY <3>2, <3>3, <3>4
  <2>6. ~Working /\ step # "failed"
    BY <2>2 DEF Working, Changing
  <2>7. ImageInv'
    BY <2>1, <2>5, <2>6, FitQuiet, MatchQuiet DEF ImageInv
  <2>8. KeyInv'
    BY <2>1, <2>3 DEF KeyInv
  <2> QED BY <2>7, <2>8
<1> QED BY <1>3, <1>4, <1>5

LEMMA ImageStep ==
    ASSUME TypeOK, Shape, ImageInv, KeyInv, [Next]_vars
    PROVE  ImageInv' /\ KeyInv'
<1>1. CASE Abort
  BY <1>1, ImageReset DEF Abort, End
<1>2. CASE Invoke
  BY <1>2, ImageReset DEF Invoke
<1>3. CASE LookUp
  BY <1>3, ImageLookUp
<1>4. CASE Build
  <2>1. \A u : BuildKey(u)' = BuildKey(u)
    BY <1>4, BuildReady, ConfFrame
  <2>2. KeyInv'
    BY <1>4, <2>1, BuildReady DEF KeyInv
  <2> QED BY <1>4, <2>2, ImageBuilder
<1>5. CASE BuildEnds /\ ~Abort
  <2>1. /\ phase = "build" /\ step = "built" /\ Settled(cur)
        /\ UNCHANGED <<disk, cmd>>
    BY <1>5 DEF BuildEnds
  <2>2. cur \in 1..cur
    BY CommandType DEF TypeOK
  <2> QED BY <2>1, <2>2, ImageSettled
<1>6. CASE Collect \/ Cleanup \/ NewSessionDir \/ (StartSession /\ ~Abort)
             \/ RunTests \/ FinishSession \/ Merge \/ DaysPass
  <2>1. UNCHANGED <<elf, dotconf, board, step, at, cmd, built>>
    BY <1>6 DEF Collect, Cleanup, NewSessionDir, StartSession, RunTests,
         FinishSession, Merge, DaysPass, Elsewhere, buildVars
  <2>2. phase # "build"
    BY <1>6 DEF Collect, Cleanup, NewSessionDir, StartSession, RunTests,
         FinishSession, Merge, DaysPass
  <2>3. phase' # "build"
    BY <1>6, <2>2 DEF Collect, Cleanup, NewSessionDir, StartSession, RunTests,
         FinishSession, Merge, DaysPass, End
  <2> QED BY <2>1, <2>2, <2>3, ImageIdle
<1>7. CASE UNCHANGED vars
  <2>1. UNCHANGED <<elf, dotconf, board, step, at, cmd, built, phase, cur>>
    BY <1>7 DEF vars, buildVars
  <2>2. CASE phase # "build"
    BY <2>1, <2>2, ImageIdle
  <2>3. CASE phase = "build"
    <3>1. /\ Sessions' = Sessions
          /\ \A u : /\ Conf(u)' = Conf(u) /\ BuildKey(u)' = BuildKey(u)
                    /\ \A i : Core(u, i)' = Core(u, i)
      BY <2>1, ConfFrame
    <3>2. NoneNew
      BY <2>1, <3>1 DEF NoneNew, Ready, Flashed, Handled, NeedBuild, Own
    <3>3. HereDir' = HereDir /\ Working' = Working
      BY <2>1, HereFrame DEF Working
    <3>4. ImageInv'
      BY <2>1, <3>2, <3>3, FitQuiet, MatchQuiet DEF ImageInv
    <3>5. KeyInv'
      BY <2>1, <3>1 DEF KeyInv
    <3> QED BY <3>4, <3>5
  <2> QED BY <2>2, <2>3
<1> QED BY <1>1, <1>2, <1>3, <1>4, <1>5, <1>6, <1>7 DEF Next, CollectFails, Killed

LEMMA ImageInit == Init => ImageInv /\ KeyInv
<1> SUFFICES ASSUME Init PROVE ImageInv /\ KeyInv
  OBVIOUS
<1>1. built = <<>> /\ phase = "done"
  BY DEF Init
<1>2. \A u : ~Own(u)
  BY <1>1 DEF Own
<1>3. \A u, i : ~Ready(u, i) /\ ~Flashed(u, i)
  BY <1>1, <1>2 DEF Ready, Flashed
<1>4. KeyInv
  BY <1>1 DEF KeyInv
<1> QED BY <1>3, <1>4 DEF ImageInv, MatchInv, FitInv, BoardInv

LEMMA ImageInvariant == Spec => [](TypeOK /\ Shape /\ ImageInv /\ KeyInv)
<1>1. Init => TypeOK /\ Shape /\ ImageInv /\ KeyInv
  BY TypeInit, ImageInit
<1>2. TypeOK /\ Shape /\ ImageInv /\ KeyInv /\ [Next]_vars =>
         (TypeOK /\ Shape /\ ImageInv /\ KeyInv)'
  BY TypeStep, ImageStep
<1> QED BY <1>1, <1>2, PTL DEF Spec

-----------------------------------------------------------------------------
(* What is there when the tests run.                                        *)

\* A core that was built, as the invariants see it.
LEMMA BuiltCore ==
    ASSUME TypeOK, Shape, phase # "build", NEW p \in BuiltCores
    PROVE  \E u \in Sessions : \E i \in DOMAIN Conf(u).cores :
              /\ p = <<u, i>> /\ p[1] = u /\ p[2] = i
              /\ Own(u) /\ Ready(u, i) /\ Flashed(u, i)
              /\ CoreOf(p) = Core(u, i)
              /\ Alone(p) => Separate(u, i)
<1>1. PICK u \in DOMAIN built : built[u] = u /\ NeedBuild(Conf(u))
                                /\ \E i \in DOMAIN Conf(u).cores : p = <<u, i>>
  BY DEF BuiltCores, HandledCores
<1>2. PICK i \in DOMAIN Conf(u).cores : p = <<u, i>>
  BY <1>1
<1>3. CoreOf(p) = Core(u, i) /\ Core(u, i).def # NONE /\ p[1] = u /\ p[2] = i
  BY <1>2 DEF BuiltCores, CoreOf, Core
<1>4. u \in Sessions
  <2>1. /\ built \in Seq(Nat) /\ Len(built) <= Len(cmd.sessions)
        /\ Len(cmd.sessions) \in Nat /\ Sessions = 1..Len(cmd.sessions)
    BY CommandType DEF TypeOK, Shape
  <2>2. DOMAIN built = 1..Len(built) /\ Len(built) \in Nat
    BY <2>1, LenProperties
  <2> QED BY <1>1, <2>1, <2>2
<1>5. Own(u)
  BY <1>1 DEF Own
<1>6. Ready(u, i) /\ Flashed(u, i)
  BY <1>3, <1>4, <1>5 DEF Ready, Flashed
<1>7. Alone(p) => Separate(u, i)
  <2> SUFFICES ASSUME Alone(p), NEW v \in Sessions, NEW j \in DOMAIN Conf(v).cores,
                      Handled(v, j), <<v, j>> # <<u, i>>
               PROVE  Apart(Core(v, j), Core(u, i))
    BY DEF Separate
  <2>1. v \in DOMAIN built /\ built[v] = v /\ NeedBuild(Conf(v))
    BY DEF Handled, Own
  <2>2. <<v, j>> \in HandledCores \ {p}
    BY <1>2, <2>1 DEF HandledCores
  <2>3. CoreOf(<<v, j>>) = Core(v, j)
    BY DEF CoreOf, Core
  <2> QED BY <1>3, <2>2, <2>3 DEF Alone, Apart
<1> QED BY <1>2, <1>3, <1>4, <1>5, <1>6, <1>7

LEMMA RebuiltMatches ==
    ASSUME TypeOK, Shape, ImageInv
    PROVE  RebuiltMatchesConfig
<1> SUFFICES ASSUME Testing, cmd.rebuild, NEW p \in BuiltCores
             PROVE  LET d == CoreOf(p).dir
                    IN /\ elf[d] # NONE
                       /\ elf[d].def = dotconf[d].def
                       /\ elf[d].on = dotconf[d].on \ dotconf[d].bare
                       /\ Keys(KconfigOverrides(Conf(p[1]), CoreOf(p))) # {}
                            => dotconf[d].bare = {}
  BY DEF RebuiltMatchesConfig
<1>1. phase # "build"
  BY DEF Testing
<1>2. ~Working /\ step # "failed"
  BY <1>1 DEF Working, Shape
<1>3. PICK u \in Sessions : \E i \in DOMAIN Conf(u).cores :
              p[1] = u /\ Ready(u, i) /\ CoreOf(p) = Core(u, i)
  BY <1>1, BuiltCore
<1>4. PICK i \in DOMAIN Conf(u).cores :
              p[1] = u /\ Ready(u, i) /\ CoreOf(p) = Core(u, i)
  BY <1>3
<1>5. /\ Matches(Core(u, i).dir)
      /\ Keys(Options(u, i)) # {} => dotconf[Core(u, i).dir].bare = {}
  BY <1>2, <1>4 DEF ImageInv, MatchInv
<1> QED BY <1>4, <1>5 DEF Matches, Options

(* Rebuilding recovers from whatever an earlier invocation left, wherever it  *)
(* failed or was killed: for any number of cores, directories and options    *)
(* the image of each core is the one that its .config describes              *)
(* (_build_core).                                                           *)
THEOREM RebuildsMatch == Spec => []RebuiltMatchesConfig
<1>1. TypeOK /\ Shape /\ ImageInv /\ KeyInv => RebuiltMatchesConfig
  BY RebuiltMatches
<1> QED BY <1>1, ImageInvariant, PTL

\* An image on a board of its own is the one in its directory.
LEMMA RunsOwnImage ==
    ASSUME TypeOK, Shape, ImageInv, phase # "build", Flashing,
           NEW u \in Sessions, NEW i \in DOMAIN Conf(u).cores,
           Flashed(u, i), Separate(u, i)
    PROVE  Running(Core(u, i)) = elf[Core(u, i).dir]
BY DEF ImageInv, BoardInv, Running

\* Sessions with the same key ask for the same builds.
LEMMA SameKey ==
    ASSUME NEW u, NEW s, BuildKey(u) = BuildKey(s),
           NEW i \in DOMAIN Conf(u).cores, Core(u, i).def # NONE
    PROVE  /\ Conf(s).cores[i].def = Core(u, i).def
           /\ Conf(s).env = Conf(u).env
           /\ Conf(s).kv = Conf(u).kv
<1> DEFINE defs(t) == {<<k, Conf(t).cores[k].def>> : k \in DOMAIN Conf(t).cores} \
                         {<<k, NONE>> : k \in DOMAIN Conf(t).cores}
<1>1. /\ BuildKey(u) = <<defs(u), Conf(u).env, Conf(u).kv>>
      /\ BuildKey(s) = <<defs(s), Conf(s).env, Conf(s).kv>>
  BY DEF BuildKey
<1>2. <<i, Core(u, i).def>> \in defs(u)
  BY DEF Core
<1> HIDE DEF defs
<1>3. defs(u) = defs(s) /\ Conf(s).env = Conf(u).env /\ Conf(s).kv = Conf(u).kv
  <2>1. \A a, b, c, x, y, z : <<a, b, c>> = <<x, y, z>> => a = x /\ b = y /\ c = z
    OBVIOUS
  <2>2. <<defs(u), Conf(u).env, Conf(u).kv>> = <<defs(s), Conf(s).env, Conf(s).kv>>
    BY <1>1
  <2> QED BY <2>1, <2>2, Zenon
<1>4. <<i, Core(u, i).def>> \in defs(s)
  BY <1>2, <1>3
<1>5. PICK k \in DOMAIN Conf(s).cores :
         <<i, Core(u, i).def>> = <<k, Conf(s).cores[k].def>>
  BY <1>4 DEF defs
<1> QED BY <1>3, <1>5

LEMMA FitsSession ==
    ASSUME TypeOK, Shape, ImageInv, KeyInv
    PROVE  ImageFitsSession
<1> DEFINE own == Conf(cur)
<1> SUFFICES ASSUME phase = "run", cmd.rebuild, Flashing, NEW p \in BuiltCores,
                    p[1] = built[cur], Alone(p)
             PROVE  LET core  == CoreOf(p)
                        image == Running(core)
                        kv    == IF built[cur] = cur
                                   THEN KconfigOverrides(own, core)
                                   ELSE [on |-> own.kv.on \ Keys(core.kv),
                                         off |-> own.kv.off \ Keys(core.kv)]
                    IN /\ image.def = own.cores[p[2]].def
                       /\ core.env = NONE => image.env = own.env
                       /\ Fits(image, kv)
  BY DEF ImageFitsSession
<1>1. phase # "build" /\ Testing
  BY DEF Testing
<1>2. PICK u \in Sessions : \E i \in DOMAIN Conf(u).cores :
              /\ p[1] = u /\ p[2] = i
              /\ Own(u) /\ Ready(u, i) /\ Flashed(u, i)
              /\ CoreOf(p) = Core(u, i)
              /\ Separate(u, i)
  BY <1>1, BuiltCore
<1>3. PICK i \in DOMAIN Conf(u).cores :
              /\ p[1] = u /\ p[2] = i
              /\ Own(u) /\ Ready(u, i) /\ Flashed(u, i)
              /\ CoreOf(p) = Core(u, i)
              /\ Separate(u, i)
  BY <1>2
<1> DEFINE image == elf[Core(u, i).dir]
<1>4. Running(CoreOf(p)) = image
  BY <1>1, <1>3, RunsOwnImage
<1>5. /\ image.def = Core(u, i).def
      /\ image.env = BuildEnv(Conf(u), Core(u, i))
      /\ Fits(image, Options(u, i))
  BY <1>3 DEF ImageInv, FitInv
<1>6. BuildKey(u) = BuildKey(cur)
  <2>1. cur \in DOMAIN built
    BY <1>1, CommandType, LenProperties DEF Shape, TypeOK
  <2> QED BY <1>3, <2>1 DEF KeyInv
<1>7. Core(u, i).def # NONE
  BY <1>3 DEF Ready
<1>8. own.cores[i].def = Core(u, i).def /\ own.env = Conf(u).env /\ own.kv = Conf(u).kv
  BY <1>6, <1>7, SameKey
<1>9. CoreOf(p).env = NONE => image.env = own.env
  BY <1>3, <1>5, <1>8 DEF BuildEnv
<1>10. CASE built[cur] = cur
  <2>1. Options(u, i) = KconfigOverrides(own, CoreOf(p))
    BY <1>3, <1>10 DEF Options
  <2> QED BY <1>3, <1>4, <1>5, <1>8, <1>9, <1>10, <2>1
<1>11. CASE built[cur] # cur
  <2>1. /\ own.kv.on \ Keys(CoreOf(p).kv) \subseteq Options(u, i).on
        /\ own.kv.off \ Keys(CoreOf(p).kv) \subseteq Options(u, i).off
    BY <1>3, <1>8 DEF Options, KconfigOverrides, Overlay, Keys
  <2>2. Fits(image, [on |-> own.kv.on \ Keys(CoreOf(p).kv),
                     off |-> own.kv.off \ Keys(CoreOf(p).kv)])
    BY <1>5, <2>1 DEF Fits
  <2> QED BY <1>3, <1>4, <1>5, <1>8, <1>9, <1>11, <2>2
<1> QED BY <1>10, <1>11

(* Whichever session's build a session shares, what it runs on fits its own   *)
(* configuration (_build_key, _phase_build).                                *)
THEOREM ImagesFitSessions == Spec => []ImageFitsSession
<1>1. TypeOK /\ Shape /\ ImageInv /\ KeyInv => ImageFitsSession
  BY FitsSession
<1> QED BY <1>1, ImageInvariant, PTL

-----------------------------------------------------------------------------
(* Which tests run.                                                         *)

LEMMA SupportedFrame ==
    ASSUME UNCHANGED <<cmd, built, cur, elf, dotconf>>
    PROVE  Supported(cur)' = Supported(cur)
<1>1. Used(cur)' = Used(cur)
  BY DEF Used, Conf
<1>2. PrimaryCore(Used(cur))' = PrimaryCore(Used(cur))
  BY <1>1 DEF PrimaryCore
<1>3. \A t : TestSupported(PrimaryCore(Used(cur)).dir, t)' =
             TestSupported(PrimaryCore(Used(cur)).dir, t)
  BY <1>2 DEF TestSupported, KvCheck, CmdChecks
<1> QED BY <1>3 DEF Supported

LEMMA CollectStep ==
    ASSUME TypeOK, Shape, CollectInv, [Next]_vars
    PROVE  CollectInv'
<1>1. CASE phase' \in {"done", "key", "build", "collect", "finish", "merge"}
  BY <1>1 DEF CollectInv
<1>2. CASE UNCHANGED <<elf, dotconf, cmd, built, cur, collected, phase>>
  BY <1>2, SupportedFrame DEF CollectInv, Multi
<1>3. CASE UNCHANGED vars \/ Build \/ DaysPass
  <2>1. CASE UNCHANGED vars \/ DaysPass
    BY <1>2, <2>1 DEF vars, buildVars, DaysPass
  <2>2. CASE Build
    BY <1>1, <2>2 DEF Build
  <2> QED BY <1>3, <2>1, <2>2
<1>4. ASSUME NEW s, Settled(s), cmd' = cmd, ~(phase' \in {"done", "key", "collect"})
      PROVE  CollectInv'
  <2>1. phase' = "cleanup" /\ Multi
    BY <1>4 DEF Settled, End
  <2> QED BY <1>4, <2>1, ConfFrame DEF CollectInv
<1>5. CASE Collect
  <2>1. /\ UNCHANGED <<elf, dotconf, cmd, built, cur>>
        /\ collected' \subseteq Supported(cur)
    BY <1>5 DEF Collect, Elsewhere, buildVars, Selected
  <2> QED BY <2>1, SupportedFrame DEF CollectInv
<1>6. CASE Cleanup \/ NewSessionDir
  <2>1. /\ UNCHANGED <<elf, dotconf, cmd, built, cur, collected>>
        /\ phase \in {"cleanup", "mkdir"} /\ phase' \in {"mkdir", "start"}
    BY <1>6 DEF Cleanup, NewSessionDir, Elsewhere, buildVars
  <2>2. Multi' = Multi
    BY <2>1 DEF Multi
  <2> QED BY <2>1, <2>2, SupportedFrame DEF CollectInv
<1>7. CASE StartSession /\ ~Abort
  <2>1. /\ UNCHANGED <<elf, dotconf, cmd, built, cur>> /\ phase = "start"
        /\ collected' = IF Multi THEN Supported(cur) ELSE collected
    BY <1>7 DEF StartSession, Elsewhere, buildVars
  <2>2. collected' \subseteq Supported(cur)
    BY <2>1 DEF CollectInv
  <2> QED BY <2>1, <2>2, SupportedFrame DEF CollectInv
<1>8. CASE FinishSession
  <2>1. CASE Multi
    <3>1. cmd' = cmd /\ phase' \in {"merge", "start"}
      BY <1>8, <2>1 DEF FinishSession, Elsewhere
    <3> QED BY <2>1, <3>1, ConfFrame DEF CollectInv
  <2>2. CASE ~Multi
    BY <1>1, <1>8, <2>2 DEF FinishSession, End
  <2> QED BY <2>1, <2>2
<1>9. CASE Abort
  BY <1>1, <1>9 DEF Abort, End
<1>10. CASE LookUp
  <2>1. cmd' = cmd
    BY <1>10 DEF LookUp
  <2>2. CASE phase' = "build"
    BY <1>1, <2>2
  <2>3. CASE phase' # "build"
    <3>1. \E s : Settled(s)
      BY <1>10, <2>3 DEF LookUp
    <3> QED BY <1>1, <1>4, <2>1, <3>1
  <2> QED BY <2>2, <2>3
<1>11. CASE BuildEnds /\ ~Abort
  BY <1>1, <1>4, <1>11 DEF BuildEnds
<1>12. CASE Invoke \/ RunTests \/ Merge
  BY <1>1, <1>12 DEF Invoke, RunTests, Merge, End
<1> QED BY <1>3, <1>5, <1>6, <1>7, <1>8, <1>9, <1>10, <1>11, <1>12
     DEF Next, CollectFails, Killed

LEMMA HaveOptions ==
    ASSUME TypeOK, Shape, ImageInv, CollectInv
    PROVE  TestsHaveTheirOptions
<1> SUFFICES ASSUME phase = "run", cmd.rebuild, Flashing, NEW p \in BuiltCores,
                    p[1] = built[cur],
                    CoreOf(p) = PrimaryCore(Used(cur)),
                    Alone(p),
                    Keys(KconfigOverrides(Used(cur), CoreOf(p))) # {},
                    NEW t \in collected
             PROVE  DepConfig[t] \cup CmdCheck[t] \subseteq Running(CoreOf(p)).on
  BY DEF TestsHaveTheirOptions
<1>1. phase # "build" /\ ~Working /\ step # "failed"
  BY DEF Working, Shape
<1>2. PICK u \in Sessions : \E i \in DOMAIN Conf(u).cores :
              /\ p[1] = u /\ Ready(u, i) /\ Flashed(u, i)
              /\ CoreOf(p) = Core(u, i) /\ Separate(u, i)
  BY <1>1, BuiltCore
<1>3. PICK i \in DOMAIN Conf(u).cores :
              /\ p[1] = u /\ Ready(u, i) /\ Flashed(u, i)
              /\ CoreOf(p) = Core(u, i) /\ Separate(u, i)
  BY <1>2
<1> DEFINE d == Core(u, i).dir
<1>4. Running(CoreOf(p)) = elf[d]
  BY <1>1, <1>3, RunsOwnImage
<1>5. Keys(Options(u, i)) # {}
  BY <1>3 DEF Options, Used
<1>6. elf[d].on = dotconf[d].on \ dotconf[d].bare /\ dotconf[d].bare = {}
  BY <1>1, <1>3, <1>5 DEF ImageInv, MatchInv, Matches
<1>7. TestSupported(d, t)
  BY <1>3 DEF CollectInv, Supported
<1> QED BY <1>4, <1>6, <1>7 DEF TestSupported, KvCheck, CmdChecks

(* A test that is run has its options and its commands in the image it runs   *)
(* on, though check_test_support reads the build directory and not the       *)
(* board.                                                                  *)
THEOREM TestsAreSupported == Spec => []TestsHaveTheirOptions
<1>1. Init => CollectInv
  BY DEF Init, CollectInv
<1>2. TypeOK /\ Shape /\ CollectInv /\ [Next]_vars => CollectInv'
  BY CollectStep
<1>3. TypeOK /\ Shape /\ ImageInv /\ CollectInv => TestsHaveTheirOptions
  BY HaveOptions
<1> QED BY <1>1, <1>2, <1>3, ImageInvariant, PTL DEF Spec
=============================================================================
