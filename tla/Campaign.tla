------------------------------- MODULE Campaign -------------------------------
(***************************************************************************)
(* One host's use of ntfc over several invocations: "build", "collect",      *)
(* "test" and the manifest of a multi-session run in sequential mode.  An    *)
(* invocation builds and flashes what its configurations ask for, clears old *)
(* results, runs its sessions on what is then on the boards and reports.     *)
(* Any invocation may be killed; build directories, boards and result       *)
(* directories are all that the next one finds.                             *)
(*                                                                         *)
(*  done -> key -> build -> (key ..) -> collect -> cleanup -> mkdir          *)
(*       -> start -> run -> finish -> (start ..) -> merge -> done            *)
(***************************************************************************)
EXTENDS ImageBuild, Reports

CONSTANTS
    Tests,      \* numbers, in the order of the collection
    Module,     \* file of each test
    DepConfig,  \* options each test requires in the .config
    CmdCheck,   \* options whose commands each test requires in the image
    Commands,   \* invocations: kind, sessions (configuration and tests of
                \* each), json overrides, rebuild, flash, failFast, index
    Histories,  \* result directories and limits at the beginning
    MaxRuns     \* bound on the invocations

ASSUME TestAssumption ==
    /\ Tests \subseteq Nat /\ IsFiniteSet(Tests)
    /\ DepConfig \in [Tests -> SUBSET Symbols]
    /\ CmdCheck \in [Tests -> SUBSET Symbols]
    /\ DOMAIN Module = Tests
    /\ MaxRuns \in Nat
    /\ Commands \subseteq
         [kind : {"build", "collect", "test", "multi"},
          sessions : Seq([conf : Confs, tests : SUBSET Tests]) \ {<<>>},
          json : Overrides, rebuild : BOOLEAN, flash : BOOLEAN,
          failFast : BOOLEAN, index : SUBSET Nat]
    /\ \A c \in Commands :
         /\ c.kind # "multi" => Len(c.sessions) = 1
         /\ \A i \in DOMAIN c.sessions :
              LET cores == c.sessions[i].conf.cores
              IN /\ cores # <<>>
                 /\ \A k \in DOMAIN cores :
                      cores[k].def = NONE <=> cores[k].dir \in DOMAIN Prebuilt

\* The directories are in order of age: those before an old one are old.
ASSUME HistoryAssumption ==
    \A h \in Histories :
        /\ h.dirs \in Seq([id : Nat, size : Nat, old : BOOLEAN])
        /\ \A j \in DOMAIN h.dirs : \A i \in 1..j : h.dirs[j].old => h.dirs[i].old
        /\ h.log \in [byAge : BOOLEAN, maxCount : Nat, maxSize : Nat]

VARIABLES
    runs,       \* number of invocations so far
    cmd,        \* the command of this invocation
    phase,
    cur,        \* session it is at
    built,      \* for each session, the session whose build it uses
    collected,  \* tests of the current session after the filter
    reports,    \* what is in each session's result directory
    code,       \* exit code of each session
    master,     \* what is in the shared result directory
    exit,       \* of the invocation
    log,        \* limits of the log configuration
    dirs        \* result directories, oldest first

results == <<reports, code, master>>
vars == <<buildVars, runs, cmd, phase, cur, built, collected, results, exit,
          log, dirs>>

Phases == {"done", "key", "build", "collect", "cleanup", "mkdir", "start",
           "run", "finish", "merge"}
Sessions == DOMAIN cmd.sessions

TypeOK ==
    /\ BuildTypeOK
    /\ runs \in 0..MaxRuns
    /\ cmd \in Commands
    /\ phase \in Phases
    /\ cur \in Sessions
    /\ Len(built) <= Len(cmd.sessions)
    /\ \A i \in DOMAIN built : built[i] \in 1..i /\ built[built[i]] = built[i]
    /\ collected \subseteq Tests
    /\ DOMAIN reports = Sessions /\ DOMAIN code = Sessions
    /\ \A s \in Sessions : code[s] \in {"none", "passed", "failed"}
    /\ exit \in {"none", "ok", "error"}

Init ==
    /\ BuildInit
    /\ runs = 0
    /\ cmd \in Commands
    /\ phase = "done"
    /\ cur = 1
    /\ built = <<>>
    /\ collected = {}
    /\ reports = [s \in Sessions |-> NoReport]
    /\ code = [s \in Sessions |-> "none"]
    /\ master = NoReport
    /\ exit = "none"
    /\ \E h \in Histories : log = h.log /\ dirs = h.dirs

-----------------------------------------------------------------------------
(* Configurations. *)

Multi == cmd.kind = "multi"

\* load_config_files and resolve_session_config: args.kv of the JSON session
\* file goes over config.kv.
Conf(s) ==
    LET conf == cmd.sessions[s].conf
    IN [conf EXCEPT !.kv = Overlay(@, cmd.json)]

\* The manifest's builds are always flashed.
Flashing == Multi \/ cmd.flash

\* Mutant: the overrides are left out of the key.
BuildKeyDefconfigs(s) ==
    LET conf == Conf(s)
    IN <<{<<i, conf.cores[i].def>> : i \in DOMAIN conf.cores} \ {<<i, NONE>> :
             i \in DOMAIN conf.cores}, conf.env>>

\* _build_key: defconfigs of the cores, global environment and overrides.
BuildKey(s) ==
    LET conf == Conf(s)
    IN <<{<<i, conf.cores[i].def>> : i \in DOMAIN conf.cores} \ {<<i, NONE>> :
             i \in DOMAIN conf.cores}, conf.env, conf.kv>>

\* The configuration a session really runs with.
Used(s) == Conf(built[s])

\* The core whose files decide which tests can run.
PrimaryCore(conf) ==
    LET active == {i \in DOMAIN conf.cores : ~conf.cores[i].flashOnly}
    IN conf.cores[IF active = {} THEN 1
                    ELSE CHOOSE i \in active : \A j \in active : i <= j]

\* CoreConfig on a build directory as it is now.
KvCheck(d, options)  == options \subseteq dotconf[d].on
CmdChecks(d, options) == options \subseteq elf[d].on

\* check_test_support: the .config has its options and the ELF its commands.
TestSupported(d, t) == KvCheck(d, DepConfig[t]) /\ CmdChecks(d, CmdCheck[t])

\* What pytest_collection_modifyitems leaves of the tests of a session.
Supported(s) ==
    {t \in cmd.sessions[s].tests :
       TestSupported(PrimaryCore(Used(s)).dir, t)}

(* Tests with the indices of --index, all if there are none.  An index out of *)
(* range ends the command.                                                  *)
Selected(tests) ==
    {t \in tests : cmd.index = {}
                      \/ Cardinality({u \in tests : u <= t}) \in cmd.index}
IndexValid(tests) == cmd.index \subseteq 1..Cardinality(tests)

\* What a core runs: its board's image, or the ELF when the host runs it.
Running(c) == IF c.board = NONE THEN elf[c.dir] ELSE board[c.board]

-----------------------------------------------------------------------------
(* Building. *)

End(how) == phase' = "done" /\ exit' = how

\* An invocation that ends before its report leaves only what is on disk.
Abort ==
    /\ End("error")
    /\ step' = "built" /\ at' = 1 /\ todo' = {}
    /\ cur' = 1 /\ built' = <<>> /\ collected' = {}
    /\ UNCHANGED <<disk, runs, cmd, results, log, dirs>>

Invoke ==
    /\ phase = "done" /\ runs < MaxRuns
    /\ runs' = runs + 1
    /\ cmd' \in Commands
    /\ phase' = "key" /\ cur' = 1 /\ built' = <<>>
    /\ step' = "core" /\ at' = 1 /\ todo' = {}
    /\ collected' = {}
    /\ reports' = [s \in DOMAIN cmd'.sessions |-> NoReport]
    /\ code' = [s \in DOMAIN cmd'.sessions |-> "none"]
    /\ master' = NoReport
    /\ exit' = "none"
    /\ UNCHANGED <<disk, log, dirs>>

\* Mutant: the session is not set back to the first one.
SettledOnwards(s) ==
    /\ built' = Append(built, s)
    /\ step' = "core" /\ at' = 1 /\ todo' = {}
    /\ IF cur < Len(cmd.sessions)
         THEN phase' = "key" /\ cur' = cur + 1 /\ UNCHANGED exit
         ELSE /\ cur' = cur + 1
              /\ CASE Multi              -> phase' = "cleanup" /\ UNCHANGED exit
                   [] cmd.kind = "build" -> End("ok")
                   [] OTHER              -> phase' = "collect" /\ UNCHANGED exit

\* The configuration of session cur is settled: it uses the build of s.
Settled(s) ==
    /\ built' = Append(built, s)
    /\ step' = "core" /\ at' = 1 /\ todo' = {}
    /\ IF cur < Len(cmd.sessions)
         THEN phase' = "key" /\ cur' = cur + 1 /\ UNCHANGED exit
         ELSE /\ cur' = 1
              /\ CASE Multi              -> phase' = "cleanup" /\ UNCHANGED exit
                   [] cmd.kind = "build" -> End("ok")
                   [] OTHER              -> phase' = "collect" /\ UNCHANGED exit

(* _phase_build and _build_if_needed: a manifest's build is taken from the    *)
(* first session with the same key.                                        *)
LookUp ==
    /\ phase = "key"
    /\ LET same == {s \in 1..(cur - 1) : BuildKey(s) = BuildKey(cur)}
       IN CASE same # {} ->
                 Settled(built[CHOOSE s \in same : TRUE])
            [] same = {} /\ ~NeedBuild(Conf(cur)) -> Settled(cur)
            [] OTHER -> /\ phase' = "build"
                        /\ UNCHANGED <<builder, cur, built, exit>>
    /\ UNCHANGED <<disk, runs, cmd, collected, results, log, dirs>>

Build ==
    /\ phase = "build"
    /\ BuildStep(Conf(cur), cmd.rebuild, Flashing)
    /\ UNCHANGED <<runs, cmd, phase, cur, built, collected, results, exit, log,
                   dirs>>

\* An exception of the builder ends the invocation before any test.
BuildEnds ==
    /\ phase = "build"
    /\ \/ /\ step = "built"
          /\ Settled(cur)
          /\ UNCHANGED <<disk, runs, cmd, collected, results, log, dirs>>
       \/ step = "failed" /\ Abort

-----------------------------------------------------------------------------
(* Testing. *)

Elsewhere == UNCHANGED <<buildVars, runs, cmd, built, log>>

(* The collection that "collect" stops after and "test" takes its test list   *)
(* from (tests_run).                                                       *)
Collect ==
    /\ phase = "collect"
    /\ LET tests == Supported(cur)
       IN \/ cmd.kind = "collect" /\ collected' = tests /\ End("ok")
          \/ /\ cmd.kind = "test" /\ IndexValid(tests)
             /\ collected' = Selected(tests)
             /\ phase' = "cleanup" /\ UNCHANGED exit
    /\ Elsewhere /\ UNCHANGED <<cur, results, dirs>>

\* A device does not start, or an index is out of range.
CollectFails ==
    /\ phase = "collect"
    /\ Abort

Cleanup ==
    /\ phase = "cleanup"
    /\ dirs' = Kept(dirs, Removals(dirs, log))
    /\ phase' = "mkdir"
    /\ Elsewhere /\ UNCHANGED <<cur, collected, results, exit>>

NewSessionDir ==
    /\ phase = "mkdir"
    /\ dirs' = Append(dirs, [id |-> runs, size |-> 0, old |-> FALSE])
    /\ phase' = "start"
    /\ Elsewhere /\ UNCHANGED <<cur, collected, results, exit>>

(* _run_session: the session's configuration is read from the build          *)
(* directory now.  A device that does not start raises out of run().         *)
StartSession ==
    /\ phase = "start"
    /\ \/ /\ collected' = IF Multi THEN Supported(cur) ELSE collected
          /\ dirs' = [dirs EXCEPT ![Len(dirs)].size = @ + 1]
          /\ phase' = "run"
          /\ Elsewhere /\ UNCHANGED <<cur, results, exit>>
       \/ Abort

\* pytest writes report.xml at the end of the session.
RunTests ==
    /\ phase = "run"
    /\ \E xml \in [collected -> Outcomes] :
          /\ reports' = [reports EXCEPT ![cur] = PytestReport(xml)]
          /\ code' = [code EXCEPT ![cur] =
                        IF PytestPassed(xml) THEN "passed" ELSE "failed"]
    /\ phase' = "finish"
    /\ Elsewhere /\ UNCHANGED <<cur, collected, master, exit, dirs>>

\* A failure that fail_fast stops the loop at.
Broken == cmd.failFast /\ code[cur] # "passed"

\* RunnerPlugin.pytest_sessionfinish, and on to the next session.
FinishSession ==
    /\ phase = "finish"
    /\ reports' = [reports EXCEPT ![cur] = ResultSummary(@, Module)]
    /\ CASE ~Multi -> End(IF code[cur] = "passed" THEN "ok" ELSE "error")
                        /\ UNCHANGED cur
         [] Multi /\ (cur = Len(cmd.sessions) \/ Broken) ->
                      phase' = "merge" /\ UNCHANGED <<cur, exit>>
         [] OTHER -> phase' = "start" /\ cur' = cur + 1 /\ UNCHANGED exit
    /\ Elsewhere /\ UNCHANGED <<collected, code, master, dirs>>

\* _phase_report and the exit code: sessions 1 to cur have run.
Merge ==
    /\ phase = "merge"
    /\ LET merged == MergedReport(reports)
       IN master' = ResultSummary(merged, SessionOf(merged))
    /\ End(IF \A s \in 1..cur : code[s] = "passed" THEN "ok" ELSE "error")
    /\ Elsewhere /\ UNCHANGED <<cur, collected, reports, code, dirs>>

-----------------------------------------------------------------------------
(* The world around it. *)

(* The process is killed.  What a command in flight leaves behind is what one *)
(* that fails leaves.                                                       *)
Killed == phase # "done" /\ Abort

\* Between two invocations the results there are grow old.
DaysPass ==
    /\ phase = "done" /\ exit # "none"
    /\ dirs' = [i \in DOMAIN dirs |-> [dirs[i] EXCEPT !.old = TRUE]]
    /\ UNCHANGED <<buildVars, runs, cmd, phase, cur, built, collected, results,
                   exit, log>>

Next ==
    \/ Invoke \/ LookUp \/ Build \/ BuildEnds
    \/ Collect \/ CollectFails
    \/ Cleanup \/ NewSessionDir \/ StartSession
    \/ RunTests \/ FinishSession \/ Merge
    \/ Killed \/ DaysPass

Spec == Init /\ [][Next]_vars

(* The process runs: its commands, devices and tests come to an end, well or  *)
(* not (TestSession).  Nothing is assumed of the user.                        *)
Fairness ==
    WF_vars(LookUp \/ Build \/ BuildEnds \/ Collect \/ CollectFails \/ Cleanup
              \/ NewSessionDir \/ StartSession \/ RunTests \/ FinishSession \/ Merge)

FairSpec == Spec /\ Fairness

-----------------------------------------------------------------------------
(* Properties. *)

Testing == phase \in {"collect", "cleanup", "mkdir", "start", "run", "finish",
                      "merge"}

\* Cores this invocation has built or flashed, as pairs of a session and an
\* index, and those of them that it has built.
HandledCores ==
    UNION {{<<u, i>> : i \in DOMAIN Conf(u).cores} :
             u \in {v \in DOMAIN built : built[v] = v /\ NeedBuild(Conf(v))}}
CoreOf(p)  == Conf(p[1]).cores[p[2]]
BuiltCores == {p \in HandledCores : CoreOf(p).def # NONE}

\* No other core of the invocation uses the same directory or board.
Alone(p) ==
    \A q \in HandledCores \ {p} :
        /\ CoreOf(q).dir # CoreOf(p).dir
        /\ CoreOf(q).board = NONE \/ CoreOf(q).board # CoreOf(p).board

Fits(image, kv) == kv.on \subseteq image.on /\ image.on \cap kv.off = {}

(* Rebuilding recovers from whatever an earlier invocation left, wherever it  *)
(* failed or was killed: before the first test every image that was built is *)
(* the one its .config describes, complete if there were overrides           *)
(* (_build_core).                                                           *)
RebuiltMatchesConfig ==
    Testing /\ cmd.rebuild =>
        \A p \in BuiltCores :
            LET d == CoreOf(p).dir
            IN /\ elf[d] # NONE
               /\ elf[d].def = dotconf[d].def
               /\ elf[d].on = dotconf[d].on \ dotconf[d].bare
               /\ Keys(KconfigOverrides(Conf(p[1]), CoreOf(p))) # {}
                    => dotconf[d].bare = {}

(* A test that is run has its options and commands in the image it is run on *)
(* (check_test_support reads the build directory, the board runs what was    *)
(* flashed), when rebuilding with overrides and on a directory and board of  *)
(* its own.                                                                *)
TestsHaveTheirOptions ==
    phase = "run" /\ cmd.rebuild /\ Flashing =>
        \A p \in BuiltCores :
            /\ p[1] = built[cur]
            /\ CoreOf(p) = PrimaryCore(Used(cur))
            /\ Alone(p)
            /\ Keys(KconfigOverrides(Used(cur), CoreOf(p))) # {}
            => \A t \in collected :
                 DepConfig[t] \cup CmdCheck[t] \subseteq Running(CoreOf(p)).on

(* Whichever session's build it shares, a session runs on images of its own   *)
(* defconfig and environment, with its own overrides except those that the   *)
(* core of the shared build sets otherwise (_build_key).                     *)
ImageFitsSession ==
    phase = "run" /\ cmd.rebuild /\ Flashing =>
        \A p \in BuiltCores :
            /\ p[1] = built[cur]
            /\ Alone(p)
            => LET own   == Conf(cur)
                   core  == CoreOf(p)
                   image == Running(core)
                   kv    == IF built[cur] = cur
                              THEN KconfigOverrides(own, core)
                              ELSE [on |-> own.kv.on \ Keys(core.kv),
                                    off |-> own.kv.off \ Keys(core.kv)]
               IN /\ image.def = own.cores[p[2]].def
                  /\ core.env = NONE => image.env = own.env
                  /\ Fits(image, kv)

(* "automatic cleanup": the directories that stay are the latest ones, meet    *)
(* every limit, and none was removed that could have stayed (cleanup).       *)
RetentionLeast ==
    [][phase = "cleanup" /\ phase' = "mkdir" =>
         LET Meets(ds) == /\ Len(ds) <= log.maxCount
                          /\ TotalSize(ds) <= log.maxSize
                          /\ log.byAge => \A i \in DOMAIN ds : ~ds[i].old
             n == Len(dirs) - Len(dirs')
         IN /\ n >= 0
            /\ dirs' = SubSeq(dirs, n + 1, Len(dirs))
            /\ Meets(dirs')
            /\ n > 0 => ~Meets(SubSeq(dirs, n, Len(dirs)))]_vars

(* What the summaries count agrees with pytest's verdict on each session and, *)
(* errors apart, with the module pages; and the exit code is success only if *)
(* every session of the command ran and passed (_split_xml_by_module,        *)
(* _parse_session_counts, run).                                             *)
VerdictAgreesWithCounts ==
    /\ \A s \in Sessions :
          DOMAIN reports[s].split # {} =>
            LET n == SessionCounts(reports[s])
            IN /\ (code[s] = "passed") <=>
                      (n.total > 0 /\ n.failures + n.errors = 0)
               /\ n.passes = n.errors + MapThenSumSet(
                      LAMBDA m : reports[s].pages[m], DOMAIN reports[s].pages)
    /\ exit = "ok" /\ cmd.kind \in {"test", "multi"} =>
          \A s \in Sessions :
            code[s] = "passed" /\ SessionCounts(reports[s]).total > 0

(* However its commands end, an invocation comes to the end of its cores,      *)
(* overrides and sessions (build_all, _phase_build, _run_sequential).        *)
InvocationEnds == phase # "done" ~> phase = "done"
=============================================================================
