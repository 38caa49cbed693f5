------------------------------ MODULE ImageBuild ------------------------------
(***************************************************************************)
(* NuttXBuilder: build_all and flash_all for one configuration, on build     *)
(* directories that outlive the process.                                    *)
(*                                                                         *)
(*   core -> configure [-> tweak.. -> olddefconfig -> again -> check]        *)
(*        -> compile -> register -> core ... -> flash ... -> built           *)
(*                                                                         *)
(* Each external command (cmake, kconfig-tweak, genromfs, the flash and the  *)
(* reboot command) may fail, which raises and ends the build: "failed".  A   *)
(* directory holds a .config, the applications registered when CMake was    *)
(* last configured, and an ELF image.                                       *)
(*                                                                         *)
(* A configuration is a record of the global overrides kv, the global        *)
(* build environment env and the sequence cores of all its products; a core  *)
(* is a record of its build directory dir, defconfig def (NONE for an image  *)
(* built elsewhere), overrides kv, environment env (NONE to inherit), board  *)
(* (NONE when the image is run by the host), and the options apps            *)
(* (apps_image) and flashOnly.  Overrides are a record of the options to be  *)
(* switched on and off.                                                     *)
(***************************************************************************)
EXTENDS Naturals, Sequences

CONSTANTS
    Dirs,       \* <build_dir>/<product>-<product name>-<core name>
    Boards,     \* what a flash command writes to
    Symbols,    \* Kconfig options
    Defconfigs,
    Default,    \* options a defconfig switches on
    Requires,   \* options an option depends on, directly or not
    Kernel,     \* CONFIG_BUILD_KERNEL
    Envs,       \* build environments
    Prebuilt,   \* images built elsewhere, by directory
    NONE

ASSUME KconfigAssumption ==
    /\ Default \in [Defconfigs -> SUBSET Symbols]
    /\ Requires \in [Symbols -> SUBSET Symbols]
    /\ \A s \in Symbols : \A r \in Requires[s] : Requires[r] \subseteq Requires[s]
    /\ \A d \in Defconfigs : \A s \in Default[d] : Requires[s] \subseteq Default[d]

Overrides == [on : SUBSET Symbols, off : SUBSET Symbols]
Cores == [dir : Dirs, def : Defconfigs \cup {NONE}, kv : Overrides,
          env : Envs \cup {NONE}, board : Boards \cup {NONE},
          apps : BOOLEAN, flashOnly : BOOLEAN]
Confs == [kv : Overrides, env : Envs, cores : Seq(Cores)]

DotConfigs == [def : Defconfigs, on : SUBSET Symbols, bare : SUBSET Symbols]
Images     == [def : Defconfigs, on : SUBSET Symbols, env : Envs]

\* Nothing is not a .config or an image.
ASSUME NoneAssumption == NONE \notin DotConfigs \cup Images

ASSUME PrebuiltAssumption == \E D \in SUBSET Dirs : Prebuilt \in [D -> Images]

VARIABLES
    elf,        \* the image in each directory, or NONE
    dotconf,    \* the .config in each directory, or NONE; "bare" options lack
                \* the suboptions they unlocked
    apps,       \* applications each directory was last configured for
    board,      \* the image on each board, or NONE
    step,       \* of the builder
    at,         \* the core it is at
    todo        \* overrides not yet written to the .config

disk      == <<elf, dotconf, apps, board>>
builder   == <<step, at, todo>>
buildVars == <<elf, dotconf, apps, board, step, at, todo>>

Steps == {"core", "configure", "tweak", "olddefconfig", "again", "check",
          "compile", "register", "flash", "built", "failed"}

BuildTypeOK ==
    /\ elf \in [Dirs -> Images \cup {NONE}]
    /\ dotconf \in [Dirs -> DotConfigs \cup {NONE}]
    /\ apps \in [Dirs -> SUBSET Symbols]
    /\ board \in [Boards -> Images \cup {NONE}]
    /\ step \in Steps
    /\ at \in Nat \ {0}
    /\ todo \subseteq Symbols

BuildInit ==
    /\ elf = [d \in Dirs |-> IF d \in DOMAIN Prebuilt THEN Prebuilt[d] ELSE NONE]
    /\ dotconf = [d \in Dirs |->
          IF d \in DOMAIN Prebuilt
            THEN [def |-> Prebuilt[d].def, on |-> Prebuilt[d].on, bare |-> {}]
            ELSE NONE]
    /\ apps = [d \in Dirs |-> {}]
    /\ board = [b \in Boards |-> NONE]
    /\ step = "built"
    /\ at = 1
    /\ todo = {}

-----------------------------------------------------------------------------
(* Settings. *)

Keys(kv) == kv.on \cup kv.off

\* kv with the entries of over on top (dict.update).
Overlay(kv, over) ==
    [on |-> (kv.on \ over.off) \cup over.on,
     off |-> (kv.off \ over.on) \cup over.off]

KconfigOverrides(conf, c) == Overlay(conf.kv, c.kv)

BuildEnv(conf, c) == IF c.env = NONE THEN conf.env ELSE c.env

NeedBuild(conf) == \E i \in DOMAIN conf.cores : conf.cores[i].def # NONE

\* Options whose dependencies are met: what olddefconfig keeps.
Settle(on) == {s \in on : Requires[s] \subseteq on}

\* The .config after a CMake configure: the one of an earlier configure with
\* the same defconfig is kept.
Configured(d, def) ==
    IF dotconf[d] # NONE /\ dotconf[d].def = def
      THEN dotconf[d] ELSE [def |-> def, on |-> Default[def], bare |-> {}]

IsKernelConfig(d) == dotconf[d] # NONE /\ Kernel \in dotconf[d].on

-----------------------------------------------------------------------------
(* build_all. *)

Fail == step' = "failed" /\ UNCHANGED <<at, todo>>
Goes(next) == step' = next /\ UNCHANGED <<at, todo>>

(* _build_core up to the first command: a core without a defconfig is not    *)
(* built, and without rebuild the files that are there are taken.           *)
StartCore(conf, rebuild, flash) ==
    /\ step = "core"
    /\ LET c == conf.cores[at]
           found == elf[c.dir] # NONE /\ dotconf[c.dir] # NONE
       IN IF c.def = NONE \/ (found /\ ~rebuild)
            THEN Goes("register") ELSE Goes("configure")
    /\ UNCHANGED disk

\* The first configure and, once the overrides are in, the second.
Configure(conf) ==
    /\ step \in {"configure", "again"}
    /\ LET c == conf.cores[at]
           kv == KconfigOverrides(conf, c)
           new == Configured(c.dir, c.def)
       IN \/ /\ dotconf' = [dotconf EXCEPT ![c.dir] = new]
             /\ apps' = [apps EXCEPT ![c.dir] = new.on \ new.bare]
             /\ step' = IF step = "again" THEN "check"
                          ELSE IF Keys(kv) = {} THEN "compile" ELSE "tweak"
             /\ todo' = IF step = "again" THEN {} ELSE Keys(kv)
             /\ UNCHANGED <<elf, board, at>>
          \/ Fail /\ UNCHANGED disk

\* One kconfig-tweak command; an option that is new lacks its suboptions.
Tweak(conf) ==
    /\ step = "tweak"
    /\ \/ /\ todo # {}
          /\ \E s \in todo :
                LET c == conf.cores[at]
                    old == dotconf[c.dir]
                    on == s \in KconfigOverrides(conf, c).on
                IN /\ dotconf' = [dotconf EXCEPT ![c.dir] =
                         [old EXCEPT
                            !.on = IF on THEN @ \cup {s} ELSE @ \ {s},
                            !.bare = IF on /\ s \notin old.on
                                       THEN @ \cup {s} ELSE @ \ {s}]]
                   /\ todo' = todo \ {s}
          /\ UNCHANGED <<elf, apps, board, step, at>>
       \/ todo # {} /\ Fail /\ UNCHANGED disk
       \/ todo = {} /\ Goes("olddefconfig") /\ UNCHANGED disk

\* Mutant: no second configure.
OldDefConfigOnly(conf) ==
    /\ step = "olddefconfig"
    /\ LET d == conf.cores[at].dir
       IN \/ /\ dotconf' = [dotconf EXCEPT
                              ![d].on = Settle(@), ![d].bare = {}]
             /\ Goes("check")
             /\ UNCHANGED <<elf, apps, board>>
          \/ Fail /\ UNCHANGED disk

OldDefConfig(conf) ==
    /\ step = "olddefconfig"
    /\ LET d == conf.cores[at].dir
       IN \/ /\ dotconf' = [dotconf EXCEPT
                              ![d].on = Settle(@), ![d].bare = {}]
             /\ Goes("again")
             /\ UNCHANGED <<elf, apps, board>>
          \/ Fail /\ UNCHANGED disk

\* _check_kconfig_overrides: every override is in the final .config.
CheckOverrides(conf) ==
    /\ step = "check"
    /\ LET c == conf.cores[at]
           kv == KconfigOverrides(conf, c)
           on == dotconf[c.dir].on
       IN IF kv.on \subseteq on /\ on \cap kv.off = {}
            THEN Goes("compile") ELSE Fail
    /\ UNCHANGED disk

\* Mutant: an image that is there is taken for the result.
CompileIfMissing(conf) ==
    /\ step = "compile"
    /\ LET c == conf.cores[at]
           made == [def |-> dotconf[c.dir].def,
                    on  |-> dotconf[c.dir].on \cap apps[c.dir],
                    env |-> BuildEnv(conf, c)]
       IN \/ /\ elf' = IF elf[c.dir] # NONE THEN elf
                          ELSE [elf EXCEPT ![c.dir] = made]
             /\ Goes("register")
          \/ elf' = [elf EXCEPT ![c.dir] = NONE] /\ Fail
          \/ UNCHANGED elf /\ Fail
    /\ UNCHANGED <<dotconf, apps, board>>

(* cmake --build: an application is in the image when it is switched on and  *)
(* CMake knows it.  A build that fails leaves the old image or none.  Taken  *)
(* of CMake: a directory built under another environment before is compiled *)
(* again under the present one.                                             *)
Compile(conf) ==
    /\ step = "compile"
    /\ LET c == conf.cores[at]
           made == [def |-> dotconf[c.dir].def,
                    on  |-> dotconf[c.dir].on \cap apps[c.dir],
                    env |-> BuildEnv(conf, c)]
       IN \/ elf' = [elf EXCEPT ![c.dir] = made] /\ Goes("register")
          \/ elf' = [elf EXCEPT ![c.dir] = NONE] /\ Fail
          \/ UNCHANGED elf /\ Fail
    /\ UNCHANGED <<dotconf, apps, board>>

\* Mutant: after each core but the last the loop starts over.
NextCoreAgain(conf, flash) ==
    CASE at < Len(conf.cores) -> step' = "core" /\ at' = 1
      [] OTHER -> step' = (IF flash THEN "flash" ELSE "built") /\ at' = 1

\* On to the next core, to the flash commands, or done.
NextCore(conf, flash) ==
    CASE at < Len(conf.cores) -> step' = "core" /\ at' = at + 1
      [] OTHER -> step' = (IF flash THEN "flash" ELSE "built") /\ at' = 1

(* The paths are entered in the configuration; apps_image needs a kernel     *)
(* build and makes the image of its applications.                           *)
Register(conf, flash) ==
    /\ step = "register"
    /\ LET c == conf.cores[at]
       IN \/ /\ c.def # NONE /\ c.apps => IsKernelConfig(c.dir)
             /\ NextCore(conf, flash)
             /\ UNCHANGED todo
          \/ c.def # NONE /\ c.apps /\ Fail
    /\ UNCHANGED disk

\* flash_all for one core: its flash command, then its reboot command.
Flash(conf) ==
    /\ step = "flash"
    /\ LET c == conf.cores[at]
           last == at = Len(conf.cores)
           write == IF c.board = NONE THEN board
                      ELSE [board EXCEPT ![c.board] = elf[c.dir]]
       IN \/ /\ c.board # NONE => elf[c.dir] # NONE
             /\ board' = write
             /\ step' = IF last THEN "built" ELSE "flash"
             /\ at' = IF last THEN 1 ELSE at + 1
             /\ UNCHANGED todo
          \/ c.board # NONE /\ board' \in {board, write} /\ Fail
    /\ UNCHANGED <<elf, dotconf, apps>>

BuildStep(conf, rebuild, flash) ==
    \/ StartCore(conf, rebuild, flash)
    \/ Configure(conf) \/ Tweak(conf) \/ OldDefConfig(conf)
    \/ CheckOverrides(conf) \/ Compile(conf)
    \/ Register(conf, flash) \/ Flash(conf)
=============================================================================
