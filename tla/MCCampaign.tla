------------------------------ MODULE MCCampaign ------------------------------
(* Commands that share, or do not share, builds, directories and boards.      *)
EXTENDS Campaign

CONSTANTS net, telnet, kernel, small, full, d1, d2, pre, b1, gcc, clang

MCSymbols == {net, telnet, kernel}
MCDefault == [d \in {small, full} |-> IF d = full THEN {net} ELSE {}]
MCRequires == [s \in MCSymbols |-> IF s = telnet THEN {net} ELSE {}]
MCPrebuilt == [d \in {pre} |-> [def |-> full, on |-> {net}, env |-> gcc]]

MCModule == <<"mod_telnet", "mod_net">>
MCDepConfig == <<{telnet}, {}>>
MCCmdCheck == <<{}, {net}>>

Kv(on, off) == [on |-> on, off |-> off]
NoKv == Kv({}, {})
CoreIn(dir, def, kv, brd) ==
    [dir |-> dir, def |-> def, kv |-> kv, env |-> NONE, board |-> brd,
     apps |-> FALSE, flashOnly |-> FALSE]
ConfOf(kv, cores) == [kv |-> kv, env |-> gcc, cores |-> cores]
Session(conf) == [conf |-> conf, tests |-> {1, 2}]
Short(conf) == [conf |-> conf, tests |-> {1}]

Telnet == Kv({net, telnet}, {})

Manifest(first, second, failFast) ==
    [kind |-> "multi", sessions |-> <<Session(first), Short(second)>>,
     json |-> NoKv, rebuild |-> TRUE, flash |-> FALSE, failFast |-> failFast,
     index |-> {}]
Single(kind, conf, json, rebuild, flash) ==
    [kind |-> kind, sessions |-> <<Session(conf)>>, json |-> json,
     rebuild |-> rebuild, flash |-> flash, failFast |-> FALSE,
     index |-> {}]

OnBoard == ConfOf(Telnet, <<CoreIn(d1, small, NoKv, b1)>>)

MCCommands ==
    { \* one build for two sessions, whose cores differ
      Manifest(ConfOf(Kv({net}, {}), <<CoreIn(d1, small, Kv({telnet}, {}), b1)>>),
               ConfOf(Kv({net}, {}), <<CoreIn(d2, small, NoKv, NONE)>>), FALSE),
      \* two builds that differ in the overrides only, for one board
      Manifest(OnBoard,
               ConfOf(Kv({}, {telnet}), <<CoreIn(d2, small, NoKv, b1)>>), TRUE),
      \* two builds in one directory
      Manifest(ConfOf(NoKv, <<CoreIn(d1, full, Kv({}, {net}), NONE)>>),
               [ConfOf(NoKv, <<CoreIn(d1, full, NoKv, NONE)>>)
                  EXCEPT !.env = clang], FALSE),
      \* a global override that the core takes back, and one from the session
      Single("test", ConfOf(Kv({}, {net}), <<CoreIn(d1, full, Kv({net}, {}), b1)>>),
             Kv({telnet}, {}), TRUE, TRUE),
      Single("test", OnBoard, NoKv, FALSE, FALSE),
      \* an option without what it depends on
      Single("collect", ConfOf(Kv({telnet}, {}), <<CoreIn(d1, small, NoKv, NONE)>>),
             NoKv, TRUE, FALSE),
      \* a kernel build with its applications, and a core built elsewhere
      Single("build",
             ConfOf(NoKv, <<[CoreIn(d2, full, Kv({kernel}, {}), NONE)
                               EXCEPT !.apps = TRUE, !.flashOnly = TRUE],
                            [CoreIn(pre, NONE, NoKv, b1) EXCEPT !.env = clang]>>),
             NoKv, TRUE, TRUE),
      [Single("test", ConfOf(NoKv, <<CoreIn(pre, NONE, NoKv, NONE)>>),
              NoKv, TRUE, FALSE) EXCEPT !.index = {1}],
      [Single("test", OnBoard, NoKv, FALSE, TRUE) EXCEPT !.index = {2}] }

Dir(id, size, old) == [id |-> id, size |-> size, old |-> old]
MCHistories ==
    { [dirs |-> <<Dir(11, 1, TRUE), Dir(12, 2, FALSE), Dir(13, 1, FALSE)>>,
       log |-> [byAge |-> TRUE, maxCount |-> 2, maxSize |-> 2]],
      [dirs |-> <<>>,
       log |-> [byAge |-> FALSE, maxCount |-> Unlimited, maxSize |-> 1]] }
=============================================================================
