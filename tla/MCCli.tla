------------------------------- MODULE MCCli -------------------------------
(***************************************************************************)
(* The instance of Cli that TLC checks: each subcommand with the options   *)
(* it needs, three times in a row, and for the first invocation also those *)
(* lines with one more token, and run with up to three.                    *)
(***************************************************************************)
EXTENDS Cli

Images == <<"--kernel", "k", "--rootfs", "r">>
Log == <<"--log", "l">>
Save(p) == <<"--save", p>>

Plain ==
    { <<"vz-boot">> \o Images \o Log,
      <<"vz-sh">> \o Images,
      <<"vz-exec", "--cmd", "x">> \o Images,
      <<"vz-exec", "--stdin", "--cmd", "x">> \o Images,
      <<"vz-warm", "save">> \o Images \o Save("vm.warm"),
      <<"vz-warm", "run", "--cmd", "x">> \o Images \o Save("vm.warm"),
      <<"vz-snapshot", "save">> \o Images \o Log \o Save("vm.snap"),
      <<"vz-snapshot", "restore">> \o Images \o Log \o Save("vm.snap"),
      <<"run", "--initfs", "i">> \o Images,
      <<"run", "--tty", "--initfs", "i">> \o Images }

Others ==
    { <<"rootfs", "--from-tar", "r", "--output", "out.ext4">>,
      <<"pool", "init", "--dir", "d">> \o Images,
      <<"pool", "init", "--dir", "d", "--stock-init", "--initramfs", "none">>
          \o Images,
      <<"pool", "run", "--dir", "d", "--cmd", "x">>,
      <<"pool", "stats", "--dir", "d">>,
      <<"pool", "destroy", "--dir", "d">>,
      <<"vz-sh", "--kernel", "k", "--rootfs", "out.ext4">> }

Tokens == {"--", "--help", "--id", "--cpus", "2", "x"}
Tails(n) == UNION {[1..k -> Tokens] : k \in 1..n}

Odd ==
    { <<>>, <<"--help">>, <<"--version">>, <<"ping">>, <<"ping", "-h">>,
      <<"bogus">>, <<"pool">>, <<"pool", "bogus", "-h">>, <<"pool", "-h">>,
      <<"rootfs", "--from-tar", "r", "--output", "o", "--compression", "gzip">>,
      <<"rootfs", "--from-tar", "r", "--output", "o", "--compression", "auto">>,
      <<"run", "--ip", "7", "--ip", "1">> }
    \cup {<<"vz-snapshot", c, f, "2", h, "3">> \o Images \o Log \o Save("vm.snap") :
             c \in {"save", "restore"},
             f, h \in {"--settle-seconds", "--run-seconds"}}

First ==
    Odd \cup Others
        \cup {l \o t : l \in Plain \cup Others, t \in Tails(1)}
        \cup {<<"run", "--kernel", "k", "--initfs", "i", "--rootfs", "r">> \o t :
                 t \in Tails(3)}
=============================================================================
