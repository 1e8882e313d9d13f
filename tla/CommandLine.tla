---------------------------- MODULE CommandLine ----------------------------
(***************************************************************************)
(* How hephaestus reads its command line (hephaestus-cli/src/main.rs):     *)
(* help_text, and one parser per subcommand.  The parsers are the same     *)
(* loop over different flags, so a subcommand is given by its grammar and  *)
(* Parse is the loop.                                                      *)
(*                                                                         *)
(* A line is the sequence of tokens after the program's name; Numerals are *)
(* the tokens that parse as the integer a flag asks for, Octets those      *)
(* that --ip accepts.                                                      *)
(***************************************************************************)
EXTENDS Naturals, Sequences

CONSTANTS Numerals, Octets

\* A subcommand: the flags that take a value, the ones that take none, the
\* options that must not be empty, and the paths that must exist.
Grammar(paths, numbers, texts, switches, required, exist) ==
    [numbers |-> numbers, valued |-> paths \cup numbers \cup texts,
     switches |-> switches, required |-> required, exist |-> exist,
     guest |-> FALSE]

Sizes == {"--cpus", "--memory-mib"}
Boots == {"--kernel", "--rootfs"}

\* parse_run_args; only run hands what follows "--" to the guest.
RunGrammar ==
    LET images == Boots \cup {"--initfs"}
    IN  [Grammar(images, Sizes, {"--id", "--cwd", "--ip"},
                 {"--network", "--tty"}, images, images)
         EXCEPT !.guest = TRUE]

RootfsGrammar ==
    Grammar({"--from-tar", "--output"}, {"--size-mib"}, {"--compression"}, {},
            {"--from-tar", "--output"}, {"--from-tar"})

VzBootGrammar ==
    Grammar(Boots \cup {"--log"}, Sizes \cup {"--run-seconds"}, {}, {},
            Boots \cup {"--log"}, Boots)

VzExecGrammar ==
    Grammar(Boots \cup {"--initramfs", "--log"},
            Sizes \cup {"--timeout-seconds"}, {"--cmd"}, {"--stdin"},
            Boots \cup {"--cmd"}, Boots \cup {"--initramfs"})

PoolInitGrammar ==
    Grammar(Boots \cup {"--dir", "--initramfs"},
            Sizes \cup {"--size", "--settle-seconds"}, {}, {"--stock-init"},
            Boots \cup {"--dir", "--initramfs"}, Boots \cup {"--initramfs"})

PoolRunGrammar == Grammar({"--dir"}, {}, {"--cmd"}, {}, {"--dir", "--cmd"}, {})

PoolDirGrammar == Grammar({"--dir"}, {}, {}, {}, {"--dir"}, {})

VzWarmGrammar(restoring) ==
    Grammar(Boots \cup {"--initramfs", "--save", "--log"}, Sizes, {"--cmd"}, {},
            Boots \cup {"--save"} \cup (IF restoring THEN {"--cmd"} ELSE {}),
            Boots \cup {"--initramfs"}
                  \cup (IF restoring THEN {"--save"} ELSE {}))

VzShGrammar ==
    Grammar(Boots, Sizes \cup {"--timeout-seconds"}, {}, {}, Boots, Boots)

VzSnapGrammar(saving) ==
    Grammar(Boots \cup {"--log", "--save"},
            Sizes \cup {"--settle-seconds", "--run-seconds"}, {}, {},
            Boots \cup {"--log", "--save"},
            Boots \cup (IF saving THEN {} ELSE {"--save"}))

-----------------------------------------------------------------------------
Helps == {"-h", "--help"}
Flat == {"ping", "run", "rootfs", "vz-boot", "vz-exec", "vz-sh"}
Nested(group) ==
    CASE group = "pool" -> {"init", "run", "stats", "destroy"}
      [] group = "vz-warm" -> {"save", "run"}
      [] group = "vz-snapshot" -> {"save", "restore"}
      [] OTHER -> {}

ContainsHelp(args) ==
    \E i \in DOMAIN args :
        args[i] \in Helps /\ \A j \in 1..i : args[j] # "--"

\* Which help is printed instead of running anything: that of a subcommand
\* (a prefix of the line), or <<>> for none.
NestedHelp(line) ==
    CASE Len(line) > 1 /\ line[2] \in Helps -> <<line[1]>>
      [] Len(line) > 1 /\ ContainsHelp(SubSeq(line, 3, Len(line))) ->
            IF line[2] \in Nested(line[1]) THEN SubSeq(line, 1, 2)
                                           ELSE <<line[1]>>
      [] OTHER -> <<>>

HelpText(line) ==
    CASE line = <<>> -> <<>>
      [] line # <<>> /\ line[1] \in Helps -> <<"hephaestus">>
      [] line # <<>> /\ line[1] \in Flat ->
            IF ContainsHelp(Tail(line)) THEN <<line[1]>> ELSE <<>>
      [] line # <<>> /\ Nested(line[1]) # {} -> NestedHelp(line)
      [] OTHER -> <<>>

\* The subcommand that main() dispatches to, or <<>> where it prints a usage
\* and exits with status 2.
Subcommand(line) ==
    IF Len(line) > 0 /\ line[1] \in Flat THEN <<line[1]>>
    ELSE IF Len(line) > 1 /\ line[2] \in Nested(line[1])
    THEN <<line[1], line[2]>>
    ELSE <<>>

GrammarOf(c) ==
    CASE c = <<"run">> -> RunGrammar
      [] c = <<"rootfs">> -> RootfsGrammar
      [] c = <<"vz-boot">> -> VzBootGrammar
      [] c = <<"vz-exec">> -> VzExecGrammar
      [] c = <<"vz-sh">> -> VzShGrammar
      [] c = <<"pool", "init">> -> PoolInitGrammar
      [] c = <<"pool", "run">> -> PoolRunGrammar
      [] c \in {<<"pool", "stats">>, <<"pool", "destroy">>} -> PoolDirGrammar
      [] c \in {<<"vz-warm", a>> : a \in {"save", "run"}} ->
            VzWarmGrammar(c[2] = "run")
      [] c \in {<<"vz-snapshot", a>> : a \in {"save", "restore"}} ->
            VzSnapGrammar(c[2] = "save")

Arguments(line) == SubSeq(line, Len(Subcommand(line)) + 1, Len(line))

-----------------------------------------------------------------------------
\* The field of the options that a flag sets: parse_vz_snap_args takes two flags
\* for one.
Field(f) ==
    IF f \in {"--settle-seconds", "--run-seconds"} THEN "seconds" ELSE f

Fields(g) == {Field(f) : f \in g.valued}

\* Defaults of numbers and of texts that stand for "none given" are "".
Default(o) ==
    IF o = "--initramfs" THEN "build/agent.cpio.gz"
    ELSE IF o = "--id" THEN "hephaestus-vm" ELSE ""

\* The conversion that a flag's value goes through succeeds.
Converts(g, f, v) ==
    CASE f \in g.numbers -> v \in Numerals
      [] f = "--ip" -> v \in Octets
      [] f = "--compression" -> v \in {"none", "gzip", "zstd"}
      [] OTHER -> TRUE

\* One turn of the loop: "flags" expects a flag, "value" the value of s.flag,
\* "argv" collects the guest's arguments.
Turn(g, s, t) ==
    CASE s.mode = "flags" ->
            CASE g.guest /\ t = "--" -> [s EXCEPT !.mode = "argv"]
              [] t \in g.valued -> [s EXCEPT !.mode = "value", !.flag = t]
              [] t \in g.switches -> [s EXCEPT !.opts[t] = "on"]
              [] OTHER -> [s EXCEPT !.mode = "error"]
      [] s.mode = "value" ->
            IF Converts(g, s.flag, t)
            THEN [s EXCEPT !.mode = "flags", !.opts[Field(s.flag)] = t]
            ELSE [s EXCEPT !.mode = "error"]
      [] s.mode = "argv" -> [s EXCEPT !.argv = Append(@, t)]
      [] s.mode = "error" -> s

Blank(g) ==
    [mode |-> "flags", flag |-> "", argv |-> <<>>,
     opts |-> [o \in Fields(g) \cup g.switches |-> Default(o)]]

\* Mutant: a separator is a separator also where a value is expected.
MutLoop(g, args) ==
    LET after[i \in 0..Len(args)] ==
            IF i = 0 THEN Blank(g)
            ELSE IF g.guest /\ args[i] = "--" /\ after[i - 1].mode = "value"
            THEN [after[i - 1] EXCEPT !.mode = "argv"]
            ELSE Turn(g, after[i - 1], args[i])
    IN  after[Len(args)]

Loop(g, args) ==
    LET after[i \in 0..Len(args)] ==
            IF i = 0 THEN Blank(g) ELSE Turn(g, after[i - 1], args[i])
    IN  after[Len(args)]

\* With --stock-init the initramfs is not looked at.
Checked(g, s, flags) ==
    IF "--stock-init" \in g.switches /\ s.opts["--stock-init"] = "on"
    THEN flags \ {"--initramfs"} ELSE flags

\* The parser accepts: the loop ends at a flag, the required options are set
\* and the paths that must exist are among files.
Parses(g, args, files) ==
    LET s == Loop(g, args)
    IN  /\ s.mode \in {"flags", "argv"}
        /\ \A f \in Checked(g, s, g.required) : s.opts[f] # ""
        /\ \A f \in Checked(g, s, g.exist) : s.opts[f] \in files

-----------------------------------------------------------------------------
(* What a line means, by position instead of by a loop. *)

\* F are the positions of flags and n that of the separator (one past the end
\* if there is none): each position before n is a switch, or a valued flag, or
\* the value of the flag before it.
Reading(g, args, F, n) ==
    /\ n = Len(args) + 1 \/ (g.guest /\ args[n] = "--")
    /\ \A i \in 1..(n - 1) :
          IF i \in F
          THEN \/ args[i] \in g.switches
               \/ /\ args[i] \in g.valued
                  /\ i + 1 < n
                  /\ i + 1 \notin F
                  /\ Converts(g, args[i], args[i + 1])
          ELSE i > 1 /\ i - 1 \in F /\ args[i - 1] \in g.valued

Readings(g, args) ==
    LET flags == {i \in DOMAIN args : args[i] \in g.valued \cup g.switches}
        seps == {Len(args) + 1} \cup {i \in DOMAIN args : args[i] = "--"}
    IN  {r \in [flags : SUBSET flags, sep : seps] :
            /\ \A i \in r.flags : i < r.sep
            /\ Reading(g, args, r.flags, r.sep)}

\* The value that the last of the flags that set it gives a field.
Given(args, r, o) ==
    LET at == {i \in r.flags : Field(args[i]) = o}
    IN  IF at = {} THEN Default(o)
        ELSE args[1 + CHOOSE i \in at : \A j \in at : j <= i]
=============================================================================
