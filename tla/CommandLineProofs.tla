------------------------- MODULE CommandLineProofs -------------------------
(***************************************************************************)
(* Proofs about CommandLine, for lines of any length and any tokens: the   *)
(* loop of the parsers agrees with the meaning of a line by position.  The *)
(* loop is the iteration of Turn, which exists and whose states are        *)
(* followed by induction on the number of turns.                           *)
(***************************************************************************)
EXTENDS CommandLine, WellFoundedInduction, TLAPS

\* Induction over the naturals, for a set.
LEMMA SetInduction ==
    ASSUME NEW S, 0 \in S, \A n \in Nat : n \in S => n + 1 \in S
    PROVE  Nat \subseteq S
<1> DEFINE T == Nat \ S
<1> SUFFICES ASSUME T # {} PROVE FALSE
  OBVIOUS
<1>1. T \subseteq Nat
  OBVIOUS
<1>2. \E x \in T : \A y \in T : ~ (<<y, x>> \in OpToRel(<, Nat))
  <2> HIDE DEF T
  <2> QED
    BY Zenon, <1>1, WFMin, NatLessThanWellFounded
<1>3. PICK x \in T : \A y \in T : ~ (<<y, x>> \in OpToRel(<, Nat))
  BY Zenon, <1>2
<1>4. x \in Nat /\ x # 0 /\ x \notin S
  OBVIOUS
<1>5. x - 1 \in Nat /\ x - 1 < x /\ (x - 1) + 1 = x
  BY <1>4
<1>6. x - 1 \in T
  BY <1>4, <1>5
<1>7. <<x - 1, x>> \in OpToRel(<, Nat)
  BY <1>4, <1>5 DEF OpToRel
<1> QED
  BY Zenon, <1>3, <1>6, <1>7

\* a holds the states of the first m turns of the loop over args.
Turns(g, args, m, a) ==
    a = [i \in 0..m |-> IF i = 0 THEN Blank(g) ELSE Turn(g, a[i - 1], args[i])]

\* The recursive function of the loop exists for every number of turns.
LEMMA TurnsExist ==
    ASSUME NEW g, NEW args, NEW m \in Nat
    PROVE  \E a : Turns(g, args, m, a)
<1> DEFINE S == {n \in Nat : \E a : Turns(g, args, n, a)}
<1>1. 0 \in S
  <2>1. Turns(g, args, 0, [i \in 0..0 |-> Blank(g)])
    BY DEF Turns
  <2> QED
    BY <2>1
<1>2. ASSUME NEW n \in Nat, n \in S PROVE n + 1 \in S
  <2>1. PICK a : Turns(g, args, n, a)
    BY <1>2
  <2> DEFINE b == [i \in 0..(n + 1) |-> IF i = n + 1 THEN Turn(g, a[n], args[n + 1])
                                        ELSE a[i]]
  <2>2. ASSUME NEW i \in 0..(n + 1)
        PROVE  b[i] = IF i = 0 THEN Blank(g) ELSE Turn(g, b[i - 1], args[i])
    <3>1. CASE i = n + 1
      BY <3>1
    <3>2. CASE i # n + 1
      <4>1. i \in 0..n /\ b[i] = a[i]
        BY <3>2
      <4>2. i # 0 => b[i - 1] = a[i - 1]
        BY <4>1
      <4> QED
        BY <4>1, <4>2, <2>1 DEF Turns
    <3> QED
      BY <3>1, <3>2
  <2>3. Turns(g, args, n + 1, b)
    BY <2>2 DEF Turns
  <2>4. n + 1 \in Nat /\ \E c : Turns(g, args, n + 1, c)
    <3> HIDE DEF b
    <3> QED
      BY <2>3
  <2> QED
    BY <2>4
<1> HIDE DEF S
<1>3. Nat \subseteq S
  BY <1>1, <1>2, SetInduction
<1> USE DEF S
<1> QED
  BY <1>3

\* a holds the states of the loop over args.
Walk(g, args, a) ==
    /\ a[0] = Blank(g)
    /\ \A i \in 1..Len(args) : a[i] = Turn(g, a[i - 1], args[i])

\* Loop is the last of its turns.
LEMMA LoopTurns ==
    ASSUME NEW g, NEW args, Len(args) \in Nat
    PROVE  \E a : Walk(g, args, a) /\ Loop(g, args) = a[Len(args)]
<1> DEFINE after == CHOOSE a : Turns(g, args, Len(args), a)
<1>1. Loop(g, args) = after[Len(args)]
  BY DEF Loop, Turns
<1>2. Turns(g, args, Len(args), after)
  BY TurnsExist
<1> HIDE DEF after
<1>3. Walk(g, args, after)
  BY <1>2 DEF Turns, Walk
<1> QED
  BY <1>1, <1>3

\* What a grammar is: no flag is the separator, none both takes a value and
\* takes none, and a switch sets a field of its own.
IsGrammar(g) ==
    /\ g.valued \cap g.switches = {}
    /\ \A t \in g.switches : Field(t) = t /\ t \notin Fields(g)
    /\ "--" \notin g.valued \cup g.switches

\* Tokens, and the strings that options are set to without one.
Words == STRING \cup {"", "on", "hephaestus-vm", "build/agent.cpio.gz"}

\* The states of the loop.
LoopStates(g) ==
    [mode : {"flags", "value", "argv", "error"}, flag : Words,
     argv : Seq(Words), opts : [Fields(g) \cup g.switches -> Words]]

Typed(g, s) == s \in LoopStates(g) /\ (s.mode = "value" => s.flag \in g.valued)

\* The loop starts in one of its states.
LEMMA BlankTyped == ASSUME NEW g, IsGrammar(g) PROVE Typed(g, Blank(g))
<1>1. [o \in Fields(g) \cup g.switches |-> Default(o)]
         \in [Fields(g) \cup g.switches -> Words]
  BY DEF Default, Words
<1>2. "" \in Words
  BY DEF Words
<1>3. <<>> \in Seq(Words)
  OBVIOUS
<1> QED
  BY Zenon, <1>1, <1>2, <1>3 DEF Typed, LoopStates, Blank

\* A turn that expects a flag.
LEMMA FlagTurn ==
    ASSUME NEW g, IsGrammar(g), NEW s, Typed(g, s), s.mode = "flags",
           NEW t \in Words
    PROVE  LET u == Turn(g, s, t)
           IN  /\ Typed(g, u)
               /\ u.argv = s.argv
               /\ g.guest /\ t = "--" => u.mode = "argv" /\ u.opts = s.opts
               /\ ~(g.guest /\ t = "--") /\ t \in g.valued =>
                     u.mode = "value" /\ u.flag = t /\ u.opts = s.opts
               /\ ~(g.guest /\ t = "--") /\ t \notin g.valued /\ t \in g.switches =>
                     /\ u.mode = "flags"
                     /\ \A o \in Fields(g) : u.opts[o] = s.opts[o]
               /\ ~(g.guest /\ t = "--") /\ t \notin g.valued /\ t \notin g.switches =>
                     u.mode = "error"
<1> DEFINE u == Turn(g, s, t)
<1>1. CASE g.guest /\ t = "--"
  <2>1. u = [s EXCEPT !.mode = "argv"]
    BY <1>1 DEF Turn, IsGrammar
  <2> QED
    BY <1>1, <2>1 DEF Typed, LoopStates
<1>2. CASE ~(g.guest /\ t = "--") /\ t \in g.valued
  <2>1. u = [s EXCEPT !.mode = "value", !.flag = t]
    BY <1>2 DEF Turn, IsGrammar
  <2> QED
    BY Zenon, <1>2, <2>1 DEF Typed, LoopStates
<1>3. CASE ~(g.guest /\ t = "--") /\ t \notin g.valued /\ t \in g.switches
  <2>1. u = [s EXCEPT !.opts[t] = "on"]
    BY <1>3 DEF Turn
  <2>2. u = [s EXCEPT !.opts = [s.opts EXCEPT ![t] = "on"]]
    BY <2>1
  <2>3. [s.opts EXCEPT ![t] = "on"] \in [Fields(g) \cup g.switches -> Words]
    BY Zenon, <1>3 DEF Typed, LoopStates, Words
  <2>4. Typed(g, u) /\ u.argv = s.argv /\ u.mode = "flags"
    BY <2>2, <2>3 DEF Typed, LoopStates
  <2>5. \A o \in Fields(g) : u.opts[o] = s.opts[o]
    <3>1. t \notin Fields(g)
      BY <1>3 DEF IsGrammar
    <3> QED
      BY <2>2, <3>1 DEF Typed, LoopStates
  <2> QED
    BY <1>3, <2>4, <2>5
<1>4. CASE ~(g.guest /\ t = "--") /\ t \notin g.valued /\ t \notin g.switches
  <2>1. u = [s EXCEPT !.mode = "error"]
    BY <1>4 DEF Turn
  <2> QED
    BY <1>4, <2>1 DEF Typed, LoopStates
<1> QED
  BY <1>1, <1>2, <1>3, <1>4

\* A turn that expects a value.
LEMMA ValueTurn ==
    ASSUME NEW g, IsGrammar(g), NEW s, Typed(g, s), s.mode = "value",
           NEW t \in Words
    PROVE  LET u == Turn(g, s, t)
           IN  /\ Typed(g, u)
               /\ u.argv = s.argv
               /\ Converts(g, s.flag, t) =>
                     /\ u.mode = "flags"
                     /\ u.opts[Field(s.flag)] = t
                     /\ \A o \in Fields(g) \ {Field(s.flag)} : u.opts[o] = s.opts[o]
               /\ ~Converts(g, s.flag, t) => u.mode = "error"
<1> DEFINE u == Turn(g, s, t)
<1>0. Field(s.flag) \in Fields(g)
  BY DEF Typed, Fields
<1>1. CASE Converts(g, s.flag, t)
  <2>1. u = [s EXCEPT !.mode = "flags", !.opts[Field(s.flag)] = t]
    BY <1>1 DEF Turn
  <2>2. u = [s EXCEPT !.mode = "flags", !.opts = [s.opts EXCEPT ![Field(s.flag)] = t]]
    BY <2>1
  <2>3. [s.opts EXCEPT ![Field(s.flag)] = t] \in [Fields(g) \cup g.switches -> Words]
    BY DEF Typed, LoopStates
  <2>4. Typed(g, u) /\ u.argv = s.argv /\ u.mode = "flags"
    BY Zenon, <2>2, <2>3 DEF Typed, LoopStates
  <2>5. /\ u.opts[Field(s.flag)] = t
        /\ \A o \in Fields(g) \ {Field(s.flag)} : u.opts[o] = s.opts[o]
    BY <1>0, <2>2 DEF Typed, LoopStates
  <2> QED
    BY <1>1, <2>4, <2>5
<1>2. CASE ~Converts(g, s.flag, t)
  <2>1. u = [s EXCEPT !.mode = "error"]
    BY <1>2 DEF Turn
  <2> QED
    BY <1>2, <2>1 DEF Typed, LoopStates
<1> QED
  BY <1>1, <1>2

\* A turn after the separator, or after an error.
LEMMA LastTurn ==
    ASSUME NEW g, NEW s, Typed(g, s), s.mode \in {"argv", "error"},
           NEW t \in Words
    PROVE  LET u == Turn(g, s, t)
           IN  /\ Typed(g, u)
               /\ u.mode = s.mode
               /\ s.mode = "argv" => u.argv = Append(s.argv, t) /\ u.opts = s.opts
<1> DEFINE u == Turn(g, s, t)
<1>1. CASE s.mode = "argv"
  <2>1. u = [s EXCEPT !.argv = Append(s.argv, t)]
    BY <1>1 DEF Turn
  <2>2. Append(s.argv, t) \in Seq(Words)
    BY DEF Typed, LoopStates
  <2> QED
    BY Zenon, <1>1, <2>1, <2>2 DEF Typed, LoopStates
<1>2. CASE s.mode = "error"
  BY <1>2 DEF Turn
<1> QED
  BY <1>1, <1>2

\* Every state of the loop is typed.
LEMMA WalkTyped ==
    ASSUME NEW g, IsGrammar(g), NEW args \in Seq(Words), NEW a, Walk(g, args, a),
           NEW i \in 0..Len(args)
    PROVE  Typed(g, a[i])
<1> DEFINE S == {n \in Nat : n <= Len(args) => Typed(g, a[n])}
<1>1. 0 \in S
  BY BlankTyped DEF Walk
<1>2. ASSUME NEW n \in Nat, n \in S PROVE n + 1 \in S
  <2> SUFFICES ASSUME n + 1 <= Len(args) PROVE Typed(g, a[n + 1])
    OBVIOUS
  <2>1. Typed(g, a[n])
    BY <1>2
  <2>2. n + 1 \in 1..Len(args) /\ (n + 1) - 1 = n
    OBVIOUS
  <2>3. a[n + 1] = Turn(g, a[n], args[n + 1]) /\ args[n + 1] \in Words
    BY <2>2 DEF Walk
  <2>4. a[n].mode \in {"flags", "value", "argv", "error"}
    BY <2>1 DEF Typed, LoopStates
  <2> QED
    BY <2>1, <2>3, <2>4, FlagTurn, ValueTurn, LastTurn
<1> HIDE DEF S
<1>3. Nat \subseteq S
  BY <1>1, <1>2, SetInduction
<1> USE DEF S
<1> QED
  BY <1>3

\* v is the value that the flags at the positions F before i give field o.
LastValue(args, F, i, o, v) ==
    \/ v = Default(o) /\ \A k \in F : k < i => Field(args[k]) # o
    \/ \E k \in F : /\ k < i
                    /\ Field(args[k]) = o
                    /\ v = args[k + 1]
                    /\ \A j \in F : j < i /\ Field(args[j]) = o => j <= k

\* The state of the loop after i tokens, of a line whose flags are at F.
ReadUpTo(g, args, F, i, s) ==
    /\ s.argv = <<>>
    /\ IF i \in F /\ args[i] \in g.valued
       THEN s.mode = "value" /\ s.flag = args[i]
       ELSE s.mode = "flags"
    /\ \A o \in Fields(g) : LastValue(args, F, i, o, s.opts[o])

\* A flag of a reading that takes no value sets none of the valued fields.
LEMMA SwitchAlone ==
    ASSUME NEW g, IsGrammar(g), NEW args, NEW n, NEW F \in SUBSET (1..(n - 1)),
           Reading(g, args, F, n), NEW i \in F, args[i] \notin g.valued
    PROVE  Field(args[i]) \notin Fields(g)
<1>1. args[i] \in g.switches
  BY DEF Reading
<1> QED
  BY <1>1 DEF IsGrammar

\* One turn further before the separator.
LEMMA ReadOneMore ==
    ASSUME NEW g, IsGrammar(g), NEW args \in Seq(Words),
           NEW n \in 1..(Len(args) + 1), NEW F \in SUBSET (1..(n - 1)),
           Reading(g, args, F, n),
           NEW i \in Nat, i + 1 < n, NEW s, Typed(g, s), ReadUpTo(g, args, F, i, s)
    PROVE  ReadUpTo(g, args, F, i + 1, Turn(g, s, args[i + 1]))
<1> DEFINE t == args[i + 1]
           u == Turn(g, s, t)
<1>1. i + 1 \in 1..(n - 1) /\ i + 1 \in 1..Len(args) /\ (i + 1) - 1 = i
  OBVIOUS
<1>2. t \in Words
  BY <1>1
<1>3. IF i + 1 \in F
      THEN \/ t \in g.switches
           \/ t \in g.valued
      ELSE i \in F /\ args[i] \in g.valued
  BY <1>1 DEF Reading
<1>4. CASE i \in F /\ args[i] \in g.valued
  <2>1. s.mode = "value" /\ s.flag = args[i]
    BY <1>4 DEF ReadUpTo
  <2>2. i \in 1..(n - 1) /\ args[i] \notin g.switches
    BY <1>4 DEF IsGrammar
  <2>3. i + 1 \notin F /\ Converts(g, args[i], t)
    BY <1>4, <2>2 DEF Reading
  <2>4. /\ u.argv = s.argv
        /\ u.mode = "flags"
        /\ u.opts[Field(args[i])] = t
        /\ \A o \in Fields(g) \ {Field(args[i])} : u.opts[o] = s.opts[o]
    BY <1>2, <2>1, <2>3, ValueTurn
  <2>5. ASSUME NEW o \in Fields(g)
        PROVE  LastValue(args, F, i + 1, o, u.opts[o])
    <3>1. CASE o = Field(args[i])
      <4>1. \A j \in F : j < i + 1 => j <= i
        OBVIOUS
      <4> QED
        BY <1>4, <2>4, <3>1, <4>1 DEF LastValue
    <3>2. CASE o # Field(args[i])
      <4>1. \A j \in F : Field(args[j]) = o => (j < i + 1 <=> j < i)
        BY <3>2
      <4>2. LastValue(args, F, i, o, u.opts[o])
        BY <2>4, <3>2 DEF ReadUpTo
      <4> HIDE DEF u
      <4> QED
        BY <4>1, <4>2 DEF LastValue
    <3> QED
      BY <3>1, <3>2
  <2> QED
    BY <2>3, <2>4, <2>5 DEF ReadUpTo
<1>5. CASE ~(i \in F /\ args[i] \in g.valued)
  <2>1. s.mode = "flags"
    BY <1>5 DEF ReadUpTo
  <2>2. i + 1 \in F /\ t # "--" /\ t \in g.valued \cup g.switches
    BY <1>3, <1>5 DEF IsGrammar
  <2>3. /\ u.argv = s.argv
        /\ t \in g.valued => u.mode = "value" /\ u.flag = t
        /\ t \notin g.valued => u.mode = "flags"
        /\ \A o \in Fields(g) : u.opts[o] = s.opts[o]
    BY <1>2, <2>1, <2>2, FlagTurn
  <2>4. ASSUME NEW o \in Fields(g)
        PROVE  LastValue(args, F, i + 1, o, u.opts[o])
    <3>1. \A j \in F : Field(args[j]) = o => (j < i + 1 <=> j < i)
      <4>1. i \in F => Field(args[i]) \notin Fields(g)
        BY <1>5, SwitchAlone
      <4> QED
        BY <4>1
    <3>2. LastValue(args, F, i, o, u.opts[o])
      BY <2>3 DEF ReadUpTo
    <3> HIDE DEF u
    <3> QED
      BY <3>1, <3>2 DEF LastValue
  <2> QED
    BY <2>2, <2>3, <2>4 DEF ReadUpTo
<1> QED
  BY <1>4, <1>5

\* Up to the separator, the loop reads a line as its reading says.
LEMMA ReadToSeparator ==
    ASSUME NEW g, IsGrammar(g), NEW args \in Seq(Words), NEW a, Walk(g, args, a),
           NEW n \in 1..(Len(args) + 1), NEW F \in SUBSET (1..(n - 1)),
           Reading(g, args, F, n)
    PROVE  ReadUpTo(g, args, F, n - 1, a[n - 1])
<1> DEFINE S == {i \in Nat : i < n => ReadUpTo(g, args, F, i, a[i])}
<1>1. 0 \in S
  <2>1. 0 \notin F
    OBVIOUS
  <2>2. a[0].argv = <<>> /\ a[0].mode = "flags"
    <3>1. Blank(g).argv = <<>> /\ Blank(g).mode = "flags"
      BY DEF Blank
    <3> QED
      BY <3>1 DEF Walk
  <2>3. ASSUME NEW o \in Fields(g)
        PROVE  LastValue(args, F, 0, o, a[0].opts[o])
    <3>1. a[0].opts[o] = Default(o)
      <4>1. Blank(g).opts[o] = Default(o)
        BY DEF Blank
      <4> QED
        BY <4>1 DEF Walk
    <3>2. \A k \in F : ~(k < 0)
      OBVIOUS
    <3> QED
      BY <3>1, <3>2 DEF LastValue
  <2> QED
    BY <2>1, <2>2, <2>3 DEF ReadUpTo
<1>2. ASSUME NEW i \in Nat, i \in S PROVE i + 1 \in S
  <2> SUFFICES ASSUME i + 1 < n PROVE ReadUpTo(g, args, F, i + 1, a[i + 1])
    OBVIOUS
  <2>1. i < n /\ i \in 0..Len(args) /\ i + 1 \in 1..Len(args) /\ (i + 1) - 1 = i
    OBVIOUS
  <2>2. Typed(g, a[i]) /\ ReadUpTo(g, args, F, i, a[i])
    BY <1>2, <2>1, WalkTyped
  <2>3. a[i + 1] = Turn(g, a[i], args[i + 1])
    BY <2>1 DEF Walk
  <2> QED
    BY <2>2, <2>3, ReadOneMore
<1> HIDE DEF S
<1>3. Nat \subseteq S
  BY <1>1, <1>2, SetInduction
<1>4. n - 1 \in Nat /\ n - 1 < n
  OBVIOUS
<1> USE DEF S
<1> QED
  BY <1>3, <1>4

\* A piece of a sequence is extended by the token after it.
LEMMA SubSeqGrows ==
    ASSUME NEW args \in Seq(Words), NEW n \in Nat, NEW i \in Nat,
           1 <= n, n <= i, i + 1 <= Len(args)
    PROVE  Append(SubSeq(args, n + 1, i), args[i + 1]) = SubSeq(args, n + 1, i + 1)
OBVIOUS

\* After it, the loop hands the rest of the line over and changes nothing.
LEMMA ReadAfterSeparator ==
    ASSUME NEW g, IsGrammar(g), NEW args \in Seq(Words), NEW a, Walk(g, args, a),
           NEW n \in 1..Len(args), a[n].mode = "argv", a[n].argv = <<>>
    PROVE  /\ a[Len(args)].mode = "argv"
           /\ a[Len(args)].opts = a[n].opts
           /\ a[Len(args)].argv = SubSeq(args, n + 1, Len(args))
<1> DEFINE P(i) == /\ a[i].mode = "argv"
                   /\ a[i].opts = a[n].opts
                   /\ a[i].argv = SubSeq(args, n + 1, i)
           S == {i \in Nat : n <= i /\ i <= Len(args) => P(i)}
<1>1. 0 \in S
  OBVIOUS
<1>2. ASSUME NEW i \in Nat, i \in S PROVE i + 1 \in S
  <2> SUFFICES ASSUME n <= i + 1, i + 1 <= Len(args) PROVE P(i + 1)
    OBVIOUS
  <2>1. CASE n = i + 1
    <3>1. SubSeq(args, n + 1, n) = <<>>
      OBVIOUS
    <3> QED
      BY Zenon, <2>1, <3>1
  <2>2. CASE n # i + 1
    <3>1. n <= i /\ i \in 0..Len(args) /\ i + 1 \in 1..Len(args) /\ (i + 1) - 1 = i
      BY <2>2
    <3>2. P(i)
      BY <1>2, <3>1
    <3>3. Typed(g, a[i])
      BY <3>1, WalkTyped
    <3>4. a[i + 1] = Turn(g, a[i], args[i + 1]) /\ args[i + 1] \in Words
      BY <3>1 DEF Walk
    <3>5. /\ a[i + 1].mode = "argv"
          /\ a[i + 1].opts = a[i].opts
          /\ a[i + 1].argv = Append(a[i].argv, args[i + 1])
      <4>1. a[i].mode = "argv"
        BY <3>2
      <4>2. PICK s : s = a[i]
        OBVIOUS
      <4>3. PICK t \in Words : t = args[i + 1]
        BY <3>4
      <4>4. LET u == Turn(g, s, t)
            IN  u.mode = "argv" /\ u.opts = s.opts /\ u.argv = Append(s.argv, t)
        <5>1. Typed(g, s) /\ s.mode = "argv"
          BY <3>3, <4>1, <4>2
        <5> QED
          BY ONLY <5>1, t \in Words, LastTurn
      <4> QED
        BY <3>4, <4>2, <4>3, <4>4
    <3>6. Append(SubSeq(args, n + 1, i), args[i + 1]) = SubSeq(args, n + 1, i + 1)
      <4>1. n \in Nat /\ 1 <= n
        OBVIOUS
      <4> QED
        BY Zenon, <3>1, <4>1, SubSeqGrows
    <3> QED
      BY Zenon, <3>2, <3>5, <3>6
  <2> QED
    BY <2>1, <2>2
<1> HIDE DEF S
<1>3. Nat \subseteq S
  BY <1>1, <1>2, SetInduction
<1> USE DEF S
<1> QED
  BY <1>3

\* What a reading is.
LEMMA ReadingFacts ==
    ASSUME NEW g, NEW args \in Seq(Words), NEW r \in Readings(g, args)
    PROVE  /\ r.sep \in 1..(Len(args) + 1)
           /\ r.flags \in SUBSET (1..(r.sep - 1))
           /\ Reading(g, args, r.flags, r.sep)
           /\ r.sep = Len(args) + 1 \/ (g.guest /\ args[r.sep] = "--")
<1>1. /\ r.sep \in {Len(args) + 1} \cup DOMAIN args
      /\ r.flags \subseteq DOMAIN args
      /\ \A i \in r.flags : i < r.sep
      /\ Reading(g, args, r.flags, r.sep)
  BY DEF Readings
<1>2. DOMAIN args = 1..Len(args) /\ Len(args) \in Nat
  OBVIOUS
<1>3. r.sep \in 1..(Len(args) + 1)
  BY <1>1, <1>2
<1>4. r.flags \in SUBSET (1..(r.sep - 1))
  BY <1>1, <1>2, <1>3
<1>5. r.sep = Len(args) + 1 \/ (g.guest /\ args[r.sep] = "--")
  BY <1>1 DEF Reading
<1> QED
  BY <1>1, <1>3, <1>4, <1>5

\* The value of the last occurrence is the one a reading gives.
LEMMA LastIsGiven ==
    ASSUME NEW g, IsGrammar(g), NEW args \in Seq(Words), NEW r,
           r.sep \in 1..(Len(args) + 1), r.flags \in SUBSET (1..(r.sep - 1)),
           Reading(g, args, r.flags, r.sep), NEW o \in Fields(g), NEW v,
           LastValue(args, r.flags, r.sep - 1, o, v)
    PROVE  v = Given(args, r, o)
<1> DEFINE occ == {i \in r.flags : Field(args[i]) = o}
<1>1. \A i \in occ : i \in Nat /\ i < r.sep - 1
  <2> TAKE i \in occ
  <2>1. i \in 1..(r.sep - 1) /\ args[i] \in g.valued /\ args[i] \notin g.switches
    BY SwitchAlone DEF IsGrammar
  <2>2. i + 1 < r.sep
    BY <2>1 DEF Reading
  <2> QED
    BY <2>1, <2>2
<1>2. CASE v = Default(o) /\ \A k \in r.flags : k < r.sep - 1 => Field(args[k]) # o
  <2>1. occ = {}
    BY <1>1, <1>2
  <2> QED
    BY <1>2, <2>1 DEF Given
<1>3. CASE \E k \in r.flags : /\ k < r.sep - 1
                              /\ Field(args[k]) = o
                              /\ v = args[k + 1]
                              /\ \A j \in r.flags : j < r.sep - 1 /\ Field(args[j]) = o => j <= k
  <2>1. PICK k \in r.flags : /\ k < r.sep - 1
                             /\ Field(args[k]) = o
                             /\ v = args[k + 1]
                             /\ \A j \in r.flags : j < r.sep - 1 /\ Field(args[j]) = o => j <= k
    BY <1>3
  <2>2. k \in occ /\ \A j \in occ : j <= k
    BY <1>1, <2>1
  <2> DEFINE m == CHOOSE i \in occ : \A j \in occ : j <= i
  <2>3. m \in occ /\ \A j \in occ : j <= m
    <3> HIDE DEF occ
    <3> QED
      BY <2>2
  <2>4. m \in Nat /\ k \in Nat
    BY <1>1, <2>2, <2>3
  <2>5. m = k
    <3> HIDE DEF occ, m
    <3> QED
      BY <2>2, <2>3, <2>4
  <2>6. Given(args, r, o) = args[1 + m]
    <3>1. occ # {}
      BY <2>2
    <3> QED
      BY <3>1 DEF Given
  <2>7. 1 + m = k + 1
    <3> HIDE DEF m
    <3> QED
      BY <2>4, <2>5
  <2> QED
    BY <2>1, <2>6, <2>7
<1> QED
  BY <1>2, <1>3 DEF LastValue

\* The loop ends as any reading of its line says.
LEMMA ReadingIsRead ==
    ASSUME NEW g, IsGrammar(g), NEW args \in Seq(Words), NEW r \in Readings(g, args)
    PROVE  LET s == Loop(g, args)
           IN  /\ s.mode \in {"flags", "argv"}
               /\ \A o \in Fields(g) : s.opts[o] = Given(args, r, o)
               /\ s.argv = SubSeq(args, r.sep + 1, Len(args))
<1>1. PICK a : Walk(g, args, a) /\ Loop(g, args) = a[Len(args)]
  <2>1. Len(args) \in Nat
    OBVIOUS
  <2> QED
    BY <2>1, LoopTurns
<1>2. PICK n, F : n = r.sep /\ F = r.flags
  OBVIOUS
<1>3. /\ n \in 1..(Len(args) + 1)
      /\ F \in SUBSET (1..(n - 1))
      /\ Reading(g, args, F, n)
      /\ n = Len(args) + 1 \/ (g.guest /\ args[n] = "--")
  BY <1>2, ReadingFacts
<1>4. ReadUpTo(g, args, F, n - 1, a[n - 1])
  BY <1>1, <1>3, ReadToSeparator
<1>5. \A o \in Fields(g) : a[n - 1].opts[o] = Given(args, r, o)
  BY Zenon, <1>2, <1>3, <1>4, LastIsGiven DEF ReadUpTo
<1>6. a[n - 1].argv = <<>> /\ a[n - 1].mode = "flags"
  <2>1. ~(n - 1 \in F /\ args[n - 1] \in g.valued)
    <3> SUFFICES ASSUME n - 1 \in F, args[n - 1] \in g.valued PROVE FALSE
      OBVIOUS
    <3>1. n - 1 \in 1..(n - 1) /\ ~((n - 1) + 1 < n) /\ args[n - 1] \notin g.switches
      BY <1>3 DEF IsGrammar
    <3> QED
      BY <1>3, <3>1 DEF Reading
  <2> QED
    BY <1>4, <2>1 DEF ReadUpTo
<1>7. CASE n = Len(args) + 1
  <2>1. n - 1 = Len(args) /\ SubSeq(args, n + 1, Len(args)) = <<>>
    BY <1>7
  <2> QED
    <3>1. Loop(g, args) = a[n - 1]
      BY <1>1, <2>1
    <3>2. SubSeq(args, r.sep + 1, Len(args)) = <<>>
      BY <1>2, <2>1
    <3> QED
      BY Zenon, <1>5, <1>6, <3>1, <3>2
<1>8. CASE n # Len(args) + 1
  <2>1. /\ n \in 1..Len(args)
        /\ n - 1 \in 0..Len(args)
        /\ g.guest
        /\ args[n] = "--"
    BY <1>3, <1>8
  <2>2. Typed(g, a[n - 1]) /\ a[n] = Turn(g, a[n - 1], args[n]) /\ args[n] \in Words
    BY <1>1, <2>1, WalkTyped DEF Walk
  <2>3. a[n].mode = "argv" /\ a[n].argv = <<>> /\ a[n].opts = a[n - 1].opts
    BY <1>6, <2>1, <2>2, FlagTurn
  <2>4. /\ a[Len(args)].mode = "argv"
        /\ a[Len(args)].opts = a[n].opts
        /\ a[Len(args)].argv = SubSeq(args, n + 1, Len(args))
    BY Zenon, <1>1, <2>1, <2>3, ReadAfterSeparator
  <2> QED
    <3> DEFINE s == Loop(g, args)
    <3>1. s.mode = "argv" /\ s.opts = a[n - 1].opts
      BY <1>1, <2>3, <2>4
    <3>2. s.argv = SubSeq(args, r.sep + 1, Len(args))
      BY <1>1, <1>2, <2>4
    <3> QED
      BY <1>5, <3>1, <3>2
<1> QED
  BY <1>7, <1>8

\* A state of the loop that expects a flag or a value follows only such states.
LEMMA StillReading ==
    ASSUME NEW g, IsGrammar(g), NEW args \in Seq(Words), NEW a, Walk(g, args, a),
           NEW n \in 0..Len(args), a[n].mode \in {"flags", "value"},
           NEW i \in 0..n
    PROVE  a[i].mode \in {"flags", "value"}
<1> DEFINE S == {m \in Nat : m <= n => a[n - m].mode \in {"flags", "value"}}
<1>1. 0 \in S
  OBVIOUS
<1>2. ASSUME NEW m \in Nat, m \in S PROVE m + 1 \in S
  <2> SUFFICES ASSUME m + 1 <= n
               PROVE  a[n - (m + 1)].mode \in {"flags", "value"}
    OBVIOUS
  <2>1. PICK k \in 1..Len(args) : k = n - m /\ k - 1 = n - (m + 1)
    OBVIOUS
  <2>2. a[k].mode \in {"flags", "value"}
    BY <1>2, <2>1
  <2>3. k - 1 \in 0..Len(args)
    OBVIOUS
  <2>4. Typed(g, a[k - 1]) /\ a[k] = Turn(g, a[k - 1], args[k]) /\ args[k] \in Words
    BY <2>3, WalkTyped DEF Walk
  <2>5. a[k - 1].mode \in {"flags", "value", "argv", "error"}
    BY <2>4 DEF Typed, LoopStates
  <2>6. a[k - 1].mode \notin {"argv", "error"}
    <3> SUFFICES ASSUME a[k - 1].mode \in {"argv", "error"} PROVE FALSE
      OBVIOUS
    <3>1. Turn(g, a[k - 1], args[k]).mode = a[k - 1].mode
      BY <2>4, LastTurn
    <3> QED
      BY <2>2, <2>4, <3>1
  <2> QED
    BY <2>1, <2>5, <2>6
<1> HIDE DEF S
<1>3. Nat \subseteq S
  BY <1>1, <1>2, SetInduction
<1>4. PICK m \in Nat : m = n - i /\ m <= n /\ n - m = i
  OBVIOUS
<1> USE DEF S
<1> QED
  BY Zenon, <1>3, <1>4

\* The guest's arguments begin at a separator where a flag was expected.
LEMMA SeparatorFound ==
    ASSUME NEW g, IsGrammar(g), NEW args \in Seq(Words), NEW a, Walk(g, args, a),
           a[Len(args)].mode = "argv"
    PROVE  \E n \in 1..Len(args) :
              g.guest /\ args[n] = "--" /\ a[n - 1].mode = "flags"
<1> DEFINE Found(i) == \E n \in 1..i :
              g.guest /\ args[n] = "--" /\ a[n - 1].mode = "flags"
           S == {i \in Nat : i <= Len(args) /\ a[i].mode = "argv" => Found(i)}
<1>1. 0 \in S
  <2>1. Blank(g).mode = "flags"
    BY DEF Blank
  <2> QED
    BY <2>1 DEF Walk
<1>2. ASSUME NEW i \in Nat, i \in S PROVE i + 1 \in S
  <2> SUFFICES ASSUME i + 1 <= Len(args), a[i + 1].mode = "argv" PROVE Found(i + 1)
    OBVIOUS
  <2>1. i \in 0..Len(args) /\ i + 1 \in 1..Len(args) /\ (i + 1) - 1 = i
    OBVIOUS
  <2>2. Typed(g, a[i]) /\ a[i + 1] = Turn(g, a[i], args[i + 1]) /\ args[i + 1] \in Words
    BY <2>1, WalkTyped DEF Walk
  <2>3. a[i].mode \in {"flags", "value", "argv", "error"}
    BY <2>2 DEF Typed, LoopStates
  <2>4. CASE a[i].mode = "flags"
    <3>1. g.guest /\ args[i + 1] = "--"
      BY <2>2, <2>4, FlagTurn
    <3> QED
      BY <2>1, <2>4, <3>1
  <2>5. CASE a[i].mode = "value"
    BY <2>2, <2>5, ValueTurn
  <2>6. CASE a[i].mode = "argv"
    <3>1. Found(i)
      BY <1>2, <2>1, <2>6
    <3>2. 1..i \subseteq 1..(i + 1)
      OBVIOUS
    <3> QED
      BY <3>1, <3>2
  <2>7. CASE a[i].mode = "error"
    BY <2>2, <2>7, LastTurn
  <2> QED
    BY <2>3, <2>4, <2>5, <2>6, <2>7
<1> HIDE DEF S
<1>3. Nat \subseteq S
  BY <1>1, <1>2, SetInduction
<1>4. Len(args) \in Nat
  OBVIOUS
<1> USE DEF S
<1> QED
  BY <1>3, <1>4

\* The positions where the loop expects a flag are a reading.
LEMMA FlagsAreRead ==
    ASSUME NEW g, IsGrammar(g), NEW args \in Seq(Words), NEW a, Walk(g, args, a),
           NEW n \in 1..(Len(args) + 1), a[n - 1].mode = "flags",
           n = Len(args) + 1 \/ (g.guest /\ args[n] = "--"),
           NEW F, F = {i \in 1..(n - 1) : a[i - 1].mode = "flags"}
    PROVE  /\ Reading(g, args, F, n)
           /\ \A i \in F : args[i] \in g.valued \cup g.switches
<1>1. ASSUME NEW i \in 1..(n - 1)
      PROVE  /\ i - 1 \in 0..Len(args)
             /\ i \in 1..Len(args)
             /\ a[i - 1].mode \in {"flags", "value"}
             /\ a[i].mode \in {"flags", "value"}
             /\ Typed(g, a[i - 1])
             /\ a[i] = Turn(g, a[i - 1], args[i])
             /\ args[i] \in Words
  <2>1. i - 1 \in 0..(n - 1) /\ i \in 0..(n - 1) /\ n - 1 \in 0..Len(args)
    OBVIOUS
  <2>2. i - 1 \in 0..Len(args) /\ i \in 1..Len(args)
    OBVIOUS
  <2>3. a[i - 1].mode \in {"flags", "value"} /\ a[i].mode \in {"flags", "value"}
    BY <2>1, StillReading
  <2>4. Typed(g, a[i - 1])
    BY <2>2, WalkTyped
  <2> QED
    BY <2>2, <2>3, <2>4 DEF Walk
<1>2. ASSUME NEW i \in 1..(n - 1), a[i - 1].mode = "flags"
      PROVE  \/ args[i] \in g.switches /\ a[i].mode = "flags"
             \/ /\ args[i] \in g.valued
                /\ a[i].mode = "value"
                /\ a[i].flag = args[i]
  <2>1. a[i].mode \notin {"argv", "error"}
    BY Zenon, <1>1
  <2> QED
    BY <1>1, <1>2, <2>1, FlagTurn
<1>3. ASSUME NEW i \in 1..(n - 1), i \in F
      PROVE  \/ args[i] \in g.switches
             \/ /\ args[i] \in g.valued
                /\ i + 1 < n
                /\ i + 1 \notin F
                /\ Converts(g, args[i], args[i + 1])
  <2>1. CASE args[i] \in g.valued /\ a[i].mode = "value" /\ a[i].flag = args[i]
    <3>1. i # n - 1
      BY <2>1
    <3>2. i + 1 \in 1..(n - 1) /\ (i + 1) - 1 = i
      BY <3>1
    <3>3. i + 1 \notin F
      BY <2>1, <3>2
    <3>4. /\ Typed(g, a[i])
          /\ a[i + 1] = Turn(g, a[i], args[i + 1])
          /\ args[i + 1] \in Words
          /\ a[i + 1].mode \in {"flags", "value"}
      BY <3>2, <1>1
    <3>5. Converts(g, args[i], args[i + 1])
      BY <2>1, <3>4, ValueTurn
    <3> QED
      BY <2>1, <3>2, <3>3, <3>5
  <2> QED
    BY <1>2, <1>3, <2>1
<1>4. ASSUME NEW i \in 1..(n - 1), i \notin F
      PROVE  i > 1 /\ i - 1 \in F /\ args[i - 1] \in g.valued
  <2>1. a[i - 1].mode = "value"
    BY <1>1, <1>4
  <2>2. i # 1
    <3>1. Blank(g).mode = "flags"
      BY DEF Blank
    <3> QED
      BY <2>1, <3>1 DEF Walk
  <2>3. PICK k \in 1..(n - 1) : k = i - 1 /\ i > 1
    BY <2>2
  <2>4. /\ a[k - 1].mode \in {"flags", "value"}
        /\ Typed(g, a[k - 1])
        /\ a[k] = Turn(g, a[k - 1], args[k])
        /\ args[k] \in Words
    BY <1>1
  <2>5. a[k].mode = "value"
    BY <2>1, <2>3
  <2>6. a[k - 1].mode = "flags"
    BY <2>4, <2>5, ValueTurn
  <2>7. k \in F /\ args[k] \in g.valued
    BY <1>2, <2>5, <2>6
  <2> QED
    BY <2>3, <2>7
<1>5. Reading(g, args, F, n)
  BY <1>3, <1>4 DEF Reading
<1>6. \A i \in F : i \in 1..(n - 1)
  OBVIOUS
<1> QED
  BY <1>3, <1>5, <1>6

\* A line that the loop accepts has a reading.
LEMMA AcceptedHasReading ==
    ASSUME NEW g, IsGrammar(g), NEW args \in Seq(Words),
           Loop(g, args).mode \in {"flags", "argv"}
    PROVE  Readings(g, args) # {}
<1>1. Len(args) \in Nat
  OBVIOUS
<1>2. PICK a : Walk(g, args, a) /\ Loop(g, args) = a[Len(args)]
  BY <1>1, LoopTurns
<1>3. PICK n \in 1..(Len(args) + 1) :
         /\ a[n - 1].mode = "flags"
         /\ n = Len(args) + 1 \/ (g.guest /\ args[n] = "--" /\ n \in 1..Len(args))
  <2>1. CASE Loop(g, args).mode = "flags"
    <3>1. (Len(args) + 1) - 1 = Len(args) /\ Len(args) + 1 \in 1..(Len(args) + 1)
      BY <1>1
    <3> QED
      BY <1>2, <2>1, <3>1
  <2>2. CASE Loop(g, args).mode = "argv"
    <3>1. PICK n \in 1..Len(args) :
             g.guest /\ args[n] = "--" /\ a[n - 1].mode = "flags"
      BY <1>2, <2>2, SeparatorFound
    <3>2. n \in 1..(Len(args) + 1)
      BY <1>1
    <3> QED
      BY <3>1, <3>2
  <2> QED
    BY <2>1, <2>2
<1>4. PICK F : F = {i \in 1..(n - 1) : a[i - 1].mode = "flags"}
  BY Zenon
<1>5. /\ Reading(g, args, F, n)
      /\ \A i \in F : args[i] \in g.valued \cup g.switches
  BY Zenon, <1>2, <1>3, <1>4, FlagsAreRead
<1>6. \A i \in F : i \in DOMAIN args /\ i < n
  BY <1>4
<1>7. n \in {Len(args) + 1} \cup {i \in DOMAIN args : args[i] = "--"}
  BY <1>3
<1>8. F \in SUBSET {i \in DOMAIN args : args[i] \in g.valued \cup g.switches}
  BY <1>5, <1>6
<1>9. [flags |-> F, sep |-> n] \in Readings(g, args)
  BY <1>5, <1>6, <1>7, <1>8 DEF Readings
<1> QED
  BY <1>9

-----------------------------------------------------------------------------
(* The subcommands and their grammars. *)


Commands ==
    {<<"ping">>, <<"run">>, <<"rootfs">>, <<"vz-boot">>, <<"vz-exec">>,
     <<"vz-sh">>, <<"pool", "init">>, <<"pool", "run">>, <<"pool", "stats">>,
     <<"pool", "destroy">>, <<"vz-warm", "save">>, <<"vz-warm", "run">>,
     <<"vz-snapshot", "save">>, <<"vz-snapshot", "restore">>}

\* What main() dispatches to is one of the subcommands.
LEMMA SubcommandIs ==
    ASSUME NEW l \in Seq(STRING), Subcommand(l) # <<>>
    PROVE  Subcommand(l) \in Commands
<1>1. CASE Len(l) > 0 /\ l[1] \in Flat
  BY <1>1 DEF Subcommand, Flat, Commands
<1>2. CASE ~(Len(l) > 0 /\ l[1] \in Flat) /\ Len(l) > 1 /\ l[2] \in Nested(l[1])
  <2>1. Subcommand(l) = <<l[1], l[2]>>
    BY <1>2 DEF Subcommand
  <2>2. CASE l[1] = "pool"
    BY <1>2, <2>1, <2>2 DEF Nested, Commands
  <2>3. CASE l[1] = "vz-warm"
    BY <1>2, <2>1, <2>3 DEF Nested, Commands
  <2>4. CASE l[1] = "vz-snapshot"
    BY <1>2, <2>1, <2>4 DEF Nested, Commands
  <2> QED
    BY <1>2, <2>2, <2>3, <2>4 DEF Nested
<1> QED
  BY <1>1, <1>2 DEF Subcommand

\* Every subcommand but ping has a grammar, and only that of run has a guest.
LEMMA GrammarsAre ==
    ASSUME NEW c \in Commands, c # <<"ping">>
    PROVE  /\ IsGrammar(GrammarOf(c))
           /\ GrammarOf(c).guest => c = <<"run">>
<1> USE DEF IsGrammar, Grammar, Sizes, Boots, Field, Fields
<1>1. CASE c = <<"run">>
  <2>1. GrammarOf(c) = RunGrammar
    BY <1>1 DEF GrammarOf
  <2> QED
    BY <1>1, <2>1 DEF RunGrammar
<1>2. CASE c = <<"rootfs">>
  <2>1. GrammarOf(c) = RootfsGrammar
    BY <1>2 DEF GrammarOf
  <2> QED
    BY <2>1 DEF RootfsGrammar
<1>3. CASE c = <<"vz-boot">>
  <2>1. GrammarOf(c) = VzBootGrammar
    BY <1>3 DEF GrammarOf
  <2> QED
    BY <2>1 DEF VzBootGrammar
<1>4. CASE c = <<"vz-exec">>
  <2>1. GrammarOf(c) = VzExecGrammar
    BY <1>4 DEF GrammarOf
  <2> QED
    BY <2>1 DEF VzExecGrammar
<1>5. CASE c = <<"vz-sh">>
  <2>1. GrammarOf(c) = VzShGrammar
    BY <1>5 DEF GrammarOf
  <2> QED
    BY <2>1 DEF VzShGrammar
<1>6. CASE c = <<"pool", "init">>
  <2>1. GrammarOf(c) = PoolInitGrammar
    BY <1>6 DEF GrammarOf
  <2> QED
    BY <2>1 DEF PoolInitGrammar
<1>7. CASE c = <<"pool", "run">>
  <2>1. GrammarOf(c) = PoolRunGrammar
    BY <1>7 DEF GrammarOf
  <2> QED
    BY <2>1 DEF PoolRunGrammar
<1>8. CASE c \in {<<"pool", "stats">>, <<"pool", "destroy">>}
  <2>1. GrammarOf(c) = PoolDirGrammar
    BY <1>8 DEF GrammarOf
  <2> QED
    BY <1>8, <2>1 DEF PoolDirGrammar
<1>9. CASE c \in {<<"vz-warm", "save">>, <<"vz-warm", "run">>}
  <2>1. GrammarOf(c) = VzWarmGrammar(c[2] = "run")
    BY <1>9 DEF GrammarOf
  <2> QED
    BY <2>1 DEF VzWarmGrammar
<1>10. CASE c \in {<<"vz-snapshot", "save">>, <<"vz-snapshot", "restore">>}
  <2>1. GrammarOf(c) = VzSnapGrammar(c[2] = "save")
    BY <1>10 DEF GrammarOf
  <2> QED
    BY <2>1 DEF VzSnapGrammar
<1> QED
  BY <1>1, <1>2, <1>3, <1>4, <1>5, <1>6, <1>7, <1>8, <1>9, <1>10 DEF Commands

\* A piece of a sequence.
LEMMA PieceFacts ==
    ASSUME NEW W, NEW l \in Seq(W), NEW m \in Nat, NEW n \in Nat,
           1 <= m, m <= n + 1, n <= Len(l)
    PROVE  /\ SubSeq(l, m, n) \in Seq(W)
           /\ Len(SubSeq(l, m, n)) = (n - m) + 1
           /\ \A i \in 1..((n - m) + 1) : SubSeq(l, m, n)[i] = l[(i + m) - 1]
OBVIOUS

\* The sequence without its head.
LEMMA TailFacts ==
    ASSUME NEW W, NEW l \in Seq(W), Len(l) > 0
    PROVE  /\ Tail(l) \in Seq(W)
           /\ Len(Tail(l)) = Len(l) - 1
           /\ \A i \in 1..(Len(l) - 1) : Tail(l)[i] = l[i + 1]
OBVIOUS

\* A sequence of some words is one of more words.
LEMMA SeqSubset ==
    ASSUME NEW V, NEW W, V \subseteq W, NEW l \in Seq(V)
    PROVE  l \in Seq(W)
OBVIOUS

\* What follows a separator does not ask for help.
LEMMA HelpInPrefix ==
    ASSUME NEW W, NEW x \in Seq(W), NEW y \in Seq(W), Len(y) <= Len(x),
           \A i \in 1..Len(y) : y[i] = x[i],
           Len(y) < Len(x) => x[Len(y) + 1] = "--"
    PROVE  ContainsHelp(x) <=> ContainsHelp(y)
<1>1. ASSUME NEW i \in 1..Len(x), x[i] \in Helps, \A j \in 1..i : x[j] # "--"
      PROVE  ContainsHelp(y)
  <2>1. i \in 1..Len(y)
    BY <1>1
  <2>2. \A j \in 1..i : y[j] = x[j]
    BY <2>1
  <2> QED
    BY <1>1, <2>1, <2>2 DEF ContainsHelp
<1>2. ASSUME NEW i \in 1..Len(y), y[i] \in Helps, \A j \in 1..i : y[j] # "--"
      PROVE  ContainsHelp(x)
  <2>1. i \in 1..Len(x)
    OBVIOUS
  <2>2. \A j \in 1..i : y[j] = x[j]
    OBVIOUS
  <2> QED
    BY <1>2, <2>1, <2>2 DEF ContainsHelp
<1>3. DOMAIN x = 1..Len(x) /\ DOMAIN y = 1..Len(y)
  OBVIOUS
<1> QED
  BY <1>1, <1>2, <1>3 DEF ContainsHelp

\* Which help run prints is settled before the separator.
LEMMA HelpBeforeSeparator ==
    ASSUME NEW W, NEW l \in Seq(W), Len(l) > 0, l[1] = "run", NEW n \in 1..Len(l),
           n = Len(l) \/ l[n + 1] = "--"
    PROVE  HelpText(l) = HelpText(SubSeq(l, 1, n))
<1> DEFINE Text(k) == IF ContainsHelp(Tail(k)) THEN <<"run">> ELSE <<>>
<1>1. ASSUME NEW k \in Seq(W), Len(k) > 0, k[1] = "run"
      PROVE  HelpText(k) = Text(k)
  <2>1. k # <<>> /\ k[1] \notin Helps /\ k[1] \in Flat /\ Nested(k[1]) = {}
    BY <1>1 DEF Helps, Flat, Nested
  <2> QED
    BY <1>1, <2>1 DEF HelpText
<1>2. PICK k : k = SubSeq(l, 1, n)
  BY Zenon
<1>3. k \in Seq(W) /\ Len(k) = n /\ \A i \in 1..n : k[i] = l[i]
  BY <1>2, PieceFacts
<1>4. PICK x, y : x = Tail(l) /\ y = Tail(k)
  BY Zenon
<1>5. /\ x \in Seq(W) /\ Len(x) = Len(l) - 1
      /\ \A i \in 1..(Len(l) - 1) : x[i] = l[i + 1]
  BY <1>4, TailFacts
<1>6. /\ y \in Seq(W) /\ Len(y) = n - 1
      /\ \A i \in 1..(n - 1) : y[i] = k[i + 1]
  BY <1>3, <1>4, TailFacts
<1>7. Len(y) <= Len(x) /\ \A i \in 1..Len(y) : y[i] = x[i]
  BY <1>3, <1>5, <1>6
<1>8. Len(y) < Len(x) => x[Len(y) + 1] = "--"
  BY <1>5, <1>6
<1>9. ContainsHelp(x) <=> ContainsHelp(y)
  BY <1>5, <1>6, <1>7, <1>8, HelpInPrefix
<1>10. HelpText(l) = Text(l) /\ HelpText(k) = Text(k)
  BY <1>1, <1>3
<1> QED
  BY <1>2, <1>4, <1>9, <1>10

\* The parsers read any line as it is written, however long it is and whatever
\* its tokens: they accept it just when it has a reading, they give each field
\* the value of the last of its flags in it and the guest what stands behind the
\* separator, and help_text looks no further than the separator.
THEOREM LineRead ==
    ASSUME NEW l \in Seq(STRING), Subcommand(l) \notin {<<>>, <<"ping">>}
    PROVE  LET g == GrammarOf(Subcommand(l))
               args == Arguments(l)
               s == Loop(g, args)
           IN  /\ (s.mode \in {"flags", "argv"}) <=> (Readings(g, args) # {})
               /\ \A r \in Readings(g, args) :
                     /\ \A o \in Fields(g) : s.opts[o] = Given(args, r, o)
                     /\ s.argv = SubSeq(args, r.sep + 1, Len(args))
                     /\ g.guest => HelpText(l) = HelpText(SubSeq(l, 1, r.sep))
<1>2. PICK c \in Commands : c = Subcommand(l) /\ c # <<"ping">>
  BY SubcommandIs
<1>3. PICK g : g = GrammarOf(c)
  OBVIOUS
<1>4. IsGrammar(g) /\ (g.guest => c = <<"run">>)
  BY <1>2, <1>3, GrammarsAre
<1>5. PICK args \in Seq(Words) : args = Arguments(l)
  <2>1. Len(c) \in 1..Len(l)
    BY <1>2 DEF Subcommand, Commands, Flat, Nested
  <2>2. l \in Seq(Words)
    <3>1. STRING \subseteq Words
      BY Zenon DEF Words
    <3> QED
      BY Zenon, <3>1, SeqSubset
  <2>3. SubSeq(l, Len(c) + 1, Len(l)) \in Seq(Words)
    BY <2>1, <2>2, PieceFacts
  <2>4. Arguments(l) = SubSeq(l, Len(c) + 1, Len(l))
    BY <1>2 DEF Arguments
  <2> QED
    BY Zenon, <2>3, <2>4
<1>6. (Loop(g, args).mode \in {"flags", "argv"}) <=> (Readings(g, args) # {})
  BY <1>4, AcceptedHasReading, ReadingIsRead
<1>7. ASSUME NEW r \in Readings(g, args)
      PROVE  /\ \A o \in Fields(g) : Loop(g, args).opts[o] = Given(args, r, o)
             /\ Loop(g, args).argv = SubSeq(args, r.sep + 1, Len(args))
             /\ g.guest => HelpText(l) = HelpText(SubSeq(l, 1, r.sep))
  <2>1. /\ \A o \in Fields(g) : Loop(g, args).opts[o] = Given(args, r, o)
        /\ Loop(g, args).argv = SubSeq(args, r.sep + 1, Len(args))
    BY <1>4, ReadingIsRead
  <2>2. ASSUME g.guest PROVE HelpText(l) = HelpText(SubSeq(l, 1, r.sep))
    <3>1. Subcommand(l) = <<"run">>
      BY <1>2, <1>4, <2>2
    <3>2. Len(l) > 0 /\ l[1] = "run"
      <4>1. CASE Len(l) > 0 /\ l[1] \in Flat
        BY <3>1, <4>1 DEF Subcommand
      <4>2. CASE ~(Len(l) > 0 /\ l[1] \in Flat)
        <5>1. Subcommand(l) = <<l[1], l[2]>> \/ Subcommand(l) = <<>>
          BY <4>2 DEF Subcommand
        <5> QED
          BY <3>1, <5>1
      <4> QED
        BY <4>1, <4>2
    <3>3. args = SubSeq(l, 2, Len(l))
      BY <1>5, <3>1 DEF Arguments
    <3>4. Len(args) + 1 = Len(l) /\ \A i \in 1..Len(args) : args[i] = l[i + 1]
      <4>1. PICK e \in Nat : e = Len(l) /\ 2 <= e + 1 /\ e <= Len(l)
        BY <3>2
      <4>2. 2 \in Nat /\ 1 <= 2
        OBVIOUS
      <4>3. /\ Len(SubSeq(l, 2, e)) = (e - 2) + 1
            /\ \A i \in 1..((e - 2) + 1) : SubSeq(l, 2, e)[i] = l[(i + 2) - 1]
        BY ONLY l \in Seq(STRING), e \in Nat, <4>1, <4>2, PieceFacts
      <4>4. \A i \in 1..((e - 2) + 1) : (i + 2) - 1 = i + 1
        OBVIOUS
      <4>5. Len(args) = (e - 2) + 1 /\ \A i \in 1..((e - 2) + 1) : args[i] = l[i + 1]
        BY <3>3, <4>1, <4>3, <4>4
      <4>6. (e - 2) + 1 + 1 = e
        OBVIOUS
      <4> QED
        BY <4>1, <4>5, <4>6
    <3>5. PICK n : n = r.sep
      OBVIOUS
    <3>6. n \in 1..(Len(args) + 1) /\ (n = Len(args) + 1 \/ args[n] = "--")
      BY <3>5, ReadingFacts
    <3>7. n \in 1..Len(l) /\ (n = Len(l) \/ l[n + 1] = "--")
      BY <3>4, <3>6
    <3> QED
      BY <3>2, <3>5, <3>7, HelpBeforeSeparator
  <2> QED
    BY <2>1, <2>2
<1> QED
  BY <1>2, <1>3, <1>5, <1>6, <1>7
=============================================================================
