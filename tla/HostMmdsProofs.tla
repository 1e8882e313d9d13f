--------------------------- MODULE HostMmdsProofs ---------------------------
(***************************************************************************)
(* The inductive invariant of HostMmds, for requests, responses and        *)
(* sequence spaces of any size, that the steps of the guest, of the link   *)
(* and of the responder keep it, and what it implies.                      *)
(*                                                                         *)
(* The argument is one about epochs: the SYNs of a fetch are all sent      *)
(* before anything else of it, the link keeps the order of frames, and the *)
(* client goes on only when a SYN-ACK has come.  So what is on the link    *)
(* from the fetch before is always ahead of the first SYN (or SYN-ACK) of  *)
(* this one, and by the time a frame of a request is processed the table   *)
(* holds the connection of its own fetch.                                  *)
(***************************************************************************)
EXTENDS HostMmds, TLAPS

(* What the frames of the two directions and the connection look like. *)

ChunkSet == [doc : Documents, index : 1..Chunks]

UpFrames ==
    [flag : {"syn", "ack", "data", "fin"}, seq : Seqs, ack : Seqs, load : Seq(Nat)]

DownFrames ==
    [flag : {"synack", "ack", "data", "fin"}, seq : Seqs, ack : Seqs,
     load : Seq(ChunkSet)]

Connections ==
    [next : Seqs, first : Seqs, request : Seq(Nat), response : Documents \cup {None}]

TypeOK ==
    /\ mmds \in Documents
    /\ conn \in Connections \cup {None}
    /\ lastIsn \in Seqs \cup {None}
    /\ up \in Seq(UpFrames)
    /\ down \in Seq(DownFrames)
    /\ client \in [st : {"closed", "syn", "est", "lastack", "done"}, len : ReqLens,
                   una : Nat, nxt : Nat, peer : Seqs \cup {None}, got : Seq(ChunkSet)]
    /\ since \subseteq Documents

InUp(flag) == \E i \in 1..Len(up) : up[i].flag = flag
InDown(flag) == \E i \in 1..Len(down) : down[i].flag = flag

\* The connection as a SYN leaves it.
Fresh ==
    conn # None =>
        conn.request = <<>> /\ conn.response = None /\ conn.next = RequestSeq(0)

\* What is left of the fetch before, then the SYNs of this one; and the same
\* of their answers.  Once a SYN-ACK is on its way nothing of the fetch before
\* is left.
Opening ==
    client.st = "syn" =>
        /\ \A i, j \in 1..Len(up) :
              i < j /\ up[i].flag = "syn" => up[j].flag = "syn"
        /\ \A i, j \in 1..Len(down) :
              i < j /\ down[i].flag = "synack" => down[j].flag = "synack"
        /\ InDown("synack") => Fresh /\ \A i \in 1..Len(up) : up[i].flag = "syn"

\* SYNs and their answers go before the other frames of a fetch, and there is
\* an answer to one of the others only when no SYN is left.
Established ==
    client.st \in {"est", "lastack", "done"} =>
        /\ \A i, j \in 1..Len(up) :
              i < j /\ up[i].flag # "syn" => up[j].flag # "syn"
        /\ \A i, j \in 1..Len(down) :
              i < j /\ down[i].flag # "synack" => down[j].flag # "synack"
        /\ (\E i \in 1..Len(down) : down[i].flag # "synack") => ~InUp("syn")
        /\ Received > 0 => ~InUp("syn") /\ ~InDown("synack")
        /\ client.peer \in Seqs

\* Between two fetches there is neither.
Closed ==
    /\ client.st \in {"closed", "done"} => ~InUp("syn") /\ ~InDown("synack")
    /\ client.st \in {"lastack", "done"} => Received > 0

Unit(n, i) == IF i = n THEN BlankLine ELSE i

\* f is a frame of a request of n units, of which (with its FIN) e are sent.
FrameOf(f, n, e) ==
    /\ f.load # <<>> =>
          /\ f.flag = "data"
          /\ \E a \in 0..n - 1 :
                /\ f.seq = RequestSeq(a)
                /\ a + Len(f.load) <= n /\ a + Len(f.load) <= e
                /\ \A i \in 1..Len(f.load) : f.load[i] = Unit(n, a + i)
    /\ f.flag = "fin" => f.seq = RequestSeq(n) /\ e = n + 1

\* c has taken a prefix of such a request.
PrefixOf(c, n, e) ==
    /\ Len(c.request) <= n
    /\ \A i \in 1..Len(c.request) : c.request[i] = Unit(n, i)
    /\ \E m \in {Len(c.request), n + 1} :
          /\ c.next = RequestSeq(m) /\ m <= e
          /\ m = n + 1 => Len(c.request) = n

\* So has the connection, which has its response exactly when that is all.
ConnOf(n, e) ==
    conn # None =>
        /\ PrefixOf(conn, n, e)
        /\ conn.response = None <=> Len(conn.request) < n

\* What the client has sent of its request, the FIN included.
Sent == client.nxt + (IF client.st \in {"lastack", "done"} THEN 1 ELSE 0)

RequestInv ==
    \E n \in ReqLens : \E e \in 0..n + 1 :
        /\ client.st # "syn" => n = client.len /\ e = Sent
        /\ ConnOf(n, e)
        /\ \A i \in 1..Len(up) : up[i].flag # "syn" => FrameOf(up[i], n, e)

\* f is a frame of the response to document d.
AnswerOf(f, d) ==
    f.load # <<>> =>
        \E j \in 1..Chunks :
            /\ f.load = <<Chunk(d, j)>>
            /\ f.seq = Plus(Plus(lastIsn, 1), j - 1)

\* The units of the response before the first one the client takes.
Skipped == Minus(client.peer, Plus(lastIsn, 1))

ResponseInv ==
    client.st \in {"est", "lastack", "done"} =>
        \E d \in since :
            /\ \A i \in 1..Received : client.got[i] = Chunk(d, Skipped + i)
            /\ \A i \in 1..Len(down) : AnswerOf(down[i], d)
            /\ conn # None => conn.response \in {d, None}

\* There is an answer only when all of the request has been sent.
AnswerInv ==
    /\ client.st \in {"est", "lastack", "done"}
    /\ Received > 0 \/ \E i \in 1..Len(down) : down[i].load # <<>>
    => client.nxt = client.len /\ (conn # None => conn.response # None)

SmallInv ==
    /\ conn # None => conn.first = lastIsn
    /\ client.st # "closed" => mmds \in since
    /\ client.st \in {"closed", "syn"} => client.got = <<>> /\ client.nxt = 0
    /\ client.una <= client.nxt /\ client.nxt <= client.len
    /\ \A i \in 1..Len(up) : up[i].flag = "syn" => up[i].seq = ClientIsn /\ up[i].load = <<>>
    /\ \A i \in 1..Len(down) : down[i].flag = "synack" => down[i].load = <<>>
    /\ Received > 0 => lastIsn # None
    /\ (\E i \in 1..Len(down) : down[i].load # <<>>) => lastIsn # None

\* The most that a frame of q may bring beyond its place on the link: the
\* further frames of a response.
Extra(f) == IF f.load # <<>> THEN Chunks - 1 ELSE 0

\* What the frames of q may bring together; w[i] is that of the frames from
\* the i-th on.
Brings(q, total) ==
    \E w \in [1..Len(q) + 1 -> Nat] :
        /\ total = w[1]
        /\ \A i \in 1..Len(q) : w[i] = w[i + 1] + Extra(q[i])
        /\ \A i \in 1..Len(q) + 1 : w[i] <= (Chunks - 1) * (Len(q) + 1 - i)

\* Every frame on the link, with the response a data frame may bring.
WeightInv ==
    \E total \in Nat :
        Brings(up, total) /\ Len(up) + Len(down) + total <= MaxFlight * Chunks

IInv ==
    /\ TypeOK /\ SmallInv /\ Opening /\ Established /\ Closed
    /\ RequestInv /\ ResponseInv /\ AnswerInv /\ WeightInv

-----------------------------------------------------------------------------
(* Arithmetic of the sequence space. *)

\* A length of a request leaves room in the sequence space.
LEMMA SpaceFacts ==
    /\ Modulus \in Nat /\ Modulus > 0
    /\ ClientIsn \in Seqs
    /\ \A n \in ReqLens : n \in Nat /\ n > 0 /\ n + 2 < Modulus /\ Chunks + 2 < Modulus
    /\ Chunks \in Nat /\ Chunks > 0
    /\ MaxFlight \in Nat /\ MaxRequest \in Nat
    /\ ServerIsns \subseteq Seqs
    /\ None \notin Documents /\ None \notin Seqs
BY HostMmdsAssumption DEF Seqs

\* The remainder of what is below twice the modulus.
LEMMA ModSplit ==
    ASSUME NEW M \in Nat, M > 0, NEW x \in Nat, x < 2 * M
    PROVE  x % M = IF x < M THEN x ELSE x - M
OBVIOUS

\* A remainder lies below the modulus.
LEMMA ModType ==
    ASSUME NEW M \in Nat, M > 0, NEW x \in Nat
    PROVE  x % M \in 0..M - 1
OBVIOUS

\* wrapping_add stays in the sequence space and wraps at most once.
LEMMA PlusValue ==
    ASSUME NEW a \in Seqs, NEW b \in Nat, b <= Modulus
    PROVE  /\ Plus(a, b) = IF a + b < Modulus THEN a + b ELSE a + b - Modulus
           /\ Plus(a, b) \in Seqs
BY SpaceFacts, ModSplit, ModType DEF Plus, Seqs

\* wrapping_sub stays in the sequence space and wraps at most once.
LEMMA MinusValue ==
    ASSUME NEW a \in Seqs, NEW b \in Seqs
    PROVE  /\ Minus(a, b) = IF a >= b THEN a - b ELSE a + Modulus - b
           /\ Minus(a, b) \in Seqs
BY SpaceFacts, ModSplit, ModType DEF Minus, Seqs

\* Sequence numbers of one request are told apart.
LEMMA RequestSeqValue ==
    ASSUME NEW i \in 0..Modulus - 1
    PROVE  /\ RequestSeq(i) = IF ClientIsn + i + 1 < Modulus THEN ClientIsn + i + 1
                              ELSE ClientIsn + i + 1 - Modulus
           /\ RequestSeq(i) \in Seqs
<1>1. ClientIsn \in Seqs /\ i + 1 \in Nat /\ i + 1 <= Modulus
  BY SpaceFacts
<1>2. /\ Plus(ClientIsn, i + 1) = IF ClientIsn + (i + 1) < Modulus THEN ClientIsn + (i + 1)
                                  ELSE ClientIsn + (i + 1) - Modulus
      /\ Plus(ClientIsn, i + 1) \in Seqs
  BY <1>1, PlusValue
<1> QED
  BY <1>1, <1>2, SpaceFacts DEF RequestSeq, Seqs

\* Two different units of a request have different sequence numbers.
LEMMA RequestSeqInjective ==
    ASSUME NEW i \in 0..Modulus - 1, NEW j \in 0..Modulus - 1,
           RequestSeq(i) = RequestSeq(j)
    PROVE  i = j
BY SpaceFacts, RequestSeqValue DEF Seqs

\* Adding m to the sequence number of unit i gives that of unit i + m.
LEMMA RequestSeqPlus ==
    ASSUME NEW i \in 0..Modulus - 1, NEW m \in 0..Modulus - 1, i + m < Modulus
    PROVE  Plus(RequestSeq(i), m) = RequestSeq(i + m)
<1>1. i + m \in 0..Modulus - 1
  BY SpaceFacts
<1>2. Plus(RequestSeq(i), m) = IF RequestSeq(i) + m < Modulus THEN RequestSeq(i) + m
                               ELSE RequestSeq(i) + m - Modulus
  BY SpaceFacts, PlusValue, RequestSeqValue
<1> QED
  BY <1>1, <1>2, SpaceFacts, RequestSeqValue DEF Seqs

\* The distance from the first unit is the number of units in between.
LEMMA RequestSeqDistance ==
    ASSUME NEW m \in 0..Modulus - 1
    PROVE  Minus(RequestSeq(m), RequestSeq(0)) = m
<1>1. 0 \in 0..Modulus - 1
  BY SpaceFacts
<1>2. RequestSeq(m) \in Seqs /\ RequestSeq(0) \in Seqs
  BY <1>1, RequestSeqValue
<1>3. RequestSeq(0) = IF ClientIsn + 1 < Modulus THEN ClientIsn + 1
                      ELSE ClientIsn + 1 - Modulus
  BY <1>1, RequestSeqValue, SpaceFacts DEF Seqs
<1> QED
  <2>1. Minus(RequestSeq(m), RequestSeq(0)) =
            IF RequestSeq(m) >= RequestSeq(0) THEN RequestSeq(m) - RequestSeq(0)
            ELSE RequestSeq(m) + Modulus - RequestSeq(0)
    BY <1>2, MinusValue
  <2>2. RequestSeq(m) = IF ClientIsn + m + 1 < Modulus THEN ClientIsn + m + 1
                        ELSE ClientIsn + m + 1 - Modulus
    BY RequestSeqValue
  <2> QED
    BY <1>2, <1>3, <2>1, <2>2, SpaceFacts DEF Seqs

\* Two counts from two starting points that meet differ by the distance of the
\* starting points.
LEMMA Meeting ==
    ASSUME NEW a \in Seqs, NEW b \in Seqs, NEW i \in 0..Modulus - 1,
           NEW j \in 0..Modulus - 1, Plus(a, i) = Plus(b, j),
           Minus(b, a) + j < Modulus
    PROVE  i = Minus(b, a) + j
<1>1. Plus(a, i) = IF a + i < Modulus THEN a + i ELSE a + i - Modulus
  BY SpaceFacts, PlusValue
<1>2. Plus(b, j) = IF b + j < Modulus THEN b + j ELSE b + j - Modulus
  BY SpaceFacts, PlusValue
<1>3. Minus(b, a) = IF b >= a THEN b - a ELSE b + Modulus - a
  BY MinusValue
<1>4. a \in Nat /\ a < Modulus /\ b \in Nat /\ b < Modulus /\ Modulus \in Nat
  BY SpaceFacts DEF Seqs
<1>5. i \in Nat /\ i < Modulus /\ j \in Nat /\ j < Modulus
  BY <1>4
<1>6. CASE b >= a
  <2>1. Minus(b, a) = b - a
    BY <1>3, <1>6
  <2> QED
    BY ONLY <1>1, <1>2, <1>4, <1>5, <1>6, <2>1, Plus(a, i) = Plus(b, j),
       Minus(b, a) + j < Modulus
<1>7. CASE ~(b >= a)
  <2>1. Minus(b, a) = b + Modulus - a
    BY <1>3, <1>7
  <2> QED
    BY ONLY <1>1, <1>2, <1>4, <1>5, <1>7, <2>1, Plus(a, i) = Plus(b, j),
       Minus(b, a) + j < Modulus
<1> QED
  BY <1>6, <1>7

-----------------------------------------------------------------------------
(* Queues: what is true of every frame stays true when one is taken off the *)
(* front; the frames that carry data are counted.                           *)

\* A sequence is a function on 1..Len with values in its set.
LEMMA SeqFacts ==
    ASSUME NEW S, NEW s \in Seq(S)
    PROVE  /\ Len(s) \in Nat /\ DOMAIN s = 1..Len(s)
           /\ s \in [1..Len(s) -> S]
           /\ \A i \in 1..Len(s) : s[i] \in S
           /\ s = <<>> <=> Len(s) = 0
OBVIOUS

\* Taking the head off moves every other element one place forward.
LEMMA TailFacts ==
    ASSUME NEW S, NEW q \in Seq(S), q # <<>>
    PROVE  /\ Len(q) \in Nat /\ Len(q) > 0 /\ Len(Tail(q)) = Len(q) - 1
           /\ Tail(q) \in Seq(S)
           /\ Head(q) = q[1] /\ Head(q) \in S
           /\ \A i \in 1..Len(Tail(q)) : i + 1 \in 1..Len(q) /\ Tail(q)[i] = q[i + 1]
OBVIOUS

\* Append adds one element at the end and moves nothing.
LEMMA AppendFacts ==
    ASSUME NEW S, NEW q \in Seq(S), NEW f \in S
    PROVE  /\ Len(q) \in Nat /\ Len(Append(q, f)) = Len(q) + 1
           /\ Append(q, f) \in Seq(S)
           /\ \A i \in 1..Len(q) + 1 :
                 Append(q, f)[i] = IF i = Len(q) + 1 THEN f ELSE q[i]
OBVIOUS

\* An element of s \o t is one of s, or one of t past the end of s.
LEMMA ConcatSplit ==
    ASSUME NEW S, NEW s \in Seq(S), NEW t \in Seq(S)
    PROVE  /\ s \o t \in Seq(S) /\ Len(s \o t) = Len(s) + Len(t)
           /\ \A i \in 1..Len(s) + Len(t) :
                 (s \o t)[i] = IF i <= Len(s) THEN s[i] ELSE t[i - Len(s)]
OBVIOUS

\* Concatenating one element keeps the others where they are.
LEMMA ExtendByOne ==
    ASSUME NEW S, NEW s \in Seq(S), NEW x \in S
    PROVE  /\ Len(s) \in Nat /\ s \o <<x>> \in Seq(S) /\ Len(s \o <<x>>) = Len(s) + 1
           /\ \A i \in 1..Len(s) : (s \o <<x>>)[i] = s[i]
           /\ (s \o <<x>>)[Len(s) + 1] = x
OBVIOUS

-----------------------------------------------------------------------------
(* Every step preserves the invariant: first the frames that go away. *)

\* What a frame may bring is a number of frames.
LEMMA ExtraType == ASSUME NEW f PROVE Extra(f) \in Nat
BY SpaceFacts DEF Extra

\* Without its first frame a queue brings less by what that frame brings.
LEMMA BringsTail ==
    ASSUME NEW S, NEW q \in Seq(S), q # <<>>, NEW total \in Nat, Brings(q, total)
    PROVE  \E rest \in Nat : Brings(Tail(q), rest) /\ total = rest + Extra(Head(q))
<1>t. PICK t \in Seq(S) : t = Tail(q)
  BY Zenon, TailFacts
<1>q. /\ Len(q) \in Nat /\ Len(q) > 0 /\ Len(t) = Len(q) - 1
      /\ \A i \in 1..Len(t) : t[i] = q[i + 1]
  BY <1>t, TailFacts
<1>n. PICK n \in Nat : n = Len(t)
  BY SeqFacts
<1>m. Len(q) = n + 1 /\ Len(q) + 1 = n + 2 /\ \A i \in 1..n : t[i] = q[i + 1]
  BY <1>n, <1>q
<1>1. PICK w \in [1..n + 2 -> Nat] :
        /\ total = w[1]
        /\ \A i \in 1..n + 1 : w[i] = w[i + 1] + Extra(q[i])
        /\ \A i \in 1..n + 2 : w[i] <= (Chunks - 1) * (n + 2 - i)
  <2>1. PICK w \in [1..Len(q) + 1 -> Nat] :
          /\ total = w[1]
          /\ \A i \in 1..Len(q) : w[i] = w[i + 1] + Extra(q[i])
          /\ \A i \in 1..Len(q) + 1 : w[i] <= (Chunks - 1) * (Len(q) + 1 - i)
    BY Zenon DEF Brings
  <2>2. w \in [1..n + 2 -> Nat]
    BY <2>1, <1>m
  <2>3. /\ total = w[1]
        /\ \A i \in 1..n + 1 : w[i] = w[i + 1] + Extra(q[i])
        /\ \A i \in 1..n + 2 : w[i] <= (Chunks - 1) * (n + 2 - i)
    BY ONLY <2>1, <1>m
  <2> QED
    BY Zenon, <2>2, <2>3
<1>i. \A i \in 1..n + 1 : i + 1 \in 1..n + 2 /\ w[i + 1] \in Nat
  OBVIOUS
<1>2. PICK v \in [1..n + 1 -> Nat] : \A i \in 1..n + 1 : v[i] = w[i + 1]
  <2>1. [i \in 1..n + 1 |-> w[i + 1]] \in [1..n + 1 -> Nat]
    BY <1>i
  <2> QED
    BY Zenon, <2>1
<1>3. \A i \in 1..n : v[i] = v[i + 1] + Extra(t[i])
  <2> SUFFICES ASSUME NEW i \in 1..n PROVE v[i] = v[i + 1] + Extra(t[i])
    OBVIOUS
  <2>1. i \in 1..n + 1 /\ i + 1 \in 1..n + 1 /\ t[i] = q[i + 1]
    BY <1>m
  <2>2. w[i + 1] = w[i + 1 + 1] + Extra(q[i + 1])
    BY <2>1, <1>1
  <2>3. v[i] = w[i + 1] /\ v[i + 1] = w[i + 1 + 1]
    BY <2>1, <1>2
  <2> QED
    BY <2>1, <2>2, <2>3
<1>4. \A i \in 1..n + 1 : v[i] <= (Chunks - 1) * (n + 1 - i)
  <2> SUFFICES ASSUME NEW i \in 1..n + 1 PROVE v[i] <= (Chunks - 1) * (n + 1 - i)
    OBVIOUS
  <2>1. n + 2 - (i + 1) = n + 1 - i
    OBVIOUS
  <2>2. w[i + 1] <= (Chunks - 1) * (n + 2 - (i + 1))
    BY <1>1, <1>i
  <2> QED
    BY <2>1, <2>2, <1>2
<1>5. v[1] \in Nat /\ Brings(t, v[1])
  <2>1. v[1] \in Nat
    BY <1>2
  <2>2. v \in [1..Len(t) + 1 -> Nat] /\ \A i \in 1..Len(t) : v[i] = v[i + 1] + Extra(t[i])
    BY <1>n, <1>3
  <2>3. \A i \in 1..Len(t) + 1 : v[i] <= (Chunks - 1) * (Len(t) + 1 - i)
    BY <1>n, <1>4
  <2> QED
    BY Zenon, <2>1, <2>2, <2>3 DEF Brings
<1>6. total = v[1] + Extra(Head(q))
  <2>1. Head(q) = q[1]
    BY TailFacts
  <2>2. v[1] = w[1 + 1] /\ w[1] = w[1 + 1] + Extra(q[1])
    BY <1>1, <1>2
  <2> QED
    BY <1>1, <2>1, <2>2
<1> QED
  BY <1>5, <1>6, <1>t

\* With one more frame it brings more by what that frame brings.
LEMMA BringsAppend ==
    ASSUME NEW S, NEW q \in Seq(S), NEW f \in S, NEW total \in Nat, Brings(q, total)
    PROVE  \E more \in Nat :
              /\ Brings(Append(q, f), more) /\ more = total + Extra(f)
              /\ more <= (Chunks - 1) * (Len(q) + 1)
<1>n. PICK n \in Nat : n = Len(q)
  BY SeqFacts
<1>a. PICK a \in Seq(S) : a = Append(q, f)
  BY Zenon, AppendFacts
<1>q. Len(a) = n + 1 /\ a[n + 1] = f /\ \A i \in 1..n : a[i] = q[i]
  <2>1. /\ Len(a) = Len(q) + 1
        /\ \A i \in 1..Len(q) + 1 : a[i] = IF i = Len(q) + 1 THEN f ELSE q[i]
    BY <1>a, AppendFacts
  <2>2. Len(a) = n + 1 /\ \A i \in 1..n + 1 : a[i] = IF i = n + 1 THEN f ELSE q[i]
    BY <2>1, <1>n
  <2> QED
    BY ONLY <2>2, n \in Nat
<1>x. PICK x \in Nat : x = Extra(f) /\ x <= Chunks - 1
  BY SpaceFacts DEF Extra
<1>c. PICK c \in Nat : c = Chunks - 1
  BY SpaceFacts
<1>1. PICK w \in [1..n + 1 -> Nat] :
        /\ total = w[1]
        /\ \A i \in 1..n : w[i] = w[i + 1] + Extra(q[i])
        /\ \A i \in 1..n + 1 : w[i] <= c * (n + 1 - i)
  BY Zenon, <1>n, <1>c DEF Brings
<1>w. w[n + 1] = 0
  <2>1. w[n + 1] <= c * (n + 1 - (n + 1)) /\ w[n + 1] \in Nat
    BY <1>1
  <2>2. c * (n + 1 - (n + 1)) = 0
    OBVIOUS
  <2> QED
    BY <2>1, <2>2
<1>2. PICK v \in [1..n + 2 -> Nat] :
         v[n + 2] = 0 /\ \A i \in 1..n + 1 : v[i] = w[i] + x
  <2>1. \A i \in 1..n + 2 : (IF i = n + 2 THEN 0 ELSE w[i] + x) \in Nat
    OBVIOUS
  <2>2. PICK v \in [1..n + 2 -> Nat] : v = [i \in 1..n + 2 |-> IF i = n + 2 THEN 0 ELSE w[i] + x]
    BY Zenon, <2>1
  <2>3. v[n + 2] = 0
    BY <2>2
  <2>4. \A i \in 1..n + 1 : v[i] = w[i] + x
    BY <2>2
  <2> QED
    BY Zenon, <2>3, <2>4
<1>3. \A i \in 1..n + 1 : v[i] = v[i + 1] + Extra(a[i])
  <2> SUFFICES ASSUME NEW i \in 1..n + 1 PROVE v[i] = v[i + 1] + Extra(a[i])
    OBVIOUS
  <2>1. CASE i = n + 1
    <3>1. i + 1 = n + 2 /\ a[i] = f
      BY <2>1, <1>q
    <3>2. v[i] = 0 + x /\ v[i + 1] = 0
      BY <2>1, <3>1, <1>2, <1>w
    <3> QED
      BY <3>1, <3>2, <1>x
  <2>2. CASE i \in 1..n
    <3>1. i + 1 \in 1..n + 1 /\ a[i] = q[i]
      BY <2>2, <1>q
    <3>2. v[i] = w[i] + x /\ v[i + 1] = w[i + 1] + x
      BY <3>1, <1>2
    <3>3. PICK y : y = Extra(a[i])
      OBVIOUS
    <3>4. y \in Nat
      BY <3>3, SpaceFacts DEF Extra
    <3>5. w[i] = w[i + 1] + y /\ w[i] \in Nat /\ w[i + 1] \in Nat
      BY <2>2, <3>1, <3>3, <1>1
    <3>6. \A z \in Nat : z + y + x = z + x + y
      BY <3>4
    <3>7. w[i + 1] + y + x = w[i + 1] + x + y
      BY Zenon, <3>5, <3>6
    <3>8. v[i] = v[i + 1] + y
      BY <3>2, <3>5, <3>7
    <3> QED
      BY <3>3, <3>8
  <2> QED
    BY <2>1, <2>2
<1>4. \A i \in 1..n + 2 : v[i] <= c * (n + 2 - i)
  <2> SUFFICES ASSUME NEW i \in 1..n + 2 PROVE v[i] <= c * (n + 2 - i)
    OBVIOUS
  <2>1. CASE i = n + 2
    <3>1. n + 2 - i = 0 /\ v[i] = 0
      BY <2>1, <1>2
    <3> QED
      BY <3>1
  <2>2. CASE i \in 1..n + 1
    <3>1. PICK k \in Nat : k = n + 1 - i /\ n + 2 - i = k + 1
      BY <2>2
    <3>2. PICK u \in Nat : u = w[i] /\ v[i] = u + x /\ u <= c * k
      BY Zenon, <2>2, <3>1, <1>1, <1>2
    <3>3. PICK m \in Nat : m = c * k /\ c * (k + 1) = m + c
      OBVIOUS
    <3>4. x <= c
      BY <1>x, <1>c
    <3>5. u + x <= m + c
      <4>1. u <= m
        BY ONLY <3>2, <3>3
      <4> QED
        BY ONLY <4>1, <3>4, <1>x, <1>c, u \in Nat, m \in Nat
    <3> QED
      BY <3>1, <3>2, <3>3, <3>5
  <2> QED
    BY <2>1, <2>2
<1>5. v[1] \in Nat /\ Brings(a, v[1])
  <2>1. v[1] \in Nat
    BY <1>2
  <2>2. Len(a) + 1 = n + 2
    BY <1>q
  <2>3. v \in [1..Len(a) + 1 -> Nat] /\ \A i \in 1..Len(a) : v[i] = v[i + 1] + Extra(a[i])
    BY Zenon, <2>2, <1>q, <1>3
  <2>4. \A i \in 1..Len(a) + 1 : v[i] <= (Chunks - 1) * (Len(a) + 1 - i)
    <3> SUFFICES ASSUME NEW i \in 1..Len(a) + 1
                 PROVE  v[i] <= (Chunks - 1) * (Len(a) + 1 - i)
      OBVIOUS
    <3>1. i \in 1..n + 2 /\ Len(a) + 1 - i = n + 2 - i
      BY <2>2
    <3>2. v[i] <= c * (n + 2 - i)
      BY <3>1, <1>4
    <3> QED
      BY ONLY Zenon, <3>1, <3>2, <1>c
  <2> QED
    BY Zenon, <2>1, <2>3, <2>4 DEF Brings
<1>6. v[1] = total + x
  BY <1>1, <1>2
<1>7. v[1] <= (Chunks - 1) * (Len(q) + 1)
  <2>1. v[1] <= c * (n + 2 - 1) /\ n + 2 - 1 = n + 1
    BY <1>4
  <2> QED
    BY <2>1, <1>c, <1>n
<1> QED
  BY <1>5, <1>6, <1>7, <1>a, <1>x

\* A frame on its way to the responder that goes away breaks nothing.
LEMMA DropUp ==
    ASSUME IInv, up # <<>>, up' = Tail(up),
           UNCHANGED <<mmds, conn, lastIsn, down, client, since>>
    PROVE  IInv'
<1> USE DEF IInv
<1>q. /\ Len(up) \in Nat /\ Len(up) > 0 /\ Len(up') = Len(up) - 1
      /\ up' \in Seq(UpFrames)
      /\ Head(up) = up[1]
      /\ \A i \in 1..Len(up') : i + 1 \in 1..Len(up) /\ up'[i] = up[i + 1]
  BY TailFacts DEF TypeOK
<1>u. \A i \in 1..Len(up') : \E j \in 1..Len(up) : up'[i] = up[j]
  BY <1>q
<1>s. InUp("syn")' => InUp("syn")
  BY <1>u DEF InUp
<1>d. \A flag : InDown(flag)' = InDown(flag)
  BY DEF InDown
<1>1. TypeOK'
  BY <1>q DEF TypeOK
<1>2. SmallInv'
  BY <1>u DEF SmallInv, Received
<1>3. Opening'
  <2> SUFFICES ASSUME client.st = "syn" PROVE Opening'
    BY DEF Opening
  <2>1. \A i, j \in 1..Len(up') : i < j /\ up'[i].flag = "syn" => up'[j].flag = "syn"
    BY <1>q DEF Opening
  <2>2. (\A i \in 1..Len(up) : up[i].flag = "syn") => \A i \in 1..Len(up') : up'[i].flag = "syn"
    BY <1>u
  <2> QED
    BY <2>1, <2>2, <1>d DEF Opening, Fresh
<1>4. Established'
  <2>1. client.st \in {"est", "lastack", "done"} =>
          \A i, j \in 1..Len(up') : i < j /\ up'[i].flag # "syn" => up'[j].flag # "syn"
    BY <1>q DEF Established
  <2> QED
    BY <2>1, <1>s, <1>d DEF Established, Received
<1>5. Closed'
  BY <1>s, <1>d DEF Closed, Received
<1>6. RequestInv'
  <2>1. PICK n \in ReqLens : \E e \in 0..n + 1 :
        /\ client.st # "syn" => n = client.len /\ e = Sent
        /\ ConnOf(n, e)
        /\ \A i \in 1..Len(up) : up[i].flag # "syn" => FrameOf(up[i], n, e)
    BY DEF RequestInv
  <2>2. PICK e \in 0..n + 1 :
        /\ client.st # "syn" => n = client.len /\ e = Sent
        /\ ConnOf(n, e)
        /\ \A i \in 1..Len(up) : up[i].flag # "syn" => FrameOf(up[i], n, e)
    BY <2>1
  <2>3. ConnOf(n, e)' /\ Sent' = Sent
    BY <2>2 DEF ConnOf, Sent
  <2>4. \A i \in 1..Len(up') : up'[i].flag # "syn" => FrameOf(up'[i], n, e)
    BY <2>2, <1>u
  <2> QED
    BY <2>2, <2>3, <2>4 DEF RequestInv
<1>7. ResponseInv'
  BY DEF ResponseInv, Received, Skipped, AnswerOf
<1>8. AnswerInv'
  BY DEF AnswerInv, Received
<1>9. WeightInv'
  <2>1. PICK total \in Nat : Brings(up, total) /\ Len(up) + Len(down) + total <= MaxFlight * Chunks
    BY DEF WeightInv
  <2>t. PICK rest \in Nat : Brings(up', rest) /\ total = rest + Extra(Head(up))
    BY <2>1, BringsTail DEF TypeOK
  <2>2. Brings(up', rest) /\ rest <= total
    BY <2>t, ExtraType
  <2>3. Len(down) \in Nat /\ MaxFlight * Chunks \in Nat
    BY SeqFacts, SpaceFacts DEF TypeOK
  <2>4. Len(up') + Len(down') + rest <= MaxFlight * Chunks
    BY <2>1, <2>2, <2>3, <1>q
  <2> QED
    BY <2>2, <2>4 DEF WeightInv
<1> QED
  BY <1>1, <1>2, <1>3, <1>4, <1>5, <1>6, <1>7, <1>8, <1>9

\* A frame on its way to the guest may go away, acknowledging or not.
LEMMA DropDown ==
    ASSUME IInv, down # <<>>, down' = Tail(down),
           UNCHANGED <<mmds, conn, lastIsn, up, since>>,
           client' \in [st : {client.st, "done"}, len : {client.len}, una : 0..client.nxt,
                        nxt : {client.nxt}, peer : {client.peer}, got : {client.got}],
           client'.st # client.st => client.st = "lastack"
    PROVE  IInv'
<1>l. /\ client'.len = client.len /\ client'.una \in 0..client.nxt /\ client'.nxt = client.nxt
      /\ client'.peer = client.peer /\ client'.got = client.got
      /\ client'.st = client.st \/ (client.st = "lastack" /\ client'.st = "done")
  <2>1. client'.st \in {client.st, "done"}
    OBVIOUS
  <2>2. client'.st = client.st \/ (client.st = "lastack" /\ client'.st = "done")
    BY ONLY <2>1, client'.st # client.st => client.st = "lastack"
  <2>3. /\ client'.len = client.len /\ client'.una \in 0..client.nxt /\ client'.nxt = client.nxt
        /\ client'.peer = client.peer /\ client'.got = client.got
    OBVIOUS
  <2> QED
    BY <2>2, <2>3
<1> USE DEF IInv
<1>r. Received' = Received
  BY <1>l DEF Received
<1>q. /\ Len(down) \in Nat /\ Len(down) > 0 /\ Len(down') = Len(down) - 1
      /\ down' \in Seq(DownFrames)
      /\ \A i \in 1..Len(down') : i + 1 \in 1..Len(down) /\ down'[i] = down[i + 1]
  BY TailFacts DEF TypeOK
<1>u. \A i \in 1..Len(down') : \E j \in 1..Len(down) : down'[i] = down[j]
  BY <1>q
<1>s. InDown("synack")' => InDown("synack")
  BY <1>u DEF InDown
<1>d. InUp("syn")' = InUp("syn")
  BY DEF InUp
<1>1. TypeOK'
  <2>1. /\ client'.st \in {"closed", "syn", "est", "lastack", "done"} /\ client'.una \in Nat
        /\ client.len \in ReqLens /\ client.nxt \in Nat /\ client.peer \in Seqs \cup {None}
        /\ client.got \in Seq(ChunkSet)
    BY <1>l DEF TypeOK
  <2> QED
    BY <2>1, <1>q, <1>l DEF TypeOK
<1>2. SmallInv'
  <2>1. client'.una <= client'.nxt /\ client'.nxt <= client'.len
    BY <1>l DEF TypeOK, SmallInv
  <2> QED
    BY <2>1, <1>u, <1>l, <1>r DEF SmallInv
<1>3. Opening'
  <2>1. client.st = "syn" =>
          \A i, j \in 1..Len(down') : i < j /\ down'[i].flag = "synack" => down'[j].flag = "synack"
    BY <1>q DEF Opening
  <2> QED
    BY <2>1, <1>s, <1>l DEF Opening, Fresh
<1>4. Established'
  <2>1. client.st \in {"est", "lastack", "done"} =>
          \A i, j \in 1..Len(down') : i < j /\ down'[i].flag # "synack" => down'[j].flag # "synack"
    BY <1>q DEF Established
  <2>2. (\E i \in 1..Len(down') : down'[i].flag # "synack") => \E i \in 1..Len(down) : down[i].flag # "synack"
    BY <1>u
  <2> QED
    BY <2>1, <2>2, <1>s, <1>d, <1>l, <1>r DEF Established
<1>5. Closed'
  BY <1>s, <1>d, <1>l, <1>r DEF Closed, Established
<1>6. RequestInv'
  <2>1. /\ client'.st = "syn" <=> client.st = "syn"
        /\ client.st # "syn" => \/ Sent' = Sent
                                \/ client.st = "lastack" /\ client'.st = "done"
    BY <1>l DEF Sent
  <2>2. Sent' = Sent
    BY <1>l DEF Sent
  <2> QED
    BY <2>1, <2>2, <1>l DEF RequestInv, ConnOf
<1>7. ResponseInv'
  <2> SUFFICES ASSUME client.st \in {"est", "lastack", "done"} PROVE ResponseInv'
    BY <1>l DEF ResponseInv
  <2>1. PICK d \in since :
            /\ \A i \in 1..Received : client.got[i] = Chunk(d, Skipped + i)
            /\ \A i \in 1..Len(down) : AnswerOf(down[i], d)
            /\ conn # None => conn.response \in {d, None}
    BY DEF ResponseInv
  <2>2. Skipped' = Skipped
    BY <1>l DEF Skipped
  <2>3. \A i \in 1..Len(down') : AnswerOf(down[i], d)'
    BY <2>1, <1>q DEF AnswerOf
  <2>4. \A i \in 1..Received' : client'.got[i] = Chunk(d, Skipped' + i)
    BY <2>1, <2>2, <1>l, <1>r
  <2> QED
    BY <2>1, <2>3, <2>4 DEF ResponseInv
<1>8. AnswerInv'
  BY <1>u, <1>l, <1>r DEF AnswerInv
<1>9. WeightInv'
  <2>1. PICK total \in Nat : Brings(up, total) /\ Len(up) + Len(down) + total <= MaxFlight * Chunks
    BY DEF WeightInv
  <2>2. Len(up) \in Nat /\ MaxFlight * Chunks \in Nat
    BY SeqFacts, SpaceFacts DEF TypeOK
  <2>3. Len(up') + Len(down') + total <= MaxFlight * Chunks
    BY <2>1, <2>2, <1>q
  <2> QED
    BY <2>1, <2>3 DEF WeightInv
<1> QED
  BY <1>1, <1>2, <1>3, <1>4, <1>5, <1>6, <1>7, <1>8, <1>9

\* More sent makes no frame and no connection wrong.
LEMMA SentGrows ==
    ASSUME NEW n \in Nat, NEW e \in 0..n + 1, NEW g \in 0..n + 1, e <= g
    PROVE  /\ ConnOf(n, e) => ConnOf(n, g)
           /\ \A f \in UpFrames : FrameOf(f, n, e) => FrameOf(f, n, g)
<1>1. ConnOf(n, e) => ConnOf(n, g)
  <2> SUFFICES ASSUME ConnOf(n, e), conn # None PROVE ConnOf(n, g)
    BY DEF ConnOf
  <2>1. PICK m \in {Len(conn.request), n + 1} :
              /\ conn.next = RequestSeq(m) /\ m <= e
              /\ m = n + 1 => Len(conn.request) = n
    BY DEF ConnOf, PrefixOf
  <2>2. CASE m = n + 1
    BY <2>1, <2>2 DEF ConnOf, PrefixOf
  <2>3. CASE m = Len(conn.request) /\ m # n + 1
    BY <2>1, <2>3 DEF ConnOf, PrefixOf
  <2> QED
    BY <2>1, <2>2, <2>3
<1>2. ASSUME NEW f \in UpFrames, FrameOf(f, n, e)
      PROVE  FrameOf(f, n, g)
  <2>1. f.load \in Seq(Nat) /\ Len(f.load) \in Nat
    BY SeqFacts DEF UpFrames
  <2>2. f.load # <<>> => \E a \in 0..n - 1 :
                /\ f.seq = RequestSeq(a)
                /\ a + Len(f.load) <= n /\ a + Len(f.load) <= g
                /\ \A i \in 1..Len(f.load) : f.load[i] = Unit(n, a + i)
    BY <1>2, <2>1 DEF FrameOf
  <2> QED
    BY <1>2, <2>2 DEF FrameOf
<1> QED
  BY <1>1, <1>2

\* Expiry: the responder forgets an idle connection.
LEMMA ExpireStep == IInv /\ Expire => IInv'
<1> SUFFICES ASSUME IInv, Expire PROVE IInv'
  OBVIOUS
<1> USE DEF IInv, Expire
<1>1. TypeOK' /\ SmallInv' /\ WeightInv'
  BY DEF TypeOK, SmallInv, WeightInv, Received
<1>2. Opening' /\ Established' /\ Closed'
  BY DEF Opening, Established, Closed, Fresh, InUp, InDown, Received
<1>3. RequestInv'
  BY DEF RequestInv, ConnOf, Sent
<1>4. ResponseInv' /\ AnswerInv'
  BY DEF ResponseInv, AnswerInv, Received, Skipped, AnswerOf
<1> QED
  BY <1>1, <1>2, <1>3, <1>4

\* A new document (PUT or PATCH /mmds) while a fetch may be in progress.
LEMMA UpdateStep == ASSUME NEW d \in Documents, IInv, UpdateMmds(d) PROVE IInv'
<1> USE DEF IInv, UpdateMmds
<1>1. TypeOK' /\ SmallInv' /\ WeightInv'
  BY DEF TypeOK, SmallInv, WeightInv, Received
<1>2. Opening' /\ Established' /\ Closed'
  BY DEF Opening, Established, Closed, Fresh, InUp, InDown, Received
<1>3. RequestInv'
  BY DEF RequestInv, ConnOf, Sent
<1>4. ResponseInv' /\ AnswerInv'
  BY DEF ResponseInv, AnswerInv, Received, Skipped, AnswerOf
<1> QED
  BY <1>1, <1>2, <1>3, <1>4

\* Room for one more frame of the client, whatever it may bring.
LEMMA RoomForOne ==
    ASSUME IInv, Room, NEW f \in UpFrames, up' = Append(up, f), down' = down
    PROVE  WeightInv'
<1>1. Len(up) \in Nat /\ Len(down) \in Nat /\ Len(up') = Len(up) + 1
  BY SeqFacts, AppendFacts DEF IInv, TypeOK
<1>2. PICK more \in Nat : Brings(up', more) /\ more <= (Chunks - 1) * (Len(up) + 1)
  BY BringsAppend DEF IInv, TypeOK, WeightInv
<1>3. Len(up) + 1 + Len(down) <= MaxFlight
  BY <1>1, SpaceFacts DEF Room
<1>4. (Chunks - 1) * (Len(up) + 1) <= (Chunks - 1) * MaxFlight - (Chunks - 1) * Len(down)
  BY <1>1, <1>3, SpaceFacts
<1>5. (Chunks - 1) * Len(down) \in Nat /\ (Chunks - 1) * MaxFlight + MaxFlight = MaxFlight * Chunks
  BY <1>1, SpaceFacts
<1>6. Len(up') + Len(down') + more <= MaxFlight * Chunks
  BY <1>1, <1>2, <1>3, <1>4, <1>5, SpaceFacts
<1> QED
  BY <1>2, <1>6 DEF WeightInv

\* The guest opens its socket: a SYN with nothing received yet.
LEMMA OpenStep == IInv /\ OpenSocket => IInv'
<1> SUFFICES ASSUME IInv, OpenSocket PROVE IInv'
  OBVIOUS
<1> DEFINE f == Frame("syn", ClientIsn, 0, <<>>)
<1>f. /\ f \in UpFrames /\ f.flag = "syn" /\ f.seq = ClientIsn /\ f.load = <<>>
  BY SpaceFacts DEF UpFrames, Frame, Seqs
<1> HIDE DEF f
<1>c. /\ client.st \in {"closed", "done"} /\ Room
      /\ up' = Append(up, f) /\ since' = {mmds}
      /\ UNCHANGED <<mmds, conn, lastIsn, down, losses>>
  BY DEF OpenSocket, f
<1>l. /\ client' \in [st : {"closed", "syn", "est", "lastack", "done"}, len : ReqLens,
                   una : Nat, nxt : Nat, peer : Seqs \cup {None}, got : Seq(ChunkSet)]
      /\ client'.st = "syn" /\ client'.got = <<>> /\ client'.nxt = 0 /\ client'.una = 0
  <2>1. client' \in [st : {"syn"}, len : ReqLens, una : {0}, nxt : {0},
                      peer : {None}, got : {<<>>}]
    BY DEF OpenSocket
  <2>2. <<>> \in Seq(ChunkSet)
    OBVIOUS
  <2>3. PICK n \in ReqLens :
          client' = [st |-> "syn", len |-> n, una |-> 0, nxt |-> 0, peer |-> None, got |-> <<>>]
    BY <2>1
  <2> QED
    BY <2>2, <2>3
<1>q. /\ Len(up) \in Nat /\ Len(up') = Len(up) + 1 /\ up' \in Seq(UpFrames)
      /\ \A i \in 1..Len(up) + 1 : up'[i] = IF i = Len(up) + 1 THEN f ELSE up[i]
  BY <1>c, <1>f, AppendFacts DEF IInv, TypeOK
<1>r. Received' = 0
  BY <1>l DEF Received
<1>n. ~InUp("syn") /\ ~InDown("synack")
  BY <1>c DEF IInv, Closed
<1>1. TypeOK'
  BY <1>c, <1>l, <1>q DEF IInv, TypeOK
<1>2. SmallInv'
  <2>1. client'.una <= client'.nxt /\ client'.nxt <= client'.len
    BY <1>l, SpaceFacts
  <2>2. \A i \in 1..Len(up') : up'[i].flag = "syn" => up'[i].seq = ClientIsn /\ up'[i].load = <<>>
    BY <1>q, <1>f DEF IInv, SmallInv
  <2> QED
    BY <2>1, <2>2, <1>c, <1>l, <1>r DEF IInv, SmallInv
<1>3. Opening'
  <2>1. \A i, j \in 1..Len(up') : i < j /\ up'[i].flag = "syn" => up'[j].flag = "syn"
    BY <1>q, <1>n DEF InUp
  <2>2. ~InDown("synack")' /\ \A i \in 1..Len(down') : down'[i].flag # "synack"
    BY <1>n, <1>c DEF InDown
  <2> QED
    BY <2>1, <2>2 DEF Opening
<1>4. Established' /\ Closed' /\ ResponseInv' /\ AnswerInv'
  BY <1>l DEF Established, Closed, ResponseInv, AnswerInv
<1>5. RequestInv'
  <2>1. PICK n \in ReqLens : \E e \in 0..n + 1 :
        /\ ConnOf(n, e)
        /\ \A i \in 1..Len(up) : up[i].flag # "syn" => FrameOf(up[i], n, e)
    BY DEF IInv, RequestInv
  <2>2. PICK e \in 0..n + 1 :
        /\ ConnOf(n, e)
        /\ \A i \in 1..Len(up) : up[i].flag # "syn" => FrameOf(up[i], n, e)
    BY <2>1
  <2>3. ConnOf(n, e)'
    BY <2>2, <1>c DEF ConnOf
  <2>4. \A i \in 1..Len(up') : up'[i].flag # "syn" => FrameOf(up'[i], n, e)
    BY <2>2, <1>q, <1>f
  <2> QED
    BY <2>3, <2>4, <1>l DEF RequestInv
<1>6. WeightInv'
  BY <1>c, <1>f, RoomForOne
<1> QED
  BY <1>1, <1>2, <1>3, <1>4, <1>5, <1>6 DEF IInv

-----------------------------------------------------------------------------
(* The client puts a frame of its request, or an acknowledgement, on the link. *)

\* A socket described more closely is still a socket.
LEMMA ClientSubset ==
    ASSUME NEW A1, NEW A2, NEW B1, NEW B2, NEW C1, NEW C2, NEW D1, NEW D2,
           NEW E1, NEW E2, NEW F1, NEW F2,
           A1 \subseteq A2, B1 \subseteq B2, C1 \subseteq C2, D1 \subseteq D2,
           E1 \subseteq E2, F1 \subseteq F2
    PROVE  [st : A1, len : B1, una : C1, nxt : D1, peer : E1, got : F1] \subseteq
               [st : A2, len : B2, una : C2, nxt : D2, peer : E2, got : F2]
OBVIOUS

\* The guest sends f, possibly in answer to a frame it takes off the link.
Pushes(f) ==
    /\ client.st \in {"est", "lastack"} /\ f.flag # "syn" /\ up' = Append(up, f)
    /\ UNCHANGED <<mmds, conn, lastIsn, since>>
    /\ \/ down' = down /\ Room
       \/ down # <<>> /\ down' = Tail(down) /\ f.load = <<>>
    /\ client' \in [st : {"est", "lastack"}, len : {client.len}, una : Nat,
                    nxt : 0..client.len, peer : {client.peer}, got : Seq(ChunkSet)]
    /\ client'.nxt >= client.nxt /\ client'.una <= client'.nxt
    /\ Received' >= Received
    /\ \/ Received' = Received
       \/ down # <<>> /\ down' = Tail(down) /\ Head(down).load # <<>>
    /\ \A d \in Documents :
           /\ \A i \in 1..Received : client.got[i] = Chunk(d, Skipped + i)
           /\ down # <<>> => AnswerOf(Head(down), d)
           => \A i \in 1..Received' : client'.got[i] = Chunk(d, Skipped + i)
    /\ client'.st = "lastack" => Received > 0 /\ client'.nxt = client.len
    /\ client.st = "lastack" => client'.st = "lastack"
    /\ FrameOf(f, client.len, Sent')

\* What the guest sends, in answer or not, preserves the invariant.
LEMMA PushAndTake ==
    ASSUME IInv, NEW f \in UpFrames, Pushes(f)
    PROVE  IInv'
<1>a. /\ client.st \in {"est", "lastack"} /\ f.flag # "syn" /\ up' = Append(up, f)
      /\ UNCHANGED <<mmds, conn, lastIsn, since>>
      /\ FrameOf(f, client.len, Sent')
  BY Zenon DEF Pushes
<1>b. \/ down' = down /\ Room
      \/ down # <<>> /\ down' = Tail(down) /\ f.load = <<>>
  BY Zenon DEF Pushes
<1>x. client' \in [st : {"est", "lastack"}, len : {client.len}, una : Nat,
                   nxt : 0..client.len, peer : {client.peer}, got : Seq(ChunkSet)]
  BY Zenon DEF Pushes
<1>m. /\ client'.nxt >= client.nxt /\ client'.una <= client'.nxt /\ Received' >= Received
      /\ client'.st = "lastack" => Received > 0 /\ client'.nxt = client.len
      /\ client.st = "lastack" => client'.st = "lastack"
  BY Zenon DEF Pushes
<1>k. \/ Received' = Received
      \/ down # <<>> /\ down' = Tail(down) /\ Head(down).load # <<>>
  BY Zenon DEF Pushes
<1>y. \A d \in Documents :
          /\ \A i \in 1..Received : client.got[i] = Chunk(d, Skipped + i)
          /\ down # <<>> => AnswerOf(Head(down), d)
          => \A i \in 1..Received' : client'.got[i] = Chunk(d, Skipped + i)
  BY Zenon DEF Pushes
<1>l. /\ client'.len = client.len /\ client'.una \in Nat /\ client'.peer = client.peer
      /\ client'.got \in Seq(ChunkSet) /\ client'.st \in {"est", "lastack"}
      /\ client'.nxt \in 0..client.len
  BY <1>x
<1>t. /\ client.len \in ReqLens /\ client.len \in Nat /\ client.nxt \in Nat /\ client.una \in Nat
      /\ client.peer \in Seqs \cup {None} /\ client.got \in Seq(ChunkSet)
  BY SpaceFacts DEF IInv, TypeOK
<1>r. Received \in Nat /\ Received' \in Nat
  BY <1>l, <1>t, SeqFacts DEF Received
<1>q. /\ Len(up) \in Nat /\ Len(up') = Len(up) + 1 /\ up' \in Seq(UpFrames)
      /\ \A i \in 1..Len(up) + 1 : up'[i] = IF i = Len(up) + 1 THEN f ELSE up[i]
  <2>1. up \in Seq(UpFrames)
    BY Zenon DEF IInv, TypeOK
  <2> QED
    BY <2>1, <1>a, AppendFacts
<1>d. /\ down' \in Seq(DownFrames) /\ Len(down') \in Nat
      /\ \E t \in 0..1 : \A i \in 1..Len(down') :
             i + t \in 1..Len(down) /\ down'[i] = down[i + t]
  <2>0. down \in Seq(DownFrames)
    BY Zenon DEF IInv, TypeOK
  <2>1. CASE down' = down
    BY <2>0, <2>1, SeqFacts
  <2>2. CASE down # <<>> /\ down' = Tail(down)
    <3>1. /\ down' \in Seq(DownFrames) /\ Len(down') \in Nat
          /\ \A i \in 1..Len(down') : i + 1 \in 1..Len(down) /\ down'[i] = down[i + 1]
      BY <2>0, <2>2, TailFacts, SeqFacts
    <3>2. 1 \in 0..1
      OBVIOUS
    <3> QED
      BY Zenon, <3>1, <3>2
  <2> QED
    BY Zenon, <2>1, <2>2, <1>b
<1>p. PICK t \in 0..1 : \A i \in 1..Len(down') :
             i + t \in 1..Len(down) /\ down'[i] = down[i + t]
  BY Zenon, <1>d
<1>s. /\ InUp("syn")' => InUp("syn")
      /\ InDown("synack")' => InDown("synack")
      /\ (\E i \in 1..Len(down') : down'[i].flag # "synack") =>
            \E i \in 1..Len(down) : down[i].flag # "synack"
      /\ (\E i \in 1..Len(down') : down'[i].load # <<>>) =>
            \E i \in 1..Len(down) : down[i].load # <<>>
  <2>1. InUp("syn")' => InUp("syn")
    BY <1>a, <1>q DEF InUp
  <2> QED
    BY Zenon, <2>1, <1>p DEF InDown
<1>e. /\ \A i, j \in 1..Len(up) : i < j /\ up[i].flag # "syn" => up[j].flag # "syn"
      /\ \A i, j \in 1..Len(down) : i < j /\ down[i].flag # "synack" => down[j].flag # "synack"
  BY <1>a DEF IInv, Established
<1>g. Received' > 0 => ~InUp("syn") /\ ~InDown("synack")' /\ lastIsn # None
  <2>1. CASE Received > 0
    BY <2>1, <1>a, <1>s DEF IInv, Established, SmallInv
  <2>2. CASE down # <<>> /\ down' = Tail(down) /\ Head(down).load # <<>>
    <3>1. /\ Len(down) \in Nat /\ Len(down) > 0 /\ 1 \in 1..Len(down) /\ Head(down) = down[1]
          /\ \A i \in 1..Len(down') : i + 1 \in 1..Len(down) /\ down'[i] = down[i + 1]
      BY <2>2, TailFacts DEF IInv, TypeOK
    <3>2. down[1].flag # "synack" /\ lastIsn # None
      BY <2>2, <3>1, <1>a DEF IInv, SmallInv
    <3>3. \A i \in 1..Len(down') : down'[i].flag # "synack"
      <4> SUFFICES ASSUME NEW i \in 1..Len(down') PROVE down'[i].flag # "synack"
        OBVIOUS
      <4>1. i + 1 \in 1..Len(down) /\ down'[i] = down[i + 1] /\ 1 < i + 1
        BY <3>1, <1>d
      <4> QED
        BY <3>1, <3>2, <4>1, <1>e
    <3>4. ~InUp("syn")
      BY <3>1, <3>2, <1>a DEF IInv, Established
    <3> QED
      BY <3>2, <3>3, <3>4 DEF InDown
  <2>3. CASE Received' = 0
    BY <2>3
  <2> QED
    BY <2>1, <2>2, <2>3, <1>r, <1>k
<1>1. TypeOK'
  <2>1. /\ {"est", "lastack"} \subseteq {"closed", "syn", "est", "lastack", "done"}
        /\ {client.len} \subseteq ReqLens /\ Nat \subseteq Nat /\ 0..client.len \subseteq Nat
        /\ {client.peer} \subseteq Seqs \cup {None} /\ Seq(ChunkSet) \subseteq Seq(ChunkSet)
    BY <1>t
  <2>2. client' \in [st : {"closed", "syn", "est", "lastack", "done"}, len : ReqLens,
                     una : Nat, nxt : Nat, peer : Seqs \cup {None}, got : Seq(ChunkSet)]
    BY Zenon, <1>x, <2>1, ClientSubset
  <2> QED
    BY Zenon, <2>2, <1>a, <1>q, <1>d DEF IInv, TypeOK
<1>2. SmallInv'
  <2>1. \A i \in 1..Len(up') : up'[i].flag = "syn" => up'[i].seq = ClientIsn /\ up'[i].load = <<>>
    BY <1>a, <1>q DEF IInv, SmallInv
  <2>2. \A i \in 1..Len(down') : down'[i].flag = "synack" => down'[i].load = <<>>
    BY <1>p DEF IInv, SmallInv
  <2>3. client'.una <= client'.nxt /\ client'.nxt <= client'.len
    BY <1>l, <1>t, <1>m
  <2> QED
    BY <2>1, <2>2, <2>3, <1>a, <1>l, <1>m, <1>g, <1>s DEF IInv, SmallInv
<1>3. Opening'
  BY <1>l DEF Opening
<1>4. Established'
  <2>1. \A i, j \in 1..Len(up') : i < j /\ up'[i].flag # "syn" => up'[j].flag # "syn"
    BY <1>q, <1>e, <1>a
  <2>2. \A i, j \in 1..Len(down') : i < j /\ down'[i].flag # "synack" => down'[j].flag # "synack"
    <3> SUFFICES ASSUME NEW i \in 1..Len(down'), NEW j \in 1..Len(down'), i < j,
                        down'[i].flag # "synack"
                 PROVE  down'[j].flag # "synack"
      OBVIOUS
    <3>1. i + t < j + t
      BY <1>d
    <3>2. /\ i + t \in 1..Len(down) /\ down'[i] = down[i + t]
          /\ j + t \in 1..Len(down) /\ down'[j] = down[j + t]
      BY <1>p
    <3> QED
      BY <3>1, <3>2, <1>e
  <2> QED
    BY Zenon, <2>1, <2>2, <1>a, <1>l, <1>g, <1>s DEF IInv, Established
<1>5. Closed'
  BY <1>a, <1>l, <1>m, <1>r DEF IInv, Closed
<1>6. RequestInv'
  <2>0. PICK n \in ReqLens : n = client.len
    BY <1>t
  <2>1. /\ Sent \in 0..n + 1 /\ ConnOf(n, Sent)
        /\ \A i \in 1..Len(up) : up[i].flag # "syn" => FrameOf(up[i], n, Sent)
    BY Zenon, <2>0, <1>a DEF IInv, RequestInv
  <2>2. Sent' \in 0..n + 1 /\ Sent <= Sent'
    BY <1>a, <1>l, <1>m, <1>t, <2>0, <2>1 DEF Sent
  <2>3. ConnOf(n, Sent')
    BY Zenon, <1>t, <2>0, <2>1, <2>2, SentGrows
  <2>4. conn' = conn
    BY Zenon, <1>a
  <2>5. \A i \in 1..Len(up') : up'[i].flag # "syn" => FrameOf(up'[i], n, Sent')
    <3> SUFFICES ASSUME NEW i \in 1..Len(up'), up'[i].flag # "syn" PROVE FrameOf(up'[i], n, Sent')
      OBVIOUS
    <3>1. CASE i = Len(up) + 1
      BY <1>a, <1>q, <2>0, <3>1
    <3>2. CASE i \in 1..Len(up)
      <4>1. up'[i] = up[i] /\ up[i] \in UpFrames
        BY <1>q, <3>2, SeqFacts DEF IInv, TypeOK
      <4> QED
        BY <4>1, <3>2, <2>0, <2>1, <2>2, <1>t, SentGrows
    <3> QED
      BY <1>q, <3>1, <3>2
  <2> QED
    <3>1. \A e : ConnOf(n, e)' <=> ConnOf(n, e)
      BY Zenon, <2>4 DEF ConnOf
    <3>2. \E e \in 0..n + 1 :
             /\ e = Sent' /\ ConnOf(n, e)'
             /\ \A i \in 1..Len(up') : up'[i].flag # "syn" => FrameOf(up'[i], n, e)
      BY <2>2, <2>3, <2>5, <3>1
    <3> QED
      BY Zenon, <3>2, <2>0, <1>l, <1>t DEF RequestInv
<1>7. ResponseInv'
  <2>1. PICK d \in since :
            /\ \A i \in 1..Received : client.got[i] = Chunk(d, Skipped + i)
            /\ \A i \in 1..Len(down) : AnswerOf(down[i], d)
            /\ conn # None => conn.response \in {d, None}
    BY <1>a DEF IInv, ResponseInv
  <2>2. Skipped' = Skipped
    BY Zenon, <1>a, <1>l DEF Skipped
  <2>3. \A i \in 1..Len(down') : AnswerOf(down[i], d)'
    <3> SUFFICES ASSUME NEW i \in 1..Len(down') PROVE AnswerOf(down[i], d)'
      BY Zenon
    <3>1. AnswerOf(down[i + t], d) /\ down'[i] = down[i + t] /\ lastIsn' = lastIsn
      BY <1>a, <2>1, <1>p
    <3> QED
      BY Zenon, <3>1 DEF AnswerOf
  <2>4. \A i \in 1..Received' : client'.got[i] = Chunk(d, Skipped' + i)
    <3>1. down # <<>> => AnswerOf(Head(down), d)
      <4>1. down # <<>> => Head(down) = down[1] /\ 1 \in 1..Len(down)
        BY TailFacts DEF IInv, TypeOK
      <4> QED
        BY <2>1, <4>1
    <3>2. d \in Documents
      BY DEF IInv, TypeOK
    <3> QED
      BY <2>1, <2>2, <3>1, <3>2, <1>y
  <2> QED
    BY <1>a, <2>1, <2>3, <2>4 DEF ResponseInv
<1>8. AnswerInv'
  <2>1. Received' > 0 => Received > 0 \/ \E i \in 1..Len(down) : down[i].load # <<>>
    <3>1. CASE Received' = Received
      BY <3>1
    <3>2. CASE down # <<>> /\ Head(down).load # <<>>
      <4>1. 1 \in 1..Len(down) /\ down[1].load # <<>>
        BY <3>2, TailFacts DEF IInv, TypeOK
      <4> QED
        BY <4>1
    <3> QED
      BY Zenon, <3>1, <3>2, <1>k
  <2>2. Received > 0 \/ (\E i \in 1..Len(down) : down[i].load # <<>>) =>
            client.nxt = client.len /\ (conn # None => conn.response # None)
    BY <1>a DEF IInv, AnswerInv
  <2>3. client.nxt = client.len => client'.nxt = client'.len
    BY <1>l, <1>m, <1>t
  <2> QED
    BY <1>a, <2>1, <2>2, <2>3, <1>s DEF AnswerInv
<1>9. WeightInv'
  <2>1. CASE down' = down /\ Room
    BY <1>a, <2>1, RoomForOne
  <2>2. CASE down # <<>> /\ down' = Tail(down) /\ f.load = <<>>
    <3>1. Len(down) \in Nat /\ Len(down') = Len(down) - 1
      BY Zenon, <2>2, TailFacts DEF IInv, TypeOK
    <3>2. PICK total \in Nat :
             Brings(up, total) /\ Len(up) + Len(down) + total <= MaxFlight * Chunks
      BY Zenon DEF IInv, WeightInv
    <3>3. Brings(up', total)
      BY <1>a, <2>2, <3>2, BringsAppend DEF IInv, TypeOK, Extra
    <3>4. Len(up') + Len(down') + total <= MaxFlight * Chunks
      <4>1. MaxFlight * Chunks \in Nat
        BY SpaceFacts
      <4> QED
        BY <4>1, <3>1, <3>2, <1>q
    <3> QED
      BY <3>3, <3>4 DEF WeightInv
  <2> QED
    BY <1>b, <2>1, <2>2
<1> QED
  BY <1>1, <1>2, <1>3, <1>4, <1>5, <1>6, <1>7, <1>8, <1>9 DEF IInv

\* The guest sends a frame and keeps what it has received.
LEMMA Push ==
    ASSUME IInv, client.st \in {"est", "lastack"},
           NEW f \in UpFrames, f.flag # "syn", up' = Append(up, f),
           UNCHANGED <<mmds, conn, lastIsn, since>>,
           \/ down' = down /\ Room
           \/ down # <<>> /\ down' = Tail(down) /\ f.load = <<>>,
           client' \in [st : {"est", "lastack"}, len : {client.len}, una : {client.una},
                        nxt : 0..client.len, peer : {client.peer}, got : {client.got}],
           client'.nxt >= client.nxt,
           client'.st = "lastack" => Received > 0 /\ client'.nxt = client.len,
           client.st = "lastack" => client'.st = "lastack",
           FrameOf(f, client.len, Sent')
    PROVE  IInv'
<1>1. /\ client.una \in Nat /\ client.got \in Seq(ChunkSet) /\ client.nxt \in Nat
      /\ client.una <= client.nxt /\ client.len \in Nat
  BY SpaceFacts DEF IInv, TypeOK, SmallInv
<1>2. /\ client' \in [st : {"est", "lastack"}, len : {client.len}, una : Nat,
                        nxt : 0..client.len, peer : {client.peer}, got : Seq(ChunkSet)]
      /\ client'.una <= client'.nxt
  <2>1. /\ {"est", "lastack"} \subseteq {"est", "lastack"}
        /\ {client.len} \subseteq {client.len} /\ {client.una} \subseteq Nat
        /\ 0..client.len \subseteq 0..client.len /\ {client.peer} \subseteq {client.peer}
        /\ {client.got} \subseteq Seq(ChunkSet)
    BY Zenon, <1>1
  <2>2. client' \in [st : {"est", "lastack"}, len : {client.len}, una : Nat,
                     nxt : 0..client.len, peer : {client.peer}, got : Seq(ChunkSet)]
    BY Zenon, <2>1, ClientSubset
  <2>3. client'.una = client.una /\ client'.nxt \in 0..client.len
    OBVIOUS
  <2>4. client'.una <= client'.nxt
    BY ONLY <1>1, <2>3, client'.nxt >= client.nxt
  <2> QED
    BY ONLY <2>2, <2>4
<1>3. client'.got = client.got /\ Received' = Received /\ Received \in Nat
  BY <1>1, SeqFacts DEF Received
<1>4. Received' >= Received
  BY <1>3
<1>5. \A d \in Documents :
               /\ \A i \in 1..Received : client.got[i] = Chunk(d, Skipped + i)
               /\ down # <<>> => AnswerOf(Head(down), d)
               => \A i \in 1..Received' : client'.got[i] = Chunk(d, Skipped + i)
  BY <1>3
<1> QED
  <2>1. Pushes(f)
    BY Zenon, <1>2, <1>3, <1>4, <1>5 DEF Pushes
  <2> QED
    BY Zenon, <2>1, PushAndTake

\* wrapping_add stays in the sequence space, however much is added.
LEMMA PlusType ==
    ASSUME NEW a \in Seqs, NEW b \in Nat
    PROVE  Plus(a, b) \in Seqs
<1>1. a + b \in Nat /\ Modulus \in Nat /\ Modulus > 0
  BY SpaceFacts DEF Seqs
<1> QED
  BY <1>1, ModType DEF Plus, Seqs

\* The ranges of the guest's counters, as the invariant bounds them.
LEMMA ClientFacts ==
    ASSUME IInv
    PROVE  /\ client.len \in ReqLens /\ client.len \in Nat /\ client.len > 0
           /\ client.len + 2 < Modulus /\ Chunks + 2 < Modulus
           /\ client.nxt \in Nat /\ client.una \in Nat
           /\ client.una <= client.nxt /\ client.nxt <= client.len
           /\ client.got \in Seq(ChunkSet) /\ Received \in Nat
           /\ client.st \in {"est", "lastack", "done"} =>
                 client.peer \in Seqs /\ Expected \in Seqs
           /\ RequestSeq(client.nxt) \in Seqs /\ RequestSeq(client.una) \in Seqs
           /\ RequestSeq(client.len) \in Seqs /\ RequestSeq(0) \in Seqs
<1>1. /\ client.len \in ReqLens /\ client.nxt \in Nat /\ client.una \in Nat
      /\ client.got \in Seq(ChunkSet)
  BY DEF IInv, TypeOK
<1>2. client.una <= client.nxt /\ client.nxt <= client.len
  BY DEF IInv, SmallInv
<1>3. Received \in Nat
  BY <1>1, SeqFacts DEF Received
<1>4. /\ client.len \in Nat /\ client.len > 0
      /\ client.len + 2 < Modulus /\ Chunks + 2 < Modulus /\ Modulus \in Nat
  BY <1>1, SpaceFacts
<1>5. client.st \in {"est", "lastack", "done"} => client.peer \in Seqs
  BY DEF IInv, Established
<1>6. client.st \in {"est", "lastack", "done"} => Expected \in Seqs
  BY <1>3, <1>5, PlusType DEF Expected
<1>7. /\ RequestSeq(client.nxt) \in Seqs /\ RequestSeq(client.una) \in Seqs
      /\ RequestSeq(client.len) \in Seqs /\ RequestSeq(0) \in Seqs
  <2>1. /\ client.nxt \in 0..Modulus - 1 /\ client.una \in 0..Modulus - 1
        /\ client.len \in 0..Modulus - 1 /\ 0 \in 0..Modulus - 1
    BY <1>1, <1>2, <1>4
  <2> QED
    BY <2>1, RequestSeqValue
<1> QED
  BY <1>1, <1>2, <1>3, <1>4, <1>5, <1>6, <1>7

\* A segment is a frame of the client's request, however it is cut.
LEMMA SegmentFrame ==
    ASSUME IInv, client.st = "est", NEW a \in Nat, NEW to \in Nat,
           a < to, to <= client.len, NEW e \in Nat, to <= e
    PROVE  /\ Segment(a, to) \in UpFrames /\ Segment(a, to).flag = "data"
           /\ FrameOf(Segment(a, to), client.len, e)
<1> DEFINE f == Segment(a, to)
           load == [i \in 1..to - a |-> IF a + i = client.len THEN BlankLine ELSE a + i]
<1>1. f.flag = "data" /\ f.seq = RequestSeq(a) /\ f.ack = Expected /\ f.load = load
      /\ f = [flag |-> "data", seq |-> f.seq, ack |-> f.ack, load |-> f.load]
  BY DEF Segment, Frame
<1>2. load \in Seq(Nat) /\ Len(load) = to - a
      /\ \A i \in 1..to - a : load[i] = Unit(client.len, a + i)
  <2>1. to - a \in Nat
    OBVIOUS
  <2>2. \A i \in 1..to - a : (IF a + i = client.len THEN BlankLine ELSE a + i) \in Nat
    BY DEF BlankLine
  <2> QED
    BY <2>1, <2>2 DEF Unit
<1>3. a \in 0..client.len - 1 /\ a \in 0..Modulus - 1 /\ a + (to - a) <= client.len
      /\ a + (to - a) <= e
  BY ClientFacts, SpaceFacts
<1>4. RequestSeq(a) \in Seqs /\ Expected \in Seqs
  BY <1>3, RequestSeqValue, ClientFacts
<1> HIDE DEF load
<1>5. f \in UpFrames
  BY <1>1, <1>2, <1>4 DEF UpFrames
<1>6. FrameOf(f, client.len, e)
  BY <1>1, <1>2, <1>3 DEF FrameOf
<1> QED
  BY <1>1, <1>5, <1>6

\* The guest's FIN stands right after its request.
LEMMA FinFrame ==
    ASSUME IInv, client.st \in {"est", "lastack"}
    PROVE  LET f == Frame("fin", RequestSeq(client.len), Expected, <<>>)
           IN  /\ f \in UpFrames /\ f.flag = "fin"
               /\ FrameOf(f, client.len, client.len + 1)
<1>1. RequestSeq(client.len) \in Seqs /\ Expected \in Seqs /\ <<>> \in Seq(Nat)
  BY ClientFacts
<1> QED
  BY <1>1 DEF UpFrames, Frame, FrameOf

\* An acknowledgement belongs to any request.
LEMMA AckFrameOf ==
    ASSUME IInv, NEW x \in Seqs
    PROVE  /\ AckFrame(x) \in UpFrames /\ AckFrame(x).flag = "ack" /\ AckFrame(x).load = <<>>
           /\ \A n, e : FrameOf(AckFrame(x), n, e)
<1>1. RequestSeq(client.nxt) \in Seqs /\ <<>> \in Seq(Nat)
  BY ClientFacts
<1> QED
  BY <1>1 DEF UpFrames, Frame, AckFrame, FrameOf

\* The guest sends more of its request, in a segment of any size.
LEMMA SendStep == IInv /\ SendRequest => IInv'
<1> SUFFICES ASSUME IInv, SendRequest PROVE IInv'
  OBVIOUS
<1>1. PICK to \in client.nxt + 1..client.len :
          up' = Append(up, Segment(client.nxt, to)) /\ client' = [client EXCEPT !.nxt = to]
  BY DEF SendRequest
<1>2. /\ client.st = "est" /\ Room
      /\ UNCHANGED <<mmds, conn, lastIsn, since>> /\ down' = down
  BY DEF SendRequest
<1>3. to \in Nat /\ client.nxt < to /\ to <= client.len /\ client.nxt \in Nat /\ to \in 0..client.len
  BY ClientFacts
<1>4. /\ client'.st = "est" /\ client'.nxt = to
      /\ client' \in [st : {"est", "lastack"}, len : {client.len}, una : {client.una},
                        nxt : 0..client.len, peer : {client.peer}, got : {client.got}]
  BY Zenon, <1>1, <1>2, <1>3 DEF IInv, TypeOK
<1>5. Sent' = to
  BY <1>3, <1>4 DEF Sent
<1>6. /\ Segment(client.nxt, to) \in UpFrames /\ Segment(client.nxt, to).flag = "data"
      /\ FrameOf(Segment(client.nxt, to), client.len, to)
  BY <1>2, <1>3, SegmentFrame
<1> QED
  BY <1>1, <1>2, <1>3, <1>4, <1>5, <1>6, Push

\* The guest closes: a FIN after the whole answer.
LEMMA CloseStep == IInv /\ CloseSocket => IInv'
<1> SUFFICES ASSUME IInv, CloseSocket PROVE IInv'
  OBVIOUS
<1> DEFINE f == Frame("fin", RequestSeq(client.len), Expected, <<>>)
<1>1. /\ client.st = "est" /\ Room /\ Received > 0
      /\ client' = [client EXCEPT !.st = "lastack"] /\ up' = Append(up, f)
      /\ UNCHANGED <<mmds, conn, lastIsn, since>> /\ down' = down
  BY DEF CloseSocket, Ended
<1>2. client.nxt = client.len
  BY <1>1 DEF IInv, AnswerInv
<1>3. f \in UpFrames /\ f.flag = "fin" /\ FrameOf(f, client.len, client.len + 1)
  BY <1>1, FinFrame
<1>4. /\ client'.st = "lastack" /\ client'.nxt = client.nxt
      /\ client' \in [st : {"est", "lastack"}, len : {client.len}, una : {client.una},
                        nxt : 0..client.len, peer : {client.peer}, got : {client.got}]
  <2>1. client.nxt \in 0..client.len
    BY ClientFacts
  <2> QED
    BY Zenon, <1>1, <2>1 DEF IInv, TypeOK
<1>5. Sent' = client.len + 1
  BY <1>2, <1>4 DEF Sent
<1> HIDE DEF f
<1>6. client'.nxt >= client.nxt
  BY <1>4, ClientFacts
<1> QED
  BY <1>1, <1>2, <1>3, <1>4, <1>5, <1>6, Push

\* The guest sends again the first thing that is not acknowledged.
LEMMA RetransmitStep == IInv /\ Retransmit => IInv'
<1> SUFFICES ASSUME IInv, Retransmit PROVE IInv'
  OBVIOUS
<1>0. /\ Room /\ UNCHANGED <<mmds, conn, lastIsn, since>> /\ down' = down /\ client' = client
  BY DEF Retransmit
<1>l. client.st \in {"est", "lastack"} =>
        client' \in [st : {"est", "lastack"}, len : {client.len}, una : {client.una},
                        nxt : 0..client.len, peer : {client.peer}, got : {client.got}]
  BY <1>0, ClientFacts DEF IInv, TypeOK
<1>n. client'.nxt >= client.nxt /\ Sent' = Sent
  BY <1>0, ClientFacts DEF Sent
<1>1. ASSUME client.st = "est", NEW to \in client.una + 1..client.nxt,
             up' = Append(up, Segment(client.una, to))
      PROVE  IInv'
  <2>1. /\ to \in Nat /\ client.una < to /\ to <= client.nxt /\ to <= client.len
        /\ client.una \in Nat /\ client.nxt \in Nat
    BY ClientFacts
  <2>2. Sent' = client.nxt
    BY <1>n, <1>1, <2>1 DEF Sent
  <2>3. /\ Segment(client.una, to) \in UpFrames /\ Segment(client.una, to).flag = "data"
        /\ FrameOf(Segment(client.una, to), client.len, client.nxt)
    BY <1>1, <2>1, SegmentFrame
  <2> QED
    BY <1>0, <1>1, <1>l, <1>n, <2>2, <2>3, Push
<1>2. ASSUME client.st = "lastack",
             up' = Append(up, Frame("fin", RequestSeq(client.len), Expected, <<>>))
      PROVE  IInv'
  <2> DEFINE f == Frame("fin", RequestSeq(client.len), Expected, <<>>)
  <2>1. f \in UpFrames /\ f.flag = "fin" /\ FrameOf(f, client.len, client.len + 1)
    BY <1>2, FinFrame
  <2> HIDE DEF f
  <2>2. Received > 0
    BY <1>2 DEF IInv, Closed
  <2>3. client.nxt = client.len
    BY <1>2, <2>2 DEF IInv, AnswerInv
  <2>4. Sent' = client.len + 1
    BY <1>n, <1>2, <2>3 DEF Sent
  <2> QED
    BY <1>0, <1>2, <1>l, <1>n, <2>1, <2>2, <2>3, <2>4, Push DEF f
<1>3. ASSUME client.st = "syn", up' = Append(up, Frame("syn", ClientIsn, 0, <<>>))
      PROVE  IInv'
  <2> DEFINE f == Frame("syn", ClientIsn, 0, <<>>)
  <2>f. /\ f \in UpFrames /\ f.flag = "syn" /\ f.seq = ClientIsn /\ f.load = <<>>
    BY SpaceFacts DEF UpFrames, Frame, Seqs
  <2> HIDE DEF f
  <2>q. /\ Len(up) \in Nat /\ Len(up') = Len(up) + 1 /\ up' \in Seq(UpFrames)
        /\ \A i \in 1..Len(up) + 1 : up'[i] = IF i = Len(up) + 1 THEN f ELSE up[i]
    BY <1>3, <2>f, AppendFacts DEF IInv, TypeOK, f
  <2>r. Received' = Received
    BY <1>0 DEF Received
  <2>1. TypeOK'
    BY <1>0, <2>q DEF IInv, TypeOK
  <2>2. SmallInv'
    <3>1. \A i \in 1..Len(up') : up'[i].flag = "syn" => up'[i].seq = ClientIsn /\ up'[i].load = <<>>
      BY <2>q, <2>f DEF IInv, SmallInv
    <3> QED
      BY <1>0, <2>r, <3>1 DEF IInv, SmallInv
  <2>3. Opening'
    <3>1. \A i, j \in 1..Len(up) : i < j /\ up[i].flag = "syn" => up[j].flag = "syn"
      BY <1>3 DEF IInv, Opening
    <3>2. \A i, j \in 1..Len(up') : i < j /\ up'[i].flag = "syn" => up'[j].flag = "syn"
      BY ONLY <2>q, <2>f, <3>1
    <3>3. (\A i \in 1..Len(up) : up[i].flag = "syn") => \A i \in 1..Len(up') : up'[i].flag = "syn"
      BY <2>q, <2>f
    <3> QED
      BY <1>0, <1>3, <3>2, <3>3 DEF IInv, Opening, InDown, Fresh
  <2>4. Established' /\ Closed' /\ ResponseInv' /\ AnswerInv'
    BY <1>0, <1>3 DEF Established, Closed, ResponseInv, AnswerInv
  <2>5. RequestInv'
    <3>1. PICK n \in ReqLens : \E e \in 0..n + 1 :
          /\ ConnOf(n, e)
          /\ \A i \in 1..Len(up) : up[i].flag # "syn" => FrameOf(up[i], n, e)
      BY DEF IInv, RequestInv
    <3>2. PICK e \in 0..n + 1 :
          /\ ConnOf(n, e)
          /\ \A i \in 1..Len(up) : up[i].flag # "syn" => FrameOf(up[i], n, e)
      BY <3>1
    <3>3. ConnOf(n, e)'
      BY <3>2, <1>0 DEF ConnOf
    <3>4. \A i \in 1..Len(up') : up'[i].flag # "syn" => FrameOf(up'[i], n, e)
      BY <3>2, <2>q, <2>f
    <3> QED
      BY <3>3, <3>4, <1>0, <1>3 DEF RequestInv
  <2>6. WeightInv'
    BY <1>0, <1>3, <2>f, RoomForOne DEF f
  <2> QED
    BY <2>1, <2>2, <2>3, <2>4, <2>5, <2>6 DEF IInv
<1> QED
  BY <1>1, <1>2, <1>3 DEF Retransmit

-----------------------------------------------------------------------------
(* The client takes a frame off the link. *)

\* What the guest counts as acknowledged it has sent.
LEMMA AckedFacts ==
    ASSUME IInv, NEW x \in Seqs
    PROVE  Acked(x) \in Nat /\ Acked(x) <= client.nxt
<1>1. Minus(x, RequestSeq(0)) \in Nat
  BY ClientFacts, MinusValue DEF Seqs
<1> QED
  BY <1>1, ClientFacts DEF Acked

\* The SYN-ACK: what follows belongs to this fetch.
LEMMA TakeSynAck ==
    ASSUME IInv, down # <<>>, down' = Tail(down), client.st = "syn",
           Head(down).flag = "synack",
           client' = [client EXCEPT !.st = "est", !.peer = Plus(Head(down).seq, 1)],
           up' = Append(up, Frame("ack", RequestSeq(0), Plus(Head(down).seq, 1), <<>>)),
           UNCHANGED <<mmds, conn, lastIsn, since>>
    PROVE  IInv'
<1> DEFINE f == Frame("ack", RequestSeq(0), Plus(Head(down).seq, 1), <<>>)
<1>d. /\ Len(down) \in Nat /\ Len(down) > 0 /\ Len(down') = Len(down) - 1
      /\ down' \in Seq(DownFrames) /\ Head(down) = down[1] /\ Head(down) \in DownFrames
      /\ \A i \in 1..Len(down') : i + 1 \in 1..Len(down) /\ down'[i] = down[i + 1]
  BY TailFacts DEF IInv, TypeOK
<1>s. Head(down).seq \in Seqs /\ Plus(Head(down).seq, 1) \in Seqs
  BY Zenon, <1>d, PlusType DEF DownFrames
<1>f. f \in UpFrames /\ f.flag = "ack" /\ f.load = <<>> /\ \A n, e : FrameOf(f, n, e)
  <2>1. RequestSeq(0) \in Seqs /\ <<>> \in Seq(Nat)
    BY ClientFacts
  <2> QED
    BY <2>1, <1>s DEF Frame, UpFrames, FrameOf
<1> HIDE DEF f
<1>q. /\ Len(up) \in Nat /\ Len(up') = Len(up) + 1 /\ up' \in Seq(UpFrames)
      /\ \A i \in 1..Len(up) + 1 : up'[i] = IF i = Len(up) + 1 THEN f ELSE up[i]
  BY <1>f, AppendFacts DEF IInv, TypeOK, f
<1>o. InDown("synack")
  BY <1>d DEF InDown
<1>y. Fresh /\ \A i \in 1..Len(up) : up[i].flag = "syn"
  BY <1>o DEF IInv, Opening
<1>a. \A i \in 1..Len(down') : down'[i].flag = "synack" /\ down'[i].load = <<>>
  <2> SUFFICES ASSUME NEW i \in 1..Len(down')
               PROVE  down'[i].flag = "synack" /\ down'[i].load = <<>>
    OBVIOUS
  <2>1. /\ i + 1 \in 1..Len(down) /\ down'[i] = down[i + 1] /\ 1 < i + 1
        /\ 1 \in 1..Len(down) /\ down[1].flag = "synack"
    BY <1>d
  <2>2. \A k, l \in 1..Len(down) : k < l /\ down[k].flag = "synack" => down[l].flag = "synack"
    BY DEF IInv, Opening
  <2>3. down[i + 1].flag = "synack"
    BY ONLY <2>1, <2>2
  <2> QED
    BY <2>1, <2>3 DEF IInv, SmallInv
<1>l. /\ client'.st = "est" /\ client'.peer = Plus(Head(down).seq, 1)
      /\ client'.len = client.len /\ client'.una = client.una /\ client'.nxt = client.nxt
      /\ client'.got = client.got
  BY DEF IInv, TypeOK
<1>g. client'.got = <<>> /\ Received' = 0 /\ client.nxt = 0
  BY <1>l DEF IInv, SmallInv, Received
<1>1. TypeOK'
  BY Zenon, <1>q, <1>d, <1>s DEF IInv, TypeOK
<1>2. SmallInv'
  <2>1. \A i \in 1..Len(up') : up'[i].flag = "syn" => up'[i].seq = ClientIsn /\ up'[i].load = <<>>
    BY <1>q, <1>f DEF IInv, SmallInv
  <2> QED
    BY <2>1, <1>a, <1>l, <1>g DEF IInv, SmallInv
<1>3. Opening' /\ Closed'
  BY <1>l DEF Opening, Closed
<1>4. Established'
  <2>1. \A i, j \in 1..Len(up') : i < j /\ up'[i].flag # "syn" => up'[j].flag # "syn"
    BY <1>q, <1>y
  <2> QED
    BY <2>1, <1>a, <1>g, <1>l, <1>s DEF Established
<1>5. RequestInv'
  <2>0. PICK n \in ReqLens : n = client.len
    BY ClientFacts
  <2>1. n \in ReqLens /\ n \in Nat /\ n > 0 /\ 0 \in 0..n + 1
    BY <2>0, ClientFacts
  <2>2. Sent' = 0
    BY <1>l, <1>g DEF Sent
  <2>3. ConnOf(n, 0)'
    <3>1. CASE conn' = None
      BY <3>1 DEF ConnOf
    <3>2. CASE conn # None
      <4>1. conn.request = <<>> /\ conn.response = None /\ conn.next = RequestSeq(0)
        BY <3>2, <1>y DEF Fresh
      <4>2. Len(conn.request) = 0
        BY <4>1
      <4> QED
        BY <4>1, <4>2, <2>1 DEF ConnOf, PrefixOf
    <3> QED
      BY <3>1, <3>2
  <2>4. \A i \in 1..Len(up') : up'[i].flag # "syn" => FrameOf(up'[i], n, 0)
    BY <1>q, <1>f, <1>y
  <2>5. n = client'.len
    BY <1>l, <2>0
  <2>6. \E e \in 0..n + 1 :
             /\ e = Sent' /\ ConnOf(n, e)'
             /\ \A i \in 1..Len(up') : up'[i].flag # "syn" => FrameOf(up'[i], n, e)
    BY <2>1, <2>2, <2>3, <2>4
  <2> QED
    BY <2>1, <2>5, <2>6 DEF RequestInv
<1>6. ResponseInv'
  <2>1. mmds \in since
    BY DEF IInv, SmallInv
  <2>2. \A i \in 1..Len(down') : AnswerOf(down[i], mmds)'
    BY <1>a DEF AnswerOf
  <2>3. conn' # None => conn'.response \in {mmds', None}
    BY <1>y DEF Fresh
  <2>4. \A i \in 1..Received' : client'.got[i] = Chunk(mmds', Skipped' + i)
    BY <1>g
  <2> QED
    BY <2>1, <2>2, <2>3, <2>4 DEF ResponseInv
<1>7. AnswerInv'
  BY <1>a, <1>g DEF AnswerInv
<1>8. WeightInv'
  <2>1. PICK total \in Nat : Brings(up, total) /\ Len(up) + Len(down) + total <= MaxFlight * Chunks
    BY DEF IInv, WeightInv
  <2>2. Brings(up', total)
    <3>1. Extra(f) = 0
      BY DEF Extra, f, Frame
    <3> QED
      <4>1. up \in Seq(UpFrames)
        BY DEF IInv, TypeOK
      <4>2. PICK more \in Nat : Brings(Append(up, f), more) /\ more = total + Extra(f)
        BY <4>1, <1>f, <2>1, BringsAppend
      <4>3. more = total
        BY <3>1, <4>2
      <4> QED
        BY <4>2, <4>3 DEF f
  <2>3. Len(up') + Len(down') + total <= MaxFlight * Chunks
    BY <2>1, <1>d, <1>q, SpaceFacts
  <2> QED
    BY <2>2, <2>3 DEF WeightInv
<1> QED
  BY <1>1, <1>2, <1>3, <1>4, <1>5, <1>6, <1>7, <1>8 DEF IInv

\* The next unit of the response: the one whose sequence number the client
\* expects continues what it has.
LEMMA NextUnit ==
    ASSUME IInv, client.st = "est", down # <<>>, Head(down).load # <<>>,
           Head(down).seq = Expected, ~Ended,
           NEW d \in Documents, AnswerOf(Head(down), d),
           \A i \in 1..Received : client.got[i] = Chunk(d, Skipped + i)
    PROVE  Head(down).load = <<Chunk(d, Skipped + (Received + 1))>>
<1> DEFINE f == Head(down)
<1>1. PICK j \in 1..Chunks : f.load = <<Chunk(d, j)>> /\ f.seq = Plus(Plus(lastIsn, 1), j - 1)
  BY DEF AnswerOf
<1>2. lastIsn \in Seqs
  <2>1. 1 \in 1..Len(down) /\ Head(down) = down[1]
    BY TailFacts DEF IInv, TypeOK
  <2>2. lastIsn # None
    BY <2>1 DEF IInv, SmallInv
  <2> QED
    BY <2>2 DEF IInv, TypeOK
<1>3. /\ client.peer \in Seqs /\ Received \in Nat /\ Chunks + 2 < Modulus /\ Chunks \in Nat
      /\ Modulus \in Nat
  BY ClientFacts, SpaceFacts
<1>4. Expected = Plus(client.peer, Received)
  BY <1>3 DEF Expected
<1>5. Plus(lastIsn, 1) \in Seqs
  BY <1>2, PlusType
<1>6. Skipped = Minus(client.peer, Plus(lastIsn, 1)) /\ Skipped \in Nat /\ Skipped < Modulus
  <2>1. Minus(client.peer, Plus(lastIsn, 1)) \in Seqs
    BY <1>3, <1>5, MinusValue
  <2> QED
    BY <2>1, <1>3 DEF Skipped, Seqs
<1>7. Received > 0 => Skipped + Received <= Chunks
  <2> SUFFICES ASSUME Received > 0 PROVE Skipped + Received <= Chunks
    OBVIOUS
  <2>1. Received \in 1..Received /\ Received \in 1..Len(client.got)
    BY <1>3 DEF Received
  <2>2. client.got[Received] \in ChunkSet
    BY <2>1, SeqFacts DEF IInv, TypeOK
  <2>3. client.got[Received].index = Skipped + Received
    <3>1. client.got[Received] = Chunk(d, Skipped + Received)
      BY <2>1
    <3> QED
      BY <3>1 DEF Chunk
  <2> QED
    BY <2>2, <2>3 DEF ChunkSet
<1>8. Skipped + Received < Modulus /\ Received \in 0..Modulus - 1 /\ j - 1 \in 0..Modulus - 1
  BY <1>3, <1>6, <1>7
<1>9. j - 1 = Skipped + Received
  BY <1>1, <1>3, <1>4, <1>5, <1>6, <1>8, Meeting
<1> QED
  BY <1>1, <1>3, <1>6, <1>9

\* The next unit of the response, in order: taken and acknowledged.
LEMMA TakeUnit ==
    ASSUME IInv, client.st = "est", down # <<>>, down' = Tail(down),
           Head(down).load # <<>>, Head(down).seq = Expected, ~Ended,
           client' = [client EXCEPT !.got = @ \o Head(down).load, !.una = Acked(Head(down).ack)],
           NEW x \in Seqs, up' = Append(up, AckFrame(x)),
           UNCHANGED <<mmds, conn, lastIsn, since>>
    PROVE  IInv'
<1> DEFINE f == Head(down)
<1>1. f \in DownFrames /\ 1 \in 1..Len(down) /\ f = down[1]
  BY TailFacts DEF IInv, TypeOK
<1>2. f.ack \in Seqs /\ f.load \in Seq(ChunkSet)
  BY <1>1 DEF DownFrames
<1>3. Acked(f.ack) \in Nat /\ Acked(f.ack) <= client.nxt
  BY <1>2, AckedFacts
<1>4. /\ client.got \in Seq(ChunkSet) /\ Received \in Nat /\ client.nxt \in 0..client.len
  BY ClientFacts
<1>5. PICK d \in since :
            /\ \A i \in 1..Received : client.got[i] = Chunk(d, Skipped + i)
            /\ \A i \in 1..Len(down) : AnswerOf(down[i], d)
  BY DEF IInv, ResponseInv
<1>6. d \in Documents /\ AnswerOf(f, d)
  BY <1>1, <1>5 DEF IInv, TypeOK
<1>7. /\ f.load = <<Chunk(d, Skipped + (Received + 1))>>
      /\ Chunk(d, Skipped + (Received + 1)) \in ChunkSet
  <2>1. f.load = <<Chunk(d, Skipped + (Received + 1))>>
    BY <1>5, <1>6, NextUnit
  <2>2. Len(<<Chunk(d, Skipped + (Received + 1))>>) = 1
    OBVIOUS
  <2>3. f.load[1] \in ChunkSet
    BY <1>2, <2>1, <2>2, SeqFacts
  <2> QED
    BY <2>1, <2>3
<1>8. /\ client.got \o f.load \in Seq(ChunkSet)
      /\ Len(client.got \o f.load) = Received + 1
      /\ \A i \in 1..Received : (client.got \o f.load)[i] = client.got[i]
      /\ (client.got \o f.load)[Received + 1] = f.load[1]
  <2>1. PICK y \in ChunkSet : f.load = <<y>> /\ f.load[1] = y
    BY <1>7
  <2>2. PICK s \in Seq(ChunkSet) : s = client.got
    BY <1>4
  <2>3. /\ s \o <<y>> \in Seq(ChunkSet) /\ Len(s \o <<y>>) = Len(s) + 1
        /\ \A i \in 1..Len(s) : (s \o <<y>>)[i] = s[i]
        /\ (s \o <<y>>)[Len(s) + 1] = y
    BY ExtendByOne
  <2>4. Received = Len(s)
    BY <2>2 DEF Received
  <2> HIDE DEF f
  <2> QED
    BY ONLY <2>1, <2>2, <2>3, <2>4
<1>9. /\ client'.got = client.got \o f.load /\ client'.una = Acked(f.ack)
      /\ client'.st = "est" /\ client'.nxt = client.nxt /\ client'.len = client.len
      /\ client' \in [st : {"est", "lastack"}, len : {client.len}, una : Nat,
                        nxt : 0..client.len, peer : {client.peer}, got : Seq(ChunkSet)]
  BY Zenon, <1>3, <1>4, <1>8 DEF IInv, TypeOK
<1>10. Received' = Received + 1
  BY <1>8, <1>9 DEF Received
<1>11. ASSUME NEW g \in Documents,
              \A i \in 1..Received : client.got[i] = Chunk(g, Skipped + i),
              down # <<>> => AnswerOf(Head(down), g)
       PROVE  \A i \in 1..Received' : client'.got[i] = Chunk(g, Skipped + i)
  <2>1. f.load = <<Chunk(g, Skipped + (Received + 1))>>
    BY <1>11, NextUnit
  <2>2. f.load[1] = Chunk(g, Skipped + (Received + 1))
    BY <2>1
  <2> SUFFICES ASSUME NEW i \in 1..Received' PROVE client'.got[i] = Chunk(g, Skipped + i)
    BY Zenon
  <2>3. CASE i = Received + 1
    BY <2>2, <2>3, <1>8, <1>9
  <2>4. CASE i \in 1..Received
    BY Zenon, <2>4, <1>8, <1>9, <1>11
  <2> QED
    <3>1. i \in 1..Received + 1
      BY <1>10
    <3>2. i = Received + 1 \/ i \in 1..Received
      BY ONLY <3>1, <1>4
    <3> QED
      BY Zenon, <2>3, <2>4, <3>2
<1>12. /\ AckFrame(x) \in UpFrames /\ AckFrame(x).flag # "syn" /\ AckFrame(x).load = <<>>
       /\ FrameOf(AckFrame(x), client.len, Sent')
  BY AckFrameOf
<1>13. client'.nxt >= client.nxt /\ client'.una <= client'.nxt /\ Received' >= Received
  BY <1>3, <1>4, <1>9, <1>10, ClientFacts
<1> HIDE DEF f
<1> QED
  <2>1. Pushes(AckFrame(x))
    BY Zenon, <1>9, <1>11, <1>12, <1>13 DEF Pushes
  <2> QED
    BY Zenon, <2>1, <1>12, PushAndTake

\* Every frame the guest can take preserves the invariant.
LEMMA ReceiveStep == IInv /\ Receive => IInv'
<1> SUFFICES ASSUME IInv, Receive PROVE IInv'
  OBVIOUS
<1> DEFINE f == Head(down)
<1>0. down # <<>> /\ down' = Tail(down) /\ UNCHANGED <<mmds, conn, lastIsn, since>> /\ Take(f)
  BY DEF Receive
<1>f. f \in DownFrames /\ f.ack \in Seqs
  <2>1. f \in DownFrames
    BY <1>0, TailFacts DEF IInv, TypeOK
  <2> QED
    BY <2>1 DEF DownFrames
<1>t. /\ client.nxt \in Nat /\ client.una \in 0..client.nxt /\ client.nxt \in 0..client.len
  BY ClientFacts
<1>1. ASSUME client.st = "syn", f.flag = "synack",
             client' = [client EXCEPT !.st = "est", !.peer = Plus(f.seq, 1)],
             up' = Append(up, Frame("ack", RequestSeq(0), Plus(f.seq, 1), <<>>))
      PROVE  IInv'
  BY <1>0, <1>1, TakeSynAck
<1>2. ASSUME client.st = "est", f.load # <<>>, f.seq = Expected, ~Ended,
             client' = [client EXCEPT !.got = @ \o f.load, !.una = Acked(f.ack)],
             up' = Append(up, AckFrame(Plus(Expected, IF f.flag = "fin" THEN 2 ELSE 1)))
      PROVE  IInv'
  <2>1. Plus(Expected, IF f.flag = "fin" THEN 2 ELSE 1) \in Seqs
    BY <1>2, ClientFacts, PlusType
  <2> QED
    BY <1>0, <1>2, <2>1, TakeUnit
<1>3. ASSUME client.st = "est", client' = [client EXCEPT !.una = Acked(f.ack)], UNCHANGED up
      PROVE  IInv'
  <2>1. Acked(f.ack) \in 0..client.nxt
    BY <1>f, <1>t, AckedFacts
  <2>2. /\ client'.st = client.st
        /\ client' \in [st : {client.st, "done"}, len : {client.len}, una : 0..client.nxt,
                        nxt : {client.nxt}, peer : {client.peer}, got : {client.got}]
    BY <1>3, <2>1 DEF IInv, TypeOK
  <2> QED
    BY <1>0, <1>3, <2>2, DropDown
<1>4. ASSUME client.st = "lastack", client' = [client EXCEPT !.st = "done"], UNCHANGED up
      PROVE  IInv'
  <2>1. client' \in [st : {client.st, "done"}, len : {client.len}, una : 0..client.nxt,
                     nxt : {client.nxt}, peer : {client.peer}, got : {client.got}]
    BY <1>4, <1>t DEF IInv, TypeOK
  <2> QED
    BY <1>0, <1>4, <2>1, DropDown
<1>5. ASSUME client.st \in {"est", "lastack"}, up' = Append(up, AckFrame(Expected)),
             UNCHANGED client
      PROVE  IInv'
  <2>1. /\ AckFrame(Expected) \in UpFrames /\ AckFrame(Expected).flag # "syn"
        /\ AckFrame(Expected).load = <<>> /\ FrameOf(AckFrame(Expected), client.len, Sent')
    BY <1>5, ClientFacts, AckFrameOf
  <2>2. client' \in [st : {"est", "lastack"}, len : {client.len}, una : {client.una},
                        nxt : 0..client.len, peer : {client.peer}, got : {client.got}]
    BY <1>5, <1>t DEF IInv, TypeOK
  <2>3. client.st = "lastack" => Received > 0 /\ client.nxt = client.len
    BY DEF IInv, Closed, AnswerInv
  <2>4. client'.nxt >= client.nxt
    BY <1>5, <1>t
  <2> QED
    BY <1>0, <1>5, <2>1, <2>2, <2>3, <2>4, Push
<1>6. ASSUME UNCHANGED <<client, up>>
      PROVE  IInv'
  <2>1. /\ client'.st = client.st
        /\ client' \in [st : {client.st, "done"}, len : {client.len}, una : 0..client.nxt,
                        nxt : {client.nxt}, peer : {client.peer}, got : {client.got}]
    BY <1>6, <1>t DEF IInv, TypeOK
  <2> QED
    BY <1>0, <1>6, <2>1, DropDown
<1> QED
  BY <1>0, <1>1, <1>2, <1>3, <1>4, <1>5, <1>6 DEF Take

-----------------------------------------------------------------------------
(* The responder takes a frame off the link. *)

\* What is written of some replies is a beginning of them (Write).
LEMMA WriteFacts ==
    ASSUME NEW S, NEW s \in Seq(S), Write(s)
    PROVE  \E t \in Seq(S) :
              /\ down' = down \o t /\ Len(t) \in 0..Len(s)
              /\ \A i \in 1..Len(t) : i \in 1..Len(s) /\ t[i] = s[i]
<1>1. PICK k \in 0..Len(s) : down' = down \o SubSeq(s, 1, k)
  BY DEF Write
<1>2. Len(s) \in Nat
  BY SeqFacts
<1>3. /\ SubSeq(s, 1, k) \in Seq(S) /\ Len(SubSeq(s, 1, k)) = k
      /\ \A i \in 1..k : SubSeq(s, 1, k)[i] = s[i]
  BY <1>2
<1>4. \A i \in 1..k : i \in 1..Len(s)
  BY <1>2
<1> WITNESS SubSeq(s, 1, k) \in Seq(S)
<1> QED
  BY <1>1, <1>3, <1>4

\* A SYN: a new entry under the client key, whatever was there before.
LEMMA SynStep == IInv /\ ProcessSyn => IInv'
<1> SUFFICES ASSUME IInv, ProcessSyn PROVE IInv'
  OBVIOUS
<1>0. /\ up # <<>> /\ Head(up).flag = "syn" /\ up' = Tail(up)
      /\ UNCHANGED <<mmds, client, since>>
  BY DEF ProcessSyn
<1>1. PICK isn \in ServerIsns :
         /\ conn' = [next |-> Plus(Head(up).seq, 1), first |-> isn,
                     request |-> <<>>, response |-> None]
         /\ lastIsn' = isn
         /\ Write(<<Frame("synack", isn, Plus(Head(up).seq, 1), <<>>)>>)
  BY DEF ProcessSyn
<1>u. /\ Len(up) \in Nat /\ Len(up) > 0 /\ Len(up') = Len(up) - 1 /\ 1 \in 1..Len(up)
      /\ up' \in Seq(UpFrames) /\ Head(up) = up[1]
      /\ \A i \in 1..Len(up') : i + 1 \in 1..Len(up) /\ up'[i] = up[i + 1]
  BY <1>0, TailFacts DEF IInv, TypeOK
<1>h. Head(up).seq = ClientIsn /\ Head(up).load = <<>> /\ InUp("syn")
  BY <1>0, <1>u DEF IInv, SmallInv, InUp
<1>z. Plus(Head(up).seq, 1) = RequestSeq(0) /\ RequestSeq(0) \in Seqs
  BY <1>h, ClientFacts DEF RequestSeq
<1>i. isn \in Seqs /\ isn # None
  BY SpaceFacts
<1>c. /\ conn'.first = isn /\ conn'.request = <<>> /\ conn'.response = None
      /\ conn'.next = RequestSeq(0) /\ Len(conn'.request) = 0
      /\ conn' \in Connections
  BY <1>1, <1>z, <1>i DEF Connections
<1> DEFINE g == Frame("synack", isn, RequestSeq(0), <<>>)
<1>g. g \in DownFrames /\ g.flag = "synack" /\ g.load = <<>>
  BY ONLY <1>z, <1>i DEF Frame, DownFrames
<1> HIDE DEF g
<1>d. /\ Len(down) \in Nat /\ Len(down') \in Len(down)..Len(down) + 1
      /\ down' \in Seq(DownFrames)
      /\ \A i \in 1..Len(down') : down'[i] = IF i = Len(down) + 1 THEN g ELSE down[i]
  <2>1. down \in Seq(DownFrames)
    BY Zenon DEF IInv, TypeOK
  <2>2. Write(<<g>>)
    BY Zenon, <1>1, <1>z DEF g
  <2>3. <<g>> \in Seq(DownFrames) /\ Len(<<g>>) = 1 /\ <<g>>[1] = g
    BY ONLY <1>g
  <2>4. PICK t \in Seq(DownFrames) :
           /\ down' = down \o t /\ Len(t) \in 0..1
           /\ \A i \in 1..Len(t) : t[i] = g
    <3>1. PICK t \in Seq(DownFrames) :
             /\ down' = down \o t /\ Len(t) \in 0..Len(<<g>>)
             /\ \A i \in 1..Len(t) : i \in 1..Len(<<g>>) /\ t[i] = <<g>>[i]
      BY ONLY Zenon, <2>2, <2>3, WriteFacts
    <3> QED
      BY ONLY <3>1, <2>3
  <2> QED
    BY ONLY <2>1, <2>4, ConcatSplit
<1>s. client.st \in {"syn", "est", "lastack"} /\ Received = 0 /\ Received' = Received
  <2>1. client.st \notin {"closed", "done"}
    BY <1>h DEF IInv, Closed
  <2>2. client.st \in {"syn", "est", "lastack"}
    BY <2>1 DEF IInv, TypeOK
  <2>3. client.st = "syn" => Received = 0
    BY DEF IInv, SmallInv, Received
  <2>4. client.st # "syn" => ~(Received > 0)
    BY <1>h, <2>2 DEF IInv, Established
  <2>5. Received \in Nat /\ Received' = Received
    BY ONLY <1>0, ClientFacts DEF Received
  <2> QED
    BY <2>2, <2>3, <2>4, <2>5
<1>a. client.st # "syn" => \A i \in 1..Len(down) : down[i].flag = "synack"
  BY <1>h, <1>s DEF IInv, Established
<1>l. client.st # "syn" => \A i \in 1..Len(down') : down'[i].flag = "synack" /\ down'[i].load = <<>>
  BY <1>a, <1>d, <1>g DEF IInv, SmallInv
<1>2. TypeOK'
  BY <1>0, <1>1, <1>u, <1>d, <1>c, <1>i DEF IInv, TypeOK
<1>3. SmallInv'
  <2>1. \A i \in 1..Len(up') : up'[i].flag = "syn" => up'[i].seq = ClientIsn /\ up'[i].load = <<>>
    BY <1>u DEF IInv, SmallInv
  <2>2. \A i \in 1..Len(down') : down'[i].flag = "synack" => down'[i].load = <<>>
    BY <1>d, <1>g DEF IInv, SmallInv
  <2> QED
    BY <2>1, <2>2, <1>0, <1>1, <1>c, <1>i, <1>s DEF IInv, SmallInv
<1>4. Opening'
  <2> SUFFICES ASSUME client.st = "syn" PROVE Opening'
    BY <1>0 DEF Opening
  <2>1. \A i, j \in 1..Len(up) : i < j /\ up[i].flag = "syn" => up[j].flag = "syn"
    BY DEF IInv, Opening
  <2>2. \A i, j \in 1..Len(down) : i < j /\ down[i].flag = "synack" => down[j].flag = "synack"
    BY DEF IInv, Opening
  <2>3. \A i \in 1..Len(up') : up'[i].flag = "syn"
    BY <2>1, <1>u, <1>0
  <2>4. \A i, j \in 1..Len(down') : i < j /\ down'[i].flag = "synack" => down'[j].flag = "synack"
    BY ONLY <2>2, <1>d, <1>g
  <2>5. Fresh'
    BY <1>c DEF Fresh
  <2> QED
    BY <2>3, <2>4, <2>5 DEF Opening
<1>5. Established'
  <2> SUFFICES ASSUME client.st \in {"est", "lastack"} PROVE Established'
    BY <1>0, <1>s DEF Established
  <2>1. \A i, j \in 1..Len(up) : i < j /\ up[i].flag # "syn" => up[j].flag # "syn"
    BY DEF IInv, Established
  <2>2. \A i, j \in 1..Len(up') : i < j /\ up'[i].flag # "syn" => up'[j].flag # "syn"
    BY ONLY <2>1, <1>u
  <2>3. client'.peer \in Seqs
    BY <1>0 DEF IInv, Established
  <2> QED
    BY <2>2, <2>3, <1>l, <1>s DEF Established
<1>6. Closed'
  BY <1>0, <1>s DEF IInv, Closed
<1>7. RequestInv'
  <2>1. PICK n \in ReqLens : \E e \in 0..n + 1 :
        /\ client.st # "syn" => n = client.len /\ e = Sent
        /\ \A i \in 1..Len(up) : up[i].flag # "syn" => FrameOf(up[i], n, e)
    BY DEF IInv, RequestInv
  <2>2. PICK e \in 0..n + 1 :
        /\ client.st # "syn" => n = client.len /\ e = Sent
        /\ \A i \in 1..Len(up) : up[i].flag # "syn" => FrameOf(up[i], n, e)
    BY <2>1
  <2>3. n \in Nat /\ n > 0
    BY SpaceFacts
  <2>4. ConnOf(n, e)'
    BY <2>3, <1>c DEF ConnOf, PrefixOf
  <2>5. \A i \in 1..Len(up') : up'[i].flag # "syn" => FrameOf(up'[i], n, e)
    BY ONLY <2>2, <1>u
  <2>6. Sent' = Sent
    BY <1>0 DEF Sent
  <2> QED
    BY <2>2, <2>4, <2>5, <2>6, <1>0 DEF RequestInv
<1>8. ResponseInv'
  <2> SUFFICES ASSUME client.st # "syn" PROVE ResponseInv'
    BY <1>0 DEF ResponseInv
  <2>1. mmds' \in since'
    BY <1>0, <1>s DEF IInv, SmallInv
  <2>2. \A i \in 1..Len(down') : AnswerOf(down[i], mmds)'
    BY <1>l DEF AnswerOf
  <2>3. \A i \in 1..Received' : client'.got[i] = Chunk(mmds', Skipped' + i)
    BY <1>s
  <2> QED
    BY <2>1, <2>2, <2>3, <1>c DEF ResponseInv
<1>9. AnswerInv'
  BY <1>0, <1>l, <1>s DEF AnswerInv
<1>10. WeightInv'
  <2>1. PICK total \in Nat : Brings(up, total) /\ Len(up) + Len(down) + total <= MaxFlight * Chunks
    BY DEF IInv, WeightInv
  <2>2. PICK rest \in Nat : Brings(up', rest) /\ rest <= total
    BY <2>1, <1>0, BringsTail, SpaceFacts DEF IInv, TypeOK, Extra
  <2>3. MaxFlight * Chunks \in Nat
    BY SpaceFacts
  <2>4. Len(up') + Len(down') + rest <= MaxFlight * Chunks
    BY ONLY <2>1, <2>2, <2>3, <1>u, <1>d
  <2> QED
    BY <2>2, <2>4 DEF WeightInv
<1> QED
  BY <1>2, <1>3, <1>4, <1>5, <1>6, <1>7, <1>8, <1>9, <1>10 DEF IInv

\* A payload that counts continues the prefix (Payload).
LEMMA PayloadPrefix ==
    ASSUME NEW n \in ReqLens, NEW e \in 0..n + 1, NEW c \in Connections, NEW f \in UpFrames,
           PrefixOf(c, n, e), FrameOf(f, n, e)
    PROVE  /\ Payload(c, f) \in Connections /\ PrefixOf(Payload(c, f), n, e)
           /\ Payload(c, f).first = c.first /\ Payload(c, f).response = c.response
           /\ Len(c.request) = n \/ f.load = <<>> => Payload(c, f).request = c.request
<1> DEFINE p == Payload(c, f)
<1>n. n \in Nat /\ n > 0 /\ n + 2 < Modulus /\ Modulus \in Nat
  BY SpaceFacts
<1>t. /\ c.request \in Seq(Nat) /\ Len(c.request) \in Nat /\ c.next \in Seqs
      /\ f.load \in Seq(Nat) /\ Len(f.load) \in Nat
  BY SeqFacts DEF Connections, UpFrames
<1>1. CASE ~(f.load # <<>> /\ f.seq = c.next)
  BY <1>1 DEF Payload
<1>2. CASE f.load # <<>> /\ f.seq = c.next
  <2>1. PICK a \in 0..n - 1 :
                /\ f.seq = RequestSeq(a)
                /\ a + Len(f.load) <= n /\ a + Len(f.load) <= e
                /\ \A i \in 1..Len(f.load) : f.load[i] = Unit(n, a + i)
    BY Zenon, <1>2 DEF FrameOf
  <2>2. PICK m \in {Len(c.request), n + 1} :
          /\ c.next = RequestSeq(m) /\ m <= e
          /\ m = n + 1 => Len(c.request) = n
    BY DEF PrefixOf
  <2>3. Len(c.request) <= n /\ \A i \in 1..Len(c.request) : c.request[i] = Unit(n, i)
    BY DEF PrefixOf
  <2>4. a \in 0..Modulus - 1 /\ m \in 0..Modulus - 1
    BY <1>n, <1>t, <2>3
  <2>5. a = m
    BY Zenon, <2>4, <1>2, <2>1, <2>2, RequestSeqInjective
  <2>6. m = Len(c.request) /\ Len(c.request) = a /\ Len(c.request) # n
    BY <2>5, <1>n, <2>2
  <2>7. /\ p = [c EXCEPT !.request = c.request \o f.load, !.next = Plus(c.next, Len(f.load))]
    BY <1>2 DEF Payload
  <2>8. /\ p.first = c.first /\ p.response = c.response
        /\ p.request = c.request \o f.load /\ p.next = Plus(c.next, Len(f.load))
        /\ p = [next |-> p.next, first |-> c.first, request |-> p.request, response |-> c.response]
    BY Zenon, <2>7 DEF Connections
  <2> HIDE DEF p
  <2>9. /\ p.request \in Seq(Nat) /\ Len(p.request) = a + Len(f.load)
        /\ \A i \in 1..a + Len(f.load) :
              p.request[i] = IF i <= a THEN c.request[i] ELSE f.load[i - a]
    <3>1. /\ c.request \o f.load \in Seq(Nat)
          /\ Len(c.request \o f.load) = Len(c.request) + Len(f.load)
          /\ \A i \in 1..Len(c.request) + Len(f.load) :
                (c.request \o f.load)[i] =
                    IF i <= Len(c.request) THEN c.request[i] ELSE f.load[i - Len(c.request)]
      BY Zenon, <1>t, ConcatSplit
    <3> QED
      BY ONLY Zenon, <3>1, <2>6, <2>8, <1>t
  <2>10. p.next = RequestSeq(a + Len(f.load))
    <3>1. Len(f.load) \in 0..Modulus - 1 /\ a + Len(f.load) < Modulus
      BY <1>n, <1>t, <2>1
    <3> QED
      BY <3>1, <2>4, <1>2, <2>1, <2>8, RequestSeqPlus
  <2>11. \A i \in 1..a + Len(f.load) : p.request[i] = Unit(n, i)
    <3> SUFFICES ASSUME NEW i \in 1..a + Len(f.load) PROVE p.request[i] = Unit(n, i)
      OBVIOUS
    <3>1. CASE i <= a
      <4>1. i \in 1..Len(c.request)
        BY <3>1, <2>6
      <4> QED
        BY Zenon, <4>1, <3>1, <2>3, <2>9
    <3>2. CASE ~(i <= a)
      <4>1. i - a \in 1..Len(f.load) /\ a + (i - a) = i
        BY <3>2, <1>t
      <4> QED
        BY Zenon, <4>1, <3>2, <2>1, <2>9
    <3> QED
      BY <3>1, <3>2
  <2>12. p \in Connections
    <3>1. p.next \in Seqs
      BY ONLY <1>t, <2>8, PlusType
    <3> QED
      BY Zenon, <3>1, <2>8, <2>9 DEF Connections
  <2>13. PrefixOf(p, n, e)
    BY <2>1, <2>9, <2>10, <2>11, <1>t, <1>n DEF PrefixOf
  <2> QED
    BY Zenon, <1>2, <2>6, <2>8, <2>12, <2>13 DEF p
<1> QED
  BY <1>1, <1>2

\* A FIN counts when all of the request has come (Fin).
LEMMA FinPrefix ==
    ASSUME NEW n \in ReqLens, NEW e \in 0..n + 1, NEW c \in Connections, NEW f \in UpFrames,
           PrefixOf(c, n, e), FrameOf(f, n, e)
    PROVE  /\ Fin(c, f) \in Connections /\ PrefixOf(Fin(c, f), n, e)
           /\ Fin(c, f).first = c.first /\ Fin(c, f).response = c.response
           /\ Fin(c, f).request = c.request
<1> DEFINE p == Fin(c, f)
<1>n. n \in Nat /\ n > 0 /\ n + 2 < Modulus /\ Modulus \in Nat
  BY SpaceFacts
<1>t. c.request \in Seq(Nat) /\ Len(c.request) \in Nat /\ c.next \in Seqs /\ f.seq \in Seqs
  BY SeqFacts DEF Connections, UpFrames
<1>1. CASE ~(f.flag = "fin" /\ Plus(f.seq, Len(f.load)) = c.next)
  BY <1>1 DEF Fin
<1>2. CASE f.flag = "fin" /\ Plus(f.seq, Len(f.load)) = c.next
  <2>1. f.load = <<>> /\ f.seq = RequestSeq(n) /\ e = n + 1
    BY <1>2 DEF FrameOf
  <2>2. n \in 0..Modulus - 1 /\ n + 1 \in 0..Modulus - 1 /\ 1 \in 0..Modulus - 1 /\ 0 \in 0..Modulus - 1
    BY <1>n
  <2>3. c.next = RequestSeq(n)
    <3>1. Len(f.load) = 0
      BY <2>1
    <3>2. Plus(RequestSeq(n), 0) = RequestSeq(n + 0)
      BY <2>2, <1>n, RequestSeqPlus
    <3> QED
      BY <3>1, <3>2, <2>1, <1>2, <1>n
  <2>4. PICK m \in {Len(c.request), n + 1} :
          /\ c.next = RequestSeq(m) /\ m <= e
          /\ m = n + 1 => Len(c.request) = n
    BY DEF PrefixOf
  <2>5. Len(c.request) <= n /\ \A i \in 1..Len(c.request) : c.request[i] = Unit(n, i)
    BY DEF PrefixOf
  <2>6. m \in 0..Modulus - 1
    BY <1>n, <1>t, <2>5
  <2>7. m = n
    BY Zenon, <2>2, <2>3, <2>4, <2>6, RequestSeqInjective
  <2>8. Len(c.request) = n
    BY <2>7, <1>n
  <2>9. /\ p.first = c.first /\ p.response = c.response /\ p.request = c.request
        /\ p.next = Plus(c.next, 1)
        /\ p = [next |-> p.next, first |-> c.first, request |-> c.request, response |-> c.response]
    BY <1>2 DEF Fin, Connections
  <2> HIDE DEF p
  <2>10. p.next = RequestSeq(n + 1)
    BY <2>2, <2>3, <2>9, <1>n, RequestSeqPlus
  <2>11. PrefixOf(p, n, e)
    BY <2>1, <2>5, <2>8, <2>9, <2>10, <1>n DEF PrefixOf
  <2>12. p \in Connections
    <3>1. p.next \in Seqs
      BY <1>t, <2>9, PlusType
    <3> QED
      BY <3>1, <2>9 DEF Connections
  <2> QED
    BY <2>9, <2>11, <2>12 DEF p
<1> QED
  BY <1>1, <1>2

\* The blank line is in the request exactly when all of it is (Complete).
LEMMA CompleteIff ==
    ASSUME NEW n \in ReqLens, NEW e \in 0..n + 1, NEW c \in Connections, PrefixOf(c, n, e)
    PROVE  Complete(c) <=> Len(c.request) = n
<1>n. n \in Nat /\ n > 0
  BY SpaceFacts
<1>t. c.request \in Seq(Nat) /\ Len(c.request) \in Nat /\ DOMAIN c.request = 1..Len(c.request)
  BY SeqFacts DEF Connections
<1>1. Len(c.request) <= n /\ \A i \in 1..Len(c.request) : c.request[i] = Unit(n, i)
  BY DEF PrefixOf
<1>2. \A i \in 1..Len(c.request) : c.request[i] = BlankLine <=> i = n
  BY <1>1, <1>n, <1>t DEF Unit, BlankLine
<1>3. Complete(c) <=> \E i \in 1..Len(c.request) : c.request[i] = BlankLine
  BY <1>t DEF Complete
<1> QED
  BY <1>1, <1>2, <1>3, <1>n, <1>t

\* The response is Chunks frames, numbered from the one after the SYN-ACK.
LEMMA ResponseFramesFacts ==
    ASSUME NEW c \in Connections, NEW d \in Documents
    PROVE  /\ ResponseFrames(c, d) \in Seq(DownFrames) /\ Len(ResponseFrames(c, d)) = Chunks
           /\ \A i \in 1..Chunks :
                 /\ ResponseFrames(c, d)[i].flag # "synack"
                 /\ ResponseFrames(c, d)[i].load = <<Chunk(d, i)>>
                 /\ ResponseFrames(c, d)[i].seq = Plus(Plus(c.first, 1), i - 1)
<1> DEFINE r == ResponseFrames(c, d)
<1>c. Chunks \in Nat /\ c.first \in Seqs /\ c.next \in Seqs
  BY ONLY SpaceFacts DEF Connections
<1>1. ASSUME NEW i \in 1..Chunks
      PROVE  LET g == Frame(IF i = Chunks THEN "fin" ELSE "data",
                            Plus(Plus(c.first, 1), i - 1), c.next, <<Chunk(d, i)>>)
             IN  /\ g \in DownFrames /\ g.flag # "synack" /\ g.load = <<Chunk(d, i)>>
                 /\ g.seq = Plus(Plus(c.first, 1), i - 1)
  <2>1. Plus(c.first, 1) \in Seqs /\ i - 1 \in Nat
    BY <1>c, PlusType
  <2>2. Plus(Plus(c.first, 1), i - 1) \in Seqs
    BY <2>1, PlusType
  <2>3. <<Chunk(d, i)>> \in Seq(ChunkSet)
    BY DEF Chunk, ChunkSet
  <2> QED
    BY <2>2, <2>3, <1>c DEF Frame, DownFrames
<1>2. r \in Seq(DownFrames) /\ Len(r) = Chunks
  <2>1. /\ DOMAIN r = 1..Chunks /\ r = [i \in 1..Chunks |-> r[i]]
        /\ \A i \in 1..Chunks : r[i] \in DownFrames
    BY Zenon, <1>1 DEF ResponseFrames
  <2> HIDE DEF r
  <2> QED
    BY <2>1, <1>c
<1> QED
  BY Zenon, <1>1, <1>2, <1>c DEF ResponseFrames

\* r is what may be sent for frame f on connection c, whose response is to
\* document d.
ReplyOf(r, c, f, d) ==
    /\ r \in Seq(DownFrames)
    /\ Len(r) \in Nat
    /\ Len(r) <= IF f.load # <<>> THEN Chunks ELSE 1
    /\ \A i \in 1..Len(r) :
          /\ r[i].flag # "synack"
          /\ r[i].load # <<>> =>
                /\ d # None
                /\ \E j \in 1..Chunks :
                      /\ r[i].load = <<Chunk(d, j)>>
                      /\ r[i].seq = Plus(Plus(c.first, 1), j - 1)

\* What is sent for a frame: at most a response, and that only for a payload.
LEMMA ReplyFacts ==
    ASSUME NEW c \in Connections, NEW f \in UpFrames, mmds \in Documents,
           f.load = <<>> /\ c.response = None => ~Complete(c),
           NEW d \in Documents \cup {None},
           d = IF c.response = None /\ Complete(c) THEN mmds ELSE c.response
    PROVE  ReplyOf(Reply(c, f), c, f, d)
<1> DEFINE r == Reply(c, f)
<1> SUFFICES /\ r \in Seq(DownFrames)
             /\ Len(r) \in Nat
             /\ Len(r) <= IF f.load # <<>> THEN Chunks ELSE 1
             /\ \A i \in 1..Len(r) :
                   /\ r[i].flag # "synack"
                   /\ r[i].load # <<>> =>
                         /\ d # None
                         /\ \E j \in 1..Chunks :
                               /\ r[i].load = <<Chunk(d, j)>>
                               /\ r[i].seq = Plus(Plus(c.first, 1), j - 1)
  BY DEF ReplyOf
<1> HIDE DEF r
<1>c. /\ Chunks \in Nat /\ Chunks > 0 /\ c.first \in Seqs /\ c.next \in Seqs
      /\ c.response \in Documents \cup {None} /\ None \notin Documents
  BY SpaceFacts DEF Connections
<1>a. ASSUME NEW k \in Nat, r = <<Frame("ack", Plus(c.first, k), c.next, <<>>)>>
      PROVE  /\ r \in Seq(DownFrames) /\ Len(r) = 1
             /\ \A i \in 1..Len(r) : r[i].flag # "synack" /\ r[i].load = <<>>
  <2> DEFINE g == Frame("ack", Plus(c.first, k), c.next, <<>>)
  <2>1. g \in DownFrames /\ g.flag # "synack" /\ g.load = <<>>
    <3>1. Plus(c.first, k) \in Seqs /\ <<>> \in Seq(ChunkSet)
      BY <1>c, PlusType
    <3> QED
      BY <3>1, <1>c DEF Frame, DownFrames
  <2> HIDE DEF g
  <2>2. r = <<g>>
    BY ONLY <1>a DEF g
  <2> QED
    BY ONLY <2>1, <2>2
<1>b. ASSUME NEW g \in Documents, r = ResponseFrames(c, g), f.load # <<>>, d = g
      PROVE  /\ r \in Seq(DownFrames) /\ Len(r) = Chunks
             /\ \A i \in 1..Len(r) :
                   /\ r[i].flag # "synack"
                   /\ d # None
                   /\ \E j \in 1..Chunks :
                         r[i].load = <<Chunk(d, j)>> /\ r[i].seq = Plus(Plus(c.first, 1), j - 1)
  <2>1. /\ r \in Seq(DownFrames) /\ Len(r) = Chunks
        /\ \A i \in 1..Chunks :
              /\ r[i].flag # "synack"
              /\ r[i].load = <<Chunk(g, i)>>
              /\ r[i].seq = Plus(Plus(c.first, 1), i - 1)
    BY <1>b, ResponseFramesFacts
  <2>2. d # None
    BY <1>b, <1>c
  <2> QED
    BY ONLY <1>b, <2>1, <2>2
<1>1. CASE c.response # None /\ f.load # <<>>
  <2>1. r = ResponseFrames(c, c.response) /\ d = c.response /\ c.response \in Documents
    BY <1>1, <1>c DEF r, Reply
  <2>2. /\ r \in Seq(DownFrames) /\ Len(r) = Chunks
        /\ \A i \in 1..Len(r) :
              /\ r[i].flag # "synack"
              /\ d # None
              /\ \E j \in 1..Chunks :
                    r[i].load = <<Chunk(d, j)>> /\ r[i].seq = Plus(Plus(c.first, 1), j - 1)
    BY Zenon, <1>1, <1>b, <2>1
  <2>3. Len(r) \in Nat
    BY <1>c, <2>2
  <2>4. Len(r) <= IF f.load # <<>> THEN Chunks ELSE 1
    BY ONLY <1>c, <1>1, <2>2
  <2>5. \A i \in 1..Len(r) :
           /\ r[i].flag # "synack"
           /\ r[i].load # <<>> =>
                 /\ d # None
                 /\ \E j \in 1..Chunks :
                       /\ r[i].load = <<Chunk(d, j)>>
                       /\ r[i].seq = Plus(Plus(c.first, 1), j - 1)
    BY ONLY <2>2
  <2> QED
    BY ONLY Zenon, <2>2, <2>3, <2>4, <2>5
<1>2. CASE c.response # None /\ f.load = <<>> /\ f.flag = "fin"
  <2>1. r = <<Frame("ack", Plus(c.first, Chunks + 2), c.next, <<>>)>> /\ Chunks + 2 \in Nat
    BY <1>2, <1>c DEF r, Reply
  <2>2. /\ r \in Seq(DownFrames) /\ Len(r) = 1
        /\ \A i \in 1..Len(r) : r[i].flag # "synack" /\ r[i].load = <<>>
    BY <1>a, <2>1
  <2> QED
    BY <1>2, <2>2
<1>3. CASE c.response # None /\ f.load = <<>> /\ f.flag # "fin"
  <2>1. r = <<>>
    BY <1>3 DEF r, Reply
  <2>2. r \in Seq(DownFrames) /\ Len(r) = 0
    BY ONLY <2>1
  <2> QED
    BY ONLY <1>3, <2>2
<1>4. CASE c.response = None /\ Complete(c)
  <2>1. r = ResponseFrames(c, mmds) /\ d = mmds /\ f.load # <<>>
    BY <1>4, <1>c DEF r, Reply
  <2>2. /\ r \in Seq(DownFrames) /\ Len(r) = Chunks
        /\ \A i \in 1..Len(r) :
              /\ r[i].flag # "synack"
              /\ d # None
              /\ \E j \in 1..Chunks :
                    r[i].load = <<Chunk(d, j)>> /\ r[i].seq = Plus(Plus(c.first, 1), j - 1)
    BY Zenon, <1>b, <2>1
  <2>3. Len(r) \in Nat
    BY <1>c, <2>2
  <2>4. Len(r) <= IF f.load # <<>> THEN Chunks ELSE 1
    BY ONLY <1>c, <2>1, <2>2
  <2>5. \A i \in 1..Len(r) :
           /\ r[i].flag # "synack"
           /\ r[i].load # <<>> =>
                 /\ d # None
                 /\ \E j \in 1..Chunks :
                       /\ r[i].load = <<Chunk(d, j)>>
                       /\ r[i].seq = Plus(Plus(c.first, 1), j - 1)
    BY ONLY <2>2
  <2> QED
    BY ONLY Zenon, <2>2, <2>3, <2>4, <2>5
<1>5. CASE c.response = None /\ ~Complete(c)
  <2>1. r = <<Frame("ack", Plus(c.first, 1), c.next, <<>>)>> /\ 1 \in Nat
    BY ONLY <1>5 DEF r, Reply
  <2>2. /\ r \in Seq(DownFrames) /\ Len(r) = 1
        /\ \A i \in 1..Len(r) : r[i].flag # "synack" /\ r[i].load = <<>>
    BY <1>a, <2>1
  <2> QED
    BY <1>c, <2>2
<1> QED
  BY Zenon, <1>1, <1>2, <1>3, <1>4, <1>5

\* An element of s \o t, said with the place it has in s or in t.
LEMMA ConcatFacts ==
    ASSUME NEW S, NEW s \in Seq(S), NEW t \in Seq(S)
    PROVE  /\ Len(s) \in Nat /\ Len(t) \in Nat /\ Len(s \o t) = Len(s) + Len(t)
           /\ s \o t \in Seq(S)
           /\ \A i \in 1..Len(s \o t) :
                 \/ i \in 1..Len(s) /\ (s \o t)[i] = s[i]
                 \/ i > Len(s) /\ i - Len(s) \in 1..Len(t) /\ (s \o t)[i] = t[i - Len(s)]
<1>1. Len(s) \in Nat /\ Len(t) \in Nat
  BY SeqFacts
<1>2. /\ s \o t \in Seq(S) /\ Len(s \o t) = Len(s) + Len(t)
      /\ \A i \in 1..Len(s) + Len(t) :
            (s \o t)[i] = IF i <= Len(s) THEN s[i] ELSE t[i - Len(s)]
  BY ConcatSplit
<1>3. \A i \in 1..Len(s) + Len(t) :
         \/ i \in 1..Len(s) /\ i <= Len(s)
         \/ i > Len(s) /\ ~(i <= Len(s)) /\ i - Len(s) \in 1..Len(t)
  BY <1>1
<1> QED
  BY ONLY <1>1, <1>2, <1>3

\* Every element of u is one of s or of t.
ElementsFrom(u, s, t) ==
    \A i \in 1..Len(u) :
        \/ \E j \in 1..Len(s) : u[i] = s[j]
        \/ \E j \in 1..Len(t) : u[i] = t[j]

\* What is in s \o t is in s or in t.
LEMMA ConcatElements ==
    ASSUME NEW S, NEW s \in Seq(S), NEW t \in Seq(S)
    PROVE  ElementsFrom(s \o t, s, t)
<1>1. \A i \in 1..Len(s \o t) :
         \/ i \in 1..Len(s) /\ (s \o t)[i] = s[i]
         \/ i > Len(s) /\ i - Len(s) \in 1..Len(t) /\ (s \o t)[i] = t[i - Len(s)]
  BY ONLY Zenon, s \in Seq(S), t \in Seq(S), ConcatFacts
<1> QED
  BY ONLY Zenon, <1>1 DEF ElementsFrom

\* A frame without a payload is one the responder may send (Frame).
LEMMA EmptyFrame ==
    ASSUME NEW flag \in {"synack", "ack"}, NEW a \in Seqs, NEW b \in Seqs
    PROVE  /\ Frame(flag, a, b, <<>>) \in DownFrames
           /\ Frame(flag, a, b, <<>>).flag = flag
           /\ Frame(flag, a, b, <<>>).seq = a
<1>1. <<>> \in Seq(ChunkSet)
  OBVIOUS
<1>2. PICK z \in Seq(ChunkSet) : z = <<>>
  BY ONLY Zenon, <1>1
<1>3. /\ Frame(flag, a, b, z) \in DownFrames
      /\ Frame(flag, a, b, z).flag = flag /\ Frame(flag, a, b, z).seq = a
  BY ONLY flag \in {"synack", "ack"}, a \in Seqs, b \in Seqs, z \in Seq(ChunkSet)
     DEF Frame, DownFrames
<1> QED
  BY ONLY Zenon, <1>2, <1>3

\* A payload or a FIN leaves the connection on its request, and what is sent
\* for it is no SYN-ACK and part of no other response.
LEMMA SegmentStep == IInv /\ ProcessSegment => IInv'
<1> SUFFICES ASSUME IInv, ProcessSegment PROVE IInv'
  OBVIOUS
<1>0. /\ up # <<>> /\ conn # None /\ Head(up).flag # "syn" /\ up' = Tail(up)
      /\ UNCHANGED <<mmds, lastIsn, client, since>>
  BY DEF ProcessSegment
<1>1. CASE UNCHANGED <<conn, down>>
  BY <1>0, <1>1, DropUp
<1>2. CASE ~UNCHANGED <<conn, down>>
  <2>f. PICK f \in UpFrames : f = Head(up) /\ f.flag # "syn"
    BY <1>0, TailFacts DEF IInv, TypeOK
  <2>c. PICK c \in {Fin(Payload(conn, f), f)} : TRUE
    OBVIOUS
  <2>1. /\ conn' = IF c.response = None /\ Complete(c) THEN [c EXCEPT !.response = mmds] ELSE c
        /\ Write(Reply(c, f))
    BY <1>2, <2>f, <2>c DEF ProcessSegment
  <2>n. PICK n \in ReqLens : \E e \in 0..n + 1 :
        /\ client.st # "syn" => n = client.len /\ e = Sent
        /\ ConnOf(n, e)
        /\ \A i \in 1..Len(up) : up[i].flag # "syn" => FrameOf(up[i], n, e)
    BY DEF IInv, RequestInv
  <2>e. PICK e \in 0..n + 1 :
        /\ client.st # "syn" => n = client.len /\ e = Sent
        /\ ConnOf(n, e)
        /\ \A i \in 1..Len(up) : up[i].flag # "syn" => FrameOf(up[i], n, e)
    BY <2>n
  <2>u. /\ Len(up) \in Nat /\ Len(up) > 0 /\ Len(up') = Len(up) - 1 /\ 1 \in 1..Len(up)
        /\ up' \in Seq(UpFrames) /\ up[1] = f
        /\ \A i \in 1..Len(up') : i + 1 \in 1..Len(up) /\ up'[i] = up[i + 1]
    BY <1>0, <2>f, TailFacts DEF IInv, TypeOK
  <2>p. /\ conn \in Connections /\ PrefixOf(conn, n, e) /\ FrameOf(f, n, e)
        /\ conn.response = None <=> Len(conn.request) < n
    BY Zenon, <1>0, <2>e, <2>f, <2>u DEF IInv, TypeOK, ConnOf
  <2>2. /\ c \in Connections /\ PrefixOf(c, n, e) /\ c.first = conn.first
        /\ c.response = conn.response
        /\ Len(conn.request) = n \/ f.load = <<>> => c.request = conn.request
    <3>1. /\ Payload(conn, f) \in Connections /\ PrefixOf(Payload(conn, f), n, e)
          /\ Payload(conn, f).first = conn.first /\ Payload(conn, f).response = conn.response
          /\ Len(conn.request) = n \/ f.load = <<>> => Payload(conn, f).request = conn.request
      BY Zenon, <2>p, PayloadPrefix
    <3>2. /\ c \in Connections /\ PrefixOf(c, n, e) /\ c.first = Payload(conn, f).first
          /\ c.response = Payload(conn, f).response /\ c.request = Payload(conn, f).request
      <4>1. PICK p \in Connections : p = Payload(conn, f)
        BY Zenon, <3>1
      <4>2. PrefixOf(p, n, e) /\ FrameOf(f, n, e)
        BY Zenon, <4>1, <3>1, <2>p
      <4>3. /\ Fin(p, f) \in Connections /\ PrefixOf(Fin(p, f), n, e)
            /\ Fin(p, f).first = p.first /\ Fin(p, f).response = p.response
            /\ Fin(p, f).request = p.request
        BY ONLY Zenon, n \in ReqLens, e \in 0..n + 1, f \in UpFrames, p \in Connections,
                <4>2, FinPrefix
      <4>4. c = Fin(p, f)
        BY Zenon, <4>1, <2>c
      <4> QED
        BY ONLY Zenon, <4>1, <4>3, <4>4
    <3> QED
      BY Zenon, <3>1, <3>2
  <2>3. /\ Complete(c) <=> Len(c.request) = n
        /\ n \in Nat /\ Len(c.request) \in Nat /\ Len(c.request) <= n
        /\ Len(conn.request) \in Nat /\ Len(conn.request) <= n
    BY Zenon, <2>2, <2>p, CompleteIff, SpaceFacts, SeqFacts DEF Connections, PrefixOf
  <2>m. mmds \in Documents /\ None \notin Documents
    BY SpaceFacts DEF IInv, TypeOK
  <2>d. PICK d \in Documents \cup {None} :
           d = IF c.response = None /\ Complete(c) THEN mmds ELSE c.response
    BY ONLY Zenon, <2>2, <2>m DEF Connections
  <2>4. /\ conn' \in Connections /\ PrefixOf(conn', n, e) /\ conn'.first = conn.first
        /\ conn'.response = d /\ conn'.request = c.request
        /\ conn'.response = None <=> Len(conn'.request) < n
    <3>1. CASE c.response = None /\ Complete(c)
      <4>1. /\ conn' = [c EXCEPT !.response = mmds] /\ d = mmds
        BY <3>1, <2>1, <2>d
      <4>2. /\ conn'.next = c.next /\ conn'.first = c.first /\ conn'.request = c.request
            /\ conn'.response = d /\ conn' \in Connections
        BY ONLY Zenon, <4>1, <2>2, <2>m DEF Connections
      <4>3. PrefixOf(conn', n, e)
        BY ONLY <4>2, <2>2 DEF PrefixOf
      <4> QED
        BY <3>1, <4>1, <4>2, <4>3, <2>2, <2>3, <2>m
    <3>2. CASE ~(c.response = None /\ Complete(c))
      <4>1. conn' = c /\ d = c.response
        BY ONLY <3>2, <2>1, <2>d
      <4>2. c.response = None <=> Len(c.request) < n
        BY <3>2, <2>2, <2>3, <2>p
      <4> QED
        BY <4>1, <4>2, <2>2
    <3> QED
      BY Zenon, <3>1, <3>2
  <2>r0. ReplyOf(Reply(c, f), c, f, d)
    <3>1. f.load = <<>> /\ c.response = None => ~Complete(c)
      <4> SUFFICES ASSUME f.load = <<>>, c.response = None PROVE ~Complete(c)
        OBVIOUS
      <4>1. c.request = conn.request /\ conn.response = None
        BY ONLY <2>2, f.load = <<>>, c.response = None
      <4>2. Len(conn.request) < n
        BY ONLY <4>1, <2>p
      <4> QED
        <5>1. Len(c.request) = Len(conn.request)
          BY ONLY Zenon, <4>1
        <5>2. PICK k \in Nat : k = Len(conn.request)
          BY ONLY Zenon, <2>3
        <5>3. k # n
          BY ONLY <4>2, <5>2, <2>3, k \in Nat
        <5> QED
          BY ONLY Zenon, <5>1, <5>2, <5>3, <2>3
    <3>2. c \in Connections
      BY Zenon, <2>2
    <3> QED
      BY ONLY Zenon, <3>1, <3>2, f \in UpFrames, d \in Documents \cup {None}, <2>d, <2>m,
              ReplyFacts
  <2>r. /\ Reply(c, f) \in Seq(DownFrames) /\ Len(Reply(c, f)) \in Nat
        /\ Len(Reply(c, f)) <= IF f.load # <<>> THEN Chunks ELSE 1
        /\ \A i \in 1..Len(Reply(c, f)) :
              /\ Reply(c, f)[i].flag # "synack"
              /\ Reply(c, f)[i].load # <<>> =>
                    /\ d # None
                    /\ \E j \in 1..Chunks :
                          /\ Reply(c, f)[i].load = <<Chunk(d, j)>>
                          /\ Reply(c, f)[i].seq = Plus(Plus(c.first, 1), j - 1)
    BY ONLY Zenon, <2>r0 DEF ReplyOf
  <2>w. PICK r \in Seq(DownFrames) :
           /\ down' = down \o r /\ Len(r) \in 0..Len(Reply(c, f))
           /\ \A i \in 1..Len(r) : i \in 1..Len(Reply(c, f)) /\ r[i] = Reply(c, f)[i]
    BY ONLY Zenon, <2>1, <2>r, WriteFacts
  <2>5. /\ r \in Seq(DownFrames) /\ Len(r) \in Nat
        /\ Len(r) <= IF f.load # <<>> THEN Chunks ELSE 1
        /\ \A i \in 1..Len(r) :
              /\ r[i].flag # "synack"
              /\ r[i].load # <<>> =>
                    /\ d # None
                    /\ \E j \in 1..Chunks :
                          r[i].load = <<Chunk(d, j)>> /\ r[i].seq = Plus(Plus(c.first, 1), j - 1)
    <3>1. PICK k \in Nat : k = Len(Reply(c, f)) /\ k <= IF f.load # <<>> THEN Chunks ELSE 1
      BY ONLY Zenon, <2>r
    <3>2. Chunks \in Nat
      BY ONLY SpaceFacts
    <3>3. Len(r) \in 0..k
      BY ONLY Zenon, <2>w, <3>1
    <3>4. Len(r) \in Nat /\ Len(r) <= IF f.load # <<>> THEN Chunks ELSE 1
      BY ONLY <3>1, <3>2, <3>3, k \in Nat
    <3> QED
      BY ONLY Zenon, <3>4, <2>r, <2>w, r \in Seq(DownFrames)
  <2>6. /\ Len(down) \in Nat /\ Len(down') = Len(down) + Len(r) /\ down' \in Seq(DownFrames)
        /\ \A i \in 1..Len(down') :
              \/ i \in 1..Len(down) /\ down'[i] = down[i]
              \/ i > Len(down) /\ i - Len(down) \in 1..Len(r) /\ down'[i] = r[i - Len(down)]
    <3>1. down \in Seq(DownFrames)
      BY ONLY IInv DEF IInv, TypeOK
    <3> QED
      BY ONLY <2>w, <3>1, r \in Seq(DownFrames), ConcatFacts
  <2>7. Received' = Received /\ Skipped' = Skipped /\ Sent' = Sent
    BY <1>0 DEF Received, Skipped, Sent
  <2>8. lastIsn = conn.first /\ lastIsn \in Seqs /\ lastIsn # None
    BY Zenon, <1>0, <2>p, SpaceFacts DEF IInv, SmallInv, Connections
  <2> QED
    <3>1. TypeOK'
      BY Zenon, <1>0, <2>u, <2>6, <2>4 DEF IInv, TypeOK
    <3>2. SmallInv'
      <4>1. \A i \in 1..Len(up') : up'[i].flag = "syn" => up'[i].seq = ClientIsn /\ up'[i].load = <<>>
        BY <2>u DEF IInv, SmallInv
      <4>2. \A i \in 1..Len(down') : down'[i].flag = "synack" => down'[i].load = <<>>
        BY <2>5, <2>6 DEF IInv, SmallInv
      <4> QED
        BY Zenon, <4>1, <4>2, <1>0, <2>4, <2>7, <2>8 DEF IInv, SmallInv
    <3>3. Opening'
      <4> SUFFICES ASSUME client.st = "syn" PROVE Opening'
        BY Zenon, <1>0 DEF Opening
      <4>1. \A i \in 1..Len(down) : down[i].flag # "synack"
        BY Zenon, <2>u, <2>f DEF IInv, Opening, InDown
      <4>2. \A i \in 1..Len(down') : down'[i].flag # "synack"
        BY Zenon, <4>1, <2>5, <2>6
      <4>3. \A i, j \in 1..Len(up) : i < j /\ up[i].flag = "syn" => up[j].flag = "syn"
        BY Zenon DEF IInv, Opening
      <4>4. \A i, j \in 1..Len(up') : i < j /\ up'[i].flag = "syn" => up'[j].flag = "syn"
        <5> SUFFICES ASSUME NEW i \in 1..Len(up'), NEW j \in 1..Len(up'), i < j,
                            up'[i].flag = "syn"
                     PROVE  up'[j].flag = "syn"
          OBVIOUS
        <5>1. /\ i + 1 \in 1..Len(up) /\ up'[i] = up[i + 1]
              /\ j + 1 \in 1..Len(up) /\ up'[j] = up[j + 1] /\ i + 1 < j + 1
          BY <2>u
        <5> QED
          BY ONLY Zenon, <5>1, <4>3, up'[i].flag = "syn"
      <4> QED
        BY ONLY Zenon, <4>2, <4>4 DEF Opening, InDown
    <3>s. client.st # "syn" => ~InUp("syn") /\ ~InUp("syn")'
      <4> SUFFICES ASSUME client.st # "syn" PROVE ~InUp("syn") /\ ~InUp("syn")'
        OBVIOUS
      <4>1. ~InUp("syn")
        <5>1. CASE client.st = "closed"
          BY <5>1 DEF IInv, Closed
        <5>2. CASE client.st \in {"est", "lastack", "done"}
          <6>1. \A i, j \in 1..Len(up) : i < j /\ up[i].flag # "syn" => up[j].flag # "syn"
            BY <5>2 DEF IInv, Established
          <6>2. \A j \in 1..Len(up) : j = 1 \/ 1 < j
            BY <2>u
          <6> QED
            BY <6>1, <6>2, <2>u, <2>f DEF InUp
        <5> QED
          BY <5>1, <5>2 DEF IInv, TypeOK
      <4> QED
        BY Zenon, <4>1, <2>u DEF InUp
    <3>d. ~InDown("synack") => ~InDown("synack")'
      BY Zenon, <2>5, <2>6 DEF InDown
    <3>4. Established'
      <4> SUFFICES ASSUME client.st \in {"est", "lastack", "done"} PROVE Established'
        BY Zenon, <1>0 DEF Established
      <4>1. \A i, j \in 1..Len(down) : i < j /\ down[i].flag # "synack" => down[j].flag # "synack"
        BY Zenon DEF IInv, Established
      <4>2. \A i, j \in 1..Len(down') : i < j /\ down'[i].flag # "synack" => down'[j].flag # "synack"
        <5> SUFFICES ASSUME NEW i \in 1..Len(down'), NEW j \in 1..Len(down'), i < j,
                            down'[i].flag # "synack"
                     PROVE  down'[j].flag # "synack"
          OBVIOUS
        <5>1. CASE j > Len(down)
          <6>1. j - Len(down) \in 1..Len(r) /\ down'[j] = r[j - Len(down)]
            BY <5>1, <2>6
          <6> QED
            BY ONLY <6>1, <2>5
        <5>2. CASE j \in 1..Len(down)
          <6>1. i \in 1..Len(down) /\ down'[i] = down[i] /\ down'[j] = down[j]
            BY <5>2, <2>6
          <6> QED
            BY <6>1, <5>2, <4>1
        <5> QED
          BY <5>1, <5>2, <2>6
      <4>3. \A i, j \in 1..Len(up') : i < j /\ up'[i].flag # "syn" => up'[j].flag # "syn"
        BY <3>s DEF InUp
      <4>4. Received > 0 => ~InDown("synack")
        BY DEF IInv, Established
      <4>5. client'.peer \in Seqs
        BY <1>0 DEF IInv, Established
      <4> QED
        BY Zenon, <4>2, <4>3, <4>4, <4>5, <3>s, <3>d, <2>7, <1>0 DEF Established
    <3>5. Closed'
      BY <1>0, <3>s, <3>d, <2>7 DEF IInv, Closed
    <3>6. RequestInv'
      <4>1. ConnOf(n, e)'
        BY ONLY <2>4 DEF ConnOf
      <4>2. \A i \in 1..Len(up') : up'[i].flag # "syn" => FrameOf(up'[i], n, e)
        BY <2>u, <2>e
      <4> QED
        BY <4>1, <4>2, <2>e, <2>7, <1>0 DEF RequestInv
    <3>a. client.st \in {"est", "lastack", "done"} /\ d # None => client.nxt = client.len
      <4> SUFFICES ASSUME client.st \in {"est", "lastack", "done"}, d # None
                   PROVE  client.nxt = client.len
        OBVIOUS
      <4>1. CASE client.st = "est"
        <5>1. n = client.len /\ e = Sent
          BY <4>1, <2>e
        <5>2. client.len \in Nat /\ client.nxt \in Nat /\ client.nxt <= client.len
          BY <4>1, ClientFacts
        <5>3. e = client.nxt
          BY <4>1, <5>1, <5>2 DEF Sent
        <5>4. PICK l \in Nat : l = Len(c.request) /\ l <= n /\ n \in Nat
          BY <2>3
        <5>5. l = n
          <6>1. Len(conn'.request) = l /\ ~(Len(conn'.request) < n)
            BY <2>4, <5>4
          <6> QED
            BY <6>1, <5>4
        <5>6. PICK m \in {Len(c.request), n + 1} : m <= e
          BY <2>2 DEF PrefixOf
        <5>7. m \in Nat /\ n <= m
          BY <5>4, <5>5, <5>6
        <5> QED
          BY <5>1, <5>2, <5>3, <5>4, <5>6, <5>7
      <4>2. CASE client.st \in {"lastack", "done"}
        BY <4>2 DEF IInv, Closed, AnswerInv
      <4> QED
        BY <4>1, <4>2
    <3>7. ResponseInv'
      <4> SUFFICES ASSUME client.st \in {"est", "lastack", "done"} PROVE ResponseInv'
        BY <1>0 DEF ResponseInv
      <4>1. PICK g \in since :
            /\ \A i \in 1..Received : client.got[i] = Chunk(g, Skipped + i)
            /\ \A i \in 1..Len(down) : AnswerOf(down[i], g)
            /\ conn # None => conn.response \in {g, None}
        BY DEF IInv, ResponseInv
      <4>2. PICK h \in since :
            /\ \A i \in 1..Received : client.got[i] = Chunk(h, Skipped + i)
            /\ \A i \in 1..Len(down) : AnswerOf(down[i], h)
            /\ d \in {h, None}
        <5>1. CASE conn.response # None
          BY <5>1, <4>1, <1>0, <2>2, <2>d
        <5>2. CASE conn.response = None /\ d = None
          BY <5>2, <4>1
        <5>3. CASE conn.response = None /\ d # None
          <6>1. ~(Received > 0) /\ \A i \in 1..Len(down) : down[i].load = <<>>
            BY <5>3, <1>0 DEF IInv, AnswerInv
          <6>2. d = mmds /\ mmds \in since
            BY Zenon, <5>3, <2>2, <2>d DEF IInv, SmallInv
          <6>3. \A i \in 1..Len(down) : AnswerOf(down[i], mmds)
            BY Zenon, <6>1 DEF AnswerOf
          <6>4. \A i \in 1..Received : client.got[i] = Chunk(mmds, Skipped + i)
            BY <6>1, ClientFacts
          <6> QED
            BY ONLY <6>2, <6>3, <6>4
        <5> QED
          BY Zenon, <5>1, <5>2, <5>3
      <4>3. \A i \in 1..Len(down') : AnswerOf(down[i], h)'
        <5> SUFFICES ASSUME NEW i \in 1..Len(down') PROVE AnswerOf(down[i], h)'
          OBVIOUS
        <5>1. CASE i \in 1..Len(down) /\ down'[i] = down[i]
          BY <5>1, <4>2, <1>0 DEF AnswerOf
        <5>2. CASE i - Len(down) \in 1..Len(r) /\ down'[i] = r[i - Len(down)]
          <6>1. down'[i].load # <<>> =>
                    \E j \in 1..Chunks :
                       /\ down'[i].load = <<Chunk(d, j)>>
                       /\ down'[i].seq = Plus(Plus(c.first, 1), j - 1)
            BY Zenon, <5>2, <2>5
          <6>2. down'[i].load # <<>> => d = h
            BY ONLY Zenon, <5>2, <2>5, <4>2
          <6> QED
            BY <6>1, <6>2, <1>0, <2>2, <2>8 DEF AnswerOf
        <5> QED
          BY <5>1, <5>2, <2>6
      <4> QED
        BY <4>2, <4>3, <2>4, <2>7, <1>0 DEF ResponseInv
    <3>8. AnswerInv'
      <4> SUFFICES ASSUME client.st \in {"est", "lastack", "done"},
                          Received > 0 \/ \E i \in 1..Len(down') : down'[i].load # <<>>
                   PROVE  client.nxt = client.len /\ conn'.response # None
        BY Zenon, <1>0, <2>7 DEF AnswerInv
      <4>1. \/ Received > 0 \/ \E i \in 1..Len(down) : down[i].load # <<>>
            \/ \E i \in 1..Len(r) : r[i].load # <<>>
        BY Zenon, <2>6
      <4>2. CASE \E i \in 1..Len(r) : r[i].load # <<>>
        BY Zenon, <4>2, <2>5, <2>4, <3>a
      <4>3. CASE Received > 0 \/ \E i \in 1..Len(down) : down[i].load # <<>>
        <5>1. client.nxt = client.len /\ conn.response # None
          BY Zenon, <4>3, <1>0 DEF IInv, AnswerInv
        <5>2. d # None
          BY Zenon, <5>1, <2>2, <2>d, <2>m
        <5> QED
          BY Zenon, <5>1, <5>2, <2>4
      <4> QED
        BY ONLY Zenon, <4>1, <4>2, <4>3
    <3>9. WeightInv'
      <4>1. PICK total \in Nat :
               Brings(up, total) /\ Len(up) + Len(down) + total <= MaxFlight * Chunks
        BY DEF IInv, WeightInv
      <4>2. PICK rest \in Nat : Brings(up', rest) /\ total = rest + Extra(f)
        BY <4>1, <1>0, <2>f, BringsTail DEF IInv, TypeOK
      <4>3. MaxFlight * Chunks \in Nat /\ Chunks \in Nat
        BY SpaceFacts
      <4>4. Len(up') + Len(down') + rest <= MaxFlight * Chunks
        <5>1. CASE f.load # <<>>
          <6>1. total = rest + (Chunks - 1) /\ Len(r) <= Chunks
            BY ONLY <5>1, <4>2, <2>5 DEF Extra
          <6> QED
            BY ONLY <6>1, <4>1, <4>3, <2>5, <2>6, <2>u, rest \in Nat, total \in Nat
        <5>2. CASE f.load = <<>>
          <6>1. total = rest /\ Len(r) <= 1
            BY <5>2, <4>2, <2>5 DEF Extra
          <6> QED
            BY ONLY <6>1, <4>1, <4>3, <2>5, <2>6, <2>u, rest \in Nat, total \in Nat
        <5> QED
          BY ONLY <5>1, <5>2
      <4> QED
        BY <4>2, <4>4 DEF WeightInv
    <3> QED
      BY <3>1, <3>2, <3>3, <3>4, <3>5, <3>6, <3>7, <3>8, <3>9 DEF IInv
<1> QED
  BY <1>1, <1>2

-----------------------------------------------------------------------------
(* The invariant and what follows from it. *)

\* The invariant holds at the start.
LEMMA InitInv == Init => IInv
<1> SUFFICES ASSUME Init PROVE IInv
  OBVIOUS
<1>1. /\ mmds \in Documents /\ conn = None /\ lastIsn = None /\ up = <<>> /\ down = <<>>
      /\ client.st = "closed" /\ client.len \in ReqLens /\ client.una = 0 /\ client.nxt = 0
      /\ client.peer = None /\ client.got = <<>> /\ since = {}
  BY DEF Init
<1>2. client.len \in Nat /\ client.len > 0
  BY <1>1, SpaceFacts
<1>3. Len(up) = 0 /\ Len(down) = 0 /\ Received = 0
  BY <1>1 DEF Received
<1>4. TypeOK
  <2>1. up \in Seq(UpFrames) /\ down \in Seq(DownFrames) /\ <<>> \in Seq(ChunkSet)
    BY <1>1
  <2>2. client \in [st : {"closed"}, len : ReqLens, una : {0}, nxt : {0},
                    peer : {None}, got : {<<>>}]
    BY DEF Init
  <2>3. client \in [st : {"closed", "syn", "est", "lastack", "done"}, len : ReqLens,
                    una : Nat, nxt : Nat, peer : Seqs \cup {None}, got : Seq(ChunkSet)]
    <3>1. PICK l \in ReqLens : client = [st |-> "closed", len |-> l, una |-> 0,
                                         nxt |-> 0, peer |-> None, got |-> <<>>]
      BY <2>2
    <3>2. PICK g \in Seq(ChunkSet) : g = <<>>
      BY Zenon, <2>1
    <3>3. client = [st |-> "closed", len |-> l, una |-> 0, nxt |-> 0, peer |-> None, got |-> g]
      BY ONLY <3>1, <3>2
    <3> QED
      BY ONLY <3>3, l \in ReqLens, g \in Seq(ChunkSet)
  <2> QED
    BY <1>1, <2>1, <2>3 DEF TypeOK
<1>5. SmallInv /\ Opening /\ Established /\ Closed /\ ResponseInv /\ AnswerInv
  BY ONLY <1>1, <1>2, <1>3 DEF SmallInv, Opening, Established, Closed, ResponseInv, AnswerInv,
     InUp, InDown
<1>6. RequestInv
  <2>1. Sent = 0 /\ 0 \in 0..client.len + 1
    BY <1>1, <1>2 DEF Sent
  <2>2. ConnOf(client.len, 0)
    BY <1>1 DEF ConnOf
  <2>3. \A i \in 1..Len(up) : up[i].flag # "syn" => FrameOf(up[i], client.len, 0)
    BY ONLY <1>1, <1>3
  <2>4. client.len \in ReqLens
    BY ONLY <1>1
  <2> QED
    BY ONLY Zenon, <2>1, <2>2, <2>3, <2>4 DEF RequestInv
<1>7. WeightInv
  <2>1. Brings(up, 0)
    <3>1. PICK w \in [1..Len(up) + 1 -> Nat] : w = [i \in 1..Len(up) + 1 |-> 0]
      BY Zenon, <1>3
    <3>2. w[1] = 0 /\ \A i \in 1..Len(up) + 1 : i = 1 /\ w[i] = 0
      BY <3>1, <1>3
    <3>3. (Chunks - 1) * (Len(up) + 1 - 1) = 0
      BY <1>3, SpaceFacts
    <3>4. \A i \in 1..Len(up) + 1 : w[i] <= (Chunks - 1) * (Len(up) + 1 - i)
      BY <3>2, <3>3
    <3>5. \A i \in 1..Len(up) : w[i] = w[i + 1] + Extra(up[i])
      BY <1>3
    <3> QED
      BY <3>2, <3>4, <3>5 DEF Brings
  <2>2. MaxFlight * Chunks \in Nat
    BY SpaceFacts
  <2>3. Len(up) + Len(down) + 0 <= MaxFlight * Chunks
    BY <2>2, <1>3
  <2> QED
    BY <2>1, <2>3 DEF WeightInv
<1> QED
  BY <1>4, <1>5, <1>6, <1>7 DEF IInv

\* Every step preserves the invariant.
LEMMA NextInv == IInv /\ [Next]_vars => IInv'
<1> SUFFICES ASSUME IInv, [Next]_vars PROVE IInv'
  OBVIOUS
<1>1. CASE Process
  <2>1. CASE ProcessUnknown
    BY <2>1, DropUp DEF ProcessUnknown
  <2> QED
    BY <1>1, <2>1, SynStep, SegmentStep DEF Process
<1>2. CASE Expire
  BY <1>2, ExpireStep
<1>3. CASE \E d \in Documents : UpdateMmds(d)
  BY <1>3, UpdateStep
<1>4. CASE OpenSocket
  BY <1>4, OpenStep
<1>5. CASE SendRequest
  BY <1>5, SendStep
<1>6. CASE Retransmit
  BY <1>6, RetransmitStep
<1>7. CASE CloseSocket
  BY <1>7, CloseStep
<1>8. CASE Receive
  BY <1>8, ReceiveStep
<1>9. CASE LoseUp
  BY <1>9, DropUp DEF LoseUp
<1>10. CASE LoseDown
  <2>1. /\ down # <<>> /\ down' = Tail(down)
        /\ UNCHANGED <<mmds, conn, lastIsn, up, client, since>>
    BY <1>10 DEF LoseDown
  <2>2. client.una \in 0..client.nxt
    BY ClientFacts
  <2>3. client' \in [st : {client.st, "done"}, len : {client.len}, una : 0..client.nxt,
                     nxt : {client.nxt}, peer : {client.peer}, got : {client.got}]
    BY <2>1, <2>2 DEF IInv, TypeOK
  <2>4. client'.st = client.st
    BY <2>1
  <2> QED
    BY <2>1, <2>3, <2>4, DropDown
<1>11. CASE ReadFails \/ UNCHANGED vars
  <2>1. UNCHANGED <<mmds, conn, lastIsn, up, down, client, since>>
    BY <1>11 DEF ReadFails, vars
  <2>2. Received' = Received /\ Skipped' = Skipped /\ Sent' = Sent
    BY <2>1 DEF Received, Skipped, Sent
  <2>a. TypeOK'
    BY <2>1 DEF IInv, TypeOK
  <2>b. SmallInv'
    BY <2>1, <2>2 DEF IInv, SmallInv
  <2>c. Closed'
    BY <2>1, <2>2 DEF IInv, Closed, InUp, InDown
  <2>d. WeightInv'
    BY <2>1 DEF IInv, WeightInv
  <2>e. AnswerInv'
    BY <2>1, <2>2 DEF IInv, AnswerInv
  <2>3. Opening'
    BY <2>1, <2>2 DEF IInv, Opening, InUp, InDown, Fresh
  <2>4. Established'
    BY <2>1, <2>2 DEF IInv, Established, InUp, InDown, Fresh
  <2>5. RequestInv'
    BY Zenon, <2>1, <2>2 DEF IInv, RequestInv, ConnOf
  <2>6. ResponseInv'
    BY <2>1, <2>2 DEF IInv, ResponseInv, AnswerOf
  <2> QED
    BY <2>a, <2>b, <2>c, <2>d, <2>e, <2>3, <2>4, <2>5, <2>6 DEF IInv
<1> QED
  BY <1>1, <1>2, <1>3, <1>4, <1>5, <1>6, <1>7, <1>8, <1>9, <1>10, <1>11 DEF Next

\* Every behaviour of the responder and the guest keeps the inductive
\* invariant: frames of two fetches never mix on the link, the table holds a
\* prefix of the request of the fetch whose frames come next, and what is sent
\* and read is of one document.
THEOREM Invariance == Spec => []IInv
<1>1. Init => IInv
  BY InitInv
<1>2. IInv /\ [Next]_vars => IInv'
  BY NextInv
<1> QED
  BY <1>1, <1>2, PTL DEF Spec

\* process_ipv4 puts a request together in order and no unit twice, for
\* requests of any length cut into any segments, repeated and lost in any way.
THEOREM RequestInOrderHolds == Spec => []RequestInOrder
<1>1. IInv => RequestInOrder
  <2> SUFFICES ASSUME IInv, conn # None, NEW i \in 1..Len(conn.request)
               PROVE  \/ conn.request[i] = i
                      \/ conn.request[i] = BlankLine /\ i = Len(conn.request)
    BY DEF RequestInOrder
  <2>1. PICK n \in ReqLens : \E e \in 0..n + 1 : ConnOf(n, e)
    BY DEF IInv, RequestInv
  <2>2. Len(conn.request) <= n /\ conn.request[i] = Unit(n, i)
    BY <2>1 DEF ConnOf, PrefixOf
  <2>3. n \in Nat /\ Len(conn.request) \in Nat
    BY SpaceFacts, SeqFacts DEF IInv, TypeOK, Connections
  <2> QED
    BY <2>2, <2>3 DEF Unit
<1> QED
  BY <1>1, Invariance, PTL

\* client_next never passes what the guest has sent, wherever in the sequence
\* space the connection began.
THEOREM AckNotAheadHolds == Spec => []AckNotAhead
<1>1. IInv => AckNotAhead
  <2> SUFFICES ASSUME IInv, conn # None, client.st \in {"est", "lastack"}
               PROVE  Minus(conn.next, RequestSeq(0))
                        <= client.nxt + (IF client.st = "lastack" THEN 1 ELSE 0)
    BY DEF AckNotAhead
  <2>n. PICK n \in ReqLens : \E e \in 0..n + 1 : e = Sent /\ ConnOf(n, e)
    BY DEF IInv, RequestInv
  <2>1. PICK e \in 0..n + 1 : e = Sent /\ ConnOf(n, e)
    BY <2>n
  <2>2. PICK m \in {Len(conn.request), n + 1} : conn.next = RequestSeq(m) /\ m <= e
    BY <2>1 DEF ConnOf, PrefixOf
  <2>3. m \in 0..Modulus - 1
    <3>1. n \in Nat /\ n + 2 < Modulus /\ Len(conn.request) \in Nat /\ Modulus \in Nat
      BY SpaceFacts, SeqFacts DEF IInv, TypeOK, Connections
    <3> QED
      BY ONLY <3>1, <2>2
  <2>4. Minus(conn.next, RequestSeq(0)) = m
    BY <2>2, <2>3, RequestSeqDistance
  <2>5. e = client.nxt + (IF client.st = "lastack" THEN 1 ELSE 0)
    BY <2>1 DEF Sent
  <2> QED
    BY <2>2, <2>4, <2>5
<1> QED
  BY <1>1, Invariance, PTL

\* Replays never splice: whatever segments are repeated and however often the
\* document changes, the guest reads consecutive frames of one response, from
\* the first on unless a repeated SYN has replaced the initial sequence number.
THEOREM ResponseIntactHolds == Spec => []ResponseIntact
<1>1. IInv => ResponseIntact
  <2> SUFFICES ASSUME IInv PROVE ResponseIntact
    OBVIOUS
  <2>1. /\ client.got \in Seq(ChunkSet) /\ Received \in Nat /\ Received = Len(client.got)
        /\ mmds \in Documents /\ Chunks \in Nat /\ Chunks > 0
    BY ClientFacts, SpaceFacts DEF IInv, TypeOK, Received
  <2>2. CASE Received = 0
    <3>1. client.got = <<>>
      BY ONLY Zenon, <2>1, <2>2, SeqFacts
    <3>2. client.got = [i \in 1..Received |-> Chunk(mmds, 0 + i)]
      BY ONLY <2>2, <3>1
    <3>3. 0 \in 0..Chunks - 1
      BY <2>1
    <3> QED
      BY Zenon, <2>1, <2>2, <3>2, <3>3 DEF ResponseIntact
  <2>3. CASE Received > 0
    <3>1. client.st \in {"est", "lastack", "done"}
      BY <2>1, <2>3 DEF IInv, TypeOK, SmallInv
    <3>2. PICK d \in since : \A i \in 1..Received : client.got[i] = Chunk(d, Skipped + i)
      BY <3>1 DEF IInv, ResponseInv
    <3>3. d \in Documents
      BY DEF IInv, TypeOK
    <3>4. client.peer \in Seqs /\ lastIsn \in Seqs /\ Plus(lastIsn, 1) \in Seqs
      BY Zenon, <2>3, <3>1, ClientFacts, PlusType DEF IInv, TypeOK, SmallInv
    <3>5. /\ Skipped \in Nat
          /\ client.peer = Plus(lastIsn, 1) => Skipped = 0
      <4>1. PICK a \in Seqs, b \in Seqs : a = client.peer /\ b = Plus(lastIsn, 1)
        BY <3>4
      <4>2. Skipped = (IF a >= b THEN a - b ELSE a + Modulus - b) /\ Skipped \in Seqs
        BY <4>1, MinusValue DEF Skipped
      <4> QED
        BY <4>1, <4>2, SpaceFacts DEF Seqs
    <3>6. Skipped \in 0..Chunks - 1
      <4>1. 1 \in 1..Received /\ client.got[1] \in ChunkSet
        BY <2>1, <2>3
      <4>2. Chunk(d, Skipped + 1).index \in 1..Chunks
        BY <4>1, <3>2 DEF ChunkSet
      <4> QED
        BY <4>2, <3>5, <2>1 DEF Chunk
    <3>7. client.got = [i \in 1..Received |-> Chunk(d, Skipped + i)]
      <4>1. DOMAIN client.got = 1..Received /\ client.got \in [1..Received -> ChunkSet]
        BY <2>1
      <4> QED
        BY Zenon, <4>1, <3>2
    <3> QED
      BY ONLY <3>3, <3>5, <3>6, <3>7 DEF ResponseIntact
  <2> QED
    BY <2>1, <2>2, <2>3
<1> QED
  BY <1>1, Invariance, PTL

\* A port used again never reads the response of its previous connection:
\* every frame the guest takes is of a document current since it opened this one.
THEOREM ServedFreshHolds == Spec => []ServedFresh
<1>1. IInv => ServedFresh
  <2> SUFFICES ASSUME IInv, NEW i \in 1..Received PROVE client.got[i].doc \in since
    BY DEF ServedFresh
  <2>1. Received \in Nat /\ Received > 0
    BY ClientFacts
  <2>2. client.st \in {"est", "lastack", "done"}
    BY <2>1 DEF IInv, TypeOK, SmallInv, Received
  <2>3. PICK d \in since : client.got[i] = Chunk(d, Skipped + i)
    BY <2>2 DEF IInv, ResponseInv
  <2> QED
    BY <2>3 DEF Chunk
<1> QED
  BY <1>1, Invariance, PTL

\* The frames on the link stay within what the client's own frames can bring,
\* for responses of any number of frames: no acknowledgement is answered with
\* another response.
THEOREM NoReplayLoopHolds == Spec => []NoReplayLoop
<1>1. IInv => NoReplayLoop
  <2> SUFFICES ASSUME IInv PROVE NoReplayLoop
    OBVIOUS
  <2>1. Len(up) \in Nat /\ Len(down) \in Nat /\ MaxFlight * Chunks \in Nat
    BY SeqFacts, SpaceFacts DEF IInv, TypeOK
  <2>2. PICK total \in Nat : Len(up) + Len(down) + total <= MaxFlight * Chunks
    BY Zenon DEF IInv, WeightInv
  <2> QED
    BY ONLY <2>1, <2>2 DEF NoReplayLoop
<1> QED
  BY <1>1, Invariance, PTL
-----------------------------------------------------------------------------
(* Acknowledgements while the request is incomplete. *)

Open == {"est", "lastack", "done"}

\* While the responder answers every frame, the acknowledgements on their way
\* to the guest have the sequence number after the SYN-ACK's.
AckInv ==
    client.st \in Open /\ conn # None =>
        \A i \in 1..Len(down) :
            conn.response = None /\ down[i].flag = "ack"
                => down[i].seq = Plus(conn.first, 1)

\* A SYN is taken when there is nothing but SYN-ACKs on the way (ProcessSyn).
LEMMA SynKeepsAcks == IInv /\ ProcessSyn => AckInv'
<1> SUFFICES ASSUME IInv, ProcessSyn, client.st \in Open
             PROVE  \A i \in 1..Len(down') : down'[i].flag # "ack"
  BY DEF AckInv, ProcessSyn
<1>0. up \in Seq(UpFrames) /\ up # <<>> /\ Head(up).flag = "syn"
  BY DEF ProcessSyn, IInv, TypeOK
<1>1. InUp("syn")
  <2>1. Len(up) \in Nat /\ Len(up) > 0 /\ Head(up) = up[1]
    BY ONLY Zenon, <1>0, TailFacts
  <2> QED
    BY ONLY <1>0, <2>1 DEF InUp
<1>2. \A i \in 1..Len(down) : down[i].flag = "synack"
  BY <1>1 DEF IInv, Established, Open
<1>3. PICK isn \in ServerIsns : Write(<<Frame("synack", isn, Plus(Head(up).seq, 1), <<>>)>>)
  BY DEF ProcessSyn
<1> DEFINE g == Frame("synack", isn, Plus(Head(up).seq, 1), <<>>)
<1>4. g.flag = "synack" /\ g \in DownFrames
  <2>0. Head(up) \in UpFrames
    BY ONLY Zenon, <1>0, TailFacts
  <2>1. Head(up).seq \in Seqs
    BY ONLY <2>0 DEF UpFrames
  <2>2. Plus(Head(up).seq, 1) \in Seqs
    BY ONLY <2>1, 1 \in Nat, PlusType
  <2>3. isn \in Seqs
    BY ONLY SpaceFacts, isn \in ServerIsns
  <2>4. "synack" \in {"synack", "ack"}
    OBVIOUS
  <2> QED
    BY ONLY Zenon, <2>2, <2>3, <2>4, EmptyFrame
<1> HIDE DEF g
<1>5. <<g>> \in Seq(DownFrames) /\ \A i \in 1..Len(<<g>>) : <<g>>[i] = g
  BY ONLY <1>4
<1>w. Write(<<g>>)
  BY Zenon, <1>3 DEF g
<1>6. PICK t \in Seq(DownFrames) :
         /\ down' = down \o t
         /\ \A i \in 1..Len(t) : i \in 1..Len(<<g>>) /\ t[i] = <<g>>[i]
  BY ONLY Zenon, <1>w, <1>5, WriteFacts
<1>7. \A i \in 1..Len(t) : t[i].flag = "synack"
  BY ONLY Zenon, <1>4, <1>5, <1>6
<1>8. down \in Seq(DownFrames)
  BY DEF IInv, TypeOK
<1>9. ElementsFrom(down', down, t)
  <2>1. ElementsFrom(down \o t, down, t)
    BY ONLY Zenon, <1>8, t \in Seq(DownFrames), ConcatElements
  <2>2. down' = down \o t
    BY ONLY Zenon, <1>6
  <2> QED
    BY ONLY Zenon, <2>1, <2>2
<1>10. \A i \in 1..Len(down') : down'[i].flag = "synack"
  BY ONLY Zenon, <1>2, <1>7, <1>9 DEF ElementsFrom
<1> QED
  BY ONLY <1>10

\* What is sent while the request stays incomplete is one such acknowledgement
\* (ProcessSegment).
LEMMA SegmentKeepsAcks == IInv /\ AckInv /\ ProcessSegment => AckInv'
<1> SUFFICES ASSUME IInv, AckInv, ProcessSegment, client.st \in Open,
                    conn'.response = None
             PROVE  \A i \in 1..Len(down') :
                       down'[i].flag = "ack" => down'[i].seq = Plus(conn'.first, 1)
  BY DEF AckInv, ProcessSegment
<1>1. conn # None /\ conn \in Connections
  BY DEF ProcessSegment, IInv, TypeOK
<1>2. CASE UNCHANGED <<conn, down>>
  BY <1>1, <1>2 DEF AckInv
<1>3. CASE ~UNCHANGED <<conn, down>>
  <2>f. PICK f \in UpFrames : f = Head(up)
    BY TailFacts DEF ProcessSegment, IInv, TypeOK
  <2>c. PICK c \in {Fin(Payload(conn, f), f)} : TRUE
    OBVIOUS
  <2>1. /\ conn' = IF c.response = None /\ Complete(c) THEN [c EXCEPT !.response = mmds] ELSE c
        /\ Write(Reply(c, f))
    BY <1>3, <2>f, <2>c DEF ProcessSegment
  <2>2. c.first = conn.first /\ c.response = conn.response /\ c.next \in Seqs
        /\ DOMAIN c = DOMAIN conn
    <3>1. \A a \in Seqs, b \in Nat : Plus(a, b) \in Seqs
      BY PlusType
    <3>2. Len(f.load) \in Nat
      BY DEF UpFrames
    <3>3. PICK p \in {Payload(conn, f)} : TRUE
      OBVIOUS
    <3>4. /\ p.first = conn.first /\ p.response = conn.response
          /\ p.next \in Seqs /\ DOMAIN p = DOMAIN conn
      <4>1. CASE f.load # <<>> /\ f.seq = conn.next
        BY <1>1, <3>1, <3>2, <3>3, <4>1 DEF Payload, Connections
      <4>2. CASE ~(f.load # <<>> /\ f.seq = conn.next)
        BY <1>1, <3>3, <4>2 DEF Payload, Connections
      <4> QED
        BY <4>1, <4>2
    <3>5. DOMAIN p = {"next", "first", "request", "response"}
      BY <1>1, <3>4 DEF Connections
    <3>6. c = IF f.flag = "fin" /\ Plus(f.seq, Len(f.load)) = p.next
              THEN [p EXCEPT !.next = Plus(@, 1)] ELSE p
      BY ONLY <2>c, <3>3 DEF Fin
    <3> QED
      BY ONLY <3>1, <3>4, <3>5, <3>6
  <2>3. c.response = None /\ ~Complete(c) /\ conn' = c
    <3>1. mmds # None
      BY SpaceFacts DEF IInv, TypeOK
    <3>2. CASE c.response = None /\ Complete(c)
      <4>1. conn'.response = mmds
        BY <1>1, <2>1, <2>2, <3>2 DEF Connections
      <4> QED
        BY <3>1, <4>1
    <3> QED
      BY <2>1, <3>2
  <2> DEFINE g == Frame("ack", Plus(c.first, 1), c.next, <<>>)
  <2>4. Reply(c, f) = <<g>>
    BY ONLY <2>3 DEF Reply
  <2>5. g \in DownFrames /\ g.seq = Plus(conn.first, 1)
    <3>1. conn.first \in Seqs
      BY ONLY <1>1 DEF Connections
    <3>2. Plus(conn.first, 1) \in Seqs
      BY ONLY <3>1, 1 \in Nat, PlusType
    <3>3. "ack" \in {"synack", "ack"}
      OBVIOUS
    <3>4. c.first = conn.first /\ c.next \in Seqs
      BY ONLY Zenon, <2>2
    <3>5. Plus(c.first, 1) \in Seqs /\ Plus(c.first, 1) = Plus(conn.first, 1)
      BY ONLY Zenon, <3>2, <3>4
    <3> QED
      BY ONLY Zenon, <3>3, <3>4, <3>5, EmptyFrame
  <2> HIDE DEF g
  <2>6. <<g>> \in Seq(DownFrames) /\ \A i \in 1..Len(<<g>>) : <<g>>[i] = g
    BY ONLY <2>5
  <2>7. PICK t \in Seq(DownFrames) :
           /\ down' = down \o t
           /\ \A i \in 1..Len(t) : i \in 1..Len(<<g>>) /\ t[i] = <<g>>[i]
    <3>1. Write(<<g>>)
      BY ONLY Zenon, <2>1, <2>4
    <3> QED
      BY ONLY Zenon, <2>6, <3>1, WriteFacts
  <2>8. \A i \in 1..Len(t) : t[i].seq = Plus(conn.first, 1)
    BY ONLY Zenon, <2>5, <2>6, <2>7
  <2>9. /\ down \in Seq(DownFrames)
        /\ \A i \in 1..Len(down) : down[i].flag = "ack" => down[i].seq = Plus(conn.first, 1)
    BY <1>1, <2>2, <2>3 DEF AckInv, IInv, TypeOK
  <2>10. conn'.first = conn.first
    BY <2>2, <2>3
  <2>11. ElementsFrom(down', down, t)
    <3>1. ElementsFrom(down \o t, down, t)
      BY ONLY Zenon, <2>9, t \in Seq(DownFrames), ConcatElements
    <3>2. down' = down \o t
      BY ONLY Zenon, <2>7
    <3> QED
      BY ONLY Zenon, <3>1, <3>2
  <2>12. \A i \in 1..Len(down') : down'[i].flag = "ack" => down'[i].seq = Plus(conn.first, 1)
    BY ONLY Zenon, <2>8, <2>9, <2>11 DEF ElementsFrom
  <2> QED
    BY ONLY Zenon, <2>10, <2>12
<1> QED
  BY <1>2, <1>3

\* Every other step takes frames away or leaves them alone, and a client takes
\* its first SYN-ACK when nothing else is on the way (Take).
LEMMA AckStep == IInv /\ AckInv /\ [Next]_vars => AckInv'
<1> SUFFICES ASSUME IInv, AckInv, [Next]_vars PROVE AckInv'
  OBVIOUS
<1>1. ASSUME UNCHANGED <<conn, down>>, client'.st \in Open => client.st \in Open
      PROVE  AckInv'
  BY <1>1 DEF AckInv
<1>2. ASSUME down # <<>>, down' = Tail(down), conn' = conn,
             client'.st \in Open => client.st \in Open
      PROVE  AckInv'
  <2>1. \A i \in 1..Len(down') : i + 1 \in 1..Len(down) /\ down'[i] = down[i + 1]
    BY <1>2, TailFacts DEF IInv, TypeOK
  <2> QED
    BY <1>2, <2>1 DEF AckInv
<1>3. CASE ProcessUnknown \/ SendRequest \/ Retransmit \/ LoseUp \/ ReadFails \/ UNCHANGED vars
           \/ \E d \in Documents : UpdateMmds(d)
  <2>1. UNCHANGED <<conn, down>> /\ client'.st = client.st
    BY <1>3, ClientFacts DEF ProcessUnknown, SendRequest, Retransmit, LoseUp, ReadFails, vars,
                             UpdateMmds, IInv, TypeOK
  <2> QED
    BY <1>1, <2>1
<1>4. CASE Expire
  BY <1>4 DEF Expire, AckInv
<1>5. CASE OpenSocket
  BY <1>5 DEF OpenSocket, AckInv, Open
<1>6. CASE CloseSocket
  BY <1>1, <1>6 DEF CloseSocket, Open
<1>7. CASE LoseDown
  BY <1>2, <1>7 DEF LoseDown
<1>8. CASE Receive
  <2>1. down # <<>> /\ down' = Tail(down) /\ conn' = conn /\ Take(Head(down))
    BY <1>8 DEF Receive
  <2>2. CASE client'.st \in Open => client.st \in Open
    BY <1>2, <2>1, <2>2
  <2>3. CASE client'.st \in Open /\ client.st \notin Open
    <3>1. client.st = "syn" /\ Head(down).flag = "synack"
      BY <2>1, <2>3 DEF Take, Open
    <3>2. /\ Head(down) = down[1] /\ Len(down) \in Nat /\ 1 \in 1..Len(down)
          /\ \A i \in 1..Len(down') : i + 1 \in 1..Len(down) /\ 1 < i + 1
                                     /\ down'[i] = down[i + 1]
      BY <2>1, TailFacts DEF IInv, TypeOK
    <3>3. \A i \in 1..Len(down') : down'[i].flag = "synack"
      BY <3>1, <3>2 DEF IInv, Opening
    <3> QED
      BY <3>3 DEF AckInv
  <2> QED
    BY <2>2, <2>3
<1> QED
  BY <1>3, <1>4, <1>5, <1>6, <1>7, <1>8, SynKeepsAcks, SegmentKeepsAcks DEF Next, Process

\* While the request is incomplete, what the responder sends for a frame is not
\* answered by the guest (host_mmds.rs 301-308), for any lengths, sequence
\* numbers, losses and failed writes, as long as both go by the same initial
\* sequence number.
THEOREM AcksEndHolds == Spec => []AcksEnd
<1>1. Init => AckInv
  BY DEF Init, AckInv, Open
<1>2. IInv /\ AckInv => AcksEnd
  <2> SUFFICES ASSUME IInv, AckInv, client.st = "est", conn # None, ~Desynchronised,
                      NEW i \in DOMAIN down, conn.response = None, down[i].flag = "ack"
               PROVE  down[i].seq = Expected
    BY DEF AcksEnd
  <2>1. DOMAIN down = 1..Len(down)
    BY DEF IInv, TypeOK
  <2>2. down[i].seq = Plus(conn.first, 1)
    BY <2>1 DEF AckInv, Open
  <2>3. client.peer = Plus(conn.first, 1) /\ client.peer \in Seqs
    BY DEF Desynchronised, IInv, Established
  <2>4. Received = 0
    BY ClientFacts DEF IInv, AnswerInv, Received, TypeOK
  <2>5. Expected = Plus(client.peer, 0)
    BY <2>4 DEF Expected, Ended
  <2>6. Plus(client.peer, 0) = client.peer
    BY <2>3, PlusValue, SpaceFacts DEF Seqs
  <2> QED
    BY <2>2, <2>3, <2>5, <2>6
<1> QED
  BY <1>1, <1>2, AckStep, Invariance, PTL DEF Spec
=============================================================================
