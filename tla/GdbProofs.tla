------------------------------ MODULE GdbProofs ------------------------------
(***************************************************************************)
(* Proofs about Gdb, for any set of calls and any number of connections,   *)
(* frames and faults: a reply is read by the call that asked for it, and   *)
(* the packet of a step that a lost connection makes _exchange send again  *)
(* is not carried out a second time.                                       *)
(***************************************************************************)
EXTENDS Gdb, SequenceTheorems, WellFoundedInduction, TLAPS

----------------------------------------------------------------------------
(* Tokens and wires.                                                       *)

LEMMA TokenFields ==
    /\ \A x : Mark(x).t = x
    /\ \A k, c : Packet(k, c).t = k /\ Packet(k, c).of = c
    /\ \A c, k, bad : /\ Reply(c, k, bad).t = "reply" /\ Reply(c, k, bad).of = c
                      /\ Reply(c, k, bad).kind = k /\ Reply(c, k, bad).bad = bad
BY DEF Mark, Packet, Reply

LEMMA TokenTypes ==
    /\ Mark("nak") \in ToTokens /\ CtrlC \in ToTokens
    /\ \A k \in Kinds \cup {"hello"}, c \in Calls : Packet(k, c) \in ToTokens
    /\ Mark("ack") \in FromTokens /\ Mark("nak") \in FromTokens /\ Mark("rest") \in FromTokens
    /\ \A k \in Kinds \cup {"hello"}, c \in Calls, bad \in BOOLEAN :
          Reply(c, k, bad) \in FromTokens /\ Reply(c, k, bad) \in Replies
BY DEF Mark, CtrlC, Packet, Reply, ToTokens, FromTokens, Replies

LEMMA ToTokenIs ==
    ASSUME NEW m \in ToTokens
    PROVE  /\ m.t \in Kinds \cup {"hello", "break", "nak"}
           /\ m.t \notin {"break", "nak"} => m.of \in Calls
BY DEF ToTokens, Kinds

\* The wires are sequences of sequences.
LEMMA WireFacts ==
    ASSUME NEW S, NEW ws \in Seq(Seq(S))
    PROVE  /\ Len(ws) \in Nat /\ DOMAIN ws = 1..Len(ws)
           /\ \A k \in DOMAIN ws : /\ ws[k] \in Seq(S) /\ Len(ws[k]) \in Nat
                                   /\ DOMAIN ws[k] = 1..Len(ws[k])
                                   /\ \A i \in DOMAIN ws[k] : ws[k][i] \in S
<1>1. Len(ws) \in Nat /\ DOMAIN ws = 1..Len(ws) /\ \A k \in DOMAIN ws : ws[k] \in Seq(S)
  BY LenProperties, ElementOfSeq
<1>2. \A q \in Seq(S) : Len(q) \in Nat /\ DOMAIN q = 1..Len(q) /\ \A i \in DOMAIN q : q[i] \in S
  BY LenProperties, ElementOfSeq
<1> QED BY <1>1, <1>2

LEMMA WireSet ==
    ASSUME NEW S, NEW ws \in Seq(Seq(S)), NEW k \in DOMAIN ws, NEW q \in Seq(S),
           NEW ws2, ws2 = [ws EXCEPT ![k] = q]
    PROVE  /\ ws2 \in Seq(Seq(S)) /\ Len(ws2) = Len(ws) /\ DOMAIN ws2 = DOMAIN ws
           /\ ws2[k] = q /\ \A j \in DOMAIN ws : j # k => ws2[j] = ws[j]
<1>1. DOMAIN ws = 1..Len(ws) /\ Len(ws) \in Nat
  BY WireFacts
<1>2. ws2 \in Seq(Seq(S)) /\ Len(ws2) = Len(ws)
  BY <1>1, ExceptSeq
<1> QED BY <1>1, <1>2

LEMMA AppendFacts ==
    ASSUME NEW S, NEW q \in Seq(S), NEW m \in S, NEW q2, q2 = Append(q, m)
    PROVE  /\ q2 \in Seq(S) /\ Len(q2) = Len(q) + 1 /\ DOMAIN q2 = 1..(Len(q) + 1)
           /\ DOMAIN q = 1..Len(q) /\ Len(q) \in Nat
           /\ q2[Len(q) + 1] = m /\ \A i \in 1..Len(q) : q2[i] = q[i]
<1>1. Len(q) \in Nat /\ DOMAIN q = 1..Len(q)
  BY LenProperties
<1>2. q2 \in Seq(S) /\ Len(q2) = Len(q) + 1 /\ q2[Len(q) + 1] = m /\ \A i \in 1..Len(q) : q2[i] = q[i]
  BY <1>1, AppendProperties
<1>3. DOMAIN q2 = 1..Len(q2)
  BY <1>2, LenProperties
<1> QED BY <1>1, <1>2, <1>3

LEMMA AppendTwo ==
    ASSUME NEW S, NEW a \in S, NEW m \in S
    PROVE  Append(<<a>>, m) = <<a, m>>
<1>1. /\ <<a>> \in Seq(S) /\ Len(<<a>>) = 1 /\ <<a>>[1] = a
      /\ <<a, m>> \in Seq(S) /\ Len(<<a, m>>) = 2 /\ <<a, m>>[1] = a /\ <<a, m>>[2] = m
  OBVIOUS
<1>2. PICK s \in Seq(S) : s = <<a>> /\ Len(s) = 1 /\ s[1] = a
  BY <1>1, Zenon
<1>3. PICK t \in Seq(S) : t = <<a, m>> /\ Len(t) = 2 /\ t[1] = a /\ t[2] = m
  BY <1>1, Zenon
<1>4. Append(s, m) \in Seq(S) /\ Len(Append(s, m)) = 2 /\ Append(s, m)[1] = a /\ Append(s, m)[2] = m
  BY <1>2, AppendProperties
<1>5. PICK u \in Seq(S) : u = Append(s, m) /\ Len(u) = 2 /\ u[1] = a /\ u[2] = m
  BY <1>4, Zenon
<1>6. \A i \in 1..2 : i = 1 \/ i = 2
  OBVIOUS
<1>7. u = t
  <2>1. \A i \in 1..Len(u) : u[i] = t[i]
    BY <1>3, <1>5, <1>6
  <2> QED BY <1>3, <1>5, <2>1, SeqEqual
<1> QED BY <1>2, <1>3, <1>5, <1>7

LEMMA RestFacts ==
    ASSUME NEW S, NEW q \in Seq(S), q # <<>>, NEW q2, q2 = Tail(q)
    PROVE  /\ q2 \in Seq(S) /\ Len(q) \in Nat /\ Len(q) >= 1 /\ DOMAIN q = 1..Len(q)
           /\ Len(q2) = Len(q) - 1 /\ DOMAIN q2 = 1..(Len(q) - 1)
           /\ Head(q) = q[1] /\ Head(q) \in S /\ \A i \in 1..(Len(q) - 1) : q2[i] = q[i + 1]
<1>1. Len(q) \in Nat /\ Len(q) >= 1 /\ DOMAIN q = 1..Len(q)
  BY EmptySeq, LenProperties
<1>2. q2 \in Seq(S) /\ Len(q2) = Len(q) - 1 /\ \A i \in 1..Len(q2) : q2[i] = q[i + 1]
  BY HeadTailProperties
<1>3. DOMAIN q2 = 1..Len(q2)
  BY <1>2, LenProperties
<1>4. Head(q) = q[1] /\ Head(q) \in S
  BY <1>1, HeadTailProperties
<1> QED BY <1>1, <1>2, <1>3, <1>4

----------------------------------------------------------------------------
(* Where the packet of a call is.                                          *)

OnlyAt(wires, c, a, b) ==
    \A j \in DOMAIN wires : \A i \in DOMAIN wires[j] : Mine(wires[j][i], c) => j = a /\ i = b

LEMMA OnlyPlace ==
    ASSUME NEW wires, NEW c, NEW a, NEW b, OnlyAt(wires, c, a, b)
    PROVE  OnePending(wires, c)
BY DEF OnePending, OnlyAt

Put(ws, k, m) == [ws EXCEPT ![k] = Append(ws[k], m)]
Drop(ws, k) == [ws EXCEPT ![k] = Tail(ws[k])]

\* Each token of the new wires is one of the old, each from another place, or m, which was not there.
LEMMA PendingAppend ==
    ASSUME NEW ws \in Seq(Seq(ToTokens)), NEW k \in DOMAIN ws, NEW m \in ToTokens, NEW c,
           NEW ws2, ws2 = Put(ws, k, m)
    PROVE  /\ NonePending(ws, c) => OnePending(ws2, c)
           /\ NonePending(ws, c) /\ ~Mine(m, c) => NonePending(ws2, c)
           /\ OnePending(ws, c) /\ ~Mine(m, c) => OnePending(ws2, c)
<1>1. PICK q \in Seq(ToTokens) : q = ws[k]
  BY WireFacts
<1>2. PICK q2 : q2 = Append(q, m)
  OBVIOUS
<1>3. /\ q2 \in Seq(ToTokens) /\ DOMAIN q2 = 1..(Len(q) + 1)
      /\ DOMAIN q = 1..Len(q) /\ Len(q) \in Nat
      /\ q2[Len(q) + 1] = m /\ \A i \in 1..Len(q) : q2[i] = q[i]
  BY <1>2, AppendFacts
<1>4. DOMAIN ws2 = DOMAIN ws /\ ws2[k] = q2 /\ \A j \in DOMAIN ws : j # k => ws2[j] = ws[j]
  <2>1. ws2 = [ws EXCEPT ![k] = q2]
    BY <1>1, <1>2 DEF Put
  <2> QED BY <1>3, <2>1, WireSet
<1>5. ASSUME NEW j \in DOMAIN ws, NEW i \in DOMAIN ws2[j]
      PROVE  \/ i \in DOMAIN ws[j] /\ ws2[j][i] = ws[j][i]
             \/ j = k /\ i = Len(q) + 1 /\ ws2[j][i] = m
  <2>1. CASE j # k
    BY <1>4, <2>1
  <2>2. CASE j = k
    <3>1. i \in 1..(Len(q) + 1) /\ ws2[j][i] = q2[i]
      BY <1>3, <1>4, <2>2
    <3>2. i \in 1..Len(q) \/ i = Len(q) + 1
      BY <1>3, <3>1
    <3> QED BY <1>1, <1>3, <2>2, <3>1, <3>2
  <2> QED BY <2>1, <2>2
<1>6. NonePending(ws, c) => OnePending(ws2, c)
  <2> SUFFICES ASSUME NonePending(ws, c) PROVE OnePending(ws2, c)
    OBVIOUS
  <2>1. PICK n : n = Len(q) + 1
    OBVIOUS
  <2>2. OnlyAt(ws2, c, k, n)
    BY <1>4, <1>5, <2>1 DEF NonePending, OnlyAt
  <2> QED BY <2>2, OnlyPlace
<1>7. NonePending(ws, c) /\ ~Mine(m, c) => NonePending(ws2, c)
  BY <1>4, <1>5 DEF NonePending
<1>8. OnePending(ws, c) /\ ~Mine(m, c) => OnePending(ws2, c)
  <2> SUFFICES ASSUME OnePending(ws, c), ~Mine(m, c), NEW j1 \in DOMAIN ws2, NEW j2 \in DOMAIN ws2,
                      NEW i1 \in DOMAIN ws2[j1], NEW i2 \in DOMAIN ws2[j2],
                      Mine(ws2[j1][i1], c), Mine(ws2[j2][i2], c)
               PROVE  j1 = j2 /\ i1 = i2
    BY DEF OnePending
  <2>1. i1 \in DOMAIN ws[j1] /\ ws2[j1][i1] = ws[j1][i1] /\ i2 \in DOMAIN ws[j2] /\ ws2[j2][i2] = ws[j2][i2]
    BY <1>4, <1>5
  <2> QED BY <1>4, <2>1 DEF OnePending
<1> QED BY <1>6, <1>7, <1>8

LEMMA PendingTail ==
    ASSUME NEW ws \in Seq(Seq(ToTokens)), NEW k \in DOMAIN ws, ws[k] # <<>>, NEW c,
           NEW ws2, ws2 = Drop(ws, k)
    PROVE  /\ NonePending(ws, c) => NonePending(ws2, c) /\ ~Mine(Head(ws[k]), c)
           /\ OnePending(ws, c) => OnePending(ws2, c)
           /\ OnePending(ws, c) /\ Mine(Head(ws[k]), c) => NonePending(ws2, c)
<1>1. PICK q \in Seq(ToTokens) : q = ws[k] /\ q # <<>>
  BY WireFacts
<1>2. PICK q2 : q2 = Tail(q)
  OBVIOUS
<1>3. /\ q2 \in Seq(ToTokens) /\ Len(q) \in Nat /\ Len(q) >= 1 /\ DOMAIN q = 1..Len(q)
      /\ DOMAIN q2 = 1..(Len(q) - 1) /\ Head(q) = q[1] /\ \A i \in 1..(Len(q) - 1) : q2[i] = q[i + 1]
  BY <1>1, <1>2, RestFacts
<1>4. DOMAIN ws2 = DOMAIN ws /\ ws2[k] = q2 /\ \A j \in DOMAIN ws : j # k => ws2[j] = ws[j]
  <2>1. ws2 = [ws EXCEPT ![k] = q2]
    BY <1>1, <1>2 DEF Drop
  <2> QED BY <1>3, <2>1, WireSet
<1>5. ASSUME NEW j \in DOMAIN ws, NEW i \in DOMAIN ws2[j]
      PROVE  \/ j # k /\ i \in DOMAIN ws[j] /\ ws2[j][i] = ws[j][i]
             \/ j = k /\ i \in Nat /\ i >= 1 /\ i + 1 \in DOMAIN ws[k] /\ ws2[j][i] = ws[k][i + 1]
  <2>1. CASE j # k
    BY <1>4, <2>1
  <2>2. CASE j = k
    <3>1. i \in 1..(Len(q) - 1) /\ ws2[j][i] = q2[i]
      BY <1>3, <1>4, <2>2
    <3>2. i \in Nat /\ i >= 1 /\ i + 1 \in 1..Len(q)
      BY <1>3, <3>1
    <3> QED BY <1>1, <1>3, <2>2, <3>1, <3>2
  <2> QED BY <2>1, <2>2
<1>6. 1 \in DOMAIN ws[k] /\ ws[k][1] = Head(ws[k])
  BY <1>1, <1>3
<1>7. NonePending(ws, c) => NonePending(ws2, c) /\ ~Mine(Head(ws[k]), c)
  <2> SUFFICES ASSUME NonePending(ws, c) PROVE NonePending(ws2, c) /\ ~Mine(Head(ws[k]), c)
    OBVIOUS
  <2>1. ~Mine(Head(ws[k]), c)
    BY <1>6 DEF NonePending
  <2>2. ASSUME NEW j \in DOMAIN ws2, NEW i \in DOMAIN ws2[j]
        PROVE  ~Mine(ws2[j][i], c)
    BY <1>4, <1>5 DEF NonePending
  <2> QED BY <2>1, <2>2 DEF NonePending
<1>8. OnePending(ws, c) => OnePending(ws2, c)
  <2> SUFFICES ASSUME OnePending(ws, c), NEW j1 \in DOMAIN ws2, NEW j2 \in DOMAIN ws2,
                      NEW i1 \in DOMAIN ws2[j1], NEW i2 \in DOMAIN ws2[j2],
                      Mine(ws2[j1][i1], c), Mine(ws2[j2][i2], c)
               PROVE  j1 = j2 /\ i1 = i2
    BY DEF OnePending
  <2>1. CASE j1 # k /\ j2 # k
    BY <1>4, <1>5, <2>1 DEF OnePending
  <2>2. CASE j1 = k /\ j2 = k
    <3>1. i1 \in Nat /\ i2 \in Nat /\ i1 + 1 = i2 + 1
      BY <1>4, <1>5, <2>2 DEF OnePending
    <3> QED BY <2>2, <3>1
  <2>3. CASE j1 = k /\ j2 # k
    BY <1>4, <1>5, <2>3 DEF OnePending
  <2>4. CASE j1 # k /\ j2 = k
    BY <1>4, <1>5, <2>4 DEF OnePending
  <2> QED BY <2>1, <2>2, <2>3, <2>4
<1>9. ASSUME OnePending(ws, c), Mine(Head(ws[k]), c), NEW j \in DOMAIN ws2, NEW i \in DOMAIN ws2[j]
      PROVE  ~Mine(ws2[j][i], c)
  <2>1. CASE j # k
    BY <1>4, <1>5, <1>6, <1>9, <2>1 DEF OnePending
  <2>2. CASE j = k
    <3>1. i \in Nat /\ i >= 1 /\ i + 1 \in DOMAIN ws[k] /\ ws2[j][i] = ws[k][i + 1]
      BY <1>4, <1>5, <2>2
    <3>2. i + 1 # 1
      BY <3>1
    <3> QED BY <1>6, <1>9, <3>1, <3>2 DEF OnePending
  <2> QED BY <2>1, <2>2
<1> QED BY <1>7, <1>8, <1>9 DEF NonePending

LEMMA PendingNew ==
    ASSUME NEW ws \in Seq(Seq(ToTokens)), NEW m \in ToTokens, NEW c, ~Mine(m, c),
           NEW ws2, ws2 = Append(ws, <<m>>)
    PROVE  /\ ws2 \in Seq(Seq(ToTokens)) /\ Len(ws2) = Len(ws) + 1 /\ ws2[Len(ws) + 1] = <<m>>
           /\ \A j \in DOMAIN ws : j \in DOMAIN ws2 /\ ws2[j] = ws[j]
           /\ \A j \in DOMAIN ws2 : j \in DOMAIN ws \/ ws2[j] = <<m>>
           /\ NonePending(ws, c) => NonePending(ws2, c)
           /\ OnePending(ws, c) => OnePending(ws2, c)
<1>1. PICK q \in Seq(ToTokens) : q = <<m>> /\ DOMAIN q = {1} /\ q[1] = m
  <2>1. <<m>> \in Seq(ToTokens) /\ DOMAIN <<m>> = {1} /\ <<m>>[1] = m
    OBVIOUS
  <2> QED BY <2>1, Zenon
<1>2. /\ ws2 \in Seq(Seq(ToTokens)) /\ Len(ws2) = Len(ws) + 1 /\ DOMAIN ws2 = 1..(Len(ws) + 1)
      /\ DOMAIN ws = 1..Len(ws) /\ Len(ws) \in Nat
      /\ ws2[Len(ws) + 1] = q /\ \A i \in 1..Len(ws) : ws2[i] = ws[i]
  BY <1>1, AppendFacts
<1>3. \A j \in DOMAIN ws : j \in DOMAIN ws2 /\ ws2[j] = ws[j]
  BY <1>2
<1>4. \A j \in DOMAIN ws2 : j \in DOMAIN ws \/ ws2[j] = q
  BY <1>2
<1>5. ASSUME NEW j \in DOMAIN ws2, NEW i \in DOMAIN ws2[j], Mine(ws2[j][i], c)
      PROVE  j \in DOMAIN ws /\ i \in DOMAIN ws[j] /\ ws2[j][i] = ws[j][i]
  BY <1>1, <1>3, <1>4, <1>5
<1>6. NonePending(ws, c) => NonePending(ws2, c)
  BY <1>5 DEF NonePending
<1>7. OnePending(ws, c) => OnePending(ws2, c)
  BY <1>5 DEF OnePending
<1> QED BY <1>1, <1>2, <1>3, <1>4, <1>6, <1>7

----------------------------------------------------------------------------
(* The invariant, part by part, with what each part depends on.            *)

Typed ==
    /\ lock \in Calls \cup {None} /\ conn \in {0, opened} /\ opened \in 0..MaxConns
    /\ dead \subseteq 1..opened /\ attached \in 0..opened /\ resumed \in Calls \cup {None}
    /\ lastReply \in Replies \cup {NoReply} /\ (resumed # None => attached # 0) /\ runs \in [Calls -> Nat]
    /\ dirty \in BOOLEAN /\ faults \in 0..MaxFaults
    /\ toStub \in Seq(Seq(ToTokens)) /\ Len(toStub) = opened
    /\ fromStub \in Seq(Seq(FromTokens)) /\ Len(fromStub) = opened

CallOk(c, r, holder, cn, d) ==
    /\ holder = c <=> r.pc \in Busy
    /\ r.pc \in {"ack", "recv", "broke"} => cn # 0 /\ (d => r.unclean /\ ~r.hello)
    /\ (r.pc = "broke" => r.kind = "cont") /\ (r.pc = "again" => r.kind = "backtrace")
    /\ r.pc \in {"recv", "broke"} /\ ~r.hello => r.sent
    /\ r.pc \notin {"again", "ok", "failed"} => r.reads < 3 + 2 * MaxFrames
    /\ r.foreign => r.unclean
    /\ r.claim # "none" => r.pc \in {"ok", "failed"}
NotSent(c, ws, n) == NonePending(ws, c) /\ n = 0
SentOnce(c, ws, n) == (NonePending(ws, c) /\ n <= 1) \/ (OnePending(ws, c) /\ n = 0)
StepOk(c, r, ws, n, nak) ==
    /\ r.pc = "new" => n = 0
    /\ r.kind = "step" /\ ~r.ackLost /\ ~r.unclean =>
          /\ SentOnce(c, ws, n)
          /\ NotOut(r) \/ (r.pc = "ack" /\ nak) => NotSent(c, ws, n)
HeadNak == fromStub[conn] = <<Mark("nak")>>
Safe == (conn = 0 => ~dirty) /\ StreamInv /\ PacketInv

LEMMA TypedIs == Typed /\ calls \in [Calls -> CallType] <=> TypeOK /\ WireInv
<1>1. ASSUME toStub \in Seq(Seq(ToTokens)), fromStub \in Seq(Seq(FromTokens))
      PROVE  /\ DOMAIN toStub = 1..Len(toStub) /\ DOMAIN fromStub = 1..Len(fromStub)
             /\ Len(toStub) \in Nat /\ Len(fromStub) \in Nat
  BY <1>1, WireFacts
<1>2. \A n, m \in Nat : 1..n = 1..m => n = m
  <2> SUFFICES ASSUME NEW n \in Nat, NEW m \in Nat, 1..n = 1..m PROVE n = m
    OBVIOUS
  <2>1. (n \in 1..n <=> n \in 1..m) /\ (m \in 1..n <=> m \in 1..m)
    OBVIOUS
  <2> QED BY <2>1
<1>3. MaxConns \in Nat
  BY GdbAssumption
<1>4. opened \in 0..MaxConns => opened \in Nat /\ {0, opened} \subseteq 0..opened
  BY <1>3
<1>5. ASSUME TypeOK, WireInv PROVE Typed /\ calls \in [Calls -> CallType]
  BY <1>1, <1>2, <1>4, <1>5 DEF TypeOK, WireInv, Typed
<1>6. ASSUME Typed, calls \in [Calls -> CallType] PROVE TypeOK /\ WireInv
  BY <1>1, <1>4, <1>6 DEF TypeOK, WireInv, Typed
<1> QED BY <1>5, <1>6

LEMMA GdbParts ==
    GdbInv <=> /\ Typed /\ calls \in [Calls -> CallType] /\ Safe
               /\ \A c \in Calls : /\ CallOk(c, calls[c], lock, conn, dirty)
                                   /\ StepOk(c, calls[c], toStub, runs[c], HeadNak)
<1>1. \A c \in Calls : CallInv(c) <=> CallOk(c, calls[c], lock, conn, dirty)
  BY DEF CallInv, CallOk
<1>2. \A c \in Calls : StepInv(c) <=> StepOk(c, calls[c], toStub, runs[c], HeadNak)
  BY Zenon DEF StepInv, StepOk, Once, Unsent, SentOnce, NotSent, HeadNak
<1> QED BY <1>1, <1>2, TypedIs, Zenon DEF GdbInv, Safe

LEMMA GdbPartsNext ==
    ASSUME Typed', calls' \in [Calls -> CallType], Safe',
           \A c \in Calls : /\ CallOk(c, calls'[c], lock', conn', dirty')
                            /\ StepOk(c, calls'[c], toStub', runs'[c], HeadNak')
    PROVE  GdbInv'
<1>1. \A c \in Calls : CallInv(c)'
  BY DEF CallInv, CallOk
<1>2. \A c \in Calls : StepInv(c)'
  BY Zenon DEF StepInv, StepOk, Once, Unsent, SentOnce, NotSent, HeadNak
<1>3. opened' \in Nat /\ {0, opened'} \subseteq 0..opened'
  BY GdbAssumption DEF Typed
<1>4. DOMAIN toStub' = 1..opened' /\ DOMAIN fromStub' = 1..opened'
  <2>1. toStub' \in Seq(Seq(ToTokens)) /\ fromStub' \in Seq(Seq(FromTokens))
        /\ Len(toStub') = opened' /\ Len(fromStub') = opened'
    BY DEF Typed
  <2> QED BY <2>1, LenProperties
<1>5. TypeOK' /\ WireInv'
  BY <1>3, <1>4 DEF TypeOK, WireInv, Typed
<1> QED BY <1>1, <1>2, <1>5, Zenon DEF GdbInv, Safe

\* What a call's own step leaves alone: the packets of the others.
Elsewhere(c) ==
    \A d \in Calls : d # c => /\ NonePending(toStub, d) => NonePending(toStub', d)
                              /\ OnePending(toStub, d) => OnePending(toStub', d)

LEMMA ClientStep ==
    ASSUME GdbInv, NEW c \in Calls, NEW r \in CallType, calls' = [calls EXCEPT ![c] = r],
           lock \in {c, None}, lock' \in {c, None}, runs' = runs, Typed', Safe', Elsewhere(c),
           CallOk(c, r, lock', conn', dirty'), StepOk(c, r, toStub', runs[c], HeadNak')
    PROVE  GdbInv'
<1>1. /\ calls \in [Calls -> CallType] /\ None \notin Calls
      /\ \A d \in Calls : /\ CallOk(d, calls[d], lock, conn, dirty)
                          /\ StepOk(d, calls[d], toStub, runs[d], HeadNak)
  BY GdbParts, GdbAssumption
<1>2. /\ calls' \in [Calls -> CallType] /\ calls'[c] = r
      /\ \A d \in Calls : d # c => calls'[d] = calls[d]
  BY <1>1
<1>3. ASSUME NEW d \in Calls, d # c
      PROVE  /\ CallOk(d, calls[d], lock', conn', dirty')
             /\ StepOk(d, calls[d], toStub', runs[d], HeadNak')
  <2>1. PICK q \in CallType : q = calls[d]
    BY <1>1
  <2>2. CallOk(d, q, lock, conn, dirty) /\ StepOk(d, q, toStub, runs[d], HeadNak)
    BY <1>1, <2>1
  <2>3. lock # d /\ lock' # d
    BY <1>1, <1>3
  <2>4. q.pc \notin Busy
    BY <2>2, <2>3 DEF CallOk
  <2>5. CallOk(d, q, lock', conn', dirty')
    BY <2>2, <2>3, <2>4 DEF CallOk, Busy
  <2>6. SentOnce(d, toStub, runs[d]) => SentOnce(d, toStub', runs[d])
    BY <1>3, Zenon DEF SentOnce, Elsewhere
  <2>7. NotSent(d, toStub, runs[d]) => NotSent(d, toStub', runs[d])
    BY <1>3, Zenon DEF NotSent, Elsewhere
  <2>8. q.pc # "ack"
    BY <2>4 DEF Busy
  <2>9. StepOk(d, q, toStub', runs[d], HeadNak')
    BY <2>2, <2>6, <2>7, <2>8, Zenon DEF StepOk
  <2> QED BY <2>1, <2>5, <2>9
<1>4. \A d \in Calls : /\ CallOk(d, calls'[d], lock', conn', dirty')
                       /\ StepOk(d, calls'[d], toStub', runs'[d], HeadNak')
  BY <1>2, <1>3
<1> QED BY <1>2, <1>4, GdbPartsNext

\* The packets stay those of calls that were made, as they were made.
LEMMA PacketsStay ==
    ASSUME GdbInv, NEW c \in Calls, NEW r \in CallType, calls' = [calls EXCEPT ![c] = r],
           r.pc # "new", calls[c].pc = "new" \/ r.kind = calls[c].kind, toStub' = toStub
    PROVE  PacketInv' /\ Elsewhere(c)
<1>1. /\ calls \in [Calls -> CallType] /\ PacketInv /\ toStub \in Seq(Seq(ToTokens))
  BY GdbParts DEF Safe, Typed
<1>2. /\ calls'[c] = r /\ \A d \in Calls : d # c => calls'[d] = calls[d]
  BY <1>1
<1>3. ASSUME NEW k \in DOMAIN toStub, NEW i \in DOMAIN toStub[k], toStub[k][i].t \in Kinds
      PROVE  calls'[toStub[k][i].of].kind = toStub[k][i].t /\ calls'[toStub[k][i].of].pc # "new"
  <2>1. PICK m \in ToTokens : m = toStub[k][i]
    BY <1>1, WireFacts
  <2>2. m.of \in Calls
    BY <1>3, <2>1, ToTokenIs DEF Kinds
  <2>3. calls[m.of].kind = m.t /\ calls[m.of].pc # "new"
    BY <1>1, <1>3, <2>1 DEF PacketInv
  <2> QED BY <1>2, <2>1, <2>2, <2>3
<1>4. PacketInv'
  BY <1>3 DEF PacketInv
<1> QED BY <1>4, Zenon DEF Elsewhere

LEMMA PacketsAdded ==
    ASSUME GdbInv, NEW c \in Calls, NEW r \in CallType, calls' = [calls EXCEPT ![c] = r],
           r.pc # "new", calls[c].pc # "new", r.kind = calls[c].kind,
           NEW k \in DOMAIN toStub, NEW m \in ToTokens,
           m.t \in Kinds => m.of = c /\ m.t = r.kind,
           toStub' = Put(toStub, k, m)
    PROVE  PacketInv' /\ Elsewhere(c)
<1>1. /\ calls \in [Calls -> CallType] /\ PacketInv /\ toStub \in Seq(Seq(ToTokens))
  BY GdbParts DEF Safe, Typed
<1>2. /\ calls'[c] = r /\ \A d \in Calls : d # c => calls'[d] = calls[d]
  BY <1>1
<1>3. PICK q \in Seq(ToTokens) : q = toStub[k]
  BY <1>1, WireFacts
<1>4. PICK q2 \in Seq(ToTokens) :
         /\ q2 = Append(q, m) /\ DOMAIN q2 = 1..(Len(q) + 1) /\ DOMAIN q = 1..Len(q) /\ Len(q) \in Nat
         /\ q2[Len(q) + 1] = m /\ \A i \in 1..Len(q) : q2[i] = q[i]
  <2>1. PICK q2 : q2 = Append(q, m)
    OBVIOUS
  <2>2. /\ q2 \in Seq(ToTokens) /\ DOMAIN q2 = 1..(Len(q) + 1) /\ DOMAIN q = 1..Len(q) /\ Len(q) \in Nat
        /\ q2[Len(q) + 1] = m /\ \A i \in 1..Len(q) : q2[i] = q[i]
    BY <2>1, AppendFacts
  <2> QED BY <2>1, <2>2, Zenon
<1>5. DOMAIN toStub' = DOMAIN toStub /\ toStub'[k] = q2 /\ \A j \in DOMAIN toStub : j # k => toStub'[j] = toStub[j]
  BY <1>1, <1>3, <1>4, WireSet DEF Put
<1>6. ASSUME NEW j \in DOMAIN toStub', NEW i \in DOMAIN toStub'[j], toStub'[j][i].t \in Kinds
      PROVE  calls'[toStub'[j][i].of].kind = toStub'[j][i].t /\ calls'[toStub'[j][i].of].pc # "new"
  <2>1. CASE j \in DOMAIN toStub /\ i \in DOMAIN toStub[j] /\ toStub'[j][i] = toStub[j][i]
    <3>1. PICK x \in ToTokens : x = toStub[j][i]
      BY <1>1, <2>1, WireFacts
    <3>2. x.of \in Calls
      BY <1>6, <2>1, <3>1, ToTokenIs DEF Kinds
    <3>3. calls[x.of].kind = x.t /\ calls[x.of].pc # "new"
      BY <1>1, <1>6, <2>1, <3>1 DEF PacketInv
    <3> QED BY <1>2, <2>1, <3>1, <3>2, <3>3
  <2>2. CASE toStub'[j][i] = m
    BY <1>2, <1>6, <2>2
  <2> QED BY <1>3, <1>4, <1>5, <2>1, <2>2
<1>7. PacketInv'
  BY <1>6 DEF PacketInv
<1>8. Elsewhere(c)
  <2> SUFFICES ASSUME NEW d \in Calls, d # c
               PROVE  /\ NonePending(toStub, d) => NonePending(toStub', d)
                      /\ OnePending(toStub, d) => OnePending(toStub', d)
    BY DEF Elsewhere
  <2>1. ~Mine(m, d)
    BY DEF Mine
  <2>2. PICK ws \in Seq(Seq(ToTokens)) : ws = toStub
    BY <1>1
  <2>3. PICK ws2 : ws2 = toStub'
    OBVIOUS
  <2>4. k \in DOMAIN ws /\ ws2 = Put(ws, k, m)
    BY <2>2, <2>3
  <2>5. /\ NonePending(ws, d) => NonePending(ws2, d)
        /\ OnePending(ws, d) => OnePending(ws2, d)
    BY <2>1, <2>4, PendingAppend, Zenon
  <2> QED BY <2>2, <2>3, <2>5
<1> QED BY <1>7, <1>8

----------------------------------------------------------------------------
(* A call ends: the connection is closed, or left open as it was.          *)

Ending(q, r) ==
    /\ r.pc \in {"ok", "failed"} /\ r.kind = q.kind /\ r.unclean = q.unclean
    /\ r.foreign => q.foreign
    /\ q.ackLost => r.ackLost
    /\ r.claim = "notRun" => r.ackLost \/ NotOut(q)
Kept(c) == /\ NonePending(toStub, c) => NonePending(toStub', c)
           /\ OnePending(toStub, c) => OnePending(toStub', c)
ClosedOrLeft == (conn' = 0 /\ dirty' = FALSE) \/ (conn' = conn /\ dirty' = (conn # 0))
WiresOk(opn) == /\ toStub' \in Seq(Seq(ToTokens)) /\ Len(toStub') = opn
                /\ fromStub' \in Seq(Seq(FromTokens)) /\ Len(fromStub') = opn
StubSame == UNCHANGED <<attached, resumed, lastReply, runs>>
FaultsOk == faults' \in 0..MaxFaults

LEMMA TypedKept ==
    ASSUME GdbInv, opened' = opened, dead' = dead, StubSame, FaultsOk, WiresOk(opened),
           lock' \in Calls \cup {None}, conn' \in {0, conn}, dirty' \in BOOLEAN
    PROVE  Typed'
<1>1. Typed
  BY GdbParts
<1> QED BY <1>1 DEF Typed, StubSame, FaultsOk, WiresOk

LEMMA Finishes ==
    ASSUME GdbInv, NEW c \in Calls, lock = c, NEW r \in CallType, calls' = [calls EXCEPT ![c] = r],
           Ending(calls[c], r), lock' = None, opened' = opened, dead' = dead, StubSame, FaultsOk,
           WiresOk(opened), ClosedOrLeft, PacketInv', Elsewhere(c), Kept(c)
    PROVE  GdbInv'
<1>1. PICK q \in CallType : q = calls[c]
  BY GdbParts
<1>2. CallOk(c, q, c, conn, dirty) /\ StepOk(c, q, toStub, runs[c], HeadNak) /\ None # c /\ Typed
  BY <1>1, GdbParts, GdbAssumption
<1>3. Typed'
  <2>1. conn' \in {0, conn} /\ dirty' \in BOOLEAN /\ lock' \in Calls \cup {None}
    BY DEF ClosedOrLeft
  <2> QED BY <2>1, TypedKept
<1>4. Safe'
  BY DEF Safe, StreamInv, ClosedOrLeft
<1>5. q.pc \in Busy
  BY <1>2 DEF CallOk
<1>6. CallOk(c, r, lock', conn', dirty')
  BY <1>1, <1>2 DEF CallOk, Ending, Busy
<1>7. StepOk(c, r, toStub', runs[c], HeadNak')
  <2> SUFFICES ASSUME r.kind = "step", ~r.ackLost, ~r.unclean
               PROVE  /\ SentOnce(c, toStub', runs[c])
                      /\ NotOut(r) => NotSent(c, toStub', runs[c])
    <3>1. r.pc # "new" /\ r.pc # "ack"
      BY DEF Ending
    <3> QED BY <3>1, Zenon DEF StepOk
  <2>1. q.kind = "step" /\ ~q.ackLost /\ ~q.unclean
    BY <1>1, Zenon DEF Ending
  <2>2. SentOnce(c, toStub, runs[c]) /\ (NotOut(q) => NotSent(c, toStub, runs[c]))
    BY <1>2, <2>1, Zenon DEF StepOk
  <2>3. SentOnce(c, toStub', runs[c])
    BY <2>2, Zenon DEF SentOnce, Kept
  <2>4. NotOut(r) => NotOut(q)
    <3>1. r.pc \notin {"connect", "ack", "recv"}
      BY DEF Ending
    <3>2. r.claim = "notRun" => NotOut(q)
      BY <1>1, Zenon DEF Ending
    <3> QED BY <3>1, <3>2 DEF NotOut
  <2>5. NotSent(c, toStub, runs[c]) => NotSent(c, toStub', runs[c])
    BY Zenon DEF NotSent, Kept
  <2> QED BY <2>2, <2>3, <2>4, <2>5
<1>8. runs' = runs /\ lock \in {c, None} /\ lock' \in {c, None}
  BY DEF StubSame
<1> QED BY <1>3, <1>4, <1>6, <1>7, <1>8, ClientStep

LEMMA RaisesIs ==
    ASSUME GdbInv, NEW c \in Calls, lock = c, NEW claim \in {"none", "notRun", "mayHaveRun"},
           Raises(c, claim),
           claim = "notRun" => NotOut(calls[c]) \/ (calls[c].pc = "ack" /\ ~calls[c].hello)
    PROVE  lock' = None /\ \E r \in CallType : calls' = [calls EXCEPT ![c] = r] /\ Ending(calls[c], r)
<1>1. PICK q \in CallType : q = calls[c]
  BY GdbParts
<1>2. PICK pc \in {"ok", "failed"} : pc = IF q.kind = "backtrace" /\ q.reads >= 3 THEN "ok" ELSE "failed"
  OBVIOUS
<1>3. PICK al \in BOOLEAN : al = (q.ackLost \/ (q.pc = "ack" /\ ~q.hello))
  OBVIOUS
<1>4. PICK r : r = [q EXCEPT !.pc = pc, !.claim = claim, !.ackLost = al]
  OBVIOUS
<1>5. r \in CallType
  BY <1>4 DEF CallType
<1>6. /\ r.pc = pc /\ r.kind = q.kind /\ r.unclean = q.unclean /\ r.foreign = q.foreign
      /\ r.claim = claim /\ r.ackLost = al
  BY <1>4 DEF CallType
<1>7. calls' = [calls EXCEPT ![c] = r] /\ lock' = None
  BY <1>1, <1>2, <1>3, <1>4 DEF Raises
<1>8. q.ackLost \in BOOLEAN /\ q.hello \in BOOLEAN
  BY DEF CallType
<1>9. Ending(q, r)
  <2>1. q.ackLost => r.ackLost
    BY <1>3, <1>6, <1>8
  <2>2. r.claim = "notRun" => r.ackLost \/ NotOut(q)
    BY <1>1, <1>3, <1>6, <1>8
  <2> QED BY <1>2, <1>6, <2>1, <2>2, Zenon DEF Ending
<1> QED BY <1>1, <1>5, <1>7, <1>9

\* What is read from a wire, or dropped with it.
LEMMA ReadWire ==
    ASSUME GdbInv, conn # 0, NEW q \in Seq(FromTokens), fromStub' = [fromStub EXCEPT ![conn] = q]
    PROVE  /\ fromStub' \in Seq(Seq(FromTokens)) /\ Len(fromStub') = opened
           /\ fromStub'[conn] = q /\ conn \in DOMAIN fromStub
<1>1. Typed
  BY GdbParts
<1>2. /\ fromStub \in Seq(Seq(FromTokens)) /\ Len(fromStub) = opened /\ conn \in 1..opened
  BY <1>1 DEF Typed
<1>3. conn \in DOMAIN fromStub
  BY <1>2, WireFacts
<1> QED BY <1>2, <1>3, WireSet

LEMMA ClosedWire ==
    ASSUME GdbInv, _close_locked
    PROVE  /\ fromStub' \in Seq(Seq(FromTokens)) /\ Len(fromStub') = opened /\ ClosedOrLeft
           /\ conn' = 0 /\ dirty' = FALSE
<1>1. fromStub \in Seq(Seq(FromTokens)) /\ Len(fromStub) = opened
  BY GdbParts DEF Typed
<1>2. conn' = 0 /\ dirty' = FALSE
  BY DEF _close_locked
<1>3. CASE conn = 0
  BY <1>1, <1>2, <1>3 DEF _close_locked, ClosedOrLeft
<1>4. CASE conn # 0
  <2>1. fromStub' = [fromStub EXCEPT ![conn] = <<>>] /\ <<>> \in Seq(FromTokens)
    BY <1>4 DEF _close_locked
  <2> QED BY <1>2, <1>4, <2>1, ReadWire DEF ClosedOrLeft
<1> QED BY <1>3, <1>4

LEMMA SameTo ==
    ASSUME GdbInv, toStub' = toStub
    PROVE  /\ toStub' \in Seq(Seq(ToTokens)) /\ Len(toStub') = opened
           /\ \A c \in Calls : Kept(c)
BY GdbParts DEF Typed, Kept

LEMMA FaultTyped == ASSUME GdbInv, Fault \/ UNCHANGED faults PROVE FaultsOk
<1>1. faults \in 0..MaxFaults /\ MaxFaults \in Nat
  BY GdbParts, GdbAssumption DEF Typed
<1> QED BY <1>1 DEF Fault, FaultsOk

\* The ends that write nothing.
LEMMA EndsSilently ==
    ASSUME GdbInv, NEW c \in Calls, lock = c, lock' = None,
           \E r \in CallType : calls' = [calls EXCEPT ![c] = r] /\ Ending(calls[c], r),
           opened' = opened, dead' = dead, StubSame, FaultsOk, ClosedOrLeft, toStub' = toStub,
           fromStub' \in Seq(Seq(FromTokens)), Len(fromStub') = opened
    PROVE  GdbInv'
<1>1. PICK r \in CallType : calls' = [calls EXCEPT ![c] = r] /\ Ending(calls[c], r)
  OBVIOUS
<1>2. r.pc # "new" /\ r.kind = calls[c].kind
  BY <1>1 DEF Ending
<1>3. PacketInv' /\ Elsewhere(c)
  BY <1>1, <1>2, PacketsStay
<1>4. WiresOk(opened) /\ Kept(c)
  BY SameTo DEF WiresOk
<1> QED BY <1>1, <1>3, <1>4, Finishes

LEMMA HolderFacts ==
    ASSUME GdbInv, NEW c \in Calls, lock = c
    PROVE  /\ calls[c] \in CallType /\ CallOk(c, calls[c], c, conn, dirty)
           /\ StepOk(c, calls[c], toStub, runs[c], HeadNak) /\ None # c
           /\ calls[c].pc \in {"ack", "recv", "broke"} => conn # 0
           /\ conn # 0 => conn \in DOMAIN fromStub /\ conn \in DOMAIN toStub
                          /\ fromStub[conn] \in Seq(FromTokens) /\ toStub[conn] \in Seq(ToTokens)
           /\ Incoming \in Seq(FromTokens)
<1>1. /\ calls[c] \in CallType /\ CallOk(c, calls[c], c, conn, dirty)
      /\ StepOk(c, calls[c], toStub, runs[c], HeadNak) /\ None # c
  BY GdbParts, GdbAssumption
<1>2. calls[c].pc \in {"ack", "recv", "broke"} => conn # 0
  BY <1>1 DEF CallOk
<1>3. Typed
  BY GdbParts
<1>4. conn # 0 => conn \in 1..opened
  BY <1>3 DEF Typed
<1>5. DOMAIN fromStub = 1..opened /\ DOMAIN toStub = 1..opened
  BY <1>3, WireFacts DEF Typed
<1>6. conn # 0 => fromStub[conn] \in Seq(FromTokens) /\ toStub[conn] \in Seq(ToTokens)
  BY <1>3, <1>4, <1>5, WireFacts DEF Typed
<1>7. Incoming \in Seq(FromTokens)
  BY <1>6 DEF Incoming
<1> QED BY <1>1, <1>2, <1>4, <1>5, <1>6, <1>7

LEMMA DetachedEnds ==
    ASSUME GdbInv, NEW c \in Calls, lock = c, Detached(c), opened' = opened, dead' = dead, StubSame, FaultsOk
    PROVE  GdbInv'
<1>1. PICK q \in CallType : q = calls[c]
  BY HolderFacts
<1>2. PICK r : r = [q EXCEPT !.pc = "ok"]
  OBVIOUS
<1>3. r \in CallType
  BY <1>2 DEF CallType
<1>4. /\ r.pc = "ok" /\ r.kind = q.kind /\ r.unclean = q.unclean /\ r.foreign = q.foreign
      /\ r.claim = q.claim /\ r.ackLost = q.ackLost
  BY <1>2 DEF CallType
<1>5. Ending(q, r)
  BY <1>4 DEF Ending, NotOut
<1>6. calls' = [calls EXCEPT ![c] = r] /\ lock' = None /\ toStub' = toStub /\ _close_locked
  BY <1>1, <1>2 DEF Detached
<1>7. fromStub' \in Seq(Seq(FromTokens)) /\ Len(fromStub') = opened /\ ClosedOrLeft
  BY <1>6, ClosedWire
<1> QED BY <1>1, <1>3, <1>5, <1>6, <1>7, EndsSilently

LEMMA LeavesOpen == ASSUME LeftOpen PROVE ClosedOrLeft
BY DEF LeftOpen, ClosedOrLeft

LEMMA ClaimIs ==
    ASSUME GdbInv, NEW c \in Calls, lock = c, calls[c].pc \in {"ack", "recv"}
    PROVE  /\ may_have_run(c) \in {"none", "notRun", "mayHaveRun"}
           /\ may_have_run(c) = "notRun" => NotOut(calls[c]) \/ (calls[c].pc = "ack" /\ ~calls[c].hello)
<1>1. CallOk(c, calls[c], c, conn, dirty) /\ calls[c] \in CallType
  BY HolderFacts
<1>2. calls[c].hello \in BOOLEAN /\ calls[c].sent \in BOOLEAN
  BY <1>1 DEF CallType
<1>3. calls[c].pc = "recv" /\ ~calls[c].hello => calls[c].sent
  BY <1>1 DEF CallOk
<1>4. may_have_run(c) = "notRun" => ~calls[c].sent
  BY <1>2 DEF may_have_run
<1> QED BY <1>2, <1>3, <1>4 DEF NotOut, may_have_run

LEMMA RefusedKeeps ==
    ASSUME GdbInv, NEW c \in Calls, Refused(c)
    PROVE  GdbInv'
<1>1. /\ lock = c /\ Raises(c, "none") /\ opened' = opened /\ dead' = dead /\ StubSame
      /\ toStub' = toStub /\ fromStub' = fromStub /\ conn = 0 /\ conn' = conn /\ dirty' = dirty /\ Fault
  BY DEF Refused, Waits, StubSame, wire, stub
<1>2. Typed /\ (conn = 0 => ~dirty)
  BY GdbParts DEF Safe
<1>3. ClosedOrLeft /\ FaultsOk
  BY <1>1, <1>2, FaultTyped DEF ClosedOrLeft, Typed
<1>4. fromStub' \in Seq(Seq(FromTokens)) /\ Len(fromStub') = opened
  BY <1>1, <1>2 DEF Typed
<1>5. lock' = None /\ \E r \in CallType : calls' = [calls EXCEPT ![c] = r] /\ Ending(calls[c], r)
  BY <1>1, RaisesIs
<1> QED BY <1>1, <1>3, <1>4, <1>5, EndsSilently

\* An exchange that fails and closes the connection.
LEMMA RaisesClosing ==
    ASSUME GdbInv, NEW c \in Calls, lock = c, _close_locked,
           NEW claim \in {"none", "notRun", "mayHaveRun"}, Raises(c, claim),
           claim = "notRun" => NotOut(calls[c]) \/ (calls[c].pc = "ack" /\ ~calls[c].hello),
           opened' = opened, toStub' = toStub, dead' = dead, StubSame, faults' = faults
    PROVE  GdbInv'
<1>1. fromStub' \in Seq(Seq(FromTokens)) /\ Len(fromStub') = opened /\ ClosedOrLeft
  BY ClosedWire
<1>2. FaultsOk
  BY FaultTyped
<1>3. lock' = None /\ \E r \in CallType : calls' = [calls EXCEPT ![c] = r] /\ Ending(calls[c], r)
  BY RaisesIs
<1> QED BY <1>1, <1>2, <1>3, EndsSilently

LEMMA RaisesLeaving ==
    ASSUME GdbInv, NEW c \in Calls, lock = c, LeftOpen, Raises(c, "none"),
           opened' = opened, toStub' = toStub, dead' = dead, StubSame, faults' = faults,
           fromStub' \in Seq(Seq(FromTokens)), Len(fromStub') = opened
    PROVE  GdbInv'
<1>1. ClosedOrLeft /\ FaultsOk
  BY LeavesOpen, FaultTyped
<1>2. lock' = None /\ \E r \in CallType : calls' = [calls EXCEPT ![c] = r] /\ Ending(calls[c], r)
  BY RaisesIs
<1> QED BY <1>1, <1>2, EndsSilently

LEMMA TimesOutKeeps ==
    ASSUME GdbInv, NEW c \in Calls,
           ExchangeTimesOut(c) \/ DetachTimesOut(c) \/ ContSendTimesOut(c) \/ InterruptTimesOut(c)
    PROVE  GdbInv'
<1>1. CASE ExchangeTimesOut(c)
  <2>1. /\ lock = c /\ calls[c].pc \in {"ack", "recv"} /\ _close_locked /\ Raises(c, may_have_run(c))
        /\ opened' = opened /\ toStub' = toStub /\ dead' = dead /\ StubSame /\ faults' = faults
    BY <1>1 DEF ExchangeTimesOut, Waits, StubSame, stub
  <2>2. PICK claim : claim = may_have_run(c)
    OBVIOUS
  <2>3. /\ claim \in {"none", "notRun", "mayHaveRun"}
        /\ claim = "notRun" => NotOut(calls[c]) \/ (calls[c].pc = "ack" /\ ~calls[c].hello)
    BY <2>1, <2>2, ClaimIs
  <2>4. Raises(c, claim)
    BY <2>1, <2>2
  <2> QED BY <2>1, <2>3, <2>4, RaisesClosing
<1>2. CASE DetachTimesOut(c)
  <2>1. /\ lock = c /\ Detached(c) /\ opened' = opened /\ dead' = dead /\ StubSame /\ faults' = faults
    BY <1>2 DEF DetachTimesOut, Waits, StubSame, stub
  <2> QED BY <2>1, FaultTyped, DetachedEnds
<1>3. CASE ContSendTimesOut(c)
  <2>1. /\ lock = c /\ LeftOpen /\ Raises(c, "none") /\ opened' = opened /\ toStub' = toStub
        /\ fromStub' = fromStub /\ dead' = dead /\ StubSame /\ faults' = faults
    BY <1>3 DEF ContSendTimesOut, Waits, StubSame, stub, wire
  <2>2. fromStub' \in Seq(Seq(FromTokens)) /\ Len(fromStub') = opened
    BY <2>1, GdbParts DEF Typed
  <2> QED BY <2>1, <2>2, RaisesLeaving
<1>4. CASE InterruptTimesOut(c)
  <2>1. /\ lock = c /\ _close_locked /\ Raises(c, "none")
        /\ opened' = opened /\ toStub' = toStub /\ dead' = dead /\ StubSame /\ faults' = faults
    BY <1>4 DEF InterruptTimesOut, Waits, StubSame, stub
  <2> QED BY <2>1, RaisesClosing
<1> QED BY <1>1, <1>2, <1>3, <1>4

LEMMA EofHolder ==
    ASSUME NEW c, Eof(c)
    PROVE  lock = c /\ calls[c].pc \in {"ack", "recv", "broke"} /\ conn \in dead
BY DEF Eof, Waits

LEMMA BreaksKeeps ==
    ASSUME GdbInv, NEW c \in Calls, ContBreaks(c) \/ DetachBreaks(c)
    PROVE  GdbInv'
<1>1. lock = c
  BY EofHolder DEF ContBreaks, DetachBreaks
<1>2. CASE ContBreaks(c)
  <2>1. /\ LeftOpen /\ Raises(c, "none") /\ opened' = opened /\ toStub' = toStub
        /\ fromStub' = fromStub /\ dead' = dead /\ StubSame /\ faults' = faults
    BY <1>2 DEF ContBreaks, StubSame, stub, wire
  <2>2. fromStub' \in Seq(Seq(FromTokens)) /\ Len(fromStub') = opened
    BY <2>1, GdbParts DEF Typed
  <2> QED BY <1>1, <2>1, <2>2, RaisesLeaving
<1>3. CASE DetachBreaks(c)
  <2>1. /\ Detached(c) /\ opened' = opened /\ dead' = dead /\ StubSame /\ faults' = faults
    BY <1>3 DEF DetachBreaks, StubSame, stub
  <2> QED BY <1>1, <2>1, FaultTyped, DetachedEnds
<1> QED BY <1>2, <1>3

LEMMA CancelledKeeps ==
    ASSUME GdbInv, NEW c \in Calls, Cancelled(c)
    PROVE  GdbInv'
<1>1. /\ lock = c /\ Fault /\ LeftOpen /\ lock' = None /\ calls' = [calls EXCEPT ![c].pc = "failed"]
      /\ opened' = opened /\ toStub' = toStub /\ fromStub' = fromStub /\ dead' = dead /\ StubSame
  BY DEF Cancelled, wire, stub, StubSame
<1>2. PICK q \in CallType : q = calls[c]
  BY <1>1, HolderFacts
<1>3. PICK r : r = [q EXCEPT !.pc = "failed"]
  OBVIOUS
<1>4. r \in CallType
  BY <1>3 DEF CallType
<1>5. /\ r.pc = "failed" /\ r.kind = q.kind /\ r.unclean = q.unclean /\ r.foreign = q.foreign
      /\ r.claim = q.claim /\ r.ackLost = q.ackLost
  BY <1>3 DEF CallType
<1>6. Ending(q, r)
  BY <1>5 DEF Ending, NotOut
<1>7. calls' = [calls EXCEPT ![c] = r]
  BY <1>1, <1>2, <1>3
<1>8. fromStub' \in Seq(Seq(FromTokens)) /\ Len(fromStub') = opened
  BY <1>1, GdbParts DEF Typed
<1> QED BY <1>1, <1>2, <1>4, <1>6, <1>7, <1>8, LeavesOpen, FaultTyped, EndsSilently

----------------------------------------------------------------------------
(* A call that goes on, writing nothing.                                   *)

LEMMA Continues ==
    ASSUME GdbInv, NEW c \in Calls, lock \in {c, None}, NEW r \in CallType, calls' = [calls EXCEPT ![c] = r],
           r.pc # "new", calls[c].pc = "new" \/ r.kind = calls[c].kind, toStub' = toStub,
           opened' = opened, dead' = dead, StubSame, FaultsOk,
           fromStub' \in Seq(Seq(FromTokens)), Len(fromStub') = opened, lock' \in {c, None},
           conn' \in {0, conn}, dirty' \in BOOLEAN, conn' = 0 => ~dirty', StreamInv',
           CallOk(c, r, lock', conn', dirty'), StepOk(c, r, toStub, runs[c], HeadNak')
    PROVE  GdbInv'
<1>1. PacketInv' /\ Elsewhere(c)
  BY PacketsStay
<1>2. WiresOk(opened)
  BY SameTo DEF WiresOk
<1>3. Typed'
  BY <1>2, TypedKept
<1>4. Safe'
  BY <1>1 DEF Safe
<1>5. StepOk(c, r, toStub', runs[c], HeadNak') /\ runs' = runs
  BY DEF StubSame
<1> QED BY <1>1, <1>3, <1>4, <1>5, ClientStep

LEMMA ExchangeBreaksKeeps ==
    ASSUME GdbInv, NEW c \in Calls, ExchangeBreaks(c)
    PROVE  GdbInv'
<1>1. /\ Eof(c) /\ calls[c].kind \in Exchanges /\ _close_locked
      /\ opened' = opened /\ toStub' = toStub /\ dead' = dead /\ StubSame /\ faults' = faults
  BY DEF ExchangeBreaks, StubSame, stub
<1>2. PICK q \in CallType : q = calls[c] /\ CallOk(c, q, c, conn, dirty) /\ StepOk(c, q, toStub, runs[c], HeadNak)
  BY <1>1, EofHolder, HolderFacts
<1>3. lock = c /\ q.pc \in {"ack", "recv"}
  BY <1>1, <1>2, EofHolder DEF CallOk, Exchanges
<1>4. CASE ~Resendable(c)
  <2>1. Raises(c, may_have_run(c))
    BY <1>4 DEF ExchangeBreaks
  <2>2. PICK claim : claim = may_have_run(c)
    OBVIOUS
  <2>3. /\ claim \in {"none", "notRun", "mayHaveRun"}
        /\ claim = "notRun" => NotOut(calls[c]) \/ (calls[c].pc = "ack" /\ ~calls[c].hello)
    BY <1>2, <1>3, <2>2, ClaimIs
  <2>4. Raises(c, claim)
    BY <2>1, <2>2
  <2> QED BY <1>1, <1>3, <2>3, <2>4, RaisesClosing
<1>5. CASE Resendable(c)
  <2>1. PICK al \in BOOLEAN : al = (q.ackLost \/ (q.pc = "ack" /\ ~q.hello))
    OBVIOUS
  <2>2. PICK r : r = [q EXCEPT !.pc = "connect", !.attempt = 1, !.hello = FALSE, !.ackLost = al]
    OBVIOUS
  <2>3. r \in CallType
    <3>1. PICK one \in 0..1 : one = 1
      OBVIOUS
    <3>2. r = [q EXCEPT !.pc = "connect", !.attempt = one, !.hello = FALSE, !.ackLost = al]
      BY <2>2, <3>1
    <3> QED BY <3>2 DEF CallType
  <2>4. /\ r.pc = "connect" /\ r.kind = q.kind /\ r.unclean = q.unclean /\ r.foreign = q.foreign
        /\ r.reads = q.reads /\ r.ackLost = al /\ r.claim = q.claim
    BY <2>2 DEF CallType
  <2>5. calls' = [calls EXCEPT ![c] = r] /\ lock' = lock /\ ~q.sent
    BY <1>2, <1>5, <2>1, <2>2 DEF ExchangeBreaks, Resendable
  <2>6. /\ fromStub' \in Seq(Seq(FromTokens)) /\ Len(fromStub') = opened
        /\ conn' = 0 /\ dirty' = FALSE
    BY <1>1, ClosedWire
  <2>7. CallOk(c, r, lock', conn', dirty')
    BY <1>2, <1>3, <2>4, <2>5, <2>6 DEF CallOk, Busy
  <2>8. q.hello \in BOOLEAN /\ q.ackLost \in BOOLEAN
    BY DEF CallType
  <2>9. ASSUME r.kind = "step", ~r.ackLost, ~r.unclean
        PROVE  SentOnce(c, toStub, runs[c]) /\ NotSent(c, toStub, runs[c])
    <3>1. q.kind = "step" /\ ~q.ackLost /\ ~q.unclean /\ ~(q.pc = "ack" /\ ~q.hello)
      BY <2>1, <2>4, <2>8, <2>9
    <3>2. q.hello
      BY <1>2, <1>3, <2>5, <2>8, <3>1 DEF CallOk
    <3>3. NotOut(q)
      BY <1>3, <3>2 DEF NotOut
    <3> QED BY <1>2, <3>1, <3>3, Zenon DEF StepOk
  <2>10. StepOk(c, r, toStub, runs[c], HeadNak')
    <3>1. r.pc # "new"
      BY <2>4
    <3> QED BY <2>9, <3>1, Zenon DEF StepOk
  <2>11. StreamInv'
    BY <2>6 DEF StreamInv
  <2>12. r.pc # "new" /\ r.kind = calls[c].kind /\ FaultsOk
    BY <1>1, <1>2, <2>4, FaultTyped
  <2>13. conn' \in {0, conn} /\ dirty' \in BOOLEAN /\ ~dirty' /\ lock' \in {c, None} /\ lock \in {c, None}
    BY <1>3, <2>5, <2>6
  <2> QED BY <1>1, <2>3, <2>5, <2>6, <2>7, <2>10, <2>11, <2>12, <2>13, Continues
<1> QED BY <1>4, <1>5

LEMMA BadAckKeeps ==
    ASSUME GdbInv, NEW c \in Calls, BadAck(c)
    PROVE  GdbInv'
<1>1. /\ lock = c /\ calls[c].pc = "ack" /\ Incoming # <<>>
      /\ opened' = opened /\ dead' = dead /\ StubSame /\ faults' = faults
  BY DEF BadAck, Waits, StubSame, stub
<1>2. CASE Detached(c)
  BY <1>1, <1>2, FaultTyped, DetachedEnds
<1>3. CASE /\ LeftOpen /\ Raises(c, "none") /\ toStub' = toStub
           /\ \/ fromStub' = Unread(<<Mark("rest")>> \o Tail(Incoming))
              \/ fromStub' = Unread(Tail(Incoming))
  <2>1. PICK t \in Seq(FromTokens) : t = Tail(Incoming)
    BY <1>1, HolderFacts, RestFacts
  <2>2. <<Mark("rest")>> \in Seq(FromTokens)
    BY TokenTypes
  <2>3. PICK q \in Seq(FromTokens) : fromStub' = [fromStub EXCEPT ![conn] = q]
    <3>1. CASE fromStub' = Unread(t)
      BY <3>1 DEF Unread
    <3>2. CASE fromStub' = Unread(<<Mark("rest")>> \o t)
      <4>1. <<Mark("rest")>> \o t \in Seq(FromTokens)
        BY <2>2, ConcatProperties
      <4> QED BY <3>2, <4>1 DEF Unread
    <3> QED BY <1>3, <2>1, <3>1, <3>2
  <2>4. conn # 0
    BY <1>1, HolderFacts
  <2>5. fromStub' \in Seq(Seq(FromTokens)) /\ Len(fromStub') = opened
    BY <2>3, <2>4, ReadWire
  <2> QED BY <1>1, <1>3, <2>5, RaisesLeaving
<1> QED BY <1>2, <1>3 DEF BadAck

LEMMA LeastIs ==
    ASSUME NEW S \in SUBSET Nat, S # {}
    PROVE  \E m \in S : \A k \in S : m <= k
<1>1. PICK R : IsWellFoundedOn(R, Nat) /\ \A x, y \in Nat : x < y => <<x, y>> \in R
  <2>1. \A x, y \in Nat : x < y => <<x, y>> \in OpToRel(<, Nat)
    BY DEF OpToRel
  <2> QED BY <2>1, NatLessThanWellFounded
<1>2. PICK m \in S : \A y \in S : ~(<<y, m>> \in R)
  <2>1. \A Q, U, V : IsWellFoundedOn(Q, U) /\ V \subseteq U /\ V # {}
                       => \E x \in V : \A y \in V : ~(<<y, x>> \in Q)
    BY WFMin, Zenon
  <2>2. S \subseteq Nat /\ S # {}
    OBVIOUS
  <2>3. IsWellFoundedOn(R, Nat)
    BY <1>1, Zenon
  <2> QED BY <2>1, <2>2, <2>3, Zenon
<1>3. ASSUME NEW k \in S PROVE m <= k
  <2>1. m \in Nat /\ k \in Nat
    OBVIOUS
  <2>2. ~(k < m)
    BY <1>1, <1>2, <2>1, Zenon
  <2> QED BY <2>1, <2>2
<1> QED BY <1>3

\* What the first whole reply is, and what is behind it.
LEMMA ReplyFacts ==
    ASSUME NEW q \in Seq(FromTokens), Incoming = q, ReplyAt # 0
    PROVE  /\ ReplyAt \in DOMAIN q /\ q[ReplyAt].t = "reply" /\ q[ReplyAt] \in Replies
           /\ SubSeq(q, ReplyAt + 1, Len(q)) \in Seq(FromTokens)
<1>1. PICK at : at = {i \in DOMAIN q : q[i].t = "reply"}
  OBVIOUS
<1>2. ReplyAt = IF at = {} THEN 0 ELSE CHOOSE i \in at : \A j \in at : i <= j
  BY <1>1 DEF ReplyAt
<1>3. DOMAIN q = 1..Len(q) /\ Len(q) \in Nat
  BY LenProperties
<1>4. at # {} /\ at \subseteq Nat
  BY <1>1, <1>2, <1>3
<1>5. \E i \in at : \A j \in at : i <= j
  BY <1>4, LeastIs
<1>6. ReplyAt \in at
  BY <1>2, <1>4, <1>5
<1>7. q[ReplyAt] \in FromTokens
  BY <1>1, <1>6, ElementOfSeq, <1>3
<1>8. q[ReplyAt] \in Replies
  BY <1>1, <1>6, <1>7 DEF FromTokens
<1>9. ReplyAt + 1 \in 1..(Len(q) + 1)
  BY <1>1, <1>3, <1>6
<1>10. SubSeq(q, ReplyAt + 1, Len(q)) \in Seq(FromTokens)
  <2>1. PICK a \in Int : a = ReplyAt + 1 /\ a >= 1
    BY <1>3, <1>9
  <2>2. PICK b \in Int : b = Len(q)
    <3>1. Len(q) \in Int
      BY <1>3
    <3> QED BY <3>1, Zenon
  <2>3. \A i \in a..b : q[i] \in FromTokens
    BY <1>3, <2>1, <2>2, ElementOfSeq
  <2> QED BY <2>1, <2>2, <2>3, SubSeqProperties
<1> QED BY <1>1, <1>6, <1>8, <1>10

----------------------------------------------------------------------------
(* A call that writes.                                                     *)

LEMMA Writes ==
    ASSUME GdbInv, NEW c \in Calls, lock = c, NEW r \in CallType, calls' = [calls EXCEPT ![c] = r],
           r.pc # "new", calls[c].pc # "new", r.kind = calls[c].kind, conn # 0,
           NEW m \in ToTokens, m.t \in Kinds => m.of = c /\ m.t = r.kind, toStub' = Written(m)
    PROVE  /\ toStub' \in Seq(Seq(ToTokens)) /\ Len(toStub') = opened
           /\ PacketInv' /\ Elsewhere(c)
           /\ ~Mine(m, c) => Kept(c)
           /\ NonePending(toStub, c) => NonePending(toStub', c) \/ OnePending(toStub', c)
           /\ conn \notin dead => toStub'[conn] = Append(toStub[conn], m)
<1>1. PICK ws \in Seq(Seq(ToTokens)) : ws = toStub /\ Len(ws) = opened
  BY GdbParts DEF Typed
<1>2. conn \in DOMAIN toStub
  BY HolderFacts
<1>3. CASE conn \in dead
  <2>1. toStub' = toStub
    BY <1>3 DEF Written
  <2>2. PacketInv' /\ Elsewhere(c)
    BY <2>1, PacketsStay
  <2> QED BY <1>1, <1>3, <2>1, <2>2, Zenon DEF Kept
<1>4. CASE conn \notin dead
  <2>1. toStub' = Put(toStub, conn, m)
    BY <1>4 DEF Written, Put
  <2>2. PacketInv' /\ Elsewhere(c)
    BY <1>2, <2>1, PacketsAdded
  <2>3. PICK ws2 : ws2 = toStub'
    OBVIOUS
  <2>4. ws2 = Put(ws, conn, m) /\ conn \in DOMAIN ws
    BY <1>1, <1>2, <2>1, <2>3
  <2>5. /\ NonePending(ws, c) => OnePending(ws2, c)
        /\ NonePending(ws, c) /\ ~Mine(m, c) => NonePending(ws2, c)
        /\ OnePending(ws, c) /\ ~Mine(m, c) => OnePending(ws2, c)
    BY <2>4, PendingAppend, Zenon
  <2>6. PICK q \in Seq(ToTokens) : q = ws[conn]
    BY <2>4, WireFacts
  <2>7. PICK q2 : q2 = Append(q, m)
    OBVIOUS
  <2>8. q2 \in Seq(ToTokens)
    BY <2>7, AppendFacts
  <2>9. ws2 = [ws EXCEPT ![conn] = q2]
    BY <2>4, <2>6, <2>7 DEF Put
  <2>10. ws2 \in Seq(Seq(ToTokens)) /\ Len(ws2) = Len(ws) /\ ws2[conn] = q2
    BY <2>4, <2>8, <2>9, WireSet
  <2> QED BY <1>1, <2>2, <2>3, <2>5, <2>6, <2>7, <2>10, Zenon DEF Kept
<1> QED BY <1>3, <1>4

LEMMA GetsDamagedKeeps ==
    ASSUME GdbInv, NEW c \in Calls, GetsDamaged(c)
    PROVE  GdbInv'
<1>1. /\ lock = c /\ calls[c].pc \in {"recv", "broke"} /\ ReplyAt # 0
      /\ opened' = opened /\ dead' = dead /\ StubSame /\ faults' = faults
  BY DEF GetsDamaged, Waits, StubSame, stub
<1>2. CASE Detached(c)
  BY <1>1, <1>2, FaultTyped, DetachedEnds
<1>3. CASE /\ LeftOpen /\ Raises(c, "none") /\ toStub' = Written(Mark("nak"))
           /\ fromStub' = Unread(SubSeq(Incoming, ReplyAt + 1, Len(Incoming)))
  <2>1. PICK q \in Seq(FromTokens) : q = SubSeq(Incoming, ReplyAt + 1, Len(Incoming))
    BY <1>1, HolderFacts, ReplyFacts
  <2>2. conn # 0 /\ calls[c].pc # "new"
    BY <1>1, HolderFacts
  <2>3. fromStub' \in Seq(Seq(FromTokens)) /\ Len(fromStub') = opened
    BY <1>3, <2>1, <2>2, ReadWire DEF Unread
  <2>4. lock' = None /\ \E r \in CallType : calls' = [calls EXCEPT ![c] = r] /\ Ending(calls[c], r)
    BY <1>1, <1>3, RaisesIs
  <2>5. PICK r \in CallType : calls' = [calls EXCEPT ![c] = r] /\ Ending(calls[c], r)
    BY <2>4
  <2>6. r.pc # "new" /\ r.kind = calls[c].kind
    BY <2>5 DEF Ending
  <2>7. PICK m \in ToTokens : m = Mark("nak")
    BY TokenTypes
  <2>8. m.t \notin Kinds /\ ~Mine(m, c)
    BY <2>7, TokenFields DEF Kinds, Mine
  <2>9. toStub' = Written(m)
    BY <1>3, <2>7
  <2>10. /\ toStub' \in Seq(Seq(ToTokens)) /\ Len(toStub') = opened
         /\ PacketInv' /\ Elsewhere(c) /\ Kept(c)
    BY <1>1, <2>2, <2>5, <2>6, <2>8, <2>9, Writes
  <2>11. WiresOk(opened) /\ FaultsOk /\ ClosedOrLeft
    BY <1>1, <1>3, <2>3, <2>10, FaultTyped, LeavesOpen DEF WiresOk
  <2> QED BY <1>1, <2>4, <2>5, <2>10, <2>11, Finishes
<1> QED BY <1>2, <1>3 DEF GetsDamaged

----------------------------------------------------------------------------
(* A call that goes on.                                                    *)

LEMMA StreamOf ==
    ASSUME conn' = conn, dead' = dead, StubSame, NEW c, c # None, lock' = c,
           conn # 0 /\ ~dirty' => Stream(c, calls'[c], conn \in dead, toStub'[conn], Resumed, fromStub'[conn])
    PROVE  StreamInv'
<1>1. Resumed' = Resumed
  BY DEF Resumed, StubSame
<1>2. (conn \in dead)' <=> conn \in dead
  OBVIOUS
<1> QED BY <1>1, <1>2 DEF StreamInv

LEMMA StreamFree ==
    ASSUME conn' = conn, dead' = dead, StubSame, lock' = None,
           conn # 0 /\ ~dirty' => Quiet(conn \in dead, toStub'[conn], Resumed, fromStub'[conn])
    PROVE  StreamInv'
<1>1. Resumed' = Resumed
  BY DEF Resumed, StubSame
<1> QED BY <1>1 DEF StreamInv

LEMMA StreamHeld ==
    ASSUME GdbInv, NEW c \in Calls, lock = c, conn # 0, ~dirty
    PROVE  Stream(c, calls[c], conn \in dead, toStub[conn], Resumed, Incoming)
<1>1. StreamInv /\ c # None
  BY GdbParts, HolderFacts DEF Safe
<1> QED BY <1>1 DEF StreamInv, Incoming

LEMMA ReplyPlace ==
    /\ Incoming = <<>> => ReplyAt = 0
    /\ \A x : Incoming = <<x>> /\ x.t = "reply" =>
          /\ ReplyAt = 1 /\ Incoming[ReplyAt] = x
          /\ SubSeq(Incoming, ReplyAt + 1, Len(Incoming)) = <<>>
<1>1. ASSUME Incoming = <<>> PROVE ReplyAt = 0
  <2>1. {i \in DOMAIN Incoming : Incoming[i].t = "reply"} = {}
    BY <1>1
  <2> QED BY <2>1 DEF ReplyAt
<1>2. ASSUME NEW x, Incoming = <<x>>, x.t = "reply"
      PROVE  /\ ReplyAt = 1 /\ Incoming[ReplyAt] = x
             /\ SubSeq(Incoming, ReplyAt + 1, Len(Incoming)) = <<>>
  <2>1. DOMAIN Incoming = {1} /\ Incoming[1] = x /\ Len(Incoming) = 1
    BY <1>2
  <2>2. {i \in DOMAIN Incoming : Incoming[i].t = "reply"} = {1}
    BY <1>2, <2>1
  <2>3. (CHOOSE i \in {1} : \A j \in {1} : i <= j) = 1
    OBVIOUS
  <2>4. ReplyAt = 1
    BY <2>2, <2>3 DEF ReplyAt
  <2>5. SubSeq(Incoming, 2, 1) = <<>>
    BY SubSeqEmpty
  <2> QED BY <2>1, <2>4, <2>5
<1> QED BY <1>1, <1>2

\* On a connection nobody left as it was, the first whole reply is the answer to the call.
LEMMA AnswerIs ==
    ASSUME GdbInv, NEW c \in Calls, lock = c, calls[c].pc \in {"recv", "broke"}, ReplyAt # 0,
           conn # 0, ~dirty
    PROVE  /\ Incoming[ReplyAt].of = c
           /\ Incoming[ReplyAt].kind = IF calls[c].pc = "recv" THEN Want(calls[c]) ELSE "cont"
           /\ Quiet(conn \in dead, toStub[conn], Resumed, SubSeq(Incoming, ReplyAt + 1, Len(Incoming)))
<1>1. Stream(c, calls[c], conn \in dead, toStub[conn], Resumed, Incoming)
  BY StreamHeld
<1>2. PICK w : w = IF calls[c].pc = "recv" THEN Want(calls[c]) ELSE "cont"
  OBVIOUS
<1>3. PICK gone : gone = (conn \in dead)
  OBVIOUS
<1>4. Incoming # <<>>
  BY ReplyPlace
<1>5. \E bad \in BOOLEAN : /\ Incoming = <<Reply(c, w, bad)>>
                           /\ Sits(gone, toStub[conn], Resumed, {<<>>, <<CtrlC>>}, None)
  <2>1. CASE calls[c].pc = "recv"
    <3>1. RecvStream(c, w, gone, toStub[conn], Resumed, Incoming)
      BY <1>1, <1>2, <1>3, <2>1 DEF Stream
    <3> QED BY <1>4, <3>1, Zenon DEF RecvStream, Sits
  <2>2. CASE calls[c].pc = "broke"
    <3>1. BrokeStream(c, gone, toStub[conn], Resumed, Incoming)
      BY <1>1, <1>2, <1>3, <2>2 DEF Stream
    <3> QED BY <1>2, <1>4, <2>2, <3>1, Zenon DEF BrokeStream
  <2> QED BY <2>1, <2>2
<1>6. PICK bad \in BOOLEAN : /\ Incoming = <<Reply(c, w, bad)>>
                             /\ Sits(gone, toStub[conn], Resumed, {<<>>, <<CtrlC>>}, None)
  BY <1>5
<1>7. PICK x : x = Reply(c, w, bad)
  OBVIOUS
<1>8. x.t = "reply" /\ x.of = c /\ x.kind = w
  BY <1>7, TokenFields
<1>9. /\ Incoming[ReplyAt] = x
      /\ SubSeq(Incoming, ReplyAt + 1, Len(Incoming)) = <<>>
  BY <1>6, <1>7, <1>8, ReplyPlace
<1>10. Quiet(conn \in dead, toStub[conn], Resumed, SubSeq(Incoming, ReplyAt + 1, Len(Incoming)))
  <2>1. Quiet(gone, toStub[conn], Resumed, SubSeq(Incoming, ReplyAt + 1, Len(Incoming)))
    BY <1>6, <1>9, Zenon DEF Quiet
  <2> QED BY <1>3, <2>1
<1>11. Incoming[ReplyAt].of = c /\ Incoming[ReplyAt].kind = w
  BY <1>8, <1>9
<1> QED BY <1>2, <1>10, <1>11, Zenon

LEMMA GetsReplyKeeps ==
    ASSUME GdbInv, NEW c \in Calls, GetsReply(c)
    PROVE  GdbInv'
<1>1. /\ lock = c /\ calls[c].pc \in {"recv", "broke"} /\ ReplyAt # 0
      /\ opened' = opened /\ dead' = dead /\ StubSame /\ faults' = faults
  BY DEF GetsReply, Waits, StubSame, stub
<1>2. CASE Detached(c)
  BY <1>1, <1>2, FaultTyped, DetachedEnds
<1>3. CASE /\ Answered(c, Incoming[ReplyAt]) /\ conn' = conn /\ dirty' = dirty /\ toStub' = toStub
           /\ fromStub' = Unread(SubSeq(Incoming, ReplyAt + 1, Len(Incoming)))
  <2>1. PICK rest \in Seq(FromTokens) : rest = SubSeq(Incoming, ReplyAt + 1, Len(Incoming))
    BY <1>1, HolderFacts, ReplyFacts
  <2>2. /\ conn # 0 /\ Safe /\ None # c /\ dirty \in BOOLEAN
    BY <1>1, HolderFacts, GdbParts DEF Typed
  <2>3. /\ fromStub' \in Seq(Seq(FromTokens)) /\ Len(fromStub') = opened /\ fromStub'[conn] = rest
    BY <1>3, <2>1, <2>2, ReadWire DEF Unread
  <2>4. PICK q \in CallType : q = calls[c] /\ CallOk(c, q, c, conn, dirty) /\ StepOk(c, q, toStub, runs[c], HeadNak)
    BY <1>1, HolderFacts
  <2>5. PICK x : x = Incoming[ReplyAt]
    OBVIOUS
  <2>6. ~dirty => /\ Quiet(conn \in dead, toStub[conn], Resumed, rest)
                  /\ x.of = c /\ x.kind = IF q.pc = "recv" THEN Want(q) ELSE "cont"
    BY <1>1, <2>1, <2>2, <2>4, <2>5, AnswerIs
  <2>7. q.hello \in BOOLEAN /\ q.foreign \in BOOLEAN /\ q.kind \in Kinds /\ q.claim \in {"none", "notRun", "mayHaveRun"}
    BY DEF CallType
  <2>8. FaultsOk
    BY <1>1, FaultTyped
  <2>9. CASE q.hello
    <3>1. PICK r : r = [q EXCEPT !.pc = "connect", !.hello = FALSE]
      OBVIOUS
    <3>2. r \in CallType
      BY <3>1 DEF CallType
    <3>3. /\ r.pc = "connect" /\ r.kind = q.kind /\ r.unclean = q.unclean /\ r.foreign = q.foreign
          /\ r.reads = q.reads /\ r.ackLost = q.ackLost /\ r.claim = q.claim
      BY <3>1 DEF CallType
    <3>4. calls' = [calls EXCEPT ![c] = r] /\ lock' = lock
      BY <1>3, <2>4, <2>9, <3>1 DEF Answered
    <3>5. CallOk(c, r, lock', conn', dirty')
      BY <1>1, <1>3, <2>4, <3>3, <3>4 DEF CallOk, Busy
    <3>6. ASSUME r.kind = "step", ~r.ackLost, ~r.unclean
          PROVE  SentOnce(c, toStub, runs[c]) /\ NotSent(c, toStub, runs[c])
      <4>1. q.pc = "recv"
        BY <1>1, <2>4, <3>3, <3>6 DEF CallOk
      <4>2. NotOut(q)
        BY <2>9, <4>1 DEF NotOut
      <4> QED BY <2>4, <3>3, <3>6, <4>2, Zenon DEF StepOk
    <3>7. StepOk(c, r, toStub, runs[c], HeadNak')
      <4>1. r.pc # "new"
        BY <3>3
      <4> QED BY <3>6, <4>1, Zenon DEF StepOk
    <3>8. calls'[c] = r
      BY <3>4, GdbParts
    <3>9. conn # 0 /\ ~dirty' => Stream(c, r, conn \in dead, toStub'[conn], Resumed, fromStub'[conn])
      BY <1>3, <2>3, <2>6, <3>3 DEF Stream
    <3>10. StreamInv'
      BY <1>1, <1>3, <2>2, <3>4, <3>8, <3>9, StreamOf
    <3>11. /\ conn' \in {0, conn} /\ dirty' \in BOOLEAN /\ (conn' = 0 => ~dirty') /\ lock' \in {c, None}
           /\ lock \in {c, None} /\ r.pc # "new" /\ r.kind = calls[c].kind
      BY <1>1, <1>3, <2>2, <2>4, <3>3, <3>4
    <3> QED BY <1>1, <1>3, <2>3, <2>8, <3>2, <3>4, <3>5, <3>7, <3>10, <3>11, Continues
  <2>10. CASE ~q.hello
    <3>1. PICK pc \in {"again", "ok"} : pc = IF q.kind = "backtrace" THEN "again" ELSE "ok"
      OBVIOUS
    <3>2. PICK n \in 0..(3 + 2 * MaxFrames) : n = IF q.kind = "backtrace" THEN q.reads + 1 ELSE q.reads
      <4>1. q.reads < 3 + 2 * MaxFrames
        BY <1>1, <2>4 DEF CallOk
      <4>2. MaxFrames \in Nat /\ q.reads \in 0..(3 + 2 * MaxFrames)
        BY GdbAssumption DEF CallType
      <4>3. PICK top \in Nat : top = 3 + 2 * MaxFrames
        BY <4>2
      <4>4. q.reads \in 0..top /\ q.reads + 1 \in 0..top
        BY <4>1, <4>2, <4>3
      <4> QED BY <4>3, <4>4
    <3>3. PICK f \in BOOLEAN : f = (q.foreign \/ ~(x.of = c /\ x.kind = q.kind))
      OBVIOUS
    <3>4. PICK r : r = [q EXCEPT !.pc = pc, !.reads = n, !.foreign = f]
      OBVIOUS
    <3>5. r \in CallType
      BY <3>4 DEF CallType
    <3>6. /\ r.pc = pc /\ r.kind = q.kind /\ r.unclean = q.unclean /\ r.foreign = f
          /\ r.ackLost = q.ackLost /\ r.claim = q.claim
      BY <3>4 DEF CallType
    <3>7. calls' = [calls EXCEPT ![c] = r] /\ lock' = None
      BY <1>3, <2>4, <2>5, <2>10, <3>1, <3>2, <3>3, <3>4 DEF Answered
    <3>8. f => q.unclean
      <4>1. dirty => q.unclean
        BY <1>1, <2>4 DEF CallOk
      <4>2. q.foreign => q.unclean
        BY <2>4 DEF CallOk
      <4>3. ~dirty => x.of = c /\ x.kind = q.kind
        <5>1. q.pc = "broke" => q.kind = "cont"
          BY <2>4 DEF CallOk
        <5> QED BY <1>1, <2>4, <2>6, <2>10, <5>1 DEF Want
      <4> QED BY <2>2, <3>3, <4>1, <4>2, <4>3
    <3>9. CallOk(c, r, lock', conn', dirty')
      BY <1>1, <2>2, <2>4, <3>1, <3>6, <3>7, <3>8 DEF CallOk, Busy
    <3>10. StepOk(c, r, toStub, runs[c], HeadNak')
      <4>1. NotOut(r) => NotOut(q)
        BY <3>1, <3>6 DEF NotOut
      <4>2. r.pc \notin {"new", "ack"}
        BY <3>1, <3>6
      <4> QED BY <2>4, <3>6, <4>1, <4>2, Zenon DEF StepOk
    <3>11. StreamInv'
      BY <1>1, <1>3, <2>3, <2>6, <3>7, StreamFree
    <3>12. /\ conn' \in {0, conn} /\ dirty' \in BOOLEAN /\ (conn' = 0 => ~dirty') /\ lock' \in {c, None}
           /\ lock \in {c, None} /\ r.pc # "new" /\ r.kind = calls[c].kind
      BY <1>1, <1>3, <2>2, <2>4, <3>1, <3>6, <3>7
    <3> QED BY <1>1, <1>3, <2>3, <2>8, <3>5, <3>7, <3>9, <3>10, <3>11, <3>12, Continues
  <2> QED BY <2>7, <2>9, <2>10
<1> QED BY <1>2, <1>3 DEF GetsReply

LEMMA NothingPending ==
    ASSUME GdbInv, NEW c \in Calls, calls[c].pc = "new"
    PROVE  NonePending(toStub, c)
BY GdbParts, Zenon DEF Safe, PacketInv, NonePending, Mine

LEMMA BeginKeeps ==
    ASSUME GdbInv, NEW c \in Calls, NEW kind \in Kinds, Begin(c, kind)
    PROVE  GdbInv'
<1>1. /\ lock = None /\ calls[c].pc = "new" /\ conn' = conn /\ dirty' = dirty
      /\ toStub' = toStub /\ fromStub' = fromStub
      /\ opened' = opened /\ dead' = dead /\ StubSame /\ faults' = faults
  BY DEF Begin, StubSame, stub, wire
<1>2. PICK q \in CallType : q = calls[c] /\ CallOk(c, q, None, conn, dirty) /\ StepOk(c, q, toStub, runs[c], HeadNak)
  BY <1>1, GdbParts
<1>3. PICK pc \in {"connect", "ok"} :
         /\ pc = IF kind = "detach" /\ conn = 0 THEN "ok" ELSE "connect"
  OBVIOUS
<1>4. PICK r : r = [q EXCEPT !.kind = kind, !.pc = pc]
  OBVIOUS
<1>5. r \in CallType
  BY <1>4 DEF CallType
<1>6. /\ r.pc = pc /\ r.kind = kind /\ r.unclean = q.unclean /\ r.foreign = q.foreign
      /\ r.ackLost = q.ackLost /\ r.reads = q.reads /\ r.claim = q.claim
  BY <1>4 DEF CallType
<1>7. calls' = [calls EXCEPT ![c] = r]
  <2>1. [calls EXCEPT ![c].kind = kind, ![c].pc = pc] = [calls EXCEPT ![c] = r]
    BY <1>2, <1>4, GdbParts DEF CallType
  <2> QED BY <1>3, <2>1 DEF Begin
<1>8. (pc = "ok" => lock' = None /\ kind = "detach" /\ conn = 0) /\ (pc = "connect" => lock' = c)
  BY <1>1, <1>3 DEF Begin
<1>9. None # c /\ Safe /\ Typed
  BY GdbParts, GdbAssumption
<1>10. CallOk(c, r, lock', conn', dirty')
  BY <1>1, <1>2, <1>3, <1>6, <1>8, <1>9 DEF CallOk, Busy
<1>11. NonePending(toStub, c) /\ runs[c] = 0
  BY <1>1, <1>2, NothingPending DEF StepOk
<1>12. StepOk(c, r, toStub, runs[c], HeadNak')
  <2>1. r.pc # "new" /\ 0 <= 1
    BY <1>3, <1>6
  <2> QED BY <1>11, <2>1, Zenon DEF StepOk, SentOnce, NotSent
<1>13. calls'[c] = r
  BY <1>7, GdbParts
<1>14. StreamInv'
  <2>1. CASE pc = "ok"
    BY <1>1, <1>8, <2>1 DEF StreamInv
  <2>2. CASE pc = "connect"
    <3>1. conn # 0 /\ ~dirty' => Stream(c, r, conn \in dead, toStub'[conn], Resumed, fromStub'[conn])
      BY <1>1, <1>6, <1>9, <2>2 DEF Safe, StreamInv, Stream
    <3> QED BY <1>1, <1>8, <1>9, <1>13, <2>2, <3>1, StreamOf
  <2> QED BY <1>3, <2>1, <2>2
<1>15. fromStub' \in Seq(Seq(FromTokens)) /\ Len(fromStub') = opened /\ FaultsOk
  BY <1>1, <1>9, FaultTyped DEF Typed
<1>16. /\ conn' \in {0, conn} /\ dirty' \in BOOLEAN /\ (conn' = 0 => ~dirty') /\ lock' \in {c, None}
       /\ lock \in {c, None} /\ r.pc # "new" /\ calls[c].pc = "new"
  BY <1>1, <1>3, <1>6, <1>8, <1>9 DEF Safe, Typed
<1> QED BY <1>1, <1>5, <1>7, <1>10, <1>12, <1>14, <1>15, <1>16, Continues

LEMMA ReadsMoreKeeps ==
    ASSUME GdbInv, NEW c \in Calls, ReadNext(c) \/ BacktraceEnds(c)
    PROVE  GdbInv'
<1>1. /\ calls[c].pc = "again" /\ conn' = conn /\ dirty' = dirty
      /\ toStub' = toStub /\ fromStub' = fromStub
      /\ opened' = opened /\ dead' = dead /\ StubSame /\ faults' = faults
  BY DEF ReadNext, BacktraceEnds, StubSame, stub, wire
<1>2. PICK q \in CallType : q = calls[c] /\ CallOk(c, q, lock, conn, dirty) /\ StepOk(c, q, toStub, runs[c], HeadNak)
  BY <1>1, GdbParts
<1>3. None # c /\ Safe /\ Typed /\ q.kind = "backtrace" /\ lock # c
  BY <1>1, <1>2, GdbParts, GdbAssumption DEF CallOk, Busy
<1>4. fromStub' \in Seq(Seq(FromTokens)) /\ Len(fromStub') = opened /\ FaultsOk
  BY <1>1, <1>3, FaultTyped DEF Typed
<1>5. CASE ReadNext(c)
  <2>1. PICK zero \in 0..1 : zero = 0
    OBVIOUS
  <2>2. PICK r : r = [q EXCEPT !.pc = "connect", !.attempt = zero, !.sent = FALSE]
    OBVIOUS
  <2>3. r \in CallType
    BY <2>2 DEF CallType
  <2>4. /\ r.pc = "connect" /\ r.kind = q.kind /\ r.unclean = q.unclean /\ r.foreign = q.foreign
        /\ r.reads = q.reads /\ r.claim = q.claim
    BY <2>2 DEF CallType
  <2>5. calls' = [calls EXCEPT ![c] = r] /\ lock = None /\ lock' = c
    <3>1. [calls EXCEPT ![c].pc = "connect", ![c].attempt = 0, ![c].sent = FALSE] = [calls EXCEPT ![c] = r]
      BY <1>2, <2>1, <2>2, GdbParts DEF CallType
    <3> QED BY <1>5, <3>1 DEF ReadNext
  <2>6. r.reads < 3 + 2 * MaxFrames
    <3>1. q.reads < 3 + 2 * (MaxFrames - 1)
      BY <1>2, <1>5 DEF ReadNext
    <3>2. MaxFrames \in Nat /\ q.reads \in 0..(3 + 2 * MaxFrames)
      BY GdbAssumption DEF CallType
    <3>3. q.reads \in Int
      BY <3>2
    <3>4. 3 + 2 * (MaxFrames - 1) < 3 + 2 * MaxFrames
      BY <3>2
    <3> QED BY <2>4, <3>1, <3>2, <3>3, <3>4
  <2>7. CallOk(c, r, lock', conn', dirty')
    BY <1>1, <1>2, <1>3, <2>4, <2>5, <2>6 DEF CallOk, Busy
  <2>8. StepOk(c, r, toStub, runs[c], HeadNak')
    BY <1>3, <2>4, Zenon DEF StepOk
  <2>9. calls'[c] = r
    BY <2>5, GdbParts
  <2>10. conn # 0 /\ ~dirty' => Stream(c, r, conn \in dead, toStub'[conn], Resumed, fromStub'[conn])
    BY <1>1, <1>3, <2>4, <2>5 DEF Safe, StreamInv, Stream
  <2>11. StreamInv'
    BY <1>1, <1>3, <2>5, <2>9, <2>10, StreamOf
  <2>12. /\ conn' \in {0, conn} /\ dirty' \in BOOLEAN /\ (conn' = 0 => ~dirty') /\ lock' \in {c, None}
         /\ lock \in {c, None} /\ r.pc # "new" /\ r.kind = calls[c].kind
    BY <1>1, <1>2, <1>3, <2>4, <2>5 DEF Safe, Typed
  <2> QED BY <1>1, <1>4, <2>3, <2>5, <2>7, <2>8, <2>11, <2>12, Continues
<1>6. CASE BacktraceEnds(c)
  <2>1. PICK r : r = [q EXCEPT !.pc = "ok"]
    OBVIOUS
  <2>2. r \in CallType
    BY <2>1 DEF CallType
  <2>3. /\ r.pc = "ok" /\ r.kind = q.kind /\ r.unclean = q.unclean /\ r.foreign = q.foreign
    BY <2>1 DEF CallType
  <2>4. calls' = [calls EXCEPT ![c] = r] /\ lock' = lock
    BY <1>2, <1>6, <2>1 DEF BacktraceEnds
  <2>5. CallOk(c, r, lock', conn', dirty')
    BY <1>2, <1>3, <2>3, <2>4 DEF CallOk, Busy
  <2>6. StepOk(c, r, toStub', runs[c], HeadNak')
    BY <1>3, <2>3, Zenon DEF StepOk
  <2>7. PacketInv' /\ Elsewhere(c)
    BY <1>1, <1>2, <2>2, <2>3, <2>4, PacketsStay
  <2>8. StreamInv'
    <3>1. lock # None => lock \in Calls /\ calls'[lock] = calls[lock]
      BY <1>3, <2>4, GdbParts DEF Typed
    <3>2. Resumed' = Resumed
      BY <1>1 DEF Resumed, StubSame
    <3> QED BY <1>1, <1>3, <2>4, <3>1, <3>2 DEF StreamInv, Safe
  <2>9. Typed'
    BY <1>1, <1>3, <1>4, <2>4 DEF Typed, StubSame
  <2>10. Safe'
    BY <1>1, <1>3, <2>7, <2>8 DEF Safe
  <2>11. runs' = runs /\ HeadNak' = HeadNak
    BY <1>1 DEF HeadNak, StubSame
  <2>12. \A d \in Calls : /\ CallOk(d, calls'[d], lock', conn', dirty')
                          /\ StepOk(d, calls'[d], toStub', runs'[d], HeadNak')
    <3>1. SUFFICES ASSUME NEW d \in Calls
                   PROVE  /\ CallOk(d, calls'[d], lock', conn', dirty')
                          /\ StepOk(d, calls'[d], toStub', runs'[d], HeadNak')
      OBVIOUS
    <3>2. CASE d = c
      <4>1. calls'[d] = r
        BY <2>4, <3>2, GdbParts
      <4> QED BY <2>5, <2>6, <2>11, <3>2, <4>1
    <3>3. CASE d # c
      <4>1. calls'[d] = calls[d] /\ lock' = lock
        BY <2>4, <3>3
      <4>2. CallOk(d, calls[d], lock, conn, dirty) /\ StepOk(d, calls[d], toStub, runs[d], HeadNak)
        BY GdbParts
      <4> QED BY <1>1, <2>11, <4>1, <4>2
    <3> QED BY <3>2, <3>3
  <2>13. calls' \in [Calls -> CallType]
    BY <2>2, <2>4, GdbParts
  <2> QED BY <2>9, <2>10, <2>12, <2>13, GdbPartsNext
<1> QED BY <1>5, <1>6

LEMMA ContinuesWriting ==
    ASSUME GdbInv, NEW c \in Calls, lock = c, NEW r \in CallType, calls' = [calls EXCEPT ![c] = r],
           r.pc # "new", calls[c].pc # "new", r.kind = calls[c].kind, conn # 0,
           NEW m \in ToTokens, m.t \in Kinds => m.of = c /\ m.t = r.kind, toStub' = Written(m),
           fromStub' \in Seq(Seq(FromTokens)), Len(fromStub') = opened,
           lock' = c, conn' = conn, dirty' = dirty, opened' = opened, dead' = dead, StubSame, faults' = faults,
           StreamInv', CallOk(c, r, c, conn, dirty), StepOk(c, r, toStub', runs[c], HeadNak')
    PROVE  GdbInv'
<1>1. /\ toStub' \in Seq(Seq(ToTokens)) /\ Len(toStub') = opened
      /\ PacketInv' /\ Elsewhere(c)
  BY Writes
<1>2. WiresOk(opened) /\ FaultsOk /\ Safe /\ dirty \in BOOLEAN
  BY <1>1, FaultTyped, GdbParts DEF WiresOk, Typed
<1>3. Typed'
  BY <1>2, TypedKept
<1>4. Safe'
  BY <1>1, <1>2 DEF Safe
<1>5. runs' = runs /\ CallOk(c, r, lock', conn', dirty')
  BY DEF StubSame
<1> QED BY <1>1, <1>3, <1>4, <1>5, ClientStep

LEMMA GetsAckKeeps ==
    ASSUME GdbInv, NEW c \in Calls, GetsAck(c)
    PROVE  GdbInv'
<1>1. /\ lock = c /\ calls[c].pc = "ack" /\ Incoming # <<>> /\ Head(Incoming).t = "ack"
      /\ fromStub' = Unread(Tail(Incoming)) /\ toStub' = toStub
      /\ lock' = lock /\ conn' = conn /\ dirty' = dirty
      /\ opened' = opened /\ dead' = dead /\ StubSame /\ faults' = faults
  BY DEF GetsAck, Waits, StubSame, stub
<1>2. PICK q \in CallType : q = calls[c] /\ CallOk(c, q, c, conn, dirty) /\ StepOk(c, q, toStub, runs[c], HeadNak)
  BY <1>1, HolderFacts
<1>3. PICK t \in Seq(FromTokens) : t = Tail(Incoming)
  BY <1>1, HolderFacts, RestFacts
<1>4. conn # 0 /\ None # c /\ Safe /\ Typed /\ q.hello \in BOOLEAN /\ FaultsOk
  BY <1>1, HolderFacts, GdbParts, FaultTyped DEF CallType
<1>5. fromStub' \in Seq(Seq(FromTokens)) /\ Len(fromStub') = opened /\ fromStub'[conn] = t
  BY <1>1, <1>3, <1>4, ReadWire DEF Unread
<1>6. PICK sent \in BOOLEAN : sent = ~q.hello
  BY <1>4
<1>7. PICK r : r = [q EXCEPT !.pc = "recv", !.sent = sent]
  OBVIOUS
<1>8. r \in CallType
  BY <1>7 DEF CallType
<1>9. /\ r.pc = "recv" /\ r.kind = q.kind /\ r.unclean = q.unclean /\ r.foreign = q.foreign
      /\ r.hello = q.hello /\ r.ackLost = q.ackLost /\ r.reads = q.reads /\ r.claim = q.claim /\ r.sent = sent
  BY <1>7 DEF CallType
<1>10. calls' = [calls EXCEPT ![c] = r]
  <2>1. calls' = [calls EXCEPT ![c].pc = "recv", ![c].sent = sent]
    BY <1>2, <1>6 DEF GetsAck
  <2>2. [calls EXCEPT ![c].pc = "recv", ![c].sent = sent] = [calls EXCEPT ![c] = r]
    BY <1>2, <1>7, GdbParts DEF CallType
  <2> QED BY <2>1, <2>2
<1>11. CallOk(c, r, lock', conn', dirty')
  BY <1>1, <1>2, <1>4, <1>6, <1>9 DEF CallOk, Busy
<1>12. StepOk(c, r, toStub, runs[c], HeadNak')
  <2>1. NotOut(r) => NotOut(q)
    BY <1>1, <1>2, <1>9 DEF NotOut
  <2>2. r.pc \notin {"new", "ack"}
    BY <1>9
  <2> QED BY <1>2, <1>9, <2>1, <2>2, Zenon DEF StepOk
<1>13. conn # 0 /\ ~dirty' => Stream(c, r, conn \in dead, toStub'[conn], Resumed, fromStub'[conn])
  <2> SUFFICES ASSUME ~dirty
               PROVE  Stream(c, r, conn \in dead, toStub[conn], Resumed, t)
    BY <1>1, <1>5
  <2>1. PICK gone, to, res, w : /\ gone = (conn \in dead) /\ to = toStub[conn] /\ res = Resumed /\ w = Want(q)
    OBVIOUS
  <2>2. AckStream(c, w, gone, to, res, Incoming)
    <3>1. Stream(c, calls[c], conn \in dead, toStub[conn], Resumed, Incoming)
      BY <1>1, <1>4, StreamHeld
    <3> QED BY <1>1, <1>2, <2>1, <3>1 DEF Stream
  <2>3. RecvStream(c, w, gone, to, res, t)
    <3>1. Mark("ack") # Mark("nak") /\ \A x : Mark(x).t = x
      BY DEF Mark
    <3>2. CASE \E bad \in BOOLEAN :
                  Incoming = <<Mark("ack"), Reply(c, w, bad)>> /\ Sits(gone, to, res, {<<>>}, None)
      <4>1. PICK bad \in BOOLEAN :
                  Incoming = <<Mark("ack"), Reply(c, w, bad)>> /\ Sits(gone, to, res, {<<>>}, None)
        BY <3>2
      <4>2. t = <<Reply(c, w, bad)>>
        BY <1>3, <4>1
      <4> QED BY <4>1, <4>2, Zenon DEF RecvStream
    <3>3. CASE Incoming = <<Mark("ack")>> /\ w = "cont" /\ Sits(gone, to, res, {<<>>}, c)
      <4>1. t = <<>>
        BY <1>3, <3>3
      <4> QED BY <3>3, <4>1, Zenon DEF RecvStream
    <3>4. Incoming # <<Mark("nak")>>
      <4>1. Incoming = <<Mark("nak")>> => Head(Incoming) = Mark("nak")
        OBVIOUS
      <4> QED BY <1>1, <3>1, <4>1
    <3> QED BY <1>1, <2>2, <3>2, <3>3, <3>4, Zenon DEF AckStream
  <2>4. Want(r) = w
    BY <1>9, <2>1 DEF Want
  <2> QED BY <1>9, <2>1, <2>3, <2>4 DEF Stream
<1>14. calls'[c] = r
  BY <1>10, GdbParts
<1>15. StreamInv'
  BY <1>1, <1>4, <1>13, <1>14, StreamOf
<1>16. /\ conn' \in {0, conn} /\ dirty' \in BOOLEAN /\ (conn' = 0 => ~dirty') /\ lock' \in {c, None}
       /\ lock \in {c, None} /\ r.pc # "new" /\ r.kind = calls[c].kind
  BY <1>1, <1>2, <1>4, <1>9 DEF Safe, Typed
<1> QED BY <1>1, <1>4, <1>5, <1>8, <1>10, <1>11, <1>12, <1>15, <1>16, Continues

LEMMA SendsAgainKeeps ==
    ASSUME GdbInv, NEW c \in Calls, SendsAgain(c)
    PROVE  GdbInv'
<1>1. /\ lock = c /\ calls[c].pc = "ack" /\ Incoming # <<>> /\ Head(Incoming).t = "nak"
      /\ fromStub' = Unread(Tail(Incoming)) /\ calls' = [calls EXCEPT ![c].naked = TRUE]
      /\ toStub' = Written(Packet(IF calls[c].hello THEN "hello" ELSE calls[c].kind, c))
      /\ lock' = lock /\ conn' = conn /\ dirty' = dirty
      /\ opened' = opened /\ dead' = dead /\ StubSame /\ faults' = faults
  BY DEF SendsAgain, Waits, StubSame, stub
<1>2. PICK q \in CallType : q = calls[c] /\ CallOk(c, q, c, conn, dirty) /\ StepOk(c, q, toStub, runs[c], HeadNak)
  BY <1>1, HolderFacts
<1>3. PICK t \in Seq(FromTokens) : t = Tail(Incoming)
  BY <1>1, HolderFacts, RestFacts
<1>4. conn # 0 /\ None # c /\ Safe /\ Typed /\ q.hello \in BOOLEAN /\ q.kind \in Kinds
  BY <1>1, HolderFacts, GdbParts DEF CallType
<1>5. fromStub' \in Seq(Seq(FromTokens)) /\ Len(fromStub') = opened /\ fromStub'[conn] = t
  BY <1>1, <1>3, <1>4, ReadWire DEF Unread
<1>6. PICK w \in Kinds \cup {"hello"} : w = Want(q)
  BY <1>4 DEF Want
<1>7. PICK r : r = [q EXCEPT !.naked = TRUE]
  OBVIOUS
<1>8. r \in CallType
  BY <1>7 DEF CallType
<1>9. /\ r.pc = "ack" /\ r.kind = q.kind /\ r.unclean = q.unclean /\ r.foreign = q.foreign
      /\ r.hello = q.hello /\ r.ackLost = q.ackLost /\ r.reads = q.reads /\ r.claim = q.claim
  BY <1>1, <1>2, <1>7 DEF CallType
<1>10. calls' = [calls EXCEPT ![c] = r]
  BY <1>1, <1>2, <1>7
<1>11. CallOk(c, r, c, conn, dirty)
  BY <1>1, <1>2, <1>9 DEF CallOk, Busy
<1>12. PICK m \in ToTokens : m = Packet(w, c)
  BY TokenTypes
<1>13. /\ toStub' = Written(m) /\ m.of = c /\ m.t = w
       /\ (m.t \in Kinds => m.of = c /\ m.t = r.kind) /\ (q.hello => ~Mine(m, c))
  <2>1. m.of = c /\ m.t = w
    BY <1>12, TokenFields
  <2> QED BY <1>1, <1>2, <1>6, <1>9, <1>12, <2>1 DEF Want, Kinds, Mine
<1>14. /\ ~Mine(m, c) => Kept(c)
       /\ NonePending(toStub, c) => NonePending(toStub', c) \/ OnePending(toStub', c)
       /\ conn \notin dead => toStub'[conn] = Append(toStub[conn], m)
  <2>1. /\ lock = c /\ r.pc # "new" /\ calls[c].pc # "new" /\ r.kind = calls[c].kind
        /\ conn # 0 /\ (m.t \in Kinds => m.of = c /\ m.t = r.kind) /\ toStub' = Written(m)
    BY <1>1, <1>2, <1>4, <1>9, <1>13
  <2> QED BY <1>8, <1>10, <2>1, Writes
<1>15. ~dirty => Incoming = <<Mark("nak")>> /\ Sits(conn \in dead, toStub[conn], Resumed, {<<>>}, None)
  <2> SUFFICES ASSUME ~dirty
               PROVE  Incoming = <<Mark("nak")>> /\ Sits(conn \in dead, toStub[conn], Resumed, {<<>>}, None)
    OBVIOUS
  <2>1. PICK gone, to, res : gone = (conn \in dead) /\ to = toStub[conn] /\ res = Resumed
    OBVIOUS
  <2>2. AckStream(c, w, gone, to, res, Incoming)
    <3>1. Stream(c, calls[c], conn \in dead, toStub[conn], Resumed, Incoming)
      BY <1>1, <1>4, StreamHeld
    <3> QED BY <1>1, <1>2, <1>6, <2>1, <3>1 DEF Stream
  <2>3. \A x : Incoming # <<Mark("ack"), x>> /\ Incoming # <<Mark("ack")>>
    <3>1. \A x : Head(<<Mark("ack"), x>>) = Mark("ack") /\ Head(<<Mark("ack")>>) = Mark("ack")
      OBVIOUS
    <3> QED BY <1>1, <3>1, TokenFields
  <2>4. Incoming = <<Mark("nak")>> /\ Sits(gone, to, res, {<<>>}, None)
    BY <1>1, <2>2, <2>3, Zenon DEF AckStream
  <2> QED BY <2>1, <2>4
<1>16. ~dirty => t = <<>>
  BY <1>3, <1>15
<1>17. conn # 0 /\ ~dirty' => Stream(c, r, conn \in dead, toStub'[conn], Resumed, fromStub'[conn])
  <2> SUFFICES ASSUME ~dirty
               PROVE  Stream(c, r, conn \in dead, toStub'[conn], Resumed, <<>>)
    BY <1>1, <1>5, <1>16
  <2>1. PICK gone, to, res : gone = (conn \in dead) /\ to = toStub'[conn] /\ res = Resumed
    OBVIOUS
  <2>2. Sits(gone, to, res, {<<Packet(w, c)>>, <<CtrlC, Packet(w, c)>>}, None)
    <3>1. CASE conn \in dead
      BY <2>1, <3>1 DEF Sits
    <3>2. CASE conn \notin dead
      <4>1. toStub[conn] = <<>> /\ Resumed = None
        BY <1>15, <3>2 DEF Sits
      <4>2. to = <<m>>
        BY <1>14, <2>1, <3>2, <4>1
      <4> QED BY <1>12, <2>1, <4>1, <4>2 DEF Sits
    <3> QED BY <3>1, <3>2
  <2>3. AckStream(c, w, gone, to, res, <<>>)
    BY <2>2, Zenon DEF AckStream
  <2>4. Want(r) = w
    BY <1>6, <1>9 DEF Want
  <2> QED BY <1>9, <2>1, <2>3, <2>4 DEF Stream
<1>18. StepOk(c, r, toStub', runs[c], HeadNak')
  <2>1. SUFFICES ASSUME r.kind = "step", ~r.ackLost, ~r.unclean
                 PROVE  /\ SentOnce(c, toStub', runs[c])
                        /\ NotOut(r) \/ HeadNak' => NotSent(c, toStub', runs[c])
    <3>1. r.pc # "new"
      BY <1>9
    <3> QED BY <1>9, <2>1, <3>1, Zenon DEF StepOk
  <2>2. q.kind = "step" /\ ~q.ackLost /\ ~q.unclean
    BY <1>9, <2>1
  <2>3. ~dirty
    BY <1>1, <1>2, <2>2 DEF CallOk
  <2>4. HeadNak
    BY <1>4, <1>15, <2>3 DEF HeadNak, Incoming
  <2>5. NotSent(c, toStub, runs[c])
    BY <1>1, <1>2, <2>2, <2>4, Zenon DEF StepOk
  <2>6. SentOnce(c, toStub', runs[c])
    <3>1. 0 <= 1
      OBVIOUS
    <3> QED BY <1>14, <2>5, <3>1, Zenon DEF NotSent, SentOnce
  <2>7. ~HeadNak'
    <3>1. fromStub'[conn'] = <<>>
      BY <1>1, <1>5, <1>16, <2>3
    <3> QED BY <3>1 DEF HeadNak
  <2>8. NotOut(r) => NotSent(c, toStub', runs[c])
    <3>1. NotOut(r) => q.hello
      BY <1>1, <1>2, <1>9 DEF NotOut, CallOk
    <3>2. q.hello => NotSent(c, toStub', runs[c])
      BY <1>13, <1>14, <2>5, Zenon DEF NotSent, Kept
    <3> QED BY <3>1, <3>2
  <2> QED BY <2>6, <2>7, <2>8
<1>19. calls'[c] = r
  BY <1>10, GdbParts
<1>20. StreamInv'
  BY <1>1, <1>4, <1>17, <1>19, StreamOf
<1>21. /\ lock' = c /\ r.pc # "new" /\ calls[c].pc # "new" /\ r.kind = calls[c].kind
  BY <1>1, <1>2, <1>9
<1> QED BY <1>1, <1>4, <1>5, <1>8, <1>10, <1>11, <1>13, <1>18, <1>20, <1>21, ContinuesWriting

LEMMA SendsKeeps ==
    ASSUME GdbInv, NEW c \in Calls, Sends(c)
    PROVE  GdbInv'
<1>1. /\ lock = c /\ calls[c].pc = "connect" /\ conn # 0 /\ toStub' = Written(Packet(calls[c].kind, c))
      /\ fromStub' = fromStub /\ lock' = lock /\ conn' = conn /\ dirty' = dirty
      /\ opened' = opened /\ dead' = dead /\ StubSame /\ faults' = faults
  BY DEF Sends, Waits, StubSame, stub
<1>2. PICK q \in CallType : q = calls[c] /\ CallOk(c, q, c, conn, dirty) /\ StepOk(c, q, toStub, runs[c], HeadNak)
  BY <1>1, HolderFacts
<1>3. None # c /\ Safe /\ Typed /\ q.unclean \in BOOLEAN /\ dirty \in BOOLEAN
  BY <1>1, HolderFacts, GdbParts DEF CallType, Typed
<1>4. fromStub' \in Seq(Seq(FromTokens)) /\ Len(fromStub') = opened
  BY <1>1, <1>3 DEF Typed
<1>5. PICK w \in Kinds : w = q.kind
  BY DEF CallType
<1>6. PICK un \in BOOLEAN : un = (q.unclean \/ dirty)
  BY <1>3
<1>7. PICK r : r = [q EXCEPT !.pc = "ack", !.hello = FALSE, !.naked = FALSE, !.unclean = un]
  OBVIOUS
<1>8. r \in CallType
  BY <1>7 DEF CallType
<1>9. /\ r.pc = "ack" /\ r.kind = w /\ r.unclean = un /\ r.foreign = q.foreign
      /\ r.hello = FALSE /\ r.ackLost = q.ackLost /\ r.reads = q.reads /\ r.claim = q.claim
  BY <1>5, <1>7 DEF CallType
<1>10. calls' = [calls EXCEPT ![c] = r]
  <2>1. calls' = [calls EXCEPT ![c].pc = "ack", ![c].hello = FALSE, ![c].naked = FALSE, ![c].unclean = un]
    <3>1. calls[c].unclean \/ dirty <=> un
      BY <1>2, <1>6
    <3>2. (calls[c].unclean \/ dirty) = un
      BY <1>2, <1>6
    <3> QED BY <3>2 DEF Sends
  <2>2. [calls EXCEPT ![c].pc = "ack", ![c].hello = FALSE, ![c].naked = FALSE, ![c].unclean = un]
          = [calls EXCEPT ![c] = r]
    BY <1>2, <1>7, GdbParts DEF CallType
  <2> QED BY <2>1, <2>2
<1>11. CallOk(c, r, c, conn, dirty)
  BY <1>1, <1>2, <1>3, <1>6, <1>9 DEF CallOk, Busy
<1>12. PICK m \in ToTokens : m = Packet(w, c)
  BY TokenTypes
<1>13. toStub' = Written(m) /\ (m.t \in Kinds => m.of = c /\ m.t = r.kind)
  <2>1. m.of = c /\ m.t = w
    BY <1>12, TokenFields
  <2> QED BY <1>1, <1>2, <1>5, <1>9, <1>12, <2>1
<1>14. /\ NonePending(toStub, c) => NonePending(toStub', c) \/ OnePending(toStub', c)
       /\ conn \notin dead => toStub'[conn] = Append(toStub[conn], m)
  <2>1. r.pc # "new" /\ calls[c].pc # "new" /\ r.kind = calls[c].kind
    BY <1>1, <1>2, <1>5, <1>9
  <2> QED BY <1>1, <1>8, <1>10, <1>13, <2>1, Writes
<1>15. ~dirty => Quiet(conn \in dead, toStub[conn], Resumed, fromStub[conn])
  <2>1. ~dirty => Stream(c, q, conn \in dead, toStub[conn], Resumed, fromStub[conn])
    BY <1>1, <1>2, StreamHeld DEF Incoming
  <2> QED BY <1>1, <1>2, <2>1 DEF Stream
<1>16. conn # 0 /\ ~dirty' => Stream(c, r, conn \in dead, toStub'[conn], Resumed, fromStub'[conn])
  <2> SUFFICES ASSUME ~dirty
               PROVE  Stream(c, r, conn \in dead, toStub'[conn], Resumed, <<>>)
    BY <1>1, <1>15 DEF Quiet
  <2>1. PICK gone, to, res : gone = (conn \in dead) /\ to = toStub'[conn] /\ res = Resumed
    OBVIOUS
  <2>2. Sits(gone, to, res, {<<Packet(w, c)>>, <<CtrlC, Packet(w, c)>>}, None)
    <3>1. CASE conn \in dead
      BY <2>1, <3>1 DEF Sits
    <3>2. CASE conn \notin dead
      <4>1. toStub[conn] \in {<<>>, <<CtrlC>>} /\ Resumed = None
        BY <1>15, <3>2 DEF Sits, Quiet
      <4>2. to = <<m>> \/ to = <<CtrlC, m>>
        <5>1. Append(<<>>, m) = <<m>> /\ Append(<<CtrlC>>, m) = <<CtrlC, m>>
          <6>1. Append(<<>>, m) = <<m>>
            OBVIOUS
          <6>2. Append(<<CtrlC>>, m) = <<CtrlC, m>>
            BY TokenTypes, AppendTwo
          <6> QED BY <6>1, <6>2
        <5> QED BY <1>14, <2>1, <3>2, <4>1, <5>1
      <4> QED BY <1>12, <2>1, <4>1, <4>2 DEF Sits
    <3> QED BY <3>1, <3>2
  <2>3. AckStream(c, w, gone, to, res, <<>>)
    BY <2>2, Zenon DEF AckStream
  <2>4. Want(r) = w
    BY <1>9 DEF Want
  <2> QED BY <1>9, <2>1, <2>3, <2>4 DEF Stream
<1>17. StepOk(c, r, toStub', runs[c], HeadNak')
  <2>1. SUFFICES ASSUME r.kind = "step", ~r.ackLost, ~r.unclean
                 PROVE  /\ SentOnce(c, toStub', runs[c])
                        /\ NotOut(r) \/ HeadNak' => NotSent(c, toStub', runs[c])
    <3>1. r.pc # "new"
      BY <1>9
    <3> QED BY <1>9, <2>1, <3>1, Zenon DEF StepOk
  <2>2. q.kind = "step" /\ ~q.ackLost /\ ~q.unclean /\ ~dirty
    BY <1>3, <1>5, <1>6, <1>9, <2>1
  <2>3. NotOut(q)
    BY <1>1, <1>2 DEF NotOut
  <2>4. NotSent(c, toStub, runs[c])
    BY <1>2, <2>2, <2>3, Zenon DEF StepOk
  <2>5. SentOnce(c, toStub', runs[c])
    <3>1. 0 <= 1
      OBVIOUS
    <3> QED BY <1>14, <2>4, <3>1, Zenon DEF NotSent, SentOnce
  <2>6. ~HeadNak'
    <3>1. fromStub'[conn'] = <<>>
      BY <1>1, <1>15, <2>2 DEF Quiet
    <3> QED BY <3>1 DEF HeadNak
  <2>7. ~NotOut(r)
    BY <1>1, <1>2, <1>9 DEF NotOut, CallOk
  <2> QED BY <2>5, <2>6, <2>7
<1>18. calls'[c] = r
  BY <1>10, GdbParts
<1>19. StreamInv'
  BY <1>1, <1>3, <1>16, <1>18, StreamOf
<1>20. /\ lock' = c /\ r.pc # "new" /\ calls[c].pc # "new" /\ r.kind = calls[c].kind
  BY <1>1, <1>2, <1>5, <1>9
<1> QED BY <1>1, <1>4, <1>8, <1>10, <1>11, <1>13, <1>17, <1>19, <1>20, ContinuesWriting

LEMMA InterruptsKeeps ==
    ASSUME GdbInv, NEW c \in Calls, Interrupts(c)
    PROVE  GdbInv'
<1>1. /\ lock = c /\ calls[c].pc = "recv" /\ calls[c].kind = "cont" /\ ~calls[c].hello
      /\ toStub' = Written(Mark("break")) /\ calls' = [calls EXCEPT ![c].pc = "broke"]
      /\ lock' = lock /\ conn' = conn /\ dirty' = dirty
      /\ opened' = opened /\ dead' = dead /\ StubSame /\ faults' = faults
  BY DEF Interrupts, Waits, StubSame, stub
<1>2. PICK q \in CallType : q = calls[c] /\ CallOk(c, q, c, conn, dirty)
  BY <1>1, HolderFacts
<1>3. conn # 0 /\ None # c /\ Typed
  BY <1>1, HolderFacts, GdbParts
<1>4. PICK r : r = [q EXCEPT !.pc = "broke"]
  OBVIOUS
<1>5. r \in CallType
  BY <1>4 DEF CallType
<1>6. /\ r.pc = "broke" /\ r.kind = "cont" /\ r.unclean = q.unclean /\ r.foreign = q.foreign
      /\ r.hello = q.hello /\ r.sent = q.sent /\ r.reads = q.reads /\ r.claim = q.claim
  BY <1>1, <1>2, <1>4 DEF CallType
<1>7. calls' = [calls EXCEPT ![c] = r]
  BY <1>1, <1>2, <1>4
<1>8. CallOk(c, r, c, conn, dirty)
  BY <1>1, <1>2, <1>6 DEF CallOk, Busy
<1>9. PICK m \in ToTokens : m = Mark("break") /\ m = CtrlC /\ m.t \notin Kinds
  BY TokenTypes, TokenFields DEF CtrlC, Kinds
<1>10. toStub' = Written(m) /\ r.pc # "new" /\ calls[c].pc # "new" /\ r.kind = calls[c].kind
  BY <1>1, <1>6, <1>9
<1>11. conn \notin dead => toStub'[conn] = Append(toStub[conn], m)
  BY <1>1, <1>3, <1>5, <1>7, <1>9, <1>10, Writes
<1>12. /\ fromStub' \in Seq(Seq(FromTokens)) /\ Len(fromStub') = opened
       /\ \/ fromStub'[conn] = Incoming
          \/ ReplyAt # 0 /\ fromStub'[conn] = SubSeq(Incoming, ReplyAt + 1, Len(Incoming))
  <2>1. CASE fromStub' = fromStub
    BY <1>3, <2>1 DEF Typed, Incoming
  <2>2. CASE ReplyAt # 0 /\ fromStub' = Unread(SubSeq(Incoming, ReplyAt + 1, Len(Incoming)))
    <3>1. PICK rest \in Seq(FromTokens) : rest = SubSeq(Incoming, ReplyAt + 1, Len(Incoming))
      BY <1>1, <2>2, HolderFacts, ReplyFacts
    <3>2. fromStub' \in Seq(Seq(FromTokens)) /\ Len(fromStub') = opened /\ fromStub'[conn] = rest
      BY <1>3, <2>2, <3>1, ReadWire DEF Unread
    <3> QED BY <2>2, <3>1, <3>2
  <2> QED BY <2>1, <2>2 DEF Interrupts
<1>13. conn # 0 /\ ~dirty' => Stream(c, r, conn \in dead, toStub'[conn], Resumed, fromStub'[conn])
  <2> SUFFICES ASSUME ~dirty
               PROVE  Stream(c, r, conn \in dead, toStub'[conn], Resumed, fromStub'[conn])
    BY <1>1
  <2>1. PICK gone, to, res, from, to2, from2 :
           /\ gone = (conn \in dead) /\ to = toStub[conn] /\ res = Resumed /\ from = Incoming
           /\ to2 = toStub'[conn] /\ from2 = fromStub'[conn]
    OBVIOUS
  <2>2. RecvStream(c, "cont", gone, to, res, from)
    <3>1. Stream(c, calls[c], conn \in dead, toStub[conn], Resumed, Incoming)
      BY <1>1, <1>3, StreamHeld
    <3>2. Want(calls[c]) = "cont"
      BY <1>1 DEF Want
    <3> QED BY <1>1, <2>1, <3>1, <3>2 DEF Stream
  <2>3. \A resumes : Sits(gone, to, res, {<<>>}, resumes) => Sits(gone, to2, res, {<<>>, <<CtrlC>>}, resumes)
    <3>1. SUFFICES ASSUME NEW resumes, Sits(gone, to, res, {<<>>}, resumes)
                   PROVE  Sits(gone, to2, res, {<<>>, <<CtrlC>>}, resumes)
      OBVIOUS
    <3>2. CASE conn \in dead
      BY <2>1, <3>2 DEF Sits
    <3>3. CASE conn \notin dead
      <4>1. to = <<>> /\ res = resumes
        BY <2>1, <3>1, <3>3 DEF Sits
      <4>2. to2 = <<CtrlC>>
        BY <1>9, <1>11, <2>1, <3>3, <4>1
      <4> QED BY <4>1, <4>2 DEF Sits
    <3> QED BY <3>2, <3>3
  <2>4. BrokeStream(c, gone, to2, res, from2)
    <3>1. CASE from = <<>> /\ Sits(gone, to, res, {<<>>}, c)
      <4>1. from2 = <<>>
        BY <1>12, <2>1, <3>1, ReplyPlace
      <4> QED BY <2>3, <3>1, <4>1, Zenon DEF BrokeStream
    <3>2. CASE \E bad \in BOOLEAN : from = <<Reply(c, "cont", bad)>> /\ Sits(gone, to, res, {<<>>}, None)
      <4>1. PICK bad \in BOOLEAN : from = <<Reply(c, "cont", bad)>> /\ Sits(gone, to, res, {<<>>}, None)
        BY <3>2
      <4>2. PICK x : x = Reply(c, "cont", bad) /\ x.t = "reply"
        BY TokenFields
      <4>3. from2 = from \/ from2 = <<>>
        BY <1>12, <2>1, <4>1, <4>2, ReplyPlace
      <4> QED BY <2>3, <4>1, <4>3, Zenon DEF BrokeStream
    <3> QED BY <2>2, <3>1, <3>2, Zenon DEF RecvStream
  <2> QED BY <1>6, <2>1, <2>4 DEF Stream
<1>14. StepOk(c, r, toStub', runs[c], HeadNak')
  BY <1>6, Zenon DEF StepOk
<1>15. calls'[c] = r
  BY <1>7, GdbParts
<1>16. StreamInv'
  BY <1>1, <1>3, <1>13, <1>15, StreamOf
<1> QED BY <1>1, <1>3, <1>5, <1>7, <1>8, <1>9, <1>10, <1>12, <1>14, <1>16, ContinuesWriting

LEMMA ConnectsKeeps ==
    ASSUME GdbInv, NEW c \in Calls, Connects(c)
    PROVE  GdbInv'
<1>1. /\ lock = c /\ calls[c].pc = "connect" /\ conn = 0 /\ opened < MaxConns
      /\ opened' = opened + 1 /\ conn' = opened' /\ toStub' = Append(toStub, <<Packet("hello", c)>>)
      /\ fromStub' = Append(fromStub, <<>>) /\ lock' = lock /\ dirty' = dirty
      /\ dead' = dead /\ StubSame /\ faults' = faults
  BY DEF Connects, Waits, StubSame, stub
<1>2. PICK q \in CallType : q = calls[c] /\ CallOk(c, q, c, conn, dirty) /\ StepOk(c, q, toStub, runs[c], HeadNak)
  BY <1>1, HolderFacts
<1>3. None # c /\ Safe /\ Typed /\ ~dirty
  BY <1>1, HolderFacts, GdbParts DEF Safe
<1>4. PICK r : r = [q EXCEPT !.pc = "ack", !.hello = TRUE, !.naked = FALSE]
  OBVIOUS
<1>5. r \in CallType
  BY <1>4 DEF CallType
<1>6. /\ r.pc = "ack" /\ r.kind = q.kind /\ r.unclean = q.unclean /\ r.foreign = q.foreign
      /\ r.hello = TRUE /\ r.ackLost = q.ackLost /\ r.reads = q.reads /\ r.claim = q.claim
  BY <1>4 DEF CallType
<1>7. calls' = [calls EXCEPT ![c] = r]
  <2>1. [calls EXCEPT ![c].pc = "ack", ![c].hello = TRUE, ![c].naked = FALSE] = [calls EXCEPT ![c] = r]
    BY <1>2, <1>4, GdbParts DEF CallType
  <2> QED BY <2>1 DEF Connects
<1>8. opened \in Nat /\ opened' \in 0..MaxConns /\ conn' = opened + 1 /\ conn' # 0
  BY <1>1, <1>3, GdbAssumption DEF Typed
<1>9. CallOk(c, r, lock', conn', dirty')
  BY <1>1, <1>2, <1>3, <1>6, <1>8 DEF CallOk, Busy
<1>10. PICK m \in ToTokens : m = Packet("hello", c) /\ m.t = "hello"
  BY TokenTypes, TokenFields
<1>11. PICK ws \in Seq(Seq(ToTokens)) : ws = toStub /\ Len(ws) = opened
  BY <1>3 DEF Typed
<1>12. PICK ws2 : ws2 = toStub'
  OBVIOUS
<1>13. ws2 = Append(ws, <<m>>) /\ \A d : ~Mine(m, d)
  BY <1>1, <1>10, <1>11, <1>12 DEF Mine, Kinds
<1>14. /\ ws2 \in Seq(Seq(ToTokens)) /\ Len(ws2) = Len(ws) + 1 /\ ws2[Len(ws) + 1] = <<m>>
       /\ \A j \in DOMAIN ws : j \in DOMAIN ws2 /\ ws2[j] = ws[j]
       /\ \A j \in DOMAIN ws2 : j \in DOMAIN ws \/ ws2[j] = <<m>>
  BY <1>13, PendingNew
<1>15. \A d \in Calls : /\ NonePending(ws, d) => NonePending(ws2, d)
                        /\ OnePending(ws, d) => OnePending(ws2, d)
  BY <1>13, PendingNew
<1>16. /\ fromStub' \in Seq(Seq(FromTokens)) /\ Len(fromStub') = opened + 1 /\ fromStub'[opened + 1] = <<>>
  <2>1. PICK ps \in Seq(Seq(FromTokens)) : ps = fromStub /\ Len(ps) = opened
    BY <1>3 DEF Typed
  <2>2. PICK e \in Seq(FromTokens) : e = <<>>
    <3>1. <<>> \in Seq(FromTokens)
      OBVIOUS
    <3> QED BY <3>1, Zenon
  <2>3. PICK ps2 : ps2 = Append(ps, e)
    OBVIOUS
  <2>4. ps2 \in Seq(Seq(FromTokens)) /\ Len(ps2) = Len(ps) + 1 /\ ps2[Len(ps) + 1] = e
    BY <2>3, AppendFacts
  <2> QED BY <1>1, <2>1, <2>2, <2>3, <2>4
<1>17. Typed'
  <2>1. dead' \subseteq 1..opened' /\ attached' \in 0..opened'
    BY <1>1, <1>3, <1>8 DEF Typed, StubSame
  <2>2. toStub' \in Seq(Seq(ToTokens)) /\ Len(toStub') = opened'
    BY <1>1, <1>11, <1>12, <1>14
  <2>3. conn' \in {0, opened'} /\ fromStub' \in Seq(Seq(FromTokens)) /\ Len(fromStub') = opened'
    BY <1>1, <1>16
  <2> QED BY <1>1, <1>3, <1>8, <2>1, <2>2, <2>3 DEF Typed, StubSame
<1>18. StepOk(c, r, toStub', runs[c], HeadNak')
  <2>1. SUFFICES ASSUME r.kind = "step", ~r.ackLost, ~r.unclean
                 PROVE  SentOnce(c, toStub', runs[c]) /\ NotSent(c, toStub', runs[c])
    <3>1. r.pc # "new"
      BY <1>6
    <3> QED BY <2>1, <3>1, Zenon DEF StepOk
  <2>2. NotOut(q)
    BY <1>1, <1>2 DEF NotOut
  <2>3. NotSent(c, toStub, runs[c])
    BY <1>2, <1>6, <2>1, <2>2, Zenon DEF StepOk
  <2>4. NonePending(toStub', c) /\ runs[c] = 0
    BY <1>11, <1>12, <1>15, <2>3, Zenon DEF NotSent
  <2>5. 0 <= 1
    OBVIOUS
  <2> QED BY <2>4, <2>5, Zenon DEF NotSent, SentOnce
<1>19. StreamInv'
  <2>1. PICK gone, to, res : gone = (conn \in dead)' /\ to = toStub'[conn'] /\ res = Resumed'
    OBVIOUS
  <2>2. res = None
    <3>1. attached' # conn'
      BY <1>1, <1>3, <1>8 DEF Typed, StubSame
    <3> QED BY <2>1, <3>1 DEF Resumed
  <2>3. to = <<Packet("hello", c)>>
    BY <1>8, <1>10, <1>11, <1>12, <1>14, <2>1
  <2>4. Sits(gone, to, res, {<<Packet("hello", c)>>, <<CtrlC, Packet("hello", c)>>}, None)
    BY <2>2, <2>3, Zenon DEF Sits
  <2>5. AckStream(c, "hello", gone, to, res, <<>>)
    BY <2>4, Zenon DEF AckStream
  <2>6. Stream(c, r, gone, to, res, <<>>)
    BY <1>6, <2>5 DEF Stream, Want
  <2>7. calls'[c] = r /\ fromStub'[conn'] = <<>>
    BY <1>7, <1>8, <1>16, GdbParts
  <2> QED BY <1>1, <1>3, <2>1, <2>6, <2>7 DEF StreamInv
<1>20. PacketInv'
  <2>1. SUFFICES ASSUME NEW k \in DOMAIN ws2, NEW i \in DOMAIN ws2[k], ws2[k][i].t \in Kinds
                 PROVE  calls'[ws2[k][i].of].kind = ws2[k][i].t /\ calls'[ws2[k][i].of].pc # "new"
    BY <1>12 DEF PacketInv
  <2>2. k \in DOMAIN ws
    <3>1. ws2[k] = <<m>> => ws2[k][i] = m
      OBVIOUS
    <3> QED BY <1>10, <1>14, <2>1, <3>1 DEF Kinds
  <2>3. i \in DOMAIN ws[k] /\ ws2[k][i] = ws[k][i]
    BY <1>14, <2>2
  <2>4. PICK x \in ToTokens : x = ws[k][i]
    BY <2>2, <2>3, WireFacts
  <2>5. x.of \in Calls
    BY <2>1, <2>3, <2>4, ToTokenIs DEF Kinds
  <2>6. calls[x.of].kind = x.t /\ calls[x.of].pc # "new"
    BY <1>3, <1>11, <2>1, <2>2, <2>3, <2>4 DEF Safe, PacketInv
  <2> QED BY <1>2, <1>6, <1>7, <2>3, <2>4, <2>5, <2>6, GdbParts
<1>21. Safe'
  BY <1>3, <1>1, <1>19, <1>20 DEF Safe
<1>22. Elsewhere(c)
  BY <1>11, <1>12, <1>15 DEF Elsewhere
<1>23. lock \in {c, None} /\ lock' \in {c, None} /\ runs' = runs
  BY <1>1 DEF StubSame
<1> QED BY <1>5, <1>7, <1>9, <1>17, <1>18, <1>21, <1>22, <1>23, ClientStep

----------------------------------------------------------------------------
(* The stub and the network.                                               *)

LEMMA ConcatIs ==
    ASSUME NEW S, NEW a \in S, NEW b \in S
    PROVE  /\ <<>> \o <<a>> = <<a>> /\ <<>> \o <<a, b>> = <<a, b>> /\ <<a>> \o <<b>> = <<a, b>>
<1>1. <<a>> \in Seq(S) /\ <<a, b>> \in Seq(S)
  OBVIOUS
<1>2. <<>> \o <<a>> = <<a>> /\ <<>> \o <<a, b>> = <<a, b>>
  BY <1>1, ConcatEmptySeq
<1>3. <<a>> \o <<b>> = <<a, b>>
  <2>1. <<a>> \o <<b>> = Append(<<a>>, b)
    BY <1>1, AppendIsConcat
  <2> QED BY <2>1, AppendTwo
<1> QED BY <1>2, <1>3

\* A stop is reported: to a continue that waits, has to wait yet, or sent a Ctrl-C.
LEMMA StreamReports ==
    ASSUME NEW c \in Calls, NEW r, NEW gone, ~gone, NEW to, NEW res, res # None, NEW from,
           Stream(c, r, gone, to, res, from), NEW x, x = Reply(res, "cont", FALSE),
           NEW to2, to2 = to \/ (to # <<>> /\ to2 = Tail(to)), NEW from2, from2 = from \o <<x>>
    PROVE  Stream(c, r, gone, to2, None, from2)
<1>1. r.pc # "connect"
  BY Zenon DEF Stream, Quiet, Sits
<1>2. CASE r.pc = "ack"
  <2>1. PICK w : w = Want(r)
    OBVIOUS
  <2>2. AckStream(c, w, gone, to, res, from)
    BY <1>2, <2>1 DEF Stream
  <2>3. from = <<Mark("ack")>> /\ w = "cont" /\ to = <<>> /\ res = c
    BY <2>2, Zenon DEF AckStream, Sits
  <2>4. x \in FromTokens /\ Mark("ack") \in FromTokens
    BY <2>3, TokenTypes DEF Kinds
  <2>5. from2 = <<Mark("ack"), Reply(c, w, FALSE)>> /\ to2 = <<>>
    BY <2>3, <2>4, ConcatIs
  <2>6. AckStream(c, w, gone, to2, None, from2)
    BY <2>5, Zenon DEF AckStream, Sits
  <2> QED BY <1>2, <2>1, <2>6 DEF Stream
<1>3. CASE r.pc = "recv"
  <2>1. PICK w : w = Want(r)
    OBVIOUS
  <2>2. RecvStream(c, w, gone, to, res, from)
    BY <1>3, <2>1 DEF Stream
  <2>3. from = <<>> /\ w = "cont" /\ to = <<>> /\ res = c
    BY <2>2, Zenon DEF RecvStream, Sits
  <2>4. x \in FromTokens
    BY <2>3, TokenTypes DEF Kinds
  <2>5. from2 = <<Reply(c, w, FALSE)>> /\ to2 = <<>>
    BY <2>3, <2>4, ConcatIs
  <2>6. RecvStream(c, w, gone, to2, None, from2)
    BY <2>5, Zenon DEF RecvStream, Sits
  <2> QED BY <1>3, <2>1, <2>6 DEF Stream
<1>4. CASE r.pc = "broke"
  <2>1. BrokeStream(c, gone, to, res, from)
    BY <1>4 DEF Stream
  <2>2. from = <<>> /\ to \in {<<>>, <<CtrlC>>} /\ res = c
    BY <2>1, Zenon DEF BrokeStream, Sits
  <2>3. x \in FromTokens
    BY <2>2, TokenTypes DEF Kinds
  <2>4. from2 = <<Reply(c, "cont", FALSE)>>
    BY <2>2, <2>3, ConcatIs
  <2>5. to2 \in {<<>>, <<CtrlC>>}
    <3>1. Tail(<<CtrlC>>) = <<>>
      OBVIOUS
    <3> QED BY <2>2, <3>1
  <2>6. BrokeStream(c, gone, to2, None, from2)
    BY <2>4, <2>5, Zenon DEF BrokeStream, Sits
  <2> QED BY <1>4, <2>6 DEF Stream
<1> QED BY <1>1, <1>2, <1>3, <1>4, Zenon DEF Stream

\* A Ctrl-C that came too late is taken and does nothing.
LEMMA StreamMark ==
    ASSUME NEW c \in Calls, NEW r \in CallType, NEW gone, ~gone, NEW to, to # <<>>, NEW from, r.pc \in Busy,
           Stream(c, r, gone, to, None, from), Head(to).t \in {"break", "nak"}
    PROVE  Head(to) = CtrlC /\ Stream(c, r, gone, Tail(to), None, from)
<1>1. PICK w \in Kinds \cup {"hello"} : w = Want(r)
  BY DEF Want, CallType
<1>2. PICK p : p = Packet(w, c) /\ p.t \notin {"break", "nak"}
  BY TokenFields DEF Kinds
<1>3. /\ Head(<<CtrlC>>) = CtrlC /\ Tail(<<CtrlC>>) = <<>> /\ Head(<<p>>) = p
      /\ Head(<<CtrlC, p>>) = CtrlC /\ Tail(<<CtrlC, p>>) = <<p>>
  OBVIOUS
<1>4. CASE r.pc = "connect"
  <2>1. Quiet(gone, to, None, from)
    BY <1>4 DEF Stream
  <2>2. to = <<CtrlC>> /\ from = <<>>
    BY <2>1, Zenon DEF Quiet, Sits
  <2>3. Tail(to) = <<>> /\ Head(to) = CtrlC
    BY <1>3, <2>2
  <2>4. Quiet(gone, Tail(to), None, from)
    BY <2>2, <2>3, Zenon DEF Quiet, Sits
  <2> QED BY <1>4, <2>3, <2>4 DEF Stream
<1>5. CASE r.pc = "ack"
  <2>1. AckStream(c, w, gone, to, None, from)
    BY <1>1, <1>5 DEF Stream
  <2>2. from = <<>> /\ to \in {<<p>>, <<CtrlC, p>>}
    <3>1. c # None
      BY GdbAssumption
    <3> QED BY <1>2, <2>1, <3>1, Zenon DEF AckStream, Sits
  <2>3. to # <<p>>
    BY <1>2, <1>3
  <2>4. Head(to) = CtrlC /\ Tail(to) = <<p>>
    BY <1>3, <2>2, <2>3
  <2>5. AckStream(c, w, gone, Tail(to), None, from)
    BY <1>2, <2>2, <2>4, Zenon DEF AckStream, Sits
  <2> QED BY <1>1, <1>5, <2>4, <2>5 DEF Stream
<1>6. CASE r.pc = "recv"
  <2>1. RecvStream(c, w, gone, to, None, from)
    BY <1>1, <1>6 DEF Stream
  <2> QED BY <2>1, Zenon DEF RecvStream, Sits
<1>7. CASE r.pc = "broke"
  <2>1. BrokeStream(c, gone, to, None, from)
    BY <1>7 DEF Stream
  <2>2. to = <<CtrlC>>
    BY <2>1, Zenon DEF BrokeStream, Sits
  <2>3. Tail(to) = <<>> /\ Head(to) = CtrlC
    BY <1>3, <2>2
  <2>4. BrokeStream(c, gone, Tail(to), None, from)
    BY <2>1, <2>2, <2>3, Zenon DEF BrokeStream, Sits
  <2> QED BY <1>7, <2>3, <2>4 DEF Stream
<1> QED BY <1>4, <1>5, <1>6, <1>7 DEF Busy

\* A packet is taken: the one the call at work has sent.
LEMMA StreamPacket ==
    ASSUME NEW c \in Calls, NEW r \in CallType, NEW gone, ~gone, NEW to, to # <<>>, NEW from, r.pc \in Busy,
           Stream(c, r, gone, to, None, from), Head(to).t \notin {"break", "nak"}
    PROVE  /\ r.pc = "ack" /\ from = <<>> /\ Head(to) = Packet(Want(r), c) /\ Tail(to) = <<>>
<1>1. PICK p : p = Packet(Want(r), c)
  OBVIOUS
<1>2. /\ Head(<<CtrlC>>) = CtrlC /\ Head(<<p>>) = p /\ Tail(<<p>>) = <<>> /\ Head(<<CtrlC, p>>) = CtrlC
  OBVIOUS
<1>3. CtrlC.t = "break"
  BY TokenFields DEF CtrlC
<1>4. to # <<CtrlC>> /\ to # <<CtrlC, p>>
  BY <1>2, <1>3
<1>5. r.pc # "connect"
  BY <1>4, Zenon DEF Stream, Quiet, Sits
<1>6. r.pc # "recv"
  BY Zenon DEF Stream, RecvStream, Sits
<1>7. r.pc # "broke"
  BY <1>4, Zenon DEF Stream, BrokeStream, Sits
<1>8. r.pc = "ack"
  BY <1>5, <1>6, <1>7 DEF Busy
<1>9. AckStream(c, Want(r), gone, to, None, from)
  BY <1>8 DEF Stream
<1>10. from = <<>> /\ to = <<p>>
  <2>1. c # None
    BY GdbAssumption
  <2> QED BY <1>1, <1>4, <1>9, <2>1, Zenon DEF AckStream, Sits
<1> QED BY <1>1, <1>2, <1>8, <1>10

\* On a connection that is gone it does not matter what the stub does.
LEMMA StreamGone ==
    ASSUME NEW c, NEW r, NEW gone, NEW to, NEW res, NEW from, NEW gone2, gone2, NEW to2, NEW res2,
           NEW from2, from2 = from \/ from2 = <<>>
    PROVE  /\ Stream(c, r, gone, to, res, from) => Stream(c, r, gone2, to2, res2, from2)
           /\ Quiet(gone, to, res, from) => Quiet(gone2, to2, res2, from2)
<1>1. \A tos, resumes : Sits(gone2, to2, res2, tos, resumes)
  BY Zenon DEF Sits
<1>2. Quiet(gone, to, res, from) => Quiet(gone2, to2, res2, from2)
  BY <1>1, Zenon DEF Quiet
<1>3. \A w : AckStream(c, w, gone, to, res, from) => AckStream(c, w, gone2, to2, res2, from2)
  BY <1>1, Zenon DEF AckStream
<1>4. \A w : RecvStream(c, w, gone, to, res, from) => RecvStream(c, w, gone2, to2, res2, from2)
  BY <1>1, Zenon DEF RecvStream
<1>5. BrokeStream(c, gone, to, res, from) => BrokeStream(c, gone2, to2, res2, from2)
  BY <1>1, Zenon DEF BrokeStream
<1> QED BY <1>2, <1>3, <1>4, <1>5, Zenon DEF Stream

LEMMA StubStep ==
    ASSUME GdbInv, UNCHANGED client, Typed', StreamInv', PacketInv',
           \A c \in Calls : StepOk(c, calls[c], toStub', runs'[c], HeadNak')
    PROVE  GdbInv'
<1>1. /\ calls' = calls /\ lock' = lock /\ conn' = conn /\ opened' = opened /\ dirty' = dirty
  BY DEF client
<1>2. /\ calls \in [Calls -> CallType] /\ Safe /\ \A c \in Calls : CallOk(c, calls[c], lock, conn, dirty)
  BY GdbParts
<1>3. Safe'
  BY <1>1, <1>2 DEF Safe
<1> QED BY <1>1, <1>2, <1>3, GdbPartsNext

LEMMA StepStays ==
    ASSUME NEW c, NEW r, NEW ws, NEW ws2, NEW n, NEW nak, NEW nak2, StepOk(c, r, ws, n, nak),
           NonePending(ws, c) => NonePending(ws2, c), OnePending(ws, c) => OnePending(ws2, c),
           r.pc = "ack" /\ nak2 => nak
    PROVE  StepOk(c, r, ws2, n, nak2)
BY Zenon DEF StepOk, SentOnce, NotSent

LEMMA EmittedIs ==
    ASSUME GdbInv, attached # 0, NEW ts \in Seq(FromTokens), fromStub' = Emitted(ts)
    PROVE  /\ fromStub' \in Seq(Seq(FromTokens)) /\ Len(fromStub') = opened
           /\ attached # conn \/ conn \in dead => fromStub'[conn] = fromStub[conn]
           /\ attached = conn /\ conn \notin dead => fromStub'[conn] = fromStub[conn] \o ts
<1>1. PICK ws \in Seq(Seq(FromTokens)) : ws = fromStub /\ Len(ws) = opened
  BY GdbParts DEF Typed
<1>2. CASE attached # conn \/ attached \in dead
  BY <1>1, <1>2 DEF Emitted
<1>3. CASE attached = conn /\ attached \notin dead
  <2>1. conn \in DOMAIN ws
    <3>1. conn \in 1..opened
      BY <1>3, GdbParts DEF Typed
    <3> QED BY <1>1, <3>1, WireFacts
  <2>2. PICK q \in Seq(FromTokens) : q = ws[conn]
    BY <2>1, WireFacts
  <2>3. PICK q2 \in Seq(FromTokens) : q2 = q \o ts
    BY ConcatProperties
  <2>4. fromStub' = [ws EXCEPT ![conn] = q2]
    BY <1>1, <1>3, <2>2, <2>3 DEF Emitted
  <2>5. PICK ws2 : ws2 = fromStub'
    OBVIOUS
  <2>6. ws2 \in Seq(Seq(FromTokens)) /\ Len(ws2) = Len(ws) /\ ws2[conn] = q2
    BY <2>1, <2>4, <2>5, WireSet
  <2> QED BY <1>1, <1>3, <2>2, <2>3, <2>5, <2>6
<1> QED BY <1>2, <1>3

\* What is sent is no nak: the one a call waits for was there before.
LEMMA NakStays ==
    ASSUME GdbInv, attached # 0, conn' = conn, NEW ts \in Seq(FromTokens), fromStub' = Emitted(ts),
           ts # <<>>, ts[1] # Mark("nak"), conn # 0
    PROVE  HeadNak' => HeadNak
<1>1. CASE attached # conn \/ conn \in dead
  BY <1>1, EmittedIs DEF HeadNak
<1>2. CASE attached = conn /\ conn \notin dead
  <2>1. SUFFICES ASSUME fromStub[conn] \o ts = <<Mark("nak")>> PROVE FALSE
    BY <1>2, EmittedIs DEF HeadNak
  <2>2. PICK q \in Seq(FromTokens) : q = fromStub[conn]
    <3>1. conn \in 1..opened /\ fromStub \in Seq(Seq(FromTokens)) /\ Len(fromStub) = opened
      BY GdbParts DEF Typed
    <3> QED BY <3>1, WireFacts
  <2>3. Len(<<Mark("nak")>>) = 1 /\ <<Mark("nak")>>[1] = Mark("nak")
    OBVIOUS
  <2>4. Len(q \o ts) = Len(q) + Len(ts) /\ Len(q) \in Nat /\ Len(ts) \in Nat
    BY ConcatProperties, LenProperties
  <2>5. Len(ts) # 0
    BY EmptySeq
  <2>6. Len(q) = 0
    <3>1. Len(q) + Len(ts) = 1
      BY <2>1, <2>2, <2>3, <2>4
    <3> QED BY <2>4, <2>5, <3>1
  <2>7. q = <<>>
    BY <2>6, EmptySeq
  <2>8. q \o ts = ts
    BY <2>7, ConcatEmptySeq
  <2> QED BY <2>1, <2>2, <2>3, <2>8
<1> QED BY <1>1, <1>2

LEMMA StreamElsewhere ==
    ASSUME GdbInv, UNCHANGED client, attached' = attached, dead' = dead, fromStub'[conn] = fromStub[conn],
           \/ attached # conn /\ toStub'[conn] = toStub[conn]
           \/ conn \in dead
    PROVE  StreamInv'
<1>1. /\ calls' = calls /\ lock' = lock /\ conn' = conn /\ dirty' = dirty
  BY DEF client
<1>2. StreamInv
  BY GdbParts DEF Safe
<1>3. CASE attached # conn /\ toStub'[conn] = toStub[conn]
  <2>1. Resumed' = Resumed
    BY <1>1, <1>3 DEF Resumed
  <2> QED BY <1>1, <1>2, <1>3, <2>1 DEF StreamInv
<1>4. CASE conn \in dead
  <2>1. PICK gone, to, res, from, to2, res2 :
           /\ gone = (conn \in dead) /\ to = toStub[conn] /\ res = Resumed /\ from = fromStub[conn]
           /\ to2 = toStub'[conn] /\ res2 = Resumed'
    OBVIOUS
  <2>2. gone
    BY <1>4, <2>1
  <2>3. SUFFICES ASSUME conn # 0, ~dirty
                 PROVE  /\ lock = None => Quiet(gone, to2, res2, from)
                        /\ lock # None => Stream(lock, calls[lock], gone, to2, res2, from)
    BY <1>1, <2>1 DEF StreamInv
  <2>4. /\ lock = None => Quiet(gone, to, res, from)
        /\ lock # None => Stream(lock, calls[lock], gone, to, res, from)
    BY <1>2, <2>1, <2>3 DEF StreamInv
  <2> QED BY <2>2, <2>4, StreamGone
<1> QED BY <1>3, <1>4

\* The packet the stub takes.
LEMMA TakenFacts ==
    ASSUME GdbInv, attached # 0, toStub[attached] # <<>>, toStub' = Drop(toStub, attached), calls' = calls
    PROVE  /\ toStub' \in Seq(Seq(ToTokens)) /\ Len(toStub') = opened
           /\ toStub'[attached] = Tail(toStub[attached])
           /\ conn # 0 /\ attached # conn => toStub'[conn] = toStub[conn]
           /\ Head(toStub[attached]) \in ToTokens
           /\ \A c : /\ NonePending(toStub, c) => NonePending(toStub', c) /\ ~Mine(Head(toStub[attached]), c)
                     /\ OnePending(toStub, c) => OnePending(toStub', c)
                     /\ OnePending(toStub, c) /\ Mine(Head(toStub[attached]), c) => NonePending(toStub', c)
           /\ PacketInv'
           /\ Head(toStub[attached]).t \in Kinds =>
                 /\ calls[Head(toStub[attached]).of].kind = Head(toStub[attached]).t
                 /\ calls[Head(toStub[attached]).of].pc # "new"
<1>1. PICK ws \in Seq(Seq(ToTokens)) : ws = toStub /\ Len(ws) = opened /\ DOMAIN ws = 1..opened
  <2>1. toStub \in Seq(Seq(ToTokens)) /\ Len(toStub) = opened
    BY GdbParts DEF Typed
  <2> QED BY <2>1, WireFacts
<1>2. attached \in DOMAIN ws
  BY <1>1, GdbParts DEF Typed
<1>3. PICK q \in Seq(ToTokens) : q = ws[attached] /\ q # <<>>
  BY <1>1, <1>2, WireFacts
<1>4. PICK q2 : q2 = Tail(q)
  OBVIOUS
<1>5. /\ q2 \in Seq(ToTokens) /\ DOMAIN q = 1..Len(q) /\ Len(q) \in Nat /\ Len(q) >= 1 /\ Head(q) = q[1]
      /\ Head(q) \in ToTokens /\ DOMAIN q2 = 1..(Len(q) - 1) /\ \A i \in 1..(Len(q) - 1) : q2[i] = q[i + 1]
  BY <1>3, <1>4, RestFacts
<1>6. PICK ws2 : ws2 = toStub'
  OBVIOUS
<1>7. ws2 = Drop(ws, attached) /\ ws2 = [ws EXCEPT ![attached] = q2]
  BY <1>1, <1>3, <1>4, <1>6 DEF Drop
<1>8. /\ ws2 \in Seq(Seq(ToTokens)) /\ Len(ws2) = Len(ws) /\ DOMAIN ws2 = DOMAIN ws
      /\ ws2[attached] = q2 /\ \A j \in DOMAIN ws : j # attached => ws2[j] = ws[j]
  BY <1>2, <1>5, <1>7, WireSet
<1>9. \A c : /\ NonePending(ws, c) => NonePending(ws2, c) /\ ~Mine(Head(ws[attached]), c)
             /\ OnePending(ws, c) => OnePending(ws2, c)
             /\ OnePending(ws, c) /\ Mine(Head(ws[attached]), c) => NonePending(ws2, c)
  BY <1>1, <1>2, <1>3, <1>7, PendingTail
<1>10. \A k \in DOMAIN ws : \A i \in DOMAIN ws[k] :
          ws[k][i].t \in Kinds => calls[ws[k][i].of].kind = ws[k][i].t /\ calls[ws[k][i].of].pc # "new"
  BY <1>1, GdbParts DEF Safe, PacketInv
<1>11. q[1].t \in Kinds => calls[q[1].of].kind = q[1].t /\ calls[q[1].of].pc # "new"
  BY <1>2, <1>3, <1>5, <1>10
<1>12. \A k \in DOMAIN ws2 : \A i \in DOMAIN ws2[k] :
          ws2[k][i].t \in Kinds => calls[ws2[k][i].of].kind = ws2[k][i].t /\ calls[ws2[k][i].of].pc # "new"
  <2>1. SUFFICES ASSUME NEW k \in DOMAIN ws2, NEW i \in DOMAIN ws2[k]
                 PROVE  \E j \in DOMAIN ws[k] : ws2[k][i] = ws[k][j]
    BY <1>8, <1>10
  <2>2. CASE k # attached
    BY <1>8, <2>2
  <2>3. CASE k = attached
    <3>1. i \in 1..(Len(q) - 1) /\ ws2[k][i] = q[i + 1]
      BY <1>5, <1>8, <2>3
    <3>2. i + 1 \in DOMAIN q
      BY <1>5, <3>1
    <3> QED BY <1>3, <2>3, <3>1, <3>2
  <2> QED BY <2>2, <2>3
<1>13. PacketInv'
  BY <1>6, <1>12 DEF PacketInv
<1>14. conn # 0 /\ attached # conn => toStub'[conn] = toStub[conn]
  <2>1. conn # 0 => conn \in DOMAIN ws
    BY <1>1, GdbParts DEF Typed
  <2> QED BY <1>1, <1>6, <1>8, <2>1
<1> QED BY <1>1, <1>3, <1>4, <1>5, <1>6, <1>8, <1>9, <1>11, <1>13, <1>14

LEMMA AttachesKeeps == ASSUME GdbInv, Attaches PROVE GdbInv'
<1>1. /\ attached < opened /\ (attached # conn \/ attached \in dead) /\ attached' = attached + 1
      /\ resumed' = None /\ lastReply' = NoReply
      /\ UNCHANGED client /\ toStub' = toStub /\ fromStub' = fromStub /\ dead' = dead /\ runs' = runs /\ faults' = faults
  BY DEF Attaches, wire
<1>2. /\ calls' = calls /\ lock' = lock /\ conn' = conn /\ opened' = opened /\ dirty' = dirty
  BY <1>1 DEF client
<1>3. Typed /\ Safe /\ \A c \in Calls : StepOk(c, calls[c], toStub, runs[c], HeadNak)
  BY GdbParts
<1>4. attached' \in 0..opened'
  <2>1. opened \in Nat /\ attached \in 0..opened
    BY <1>3, GdbAssumption DEF Typed
  <2> QED BY <1>1, <1>2, <2>1
<1>5. Typed'
  BY <1>1, <1>2, <1>3, <1>4 DEF Typed
<1>6. conn # 0 => Resumed' = Resumed
  <2>1. SUFFICES ASSUME conn # 0 PROVE Resumed' = Resumed
    OBVIOUS
  <2>2. attached # conn
    <3>1. conn = opened /\ opened \in Nat /\ attached \in 0..opened
      BY <1>3, <2>1, GdbAssumption DEF Typed
    <3> QED BY <1>1, <3>1
  <2> QED BY <1>1, <2>2 DEF Resumed
<1>7. StreamInv'
  BY <1>1, <1>2, <1>3, <1>6 DEF Safe, StreamInv
<1>8. PacketInv'
  BY <1>1, <1>2, <1>3 DEF Safe, PacketInv
<1>9. HeadNak' = HeadNak
  BY <1>1, <1>2 DEF HeadNak
<1>10. \A c \in Calls : StepOk(c, calls[c], toStub', runs'[c], HeadNak')
  BY <1>1, <1>3, <1>9
<1> QED BY <1>1, <1>5, <1>7, <1>8, <1>10, StubStep

\* Resumed is what the stub of this connection still has to report.
LEMMA ReportingKeeps ==
    ASSUME GdbInv, UNCHANGED client, dead' = dead, attached' = attached, resumed # None, Reports,
           runs' = runs, faults' = faults,
           toStub' = toStub \/ (attached \notin dead /\ toStub[attached] # <<>> /\ toStub' = Drop(toStub, attached))
    PROVE  GdbInv'
<1>1. /\ calls' = calls /\ lock' = lock /\ conn' = conn /\ opened' = opened /\ dirty' = dirty
  BY DEF client
<1>2. Typed /\ Safe /\ calls \in [Calls -> CallType] /\ attached # 0 /\ resumed \in Calls
      /\ \A c \in Calls : StepOk(c, calls[c], toStub, runs[c], HeadNak) /\ CallOk(c, calls[c], lock, conn, dirty)
  BY GdbParts DEF Typed
<1>3. PICK x \in FromTokens : x = Reply(resumed, "cont", FALSE) /\ x \in Replies /\ x.t = "reply"
  <2>1. PICK no \in BOOLEAN : no = FALSE
    OBVIOUS
  <2>2. "cont" \in Kinds \cup {"hello"}
    BY DEF Kinds
  <2>3. Reply(resumed, "cont", no) \in FromTokens /\ Reply(resumed, "cont", no) \in Replies
    BY <1>2, <2>2, TokenTypes, Zenon
  <2>4. Reply(resumed, "cont", no).t = "reply"
    BY DEF Reply
  <2> QED BY <2>1, <2>3, <2>4, Zenon
<1>4. PICK ts \in Seq(FromTokens) : ts = <<x>> /\ ts # <<>> /\ ts[1] = x
  <2>1. <<x>> \in Seq(FromTokens) /\ <<x>> # <<>> /\ <<x>>[1] = x
    OBVIOUS
  <2> QED BY <2>1, Zenon
<1>5. resumed' = None /\ lastReply' = x /\ fromStub' = Emitted(ts)
  BY <1>3, <1>4 DEF Reports
<1>6. /\ fromStub' \in Seq(Seq(FromTokens)) /\ Len(fromStub') = opened
      /\ attached # conn \/ conn \in dead => fromStub'[conn] = fromStub[conn]
      /\ attached = conn /\ conn \notin dead => fromStub'[conn] = fromStub[conn] \o ts
  BY <1>2, <1>5, EmittedIs
<1>7. /\ toStub' \in Seq(Seq(ToTokens)) /\ Len(toStub') = opened /\ PacketInv'
      /\ \A c : /\ NonePending(toStub, c) => NonePending(toStub', c)
                /\ OnePending(toStub, c) => OnePending(toStub', c)
      /\ conn # 0 /\ attached # conn => toStub'[conn] = toStub[conn]
      /\ toStub'[attached] = toStub[attached]
         \/ (toStub[attached] # <<>> /\ toStub'[attached] = Tail(toStub[attached]))
  <2>1. CASE toStub' = toStub
    BY <1>1, <1>2, <2>1 DEF Typed, Safe, PacketInv
  <2>2. CASE toStub[attached] # <<>> /\ toStub' = Drop(toStub, attached)
    BY <1>1, <1>2, <2>2, TakenFacts
  <2> QED BY <2>1, <2>2
<1>8. Typed'
  BY <1>1, <1>2, <1>3, <1>5, <1>6, <1>7 DEF Typed
<1>9. StreamInv'
  <2>1. SUFFICES ASSUME conn # 0, ~dirty PROVE StreamInv'
    BY <1>1 DEF StreamInv
  <2>2. CASE attached # conn \/ conn \in dead
    BY <1>6, <1>7, <2>1, <2>2, StreamElsewhere
  <2>3. CASE attached = conn /\ conn \notin dead
    <3>1. PICK gone, to, res, from, to2, from2 :
             /\ gone = (conn \in dead) /\ to = toStub[conn] /\ res = Resumed /\ from = fromStub[conn]
             /\ to2 = toStub'[conn] /\ from2 = fromStub'[conn]
      OBVIOUS
    <3>2. ~gone /\ res = resumed /\ res # None /\ Resumed' = None
      BY <1>1, <1>5, <2>3, <3>1 DEF Resumed
    <3>3. lock # None
      <4>1. lock = None => Quiet(gone, to, res, from)
        BY <1>2, <2>1, <3>1 DEF Safe, StreamInv
      <4> QED BY <3>2, <4>1 DEF Quiet, Sits
    <3>4. Stream(lock, calls[lock], gone, to, res, from) /\ lock \in Calls
      BY <1>2, <2>1, <3>1, <3>3 DEF Safe, StreamInv, Typed
    <3>5. x = Reply(res, "cont", FALSE) /\ from2 = from \o <<x>> /\ (to2 = to \/ (to # <<>> /\ to2 = Tail(to)))
      BY <1>3, <1>4, <1>6, <1>7, <2>3, <3>1, <3>2
    <3>6. Stream(lock, calls[lock], gone, to2, None, from2)
      BY <3>2, <3>4, <3>5, StreamReports
    <3> QED BY <1>1, <3>1, <3>2, <3>3, <3>6 DEF StreamInv
  <2> QED BY <2>2, <2>3
<1>10. \A c \in Calls : StepOk(c, calls[c], toStub', runs'[c], HeadNak')
  <2>1. SUFFICES ASSUME NEW c \in Calls PROVE StepOk(c, calls[c], toStub', runs[c], HeadNak')
    OBVIOUS
  <2>2. calls[c].pc = "ack" => conn # 0
    BY <1>2 DEF CallOk
  <2>3. ts[1] # Mark("nak")
    BY <1>3, <1>4, TokenFields
  <2>4. calls[c].pc = "ack" /\ HeadNak' => HeadNak
    BY <1>1, <1>2, <1>4, <1>5, <2>2, <2>3, NakStays
  <2>5. PICK r : r = calls[c]
    OBVIOUS
  <2>6. PICK n, nak, nak2, ws, ws2 : n = runs[c] /\ nak = HeadNak /\ nak2 = HeadNak' /\ ws = toStub /\ ws2 = toStub'
    OBVIOUS
  <2>7. StepOk(c, r, ws, n, nak)
    BY <1>2, <2>5, <2>6
  <2>8. /\ NonePending(ws, c) => NonePending(ws2, c)
        /\ OnePending(ws, c) => OnePending(ws2, c)
        /\ r.pc = "ack" /\ nak2 => nak
    BY <1>7, <2>4, <2>5, <2>6
  <2>9. StepOk(c, r, ws2, n, nak2)
    BY <2>7, <2>8, StepStays
  <2> QED BY <2>5, <2>6, <2>9
<1> QED BY <1>7, <1>8, <1>9, <1>10, StubStep

LEMMA StopsKeeps == ASSUME GdbInv, Stops PROVE GdbInv'
BY ReportingKeeps DEF Stops

LEMMA DiesKeeps == ASSUME GdbInv, NEW k \in {conn} \ {0}, Dies(k) PROVE GdbInv'
<1>1. /\ k = conn /\ conn # 0 /\ Fault /\ dead' = dead \cup {conn} /\ UNCHANGED client /\ toStub' = toStub /\ StubSame
      /\ fromStub' = fromStub \/ fromStub' = [fromStub EXCEPT ![conn] = <<>>]
  BY DEF Dies, stub, StubSame
<1>2. /\ calls' = calls /\ lock' = lock /\ conn' = conn /\ opened' = opened /\ dirty' = dirty /\ runs' = runs
      /\ resumed' = resumed /\ attached' = attached /\ lastReply' = lastReply
  BY <1>1 DEF client, StubSame
<1>3. Typed /\ Safe /\ \A c \in Calls : StepOk(c, calls[c], toStub, runs[c], HeadNak)
  BY GdbParts
<1>4. /\ fromStub' \in Seq(Seq(FromTokens)) /\ Len(fromStub') = opened
      /\ fromStub'[conn] = fromStub[conn] \/ fromStub'[conn] = <<>>
  <2>1. CASE fromStub' = fromStub
    BY <1>3, <2>1 DEF Typed
  <2>2. CASE fromStub' = [fromStub EXCEPT ![conn] = <<>>]
    <3>1. <<>> \in Seq(FromTokens)
      OBVIOUS
    <3> QED BY <1>1, <2>2, <3>1, ReadWire
  <2> QED BY <1>1, <2>1, <2>2
<1>5. Typed'
  <2>1. faults' \in 0..MaxFaults
    BY <1>1, FaultTyped DEF FaultsOk
  <2>2. dead' \subseteq 1..opened'
    <3>1. conn \in 1..opened
      BY <1>1, <1>3 DEF Typed
    <3> QED BY <1>1, <1>2, <1>3, <3>1 DEF Typed
  <2> QED BY <1>1, <1>2, <1>3, <1>4, <2>1, <2>2 DEF Typed
<1>6. StreamInv'
  <2>1. PICK gone, to, res, from, gone2, to2, res2, from2 :
           /\ gone = (conn \in dead) /\ to = toStub[conn] /\ res = Resumed /\ from = fromStub[conn]
           /\ gone2 = (conn \in dead)' /\ to2 = toStub'[conn] /\ res2 = Resumed' /\ from2 = fromStub'[conn]
    OBVIOUS
  <2>2. gone2 /\ (from2 = from \/ from2 = <<>>)
    BY <1>1, <1>2, <1>4, <2>1
  <2>3. SUFFICES ASSUME conn # 0, ~dirty
                 PROVE  /\ lock = None => Quiet(gone2, to2, res2, from2)
                        /\ lock # None => Stream(lock, calls[lock], gone2, to2, res2, from2)
    BY <1>2, <2>1 DEF StreamInv
  <2>4. /\ lock = None => Quiet(gone, to, res, from)
        /\ lock # None => Stream(lock, calls[lock], gone, to, res, from)
    BY <1>3, <2>1, <2>3 DEF Safe, StreamInv
  <2> QED BY <2>2, <2>4, StreamGone
<1>7. PacketInv'
  BY <1>1, <1>2, <1>3 DEF Safe, PacketInv
<1>8. HeadNak' => HeadNak
  <2>1. <<Mark("nak")>> # <<>>
    OBVIOUS
  <2> QED BY <1>2, <1>4, <2>1 DEF HeadNak
<1>9. \A c \in Calls : StepOk(c, calls[c], toStub', runs'[c], HeadNak')
  <2>1. SUFFICES ASSUME NEW c \in Calls PROVE StepOk(c, calls[c], toStub, runs[c], HeadNak')
    BY <1>1, <1>2
  <2>2. PICK n, nak, nak2, ws, r : n = runs[c] /\ nak = HeadNak /\ nak2 = HeadNak' /\ ws = toStub /\ r = calls[c]
    OBVIOUS
  <2>3. StepOk(c, r, ws, n, nak) /\ (nak2 => nak)
    BY <1>3, <1>8, <2>2
  <2>4. StepOk(c, r, ws, n, nak2)
    BY <2>3, StepStays
  <2> QED BY <2>2, <2>4
<1> QED BY <1>1, <1>5, <1>6, <1>7, <1>9, StubStep

\* What every step that takes a packet has in common.
Taking == /\ UNCHANGED client /\ dead' = dead /\ attached' = attached /\ attached # 0 /\ attached \notin dead
          /\ toStub[attached] # <<>> /\ toStub' = Drop(toStub, attached)

LEMMA TakingFacts ==
    ASSUME GdbInv, Taking
    PROVE  /\ calls' = calls /\ lock' = lock /\ conn' = conn /\ opened' = opened /\ dirty' = dirty
           /\ Typed /\ Safe /\ calls \in [Calls -> CallType]
           /\ \A c \in Calls : StepOk(c, calls[c], toStub, runs[c], HeadNak) /\ CallOk(c, calls[c], lock, conn, dirty)
           /\ toStub' \in Seq(Seq(ToTokens)) /\ Len(toStub') = opened /\ PacketInv'
           /\ \A c : /\ NonePending(toStub, c) => NonePending(toStub', c)
                     /\ OnePending(toStub, c) => OnePending(toStub', c)
           /\ attached # conn /\ conn # 0 => toStub'[conn] = toStub[conn]
           /\ toStub'[attached] = Tail(toStub[attached])
BY GdbParts, TakenFacts DEF Taking, client

LEMMA TakesMarkKeeps ==
    ASSUME GdbInv, Taking, TakesMark(Head(toStub[attached]))
    PROVE  GdbInv'
<1>1. PICK m : m = Head(toStub[attached])
  OBVIOUS
<1>2. /\ resumed = None /\ m.t \in {"break", "nak"}
      /\ resumed' = resumed /\ lastReply' = lastReply /\ runs' = runs /\ faults' = faults
      /\ \/ fromStub' = fromStub
         \/ m.t = "nak" /\ lastReply # NoReply /\ fromStub' = Emitted(<<lastReply>>)
  BY <1>1 DEF TakesMark
<1>3. /\ calls' = calls /\ lock' = lock /\ conn' = conn /\ opened' = opened /\ dirty' = dirty
      /\ Typed /\ Safe /\ calls \in [Calls -> CallType]
      /\ \A c \in Calls : StepOk(c, calls[c], toStub, runs[c], HeadNak) /\ CallOk(c, calls[c], lock, conn, dirty)
      /\ toStub' \in Seq(Seq(ToTokens)) /\ Len(toStub') = opened /\ PacketInv'
      /\ \A c : /\ NonePending(toStub, c) => NonePending(toStub', c)
                /\ OnePending(toStub, c) => OnePending(toStub', c)
      /\ attached # conn /\ conn # 0 => toStub'[conn] = toStub[conn]
      /\ toStub'[attached] = Tail(toStub[attached])
  BY TakingFacts
<1>4. /\ UNCHANGED client /\ dead' = dead /\ attached' = attached /\ attached # 0 /\ attached \notin dead
      /\ toStub[attached] # <<>>
  BY DEF Taking
<1>5. /\ fromStub' \in Seq(Seq(FromTokens)) /\ Len(fromStub') = opened
      /\ attached # conn \/ m.t # "nak" => fromStub'[conn] = fromStub[conn]
      /\ conn # 0 => (HeadNak' => HeadNak)
  <2>1. CASE fromStub' = fromStub
    BY <1>3, <2>1 DEF Typed, HeadNak
  <2>2. CASE m.t = "nak" /\ lastReply # NoReply /\ fromStub' = Emitted(<<lastReply>>)
    <3>1. lastReply \in Replies /\ lastReply \in FromTokens
      BY <1>3, <2>2 DEF Typed, FromTokens
    <3>2. PICK ts \in Seq(FromTokens) : ts = <<lastReply>> /\ ts # <<>> /\ ts[1] = lastReply
      <4>1. <<lastReply>> \in Seq(FromTokens) /\ <<lastReply>> # <<>> /\ <<lastReply>>[1] = lastReply
        BY <3>1
      <4> QED BY <4>1, Zenon
    <3>3. ts[1] # Mark("nak")
      BY <3>1, <3>2, TokenFields DEF Replies
    <3>4. fromStub' = Emitted(ts)
      BY <2>2, <3>2
    <3>5. /\ fromStub' \in Seq(Seq(FromTokens)) /\ Len(fromStub') = opened
          /\ attached # conn \/ conn \in dead => fromStub'[conn] = fromStub[conn]
      BY <1>4, <3>4, EmittedIs
    <3>6. conn # 0 => (HeadNak' => HeadNak)
      BY <1>3, <1>4, <3>2, <3>3, <3>4, NakStays
    <3> QED BY <2>2, <3>5, <3>6
  <2> QED BY <1>2, <2>1, <2>2
<1>6. Typed'
  BY <1>2, <1>3, <1>4, <1>5 DEF Typed
<1>7. StreamInv'
  <2>1. SUFFICES ASSUME conn # 0, ~dirty PROVE StreamInv'
    BY <1>3 DEF StreamInv
  <2>2. CASE attached # conn
    BY <1>3, <1>4, <1>5, <2>1, <2>2, StreamElsewhere
  <2>3. CASE attached = conn
    <3>1. PICK gone, to, from, to2, from2 :
             /\ gone = (conn \in dead) /\ to = toStub[conn] /\ from = fromStub[conn]
             /\ to2 = toStub'[conn] /\ from2 = fromStub'[conn]
      OBVIOUS
    <3>2. ~gone /\ Resumed = None /\ Resumed' = None /\ to # <<>> /\ m = Head(to) /\ to2 = Tail(to)
      BY <1>1, <1>2, <1>3, <1>4, <2>3, <3>1 DEF Resumed
    <3>3. m.t = "break" => from2 = from
      BY <1>5, <3>1
    <3>4. CtrlC.t = "break"
      BY TokenFields DEF CtrlC
    <3>5. CASE lock = None
      <4>1. Quiet(gone, to, None, from)
        BY <1>3, <2>1, <3>1, <3>2, <3>5 DEF Safe, StreamInv
      <4>2. to = <<CtrlC>> /\ from = <<>>
        BY <3>2, <4>1, Zenon DEF Quiet, Sits
      <4>3. Head(to) = CtrlC /\ Tail(to) = <<>>
        BY <4>2
      <4>4. to2 = <<>> /\ from2 = <<>>
        BY <3>2, <3>3, <3>4, <4>2, <4>3
      <4>5. Quiet(gone, to2, None, from2)
        BY <4>4, Zenon DEF Quiet, Sits
      <4> QED BY <1>3, <1>4, <3>1, <3>2, <3>5, <4>5 DEF StreamInv
    <3>6. CASE lock # None
      <4>1. PICK c \in Calls : c = lock
        BY <1>3, <3>6 DEF Typed
      <4>2. PICK r \in CallType : r = calls[c]
        BY <1>3
      <4>3. r.pc \in Busy
        BY <1>3, <4>1, <4>2 DEF CallOk
      <4>4. Stream(c, r, gone, to, None, from)
        BY <1>3, <2>1, <3>1, <3>2, <3>6, <4>1, <4>2 DEF Safe, StreamInv
      <4>5. Head(to).t \in {"break", "nak"}
        BY <1>2, <3>2
      <4>6. m = CtrlC /\ Stream(c, r, gone, to2, None, from)
        BY <3>2, <4>3, <4>4, <4>5, StreamMark
      <4>7. Stream(c, r, gone, to2, None, from2)
        BY <3>3, <3>4, <4>6
      <4> QED BY <1>3, <1>4, <3>1, <3>2, <3>6, <4>1, <4>2, <4>7 DEF StreamInv
    <3> QED BY <3>5, <3>6
  <2> QED BY <2>2, <2>3
<1>8. \A c \in Calls : StepOk(c, calls[c], toStub', runs'[c], HeadNak')
  <2>1. SUFFICES ASSUME NEW c \in Calls PROVE StepOk(c, calls[c], toStub', runs[c], HeadNak')
    BY <1>2
  <2>2. calls[c].pc = "ack" => conn # 0
    BY <1>3 DEF CallOk
  <2>3. PICK n, nak, nak2, ws, ws2, r :
           n = runs[c] /\ nak = HeadNak /\ nak2 = HeadNak' /\ ws = toStub /\ ws2 = toStub' /\ r = calls[c]
    OBVIOUS
  <2>4. /\ StepOk(c, r, ws, n, nak)
        /\ NonePending(ws, c) => NonePending(ws2, c)
        /\ OnePending(ws, c) => OnePending(ws2, c)
        /\ r.pc = "ack" /\ nak2 => nak
    BY <1>3, <1>5, <2>2, <2>3
  <2>5. StepOk(c, r, ws2, n, nak2)
    BY <2>4, StepStays
  <2> QED BY <2>3, <2>5
<1> QED BY <1>3, <1>4, <1>6, <1>7, <1>8, StubStep

\* A packet was taken on a connection nobody left as it was: it is the one of the call at work.
LEMMA TakenIsTheirs ==
    ASSUME GdbInv, Taking, resumed = None, attached = conn, ~dirty,
           Head(toStub[attached]).t \notin {"break", "nak"}
    PROVE  /\ lock \in Calls /\ lock # None /\ calls[lock].pc = "ack" /\ fromStub[conn] = <<>>
           /\ Head(toStub[attached]) = Packet(Want(calls[lock]), lock) /\ toStub'[conn] = <<>>
<1>1. /\ Typed /\ Safe /\ calls \in [Calls -> CallType] /\ conn # 0 /\ conn \notin dead /\ toStub[conn] # <<>>
      /\ \A c \in Calls : CallOk(c, calls[c], lock, conn, dirty)
      /\ toStub'[conn] = Tail(toStub[conn])
  BY TakingFacts DEF Taking
<1>2. PICK gone, to, from : gone = (conn \in dead) /\ to = toStub[conn] /\ from = fromStub[conn]
  OBVIOUS
<1>3. ~gone /\ Resumed = None /\ to # <<>> /\ Head(to).t \notin {"break", "nak"}
  BY <1>1, <1>2 DEF Resumed
<1>4. lock # None
  <2>1. SUFFICES ASSUME lock = None PROVE FALSE
    OBVIOUS
  <2>2. Quiet(gone, to, None, from)
    BY <1>1, <1>2, <1>3, <2>1 DEF Safe, StreamInv
  <2>3. to = <<CtrlC>>
    BY <1>3, <2>2, Zenon DEF Quiet, Sits
  <2>4. Head(to) = CtrlC
    BY <2>3
  <2> QED BY <1>3, <2>4, TokenFields DEF CtrlC
<1>5. PICK c \in Calls : c = lock
  BY <1>1, <1>4 DEF Typed
<1>6. PICK r \in CallType : r = calls[c]
  BY <1>1
<1>7. r.pc \in Busy
  BY <1>1, <1>5, <1>6 DEF CallOk
<1>8. Stream(c, r, gone, to, None, from)
  BY <1>1, <1>2, <1>3, <1>4, <1>5, <1>6 DEF Safe, StreamInv
<1>9. r.pc = "ack" /\ from = <<>> /\ Head(to) = Packet(Want(r), c) /\ Tail(to) = <<>>
  BY <1>3, <1>7, <1>8, StreamPacket
<1> QED BY <1>1, <1>2, <1>4, <1>5, <1>6, <1>9

LEMMA NaksKeeps ==
    ASSUME GdbInv, Taking, Naks(Head(toStub[attached]))
    PROVE  GdbInv'
<1>1. PICK m : m = Head(toStub[attached])
  OBVIOUS
<1>2. PICK ts \in Seq(FromTokens) : ts = <<Mark("nak")>>
  <2>1. <<Mark("nak")>> \in Seq(FromTokens)
    BY TokenTypes
  <2> QED BY <2>1, Zenon
<1>3. /\ resumed = None /\ m.t \notin {"break", "nak"} /\ Fault /\ fromStub' = Emitted(ts)
      /\ resumed' = resumed /\ lastReply' = lastReply /\ runs' = runs
  BY <1>1, <1>2 DEF Naks
<1>4. /\ calls' = calls /\ lock' = lock /\ conn' = conn /\ opened' = opened /\ dirty' = dirty
      /\ Typed /\ Safe /\ calls \in [Calls -> CallType]
      /\ \A c \in Calls : StepOk(c, calls[c], toStub, runs[c], HeadNak) /\ CallOk(c, calls[c], lock, conn, dirty)
      /\ toStub' \in Seq(Seq(ToTokens)) /\ Len(toStub') = opened /\ PacketInv'
      /\ \A c : /\ NonePending(toStub, c) => NonePending(toStub', c)
                /\ OnePending(toStub, c) => OnePending(toStub', c)
      /\ attached # conn /\ conn # 0 => toStub'[conn] = toStub[conn]
  BY TakingFacts
<1>5. /\ UNCHANGED client /\ dead' = dead /\ attached' = attached /\ attached # 0 /\ attached \notin dead
      /\ toStub[attached] # <<>> /\ toStub' = Drop(toStub, attached)
  BY DEF Taking
<1>6. /\ fromStub' \in Seq(Seq(FromTokens)) /\ Len(fromStub') = opened
      /\ attached # conn \/ conn \in dead => fromStub'[conn] = fromStub[conn]
      /\ attached = conn /\ conn \notin dead => fromStub'[conn] = fromStub[conn] \o ts
  BY <1>3, <1>5, EmittedIs
<1>7. Typed'
  <2>1. faults' \in 0..MaxFaults
    BY <1>3, FaultTyped DEF FaultsOk
  <2> QED BY <1>3, <1>4, <1>5, <1>6, <2>1 DEF Typed
<1>8. ASSUME attached = conn, ~dirty
      PROVE  /\ lock \in Calls /\ lock # None /\ calls[lock].pc = "ack"
             /\ m = Packet(Want(calls[lock]), lock) /\ toStub'[conn] = <<>>
             /\ fromStub'[conn] = <<Mark("nak")>>
  <2>1. /\ lock \in Calls /\ lock # None /\ calls[lock].pc = "ack" /\ fromStub[conn] = <<>>
        /\ m = Packet(Want(calls[lock]), lock) /\ toStub'[conn] = <<>>
    BY <1>1, <1>3, <1>8, TakenIsTheirs
  <2>2. fromStub'[conn] = <<>> \o ts
    BY <1>5, <1>6, <1>8, <2>1
  <2>3. <<>> \o ts = ts
    BY ConcatEmptySeq
  <2> QED BY <1>2, <2>1, <2>2, <2>3
<1>9. StreamInv'
  <2>1. SUFFICES ASSUME conn # 0, ~dirty PROVE StreamInv'
    BY <1>4 DEF StreamInv
  <2>2. CASE attached # conn
    BY <1>4, <1>5, <1>6, <2>1, <2>2, StreamElsewhere
  <2>3. CASE attached = conn
    <3>1. PICK gone, to2, from2, w : gone = (conn \in dead)' /\ to2 = toStub'[conn] /\ from2 = fromStub'[conn]
                                     /\ w = Want(calls[lock])
      OBVIOUS
    <3>2. Resumed' = None
      BY <1>3 DEF Resumed
    <3>3. AckStream(lock, w, gone, to2, None, from2)
      BY <1>8, <2>1, <2>3, <3>1, Zenon DEF AckStream, Sits
    <3>4. Stream(lock, calls[lock], gone, to2, None, from2)
      BY <1>8, <2>1, <2>3, <3>1, <3>3 DEF Stream
    <3> QED BY <1>4, <1>8, <2>1, <2>3, <3>1, <3>2, <3>4 DEF StreamInv
  <2> QED BY <2>2, <2>3
<1>10. ASSUME NEW c \in Calls PROVE StepOk(c, calls[c], toStub', runs[c], HeadNak')
  <2>1. CASE calls[c].pc # "ack" \/ attached # conn
    <3>1. PICK n, nak, nak2, ws, ws2, r :
             n = runs[c] /\ nak = HeadNak /\ nak2 = HeadNak' /\ ws = toStub /\ ws2 = toStub' /\ r = calls[c]
      OBVIOUS
    <3>2. attached # conn => (nak2 => nak)
      BY <1>4, <1>6, <3>1 DEF HeadNak
    <3>3. /\ StepOk(c, r, ws, n, nak)
          /\ NonePending(ws, c) => NonePending(ws2, c)
          /\ OnePending(ws, c) => OnePending(ws2, c)
          /\ r.pc = "ack" /\ nak2 => nak
      BY <1>4, <2>1, <3>1, <3>2
    <3>4. StepOk(c, r, ws2, n, nak2)
      BY <3>3, StepStays
    <3> QED BY <3>1, <3>4
  <2>2. CASE calls[c].pc = "ack" /\ attached = conn
    <3>1. PICK r \in CallType : r = calls[c]
      BY <1>4
    <3>2. StepOk(c, r, toStub, runs[c], HeadNak) /\ CallOk(c, r, lock, conn, dirty) /\ r.pc = "ack"
      BY <1>4, <2>2, <3>1
    <3>3. SUFFICES ASSUME r.kind = "step", ~r.ackLost, ~r.unclean
                   PROVE  SentOnce(c, toStub', runs[c]) /\ NotSent(c, toStub', runs[c])
      <4>1. r.pc # "new"
        BY <3>2
      <4> QED BY <3>1, <3>3, <4>1, Zenon DEF StepOk
    <3>4. SentOnce(c, toStub, runs[c]) /\ (NotOut(r) => NotSent(c, toStub, runs[c]))
      BY <3>2, <3>3, Zenon DEF StepOk
    <3>5. ~dirty /\ lock = c
      BY <3>2, <3>3 DEF CallOk, Busy
    <3>6. m = Packet(Want(r), c)
      BY <1>8, <2>2, <3>1, <3>5
    <3>7. NotSent(c, toStub', runs[c])
      <4>1. CASE r.hello
        <5>1. NotOut(r)
          BY <3>2, <4>1 DEF NotOut
        <5> QED BY <1>4, <3>4, <5>1, Zenon DEF NotSent
      <4>2. CASE ~r.hello
        <5>1. Mine(m, c)
          BY <3>3, <3>6, <4>2, TokenFields DEF Mine, Want, Kinds
        <5>2. /\ NonePending(toStub, c) => ~Mine(m, c)
              /\ OnePending(toStub, c) /\ Mine(m, c) => NonePending(toStub', c)
          BY <1>1, <1>4, <1>5, TakenFacts
        <5> QED BY <3>4, <5>1, <5>2, Zenon DEF SentOnce, NotSent
      <4> QED BY <4>1, <4>2
    <3>8. SentOnce(c, toStub', runs[c])
      <4>1. 0 <= 1
        OBVIOUS
      <4> QED BY <3>7, <4>1, Zenon DEF SentOnce, NotSent
    <3> QED BY <3>7, <3>8
  <2> QED BY <2>1, <2>2
<1>11. \A c \in Calls : StepOk(c, calls[c], toStub', runs'[c], HeadNak')
  BY <1>3, <1>10
<1> QED BY <1>4, <1>5, <1>7, <1>9, <1>11, StubStep

\* The step that is carried out was not before, and its packet is nowhere else.
LEMMA CarryCounts ==
    ASSUME GdbInv, Taking, NEW m, m = Head(toStub[attached]), m.t \notin {"break", "nak"},
           runs' = IF m.t \in {"step", "cont"} THEN [runs EXCEPT ![m.of] = @ + 1] ELSE runs,
           conn # 0 => (HeadNak' => HeadNak)
    PROVE  /\ runs' \in [Calls -> Nat]
           /\ \A c \in Calls : StepOk(c, calls[c], toStub', runs'[c], HeadNak')
<1>1. /\ calls' = calls /\ Typed /\ calls \in [Calls -> CallType]
      /\ \A c \in Calls : StepOk(c, calls[c], toStub, runs[c], HeadNak) /\ CallOk(c, calls[c], lock, conn, dirty)
  BY TakingFacts
<1>2. /\ m \in ToTokens
      /\ \A c : /\ NonePending(toStub, c) => NonePending(toStub', c) /\ ~Mine(m, c)
                /\ OnePending(toStub, c) => OnePending(toStub', c)
                /\ OnePending(toStub, c) /\ Mine(m, c) => NonePending(toStub', c)
      /\ m.t \in Kinds => calls[m.of].kind = m.t /\ calls[m.of].pc # "new"
  BY <1>1, TakenFacts DEF Taking
<1>3. m.of \in Calls
  BY <1>2, ToTokenIs
<1>4. runs \in [Calls -> Nat]
  BY <1>1 DEF Typed
<1>5. runs' \in [Calls -> Nat] /\ \A c \in Calls : c # m.of \/ m.t \notin {"step", "cont"} => runs'[c] = runs[c]
  BY <1>3, <1>4
<1>6. m.t \in {"step", "cont"} => runs'[m.of] = runs[m.of] + 1
  BY <1>3, <1>4
<1>7. ASSUME NEW c \in Calls PROVE StepOk(c, calls[c], toStub', runs'[c], HeadNak')
  <2>1. PICK r \in CallType : r = calls[c]
    BY <1>1
  <2>2. StepOk(c, r, toStub, runs[c], HeadNak) /\ CallOk(c, r, lock, conn, dirty)
    BY <1>1, <2>1
  <2>3. r.pc = "ack" /\ HeadNak' => HeadNak
    BY <2>2 DEF CallOk
  <2>4. CASE c # m.of \/ m.t \notin {"step", "cont"}
    <3>1. PICK n, nak, nak2, ws, ws2 :
             n = runs[c] /\ nak = HeadNak /\ nak2 = HeadNak' /\ ws = toStub /\ ws2 = toStub'
      OBVIOUS
    <3>2. /\ StepOk(c, r, ws, n, nak)
          /\ NonePending(ws, c) => NonePending(ws2, c)
          /\ OnePending(ws, c) => OnePending(ws2, c)
          /\ r.pc = "ack" /\ nak2 => nak
      BY <1>2, <2>2, <2>3, <3>1
    <3>3. StepOk(c, r, ws2, n, nak2)
      BY <3>2, StepStays
    <3> QED BY <1>5, <2>1, <2>4, <3>1, <3>3
  <2>5. CASE c = m.of /\ m.t \in {"step", "cont"}
    <3>1. r.kind = m.t /\ r.pc # "new" /\ Mine(m, c)
      BY <1>2, <2>1, <2>5 DEF Kinds, Mine
    <3>2. SUFFICES ASSUME r.kind = "step", ~r.ackLost, ~r.unclean
                   PROVE  /\ SentOnce(c, toStub', runs'[c])
                          /\ ~(NotOut(r) \/ (r.pc = "ack" /\ HeadNak'))
      BY <2>1, <3>1, Zenon DEF StepOk
    <3>3. OnePending(toStub, c) /\ runs[c] = 0
      BY <1>2, <2>2, <3>1, <3>2, Zenon DEF StepOk, SentOnce
    <3>4. ~NotSent(c, toStub, runs[c])
      BY <1>2, <3>1, Zenon DEF NotSent
    <3>5. NonePending(toStub', c) /\ runs'[c] <= 1
      <4>1. runs'[c] = 0 + 1
        BY <1>6, <2>5, <3>3
      <4>2. runs'[c] <= 1
        BY <4>1
      <4> QED BY <1>2, <3>1, <3>3, <4>2, Zenon
    <3> QED BY <2>2, <2>3, <3>2, <3>4, <3>5, Zenon DEF StepOk, SentOnce
  <2> QED BY <2>4, <2>5
<1> QED BY <1>5, <1>7

LEMMA CarriesOutKeeps ==
    ASSUME GdbInv, Taking, CarriesOut(Head(toStub[attached]))
    PROVE  GdbInv'
<1>1. PICK m : m = Head(toStub[attached])
  OBVIOUS
<1>2. /\ calls' = calls /\ lock' = lock /\ conn' = conn /\ opened' = opened /\ dirty' = dirty
      /\ Typed /\ Safe /\ calls \in [Calls -> CallType]
      /\ \A c \in Calls : StepOk(c, calls[c], toStub, runs[c], HeadNak) /\ CallOk(c, calls[c], lock, conn, dirty)
      /\ toStub' \in Seq(Seq(ToTokens)) /\ Len(toStub') = opened /\ PacketInv'
      /\ attached # conn /\ conn # 0 => toStub'[conn] = toStub[conn]
  BY TakingFacts
<1>3. /\ UNCHANGED client /\ dead' = dead /\ attached' = attached /\ attached # 0 /\ attached \notin dead
      /\ toStub[attached] # <<>> /\ toStub' = Drop(toStub, attached)
  BY DEF Taking
<1>4. /\ resumed = None /\ m.t \notin {"break", "nak"}
      /\ runs' = IF m.t \in {"step", "cont"} THEN [runs EXCEPT ![m.of] = @ + 1] ELSE runs
  BY <1>1 DEF CarriesOut
<1>5. m \in ToTokens /\ m.of \in Calls /\ m.t \in Kinds \cup {"hello"}
  <2>1. m \in ToTokens
    BY <1>1, <1>2, <1>3, TakenFacts
  <2> QED BY <1>4, <2>1, ToTokenIs
<1>6. \E ts \in Seq(FromTokens) :
         /\ fromStub' = Emitted(ts) /\ ts # <<>> /\ ts[1] = Mark("ack")
         /\ \/ m.t = "cont" /\ resumed' = m.of /\ lastReply' = lastReply /\ faults' = faults /\ ts = <<Mark("ack")>>
            \/ /\ m.t # "cont" /\ resumed' = resumed /\ lastReply' \in Replies /\ FaultsOk
               /\ \E bad \in BOOLEAN : ts = <<Mark("ack"), Reply(m.of, m.t, bad)>>
  <2>1. CASE m.t = "cont"
    <3>1. /\ fromStub' = Emitted(<<Mark("ack")>>) /\ resumed' = m.of /\ lastReply' = lastReply /\ faults' = faults
      BY <1>1, <2>1 DEF CarriesOut
    <3>2. <<Mark("ack")>> \in Seq(FromTokens) /\ <<Mark("ack")>> # <<>> /\ <<Mark("ack")>>[1] = Mark("ack")
      BY TokenTypes
    <3> QED BY <2>1, <3>1, <3>2, Zenon
  <2>2. CASE m.t # "cont"
    <3>1. PICK no \in BOOLEAN, yes \in BOOLEAN : no = FALSE /\ yes = TRUE
      OBVIOUS
    <3>2. PICK x : x = Reply(m.of, m.t, FALSE)
      OBVIOUS
    <3>3. x \in Replies /\ [x EXCEPT !.bad = TRUE] = Reply(m.of, m.t, TRUE)
      <4>1. Reply(m.of, m.t, no) \in Replies
        BY <1>5, TokenTypes, Zenon
      <4>2. PICK y : y = [x EXCEPT !.bad = TRUE]
        OBVIOUS
      <4>3. y = Reply(m.of, m.t, TRUE)
        BY <3>2, <4>2 DEF Reply
      <4> QED BY <3>1, <3>2, <4>1, <4>2, <4>3
    <3>4. /\ resumed' = resumed /\ lastReply' = x
          /\ \/ fromStub' = Emitted(<<Mark("ack"), Reply(m.of, m.t, no)>>) /\ UNCHANGED faults
             \/ fromStub' = Emitted(<<Mark("ack"), Reply(m.of, m.t, yes)>>) /\ Fault
      BY <1>1, <2>2, <3>1, <3>2, <3>3 DEF CarriesOut
    <3>5. PICK bad \in BOOLEAN : fromStub' = Emitted(<<Mark("ack"), Reply(m.of, m.t, bad)>>)
      BY <3>4
    <3>6. PICK y \in FromTokens : y = Reply(m.of, m.t, bad)
      <4>1. Reply(m.of, m.t, bad) \in FromTokens
        BY <1>5, TokenTypes, Zenon
      <4> QED BY <4>1, Zenon
    <3>7. PICK ts \in Seq(FromTokens) : ts = <<Mark("ack"), y>> /\ ts # <<>> /\ ts[1] = Mark("ack")
      <4>1. <<Mark("ack"), y>> \in Seq(FromTokens) /\ <<Mark("ack"), y>> # <<>> /\ <<Mark("ack"), y>>[1] = Mark("ack")
        BY TokenTypes
      <4> QED BY <4>1, Zenon
    <3>8. FaultsOk
      BY <3>4, FaultTyped
    <3> QED BY <2>2, <3>3, <3>4, <3>5, <3>6, <3>7, <3>8, Zenon
  <2> QED BY <2>1, <2>2
<1>7. PICK ts \in Seq(FromTokens) :
         /\ fromStub' = Emitted(ts) /\ ts # <<>> /\ ts[1] = Mark("ack")
         /\ \/ m.t = "cont" /\ resumed' = m.of /\ lastReply' = lastReply /\ faults' = faults /\ ts = <<Mark("ack")>>
            \/ /\ m.t # "cont" /\ resumed' = resumed /\ lastReply' \in Replies /\ FaultsOk
               /\ \E bad \in BOOLEAN : ts = <<Mark("ack"), Reply(m.of, m.t, bad)>>
  BY <1>6
<1>8. /\ fromStub' \in Seq(Seq(FromTokens)) /\ Len(fromStub') = opened
      /\ attached # conn \/ conn \in dead => fromStub'[conn] = fromStub[conn]
      /\ attached = conn /\ conn \notin dead => fromStub'[conn] = fromStub[conn] \o ts
  BY <1>3, <1>7, EmittedIs
<1>9. conn # 0 => (HeadNak' => HeadNak)
  <2>1. ts[1] # Mark("nak")
    BY <1>7, TokenFields
  <2> QED BY <1>2, <1>3, <1>7, <2>1, NakStays
<1>10. /\ runs' \in [Calls -> Nat]
       /\ \A c \in Calls : StepOk(c, calls[c], toStub', runs'[c], HeadNak')
  BY <1>1, <1>4, <1>9, CarryCounts
<1>11. Typed'
  <2>1. faults' \in 0..MaxFaults
    BY <1>2, <1>7 DEF Typed, FaultsOk
  <2> QED BY <1>2, <1>3, <1>4, <1>5, <1>7, <1>8, <1>10, <2>1 DEF Typed
<1>12. StreamInv'
  <2>1. SUFFICES ASSUME conn # 0, ~dirty PROVE StreamInv'
    BY <1>2 DEF StreamInv
  <2>2. CASE attached # conn
    BY <1>2, <1>3, <1>8, <2>1, <2>2, StreamElsewhere
  <2>3. CASE attached = conn
    <3>1. PICK gone, to2, from2, w, c : gone = (conn \in dead)' /\ to2 = toStub'[conn] /\ from2 = fromStub'[conn]
                                        /\ w = Want(calls[lock]) /\ c = lock
      OBVIOUS
    <3>2. /\ c \in Calls /\ lock # None /\ calls[c].pc = "ack" /\ fromStub[conn] = <<>>
          /\ m = Packet(w, c) /\ to2 = <<>>
      BY <1>1, <1>4, <2>1, <2>3, <3>1, TakenIsTheirs
    <3>3. from2 = ts
      <4>1. from2 = <<>> \o ts
        BY <1>3, <1>8, <2>3, <3>1, <3>2
      <4> QED BY <4>1, ConcatEmptySeq
    <3>4. m.t = w /\ m.of = c
      BY <3>2, TokenFields
    <3>5. Resumed' = resumed'
      BY <1>2, <1>3, <2>3 DEF Resumed
    <3>6. AckStream(c, w, gone, to2, resumed', from2)
      <4>1. CASE m.t = "cont" /\ resumed' = m.of /\ ts = <<Mark("ack")>>
        BY <3>2, <3>3, <3>4, <4>1, Zenon DEF AckStream, Sits
      <4>2. CASE resumed' = resumed /\ \E bad \in BOOLEAN : ts = <<Mark("ack"), Reply(m.of, m.t, bad)>>
        <5>1. PICK bad \in BOOLEAN : ts = <<Mark("ack"), Reply(c, w, bad)>>
          BY <3>4, <4>2
        <5>2. resumed' = None
          BY <1>4, <4>2
        <5> QED BY <3>2, <3>3, <5>1, <5>2, Zenon DEF AckStream, Sits
      <4> QED BY <1>7, <4>1, <4>2
    <3>7. Stream(c, calls[c], gone, to2, resumed', from2)
      BY <3>1, <3>2, <3>6 DEF Stream
    <3> QED BY <1>2, <2>1, <3>1, <3>2, <3>5, <3>7 DEF StreamInv
  <2> QED BY <2>2, <2>3
<1> QED BY <1>2, <1>3, <1>10, <1>11, <1>12, StubStep

LEMMA TakesKeeps == ASSUME GdbInv, Takes PROVE GdbInv'
<1>1. /\ UNCHANGED client /\ dead' = dead /\ attached' = attached /\ attached # 0 /\ attached \notin dead
      /\ toStub[attached] # <<>> /\ toStub' = Drop(toStub, attached)
  BY DEF Takes, Drop
<1>2. Taking
  BY <1>1 DEF Taking
<1>3. CASE TakesWhileRunning
  BY <1>1, <1>3, ReportingKeeps DEF TakesWhileRunning
<1>4. CASE TakesMark(Head(toStub[attached]))
  BY <1>2, <1>4, TakesMarkKeeps
<1>5. CASE Naks(Head(toStub[attached]))
  BY <1>2, <1>5, NaksKeeps
<1>6. CASE CarriesOut(Head(toStub[attached]))
  BY <1>2, <1>6, CarriesOutKeeps
<1> QED BY <1>3, <1>4, <1>5, <1>6 DEF Takes

----------------------------------------------------------------------------
(* The invariant and what follows from it.                                 *)

LEMMA GdbStarts == ASSUME Init PROVE GdbInv
<1>1. Fresh \in CallType
  <2>1. MaxFrames \in Nat
    BY GdbAssumption
  <2>2. PICK zero \in 0..(3 + 2 * MaxFrames) : zero = 0 /\ zero \in 0..1
    BY <2>1
  <2>3. Fresh = [pc |-> "new", kind |-> "read", hello |-> FALSE, attempt |-> zero, sent |-> FALSE,
                 naked |-> FALSE, reads |-> zero, foreign |-> FALSE,
                 unclean |-> FALSE, ackLost |-> FALSE, claim |-> "none"]
    BY <2>2 DEF Fresh
  <2> QED BY <2>2, <2>3 DEF CallType, Kinds
<1>2. Fresh.pc = "new" /\ Fresh.kind = "read" /\ Fresh.reads = 0 /\ ~Fresh.foreign /\ Fresh.claim = "none"
  BY DEF Fresh
<1>3. 0 \in 0..MaxConns /\ 0 \in 0..MaxFaults /\ MaxFrames \in Nat /\ None \notin Calls
  BY GdbAssumption
<1>4. calls \in [Calls -> CallType] /\ \A c \in Calls : calls[c] = Fresh
  BY <1>1 DEF Init
<1>5. Typed
  <2>1. /\ <<>> \in Seq(Seq(ToTokens)) /\ <<>> \in Seq(Seq(FromTokens)) /\ Len(<<>>) = 0
    OBVIOUS
  <2>2. runs \in [Calls -> Nat]
    BY DEF Init
  <2>3. /\ toStub \in Seq(Seq(ToTokens)) /\ Len(toStub) = opened
        /\ fromStub \in Seq(Seq(FromTokens)) /\ Len(fromStub) = opened
    BY <2>1 DEF Init
  <2>4. /\ lock = None /\ conn = 0 /\ opened = 0 /\ dead = {} /\ attached = 0 /\ resumed = None
        /\ lastReply = NoReply /\ dirty = FALSE /\ faults = 0
    BY DEF Init
  <2>5. opened \in 0..MaxConns /\ faults \in 0..MaxFaults
    BY <1>3, <2>4
  <2>6. conn \in {0, opened} /\ dead \subseteq 1..opened /\ attached \in 0..opened
    BY <2>4
  <2>7. /\ lock \in Calls \cup {None} /\ resumed \in Calls \cup {None} /\ lastReply \in Replies \cup {NoReply}
        /\ dirty \in BOOLEAN
    BY <2>4
  <2>8. resumed # None => attached # 0
    BY <2>4
  <2> QED BY <2>2, <2>3, <2>5, <2>6, <2>7, <2>8 DEF Typed
<1>6. Safe
  <2>1. DOMAIN toStub = {}
    BY DEF Init
  <2> QED BY <2>1 DEF Init, Safe, StreamInv, PacketInv
<1>7. \A c \in Calls : CallOk(c, calls[c], lock, conn, dirty)
  <2>1. 0 < 3 + 2 * MaxFrames
    BY <1>3
  <2> QED BY <1>2, <1>3, <1>4, <2>1 DEF Init, CallOk, Busy
<1>8. \A c \in Calls : StepOk(c, calls[c], toStub, runs[c], HeadNak)
  BY <1>2, <1>4 DEF Init, StepOk
<1> QED BY <1>4, <1>5, <1>6, <1>7, <1>8, GdbParts

LEMMA CallKeeps == ASSUME GdbInv, NEW c \in Calls, Call(c) PROVE GdbInv'
BY BeginKeeps, ReadsMoreKeeps, ConnectsKeeps, RefusedKeeps, SendsKeeps, GetsAckKeeps, SendsAgainKeeps,
   BadAckKeeps, GetsReplyKeeps, GetsDamagedKeeps, TimesOutKeeps, InterruptsKeeps, ExchangeBreaksKeeps,
   BreaksKeeps, CancelledKeeps DEF Call

LEMMA NothingKeeps == ASSUME GdbInv, UNCHANGED vars PROVE GdbInv'
<1>1. /\ UNCHANGED client /\ UNCHANGED <<toStub, fromStub, dead, attached, resumed, lastReply, runs, faults>>
  BY DEF vars, client
<1>2. /\ calls' = calls /\ lock' = lock /\ conn' = conn /\ opened' = opened /\ dirty' = dirty
  BY <1>1 DEF client
<1>3. Typed' /\ StreamInv' /\ PacketInv' /\ \A c \in Calls : StepOk(c, calls[c], toStub', runs'[c], HeadNak')
  BY <1>1, <1>2, GdbParts DEF Typed, Safe, StreamInv, PacketInv, Resumed, HeadNak
<1> QED BY <1>1, <1>3, StubStep

(* Every call of one target's gdb connection, whatever the other calls,    *)
(* the stub and the network do, keeps the connection in the state its next *)
(* packet needs (transports/gdb.py), unless a call left it open as it was. *)
THEOREM GdbInvariant == Spec => []GdbInv
<1>1. Init => GdbInv
  BY GdbStarts
<1>2. GdbInv /\ [Next]_vars => GdbInv'
  <2>1. SUFFICES ASSUME GdbInv, [Next]_vars PROVE GdbInv'
    OBVIOUS
  <2>2. ASSUME NEW c \in Calls, Call(c) PROVE GdbInv'
    BY <2>1, <2>2, CallKeeps
  <2>3. ASSUME NEW k \in {conn} \ {0}, Dies(k) PROVE GdbInv'
    BY <2>1, <2>3, DiesKeeps
  <2> QED BY <2>1, <2>2, <2>3, AttachesKeeps, StopsKeeps, TakesKeeps, NothingKeeps DEF Next
<1> QED BY <1>1, <1>2, PTL DEF Spec

(* For any calls, connections and faults: _exchange and cont never hand a  *)
(* call the reply to another packet, unless it began on a connection that  *)
(* a failed or cancelled call had left open.                               *)
THEOREM AnswersAreOwn == Spec => []RepliesAreOwn
<1>1. GdbInv => RepliesAreOwn
  BY DEF GdbInv, CallInv, RepliesAreOwn
<1> QED BY <1>1, GdbInvariant, PTL

(* For any calls, connections and faults: a step whose ack was not lost    *)
(* runs once at most, and never when its error says it did not             *)
(* (may_have_run of _exchange).                                            *)
THEOREM StepsAreNotRepeated == Spec => []StepsRunOnce
<1>1. GdbInv => StepsRunOnce
  <2>1. SUFFICES ASSUME GdbInv, NEW c \in Calls, calls[c].kind = "step", ~calls[c].ackLost, ~calls[c].unclean
                 PROVE  runs[c] <= 1 /\ (calls[c].claim = "notRun" => runs[c] = 0)
    BY DEF StepsRunOnce
  <2>2. Once(c) /\ (NotOut(calls[c]) => Unsent(c))
    BY <2>1, Zenon DEF GdbInv, StepInv
  <2>3. runs[c] <= 1
    BY <2>2 DEF Once
  <2>4. calls[c].claim = "notRun" => runs[c] = 0
    BY <2>2, Zenon DEF NotOut, Unsent
  <2> QED BY <2>3, <2>4
<1> QED BY <1>1, GdbInvariant, PTL

=============================================================================
