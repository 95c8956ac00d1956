-------------------------- MODULE ConnectionProofs --------------------------
(***************************************************************************)
(* The two promises of TcpDial and handleConn, proved for any number of    *)
(* goroutines, addresses and messages of any length: what a reader cuts    *)
(* out of the stream, and what a failed dial leaves behind.                *)
(***************************************************************************)
EXTENDS Connection, SequenceTheorems, TLAPS

\* connMaplock belongs to the goroutine that is past it.
LockHeld == \A g \in Goroutines : pc[g] = "locked" => connMaplock = g

\* rest[i] is what the stream holds once the reader has taken the first i of
\* the messages written; the reader is before or after the prefix of the next.
InStep(a, rest) ==
    LET n == Len(written[a])
        k == Len(received[a])
    IN  /\ rest \in [0..n -> Seq(Byte)] /\ rest[n] = <<>>
        /\ \A i \in (k + 1)..n : rest[i - 1] = Frame(written[a][i]) \o rest[i]
        /\ k <= n /\ \A i \in 1..k : received[a][i] = written[a][i]
        /\ \/ reader[a] = Prefix /\ stream[a] = rest[k]
           \/ /\ k < n /\ reader[a] = Len(written[a][k + 1])
              /\ stream[a] = written[a][k + 1] \o rest[k + 1]

Framed == \A a \in Addrs \ short : \E rest : InStep(a, rest)

IInv == TypeOK /\ LockHeld /\ Framed
-----------------------------------------------------------------------------
LEMMA Dropped ==
    ASSUME NEW S, NEW s \in Seq(S), NEW n \in 0..Len(s)
    PROVE  /\ SubSeq(s, n + 1, Len(s)) \in Seq(S)
           /\ Len(SubSeq(s, n + 1, Len(s))) = Len(s) - n
<1>1. \A i \in (n + 1)..Len(s) : s[i] \in S
  OBVIOUS
<1> QED BY <1>1, SubSeqProperties

LEMMA Cut ==
    ASSUME NEW S, NEW s \in Seq(S), NEW t \in Seq(S)
    PROVE  /\ SubSeq(s \o t, 1, Len(s)) = s
           /\ SubSeq(s \o t, Len(s) + 1, Len(s \o t)) = t
<1> DEFINE c == s \o t
<1>1. /\ c \in Seq(S) /\ Len(c) = Len(s) + Len(t) /\ Len(s) \in Nat /\ Len(t) \in Nat
      /\ \A i \in 1..(Len(s) + Len(t)) : c[i] = IF i <= Len(s) THEN s[i] ELSE t[i - Len(s)]
  BY ConcatProperties
<1> HIDE DEF c
<1>2. SubSeq(c, 1, Len(s)) = s
  <2>1. \A i \in 1..Len(s) : c[i] \in S
    BY <1>1
  <2>2. /\ SubSeq(c, 1, Len(s)) \in Seq(S) /\ Len(SubSeq(c, 1, Len(s))) = Len(s)
        /\ \A i \in 1..Len(s) : SubSeq(c, 1, Len(s))[i] = c[i]
    BY <1>1, <2>1, SubSeqProperties
  <2> QED BY <1>1, <2>2, SeqEqual
<1>3. SubSeq(c, Len(s) + 1, Len(c)) = t
  <2>1. \A i \in (Len(s) + 1)..Len(c) : c[i] \in S
    BY <1>1
  <2> DEFINE u == SubSeq(c, Len(s) + 1, Len(c))
  <2>2. u \in Seq(S) /\ Len(u) = Len(t)
    BY <1>1, Dropped
  <2>3. \A i \in 1..Len(t) : u[i] = c[Len(s) + i]
    <3>1. Len(s) + 1 \in Int /\ Len(c) \in Int
      BY <1>1
    <3>2. \A i \in 1..(Len(c) - (Len(s) + 1) + 1) : u[i] = c[(Len(s) + 1) + i - 1]
      BY <2>1, <3>1, SubSeqProperties
    <3> HIDE DEF u
    <3> TAKE i \in 1..Len(t)
    <3>3. i \in Int /\ i \in 1..(Len(c) - (Len(s) + 1) + 1)
      BY <1>1
    <3>4. u[i] = c[(Len(s) + 1) + i - 1]
      BY <3>2, <3>3
    <3>5. (Len(s) + 1) + i - 1 = Len(s) + i
      BY <1>1, <3>3
    <3> QED BY <3>4, <3>5, Zenon
  <2> HIDE DEF u
  <2>4. \A i \in 1..Len(t) : u[i] = t[i]
    <3> TAKE i \in 1..Len(t)
    <3>1. u[i] = c[Len(s) + i]
      BY <2>3
    <3>2. /\ Len(s) + i \in 1..(Len(s) + Len(t)) /\ ~(Len(s) + i <= Len(s))
          /\ (Len(s) + i) - Len(s) = i
      BY <1>1
    <3>3. c[Len(s) + i] = t[i]
      BY <1>1, <3>2
    <3> QED BY <3>1, <3>3
  <2>5. u = t
    BY <2>2, <2>4, SeqEqual
  <2> QED BY <2>5 DEF u
<1> QED BY <1>2, <1>3 DEF c

LEMMA ConcatHead ==
    ASSUME NEW S, NEW s \in Seq(S), NEW t \in Seq(S), NEW i \in 1..Len(s)
    PROVE  (s \o t)[i] = s[i]
  BY ConcatProperties

LEMMA ConcatBytes ==
    \A s, t, u \in Seq(Byte) : (s \o t) \o u = s \o (t \o u)
  BY ConcatAssociative

\* The length a frame announces is decoded to the length of its message.
LEMMA PrefixRoundTrip ==
    ASSUME NEW n \in Nat, n \div 2^24 \in Byte
    PROVE  /\ PutUint32(n) \in Seq(Byte) /\ Len(PutUint32(n)) = PrefixLength
           /\ Uint32(PutUint32(n)) = n
<1>1. /\ PutUint32(n)[1] = n \div 2^24 /\ PutUint32(n)[2] = (n \div 2^16) % 256
      /\ PutUint32(n)[3] = (n \div 2^8) % 256 /\ PutUint32(n)[4] = n % 256
  BY DEF PutUint32, Byte
<1>2. Uint32(PutUint32(n)) = n
  BY <1>1 DEF Uint32, Byte
<1>3. (n \div 2^24) % 256 \in Byte /\ (n \div 2^16) % 256 \in Byte
      /\ (n \div 2^8) % 256 \in Byte /\ n % 256 \in Byte
  BY DEF Byte
<1>4. PutUint32(n) \in Seq(Byte) /\ Len(PutUint32(n)) = PrefixLength
  BY <1>3 DEF PutUint32, PrefixLength
<1> QED BY <1>2, <1>4

LEMMA MessageTyped ==
    ASSUME NEW msg \in Messages
    PROVE  msg \in Seq(Byte) /\ Len(msg) \in Nat /\ Len(msg) \div 2^24 \in Byte
<1>1. PICK g \in Goroutines : msg = Context[g]
  BY DEF Messages
<1> QED BY <1>1, ConnectionConstants

LEMMA FrameTyped ==
    ASSUME NEW msg \in Messages
    PROVE  /\ Frame(msg) \in Seq(Byte)
           /\ Frame(msg) = PutUint32(Len(msg)) \o msg /\ Len(Frame(msg)) = PrefixLength + Len(msg)
<1>1. /\ msg \in Seq(Byte) /\ Len(msg) \in Nat /\ PutUint32(Len(msg)) \in Seq(Byte)
      /\ Len(PutUint32(Len(msg))) = PrefixLength
  BY MessageTyped, PrefixRoundTrip
<1> QED BY <1>1, ConcatProperties DEF Frame
-----------------------------------------------------------------------------
LEMMA InvInit == Init => IInv
<1> SUFFICES ASSUME Init PROVE IInv
  OBVIOUS
<1>1. TypeOK
  <2>1. <<>> \in Seq(Messages) /\ <<>> \in Seq(Seq(Byte)) /\ <<>> \in Seq(Byte) /\ Len(<<>>) = 0
    OBVIOUS
  <2> QED BY <2>1, ConnectionConstants DEF Init, TypeOK
<1>2. LockHeld
  BY DEF Init, LockHeld
<1>3. Framed
  <2>1. SUFFICES ASSUME NEW a \in Addrs PROVE InStep(a, [i \in {0} |-> <<>>])
    BY DEF Framed
  <2>2. 0..0 = {0} /\ Len(<<>>) = 0 /\ <<>> \in Seq(Byte)
    OBVIOUS
  <2> QED BY <2>2 DEF Init, InStep
<1> QED BY <1>1, <1>2, <1>3 DEF IInv

\* A step that leaves streams, readers and messages alone.
LEMMA FramedStays ==
    ASSUME Framed, UNCHANGED <<written, stream, reader, received, short>>
    PROVE  Framed'
<1>1. \A a, rest : InStep(a, rest) => InStep(a, rest)'
  BY DEF InStep
<1> QED BY <1>1 DEF Framed

LEMMA LockStep ==
    ASSUME IInv, NEW g \in Goroutines, Lock(g)
    PROVE  IInv'
<1>1. TypeOK'
  BY DEF IInv, TypeOK, Lock, receiving
<1>2. LockHeld'
  BY ConnectionConstants DEF IInv, TypeOK, LockHeld, Lock
<1>3. Framed'
  BY FramedStays DEF IInv, Lock, receiving
<1> QED BY <1>1, <1>2, <1>3 DEF IInv

LEMMA ConnectStep ==
    ASSUME IInv, NEW g \in Goroutines, Connect(g)
    PROVE  IInv'
<1>1. TypeOK'
  BY ConnectionConstants DEF IInv, TypeOK, Connect, receiving
<1>2. LockHeld'
  BY ConnectionConstants DEF IInv, TypeOK, LockHeld, Connect
<1>3. Framed'
  BY FramedStays DEF IInv, Connect, receiving
<1> QED BY <1>1, <1>2, <1>3 DEF IInv

LEMMA DialFailsStep ==
    ASSUME IInv, NEW g \in Goroutines, DialFails(g)
    PROVE  IInv'
<1>1. TypeOK'
  BY DEF IInv, TypeOK, DialFails, receiving
<1>2. LockHeld'
  BY DEF IInv, TypeOK, LockHeld, DialFails
<1>3. Framed'
  BY FramedStays DEF IInv, DialFails, receiving
<1> QED BY <1>1, <1>2, <1>3 DEF IInv

LEMMA ListenStep ==
    ASSUME IInv, NEW a \in Addrs, Listen(a)
    PROVE  IInv'
<1>1. TypeOK'
  BY DEF IInv, TypeOK, Listen
<1>2. LockHeld'
  BY DEF IInv, LockHeld, Listen
<1>3. Framed'
  BY FramedStays DEF IInv, Listen
<1> QED BY <1>1, <1>2, <1>3 DEF IInv

LEMMA ArriveStep ==
    ASSUME IInv, NEW a \in Addrs, Arrive(a)
    PROVE  IInv'
<1>1. TypeOK'
  <2>1. PICK n \in (arrived[a] + 1)..Len(stream[a]) : arrived' = [arrived EXCEPT ![a] = n]
    BY DEF Arrive
  <2>2. n \in Nat /\ n <= Len(stream[a])
    BY <2>1 DEF IInv, TypeOK
  <2>3. arrived' \in [Addrs -> Nat] /\ \A b \in Addrs : arrived'[b] <= Len(stream[b])
    BY <2>1, <2>2 DEF IInv, TypeOK
  <2> QED BY <2>3 DEF IInv, TypeOK, Arrive, receiving
<1>2. LockHeld'
  BY DEF IInv, LockHeld, Arrive
<1>3. Framed'
  BY FramedStays DEF IInv, Arrive, receiving
<1> QED BY <1>1, <1>2, <1>3 DEF IInv

\* The frame of a message goes behind all that the stream still holds.
LEMMA WriteStep ==
    ASSUME IInv, NEW g \in Goroutines, Write(g)
    PROVE  IInv'
<1> DEFINE t == To[g]
           w == Context[g]
<1>g. t \in Addrs /\ w \in Messages
  BY ConnectionConstants DEF Messages
<1>f. Frame(w) \in Seq(Byte) /\ Len(Frame(w)) \in Nat
  BY <1>g, FrameTyped
<1>w. /\ written' = [written EXCEPT ![t] = Append(@, w)]
      /\ stream' = [stream EXCEPT ![t] = @ \o Frame(w)]
      /\ UNCHANGED <<arrived, reader, received, short>>
  BY DEF Write, receiving
<1> HIDE DEF t, w
<1>s. /\ stream[t] \in Seq(Byte) /\ stream[t] \o Frame(w) \in Seq(Byte)
      /\ Len(stream[t] \o Frame(w)) = Len(stream[t]) + Len(Frame(w))
  BY <1>g, <1>f, ConcatProperties DEF IInv, TypeOK
<1>n. /\ written[t] \in Seq(Messages) /\ Append(written[t], w) \in Seq(Messages)
      /\ written'[t] = Append(written[t], w) /\ stream'[t] = stream[t] \o Frame(w)
  BY <1>g, <1>w DEF IInv, TypeOK
<1>1. TypeOK'
  <2>1. written' \in [Addrs -> Seq(Messages)]
    BY <1>w, <1>n DEF IInv, TypeOK
  <2>2. stream' \in [Addrs -> Seq(Byte)]
    BY <1>w, <1>s DEF IInv, TypeOK
  <2>3. \A a \in Addrs : arrived[a] <= Len(stream'[a])
    <3>1. SUFFICES ASSUME NEW a \in Addrs PROVE arrived[a] <= Len(stream'[a])
      OBVIOUS
    <3>2. CASE a # t
      BY <1>w, <3>2 DEF IInv, TypeOK
    <3>3. CASE a = t
      <4>1. arrived[t] \in Nat /\ arrived[t] <= Len(stream[t]) /\ Len(stream[t]) \in Nat
        BY <1>g, <1>s DEF IInv, TypeOK
      <4> QED BY <1>n, <1>s, <1>f, <3>3, <4>1
    <3> QED BY <3>2, <3>3
  <2>4. pc' \in [Goroutines -> {"lock", "locked", "write", "returned"}]
    BY DEF Write, IInv, TypeOK
  <2> QED BY <2>1, <2>2, <2>3, <2>4 DEF IInv, TypeOK, Write, receiving
<1>2. LockHeld'
  BY DEF IInv, TypeOK, LockHeld, Write
<1>3. Framed'
  <2>1. SUFFICES ASSUME NEW a \in Addrs \ short PROVE \E rest : InStep(a, rest)'
    BY <1>w DEF Framed
  <2>2. PICK rest : InStep(a, rest)
    BY DEF IInv, Framed
  <2>3. CASE a # t
    <3>1. written'[a] = written[a] /\ stream'[a] = stream[a]
      BY <1>w, <2>3 DEF IInv, TypeOK
    <3> QED BY <1>w, <2>2, <3>1 DEF InStep
  <2>4. CASE a = t
    <3> DEFINE n == Len(written[t])
               k == Len(received[t])
               more == [i \in 0..(n + 1) |-> IF i = n + 1 THEN <<>> ELSE rest[i] \o Frame(w)]
    <3>1. n \in Nat /\ k \in Nat /\ Len(written'[t]) = n + 1 /\ written'[t][n + 1] = w
      BY <1>g, <1>n DEF IInv, TypeOK
    <3>m. \A i \in 1..n : written'[t][i] = written[t][i] /\ written[t][i] \in Messages
      BY <1>g, <1>n DEF IInv, TypeOK
    <3>2. rest \in [0..n -> Seq(Byte)] /\ rest[n] = <<>> /\ k <= n
      BY <2>2, <2>4 DEF InStep
    <3>r. \A i \in (k + 1)..n : rest[i - 1] = Frame(written[t][i]) \o rest[i]
      BY <2>2, <2>4 DEF InStep
    <3>c. \A i \in 1..k : received[t][i] = written[t][i]
      BY <2>2, <2>4 DEF InStep
    <3>d. \/ reader[t] = Prefix /\ stream[t] = rest[k]
          \/ /\ k < n /\ reader[t] = Len(written[t][k + 1])
             /\ stream[t] = written[t][k + 1] \o rest[k + 1]
      BY <2>2, <2>4 DEF InStep
    <3> HIDE DEF n, k
    <3>3. \A i \in 0..n : rest[i] \in Seq(Byte) /\ rest[i] \o Frame(w) \in Seq(Byte)
      BY <1>f, <3>2, ConcatProperties
    <3>4. /\ more \in [0..(n + 1) -> Seq(Byte)] /\ more[n + 1] = <<>>
          /\ \A i \in 0..n : more[i] = rest[i] \o Frame(w)
      BY <3>1, <3>3
    <3> HIDE DEF more
    <3>5. \A i \in (k + 1)..(n + 1) : more[i - 1] = Frame(written'[t][i]) \o more[i]
      <4>1. SUFFICES ASSUME NEW i \in (k + 1)..(n + 1)
                     PROVE  more[i - 1] = Frame(written'[t][i]) \o more[i]
        OBVIOUS
      <4>2. CASE i = n + 1
        <5>1. n \in 0..n /\ i - 1 = n
          BY <3>1, <4>2
        <5>2. more[n] = <<>> \o Frame(w)
          BY <3>2, <3>4, <5>1
        <5>3. <<>> \o Frame(w) = Frame(w) /\ Frame(w) \o <<>> = Frame(w)
          BY <1>f, ConcatEmptySeq
        <5>4. more[i - 1] = Frame(w) /\ more[i] = <<>> /\ written'[t][i] = w
          BY <3>1, <3>4, <4>2, <5>1, <5>2, <5>3
        <5> QED BY <5>3, <5>4
      <4>3. CASE i \in (k + 1)..n
        <5>1. i \in 1..n /\ i \in 0..n /\ i - 1 \in 0..n
          BY <3>1, <4>3
        <5>2. Frame(written[t][i]) \in Seq(Byte) /\ written'[t][i] = written[t][i]
          BY <3>m, <5>1, FrameTyped
        <5>3. rest[i] \in Seq(Byte) /\ rest[i - 1] = Frame(written[t][i]) \o rest[i]
          BY <3>r, <3>3, <4>3, <5>1
        <5>4. more[i - 1] = rest[i - 1] \o Frame(w) /\ more[i] = rest[i] \o Frame(w)
          BY <3>4, <5>1
        <5>5. (Frame(written[t][i]) \o rest[i]) \o Frame(w)
                = Frame(written[t][i]) \o (rest[i] \o Frame(w))
          BY <1>f, <5>2, <5>3, ConcatBytes, Zenon
        <5> QED BY <5>2, <5>3, <5>4, <5>5
      <4>4. i = n + 1 \/ i \in (k + 1)..n
        BY <3>1
      <4> QED BY <4>2, <4>3, <4>4
    <3>6. \A i \in 1..k : received'[t][i] = written'[t][i]
      BY <1>w, <3>1, <3>2, <3>m, <3>c
    <3>7. \/ reader'[t] = Prefix /\ stream'[t] = more[k]
          \/ /\ k < n + 1 /\ reader'[t] = Len(written'[t][k + 1])
             /\ stream'[t] = written'[t][k + 1] \o more[k + 1]
      <4>1. CASE reader[t] = Prefix /\ stream[t] = rest[k]
        <5>1. k \in 0..n
          BY <3>1, <3>2
        <5>2. more[k] = rest[k] \o Frame(w)
          BY <3>4, <5>1
        <5> QED BY <1>w, <1>n, <4>1, <5>2
      <4>2. CASE /\ k < n /\ reader[t] = Len(written[t][k + 1])
                 /\ stream[t] = written[t][k + 1] \o rest[k + 1]
        <5>1. k + 1 \in 1..n /\ k + 1 \in 0..n /\ k < n + 1
          BY <3>1, <4>2
        <5>2. written[t][k + 1] \in Seq(Byte) /\ written'[t][k + 1] = written[t][k + 1]
          BY <3>m, <5>1, MessageTyped
        <5>3. rest[k + 1] \in Seq(Byte) /\ more[k + 1] = rest[k + 1] \o Frame(w)
          BY <3>3, <3>4, <5>1
        <5>4. (written[t][k + 1] \o rest[k + 1]) \o Frame(w)
                = written[t][k + 1] \o (rest[k + 1] \o Frame(w))
          BY <1>f, <5>2, <5>3, ConcatBytes, Zenon
        <5> QED BY <1>w, <1>n, <4>2, <5>1, <5>2, <5>3, <5>4
      <4> QED BY <3>d, <4>1, <4>2
    <3>8. Len(written'[t]) = n + 1 /\ Len(received'[t]) = k /\ k <= n + 1
      BY <1>w, <3>1, <3>2 DEF k
    <3>9. PICK f : /\ f \in [0..(n + 1) -> Seq(Byte)] /\ f[n + 1] = <<>>
                   /\ \A i \in (k + 1)..(n + 1) : f[i - 1] = Frame(written'[t][i]) \o f[i]
                   /\ \/ reader'[t] = Prefix /\ stream'[t] = f[k]
                      \/ /\ k < n + 1 /\ reader'[t] = Len(written'[t][k + 1])
                         /\ stream'[t] = written'[t][k + 1] \o f[k + 1]
      BY <3>4, <3>5, <3>7, Zenon
    <3>10. InStep(t, f)'
      BY <3>6, <3>8, <3>9, Zenon DEF InStep, t
    <3> QED BY <2>4, <3>10 DEF t
  <2> QED BY <2>3, <2>4
<1> QED BY <1>1, <1>2, <1>3 DEF IInv

\* A prefix that is read whole is that of the next message written.
LEMMA ReadPrefixStep ==
    ASSUME IInv, NEW a \in Addrs, ReadPrefix(a)
    PROVE  IInv'
<1> DEFINE n == IF arrived[a] < PrefixLength THEN arrived[a] ELSE PrefixLength
           lengthPrefix == [i \in 1..PrefixLength |-> IF i <= n THEN stream[a][i] ELSE 0]
<1>r. /\ reader[a] = Prefix
      /\ reader' = [reader EXCEPT ![a] = Uint32(lengthPrefix)]
      /\ stream' = [stream EXCEPT ![a] = SubSeq(@, n + 1, Len(@))]
      /\ arrived' = [arrived EXCEPT ![a] = @ - n]
      /\ short' = IF n < PrefixLength THEN short \cup {a} ELSE short
      /\ UNCHANGED <<pc, connMaplock, connMap, listening, written, received>>
  BY DEF ReadPrefix
<1>t. /\ arrived[a] \in Nat /\ stream[a] \in Seq(Byte) /\ Len(stream[a]) \in Nat
      /\ arrived[a] <= Len(stream[a])
  BY DEF IInv, TypeOK
<1>n. /\ n \in Nat /\ n <= PrefixLength /\ n <= arrived[a] /\ n \in 0..Len(stream[a])
      /\ \A i \in 1..n : stream[a][i] \in Byte
  BY <1>t DEF PrefixLength
<1>p. \A i \in 1..4 : lengthPrefix[i] = IF i <= n THEN stream[a][i] ELSE 0
  BY DEF PrefixLength
<1>b. \A i \in 1..4 : lengthPrefix[i] \in 0..255
  <2> HIDE DEF n, lengthPrefix
  <2>1. SUFFICES ASSUME NEW i \in 1..4 PROVE lengthPrefix[i] \in 0..255
    OBVIOUS
  <2>2. CASE i <= n
    <3>1. i \in 1..n
      BY <1>n, <2>2
    <3> QED BY <1>n, <1>p, <2>2, <3>1 DEF Byte
  <2>3. CASE ~(i <= n)
    BY <1>p, <2>3
  <2> QED BY <2>2, <2>3
<1> HIDE DEF n, lengthPrefix
<1>u. Uint32(lengthPrefix) \in Nat
  <2>1. /\ lengthPrefix[1] \in Nat /\ lengthPrefix[2] \in Nat
        /\ lengthPrefix[3] \in Nat /\ lengthPrefix[4] \in Nat
    BY <1>b
  <2> QED BY <2>1 DEF Uint32
<1>d. /\ SubSeq(stream[a], n + 1, Len(stream[a])) \in Seq(Byte)
      /\ Len(SubSeq(stream[a], n + 1, Len(stream[a]))) = Len(stream[a]) - n
  BY <1>t, <1>n, Dropped
<1>a. /\ stream'[a] = SubSeq(stream[a], n + 1, Len(stream[a]))
      /\ arrived'[a] = arrived[a] - n /\ reader'[a] = Uint32(lengthPrefix)
      /\ \A b \in Addrs \ {a} : /\ stream'[b] = stream[b] /\ arrived'[b] = arrived[b]
                               /\ reader'[b] = reader[b]
  BY <1>r DEF IInv, TypeOK
<1>1. TypeOK'
  <2>1. stream' \in [Addrs -> Seq(Byte)]
    BY <1>r, <1>d DEF IInv, TypeOK
  <2>2. reader' \in [Addrs -> Nat \cup {Prefix}]
    BY <1>r, <1>u DEF IInv, TypeOK
  <2>3. arrived[a] - n \in Nat /\ arrived[a] - n <= Len(stream[a]) - n
    BY <1>t, <1>n
  <2>4. arrived' \in [Addrs -> Nat]
    BY <1>r, <2>3 DEF IInv, TypeOK
  <2>5. \A b \in Addrs : arrived'[b] <= Len(stream'[b])
    BY <1>a, <1>d, <2>3 DEF IInv, TypeOK
  <2>6. short' \subseteq Addrs
    BY <1>r DEF IInv, TypeOK
  <2> QED BY <1>r, <2>1, <2>2, <2>4, <2>5, <2>6 DEF IInv, TypeOK
<1>2. LockHeld'
  BY <1>r DEF IInv, LockHeld
<1>3. Framed'
  <2>1. SUFFICES ASSUME NEW b \in Addrs \ short' PROVE \E rest : InStep(b, rest)'
    BY DEF Framed
  <2>2. PICK rest : InStep(b, rest)
    BY <1>r DEF IInv, Framed
  <2>3. CASE b # a
    <3>1. stream'[b] = stream[b] /\ reader'[b] = reader[b]
      BY <1>a, <2>3
    <3> QED BY <1>r, <2>2, <3>1 DEF InStep
  <2>4. CASE b = a
    <3>1. n = 4 /\ Len(stream[a]) >= 4
      BY <1>r, <1>n, <1>t, <2>4 DEF PrefixLength
    <3> DEFINE k == Len(received[a])
               w == written[a][k + 1]
               P == PutUint32(Len(w))
    <3>2. /\ k \in Nat /\ Len(written[a]) \in Nat /\ k <= Len(written[a])
          /\ rest \in [0..Len(written[a]) -> Seq(Byte)] /\ rest[Len(written[a])] = <<>>
      BY <2>2, <2>4 DEF InStep, IInv, TypeOK
    <3>3. \A i \in 1..Len(written[a]) : written[a][i] \in Messages
      BY DEF IInv, TypeOK
    <3>4. stream[a] = rest[k]
      <4>1. CASE k < Len(written[a]) /\ reader[a] = Len(w)
        <5>1. Len(w) \in Nat
          BY <3>2, <3>3, <4>1, MessageTyped
        <5> QED BY <1>r, <4>1, <5>1 DEF Prefix
      <4> QED BY <2>2, <2>4, <4>1 DEF InStep
    <3>5. k < Len(written[a])
      <4>1. CASE k = Len(written[a])
        <5>1. stream[a] = <<>> /\ Len(<<>>) = 0
          BY <3>2, <3>4, <4>1
        <5> QED BY <3>1, <5>1
      <4> QED BY <3>2, <4>1
    <3>6. w \in Messages /\ w \in Seq(Byte) /\ rest[k + 1] \in Seq(Byte)
      BY <3>2, <3>3, <3>5, MessageTyped
    <3>7. stream[a] = Frame(w) \o rest[k + 1]
      <4>1. k + 1 \in (k + 1)..Len(written[a]) /\ (k + 1) - 1 = k
        BY <3>2, <3>5
      <4>2. rest[(k + 1) - 1] = Frame(written[a][k + 1]) \o rest[k + 1]
        BY <2>2, <2>4, <4>1 DEF InStep
      <4> QED BY <3>4, <4>1, <4>2
    <3>8. P \in Seq(Byte) /\ Len(P) = 4 /\ Uint32(P) = Len(w) /\ Frame(w) = P \o w
      BY <3>6, MessageTyped, PrefixRoundTrip DEF Frame, PrefixLength
    <3> DEFINE body == w \o rest[k + 1]
    <3>9. body \in Seq(Byte)
      BY <3>6, ConcatProperties
    <3>10. stream[a] = P \o body
      <4> HIDE DEF w, P, k
      <4>1. (P \o w) \o rest[k + 1] = P \o (w \o rest[k + 1])
        BY <3>6, <3>8, ConcatBytes, Zenon
      <4> QED BY <3>7, <3>8, <4>1, Zenon
    <3> HIDE DEF P, body
    <3>11. stream'[a] = body
      <4>1. SubSeq(P \o body, Len(P) + 1, Len(P \o body)) = body
        BY <3>8, <3>9, Cut
      <4> QED BY <1>a, <3>1, <3>8, <3>10, <4>1
    <3>12. reader'[a] = Len(w)
      <4>1. \A i \in 1..4 : (P \o body)[i] = P[i]
        <5>1. \A i \in 1..Len(P) : (P \o body)[i] = P[i]
          BY <3>8, <3>9, ConcatHead
        <5>2. 1..Len(P) = 1..4
          BY <3>8
        <5> QED BY <5>1, <5>2, Zenon
      <4>2. \A i \in 1..4 : i <= n /\ stream[a][i] = P[i]
        BY <3>1, <3>10, <4>1
      <4>3. \A i \in 1..4 : lengthPrefix[i] = P[i]
        BY <1>p, <4>2
      <4>4. Uint32(lengthPrefix) = Uint32(P)
        BY <4>3 DEF Uint32
      <4> QED BY <1>a, <3>8, <4>4
    <3>13. InStep(a, rest)'
      BY <1>r, <2>2, <2>4, <3>5, <3>11, <3>12 DEF InStep, body
    <3> QED BY <2>4, <3>13
  <2> QED BY <2>3, <2>4
<1> QED BY <1>1, <1>2, <1>3 DEF IInv

\* A body that is read whole is the message itself.
LEMMA ReadMessageStep ==
    ASSUME IInv, NEW a \in Addrs, ReadMessage(a)
    PROVE  IInv'
<1> DEFINE n == reader[a]
           cut == SubSeq(stream[a], 1, n)
           left == SubSeq(stream[a], n + 1, Len(stream[a]))
<1>r. /\ n # Prefix /\ arrived[a] >= n
      /\ received' = [received EXCEPT ![a] = Append(@, cut)]
      /\ stream' = [stream EXCEPT ![a] = left]
      /\ arrived' = [arrived EXCEPT ![a] = @ - n]
      /\ reader' = [reader EXCEPT ![a] = Prefix]
      /\ UNCHANGED <<pc, connMaplock, connMap, listening, written, short>>
  BY DEF ReadMessage
<1>t. /\ n \in Nat /\ arrived[a] \in Nat /\ stream[a] \in Seq(Byte) /\ Len(stream[a]) \in Nat
      /\ arrived[a] <= Len(stream[a]) /\ received[a] \in Seq(Seq(Byte))
  BY <1>r DEF IInv, TypeOK
<1>c. cut \in Seq(Byte)
  <2>1. \A i \in 1..n : stream[a][i] \in Byte
    BY <1>r, <1>t
  <2> QED BY <1>t, <2>1, SubSeqProperties
<1>d. left \in Seq(Byte) /\ Len(left) = Len(stream[a]) - n
  <2>1. n \in 0..Len(stream[a])
    BY <1>r, <1>t
  <2> HIDE DEF n
  <2> QED BY <1>t, <2>1, Dropped
<1> HIDE DEF n, cut, left
<1>a. /\ stream'[a] = left /\ received'[a] = Append(received[a], cut)
      /\ arrived'[a] = arrived[a] - n /\ reader'[a] = Prefix
      /\ \A b \in Addrs \ {a} : /\ stream'[b] = stream[b] /\ arrived'[b] = arrived[b]
                               /\ reader'[b] = reader[b] /\ received'[b] = received[b]
  BY <1>r DEF IInv, TypeOK
<1>1. TypeOK'
  <2>1. stream' \in [Addrs -> Seq(Byte)]
    BY <1>r, <1>d DEF IInv, TypeOK
  <2>2. reader' \in [Addrs -> Nat \cup {Prefix}]
    BY <1>r DEF IInv, TypeOK
  <2>3. arrived[a] - n \in Nat /\ arrived[a] - n <= Len(stream[a]) - n
    BY <1>t, <1>r
  <2>4. arrived' \in [Addrs -> Nat]
    BY <1>r, <2>3 DEF IInv, TypeOK
  <2>5. \A b \in Addrs : arrived'[b] <= Len(stream'[b])
    BY <1>a, <1>d, <2>3 DEF IInv, TypeOK
  <2>6. received' \in [Addrs -> Seq(Seq(Byte))]
    <3>1. Append(received[a], cut) \in Seq(Seq(Byte))
      BY <1>t, <1>c
    <3> QED BY <1>r, <3>1 DEF IInv, TypeOK
  <2> QED BY <1>r, <2>1, <2>2, <2>4, <2>5, <2>6 DEF IInv, TypeOK
<1>2. LockHeld'
  BY <1>r DEF IInv, LockHeld
<1>3. Framed'
  <2>1. SUFFICES ASSUME NEW b \in Addrs \ short PROVE \E rest : InStep(b, rest)'
    BY <1>r DEF Framed
  <2>2. PICK rest : InStep(b, rest)
    BY DEF IInv, Framed
  <2>3. CASE b # a
    <3>1. stream'[b] = stream[b] /\ reader'[b] = reader[b] /\ received'[b] = received[b]
      BY <1>a, <2>3
    <3> QED BY <1>r, <2>2, <3>1 DEF InStep
  <2>4. CASE b = a
    <3> DEFINE k == Len(received[a])
               w == written[a][k + 1]
    <3>1. /\ k \in Nat /\ Len(written[a]) \in Nat /\ k < Len(written[a])
          /\ n = Len(w) /\ stream[a] = w \o rest[k + 1]
      <4>1. k \in Nat /\ Len(written[a]) \in Nat
        BY DEF IInv, TypeOK
      <4>2. \/ reader[a] = Prefix
            \/ /\ k < Len(written[a]) /\ reader[a] = Len(w)
               /\ stream[a] = w \o rest[k + 1]
        BY <2>2, <2>4, Zenon DEF InStep
      <4> QED BY <1>r, <4>1, <4>2 DEF n
    <3>2. w \in Seq(Byte)
      <4>1. w \in Messages
        BY <3>1 DEF IInv, TypeOK
      <4> QED BY <4>1, MessageTyped
    <3>3. rest \in [0..Len(written[a]) -> Seq(Byte)] /\ rest[k + 1] \in Seq(Byte)
      <4>1. rest \in [0..Len(written[a]) -> Seq(Byte)]
        BY <2>2, <2>4 DEF InStep
      <4> QED BY <3>1, <4>1
    <3>4. cut = w /\ left = rest[k + 1]
      <4> HIDE DEF w, k
      <4>1. /\ SubSeq(w \o rest[k + 1], 1, Len(w)) = w
            /\ SubSeq(w \o rest[k + 1], Len(w) + 1, Len(w \o rest[k + 1])) = rest[k + 1]
        BY <3>2, <3>3, Cut
      <4> QED BY <3>1, <4>1, Zenon DEF cut, left
    <3>5. /\ Len(received'[a]) = k + 1 /\ received'[a][k + 1] = w
          /\ \A i \in 1..k : received'[a][i] = received[a][i]
      BY <1>a, <1>t, <1>c, <3>4, AppendProperties
    <3>6. /\ \A i \in 1..(k + 1) : received'[a][i] = written[a][i]
          /\ rest[Len(written[a])] = <<>> /\ k + 1 <= Len(written[a])
      <4>1. \A i \in 1..k : received[a][i] = written[a][i]
        BY <2>2, <2>4 DEF InStep
      <4>2. \A i \in 1..(k + 1) : i \in 1..k \/ i = k + 1
        BY <3>1
      <4>3. rest[Len(written[a])] = <<>>
        BY <2>2, <2>4 DEF InStep
      <4>4. \A i \in 1..(k + 1) : received'[a][i] = written[a][i]
        BY <3>5, <4>1, <4>2
      <4>5. k + 1 <= Len(written[a])
        BY <3>1
      <4> QED BY <4>3, <4>4, <4>5
    <3>7. \A i \in ((k + 1) + 1)..Len(written[a]) :
             rest[i - 1] = Frame(written[a][i]) \o rest[i]
      <4>1. \A i \in (k + 1)..Len(written[a]) :
               rest[i - 1] = Frame(written[a][i]) \o rest[i]
        BY <2>2, <2>4 DEF InStep
      <4>2. \A i \in ((k + 1) + 1)..Len(written[a]) : i \in (k + 1)..Len(written[a])
        BY <3>1
      <4> QED BY <4>1, <4>2, Zenon
    <3> HIDE DEF k
    <3>8. InStep(a, rest)'
      BY <1>r, <1>a, <3>3, <3>4, <3>5, <3>6, <3>7, Zenon DEF InStep
    <3> QED BY <2>4, <3>8
  <2> QED BY <2>3, <2>4
<1> QED BY <1>1, <1>2, <1>3 DEF IInv
-----------------------------------------------------------------------------
LEMMA InvStep == IInv /\ [Next]_vars => IInv'
<1> SUFFICES ASSUME IInv, [Next]_vars PROVE IInv'
  OBVIOUS
<1>1. ASSUME NEW g \in Goroutines, TcpDial(g) PROVE IInv'
  BY <1>1, LockStep, ConnectStep, DialFailsStep, WriteStep DEF TcpDial
<1>2. ASSUME NEW a \in Addrs, Listen(a) \/ Arrive(a) \/ handleConn(a) PROVE IInv'
  BY <1>2, ListenStep, ArriveStep, ReadPrefixStep, ReadMessageStep DEF handleConn
<1>3. CASE UNCHANGED vars
  <2>1. Framed'
    BY <1>3, FramedStays DEF IInv, vars
  <2> QED BY <1>3, <2>1 DEF IInv, TypeOK, LockHeld, vars
<1> QED BY <1>1, <1>2, <1>3 DEF Next, Done

\* The inductive invariant: connMaplock is held by the call that is past it,
\* and each stream, unless its reader once got only a part of a length prefix,
\* holds the frames of the messages written and not yet received, the first one
\* perhaps without its prefix.
THEOREM ConnectionInvariant == Spec => []IInv
  BY InvInit, InvStep, PTL DEF Spec

LEMMA InvIntact == IInv => MessagesIntact
<1> SUFFICES ASSUME IInv, NEW a \in Addrs \ short
             PROVE  IsPrefix(received[a], written[a])
  BY DEF MessagesIntact
<1>1. PICK rest : InStep(a, rest)
  BY DEF IInv, Framed
<1> DEFINE k == Len(received[a])
<1>2. /\ k \in Nat /\ Len(written[a]) \in Nat /\ k <= Len(written[a])
      /\ received[a] \in Seq(Seq(Byte)) /\ written[a] \in Seq(Messages)
  BY <1>1 DEF InStep, IInv, TypeOK
<1>3. \A i \in 1..k : received[a][i] = written[a][i] /\ received[a][i] \in Seq(Byte)
  BY <1>1, <1>2 DEF InStep
<1> HIDE DEF k
<1>4. \A i \in 1..k : written[a][i] \in Seq(Byte)
  BY <1>3
<1>5. /\ SubSeq(received[a], 1, k) \in Seq(Seq(Byte)) /\ Len(SubSeq(received[a], 1, k)) = k
      /\ \A i \in 1..k : SubSeq(received[a], 1, k)[i] = received[a][i]
  BY <1>2, <1>3, SubSeqProperties
<1>6. /\ SubSeq(written[a], 1, k) \in Seq(Seq(Byte)) /\ Len(SubSeq(written[a], 1, k)) = k
      /\ \A i \in 1..k : SubSeq(written[a], 1, k)[i] = written[a][i]
  BY <1>2, <1>4, SubSeqProperties
<1>7. SubSeq(received[a], 1, k) = SubSeq(written[a], 1, k)
  BY <1>3, <1>5, <1>6, SeqEqual
<1> QED BY <1>2, <1>7 DEF IsPrefix, k

\* Only the holder of connMaplock gives it back, and a call that is over does
\* nothing more.
LEMMA LeakedStays ==
    ASSUME IInv, [Next]_vars, Leaked
    PROVE  /\ connMaplock' = connMaplock
           /\ \A g \in Goroutines : pc[g] = "lock" => pc'[g] = "lock"
<1>1. connMaplock \in Goroutines /\ pc[connMaplock] = "returned" /\ connMaplock # Nobody
  BY DEF Leaked, IInv, TypeOK
<1>2. \A g \in Goroutines : pc[g] # "locked"
  BY <1>1 DEF IInv, LockHeld
<1>3. ASSUME NEW g \in Goroutines, TcpDial(g)
      PROVE  connMaplock' = connMaplock /\ pc[g] = "write" /\ pc' = [pc EXCEPT ![g] = "returned"]
  BY <1>1, <1>2, <1>3 DEF TcpDial, Lock, Connect, DialFails, Write
<1>4. ASSUME NEW a \in Addrs, Listen(a) \/ Arrive(a) \/ handleConn(a)
      PROVE  UNCHANGED <<connMaplock, pc>>
  BY <1>4 DEF Listen, Arrive, handleConn, ReadPrefix, ReadMessage
<1> QED BY <1>3, <1>4 DEF Next, Done, vars, IInv, TypeOK

\* The length prefix of TcpDial does prevent sticky packets: however many
\* goroutines write to an address and wherever TCP cuts the stream, a reader
\* that never got a part of a prefix has cut out the messages written, whole
\* and in order.
THEOREM MessagesAlwaysIntact == Spec => []MessagesIntact
  BY ConnectionInvariant, InvIntact, PTL

\* A dial that fails leaves connMaplock locked for good: no call of TcpDial
\* that has not passed it by then ever does.
THEOREM SilentOnceADialFailed == Spec => SilentAfterFailedDial
<1>1. IInv /\ [Next]_vars =>
        [Leaked => /\ connMaplock' = connMaplock
                   /\ \A g \in Goroutines : pc[g] = "lock" => pc'[g] = "lock"]_vars
  BY LeakedStays
<1> QED BY <1>1, ConnectionInvariant, PTL DEF Spec, SilentAfterFailedDial
=============================================================================
