----------------------------- MODULE Connection -----------------------------
(***************************************************************************)
(* How one process sends messages: utils.TcpDial, called by many           *)
(* goroutines at a time, keeps one TCP connection per address in connMap   *)
(* under connMaplock; the other side (handleConn of a node, connHandler of *)
(* the client) cuts the byte stream into messages by a four-byte length.   *)
(*                                                                         *)
(* TCP itself is external: a stream keeps its bytes and their order, and   *)
(* its bytes become readable in portions that need not end where a message *)
(* ends.  A peer that is not listening yet refuses the connection.         *)
(***************************************************************************)
EXTENDS Integers, Sequences, SequencesExt

CONSTANTS Goroutines,   \* the calls of TcpDial
          Addrs,        \* the addresses they send to
          To,           \* To[g]: the address of call g
          Context,      \* Context[g]: the message, a sequence of bytes
          LatePeers     \* the addresses that may not be listening at first

Nobody == "nobody"
Byte   == 0..255

\* A message is shorter than 4 GiB, the most its four-byte length can say.
ASSUME ConnectionConstants ==
    /\ To \in [Goroutines -> Addrs] /\ Nobody \notin Goroutines
    /\ Context \in [Goroutines -> Seq(Byte)]
    /\ \A g \in Goroutines : Len(Context[g]) \div 2^24 \in Byte
    /\ LatePeers \subseteq Addrs

VARIABLES
    pc,           \* pc[g]: "lock", "locked", "write" or "returned"
    connMaplock,  \* the goroutine that locked it, or Nobody
    connMap,      \* the addresses with a connection
    listening,    \* the peers that accept connections
    written,      \* written[a]: the messages written to a, in order
    stream,       \* stream[a]: the bytes written and not yet read
    arrived,      \* arrived[a]: how many of them can be read
    reader,       \* reader[a]: the length announced, or Prefix when none is
    received,     \* received[a]: the messages the reader has cut out
    short         \* history: the readers that took a part of a prefix for all of it

vars == <<pc, connMaplock, connMap, listening, written, stream, arrived, reader, received, short>>
receiving == <<listening, reader, received, short>>

Prefix == -1   \* no length read yet
PrefixLength == 4

\* Four bytes, most significant first.
PutUint32(n) == <<(n \div 2^24) % 256, (n \div 2^16) % 256, (n \div 2^8) % 256, n % 256>>
Uint32(b)    == b[1] * 2^24 + b[2] * 2^16 + b[3] * 2^8 + b[4]

\* The bytes TcpDial writes for a message.
Frame(msg) == PutUint32(Len(msg)) \o msg

Init ==
    /\ pc = [g \in Goroutines |-> "lock"]
    /\ connMaplock = Nobody
    /\ connMap = {}
    /\ listening = Addrs \ LatePeers
    /\ written = [a \in Addrs |-> <<>>]
    /\ stream = [a \in Addrs |-> <<>>]
    /\ arrived = [a \in Addrs |-> 0]
    /\ reader = [a \in Addrs |-> Prefix]
    /\ received = [a \in Addrs |-> <<>>]
    /\ short = {}
-----------------------------------------------------------------------------
\* (mutant: the lock is taken over from whoever holds it)
LockAnyway(g) ==
    /\ pc[g] = "lock"
    /\ connMaplock' = g
    /\ pc' = [pc EXCEPT ![g] = "locked"]
    /\ UNCHANGED <<connMap, written, stream, arrived, receiving>>

\* connMaplock.Lock()
Lock(g) ==
    /\ pc[g] = "lock" /\ connMaplock = Nobody
    /\ connMaplock' = g
    /\ pc' = [pc EXCEPT ![g] = "locked"]
    /\ UNCHANGED <<connMap, written, stream, arrived, receiving>>

\* The connection is in the map, or is made and put there; then the unlock.
Connect(g) ==
    /\ pc[g] = "locked"
    /\ To[g] \in connMap \cup listening
    /\ connMap' = connMap \cup {To[g]}
    /\ connMaplock' = Nobody
    /\ pc' = [pc EXCEPT ![g] = "write"]
    /\ UNCHANGED <<written, stream, arrived, receiving>>

\* net.Dial fails: the error is logged and TcpDial returns.  There is no
\* unlock on this path.
DialFails(g) ==
    /\ pc[g] = "locked"
    /\ To[g] \notin connMap \cup listening
    /\ pc' = [pc EXCEPT ![g] = "returned"]
    /\ UNCHANGED <<connMaplock, connMap, written, stream, arrived, receiving>>

\* (mutant: a message is dropped while earlier ones are still on their way)
WriteOrDrop(g) ==
    /\ pc[g] = "write"
    /\ LET sent == stream[To[g]] = <<>>
       IN  /\ written' = IF sent THEN [written EXCEPT ![To[g]] = Append(@, Context[g])] ELSE written
           /\ stream' = IF sent THEN [stream EXCEPT ![To[g]] = @ \o Frame(Context[g])] ELSE stream
    /\ pc' = [pc EXCEPT ![g] = "returned"]
    /\ UNCHANGED <<connMaplock, connMap, arrived, receiving>>

\* conn.Write(data): one call writes all its bytes before another call does.
Write(g) ==
    /\ pc[g] = "write"
    /\ written' = [written EXCEPT ![To[g]] = Append(@, Context[g])]
    /\ stream' = [stream EXCEPT ![To[g]] = @ \o Frame(Context[g])]
    /\ pc' = [pc EXCEPT ![g] = "returned"]
    /\ UNCHANGED <<connMaplock, connMap, arrived, receiving>>

TcpDial(g) == Lock(g) \/ Connect(g) \/ DialFails(g) \/ Write(g)
-----------------------------------------------------------------------------
\* The peer starts to listen (TcpListen, listener).
Listen(a) ==
    /\ a \notin listening
    /\ listening' = listening \cup {a}
    /\ UNCHANGED <<pc, connMaplock, connMap, written, stream, arrived, reader, received, short>>

\* More bytes of the stream can be read.
Arrive(a) ==
    /\ \E n \in (arrived[a] + 1)..Len(stream[a]) : arrived' = [arrived EXCEPT ![a] = n]
    /\ UNCHANGED <<pc, connMaplock, connMap, written, stream, receiving>>

\* conn.Read(lengthPrefix): one Read returns what there is, at most four
\* bytes; the buffer was made of zeroes and is decoded whatever was read.
ReadPrefix(a) ==
    LET n == IF arrived[a] < PrefixLength THEN arrived[a] ELSE PrefixLength
        lengthPrefix == [i \in 1..PrefixLength |-> IF i <= n THEN stream[a][i] ELSE 0]
    IN  /\ reader[a] = Prefix /\ arrived[a] > 0
        /\ reader' = [reader EXCEPT ![a] = Uint32(lengthPrefix)]
        /\ stream' = [stream EXCEPT ![a] = SubSeq(@, n + 1, Len(@))]
        /\ arrived' = [arrived EXCEPT ![a] = @ - n]
        /\ short' = IF n < PrefixLength THEN short \cup {a} ELSE short
        /\ UNCHANGED <<pc, connMaplock, connMap, listening, written, received>>

\* (mutant: the body is read with one Read)
ReadMessageShort(a) ==
    LET n == IF arrived[a] < reader[a] THEN arrived[a] ELSE reader[a]
    IN  /\ reader[a] # Prefix /\ n > 0
        /\ received' = [received EXCEPT ![a] = Append(@, SubSeq(stream[a], 1, n))]
        /\ stream' = [stream EXCEPT ![a] = SubSeq(@, n + 1, Len(@))]
        /\ arrived' = [arrived EXCEPT ![a] = @ - n]
        /\ reader' = [reader EXCEPT ![a] = Prefix]
        /\ UNCHANGED <<pc, connMaplock, connMap, listening, written, short>>

\* io.ReadFull(conn, message) waits for all the bytes announced; the message
\* goes to handleRequest or handle, and the loop reads the next prefix.
ReadMessage(a) ==
    /\ reader[a] # Prefix /\ arrived[a] >= reader[a]
    /\ received' = [received EXCEPT ![a] = Append(@, SubSeq(stream[a], 1, reader[a]))]
    /\ stream' = [stream EXCEPT ![a] = SubSeq(@, reader[a] + 1, Len(@))]
    /\ arrived' = [arrived EXCEPT ![a] = @ - reader[a]]
    /\ reader' = [reader EXCEPT ![a] = Prefix]
    /\ UNCHANGED <<pc, connMaplock, connMap, listening, written, short>>

handleConn(a) == ReadPrefix(a) \/ ReadMessage(a)

Done == /\ \A g \in Goroutines : pc[g] = "returned"
        /\ \A a \in Addrs : stream[a] = <<>>
        /\ UNCHANGED vars

Next == \/ \E g \in Goroutines : TcpDial(g)
        \/ \E a \in Addrs : Listen(a) \/ Arrive(a) \/ handleConn(a)
        \/ Done

Spec == Init /\ [][Next]_vars

\* Goroutines run, TCP delivers, readers loop.
FairSpec == /\ Spec
            /\ \A g \in Goroutines : WF_vars(TcpDial(g))
            /\ \A a \in Addrs : WF_vars(Arrive(a)) /\ WF_vars(handleConn(a))
-----------------------------------------------------------------------------
Messages == {Context[g] : g \in Goroutines}

TypeOK ==
    /\ pc \in [Goroutines -> {"lock", "locked", "write", "returned"}]
    /\ connMaplock \in Goroutines \cup {Nobody}
    /\ connMap \subseteq listening /\ listening \subseteq Addrs
    /\ written \in [Addrs -> Seq(Messages)] /\ received \in [Addrs -> Seq(Seq(Byte))]
    /\ stream \in [Addrs -> Seq(Byte)] /\ reader \in [Addrs -> Nat \cup {Prefix}]
    /\ arrived \in [Addrs -> Nat] /\ \A a \in Addrs : arrived[a] <= Len(stream[a])
    /\ short \subseteq Addrs

\* "The length prefix prevents sticky packets" (tcp.go, client.go): as long as no
\* conn.Read has returned a part of a length prefix, the messages a reader cuts
\* out of the stream are the messages written to it, whole and in order, however
\* many goroutines write and wherever the bodies are cut (TcpDial, handleConn).
MessagesIntact ==
    \A a \in Addrs \ short : IsPrefix(received[a], written[a])

\* A call of TcpDial that is over and has left connMaplock locked.
Leaked == connMaplock # Nobody /\ pc[connMaplock] = "returned"

\* After a dial has failed the process never opens another send: whoever had
\* not passed connMaplock by then never writes, to any address, although the
\* peers listen by now (TcpDial).
SilentAfterFailedDial ==
    [][Leaked => /\ connMaplock' = connMaplock
                 /\ \A g \in Goroutines : pc[g] = "lock" => pc'[g] = "lock"]_vars

\* Each message is read at the end, unless a failed dial keeps its call from
\* sending it or its reader took a part of a prefix for all of it: a failed dial
\* never holds up what has passed the lock (TcpDial, handleConn).
Delivered(g) == Context[g] \in ToSet(received[To[g]])
AllDelivered ==
    \A g \in Goroutines :
        <>(\/ Delivered(g) \/ To[g] \in short
           \/ Leaked /\ (connMaplock = g \/ pc[g] = "lock"))
=============================================================================
