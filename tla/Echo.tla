-------------------------------- MODULE Echo --------------------------------
(***************************************************************************)
(* The three round-trip benchmarks: tcp_echo (src/benchmarks/network.rs:   *)
(* 9-55), context_switch (src/benchmarks/syscall.rs:15-60) and the         *)
(* TcpEchoProbe of src/bin/latency.rs (337-394).  In each of them a client *)
(* writes a payload to a thread that echoes it, and reads it back, over a  *)
(* stream socket.  They differ in how the echo thread reads: read_exact of *)
(* the payload, or, in tcp_echo, whatever has come so far.                 *)
(*                                                                         *)
(* A socket is external: each direction keeps a bounded number of bytes in *)
(* order, and a read or a write moves at least one.  Only how many bytes   *)
(* are where is modelled: the order keeps whose they are.                  *)
(***************************************************************************)
EXTENDS Integers

CONSTANTS
  EchoPayload,   \* the bytes of a round trip of tcp_echo (32 KiB)
  ProbePayload,  \* those of the probe (its --size)
  RequestCap,    \* the bytes that fit in the sockets towards the echo thread
  ReplyCap,      \* the bytes that fit on the way back
  MaxRounds      \* bound: the round trips, with the warm-up

\* exact: the echo thread reads with read_exact.  listens: it accepts a
\* connection first.  joins: the client waits for the thread at the end.
TcpEcho ==
  [exact |-> FALSE, listens |-> TRUE, joins |-> FALSE, payload |-> EchoPayload]
ContextSwitch ==
  [exact |-> TRUE, listens |-> FALSE, joins |-> TRUE, payload |-> 1]
TcpEchoProbe ==
  [exact |-> TRUE, listens |-> TRUE, joins |-> FALSE, payload |-> ProbePayload]

\* tcp_echo relies on the sockets: with less room than this the two threads
\* could wait for each other.
ASSUME EchoAssumption ==
  /\ EchoPayload \in Nat \ {0} /\ ProbePayload \in Nat \ {0}
  /\ RequestCap \in Nat \ {0} /\ ReplyCap \in Nat \ {0}
  /\ MaxRounds \in Nat
  /\ EchoPayload <= RequestCap + ReplyCap + 1

VARIABLES
  bench,    \* the benchmark that runs
  client,   \* where the client is
  server,   \* where the echo thread is
  sent,     \* the bytes of this round the client has written
  got,      \* the bytes of this round it has read back
  request,  \* the bytes on their way to the echo thread
  hand,     \* the bytes it has read and not yet written
  reply,    \* the bytes on their way back
  rounds,   \* the round trips made
  open      \* the client's end of the stream is open

vars == <<bench, client, server, sent, got, request, hand, reply, rounds,
          open>>

Payload == bench.payload

Init ==
  /\ bench \in {TcpEcho, ContextSwitch, TcpEchoProbe}
  /\ client = "clock"
  /\ server = IF bench.listens THEN "accept" ELSE "read"
  /\ sent = 0 /\ got = 0
  /\ request = 0 /\ hand = 0 /\ reply = 0
  /\ rounds = 0
  /\ open = TRUE

-----------------------------------------------------------------------------
(* The client.                                                             *)

\* t.elapsed() is below the limit, or the warm-up or the samples go on.
ClockContinue ==
  /\ client = "clock" /\ rounds < MaxRounds
  /\ client' = "write"
  /\ UNCHANGED <<bench, server, sent, got, request, hand, reply, rounds, open>>

\* Mutant: the stream is dropped after the join.
MutClockExpires ==
  /\ client = "clock"
  /\ client' = IF bench.joins THEN "join" ELSE "reported"
  /\ UNCHANGED <<bench, server, sent, got, request, hand, reply, rounds, open>>

\* The result is taken, and the stream is dropped.
ClockExpires ==
  /\ client = "clock"
  /\ open' = FALSE
  /\ client' = IF bench.joins THEN "join" ELSE "reported"
  /\ UNCHANGED <<bench, server, sent, got, request, hand, reply, rounds>>

\* Mutant: after a short write the whole payload is written again.
MutClientWrite ==
  /\ client = "write"
  /\ \E k \in 1 .. Payload :
       /\ k <= RequestCap - request
       /\ sent' = sent + k
       /\ request' = request + k
       /\ client' = IF sent + k = Payload THEN "read" ELSE "write"
  /\ UNCHANGED <<bench, server, got, hand, reply, rounds, open>>

\* A write of write_all: as many bytes as there is room for, at least one.
ClientWrite ==
  /\ client = "write"
  /\ \E k \in 1 .. Payload :
       /\ k <= Payload - sent /\ k <= RequestCap - request
       /\ sent' = sent + k
       /\ request' = request + k
       /\ client' = IF sent + k = Payload THEN "read" ELSE "write"
  /\ UNCHANGED <<bench, server, got, hand, reply, rounds, open>>

\* Mutant: one read() takes the place of read_exact().
MutClientRead ==
  /\ client = "read"
  /\ \E k \in 1 .. Payload :
       /\ k <= Payload - got /\ k <= reply
       /\ reply' = reply - k
       /\ client' = "clock"
       /\ got' = 0 /\ sent' = 0 /\ rounds' = rounds + 1
  /\ UNCHANGED <<bench, server, request, hand, open>>

\* A read of read_exact; with the last byte the round trip is made.
ClientRead ==
  /\ client = "read"
  /\ \E k \in 1 .. Payload :
       /\ k <= Payload - got /\ k <= reply
       /\ reply' = reply - k
       /\ IF got + k = Payload
            THEN client' = "clock" /\ got' = 0 /\ sent' = 0
                 /\ rounds' = rounds + 1
            ELSE got' = got + k /\ UNCHANGED <<client, sent, rounds>>
  /\ UNCHANGED <<bench, server, request, hand, open>>

\* handle.join()
ClientJoin ==
  /\ client = "join" /\ server = "returned"
  /\ client' = "reported"
  /\ UNCHANGED <<bench, server, sent, got, request, hand, reply, rounds, open>>

\* unwrap() or expect() of a write or a read, when the other end is gone.
ClientPanics ==
  /\ client \in {"write", "read"} /\ server = "failed"
  /\ client' = "panicked"
  /\ open' = FALSE
  /\ UNCHANGED <<bench, server, sent, got, request, hand, reply, rounds>>

ClientNext ==
  \/ ClockContinue \/ ClockExpires \/ ClientWrite \/ ClientRead \/ ClientJoin
  \/ ClientPanics

-----------------------------------------------------------------------------
(* The echo thread.                                                        *)

\* The client is connected, and may have written, before accept() returns.
ServerAccept ==
  /\ server = "accept"
  /\ server' = "read"
  /\ UNCHANGED <<bench, client, sent, got, request, hand, reply, rounds, open>>

\* accept() fails and the thread returns, or tcp_echo's set_nodelay does and it
\* panics.  Either way the connection is gone.
AcceptFails ==
  /\ server = "accept"
  /\ server' = "failed"
  /\ UNCHANGED <<bench, client, sent, got, request, hand, reply, rounds, open>>

\* Mutant: the echo starts with the first bytes, whatever read_exact needs.
MutServerRead ==
  /\ server = "read"
  /\ \E k \in 1 .. Payload :
       /\ k <= Payload - hand /\ k <= request
       /\ request' = request - k
       /\ hand' = hand + k
       /\ server' = "write"
  /\ UNCHANGED <<bench, client, sent, got, reply, rounds, open>>

\* read() into a buffer of Payload bytes, or one read of read_exact().
ServerRead ==
  /\ server = "read"
  /\ \E k \in 1 .. Payload :
       /\ k <= Payload - hand /\ k <= request
       /\ request' = request - k
       /\ hand' = hand + k
       /\ server' = IF bench.exact /\ hand + k < Payload
                      THEN "read" ELSE "write"
  /\ UNCHANGED <<bench, client, sent, got, reply, rounds, open>>

\* Nothing left to read and the client's end dropped: Ok(0) or an error.
ServerEof ==
  /\ server = "read" /\ request = 0 /\ ~open
  /\ server' = "returned"
  /\ UNCHANGED <<bench, client, sent, got, request, hand, reply, rounds, open>>

\* A write of write_all, of what was read.
ServerWrite ==
  /\ server = "write"
  /\ \E k \in 1 .. Payload :
       /\ k <= hand /\ k <= ReplyCap - reply
       /\ hand' = hand - k
       /\ reply' = reply + k
       /\ server' = IF hand = k THEN "read" ELSE "write"
  /\ UNCHANGED <<bench, client, sent, got, request, rounds, open>>

ServerNext ==
  ServerAccept \/ AcceptFails \/ ServerRead \/ ServerEof \/ ServerWrite

Ended ==
  client \in {"reported", "panicked"} /\ server \in {"returned", "failed"}

Finished == Ended /\ UNCHANGED vars

Next == ClientNext \/ ServerNext \/ Finished

\* Both threads run whenever they can.
Fairness == WF_vars(ClientNext) /\ WF_vars(ServerNext)

Spec == Init /\ [][Next]_vars
FairSpec == Spec /\ Fairness

-----------------------------------------------------------------------------
(* Properties.                                                             *)

\* Every variable keeps its type, and no socket holds more than it can.
TypeOK ==
  /\ bench \in {TcpEcho, ContextSwitch, TcpEchoProbe}
  /\ client \in {"clock", "write", "read", "join", "reported", "panicked"}
  /\ server \in {"accept", "read", "write", "returned", "failed"}
  /\ sent \in 0 .. Payload /\ got \in 0 .. Payload /\ hand \in 0 .. Payload
  /\ request \in 0 .. RequestCap /\ reply \in 0 .. ReplyCap
  /\ rounds \in Nat
  /\ open \in BOOLEAN

\* What the client has written and not read back is in the sockets or in the
\* hands of the echo thread; no thread is where it has nothing to do.
InFlight ==
  /\ sent = got + request + hand + reply
  /\ client = "write" => sent < Payload /\ got = 0
  /\ client = "read" => sent = Payload /\ got < Payload
  /\ client \in {"clock", "join", "reported"} => sent = 0
  /\ server \in {"accept", "returned", "failed"} => hand = 0
  /\ server \in {"accept", "failed"} => reply = 0 /\ got = 0
  /\ server = "read" => hand < Payload /\ (hand > 0 => bench.exact)
  /\ server = "write" => hand > 0
  /\ server = "write" /\ bench.exact => sent = Payload
  /\ open <=> client \in {"clock", "write", "read"}
  /\ server = "returned" => ~open
  /\ client = "panicked" => server = "failed"

\* Whenever the clock is read, and when the stream is dropped, no byte of an
\* earlier round trip is under way: the time is of whole round trips, and a
\* reply is never one of the round before.
WholeRoundTrips ==
  client \in {"clock", "join", "reported"} =>
    request = 0 /\ hand = 0 /\ reply = 0

\* The client does not wait for room on the way out while the echo thread
\* waits for room on the way back, which only the client makes.
NoMutualWait ==
  ~ /\ client = "write" /\ request = RequestCap
    /\ server = "write" /\ reply = ReplyCap

\* The echo thread never writes to a stream that is dropped: it ends by
\* reading the end of it, so its write_all does not fail.
EchoOnlyWhileOpen == [][reply' > reply => open]_vars

\* The benchmark ends and so does the echo thread: the join of context_switch
\* comes back because the stream is dropped before it (syscall.rs:49-50).  It
\* reports, unless the thread failed before its first read.
BothEnd == <>(Ended /\ (client = "panicked" => server = "failed"))
=============================================================================
