----------------------------- MODULE Echo_proofs -----------------------------
(***************************************************************************)
(* Proofs about Echo, for the three benchmarks and every payload and       *)
(* socket size that EchoAssumption allows.  TypeOK and InFlight together   *)
(* are inductive; that the two threads never wait for each other, and that *)
(* the clock sees whole round trips, follows from them.                    *)
(***************************************************************************)
EXTENDS Echo, TLAPS

IInv == TypeOK /\ InFlight

\* The benchmark starts with every byte accounted for.
LEMMA InitInv == Init => IInv
  BY EchoAssumption DEF Init, IInv, TypeOK, InFlight, Payload, TcpEcho,
                        ContextSwitch, TcpEchoProbe

\* No step of the client loses a byte.
LEMMA ClientInv == IInv /\ ClientNext => IInv'
<1> SUFFICES ASSUME IInv, ClientNext PROVE IInv'
  OBVIOUS
<1> USE EchoAssumption DEF IInv, TypeOK, InFlight, Payload,
        TcpEcho, ContextSwitch, TcpEchoProbe
<1>1. CASE ClockContinue
  BY <1>1 DEF ClockContinue
<1>2. CASE ClockExpires
  BY <1>2 DEF ClockExpires
<1>3. CASE ClientWrite
  <2>1. PICK k \in 1 .. Payload :
          /\ k <= Payload - sent /\ k <= RequestCap - request
          /\ sent' = sent + k
          /\ request' = request + k
          /\ client' = IF sent + k = Payload THEN "read" ELSE "write"
    BY <1>3 DEF ClientWrite
  <2>2. /\ client = "write"
        /\ UNCHANGED <<bench, server, got, hand, reply, rounds, open>>
    BY <1>3 DEF ClientWrite
  <2>3. TypeOK'
    BY <2>1, <2>2
  <2>4. InFlight'
    BY <2>1, <2>2
  <2> QED
    BY <2>3, <2>4
<1>4. CASE ClientRead
  <2>1. PICK k \in 1 .. Payload :
          /\ k <= Payload - got /\ k <= reply
          /\ reply' = reply - k
          /\ IF got + k = Payload
               THEN client' = "clock" /\ got' = 0 /\ sent' = 0
                    /\ rounds' = rounds + 1
               ELSE got' = got + k /\ UNCHANGED <<client, sent, rounds>>
    BY <1>4 DEF ClientRead
  <2>2. client = "read" /\ UNCHANGED <<bench, server, request, hand, open>>
    BY <1>4 DEF ClientRead
  <2>3. CASE got + k = Payload
    <3>1. request = 0 /\ hand = 0 /\ reply = k
      BY <2>1, <2>2, <2>3
    <3>2. server # "write"
      BY <3>1
    <3> QED
      BY <2>1, <2>2, <2>3, <3>1, <3>2
  <2>4. CASE got + k # Payload
    BY <2>1, <2>2, <2>4
  <2> QED
    BY <2>3, <2>4
<1>5. CASE ClientJoin
  BY <1>5 DEF ClientJoin
<1>6. CASE ClientPanics
  BY <1>6 DEF ClientPanics
<1> QED
  BY <1>1, <1>2, <1>3, <1>4, <1>5, <1>6 DEF ClientNext

\* Nor does any of the echo thread.
LEMMA ServerInv == IInv /\ ServerNext => IInv'
<1> SUFFICES ASSUME IInv, ServerNext PROVE IInv'
  OBVIOUS
<1> USE EchoAssumption DEF IInv, TypeOK, InFlight, Payload,
        TcpEcho, ContextSwitch, TcpEchoProbe
<1>1. CASE ServerAccept
  BY <1>1 DEF ServerAccept
<1>2. CASE ServerRead
  <2>1. PICK k \in 1 .. Payload :
          /\ k <= Payload - hand /\ k <= request
          /\ request' = request - k
          /\ hand' = hand + k
          /\ server' = IF bench.exact /\ hand + k < Payload
                         THEN "read" ELSE "write"
    BY <1>2 DEF ServerRead
  <2>2. /\ server = "read"
        /\ UNCHANGED <<bench, client, sent, got, reply, rounds, open>>
    BY <1>2 DEF ServerRead
  <2>3. TypeOK'
    BY <2>1, <2>2
  <2>4. InFlight'
    BY <2>1, <2>2
  <2> QED
    BY <2>3, <2>4
<1>3. CASE ServerEof
  BY <1>3 DEF ServerEof
<1>4. CASE ServerWrite
  <2>1. PICK k \in 1 .. Payload :
          /\ k <= hand /\ k <= ReplyCap - reply
          /\ hand' = hand - k
          /\ reply' = reply + k
          /\ server' = IF hand = k THEN "read" ELSE "write"
    BY <1>4 DEF ServerWrite
  <2>2. /\ server = "write"
        /\ UNCHANGED <<bench, client, sent, got, request, rounds, open>>
    BY <1>4 DEF ServerWrite
  <2>3. TypeOK'
    BY <2>1, <2>2
  <2>4. InFlight'
    BY <2>1, <2>2
  <2> QED
    BY <2>3, <2>4
<1>5. CASE AcceptFails
  BY <1>5 DEF AcceptFails
<1> QED
  BY <1>1, <1>2, <1>3, <1>4, <1>5 DEF ServerNext

\* Every variable keeps its type, and every byte of a round trip is where
\* InFlight says, in every run of the three benchmarks.
THEOREM EveryByteAccounted == Spec => [](TypeOK /\ InFlight)
<1>1. IInv /\ UNCHANGED vars => IInv'
  BY DEF vars, IInv, TypeOK, InFlight, Payload
<1>2. IInv /\ [Next]_vars => IInv'
  BY <1>1, ClientInv, ServerInv DEF Next, Finished
<1> QED
  BY InitInv, <1>2, PTL DEF Spec, IInv

\* Every variable keeps its type: in particular neither direction of the stream
\* ever holds more bytes than it has room for, and no round trip has more bytes
\* anywhere than its payload.
THEOREM EchoTyped == Spec => []TypeOK
  BY EveryByteAccounted, PTL

\* The clock of the benchmark sees whole round trips: no byte of an earlier
\* one is under way when it is read.
THEOREM ClockSeesWholeTrips == Spec => []WholeRoundTrips
<1>1. TypeOK /\ InFlight => WholeRoundTrips
  BY EchoAssumption DEF TypeOK, InFlight, WholeRoundTrips
<1> QED
  BY <1>1, EveryByteAccounted, PTL

\* The two threads never wait for each other, if the echo thread reads the
\* whole payload first or the sockets have room for all of it but one byte.
THEOREM NoMutualWaitHolds == Spec => []NoMutualWait
<1>1. TypeOK /\ InFlight => NoMutualWait
  BY EchoAssumption DEF TypeOK, InFlight, NoMutualWait, Payload, TcpEcho,
                        ContextSwitch, TcpEchoProbe
<1> QED
  BY <1>1, EveryByteAccounted, PTL

\* The echo thread writes only to a stream that is open.
THEOREM EchoOnlyWhileOpenHolds == Spec => EchoOnlyWhileOpen
<1>1. TypeOK /\ InFlight /\ [Next]_vars => [reply' > reply => open]_vars
  <2> SUFFICES ASSUME TypeOK, InFlight, Next, reply' > reply PROVE open
    OBVIOUS
  <2>1. reply' # reply
    BY DEF TypeOK
  <2>2. CASE ClientRead
    BY <2>2, EchoAssumption DEF ClientRead, TypeOK
  <2>3. CASE ServerWrite
    BY <2>3, EchoAssumption DEF ServerWrite, TypeOK, InFlight
  <2> QED
    BY <2>1, <2>2, <2>3
    DEF Next, Finished, vars, ClientNext, ServerNext, ClockContinue,
        ClockExpires, ClientWrite, ClientJoin, ClientPanics,
        ServerAccept, AcceptFails, ServerRead, ServerEof
<1> QED
  BY <1>1, EveryByteAccounted, PTL DEF Spec, EchoOnlyWhileOpen
=============================================================================
