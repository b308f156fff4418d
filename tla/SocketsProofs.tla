---------------------------- MODULE SocketsProofs ----------------------------
(***************************************************************************)
(* The safety properties of Sockets for every number of messages and of    *)
(* retries and every set of failing calls.                                 *)
(*                                                                         *)
(* What has to be shown is that the 0 that ends the receive loop comes     *)
(* after the last message.  At that moment the client has closed, so its   *)
(* loop counter is SEND_COUNT (ClosedAfterAll); the socket has not been    *)
(* reset while the server receives (NoEarlyReset), so every turn of the    *)
(* loop whose send did not fail by itself sent a message; and all that was *)
(* sent has been received.                                                 *)
(***************************************************************************)
EXTENDS Sockets, TLAPS

Opened == "listen" \notin failed
AllSent == "send" \notin failed

\* The client's place tells whether it has a connection, and a connection that was
\* closed in order has had all its turns of the send loop.
ClosedAfterAll ==
    /\ client = "create" => server = "none"
    /\ client \in {"create", "connect"} => connected = 0
    /\ server \in {"none", "socket", "bound"} \/ ~Opened => connected = 0
    /\ client \in {"send", "killed"} => connected = 1
    /\ client \in {"join", "exited"} /\ connected = 1 => i = SEND_COUNT

\* Only a socket the server has closed answers with a reset; until then the loop
\* counter counts messages and failed sends.
NoEarlyReset ==
    /\ reset = 1 => server = "end"
    /\ reset = 0 /\ AllSent => sent = i

\* A server that ends without a failure has met the end of the stream.
EndOfStream ==
    /\ server = "badf" => ~Served
    /\ server = "recv" => connected = 1
    /\ server = "end" /\ Served => /\ client \in {"join", "exited"} /\ i = SEND_COUNT
                                  /\ received = sent /\ reset = 0
    /\ client = "killed" => ~Served

IInv == TypeOK /\ ClosedAfterAll /\ NoEarlyReset /\ EndOfStream

LEMMA InitIInv == Init => IInv
BY SocketsAssumption DEF Init, IInv, TypeOK, ClosedAfterAll, NoEarlyReset, EndOfStream, Served, Opened

\* The counters in order: received, arrived, sent, the client's turns, SEND_COUNT.
LEMMA Counts ==
    ASSUME TypeOK
    PROVE  /\ i \in Nat /\ sent \in Nat /\ arrived \in Nat /\ received \in Nat /\ recv_count \in Nat
           /\ recv_count <= received /\ received <= arrived /\ arrived <= sent /\ sent <= i
           /\ i <= SEND_COUNT /\ SEND_COUNT \in Nat
<1>1. i \in Nat /\ i <= SEND_COUNT /\ SEND_COUNT \in Nat
    BY SocketsAssumption DEF TypeOK
<1>2. sent \in Nat /\ sent <= i
    BY <1>1 DEF TypeOK
<1>3. arrived \in Nat /\ arrived <= sent
    BY <1>2 DEF TypeOK
<1>4. received \in Nat /\ received <= arrived
    BY <1>3 DEF TypeOK
<1> QED
    BY <1>1, <1>2, <1>3, <1>4 DEF TypeOK

\* A failing call is one of Faulty, and what has failed stays failed.
LEMMA FailsGrows ==
    ASSUME NEW call, TypeOK, Fails(call)
    PROVE  /\ failed' \subseteq Faulty /\ call \in failed'
           /\ Served' => Served
           /\ AllSent' => AllSent
           /\ call # "listen" => (Opened' <=> Opened)
BY DEF Fails, TypeOK, Served, AllSent, Opened

LEMMA SameFailed ==
    ASSUME UNCHANGED failed
    PROVE  (Served' <=> Served) /\ (AllSent' <=> AllSent) /\ (Opened' <=> Opened)
BY DEF Served, AllSent, Opened

\* What a step other than Listen does to failed.
Grown ==
    /\ failed' \subseteq Faulty
    /\ Served' => Served
    /\ AllSent' => AllSent
    /\ Opened' <=> Opened

LEMMA GrownSteps ==
    ASSUME IInv, Create \/ Bind \/ Accept \/ Recv \/ Recv_badf \/ Connect \/ Send \/ Join \/ Deliver
    PROVE  Grown
<1> USE DEF IInv, Grown
<1>0. TypeOK /\ failed \subseteq Faulty
    BY DEF TypeOK
<1>1. CASE UNCHANGED failed
    BY <1>0, <1>1, SameFailed
<1>2. ASSUME NEW call \in {"pthread_create", "bind", "accept", "recv", "connect", "send", "pthread_join"},
             Fails(call)
      PROVE  Grown
    BY <1>0, <1>2, FailsGrows
<1> QED
    BY <1>1, <1>2 DEF Create, Bind, Accept, Recv, Recv_badf, Connect, Send, Join, Deliver

LEMMA CreateBindIInv == IInv /\ (Create \/ Bind) => IInv'
<1> SUFFICES ASSUME IInv, Create \/ Bind PROVE IInv'
    OBVIOUS
<1>1. Grown
    BY GrownSteps
<1>2. TypeOK'
    BY <1>1 DEF Create, Bind, link, IInv, TypeOK, Grown
<1>3. ClosedAfterAll'
    BY <1>1 DEF Create, Bind, link, IInv, TypeOK, ClosedAfterAll, Grown
<1>4. NoEarlyReset'
    BY <1>1 DEF Create, Bind, link, IInv, TypeOK, ClosedAfterAll, NoEarlyReset, Grown
<1>5. EndOfStream'
    BY <1>1 DEF Create, Bind, link, IInv, TypeOK, EndOfStream, Grown
<1> QED
    BY <1>2, <1>3, <1>4, <1>5 DEF IInv

LEMMA ConnectIInv == IInv /\ Connect => IInv'
<1> SUFFICES ASSUME IInv, Connect PROVE IInv'
    OBVIOUS
<1>1. Grown
    BY GrownSteps
<1>2. TypeOK'
    <2>1. retry_count' \in 0 .. CONNECT_RETRY + 1
        BY SocketsAssumption DEF Connect, IInv, TypeOK
    <2> QED
        BY <1>1, <2>1 DEF Connect, Leave, IInv, TypeOK, Grown
<1>3. ClosedAfterAll'
    <2>1. connected' = 1 => Opened /\ server \notin {"none", "socket", "bound"}
        BY DEF Connect, Listening, Opened, IInv, ClosedAfterAll, TypeOK
    <2> QED
        BY <1>1, <2>1 DEF Connect, Leave, IInv, TypeOK, ClosedAfterAll, Grown
<1>4. NoEarlyReset'
    BY <1>1 DEF Connect, IInv, NoEarlyReset, Grown
<1>5. EndOfStream'
    BY <1>1 DEF Connect, Leave, IInv, TypeOK, ClosedAfterAll, EndOfStream, Grown
<1> QED
    BY <1>2, <1>3, <1>4, <1>5 DEF IInv

\* A server whose accept fails is not served any more.
LEMMA AcceptIInv == IInv /\ Accept => IInv'
<1> SUFFICES ASSUME IInv, Accept PROVE IInv'
    OBVIOUS
<1>1. Grown
    BY GrownSteps
<1>2. server' = "badf" => ~Served'
    BY FailsGrows DEF Accept, IInv, Served
<1>3. TypeOK'
    BY <1>1 DEF Accept, link, IInv, TypeOK, Grown
<1>4. ClosedAfterAll'
    BY <1>1 DEF Accept, link, IInv, TypeOK, ClosedAfterAll, Grown
<1>5. NoEarlyReset' /\ EndOfStream'
    BY <1>1, <1>2 DEF Accept, link, IInv, TypeOK, NoEarlyReset, EndOfStream, Grown
<1> QED
    BY <1>3, <1>4, <1>5 DEF IInv

\* The end of the receive loop, the heart of the argument: by ClosedAfterAll the client
\* has had its SEND_COUNT turns when recv returns 0, and all it sent is read.
LEMMA RecvIInv == IInv /\ Recv => IInv'
<1> SUFFICES ASSUME IInv, Recv PROVE IInv'
    OBVIOUS
<1>1. Grown
    BY GrownSteps
<1>2. reset = 0 /\ connected = 1
    BY DEF Recv, IInv, TypeOK, NoEarlyReset, EndOfStream
<1>3. server' = "end" /\ Served' =>
          client \in {"join", "exited"} /\ i = SEND_COUNT /\ received' = sent
    <2>1. CASE Fails("recv") /\ server' = "end"
        BY <2>1, FailsGrows DEF IInv, Served
    <2>2. CASE received = arrived /\ arrived = sent /\ Closed /\ UNCHANGED received
        BY <1>2, <2>2 DEF Closed, IInv, ClosedAfterAll
    <2>3. CASE UNCHANGED server
        BY <2>3 DEF Recv
    <2> QED
        BY <2>1, <2>2, <2>3 DEF Recv
<1>4. TypeOK'
    <2>1. received' \in 0 .. arrived /\ recv_count' \in 0 .. received'
        BY Counts DEF Recv, IInv, TypeOK
    <2> QED
        BY <1>1, <2>1 DEF Recv, IInv, TypeOK, Grown
<1>5. ClosedAfterAll'
    BY <1>1 DEF Recv, IInv, TypeOK, ClosedAfterAll, Grown
<1>6. NoEarlyReset' /\ EndOfStream'
    BY <1>1, <1>2, <1>3 DEF Recv, IInv, TypeOK, NoEarlyReset, EndOfStream, Grown
<1> QED
    BY <1>4, <1>5, <1>6 DEF IInv

LEMMA BadfIInv == IInv /\ Recv_badf => IInv'
<1> SUFFICES ASSUME IInv, Recv_badf PROVE IInv'
    OBVIOUS
<1>1. Grown
    BY GrownSteps
<1>2. TypeOK' /\ ClosedAfterAll'
    BY <1>1 DEF Recv_badf, link, IInv, TypeOK, ClosedAfterAll, Grown
<1>3. NoEarlyReset' /\ EndOfStream'
    BY <1>1 DEF Recv_badf, link, IInv, TypeOK, NoEarlyReset, EndOfStream, Grown
<1> QED
    BY <1>2, <1>3 DEF IInv

\* When listen fails nobody is connected yet, and nobody will be.
LEMMA ListenIInv == IInv /\ Listen => IInv'
<1> SUFFICES ASSUME IInv, Listen PROVE IInv'
    OBVIOUS
<1>1. failed' \subseteq Faulty /\ (Served' => Served) /\ (AllSent' => AllSent)
    BY FailsGrows, SameFailed DEF Listen, IInv, TypeOK
<1>2. server' = "badf" => ~Served'
    BY FailsGrows DEF Listen, IInv, Served
<1>3. TypeOK'
    BY <1>1 DEF Listen, link, IInv, TypeOK
<1>4. ClosedAfterAll'
    BY DEF Listen, link, IInv, TypeOK, ClosedAfterAll
<1>5. NoEarlyReset' /\ EndOfStream'
    BY <1>1, <1>2 DEF Listen, link, IInv, TypeOK, NoEarlyReset, EndOfStream
<1> QED
    BY <1>3, <1>4, <1>5 DEF IInv

\* A send that meets a reset finds the server at its end without having been served,
\* and no client sends to a server that has ended otherwise.
LEMMA SendIInv == IInv /\ Send => IInv'
<1> SUFFICES ASSUME IInv, Send PROVE IInv'
    OBVIOUS
<1>1. Grown
    BY GrownSteps
<1>2. ~(server = "end" /\ Served) /\ (reset = 1 => ~Served)
    BY DEF Send, IInv, NoEarlyReset, EndOfStream
<1>3. TypeOK'
    <2>1. i' \in 0 .. SEND_COUNT /\ sent' \in 0 .. i' /\ arrived \in 0 .. sent'
        BY Counts DEF Send, IInv, TypeOK
    <2> QED
        BY <1>1, <2>1 DEF Send, Leave, IInv, TypeOK, Grown
<1>4. ClosedAfterAll'
    BY <1>1 DEF Send, Leave, IInv, TypeOK, ClosedAfterAll, Grown
<1>5. NoEarlyReset'
    <2>1. Fails("send") => ~AllSent'
        BY FailsGrows DEF IInv, AllSent
    <2> QED
        BY <1>1, <2>1 DEF Send, IInv, NoEarlyReset, Grown
<1>6. EndOfStream'
    <2>1. client' = "killed" => ~Served
        BY <1>2 DEF Send, Leave, IInv, EndOfStream
    <2> QED
        BY <1>1, <1>2, <2>1 DEF Send, IInv, EndOfStream, Grown
<1> QED
    BY <1>3, <1>4, <1>5, <1>6 DEF IInv

LEMMA JoinIInv == IInv /\ Join => IInv'
<1> SUFFICES ASSUME IInv, Join PROVE IInv'
    OBVIOUS
<1>1. Grown
    BY GrownSteps
<1>2. TypeOK' /\ ClosedAfterAll'
    BY <1>1 DEF Join, link, IInv, TypeOK, ClosedAfterAll, Grown
<1>3. NoEarlyReset' /\ EndOfStream'
    BY <1>1 DEF Join, link, IInv, TypeOK, NoEarlyReset, EndOfStream, Grown
<1> QED
    BY <1>2, <1>3 DEF IInv

\* After the end of a stream that was served nothing is on its way any more, so that no
\* segment is answered by a reset.
LEMMA DeliverIInv == IInv /\ Deliver => IInv'
<1> SUFFICES ASSUME IInv, Deliver PROVE IInv'
    OBVIOUS
<1>1. Grown
    BY GrownSteps
<1>2. ~(server = "end" /\ Served)
    BY Counts DEF Deliver, IInv, EndOfStream
<1>3. TypeOK'
    <2>1. arrived' \in 0 .. sent /\ received \in 0 .. arrived'
        BY Counts DEF Deliver, IInv
    <2> QED
        BY <1>1, <2>1 DEF Deliver, IInv, TypeOK, Grown
<1>4. ClosedAfterAll'
    BY <1>1 DEF Deliver, IInv, TypeOK, ClosedAfterAll, Grown
<1>5. NoEarlyReset' /\ EndOfStream'
    BY <1>1, <1>2 DEF Deliver, IInv, TypeOK, NoEarlyReset, EndOfStream, Grown
<1> QED
    BY <1>3, <1>4, <1>5 DEF IInv

LEMMA StepIInv == IInv /\ [Next]_vars => IInv'
<1> SUFFICES ASSUME IInv, [Next]_vars PROVE IInv'
    OBVIOUS
<1>1. CASE Server
    BY <1>1, CreateBindIInv, ListenIInv, AcceptIInv, RecvIInv, BadfIInv DEF Server
<1>2. CASE Client
    BY <1>2, CreateBindIInv, ConnectIInv, SendIInv, JoinIInv DEF Client
<1>3. CASE Deliver
    BY <1>3, DeliverIInv
<1>4. CASE UNCHANGED vars
    BY <1>4, SameFailed DEF vars, IInv, TypeOK, ClosedAfterAll, NoEarlyReset, EndOfStream
<1> QED
    BY <1>1, <1>2, <1>3, <1>4 DEF Next

\* The inductive invariant holds in every state the two programs reach.
THEOREM Invariance == Spec => []IInv
BY InitIInv, StepIInv, PTL DEF Spec

\* The server of socket_TP ends, unless its own calls fail, only after it has received
\* every message the client's SEND_COUNT sends have put on the connection, and all
\* SEND_COUNT of them when no send failed.
THEOREM ServerReceivesAll == Spec => []AllReceived
<1>1. IInv => AllReceived
    BY DEF IInv, NoEarlyReset, EndOfStream, AllReceived, AllSent
<1> QED
    BY <1>1, Invariance, PTL

\* SIGPIPE reaches the client only after a failed accept or recv of the server: when
\* listen has failed there is no connection to reset.
THEOREM ClientKilledByFailure == Spec => []KilledByFailure
<1>1. IInv => KilledByFailure
    BY DEF IInv, ClosedAfterAll, EndOfStream, KilledByFailure, Served, Opened
<1> QED
    BY <1>1, Invariance, PTL
=============================================================================
