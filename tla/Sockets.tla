------------------------------- MODULE Sockets -------------------------------
(***************************************************************************)
(* socket_TP: a server that accepts one connection and receives until the  *)
(* other side closes, and a client that connects with retries, sends       *)
(* SEND_COUNT messages and closes.  2node_recv and 2node_send are two      *)
(* processes; in single_node the server is a thread of the process whose   *)
(* main is the client and then joins the server.                           *)
(*                                                                         *)
(* The connection is the kernel's: a client connects as soon as the server *)
(* listens, before it has accepted, and what is sent arrives in order and  *)
(* some time later, so that one recv may return several messages.  Data is *)
(* counted in messages, of which the receive buffer holds more than        *)
(* SEND_COUNT.                                                             *)
(***************************************************************************)
EXTENDS Integers

CONSTANTS
    CONNECT_RETRY,
    SEND_COUNT,
    Faulty      \* calls that may fail

ASSUME SocketsAssumption ==
    /\ CONNECT_RETRY \in Nat /\ SEND_COUNT \in Nat
    /\ Faulty \subseteq {"pthread_create", "bind", "listen", "accept", "recv",
                         "connect", "send", "pthread_join"}

VARIABLES
    nodes,          \* 2: two processes, 1: single_node
    server,         \* where the server is
    client,         \* where the client is
    bound,          \* 1: the server's socket has the port the client connects to
    connected,      \* 1: the kernel has made the connection
    retry_count,
    i,              \* the client's loop counter
    sent,           \* messages that send has taken
    arrived,        \* of those, messages that have reached the server's kernel
    received,       \* of those, messages that recv has returned
    recv_count,     \* calls of recv that returned data
    reset,          \* 1: a segment of the client has met the server's closed socket
    failed          \* the calls that have failed (history)

vars == <<nodes, server, client, bound, connected, retry_count, i, sent, arrived, received,
          recv_count, reset, failed>>
link == <<connected, i, sent, arrived, received>>

Init ==
    /\ nodes \in {1, 2}
    /\ server = IF nodes = 2 THEN "socket" ELSE "none"
    /\ client = IF nodes = 2 THEN "connect" ELSE "create"
    /\ bound = 0 /\ connected = 0 /\ retry_count = 0
    /\ i = 0 /\ sent = 0 /\ arrived = 0 /\ received = 0 /\ recv_count = 0
    /\ reset = 0
    /\ failed = {}

Fails(call) == call \in Faulty /\ failed' = failed \cup {call}

\* main of single_node; the value of pthread_create is not looked at.
Create ==
    /\ client = "create"
    /\ \/ server' = "socket" /\ UNCHANGED failed
       \/ Fails("pthread_create") /\ UNCHANGED server
    /\ client' = "connect"
    /\ UNCHANGED <<nodes, bound, retry_count, link, recv_count, reset>>
-----------------------------------------------------------------------------
\* socket and bind; a failing bind is not noticed, and listen then takes another port.
Bind ==
    /\ server = "socket"
    /\ server' = "bound"
    /\ \/ bound' = 1 /\ UNCHANGED failed
       \/ Fails("bind") /\ UNCHANGED bound
    /\ UNCHANGED <<nodes, client, retry_count, link, recv_count, reset>>

\* A failing listen is not noticed either: accept then fails at once.
Listen ==
    /\ server = "bound"
    /\ \/ server' = "accept" /\ UNCHANGED failed
       \/ Fails("listen") /\ server' = "badf"
    /\ UNCHANGED <<nodes, client, bound, retry_count, link, recv_count, reset>>

\* accept blocks until there is a connection.  When it fails, recv is called with
\* descriptor -1 and fails too.
Accept ==
    /\ server = "accept"
    /\ \/ connected = 1 /\ server' = "recv" /\ UNCHANGED failed
       \/ Fails("accept") /\ server' = "badf"
    /\ UNCHANGED <<nodes, client, bound, retry_count, link, recv_count, reset>>

Closed == client \in {"join", "exited"} /\ connected = 1

Recv_stops_short ==
    /\ server = "recv"
    /\ \/ /\ received < arrived
          /\ received' = arrived
          /\ recv_count' = recv_count + 1
          /\ server' = IF received = 0 THEN "recv" ELSE "end"
          /\ UNCHANGED failed
       \/ /\ received = arrived /\ arrived = sent /\ Closed
          /\ server' = "end"
          /\ UNCHANGED <<received, recv_count, failed>>
       \/ /\ Fails("recv")
          /\ server' = "end"
          /\ UNCHANGED <<received, recv_count>>
    /\ UNCHANGED <<nodes, client, bound, retry_count, connected, i, sent, arrived, reset>>

Recv_no_eof ==
    /\ server = "recv"
    /\ \/ /\ received < arrived
          /\ received' = arrived
          /\ recv_count' = recv_count + 1
          /\ UNCHANGED <<server, failed>>
       \/ /\ Fails("recv")
          /\ server' = "end"
          /\ UNCHANGED <<received, recv_count>>
    /\ UNCHANGED <<nodes, client, bound, retry_count, connected, i, sent, arrived, reset>>

\* One turn of the receive loop: everything that has arrived, or 0 when the client
\* has closed and all is read; 0 and an error end the loop with close.
Recv ==
    /\ server = "recv"
    /\ \/ /\ received < arrived
          /\ received' = arrived
          /\ recv_count' = recv_count + 1
          /\ UNCHANGED <<server, failed>>
       \/ /\ received = arrived /\ arrived = sent /\ Closed
          /\ server' = "end"
          /\ UNCHANGED <<received, recv_count, failed>>
       \/ /\ Fails("recv")
          /\ server' = "end"
          /\ UNCHANGED <<received, recv_count>>
    /\ UNCHANGED <<nodes, client, bound, retry_count, connected, i, sent, arrived, reset>>

\* recv(-1) fails, the loop ends, and the process or the thread with it.
Recv_badf ==
    /\ server = "badf"
    /\ server' = "end"
    /\ UNCHANGED <<nodes, client, bound, retry_count, link, recv_count, reset, failed>>
-----------------------------------------------------------------------------
\* The socket is in the listening state, with room for one connection; the server
\* process takes it away when it ends, a thread does not.
Listening ==
    /\ bound = 1 /\ "listen" \notin failed
    /\ server \in {"accept", "recv", "badf"} \/ (server = "end" /\ nodes = 1)

\* After main of 2node_send, or socket_client_create and the join in single_node.
Leave == IF nodes = 2 THEN "exited" ELSE "join"

\* One connect and, when it is refused, the decision to try again a second later.
Connect ==
    /\ client = "connect"
    /\ \/ /\ Listening
          /\ connected' = 1
          /\ client' = "send"
          /\ UNCHANGED <<retry_count, failed>>
       \/ /\ \/ ~Listening /\ UNCHANGED failed
             \/ Fails("connect")
          /\ IF CONNECT_RETRY < retry_count
             THEN client' = Leave /\ UNCHANGED retry_count
             ELSE retry_count' = retry_count + 1 /\ UNCHANGED client
          /\ UNCHANGED connected
    /\ UNCHANGED <<nodes, server, bound, i, sent, arrived, received, recv_count, reset>>

Send_one_less ==
    /\ client = "send"
    /\ \/ i + 1 < SEND_COUNT /\ i' = i + 1 /\ sent' = sent + 1 /\ UNCHANGED <<client, failed>>
       \/ i + 1 < SEND_COUNT /\ i' = i + 1 /\ Fails("send") /\ UNCHANGED <<client, sent>>
       \/ i + 1 = SEND_COUNT /\ client' = Leave /\ UNCHANGED <<i, sent, failed>>
    /\ UNCHANGED <<nodes, server, bound, connected, retry_count, arrived, received, recv_count, reset>>

\* One send and the sleep after it, or the close.  A send that returns -1 is printed
\* and forgotten: the message is lost and the loop goes on.  On a connection that was
\* reset send fails like that, or raises SIGPIPE, which nobody handles: the process is
\* gone, with the server thread of single_node in it.
Send ==
    /\ client = "send"
    /\ \/ i < SEND_COUNT /\ reset = 0 /\ i' = i + 1 /\ sent' = sent + 1 /\ UNCHANGED <<client, failed>>
       \/ i < SEND_COUNT /\ reset = 0 /\ i' = i + 1 /\ Fails("send") /\ UNCHANGED <<client, sent>>
       \/ i < SEND_COUNT /\ reset = 1 /\ i' = i + 1 /\ UNCHANGED <<client, sent, failed>>
       \/ i < SEND_COUNT /\ reset = 1 /\ client' = "killed" /\ UNCHANGED <<i, sent, failed>>
       \/ i = SEND_COUNT /\ client' = Leave /\ UNCHANGED <<i, sent, failed>>
    /\ UNCHANGED <<nodes, server, bound, connected, retry_count, arrived, received, recv_count, reset>>

\* pthread_join, whose value is not looked at: when it fails the process ends, with
\* the server thread wherever it is.  Without a server thread the identifier is
\* uninitialized: the call returns an error or the process crashes, and it ends either way.
Join ==
    /\ client = "join"
    /\ \/ server \in {"end", "none"} /\ UNCHANGED failed
       \/ Fails("pthread_join")
    /\ client' = "exited"
    /\ UNCHANGED <<nodes, server, bound, retry_count, link, recv_count, reset>>

\* The network: the next message arrives.  At a closed socket it is answered by a
\* reset; a connection nobody has accepted stays open as long as the listening socket,
\* which only ends with its process.
Deliver ==
    /\ arrived < sent
    /\ arrived' = arrived + 1
    /\ reset' = IF server = "end" /\ ~(nodes = 1 /\ "accept" \in failed) THEN 1 ELSE reset
    /\ UNCHANGED <<nodes, server, client, bound, connected, retry_count, i, sent, received, recv_count, failed>>

ServerAlive == ~(nodes = 1 /\ client \in {"exited", "killed"})
Server == ServerAlive /\ (Bind \/ Listen \/ Accept \/ Recv \/ Recv_badf)
Client == Create \/ Connect \/ Send \/ Join
Next == Server \/ Client \/ Deliver

Spec == Init /\ [][Next]_vars

\* Both programs are scheduled and the network delivers; nobody is owed a failure.
FairSpec ==
    /\ Spec
    /\ WF_vars(Server /\ failed' = failed)
    /\ WF_vars(Client /\ failed' = failed)
    /\ WF_vars(Deliver)
-----------------------------------------------------------------------------
\* The variables have their types; no more arrives than was sent, and retry_count
\* stops one above CONNECT_RETRY.
TypeOK ==
    /\ nodes \in {1, 2}
    /\ server \in {"none", "socket", "bound", "accept", "badf", "recv", "end"}
    /\ client \in {"create", "connect", "send", "join", "exited", "killed"}
    /\ bound \in {0, 1} /\ connected \in {0, 1} /\ reset \in {0, 1}
    /\ retry_count \in 0 .. CONNECT_RETRY + 1
    /\ i \in 0 .. SEND_COUNT /\ sent \in 0 .. i /\ arrived \in 0 .. sent /\ received \in 0 .. arrived
    /\ recv_count \in 0 .. received
    /\ failed \subseteq Faulty

GaveUp == client \in {"join", "exited"} /\ connected = 0

\* A server none of whose own calls has failed ends with all that its client sent: the
\* client has had its SEND_COUNT turns, every message that send took was received
\* before the 0 that ends the loop, however the stream was cut into recv calls, and the
\* messages are short of SEND_COUNT only by those whose send failed, which the client
\* prints and does not repeat.
Served == failed \cap {"listen", "accept", "recv"} = {}
AllReceived ==
    server = "end" /\ Served =>
        /\ i = SEND_COUNT /\ received = sent
        /\ "send" \notin failed => received = SEND_COUNT

\* Only a server that has failed to accept or to receive kills its client: in a test
\* without failing calls no send meets a closed connection.
KilledByFailure == client = "killed" => failed \cap {"accept", "recv"} # {}

\* The two programs end, unless the client has used up its retries before the server
\* listened at the port: nothing then ends the server's accept, nor the join of
\* single_node.
Ended == client \in {"exited", "killed"} /\ (server \in {"end", "none"} \/ ~ServerAlive)
BothEnd == <>(Ended \/ (GaveUp /\ server = "accept"))
==============================================================================
