---------------------------- MODULE AgentBridge -----------------------------
(***************************************************************************)
(* CAgentBridge (xrEngine/AgentBridge.cpp): a socket thread that accepts   *)
(* one client at a time, reads its request lines and writes the responses, *)
(* and the engine thread that drains the requests once a frame, handles    *)
(* them and queues the responses.  The two deques are the only state they  *)
(* share.  The clients are those of tools/agentctl.py: the requests of a   *)
(* connection are numbered from 1, and a line with a number nobody waits   *)
(* for is skipped.                                                         *)
(***************************************************************************)
EXTENDS Integers, Sequences

CONSTANTS
    Clients,       \* the clients that may connect, each once
    Nobody,        \* s_clientFd < 0
    MaxSends,      \* bound: requests of one client
    BufferSize,    \* bound: responses a connection holds before write blocks
    PipeFatal      \* TRUE: SIGPIPE has its default action, the process ends

ASSUME NobodyAssumption == Nobody \notin Clients
ASSUME BoundsAssumption == MaxSends \in Nat /\ BufferSize \in Nat \ {0}

Rids == 1..MaxSends
Messages == [owner : Clients, rid : Rids]     \* a request, or the response to it

VARIABLES
    requests,    \* m_requests
    responses,   \* m_responses
    shutdown,    \* m_shutdown
    clientFd,    \* s_clientFd
    inbuf,       \* the lines SocketThreadProc has read and not yet queued
    out,         \* the response it took off the queue, if any
    sockPc,      \* where it is in its loop
    mainPc,      \* where the engine thread is: in OnFrame or ~CAgentBridge
    current,     \* the request it is handling, if any
    alive,       \* the process is
    backlog,     \* connections the kernel holds for accept
    conn,        \* client -> "new", "open" or "closed", as the client sees it
    toServer, toClient,     \* client -> what is on the wire
    sent,        \* client -> how many requests it has sent
    awaited,     \* client -> the numbers it waits for
    taken        \* history: client -> the responses it took for its own

bridgeVars == <<requests, responses, shutdown, clientFd, inbuf, out, sockPc,
                mainPc, current, alive>>
clientVars == <<backlog, conn, toServer, toClient, sent, awaited, taken>>
vars == <<bridgeVars, clientVars>>

Init ==
    /\ requests = <<>> /\ responses = <<>>
    /\ shutdown = FALSE
    /\ clientFd = Nobody
    /\ inbuf = <<>> /\ out = <<>>
    /\ sockPc = "top" /\ mainPc = "frame"
    /\ current = <<>>
    /\ alive = TRUE
    /\ backlog = <<>>
    /\ conn = [c \in Clients |-> "new"]
    /\ toServer = [c \in Clients |-> <<>>]
    /\ toClient = [c \in Clients |-> <<>>]
    /\ sent = [c \in Clients |-> 0]
    /\ awaited = [c \in Clients |-> {}]
    /\ taken = [c \in Clients |-> <<>>]

-----------------------------------------------------------------------------
(* The clients.                                                            *)

Connect(c) ==
    /\ conn[c] = "new" /\ ~shutdown
    /\ conn' = [conn EXCEPT ![c] = "open"]
    /\ backlog' = Append(backlog, c)
    /\ UNCHANGED <<bridgeVars, toServer, toClient, sent, awaited, taken>>

\* Responses carry ids, so a client may send before it has an answer.
Send(c) ==
    /\ conn[c] = "open" /\ sent[c] < MaxSends
    /\ sent' = [sent EXCEPT ![c] = @ + 1]
    /\ awaited' = [awaited EXCEPT ![c] = @ \cup {sent'[c]}]
    /\ toServer' = [toServer EXCEPT ![c] = Append(@, [owner |-> c, rid |-> sent'[c]])]
    /\ UNCHANGED <<bridgeVars, backlog, conn, toClient, taken>>

Receive(c) ==
    /\ conn[c] = "open" /\ toClient[c] # <<>>
    /\ LET line == Head(toClient[c])
       IN  IF line.rid \in awaited[c]
           THEN /\ awaited' = [awaited EXCEPT ![c] = @ \ {line.rid}]
                /\ taken' = [taken EXCEPT ![c] = Append(@, line)]
           ELSE UNCHANGED <<awaited, taken>>
    /\ toClient' = [toClient EXCEPT ![c] = Tail(@)]
    /\ UNCHANGED <<bridgeVars, backlog, conn, toServer, sent>>

\* A client is done, gives up waiting, or is killed.
Close(c) ==
    /\ conn[c] = "open"
    /\ conn' = [conn EXCEPT ![c] = "closed"]
    /\ UNCHANGED <<bridgeVars, backlog, toServer, toClient, sent, awaited, taken>>

-----------------------------------------------------------------------------
(* The socket thread.                                                      *)

\* MUTANT: the thread looks at m_shutdown only while nobody is connected.
MayExitIdle == shutdown /\ clientFd = Nobody
MayExit == shutdown

Exit ==
    /\ alive /\ sockPc = "top" /\ MayExit
    /\ sockPc' = "exited"
    /\ clientFd' = Nobody
    /\ UNCHANGED <<requests, responses, shutdown, inbuf, out, mainPc, current, alive,
                   clientVars>>

Accept ==
    /\ alive /\ sockPc = "top" /\ ~shutdown
    /\ clientFd = Nobody /\ backlog # <<>>
    /\ clientFd' = Head(backlog)
    /\ backlog' = Tail(backlog)
    /\ inbuf' = <<>>
    /\ UNCHANGED <<requests, responses, shutdown, out, sockPc, mainPc, current, alive,
                   conn, toServer, toClient, sent, awaited, taken>>

StartFlush ==
    /\ alive /\ sockPc = "top" /\ ~shutdown
    /\ clientFd # Nobody
    /\ sockPc' = "flush"
    /\ UNCHANGED <<requests, responses, shutdown, clientFd, inbuf, out, mainPc, current,
                   alive, clientVars>>

TakeResponse ==
    /\ alive /\ sockPc = "flush" /\ responses # <<>>
    /\ out' = <<Head(responses)>>
    /\ responses' = Tail(responses)
    /\ sockPc' = "write"
    /\ UNCHANGED <<requests, shutdown, clientFd, inbuf, mainPc, current, alive, clientVars>>

\* write blocks while the connection is full and its client does not read.
WriteResponse ==
    /\ alive /\ sockPc = "write" /\ conn[clientFd] = "open"
    /\ Len(toClient[clientFd]) < BufferSize
    /\ toClient' = [toClient EXCEPT ![clientFd] = @ \o out]
    /\ out' = <<>>
    /\ sockPc' = "flush"
    /\ UNCHANGED <<requests, responses, shutdown, clientFd, inbuf, mainPc, current, alive,
                   backlog, conn, toServer, sent, awaited, taken>>

\* The client has gone: SIGPIPE, or an error that drops the response and the
\* connection but neither deque.
WriteFails ==
    /\ alive /\ sockPc = "write" /\ conn[clientFd] = "closed"
    /\ alive' = ~PipeFatal
    /\ out' = <<>>
    /\ clientFd' = Nobody
    /\ sockPc' = "top"
    /\ UNCHANGED <<requests, responses, shutdown, inbuf, mainPc, current, clientVars>>

FlushDone ==
    /\ alive /\ sockPc = "flush" /\ responses = <<>>
    /\ sockPc' = "read"
    /\ UNCHANGED <<requests, responses, shutdown, clientFd, inbuf, out, mainPc, current,
                   alive, clientVars>>

\* poll timed out.
NothingToRead ==
    /\ alive /\ sockPc = "read"
    /\ toServer[clientFd] = <<>> /\ conn[clientFd] = "open"
    /\ sockPc' = "top"
    /\ UNCHANGED <<requests, responses, shutdown, clientFd, inbuf, out, mainPc, current,
                   alive, clientVars>>

\* One read brings in some of the lines on the wire, the first at least.
ReadLines(n) ==
    /\ alive /\ sockPc = "read"
    /\ n \in 1..Len(toServer[clientFd])
    /\ inbuf' = inbuf \o SubSeq(toServer[clientFd], 1, n)
    /\ toServer' = [toServer EXCEPT ![clientFd] = SubSeq(@, n + 1, Len(@))]
    /\ sockPc' = "queue"
    /\ UNCHANGED <<requests, responses, shutdown, clientFd, out, mainPc, current, alive,
                   backlog, conn, toClient, sent, awaited, taken>>

\* MUTANT: one line is queued for each read, the others have to wait.
OneLineOnly(lines) == "top"
\* All the lines of a chunk are queued before the loop goes on.
AfterLine(lines) == IF lines = <<>> THEN "top" ELSE "queue"

QueueLine ==
    /\ alive /\ sockPc = "queue"
    /\ requests' = Append(requests, Head(inbuf))
    /\ inbuf' = Tail(inbuf)
    /\ sockPc' = AfterLine(inbuf')
    /\ UNCHANGED <<responses, shutdown, clientFd, out, mainPc, current, alive, clientVars>>

\* MUTANT: a disconnect leaves what was asked, or what was answered.
Left(queue) == queue
DroppedRequests(queue) == <<>>
DroppedResponses(queue) == <<>>

Disconnected ==
    /\ alive /\ sockPc = "read"
    /\ toServer[clientFd] = <<>> /\ conn[clientFd] = "closed"
    /\ clientFd' = Nobody
    /\ requests' = DroppedRequests(requests)
    /\ responses' = DroppedResponses(responses)
    /\ sockPc' = "top"
    /\ UNCHANGED <<shutdown, inbuf, out, mainPc, current, alive, clientVars>>

-----------------------------------------------------------------------------
(* The engine thread.                                                      *)

\* OnFrame takes the requests one by one until there are none.
TakeRequest ==
    /\ alive /\ mainPc = "frame" /\ requests # <<>>
    /\ current' = <<Head(requests)>>
    /\ requests' = Tail(requests)
    /\ mainPc' = "handling"
    /\ UNCHANGED <<responses, shutdown, clientFd, inbuf, out, sockPc, alive, clientVars>>

\* MUTANT: the latest response goes out first.
PushFront(queue, msgs) == msgs \o queue
PushBack(queue, msgs) == queue \o msgs

Respond ==
    /\ alive /\ mainPc = "handling"
    /\ responses' = PushBack(responses, current)
    /\ current' = <<>>
    /\ mainPc' = "frame"
    /\ UNCHANGED <<requests, shutdown, clientFd, inbuf, out, sockPc, alive, clientVars>>

\* The destructor: the flag, the listening socket, the join.
BeginDestroy ==
    /\ alive /\ mainPc = "frame"
    /\ shutdown' = TRUE
    /\ backlog' = <<>>
    /\ mainPc' = "joining"
    /\ UNCHANGED <<requests, responses, clientFd, inbuf, out, sockPc, current, alive,
                   conn, toServer, toClient, sent, awaited, taken>>

Join ==
    /\ alive /\ mainPc = "joining" /\ sockPc = "exited"
    /\ mainPc' = "gone"
    /\ UNCHANGED <<requests, responses, shutdown, clientFd, inbuf, out, sockPc, current,
                   alive, clientVars>>

-----------------------------------------------------------------------------
SocketThread ==
    \/ Exit \/ Accept \/ StartFlush \/ TakeResponse \/ WriteResponse \/ WriteFails
    \/ FlushDone \/ NothingToRead \/ QueueLine \/ Disconnected
    \/ \E n \in 1..MaxSends : ReadLines(n)

EngineThread == TakeRequest \/ Respond \/ BeginDestroy \/ Join

Next ==
    \/ SocketThread
    \/ EngineThread
    \/ \E c \in Clients : Connect(c) \/ Send(c) \/ Receive(c) \/ Close(c)

Spec == Init /\ [][Next]_vars

\* Both threads run: the socket thread never stops looping, frames go on and
\* a verb returns, the destructor finishes once it began.
ThreadFairness ==
    WF_vars(SocketThread) /\ WF_vars(TakeRequest \/ Respond \/ Join)

FairSpec == Spec /\ ThreadFairness

\* ... and a connected client reads what it is sent.
ReadingSpec == FairSpec /\ \A c \in Clients : WF_vars(Receive(c))
-----------------------------------------------------------------------------
(* Properties.                                                             *)

\* The deques hold messages of clients, each thread is at a known point and
\* holds a message exactly where the code does.
TypeOK ==
    /\ requests \in Seq(Messages) /\ responses \in Seq(Messages)
    /\ inbuf \in Seq(Messages) /\ out \in Seq(Messages) /\ current \in Seq(Messages)
    /\ clientFd \in Clients \cup {Nobody}
    /\ sockPc \in {"top", "flush", "write", "read", "queue", "exited"}
    /\ mainPc \in {"frame", "handling", "joining", "gone"}
    /\ sockPc \in {"flush", "write", "read", "queue"} => clientFd # Nobody
    /\ sockPc = "write" <=> out # <<>>
    /\ sockPc = "queue" <=> inbuf # <<>>
    /\ mainPc = "handling" <=> current # <<>>

\* What is in a queue belongs to the connected client.
Current(queue) == \A i \in DOMAIN queue : queue[i].owner = clientFd

\* "queue cleared": nobody's request is executed for a client that had gone
\* when the next one was accepted; the queue is of the connected client.
RequestsAreCurrent ==
    alive /\ sockPc # "exited" => Current(requests)

\* "pending responses dropped", all but one: of the response being written,
\* those queued and the one being made, in this order, only the first can be
\* for a client that has gone: it was being made when the deques were cleared.
OneStaleResponse ==
    alive /\ sockPc # "exited" =>
        /\ \A i \in DOMAIN responses :
               i > 1 \/ out # <<>> => responses[i].owner = clientFd
        /\ out # <<>> \/ responses # <<>> => Current(current)

\* The inductive invariant behind the two.  The lines on the wire are those of
\* its client, and so are the ones read and not yet queued; each thread holds
\* one message at most.
WireIsOwn ==
    /\ toServer \in [Clients -> Seq(Messages)]
    /\ \A c \in Clients : \A i \in DOMAIN toServer[c] : toServer[c][i].owner = c

ReadIsCurrent == sockPc = "queue" => Current(inbuf)

HandsHoldOne == Len(out) <= 1 /\ Len(current) <= 1

ClientsAreKnown == backlog \in Seq(Clients) /\ sent \in [Clients -> 0..MaxSends]

IInv ==
    /\ TypeOK
    /\ WireIsOwn
    /\ ReadIsCurrent
    /\ HandsHoldOne
    /\ ClientsAreKnown
    /\ RequestsAreCurrent
    /\ OneStaleResponse

\* The responses to a client come in the order of its requests, none twice,
\* through both threads and however its lines were cut into reads.
ResponsesInOrder ==
    \A c \in Clients :
        LET seen == taken[c] \o toClient[c]
        IN  \A i, j \in DOMAIN seen :
                i < j /\ seen[i].owner = c /\ seen[j].owner = c => seen[i].rid < seen[j].rid

\* While it is connected and reads, a client is answered.
ConnectedIsAnswered ==
    \A c \in Clients, rid \in Rids :
        clientFd = c /\ rid \in awaited[c]
            ~> rid \notin awaited[c] \/ conn[c] = "closed" \/ shutdown \/ ~alive

\* "Bridge thread join is bounded ... never a hang" (agent-bridge design, line
\* 17): the destructor comes back.
DestroyReturns == mainPc = "joining" ~> mainPc = "gone" \/ ~alive

\* "stale response from a previous client - skip" (tools/agentctl.py:29): what
\* a client takes for the response to its request is one.
AnswersAreOwn ==
    \A c \in Clients : \A i \in 1..Len(taken[c]) : taken[c][i].owner = c
=============================================================================
