--------------------------- MODULE AgentBridgeProofs ---------------------------
(***************************************************************************)
(* Proofs about AgentBridge, for any clients, any number of requests and   *)
(* any size of the connections, of the build as it is (PipeFatal).         *)
(***************************************************************************)
EXTENDS AgentBridge, SequenceTheorems, TLAPS

\* What leaves a queue at its head, and what stays.
LEMMA HeadAndTail ==
    ASSUME NEW S, NEW q \in Seq(S), q # <<>>
    PROVE  /\ Len(q) \in Nat /\ Len(q) >= 1 /\ DOMAIN q = 1..Len(q)
           /\ Head(q) = q[1] /\ Head(q) \in S
           /\ Tail(q) \in Seq(S) /\ DOMAIN Tail(q) = 1..(Len(q) - 1)
           /\ \A i \in 1..(Len(q) - 1) : Tail(q)[i] = q[i + 1]
  OBVIOUS

\* A queue with another message at its end.
LEMMA Appended ==
    ASSUME NEW S, NEW q \in Seq(S), NEW m \in S
    PROVE  /\ Len(q) \in Nat /\ DOMAIN q = 1..Len(q)
           /\ Append(q, m) \in Seq(S) /\ DOMAIN Append(q, m) = 1..(Len(q) + 1)
           /\ Append(q, m)[Len(q) + 1] = m
           /\ \A i \in 1..Len(q) : Append(q, m)[i] = q[i]
           /\ Append(q, m) # <<>>
  OBVIOUS

\* A queue with a queue of one message behind it.
LEMMA JoinedByOne ==
    ASSUME NEW S, NEW q \in Seq(S), NEW m \in Seq(S), Len(m) = 1
    PROVE  /\ q \o m \in Seq(S) /\ Len(q) \in Nat
           /\ DOMAIN q = 1..Len(q) /\ DOMAIN (q \o m) = 1..(Len(q) + 1)
           /\ \A i \in 1..Len(q) : (q \o m)[i] = q[i]
           /\ (q \o m)[Len(q) + 1] = m[1]
<1>1. /\ q \o m \in Seq(S) /\ Len(q \o m) = Len(q) + Len(m)
      /\ \A i \in 1..(Len(q) + Len(m)) :
             (q \o m)[i] = IF i <= Len(q) THEN q[i] ELSE m[i - Len(q)]
  BY ConcatProperties
<1>2. Len(q) \in Nat /\ DOMAIN q = 1..Len(q) /\ DOMAIN (q \o m) = 1..Len(q \o m)
  BY <1>1, LenProperties
<1>3. \A i \in 1..Len(q) : i \in 1..(Len(q) + 1) /\ i <= Len(q)
  BY <1>2
<1>4. Len(q) + 1 \in 1..(Len(q) + 1) /\ ~(Len(q) + 1 <= Len(q)) /\ Len(q) + 1 - Len(q) = 1
  BY <1>2
<1>5. QED
  BY <1>1, <1>2, <1>3, <1>4

\* The lines of one read, and those left on the wire.
LEMMA Split ==
    ASSUME NEW S, NEW q \in Seq(S), NEW n \in 1..Len(q)
    PROVE  /\ SubSeq(q, 1, n) \in Seq(S) /\ SubSeq(q, 1, n) # <<>>
           /\ DOMAIN SubSeq(q, 1, n) = 1..n
           /\ \A i \in 1..n : SubSeq(q, 1, n)[i] = q[i]
           /\ SubSeq(q, n + 1, Len(q)) \in Seq(S)
           /\ DOMAIN SubSeq(q, n + 1, Len(q)) = 1..(Len(q) - n)
           /\ \A i \in 1..(Len(q) - n) : SubSeq(q, n + 1, Len(q))[i] = q[i + n]
  OBVIOUS

\* Nothing is queued, held or on the wire at the start.
LEMMA InitIInv == Init => IInv
  BY NobodyAssumption, BoundsAssumption
  DEF Init, IInv, TypeOK, WireIsOwn, ReadIsCurrent, HandsHoldOne, ClientsAreKnown,
      RequestsAreCurrent, OneStaleResponse, Current, Rids
-----------------------------------------------------------------------------
\* What a client does touches neither deque nor what a thread holds; what it
\* sends is its own.
LEMMA ClientStep ==
    ASSUME IInv, NEW c \in Clients, Connect(c) \/ Send(c) \/ Receive(c) \/ Close(c)
    PROVE  IInv'
<1> USE DEF IInv, ClientsAreKnown, WireIsOwn
<1>1. UNCHANGED bridgeVars
  BY DEF Connect, Send, Receive, Close
<1>2. TypeOK' /\ ReadIsCurrent' /\ HandsHoldOne' /\ RequestsAreCurrent' /\ OneStaleResponse'
  BY <1>1 DEF bridgeVars, TypeOK, ReadIsCurrent, HandsHoldOne, RequestsAreCurrent,
              OneStaleResponse, Current
<1>3. CASE Connect(c)
  <2>1. backlog' \in Seq(Clients)
    BY <1>3, Appended DEF Connect
  <2>2. QED
    BY <1>2, <1>3, <2>1 DEF Connect
<1>4. CASE Send(c)
  <2> DEFINE m == [owner |-> c, rid |-> sent[c] + 1]
  <2>1. sent[c] \in 0..MaxSends /\ sent' = [sent EXCEPT ![c] = sent[c] + 1]
    BY <1>4 DEF Send
  <2>2. sent'[c] = sent[c] + 1 /\ sent[c] + 1 \in 1..MaxSends
    BY <1>4, <2>1, BoundsAssumption DEF Send
  <2>3. m \in Messages
    BY <2>2 DEF Messages, Rids
  <2>4. toServer' = [toServer EXCEPT ![c] = Append(toServer[c], m)]
    BY <1>4, <2>2 DEF Send
  <2>5. /\ Append(toServer[c], m) \in Seq(Messages)
        /\ \A i \in DOMAIN Append(toServer[c], m) : Append(toServer[c], m)[i].owner = c
    <3>1. toServer[c] \in Seq(Messages) /\ m.owner = c
      OBVIOUS
    <3> HIDE DEF m
    <3>2. QED
      BY <2>3, <3>1, Appended
  <2> HIDE DEF m
  <2>6. WireIsOwn'
    BY <2>4, <2>5
  <2>7. ClientsAreKnown'
    BY <1>4, <2>1, <2>2, BoundsAssumption DEF Send
  <2>8. QED
    BY <1>2, <2>6, <2>7
<1>5. CASE Receive(c) \/ Close(c)
  BY <1>2, <1>5 DEF Receive, Close
<1>6. QED
  BY <1>3, <1>4, <1>5

\* Steps that only move a thread, or end a connection nobody has anything on.
LEMMA ThreadStep ==
    ASSUME IInv, \/ Exit \/ StartFlush \/ FlushDone \/ NothingToRead
                 \/ BeginDestroy \/ Join \/ UNCHANGED vars
    PROVE  IInv'
<1> USE DEF IInv
<1>1. UNCHANGED <<requests, responses, inbuf, out, current, alive, toServer, sent>>
  BY DEF Exit, StartFlush, FlushDone, NothingToRead, BeginDestroy, Join, vars,
         bridgeVars, clientVars
<1>2. UNCHANGED clientFd \/ sockPc' = "exited"
  BY DEF Exit, StartFlush, FlushDone, NothingToRead, BeginDestroy, Join, vars, bridgeVars
<1>3. backlog' = backlog \/ backlog' = <<>>
  BY DEF Exit, StartFlush, FlushDone, NothingToRead, BeginDestroy, Join, vars, clientVars
<1>4. TypeOK'
  BY <1>1 DEF TypeOK, Exit, StartFlush, FlushDone, NothingToRead, BeginDestroy, Join,
              vars, bridgeVars
<1>5. sockPc' = "queue" => sockPc = "queue" /\ UNCHANGED clientFd
  BY DEF Exit, StartFlush, FlushDone, NothingToRead, BeginDestroy, Join, vars, bridgeVars
<1>6. sockPc' # "exited" => sockPc # "exited" /\ UNCHANGED clientFd
  BY DEF Exit, StartFlush, FlushDone, NothingToRead, BeginDestroy, Join, vars, bridgeVars
<1>7. RequestsAreCurrent' /\ OneStaleResponse' /\ ReadIsCurrent'
  BY <1>1, <1>5, <1>6 DEF RequestsAreCurrent, OneStaleResponse, ReadIsCurrent, Current
<1>8. WireIsOwn' /\ HandsHoldOne'
  BY <1>1 DEF WireIsOwn, HandsHoldOne
<1>9. backlog' \in Seq(Clients)
  <2>1. <<>> \in Seq(Clients) /\ backlog \in Seq(Clients)
    BY DEF ClientsAreKnown
  <2>2. QED
    BY <1>3, <2>1
<1>10. ClientsAreKnown'
  BY <1>1, <1>9 DEF ClientsAreKnown
<1>11. QED
  BY <1>4, <1>7, <1>8, <1>10

\* Nothing in the deques is anybody's while nobody is connected: requests is
\* empty, and there is one response at most, made or still being made.
LEMMA AcceptStep ==
    ASSUME IInv, Accept
    PROVE  IInv'
<1> USE DEF IInv
<1>1. /\ requests \in Seq(Messages) /\ responses \in Seq(Messages)
      /\ current \in Seq(Messages) /\ \A m \in Messages : m.owner # Nobody
      /\ alive /\ sockPc = "top" /\ clientFd = Nobody /\ backlog # <<>>
      /\ out = <<>>
  BY NobodyAssumption DEF Accept, TypeOK, Messages
<1>2. /\ UNCHANGED <<requests, responses, out, sockPc, mainPc, current, alive, toServer, sent>>
      /\ inbuf' = <<>> /\ clientFd' = Head(backlog) /\ backlog' = Tail(backlog)
  BY DEF Accept
<1>3. requests = <<>>
  BY <1>1 DEF RequestsAreCurrent, Current
<1>4. \A i \in DOMAIN responses : ~(i > 1)
  BY <1>1 DEF OneStaleResponse
<1>5. responses # <<>> => current = <<>>
  BY <1>1 DEF OneStaleResponse, Current
<1>6. RequestsAreCurrent'
  BY <1>2, <1>3 DEF RequestsAreCurrent, Current
<1>7. OneStaleResponse'
  BY <1>1, <1>2, <1>4, <1>5 DEF OneStaleResponse, Current
<1>8. ReadIsCurrent' /\ HandsHoldOne'
  BY <1>1, <1>2 DEF ReadIsCurrent, HandsHoldOne
<1>9. Head(backlog) \in Clients /\ Tail(backlog) \in Seq(Clients)
  BY <1>1, HeadAndTail DEF ClientsAreKnown
<1>10. WireIsOwn' /\ ClientsAreKnown'
  BY <1>2, <1>9 DEF WireIsOwn, ClientsAreKnown
<1>11. TypeOK'
  BY <1>1, <1>2, <1>9 DEF TypeOK
<1>12. QED
  BY <1>6, <1>7, <1>8, <1>10, <1>11

\* A write that succeeds hands the first in line over; one that fails ends
\* the process.
LEMMA WriteStep ==
    ASSUME IInv, PipeFatal = TRUE, TakeResponse \/ WriteResponse \/ WriteFails
    PROVE  IInv'
<1> USE DEF IInv
<1>1. /\ UNCHANGED <<requests, inbuf, current, toServer, backlog, sent>>
      /\ sockPc' # "queue" /\ sockPc # "queue"
  BY DEF TakeResponse, WriteResponse, WriteFails, clientVars
<1>2. WireIsOwn' /\ ClientsAreKnown' /\ ReadIsCurrent'
  BY <1>1 DEF WireIsOwn, ClientsAreKnown, ReadIsCurrent
<1>3. CASE TakeResponse
  <2>1. /\ responses \in Seq(Messages) /\ responses # <<>> /\ out = <<>>
        /\ responses' = Tail(responses) /\ out' = <<Head(responses)>>
        /\ UNCHANGED <<clientFd, mainPc, alive, current>>
        /\ sockPc = "flush" /\ sockPc' = "write"
    BY <1>3 DEF TakeResponse, TypeOK
  <2>2. /\ Len(responses) \in Nat /\ DOMAIN responses = 1..Len(responses)
        /\ Head(responses) \in Messages
        /\ responses' \in Seq(Messages) /\ DOMAIN responses' = 1..(Len(responses) - 1)
        /\ \A i \in 1..(Len(responses) - 1) : responses'[i] = responses[i + 1]
    BY <2>1, HeadAndTail
  <2>3. out' \in Seq(Messages) /\ Len(out') = 1 /\ out' # <<>>
    BY <2>1, <2>2
  <2>4. TypeOK' /\ HandsHoldOne'
    BY <1>1, <2>1, <2>2, <2>3 DEF TypeOK, HandsHoldOne
  <2>5. \A i \in DOMAIN responses' :
            i + 1 \in DOMAIN responses /\ i + 1 > 1 /\ responses'[i] = responses[i + 1]
    BY <2>2
  <2>6. RequestsAreCurrent' /\ OneStaleResponse'
    BY <1>1, <2>1, <2>5 DEF RequestsAreCurrent, OneStaleResponse, Current
  <2>7. QED
    BY <1>2, <2>4, <2>6
<1>4. CASE WriteResponse
  <2>1. /\ UNCHANGED <<responses, clientFd, mainPc, alive, current>>
        /\ sockPc = "write" /\ sockPc' = "flush" /\ out' = <<>> /\ out # <<>>
    BY <1>4 DEF WriteResponse, TypeOK
  <2>2. TypeOK' /\ HandsHoldOne'
    BY <1>1, <2>1 DEF TypeOK, HandsHoldOne
  <2>3. RequestsAreCurrent' /\ OneStaleResponse'
    BY <1>1, <2>1 DEF RequestsAreCurrent, OneStaleResponse, Current
  <2>4. QED
    BY <1>2, <2>2, <2>3
<1>5. CASE WriteFails
  <2>1. ~alive'
    BY <1>5 DEF WriteFails
  <2>2. TypeOK' /\ HandsHoldOne'
    BY <1>1, <1>5 DEF WriteFails, TypeOK, HandsHoldOne
  <2>3. QED
    BY <1>2, <2>1, <2>2 DEF RequestsAreCurrent, OneStaleResponse
<1>6. QED
  BY <1>3, <1>4, <1>5

\* One read takes lines of the connected client off the wire.
LEMMA ReadStep ==
    ASSUME IInv, NEW n \in 1..MaxSends, ReadLines(n)
    PROVE  IInv'
<1> USE DEF IInv
<1>1. /\ UNCHANGED <<requests, responses, out, clientFd, mainPc, current, alive, backlog, sent>>
      /\ sockPc = "read" /\ sockPc' = "queue"
      /\ clientFd \in Clients /\ inbuf = <<>>
  BY DEF ReadLines, TypeOK
<1> DEFINE wire == toServer[clientFd]
<1>2. wire \in Seq(Messages) /\ n \in 1..Len(wire)
  BY <1>1 DEF WireIsOwn, ReadLines
<1>3. DOMAIN wire = 1..Len(wire) /\ Len(wire) \in Nat
  BY <1>2
<1>4. inbuf' = SubSeq(wire, 1, n)
  <2>1. SubSeq(wire, 1, n) \in Seq(Messages)
    BY <1>2, Split
  <2>2. QED
    BY <1>1, <2>1 DEF ReadLines
<1>5. toServer' = [toServer EXCEPT ![clientFd] = SubSeq(wire, n + 1, Len(wire))]
  BY DEF ReadLines
<1>6. \A i \in 1..Len(wire) : wire[i].owner = clientFd
  BY <1>1, <1>3 DEF WireIsOwn
<1>7. /\ inbuf' \in Seq(Messages) /\ inbuf' # <<>>
      /\ \A i \in DOMAIN inbuf' : inbuf'[i].owner = clientFd
  <2> HIDE DEF wire
  <2>1. /\ SubSeq(wire, 1, n) \in Seq(Messages) /\ SubSeq(wire, 1, n) # <<>>
        /\ DOMAIN SubSeq(wire, 1, n) = 1..n
        /\ \A i \in 1..n : SubSeq(wire, 1, n)[i] = wire[i]
    BY <1>2, Split, ZenonT(30)
  <2>2. \A i \in 1..n : i \in 1..Len(wire)
    BY <1>2, <1>3
  <2>3. QED
    BY <1>4, <1>6, <2>1, <2>2
<1>8. /\ SubSeq(wire, n + 1, Len(wire)) \in Seq(Messages)
      /\ \A i \in DOMAIN SubSeq(wire, n + 1, Len(wire)) :
             SubSeq(wire, n + 1, Len(wire))[i].owner = clientFd
  <2> HIDE DEF wire
  <2>1. \A i \in 1..(Len(wire) - n) : i + n \in 1..Len(wire)
    BY <1>2, <1>3
  <2>2. QED
    BY <1>2, <1>6, <2>1, Split
<1> HIDE DEF wire
<1>9. WireIsOwn'
  BY <1>1, <1>5, <1>8 DEF WireIsOwn
<1>10. TypeOK' /\ ReadIsCurrent' /\ HandsHoldOne' /\ ClientsAreKnown'
  BY <1>1, <1>7 DEF TypeOK, ReadIsCurrent, HandsHoldOne, ClientsAreKnown, Current
<1>11. RequestsAreCurrent' /\ OneStaleResponse'
  BY <1>1 DEF RequestsAreCurrent, OneStaleResponse, Current
<1>12. QED
  BY <1>9, <1>10, <1>11

\* A line the connected client sent becomes a request.
LEMMA QueueStep ==
    ASSUME IInv, QueueLine
    PROVE  IInv'
<1> USE DEF IInv
<1>1. /\ UNCHANGED <<responses, out, clientFd, mainPc, current, alive, toServer, backlog, sent>>
      /\ sockPc = "queue" /\ sockPc' = IF inbuf' = <<>> THEN "top" ELSE "queue"
      /\ inbuf \in Seq(Messages) /\ inbuf # <<>> /\ requests \in Seq(Messages)
      /\ requests' = Append(requests, Head(inbuf)) /\ inbuf' = Tail(inbuf)
      /\ clientFd # Nobody
  BY DEF QueueLine, AfterLine, TypeOK, clientVars
<1>2. /\ Head(inbuf) \in Messages /\ Head(inbuf).owner = clientFd
      /\ inbuf' \in Seq(Messages) /\ \A i \in DOMAIN inbuf' : inbuf'[i].owner = clientFd
  <2>1. \A i \in 1..Len(inbuf) : inbuf[i].owner = clientFd
    BY <1>1, HeadAndTail DEF ReadIsCurrent, Current
  <2>2. QED
    BY <1>1, <2>1, HeadAndTail
<1>3. /\ requests' \in Seq(Messages)
      /\ Current(requests) => \A i \in DOMAIN requests' : requests'[i].owner = clientFd
  BY <1>1, <1>2, Appended DEF Current
<1>4. TypeOK' /\ ReadIsCurrent' /\ HandsHoldOne'
  BY <1>1, <1>2, <1>3 DEF TypeOK, ReadIsCurrent, HandsHoldOne, Current
<1>5. WireIsOwn' /\ ClientsAreKnown' /\ OneStaleResponse'
  BY <1>1 DEF WireIsOwn, ClientsAreKnown, OneStaleResponse, Current
<1>6. RequestsAreCurrent'
  BY <1>1, <1>3 DEF RequestsAreCurrent, Current
<1>7. QED
  BY <1>4, <1>5, <1>6

\* Both deques are cleared; what the engine thread is handling is not.
LEMMA DisconnectStep ==
    ASSUME IInv, Disconnected
    PROVE  IInv'
<1> USE DEF IInv
<1>1. /\ UNCHANGED <<out, inbuf, mainPc, current, alive, toServer, backlog, sent>>
      /\ sockPc = "read" /\ sockPc' = "top" /\ clientFd' = Nobody
      /\ requests' = <<>> /\ responses' = <<>> /\ out = <<>>
  BY DEF Disconnected, DroppedRequests, DroppedResponses, TypeOK, clientVars
<1>2. TypeOK' /\ HandsHoldOne' /\ ReadIsCurrent'
  BY <1>1 DEF TypeOK, HandsHoldOne, ReadIsCurrent
<1>3. WireIsOwn' /\ ClientsAreKnown'
  BY <1>1 DEF WireIsOwn, ClientsAreKnown
<1>4. RequestsAreCurrent' /\ OneStaleResponse'
  BY <1>1 DEF RequestsAreCurrent, OneStaleResponse, Current
<1>5. QED
  BY <1>2, <1>3, <1>4
\* The engine thread takes a request of the connected client, if there is one.
LEMMA TakeStep ==
    ASSUME IInv, TakeRequest
    PROVE  IInv'
<1> USE DEF IInv
<1>1. /\ UNCHANGED <<responses, inbuf, out, clientFd, sockPc, alive, toServer, backlog, sent>>
      /\ mainPc' = "handling" /\ requests \in Seq(Messages) /\ requests # <<>>
      /\ requests' = Tail(requests) /\ current' = <<Head(requests)>>
  BY DEF TakeRequest, TypeOK, clientVars
<1>2. /\ requests' \in Seq(Messages) /\ Head(requests) \in Messages
      /\ \A i \in DOMAIN requests' :
             i + 1 \in DOMAIN requests /\ requests'[i] = requests[i + 1]
      /\ 1 \in DOMAIN requests /\ Head(requests) = requests[1]
  BY <1>1, HeadAndTail
<1>3. /\ current' \in Seq(Messages) /\ Len(current') = 1 /\ current' # <<>>
      /\ \A i \in DOMAIN current' : current'[i] = Head(requests)
  BY <1>1, <1>2
<1>4. TypeOK' /\ HandsHoldOne'
  BY <1>1, <1>2, <1>3 DEF TypeOK, HandsHoldOne
<1>5. WireIsOwn' /\ ClientsAreKnown' /\ ReadIsCurrent'
  BY <1>1 DEF WireIsOwn, ClientsAreKnown, ReadIsCurrent, Current
<1>6. RequestsAreCurrent' /\ OneStaleResponse'
  BY <1>1, <1>2, <1>3 DEF RequestsAreCurrent, OneStaleResponse, Current
<1>7. QED
  BY <1>4, <1>5, <1>6

\* The response joins the line at its end: first in line only if there is no
\* other, so only then possibly for a client that has gone.
LEMMA RespondStep ==
    ASSUME IInv, Respond
    PROVE  IInv'
<1> USE DEF IInv
<1>1. /\ UNCHANGED <<requests, inbuf, out, clientFd, sockPc, alive, toServer, backlog, sent>>
      /\ mainPc' = "frame" /\ current' = <<>>
      /\ responses \in Seq(Messages) /\ current \in Seq(Messages)
      /\ current # <<>> /\ responses' = responses \o current
  BY DEF Respond, PushBack, TypeOK, clientVars
<1>2. Len(current) = 1 /\ current[1] \in Messages /\ 1 \in DOMAIN current
  <2>1. Len(current) \in Nat /\ Len(current) >= 1 /\ DOMAIN current = 1..Len(current)
        /\ current[1] \in Messages
    BY <1>1, HeadAndTail
  <2>2. Len(current) <= 1
    BY DEF HandsHoldOne
  <2>3. QED
    BY <2>1, <2>2
<1>3. /\ responses' \in Seq(Messages) /\ Len(responses) \in Nat
      /\ DOMAIN responses = 1..Len(responses)
      /\ DOMAIN responses' = 1..(Len(responses) + 1)
      /\ \A i \in 1..Len(responses) : responses'[i] = responses[i]
      /\ responses'[Len(responses) + 1] = current[1]
  BY <1>1, <1>2, JoinedByOne
<1>4. ASSUME alive, sockPc # "exited", NEW i \in DOMAIN responses', i > 1 \/ out # <<>>
      PROVE  responses'[i].owner = clientFd
  <2>1. CASE i \in 1..Len(responses)
    BY <1>3, <1>4, <2>1 DEF OneStaleResponse
  <2>2. CASE i = Len(responses) + 1
    <3>1. out # <<>> \/ responses # <<>>
      BY <1>1, <1>3, <1>4, <2>2
    <3>2. current[1].owner = clientFd
      BY <1>2, <1>4, <3>1 DEF OneStaleResponse, Current
    <3>3. QED
      BY <1>3, <2>2, <3>2
  <2>3. QED
    BY <1>3, <2>1, <2>2
<1>5. OneStaleResponse'
  BY <1>1, <1>4 DEF OneStaleResponse, Current
<1>6. TypeOK' /\ HandsHoldOne'
  BY <1>1, <1>3 DEF TypeOK, HandsHoldOne
<1>7. WireIsOwn' /\ ClientsAreKnown' /\ ReadIsCurrent' /\ RequestsAreCurrent'
  BY <1>1 DEF WireIsOwn, ClientsAreKnown, ReadIsCurrent, RequestsAreCurrent, Current
<1>8. QED
  BY <1>5, <1>6, <1>7

-----------------------------------------------------------------------------
\* Every step of either thread and of every client keeps the invariant.
LEMMA NextIInv == PipeFatal = TRUE /\ IInv /\ [Next]_vars => IInv'
<1> SUFFICES ASSUME PipeFatal = TRUE, IInv, [Next]_vars PROVE IInv'
  OBVIOUS
<1>1. CASE \E c \in Clients : Connect(c) \/ Send(c) \/ Receive(c) \/ Close(c)
  BY <1>1, ClientStep
<1>2. CASE \/ Exit \/ StartFlush \/ FlushDone \/ NothingToRead
           \/ BeginDestroy \/ Join \/ UNCHANGED vars
  BY <1>2, ThreadStep
<1>3. CASE Accept
  BY <1>3, AcceptStep
<1>4. CASE TakeResponse \/ WriteResponse \/ WriteFails
  BY <1>4, WriteStep
<1>5. CASE \E n \in 1..MaxSends : ReadLines(n)
  BY <1>5, ReadStep
<1>6. CASE QueueLine
  BY <1>6, QueueStep
<1>7. CASE Disconnected
  BY <1>7, DisconnectStep
<1>8. CASE TakeRequest
  BY <1>8, TakeStep
<1>9. CASE Respond
  BY <1>9, RespondStep
<1>10. QED
  BY <1>1, <1>2, <1>3, <1>4, <1>5, <1>6, <1>7, <1>8, <1>9
  DEF Next, SocketThread, EngineThread

\* What either deque holds belongs to the connected client, but for the first
\* response in line, however the two threads and the clients interleave.
THEOREM BridgeInvariant ==
    ASSUME PipeFatal = TRUE
    PROVE  Spec => []IInv
<1>1. Init => IInv
  BY InitIInv
<1>2. IInv /\ [Next]_vars => IInv'
  BY NextIInv
<1>3. QED
  BY <1>1, <1>2, PTL DEF Spec

\* The deques hold messages, and each thread holds one exactly where it does.
THEOREM BridgeTypeCorrect ==
    ASSUME PipeFatal = TRUE
    PROVE  Spec => []TypeOK
<1>1. IInv => TypeOK
  BY DEF IInv
<1>2. QED
  BY <1>1, BridgeInvariant, PTL

\* No request of a client that has gone is executed for the next one.
THEOREM NoStaleRequest ==
    ASSUME PipeFatal = TRUE
    PROVE  Spec => []RequestsAreCurrent
<1>1. IInv => RequestsAreCurrent
  BY DEF IInv
<1>2. QED
  BY <1>1, BridgeInvariant, PTL

\* At most one response in line is for a client that has gone, and it is the
\* first.
THEOREM AtMostOneStaleResponse ==
    ASSUME PipeFatal = TRUE
    PROVE  Spec => []OneStaleResponse
<1>1. IInv => OneStaleResponse
  BY DEF IInv
<1>2. QED
  BY <1>1, BridgeInvariant, PTL

-----------------------------------------------------------------------------
(* The responses to a client come in the order of its requests.  A message *)
(* goes through eight queues, from the wire to what the client has taken,  *)
(* and overtakes none of its client's in any of them.                      *)

\* Lines of eight queues, the first the one that was reached last.
Stages == 1..8
Lines == [Stages -> Seq(Messages)]

Ahead(k, i, l, j) == k < l \/ (k = l /\ i < j)

InOrder(L, c) ==
    \A k, l \in Stages : \A i \in DOMAIN L[k], j \in DOMAIN L[l] :
        Ahead(k, i, l, j) /\ L[k][i].owner = c /\ L[l][j].owner = c
            => L[k][i].rid < L[l][j].rid

\* No message of c in the line has a number above n.
UpTo(L, c, n) ==
    \A k \in Stages : \A i \in DOMAIN L[k] : L[k][i].owner = c => L[k][i].rid <= n

\* The first message of a queue goes to the end of the one before it.
LEMMA Moved ==
    ASSUME NEW L \in Lines, NEW M \in Lines, NEW c, NEW n, NEW k \in 1..7, L[k + 1] # <<>>,
           M[k] = Append(L[k], Head(L[k + 1])), M[k + 1] = Tail(L[k + 1]),
           \A l \in Stages : l # k /\ l # k + 1 => M[l] = L[l],
           InOrder(L, c), UpTo(L, c, n)
    PROVE  InOrder(M, c) /\ UpTo(M, c, n)
<1> DEFINE Passes(l, j) == l = k /\ j = Len(L[k]) + 1
           FromK(l, j) == IF Passes(l, j) THEN k + 1 ELSE l
           FromI(l, j) == IF Passes(l, j) THEN 1 ELSE IF l = k + 1 THEN j + 1 ELSE j
<1>1. /\ k \in Stages /\ k + 1 \in Stages
      /\ L[k] \in Seq(Messages) /\ L[k + 1] \in Seq(Messages)
  <2>1. k \in Stages /\ k + 1 \in Stages
    BY DEF Stages
  <2> QED
    BY <2>1 DEF Lines
<1>2. /\ Len(L[k]) \in Nat /\ DOMAIN L[k] = 1..Len(L[k])
      /\ DOMAIN M[k] = 1..(Len(L[k]) + 1)
      /\ M[k][Len(L[k]) + 1] = L[k + 1][1]
      /\ \A i \in 1..Len(L[k]) : M[k][i] = L[k][i]
  <2>1. Head(L[k + 1]) = L[k + 1][1] /\ Head(L[k + 1]) \in Messages
    BY <1>1, HeadAndTail
  <2> QED
    BY <1>1, <2>1, Appended
<1>3. /\ Len(L[k + 1]) \in Nat /\ Len(L[k + 1]) >= 1 /\ DOMAIN L[k + 1] = 1..Len(L[k + 1])
      /\ DOMAIN M[k + 1] = 1..(Len(L[k + 1]) - 1)
      /\ \A i \in 1..(Len(L[k + 1]) - 1) : M[k + 1][i] = L[k + 1][i + 1]
  BY <1>1, HeadAndTail
<1>4. ASSUME NEW l \in Stages, NEW j \in DOMAIN M[l]
      PROVE  /\ FromK(l, j) \in Stages /\ FromI(l, j) \in DOMAIN L[FromK(l, j)]
             /\ FromI(l, j) \in Int /\ j \in Int
             /\ M[l][j] = L[FromK(l, j)][FromI(l, j)]
  <2>1. CASE Passes(l, j)
    <3>1. M[l][j] = L[k + 1][1] /\ 1 \in DOMAIN L[k + 1] /\ j \in Int
      BY <1>2, <1>3, <2>1
    <3> QED
      BY <1>1, <2>1, <3>1
  <2>2. CASE l = k /\ ~Passes(l, j)
    <3>1. j \in 1..(Len(L[k]) + 1) /\ j # Len(L[k]) + 1
      BY <1>2, <1>4, <2>2
    <3>2. j \in 1..Len(L[k]) /\ j \in DOMAIN L[k] /\ j \in Int /\ M[k][j] = L[k][j]
      BY <1>2, <3>1
    <3>3. l # k + 1
      BY <2>2
    <3> QED
      BY <1>1, <2>2, <3>2, <3>3
  <2>3. CASE l = k + 1
    <3>1. j \in 1..(Len(L[k + 1]) - 1)
      BY <1>3, <1>4, <2>3
    <3>2. j + 1 \in DOMAIN L[k + 1] /\ j \in Int /\ j + 1 \in Int /\ M[k + 1][j] = L[k + 1][j + 1]
      BY <1>3, <3>1
    <3>3. l # k
      BY <2>3
    <3> QED
      BY <1>1, <2>3, <3>2, <3>3
  <2>4. CASE l # k /\ l # k + 1
    <3>1. M[l] = L[l] /\ L[l] \in Seq(Messages)
      BY <2>4 DEF Lines
    <3>2. DOMAIN L[l] \subseteq Int
      BY <3>1
    <3> QED
      BY <1>4, <2>4, <3>1, <3>2
  <2> QED
    BY <2>1, <2>2, <2>3, <2>4
<1>5. ASSUME NEW k1 \in Stages, NEW l1 \in Stages, NEW i \in DOMAIN M[k1], NEW j \in DOMAIN M[l1],
             Ahead(k1, i, l1, j)
      PROVE  Ahead(FromK(k1, i), FromI(k1, i), FromK(l1, j), FromI(l1, j))
  <2>1. i \in Int /\ j \in Int /\ k1 \in Int /\ l1 \in Int /\ k \in Int
    BY <1>4, SMTT(20) DEF Stages
  <2>2. k1 = k => i \in 1..(Len(L[k]) + 1)
    BY <1>2
  <2>3. l1 = k => j \in 1..(Len(L[k]) + 1)
    BY <1>2
  <2>4. l1 = k + 1 => j >= 1
    <3>1. l1 = k + 1 => j \in 1..(Len(L[k + 1]) - 1)
      BY <1>3
    <3> QED
      BY <3>1
  <2> QED
    BY <1>2, <1>5, <2>1, <2>2, <2>3, <2>4 DEF Ahead
<1> HIDE DEF FromK, FromI
<1> QED
  BY <1>4, <1>5 DEF InOrder, UpTo

\* Queues that lose their first message, or all of them.
LEMMA Dropped ==
    ASSUME NEW L \in Lines, NEW M \in Lines, NEW c, NEW n,
           \A k \in Stages : \/ M[k] = L[k] \/ M[k] = <<>>
                             \/ L[k] # <<>> /\ M[k] = Tail(L[k]),
           InOrder(L, c), UpTo(L, c, n)
    PROVE  InOrder(M, c) /\ UpTo(M, c, n)
<1> DEFINE By(k) == IF M[k] = L[k] THEN 0 ELSE 1
<1>1. ASSUME NEW k \in Stages, NEW i \in DOMAIN M[k]
      PROVE  /\ i \in Int /\ By(k) \in Int
             /\ i + By(k) \in DOMAIN L[k] /\ M[k][i] = L[k][i + By(k)]
  <2>1. L[k] \in Seq(Messages) /\ DOMAIN L[k] = 1..Len(L[k]) /\ Len(L[k]) \in Nat
    BY DEF Lines
  <2>2. CASE M[k] = L[k]
    BY <1>1, <2>1, <2>2
  <2>3. CASE M[k] = <<>>
    BY <1>1, <2>3
  <2>4. CASE M[k] # L[k] /\ L[k] # <<>> /\ M[k] = Tail(L[k])
    <3>1. /\ DOMAIN M[k] = 1..(Len(L[k]) - 1)
          /\ \A m \in 1..(Len(L[k]) - 1) : M[k][m] = L[k][m + 1]
      BY <2>1, <2>4, HeadAndTail
    <3> QED
      BY <1>1, <2>1, <2>4, <3>1
  <2> QED
    BY <2>2, <2>3, <2>4
<1> HIDE DEF By
<1>2. ASSUME NEW k \in Stages, NEW l \in Stages, NEW i \in DOMAIN M[k], NEW j \in DOMAIN M[l],
             Ahead(k, i, l, j)
      PROVE  Ahead(k, i + By(k), l, j + By(l))
  BY <1>1, <1>2 DEF Ahead
<1> QED
  BY <1>1, <1>2 DEF InOrder, UpTo

\* The first m messages of the last queue go to the one before it, which is empty.
LEMMA MovedMany ==
    ASSUME NEW L \in Lines, NEW M \in Lines, NEW c, NEW n, L[7] = <<>>, NEW m \in 1..Len(L[8]),
           M[7] = SubSeq(L[8], 1, m), M[8] = SubSeq(L[8], m + 1, Len(L[8])),
           \A l \in 1..6 : M[l] = L[l],
           InOrder(L, c), UpTo(L, c, n)
    PROVE  InOrder(M, c) /\ UpTo(M, c, n)
<1> DEFINE FromK(l) == IF l = 7 THEN 8 ELSE l
           FromI(l, j) == IF l = 8 THEN j + m ELSE j
<1>1. /\ Len(L[8]) \in Nat /\ DOMAIN L[8] = 1..Len(L[8]) /\ m \in Nat
      /\ DOMAIN M[7] = 1..m /\ \A i \in 1..m : M[7][i] = L[8][i]
      /\ DOMAIN M[8] = 1..(Len(L[8]) - m)
      /\ \A i \in 1..(Len(L[8]) - m) : M[8][i] = L[8][i + m]
  <2>1. L[8] \in Seq(Messages)
    BY DEF Lines, Stages
  <2> QED
    BY <2>1, Split
<1>2. ASSUME NEW l \in Stages, NEW j \in DOMAIN M[l]
      PROVE  /\ FromK(l) \in Stages /\ FromI(l, j) \in DOMAIN L[FromK(l)]
             /\ j \in Int /\ M[l][j] = L[FromK(l)][FromI(l, j)]
  <2>1. CASE l = 7
    <3>1. j \in 1..m /\ M[7][j] = L[8][j]
      BY <1>1, <1>2, <2>1
    <3>2. j \in DOMAIN L[8] /\ j \in Int
      BY <1>1, <3>1
    <3> QED
      BY <2>1, <3>1, <3>2, SMTT(20) DEF Stages
  <2>2. CASE l = 8
    <3>1. j \in 1..(Len(L[8]) - m) /\ M[8][j] = L[8][j + m]
      BY <1>1, <1>2, <2>2
    <3>2. j + m \in DOMAIN L[8] /\ j \in Int
      BY <1>1, <3>1, SMTT(20)
    <3> QED
      BY <2>2, <3>1, <3>2 DEF Stages
  <2>3. CASE l \in 1..6
    <3>1. M[l] = L[l] /\ L[l] \in Seq(Messages)
      BY <2>3 DEF Lines
    <3>2. DOMAIN L[l] \subseteq Int
      BY <3>1
    <3>3. l # 7 /\ l # 8
      BY <2>3
    <3> QED
      BY <1>2, <3>1, <3>2, <3>3
  <2> QED
    BY <2>1, <2>2, <2>3 DEF Stages
<1>3. ASSUME NEW k1 \in Stages, NEW l1 \in Stages, NEW i \in DOMAIN M[k1], NEW j \in DOMAIN M[l1],
             Ahead(k1, i, l1, j)
      PROVE  Ahead(FromK(k1), FromI(k1, i), FromK(l1), FromI(l1, j))
  <2>1. i \in Int /\ j \in Int /\ k1 \in Int /\ l1 \in Int
    BY <1>2, SMTT(20) DEF Stages
  <2>2. /\ k1 = 7 => i \in 1..m
        /\ l1 = 8 => j \in 1..(Len(L[8]) - m)
    BY <1>1
  <2>3. l1 \in 1..8 /\ k1 \in 1..8
    BY DEF Stages
  <2> QED
    BY <1>1, <1>3, <2>1, <2>2, <2>3 DEF Ahead
<1> HIDE DEF FromK, FromI
<1>4. ASSUME NEW k1 \in Stages, NEW l1 \in Stages, NEW i \in DOMAIN M[k1], NEW j \in DOMAIN M[l1],
             Ahead(k1, i, l1, j), M[k1][i].owner = c, M[l1][j].owner = c
      PROVE  M[k1][i].rid < M[l1][j].rid
  <2> DEFINE k2 == FromK(k1)
             l2 == FromK(l1)
             i2 == FromI(k1, i)
             j2 == FromI(l1, j)
  <2>1. /\ k2 \in Stages /\ l2 \in Stages /\ i2 \in DOMAIN L[k2] /\ j2 \in DOMAIN L[l2]
        /\ M[k1][i] = L[k2][i2] /\ M[l1][j] = L[l2][j2]
    BY <1>2
  <2>2. Ahead(k2, i2, l2, j2)
    BY <1>3, <1>4
  <2> HIDE DEF k2, l2, i2, j2
  <2> QED
    BY <1>4, <2>1, <2>2 DEF InOrder
<1>5. UpTo(M, c, n)
  BY <1>2, SMTT(20) DEF UpTo
<1>6. InOrder(M, c)
  BY <1>4 DEF InOrder
<1> QED
  BY <1>5, <1>6

\* A message with the next number joins the line at its end.
LEMMA Joined ==
    ASSUME NEW L \in Lines, NEW M \in Lines, NEW c, NEW n \in Nat, NEW m \in Messages,
           m.rid = n + 1,
           M[8] = Append(L[8], m), \A l \in 1..7 : M[l] = L[l],
           InOrder(L, c), UpTo(L, c, n)
    PROVE  InOrder(M, c) /\ UpTo(M, c, n + 1)
<1> DEFINE New(l, j) == l = 8 /\ j = Len(L[8]) + 1
<1>1. /\ Len(L[8]) \in Nat /\ DOMAIN L[8] = 1..Len(L[8])
      /\ DOMAIN M[8] = 1..(Len(L[8]) + 1) /\ M[8][Len(L[8]) + 1] = m
      /\ \A i \in 1..Len(L[8]) : M[8][i] = L[8][i]
  <2>1. L[8] \in Seq(Messages)
    BY DEF Lines, Stages
  <2> QED
    BY <2>1, Appended
<1>2. ASSUME NEW l \in Stages, NEW j \in DOMAIN M[l]
      PROVE  IF New(l, j) THEN M[l][j] = m ELSE j \in DOMAIN L[l] /\ M[l][j] = L[l][j]
  <2>1. CASE l = 8
    <3>1. j \in 1..(Len(L[8]) + 1)
      BY <1>1, <1>2, <2>1
    <3>2. CASE j = Len(L[8]) + 1
      <4>1. New(l, j) /\ M[l][j] = m
        BY <1>1, <2>1, <3>2
      <4> QED
        BY <4>1
    <3>3. CASE j # Len(L[8]) + 1
      <4>1. ~New(l, j) /\ j \in 1..Len(L[8])
        BY <1>1, <3>1, <3>3
      <4> QED
        BY <1>1, <2>1, <4>1
    <3> QED
      BY <3>2, <3>3
  <2>2. CASE l \in 1..7
    <3>1. M[l] = L[l] /\ l # 8
      BY <2>2
    <3> QED
      BY <1>2, <3>1
  <2> QED
    BY <2>1, <2>2 DEF Stages
<1>3. ASSUME NEW l \in Stages, NEW j \in DOMAIN L[l]
      PROVE  L[l][j].rid \in Int
  <2>1. L[l] \in Seq(Messages)
    BY DEF Lines
  <2>2. L[l][j] \in Messages
    BY <2>1
  <2> QED
    BY <2>2 DEF Messages, Rids
<1>4. UpTo(M, c, n + 1)
  BY <1>2, <1>3 DEF UpTo
<1>5. ASSUME NEW k \in Stages, NEW l \in Stages, NEW i \in DOMAIN M[k], NEW j \in DOMAIN M[l],
             Ahead(k, i, l, j), M[k][i].owner = c, M[l][j].owner = c
      PROVE  M[k][i].rid < M[l][j].rid
  <2>1. ~New(k, i)
    <3>1. CASE l # 8
      BY <1>5, <3>1 DEF Ahead, Stages
    <3>2. CASE l = 8
      <4>1. j \in 1..(Len(L[8]) + 1)
        BY <1>1, <3>2
      <4> QED
        BY <1>1, <1>5, <3>2, <4>1 DEF Ahead, Stages
    <3> QED
      BY <3>1, <3>2
  <2>2. i \in DOMAIN L[k] /\ M[k][i] = L[k][i]
    BY <1>2, <2>1
  <2>3. CASE New(l, j)
    <3>1. M[l][j].rid = n + 1 /\ L[k][i].rid <= n
      BY <1>2, <1>5, <2>2, <2>3 DEF UpTo
    <3> QED
      BY <1>3, <2>2, <3>1
  <2>4. CASE ~New(l, j)
    <3>1. j \in DOMAIN L[l] /\ M[l][j] = L[l][j]
      BY <1>2, <2>4
    <3> QED
      BY <1>5, <2>2, <3>1 DEF InOrder
  <2> QED
    BY <2>3, <2>4
<1>6. InOrder(M, c)
  BY <1>5 DEF InOrder
<1> QED
  BY <1>4, <1>6

-----------------------------------------------------------------------------
(* The queues that the messages of a client go through.                    *)

Line(c) == <<taken[c], toClient[c], out, responses, current, requests, inbuf, toServer[c]>>

OrderInv ==
    /\ taken \in [Clients -> Seq(Messages)]
    /\ toClient \in [Clients -> Seq(Messages)]
    /\ \A c \in Clients : InOrder(Line(c), c) /\ UpTo(Line(c), c, sent[c])

LEMMA EightQueues ==
    ASSUME NEW q1 \in Seq(Messages), NEW q2 \in Seq(Messages), NEW q3 \in Seq(Messages),
           NEW q4 \in Seq(Messages), NEW q5 \in Seq(Messages), NEW q6 \in Seq(Messages),
           NEW q7 \in Seq(Messages), NEW q8 \in Seq(Messages)
    PROVE  <<q1, q2, q3, q4, q5, q6, q7, q8>> \in Lines
  BY DEF Lines, Stages

\* In each state the queues of a client are queues of messages.
LEMMA LineIsLine ==
    /\ IInv /\ taken \in [Clients -> Seq(Messages)] /\ toClient \in [Clients -> Seq(Messages)]
           => \A c \in Clients : Line(c) \in Lines
    /\ IInv' /\ taken' \in [Clients -> Seq(Messages)] /\ toClient' \in [Clients -> Seq(Messages)]
           => \A c \in Clients : Line(c)' \in Lines
<1>1. ASSUME IInv, taken \in [Clients -> Seq(Messages)], toClient \in [Clients -> Seq(Messages)],
             NEW c \in Clients
      PROVE  Line(c) \in Lines
  <2>1. /\ taken[c] \in Seq(Messages) /\ toClient[c] \in Seq(Messages)
        /\ toServer[c] \in Seq(Messages) /\ out \in Seq(Messages)
        /\ responses \in Seq(Messages) /\ current \in Seq(Messages)
        /\ requests \in Seq(Messages) /\ inbuf \in Seq(Messages)
    BY <1>1 DEF IInv, TypeOK, WireIsOwn
  <2> QED
    BY <2>1, EightQueues DEF Line
<1>2. ASSUME IInv', taken' \in [Clients -> Seq(Messages)], toClient' \in [Clients -> Seq(Messages)],
             NEW c \in Clients
      PROVE  Line(c)' \in Lines
  <2>1. /\ taken'[c] \in Seq(Messages) /\ toClient'[c] \in Seq(Messages)
        /\ toServer'[c] \in Seq(Messages) /\ out' \in Seq(Messages)
        /\ responses' \in Seq(Messages) /\ current' \in Seq(Messages)
        /\ requests' \in Seq(Messages) /\ inbuf' \in Seq(Messages)
    BY <1>2 DEF IInv, TypeOK, WireIsOwn
  <2> QED
    BY <2>1, EightQueues DEF Line
<1> QED
  BY <1>1, <1>2

\* What a client does.
LEMMA ClientOrder ==
    ASSUME IInv, IInv', OrderInv, NEW d \in Clients, Connect(d) \/ Send(d) \/ Receive(d) \/ Close(d)
    PROVE  OrderInv'
<1>1. /\ \A c \in Clients : Line(c) \in Lines
      /\ \A c \in Clients : sent[c] \in Nat
  <2>1. \A c \in Clients : Line(c) \in Lines
    BY LineIsLine DEF OrderInv
  <2> QED
    BY <2>1, BoundsAssumption DEF IInv, ClientsAreKnown
<1>2. /\ taken[d] \in Seq(Messages) /\ toClient[d] \in Seq(Messages)
      /\ toServer[d] \in Seq(Messages)
  BY DEF OrderInv, IInv, WireIsOwn
<1>3. UNCHANGED <<out, responses, current, requests, inbuf>>
  BY DEF Connect, Send, Receive, Close, bridgeVars
<1>4. CASE Connect(d) \/ Close(d)
  BY <1>3, <1>4 DEF OrderInv, Connect, Close, Line
<1>5. CASE Send(d)
  <2> DEFINE m == [owner |-> d, rid |-> sent[d] + 1]
  <2>1. /\ sent' = [sent EXCEPT ![d] = sent[d] + 1]
        /\ taken' = taken /\ toClient' = toClient
        /\ sent[d] \in 0..MaxSends /\ sent[d] < MaxSends
    BY <1>5 DEF Send, IInv, ClientsAreKnown
  <2>2. sent'[d] = sent[d] + 1 /\ m \in Messages
    BY <2>1, BoundsAssumption DEF IInv, ClientsAreKnown, Messages, Rids
  <2>3. toServer' = [toServer EXCEPT ![d] = Append(toServer[d], m)]
    BY <1>5, <2>2 DEF Send
  <2>4. toServer'[d] = Append(toServer[d], m) /\ m.rid = sent[d] + 1
    BY <2>3 DEF IInv, WireIsOwn
  <2>5. Line(d)' \in Lines
    BY <2>1, LineIsLine DEF OrderInv
  <2> HIDE DEF m
  <2>6. /\ Line(d)'[8] = Append(Line(d)[8], m)
        /\ \A l \in 1..7 : Line(d)'[l] = Line(d)[l]
    BY <1>3, <2>1, <2>4 DEF Line
  <2>7. InOrder(Line(d)', d) /\ UpTo(Line(d)', d, sent[d] + 1)
    BY <1>1, <2>2, <2>4, <2>5, <2>6, Joined DEF OrderInv
  <2>8. ASSUME NEW c \in Clients, c # d
        PROVE  Line(c)' = Line(c) /\ sent'[c] = sent[c]
    BY <1>3, <2>1, <2>3, <2>8 DEF Line, IInv, WireIsOwn, ClientsAreKnown
  <2> QED
    BY <2>1, <2>2, <2>7, <2>8 DEF OrderInv
<1>6. CASE Receive(d)
  <2>1. /\ toClient[d] # <<>> /\ toClient' = [toClient EXCEPT ![d] = Tail(toClient[d])]
        /\ toServer' = toServer /\ sent' = sent
        /\ \/ taken' = taken
           \/ taken' = [taken EXCEPT ![d] = Append(taken[d], Head(toClient[d]))]
    BY <1>6 DEF Receive
  <2>2. Head(toClient[d]) \in Messages /\ Tail(toClient[d]) \in Seq(Messages)
    BY <1>2, <2>1, HeadAndTail
  <2>3. Append(taken[d], Head(toClient[d])) \in Seq(Messages)
    BY <1>2, <2>2, Appended
  <2>4. taken' \in [Clients -> Seq(Messages)] /\ toClient' \in [Clients -> Seq(Messages)]
    BY <2>1, <2>2, <2>3 DEF OrderInv
  <2>5. Line(d)' \in Lines
    BY <2>4, LineIsLine DEF OrderInv
  <2>6. /\ Line(d)'[2] = Tail(Line(d)[2]) /\ Line(d)[2] # <<>>
        /\ Line(d)'[1] = Line(d)[1] \/ Line(d)'[1] = Append(Line(d)[1], Head(Line(d)[2]))
        /\ \A l \in 3..8 : Line(d)'[l] = Line(d)[l]
    BY <1>3, <2>1 DEF Line, OrderInv
  <2>7. InOrder(Line(d)', d) /\ UpTo(Line(d)', d, sent[d])
    <3>1. CASE Line(d)'[1] = Line(d)[1]
      BY <1>1, <2>5, <2>6, <3>1, Dropped DEF OrderInv, Stages
    <3>2. CASE Line(d)'[1] = Append(Line(d)[1], Head(Line(d)[2]))
      BY <1>1, <2>5, <2>6, <3>2, Moved DEF OrderInv, Stages
    <3> QED
      BY <2>6, <3>1, <3>2
  <2>8. ASSUME NEW c \in Clients, c # d
        PROVE  Line(c)' = Line(c)
    BY <1>3, <2>1, <2>8 DEF Line, OrderInv
  <2> QED
    BY <2>1, <2>4, <2>7, <2>8 DEF OrderInv
<1> QED
  BY <1>4, <1>5, <1>6

LEMMA AtMostOne ==
    ASSUME NEW q \in Seq(Messages), q # <<>>, Len(q) <= 1
    PROVE  Len(q) = 1 /\ Head(q) \in Messages
<1>1. Len(q) \in Nat /\ Len(q) >= 1
  BY HeadAndTail
<1>2. Head(q) \in Messages
  BY HeadAndTail
<1>3. \A n \in Nat : n >= 1 /\ n <= 1 => n = 1
  OBVIOUS
<1>4. Len(q) = 1
  BY <1>1, <1>3
<1> QED
  BY <1>2, <1>4

\* A message by itself, and one put behind a queue by concatenation.
LEMMA OneMessage ==
    ASSUME NEW q \in Seq(Messages), NEW m \in Seq(Messages), Len(m) = 1
    PROVE  /\ q \o m = Append(q, Head(m)) /\ Tail(m) = <<>> /\ m # <<>>
           /\ q # <<>> => <<Head(q)>> = Append(<<>>, Head(q))
<1>1. q \o m \in Seq(Messages) /\ Append(q, Head(m)) \in Seq(Messages) /\ m # <<>>
  BY ConcatProperties, HeadAndTail, Appended
<1>2. /\ Len(q) \in Nat /\ DOMAIN (q \o m) = 1..(Len(q) + 1)
      /\ DOMAIN Append(q, Head(m)) = 1..(Len(q) + 1)
      /\ \A i \in 1..(Len(q) + 1) : (q \o m)[i] = Append(q, Head(m))[i]
  <2>1. Head(m) \in Messages /\ Head(m) = m[1]
    BY <1>1, HeadAndTail
  <2>2. /\ Append(q, Head(m))[Len(q) + 1] = m[1]
        /\ \A i \in 1..Len(q) : Append(q, Head(m))[i] = q[i]
        /\ DOMAIN Append(q, Head(m)) = 1..(Len(q) + 1)
    BY <2>1, Appended
  <2>3. \A i \in 1..(Len(q) + 1) : i \in 1..Len(q) \/ i = Len(q) + 1
    OBVIOUS
  <2> QED
    BY <2>2, <2>3, JoinedByOne
<1>3. q \o m = Append(q, Head(m))
  BY <1>1, <1>2
<1>4. Tail(m) = <<>>
  <2>1. Tail(m) \in Seq(Messages) /\ DOMAIN Tail(m) = 1..(Len(m) - 1)
    BY <1>1, HeadAndTail
  <2>2. DOMAIN Tail(m) = 1..0
    BY <2>1
  <2>3. Len(Tail(m)) = 0
    BY <2>1, <2>2, LenProperties
  <2> QED
    BY <2>1, <2>3, EmptySeq
<1>5. q # <<>> => <<Head(q)>> = Append(<<>>, Head(q))
  OBVIOUS
<1> QED
  BY <1>1, <1>3, <1>4, <1>5

\* Steps of the bridge that move the first message of one queue to the end of
\* the one before it, for every client.
LEMMA MoveKeepsOrder ==
    ASSUME IInv, IInv', OrderInv, NEW k \in 3..6,
           UNCHANGED <<taken, toClient, toServer, sent>>,
           \A c \in Clients :
               /\ Line(c)[k + 1] # <<>>
               /\ Line(c)'[k] = Append(Line(c)[k], Head(Line(c)[k + 1]))
               /\ Line(c)'[k + 1] = Tail(Line(c)[k + 1])
               /\ \A l \in 3..7 : l # k /\ l # k + 1 => Line(c)'[l] = Line(c)[l]
    PROVE  OrderInv'
<1>1. ASSUME NEW c \in Clients
      PROVE  Line(c) \in Lines /\ Line(c)' \in Lines
  BY LineIsLine DEF OrderInv
<1>2. ASSUME NEW c \in Clients
      PROVE  InOrder(Line(c)', c) /\ UpTo(Line(c)', c, sent[c])
  <2>1. Line(c)'[1] = Line(c)[1] /\ Line(c)'[2] = Line(c)[2] /\ Line(c)'[8] = Line(c)[8]
    BY DEF Line
  <2>2. \A l \in Stages : l # k /\ l # k + 1 => Line(c)'[l] = Line(c)[l]
    <3>1. \A l \in Stages : l \in {1, 2, 8} \/ l \in 3..7
      BY DEF Stages
    <3> QED
      BY <2>1, <3>1
  <2>3. k \in 1..7 /\ k \in 3..7 /\ k + 1 \in 3..7
    OBVIOUS
  <2>4. InOrder(Line(c), c) /\ UpTo(Line(c), c, sent[c])
    BY DEF OrderInv
  <2> QED
    BY <1>1, <2>2, <2>3, <2>4, Moved
<1> QED
  BY <1>2 DEF OrderInv

\* Steps that drop messages.
LEMMA DropKeepsOrder ==
    ASSUME IInv, IInv', OrderInv,
           UNCHANGED <<taken, toClient, toServer, sent>>,
           out' \in {out, <<>>}, responses' \in {responses, <<>>}, current' = current,
           requests' \in {requests, <<>>}, inbuf' \in {inbuf, <<>>}
    PROVE  OrderInv'
<1>1. ASSUME NEW c \in Clients
      PROVE  InOrder(Line(c)', c) /\ UpTo(Line(c)', c, sent[c])
  <2>1. Line(c) \in Lines /\ Line(c)' \in Lines
    BY LineIsLine DEF OrderInv
  <2>2. \A k \in Stages : Line(c)'[k] = Line(c)[k] \/ Line(c)'[k] = <<>>
    BY DEF Line, Stages
  <2> QED
    BY <2>1, <2>2, Dropped DEF OrderInv
<1> QED
  BY <1>1 DEF OrderInv

\* Everything the bridge does but write a response and read requests.
LEMMA BridgeOrder ==
    ASSUME IInv, IInv', OrderInv,
           \/ Exit \/ StartFlush \/ FlushDone \/ NothingToRead \/ BeginDestroy \/ Join
           \/ Accept \/ WriteFails \/ Disconnected
           \/ TakeResponse \/ QueueLine \/ TakeRequest \/ Respond
    PROVE  OrderInv'
<1>1. UNCHANGED <<taken, toClient, toServer, sent>>
  BY DEF Exit, StartFlush, FlushDone, NothingToRead, BeginDestroy, Join, Accept, WriteFails,
         Disconnected, TakeResponse, QueueLine, TakeRequest, Respond, clientVars
<1>2. /\ requests \in Seq(Messages) /\ responses \in Seq(Messages) /\ inbuf \in Seq(Messages)
      /\ current \in Seq(Messages) /\ out \in Seq(Messages)
  BY DEF IInv, TypeOK
<1>3. CASE \/ Exit \/ StartFlush \/ FlushDone \/ NothingToRead \/ BeginDestroy \/ Join
           \/ Accept \/ WriteFails \/ Disconnected
  <2>1. /\ out' \in {out, <<>>} /\ responses' \in {responses, <<>>} /\ current' = current
        /\ requests' \in {requests, <<>>} /\ inbuf' \in {inbuf, <<>>}
    BY <1>3 DEF Exit, StartFlush, FlushDone, NothingToRead, BeginDestroy, Join, Accept,
                WriteFails, Disconnected, DroppedRequests, DroppedResponses
  <2> QED
    BY <1>1, <2>1, DropKeepsOrder
<1>4. CASE TakeResponse
  <2>1. /\ out = <<>> /\ responses # <<>> /\ out' = <<Head(responses)>>
        /\ responses' = Tail(responses) /\ UNCHANGED <<current, requests, inbuf>>
    BY <1>4 DEF TakeResponse, IInv, TypeOK
  <2>2. out' = Append(out, Head(responses))
    BY <1>2, <2>1
  <2>3. \A c \in Clients :
            /\ Line(c)[4] # <<>> /\ Line(c)'[3] = Append(Line(c)[3], Head(Line(c)[4]))
            /\ Line(c)'[4] = Tail(Line(c)[4])
            /\ \A l \in 3..7 : l # 3 /\ l # 4 => Line(c)'[l] = Line(c)[l]
    BY <2>1, <2>2 DEF Line
  <2> QED
    BY <1>1, <2>3, MoveKeepsOrder
<1>5. CASE Respond
  <2>1. /\ responses' = responses \o current /\ current' = <<>> /\ current # <<>>
        /\ UNCHANGED <<out, requests, inbuf>>
    BY <1>5 DEF Respond, PushBack, IInv, TypeOK
  <2>2. Len(current) = 1
    BY <1>2, <2>1, AtMostOne DEF IInv, HandsHoldOne
  <2>3. responses' = Append(responses, Head(current)) /\ current' = Tail(current)
    BY <1>2, <2>1, <2>2, OneMessage
  <2>4. \A c \in Clients :
            /\ Line(c)[5] # <<>> /\ Line(c)'[4] = Append(Line(c)[4], Head(Line(c)[5]))
            /\ Line(c)'[5] = Tail(Line(c)[5])
            /\ \A l \in 3..7 : l # 4 /\ l # 5 => Line(c)'[l] = Line(c)[l]
    BY <2>1, <2>3 DEF Line
  <2> QED
    BY <1>1, <2>4, MoveKeepsOrder
<1>6. CASE TakeRequest
  <2>1. /\ current = <<>> /\ requests # <<>> /\ current' = <<Head(requests)>>
        /\ requests' = Tail(requests) /\ UNCHANGED <<out, responses, inbuf>>
    BY <1>6 DEF TakeRequest, IInv, TypeOK
  <2>2. current' = Append(current, Head(requests))
    BY <1>2, <2>1
  <2>3. \A c \in Clients :
            /\ Line(c)[6] # <<>> /\ Line(c)'[5] = Append(Line(c)[5], Head(Line(c)[6]))
            /\ Line(c)'[6] = Tail(Line(c)[6])
            /\ \A l \in 3..7 : l # 5 /\ l # 6 => Line(c)'[l] = Line(c)[l]
    BY <2>1, <2>2 DEF Line
  <2> QED
    BY <1>1, <2>3, MoveKeepsOrder
<1>7. CASE QueueLine
  <2>1. /\ inbuf # <<>> /\ requests' = Append(requests, Head(inbuf)) /\ inbuf' = Tail(inbuf)
        /\ UNCHANGED <<out, responses, current>>
    BY <1>7 DEF QueueLine, IInv, TypeOK
  <2>2. \A c \in Clients :
            /\ Line(c)[7] # <<>> /\ Line(c)'[6] = Append(Line(c)[6], Head(Line(c)[7]))
            /\ Line(c)'[7] = Tail(Line(c)[7])
            /\ \A l \in 3..7 : l # 6 /\ l # 7 => Line(c)'[l] = Line(c)[l]
    BY <2>1 DEF Line
  <2> QED
    BY <1>1, <2>2, MoveKeepsOrder
<1> QED
  BY <1>3, <1>4, <1>5, <1>6, <1>7

\* What is written reaches the connected client; the others' lines lose it.
LEMMA WriteOrder ==
    ASSUME IInv, IInv', OrderInv, WriteResponse
    PROVE  OrderInv'
<1>1. /\ out \in Seq(Messages) /\ out # <<>> /\ clientFd \in Clients
      /\ out' = <<>> /\ UNCHANGED <<taken, toServer, sent, requests, responses, current, inbuf>>
      /\ toClient' = [toClient EXCEPT ![clientFd] = toClient[clientFd] \o out]
      /\ toClient[clientFd] \in Seq(Messages)
  BY DEF WriteResponse, IInv, TypeOK, OrderInv
<1>2. Len(out) = 1 /\ Head(out) \in Messages
  BY <1>1, AtMostOne DEF IInv, HandsHoldOne
<1>3. toClient[clientFd] \o out = Append(toClient[clientFd], Head(out)) /\ Tail(out) = <<>>
  BY <1>1, <1>2, OneMessage
<1>4. Append(toClient[clientFd], Head(out)) \in Seq(Messages)
  BY <1>1, <1>2, Appended
<1>5. toClient' \in [Clients -> Seq(Messages)] /\ taken' \in [Clients -> Seq(Messages)]
  BY <1>1, <1>3, <1>4 DEF OrderInv
<1>6. \A c \in Clients : Line(c) \in Lines /\ Line(c)' \in Lines
  BY <1>5, LineIsLine DEF OrderInv
<1>7. ASSUME NEW c \in Clients
      PROVE  InOrder(Line(c)', c) /\ UpTo(Line(c)', c, sent[c])
  <2>1. CASE c = clientFd
    <3>1. /\ Line(c)[3] # <<>> /\ Line(c)'[2] = Append(Line(c)[2], Head(Line(c)[3]))
          /\ Line(c)'[3] = Tail(Line(c)[3])
          /\ \A l \in Stages : l # 2 /\ l # 3 => Line(c)'[l] = Line(c)[l]
      BY <1>1, <1>3, <2>1 DEF Line, Stages, OrderInv
    <3> QED
      BY <1>6, <3>1, Moved, SMTT(20) DEF OrderInv
  <2>2. CASE c # clientFd
    <3>1. \A l \in Stages : Line(c)'[l] = Line(c)[l] \/ Line(c)'[l] = <<>>
      BY <1>1, <2>2 DEF Line, Stages, OrderInv
    <3> QED
      BY <1>6, <3>1, Dropped DEF OrderInv
  <2> QED
    BY <2>1, <2>2
<1> QED
  BY <1>1, <1>5, <1>7 DEF OrderInv

\* One read brings in lines of the connected client; nobody else has any there.
LEMMA ReadOrder ==
    ASSUME IInv, IInv', OrderInv, NEW n \in 1..MaxSends, ReadLines(n)
    PROVE  OrderInv'
<1>1. /\ inbuf = <<>> /\ clientFd \in Clients /\ sockPc' = "queue" /\ clientFd' = clientFd
      /\ UNCHANGED <<taken, toClient, out, responses, current, requests, sent>>
  BY DEF ReadLines, IInv, TypeOK
<1> DEFINE wire == toServer[clientFd]
<1>2. wire \in Seq(Messages) /\ n \in 1..Len(wire)
  BY <1>1 DEF ReadLines, IInv, WireIsOwn
<1>3. /\ inbuf' = SubSeq(wire, 1, n)
      /\ toServer' = [toServer EXCEPT ![clientFd] = SubSeq(wire, n + 1, Len(wire))]
  <2>1. SubSeq(wire, 1, n) \in Seq(Messages)
    BY <1>2, Split
  <2> QED
    BY <1>1, <2>1 DEF ReadLines
<1>4. \A i \in DOMAIN inbuf' : inbuf'[i].owner = clientFd
  BY <1>1 DEF IInv, ReadIsCurrent, Current
<1>5. \A c \in Clients : Line(c) \in Lines /\ Line(c)' \in Lines
  BY <1>1, LineIsLine DEF OrderInv
<1>6. ASSUME NEW c \in Clients
      PROVE  InOrder(Line(c)', c) /\ UpTo(Line(c)', c, sent[c])
  <2>1. CASE c = clientFd
    <3>1. /\ Line(c)[7] = <<>> /\ Line(c)[8] = wire
          /\ Line(c)'[7] = SubSeq(wire, 1, n) /\ Line(c)'[8] = SubSeq(wire, n + 1, Len(wire))
          /\ \A l \in 1..6 : Line(c)'[l] = Line(c)[l]
      BY <1>1, <1>3, <2>1, SMTT(20) DEF Line, IInv, WireIsOwn
    <3> HIDE DEF wire
    <3> QED
      BY <1>2, <1>5, <3>1, MovedMany DEF OrderInv
  <2>2. CASE c # clientFd
    <3>1. /\ \A l \in Stages : l # 7 => Line(c)'[l] = Line(c)[l]
          /\ Line(c)'[7] = inbuf'
      BY <1>1, <1>3, <2>2 DEF Line, Stages, IInv, WireIsOwn
    <3>2. \A l \in Stages : \A i \in DOMAIN Line(c)'[l] : Line(c)'[l][i].owner = c => l # 7
      BY <1>4, <2>2, <3>1
    <3>3. ASSUME NEW k \in Stages, NEW i \in DOMAIN Line(c)'[k], Line(c)'[k][i].owner = c
          PROVE  Line(c)'[k] = Line(c)[k]
      BY <3>1, <3>2, <3>3
    <3>4. InOrder(Line(c)', c)
      BY <3>3 DEF OrderInv, InOrder
    <3>5. UpTo(Line(c)', c, sent[c])
      BY <3>3 DEF OrderInv, UpTo
    <3> QED
      BY <3>4, <3>5
  <2> QED
    BY <2>1, <2>2
<1> QED
  BY <1>1, <1>6 DEF OrderInv

-----------------------------------------------------------------------------
(* The invariant.                                                          *)

LEMMA InitOrder == Init => OrderInv
<1> SUFFICES ASSUME Init PROVE OrderInv
  OBVIOUS
<1>1. /\ taken \in [Clients -> Seq(Messages)] /\ toClient \in [Clients -> Seq(Messages)]
      /\ \A c \in Clients : \A k \in Stages : Line(c)[k] = <<>>
  BY DEF Init, Line, Stages
<1> QED
  BY <1>1 DEF OrderInv, InOrder, UpTo

LEMMA NextOrder ==
    ASSUME IInv, IInv', OrderInv, [Next]_vars
    PROVE  OrderInv'
<1>1. CASE UNCHANGED vars
  BY <1>1 DEF OrderInv, Line, vars, bridgeVars, clientVars
<1>2. CASE \E c \in Clients : Connect(c) \/ Send(c) \/ Receive(c) \/ Close(c)
  BY <1>2, ClientOrder
<1>3. CASE EngineThread
  BY <1>3, BridgeOrder DEF EngineThread
<1>4. CASE SocketThread
  BY <1>4, BridgeOrder, WriteOrder, ReadOrder DEF SocketThread
<1> QED
  BY <1>1, <1>2, <1>3, <1>4 DEF Next

\* In each queue and from each to the next, the messages of a client are in
\* the order it sent its requests in.
THEOREM QueuesKeepOrder ==
    ASSUME PipeFatal = TRUE
    PROVE  Spec => []OrderInv
<1>1. Spec => []IInv
  BY BridgeInvariant
<1>2. Init => OrderInv
  BY InitOrder
<1>3. IInv /\ IInv' /\ OrderInv /\ [Next]_vars => OrderInv'
  BY NextOrder
<1> QED
  BY <1>1, <1>2, <1>3, PTL DEF Spec

\* The responses to a client come in the order of its requests, none twice,
\* through both threads and however its lines were cut into reads.
THEOREM ResponsesKeepOrder ==
    ASSUME PipeFatal = TRUE
    PROVE  Spec => []ResponsesInOrder
<1>1. OrderInv => ResponsesInOrder
  <2> SUFFICES ASSUME OrderInv, NEW c \in Clients,
                      NEW i \in DOMAIN (taken[c] \o toClient[c]),
                      NEW j \in DOMAIN (taken[c] \o toClient[c]), i < j,
                      (taken[c] \o toClient[c])[i].owner = c,
                      (taken[c] \o toClient[c])[j].owner = c
               PROVE  (taken[c] \o toClient[c])[i].rid < (taken[c] \o toClient[c])[j].rid
    BY DEF ResponsesInOrder
  <2> DEFINE s == taken[c]
             t == toClient[c]
  <2>1. s \in Seq(Messages) /\ t \in Seq(Messages)
    BY DEF OrderInv
  <2>2. /\ Line(c)[1] = s /\ Line(c)[2] = t /\ InOrder(Line(c), c)
        /\ 1 \in Stages /\ 2 \in Stages
    BY DEF OrderInv, Line, Stages
  <2> HIDE DEF s, t
  <2>3. /\ Len(s) \in Nat /\ Len(t) \in Nat /\ DOMAIN s = 1..Len(s) /\ DOMAIN t = 1..Len(t)
        /\ DOMAIN (s \o t) = 1..(Len(s) + Len(t))
        /\ \A k \in 1..(Len(s) + Len(t)) :
               (s \o t)[k] = IF k <= Len(s) THEN s[k] ELSE t[k - Len(s)]
    BY <2>1, ConcatProperties, LenProperties
  <2>4. /\ i \in 1..(Len(s) + Len(t)) /\ j \in 1..(Len(s) + Len(t)) /\ i < j
        /\ (s \o t)[i].owner = c /\ (s \o t)[j].owner = c
    BY <2>3 DEF s, t
  <2>5. CASE j <= Len(s)
    <3>1. /\ i \in DOMAIN Line(c)[1] /\ j \in DOMAIN Line(c)[1]
          /\ (s \o t)[i] = s[i] /\ (s \o t)[j] = s[j] /\ Ahead(1, i, 1, j)
      BY <2>2, <2>3, <2>4, <2>5 DEF Ahead
    <3> QED
      BY <2>2, <2>4, <3>1 DEF InOrder, s, t
  <2>6. CASE i <= Len(s) /\ ~(j <= Len(s))
    <3>1. /\ i \in DOMAIN Line(c)[1] /\ j - Len(s) \in DOMAIN Line(c)[2]
          /\ (s \o t)[i] = s[i] /\ (s \o t)[j] = t[j - Len(s)] /\ Ahead(1, i, 2, j - Len(s))
      BY <2>2, <2>3, <2>4, <2>6 DEF Ahead
    <3> QED
      BY <2>2, <2>4, <3>1 DEF InOrder, s, t
  <2>7. CASE ~(i <= Len(s)) /\ ~(j <= Len(s))
    <3>1. /\ i - Len(s) \in DOMAIN Line(c)[2] /\ j - Len(s) \in DOMAIN Line(c)[2]
          /\ (s \o t)[i] = t[i - Len(s)] /\ (s \o t)[j] = t[j - Len(s)]
          /\ Ahead(2, i - Len(s), 2, j - Len(s))
      BY <2>2, <2>3, <2>4, <2>7 DEF Ahead
    <3> QED
      BY <2>2, <2>4, <3>1 DEF InOrder, s, t
  <2> QED
    BY <2>3, <2>4, <2>5, <2>6, <2>7
<1> QED
  BY <1>1, QueuesKeepOrder, PTL
=============================================================================
