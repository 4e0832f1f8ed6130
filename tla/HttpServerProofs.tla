-------------------------- MODULE HttpServerProofs --------------------------
(***************************************************************************)
(* HttpServer for every set of connections, every buffer size, all lengths *)
(* and numbers of requests: an answer is sent only for a request that has  *)
(* arrived in full, and a connection is in the accept queues at most once. *)
(*                                                                         *)
(* AnswersRight is not inductive.  That a parsed request is all of it      *)
(* needs an account of where the units of a request are (on their way,     *)
(* arrived, in recv, parsed); that a well-formed one is not refused needs  *)
(* that HandleNewConn never waits with a parser in error, and therefore    *)
(* that StartAccept starts it once: a connection in either accept queue is *)
(* in no other place of it and has no coroutine.                           *)
(***************************************************************************)
EXTENDS HttpServer, SequenceTheorems, TLAPS

Places == {"none", "backlog", "recv", "handle", "send", "ending", "closed"}

TypeOK ==
  /\ up \in BOOLEAN /\ acceptor \in {"ready", "waiting"}
  /\ backlog \in Seq(Conns) /\ accepted_sockets \in Seq(Conns)
  /\ conn \in [Conns -> Places]
  /\ recv \in [Conns -> Nat] /\ parsed \in [Conns -> Nat]
  /\ parser \in [Conns -> {"ok", "error"}] /\ is_need_return \in [Conns -> BOOLEAN]
  /\ kind \in [Conns -> {"keep", "close", "bad"}]
  /\ length \in [Conns -> Nat] /\ unsent \in [Conns -> Nat]
  /\ arrived \in [Conns -> Nat] /\ eof \in [Conns -> BOOLEAN]
  /\ asked \in [Conns -> Nat] /\ answers \in [Conns -> Seq({"good", "bad"})]

\* The connections in the order in which StartAccept will get them.
Queue == accepted_sockets \o backlog

\* A connection is queued once, and before its HandleNewConn has begun.
QueuedOnce ==
  \A i \in 1 .. Len(Queue) :
    /\ conn[Queue[i]] = "backlog"
    /\ \A j \in 1 .. Len(Queue) : Queue[i] = Queue[j] => i = j

\* Where the units of the current request are.
Units(c) == unsent[c] + arrived[c] + recv[c] + parsed[c]

\* Between requests there are none; otherwise they add up to the request, which counts
\* as asked from its last unit on.
Accounted(c) ==
  \/ asked[c] = Len(answers[c]) /\ Units(c) = 0
  \/ /\ Units(c) = length[c] /\ (kind[c] = "bad" => length[c] = 1)
     /\ \/ asked[c] = Len(answers[c]) /\ unsent[c] > 0
        \/ asked[c] = Len(answers[c]) + 1 /\ unsent[c] = 0

\* HandleNewConn has a whole request, or a parser that has refused nothing.
Handling(c) ==
  IF conn[c] \in {"handle", "send"}
  THEN /\ asked[c] = Len(answers[c]) + 1 /\ parsed[c] = length[c]
       /\ (parser[c] = "error") <=> (kind[c] = "bad")
  ELSE parser[c] = "ok"

RequestInv == \A c \in Conns : Accounted(c) /\ Handling(c)

-----------------------------------------------------------------------------
(* Type correctness.                                                       *)

\* What recv() returns is no more than has arrived, and fills at most the buffer.
LEMMA RecvBytesBound ==
  ASSUME TypeOK, NEW c \in Conns
  PROVE  RecvBytes(c) \in 0 .. arrived[c]
BY HttpAssumption DEF TypeOK, RecvBytes

\* What a Receive leaves to be received.
LEMMA ReceiveEffect ==
  ASSUME TypeOK, NEW c \in Conns, NEW n \in Nat, Receive(c, n)
  PROVE  /\ arrived[c] - n \in Nat
         /\ arrived' = [arrived EXCEPT ![c] = arrived[c] - n]
         /\ arrived' \in [Conns -> Nat]
         /\ UNCHANGED <<up, acceptor, backlog, accepted_sockets, kind, length, unsent,
                        eof, asked, answers>>
<1>1. arrived[c] \in Nat /\ n \in 0 .. arrived[c] /\ arrived \in [Conns -> Nat]
  BY RecvBytesBound DEF Receive, TypeOK
<1>2. arrived[c] - n \in Nat
  BY <1>1
<1> QED  BY <1>1, <1>2 DEF Receive, acceptVars

\* What Parse does with the units it hands to the parser.
LEMMA ParseEffect ==
  ASSUME TypeOK, NEW c \in Conns, Parse(c)
  PROVE  /\ TypeOK'
         /\ \E n \in 0 .. arrived[c] :
              LET ret == ParseOnce(c, recv[c] + n) IN
              /\ up /\ conn[c] = "recv" /\ recv[c] + n > 0
              /\ arrived' = [arrived EXCEPT ![c] = arrived[c] - n]
              /\ parsed' = [parsed EXCEPT ![c] = parsed[c] + (recv[c] + n)]
              /\ recv' = [recv EXCEPT ![c] = 0]
              /\ parser' = [parser EXCEPT ![c] =
                              IF ret = "refused" THEN "error" ELSE parser[c]]
              /\ conn' = [conn EXCEPT ![c] = IF ret = "partial" THEN "recv" ELSE "handle"]
         /\ UNCHANGED <<acceptor, backlog, accepted_sockets, kind, length, unsent, asked,
                        answers>>
<1>1. PICK n \in 0 .. read_buffer_size - 1 :
        /\ Receive(c, n) /\ recv[c] + n > 0
        /\ parsed' = [parsed EXCEPT ![c] = parsed[c] + (recv[c] + n)]
        /\ parser' = [parser EXCEPT ![c] =
                        IF ParseOnce(c, recv[c] + n) = "refused" THEN "error" ELSE parser[c]]
        /\ conn' = [conn EXCEPT ![c] =
                      IF ParseOnce(c, recv[c] + n) = "partial" THEN "recv" ELSE "handle"]
        /\ is_need_return' = [is_need_return EXCEPT ![c] =
             ParseOnce(c, recv[c] + n) = "complete" /\ kind[c] = "close"]
  BY DEF Parse
<1>2. recv' = [recv EXCEPT ![c] = 0]
  BY DEF Parse
<1>3. n \in Nat /\ n = RecvBytes(c) /\ up /\ conn[c] = "recv"
  BY <1>1 DEF Receive
<1>4. parsed' \in [Conns -> Nat] /\ recv' \in [Conns -> Nat]
  BY <1>1, <1>2, <1>3 DEF TypeOK
<1>5. parser' \in [Conns -> {"ok", "error"}] /\ conn' \in [Conns -> Places]
  BY <1>1 DEF TypeOK, Places
<1>6. is_need_return' \in [Conns -> BOOLEAN]
  BY <1>1 DEF TypeOK
<1>7. TypeOK'
  BY <1>1, <1>3, <1>4, <1>5, <1>6, ReceiveEffect DEF TypeOK
<1>8. n \in 0 .. arrived[c]
  BY <1>3, RecvBytesBound
<1> QED  BY <1>1, <1>2, <1>3, <1>7, <1>8, ReceiveEffect

\* TypeOK is inductive.
LEMMA TypeStep ==
  ASSUME TypeOK, [Next]_vars
  PROVE  TypeOK'
<1> USE HttpAssumption DEF TypeOK, acceptVars, connVars, peerVars, Places
<1>1. CASE UNCHANGED vars \/ Terminated
  BY <1>1 DEF vars, Terminated
<1>2. ASSUME NEW c \in Conns, Peer(c)
      PROVE  TypeOK'
  <2>1. CASE Connect(c)
    <3>1. conn' = [conn EXCEPT ![c] = "backlog"] /\ backlog' = Append(backlog, c)
      BY <2>1 DEF Connect
    <3>2. conn' \in [Conns -> Places]
      BY <3>1
    <3>3. backlog' \in Seq(Conns)
      BY <3>1
    <3>4. UNCHANGED <<up, acceptor, accepted_sockets, recv, parsed, parser, is_need_return,
                      kind, length, unsent, arrived, eof, asked, answers>>
      BY <2>1 DEF Connect
    <3> HIDE HttpAssumption
    <3> QED  BY <3>2, <3>3, <3>4
  <2>2. CASE BeginRequest(c)
    BY <2>2 DEF BeginRequest
  <2>3. CASE Deliver(c)
    <3>1. PICK n \in 1 .. unsent[c] :
            /\ unsent' = [unsent EXCEPT ![c] = @ - n]
            /\ arrived' = [arrived EXCEPT ![c] = @ + n]
            /\ asked' = IF n = unsent[c] THEN [asked EXCEPT ![c] = @ + 1] ELSE asked
      BY <2>3 DEF Deliver
    <3>2. unsent[c] - n \in Nat /\ arrived[c] + n \in Nat /\ asked[c] + 1 \in Nat
      BY SMTT(60)
    <3>3. /\ unsent' \in [Conns -> Nat] /\ arrived' \in [Conns -> Nat]
          /\ asked' \in [Conns -> Nat]
      BY <3>1, <3>2
    <3> QED  BY <2>3, <3>3 DEF Deliver
  <2>4. CASE ClosePeer(c)
    BY <2>4 DEF ClosePeer
  <2> QED  BY <1>2, <2>1, <2>2, <2>3, <2>4 DEF Peer
<1>3. ASSUME NEW c \in Conns, HandleNewConn(c)
      PROVE  TypeOK'
  <2>1. CASE ReadOn(c)
    <3>1. read_buffer_size \in Nat /\ Receive(c, read_buffer_size)
      BY <2>1 DEF ReadOn
    <3>2. recv' \in [Conns -> Nat]
      BY <2>1, <3>1 DEF ReadOn
    <3>3. UNCHANGED <<conn, parsed, parser, is_need_return>>
      BY <2>1 DEF ReadOn
    <3> HIDE HttpAssumption
    <3> QED  BY <3>1, <3>2, <3>3, ReceiveEffect
  <2>2. CASE Lost(c)
    <3>1. PICK n \in 0 .. read_buffer_size - 1 : Receive(c, n)
      BY <2>2 DEF Lost
    <3>2. n \in Nat
      BY <3>1
    <3>3. conn' \in [Conns -> Places] /\ UNCHANGED <<recv, parsed, parser, is_need_return>>
      BY <2>2 DEF Lost
    <3> HIDE HttpAssumption
    <3> QED  BY <3>1, <3>2, <3>3, ReceiveEffect
  <2>3. CASE Parse(c)
    BY <2>3, ParseEffect
  <2>4. CASE HandlerReturns(c) \/ HandlerThrows(c) \/ CloseConn(c)
    BY <2>4 DEF HandlerReturns, HandlerThrows, CloseConn
  <2>5. CASE SendReturns(c)
    <3>1. answers' \in [Conns -> Seq({"good", "bad"})]
      BY <2>5 DEF SendReturns
    <3>2. conn' \in [Conns -> Places]
      BY <2>5 DEF SendReturns
    <3> QED  BY <2>5, <3>1, <3>2 DEF SendReturns
  <2> QED  BY <1>3, <2>1, <2>2, <2>3, <2>4, <2>5 DEF HandleNewConn
<1>4. CASE StartAccept
  <2>1. CASE AcceptQueued
    <3>1. Head(accepted_sockets) \in Conns /\ Tail(accepted_sockets) \in Seq(Conns)
      BY <2>1 DEF AcceptQueued
    <3>2. conn' \in [Conns -> Places] /\ accepted_sockets' \in Seq(Conns)
      BY <2>1, <3>1 DEF AcceptQueued, Handled
    <3> QED  BY <2>1, <3>2 DEF AcceptQueued
  <2>2. CASE AwaitAccept \/ AcceptFails
    BY <2>2 DEF AwaitAccept, AcceptFails
  <2>3. CASE GetNextAvailableSocket
    <3>1. Queue \in Seq(Conns) /\ Queue # <<>>
      BY <2>3 DEF GetNextAvailableSocket, Queue
    <3>2. Head(Queue) \in Conns /\ Tail(Queue) \in Seq(Conns)
      BY <3>1
    <3>3. /\ conn' = [conn EXCEPT ![Head(Queue)] = "recv"]
          /\ accepted_sockets' = Tail(Queue) /\ backlog' = <<>>
      BY <2>3 DEF GetNextAvailableSocket, Handled, Queue
    <3>4. conn' \in [Conns -> Places]
      BY <3>2, <3>3
    <3>5. accepted_sockets' \in Seq(Conns) /\ backlog' \in Seq(Conns)
      BY <3>2, <3>3
    <3> QED  BY <2>3, <3>4, <3>5 DEF GetNextAvailableSocket
  <2> QED  BY <1>4, <2>1, <2>2, <2>3 DEF StartAccept
<1> QED  BY <1>1, <1>2, <1>3, <1>4 DEF Next

\* Every variable of the server keeps its type.
THEOREM TypeCorrect == Spec => []TypeOK
<1>1. Init => TypeOK
  BY DEF Init, TypeOK, Places
<1> QED  BY <1>1, TypeStep, PTL DEF Spec

-----------------------------------------------------------------------------
(* The accept queues.                                                      *)

\* A step that touches neither queue and moves no connection that is in one.
LEMMA QueueFrame ==
  ASSUME TypeOK, QueuedOnce, UNCHANGED <<accepted_sockets, backlog>>,
         \A c \in Conns : conn[c] = "backlog" => conn'[c] = "backlog"
  PROVE  QueuedOnce'
<1>1. Queue' = Queue /\ Queue \in Seq(Conns)
  BY DEF Queue, TypeOK
<1>2. \A i \in 1 .. Len(Queue) : Queue[i] \in Conns
  BY <1>1
<1> QED  BY <1>1, <1>2 DEF QueuedOnce

\* accept() by the kernel: a connection that is new comes last.
LEMMA QueueAppend ==
  ASSUME TypeOK, QueuedOnce, NEW c \in Conns, Connect(c)
  PROVE  QueuedOnce'
<1>1. Queue \in Seq(Conns) /\ Queue' = Append(Queue, c)
  <2>1. accepted_sockets \in Seq(Conns) /\ backlog \in Seq(Conns) /\ <<c>> \in Seq(Conns)
    BY DEF TypeOK
  <2>2. accepted_sockets' = accepted_sockets /\ backlog' = Append(backlog, c)
    BY DEF Connect
  <2>3. Queue' = accepted_sockets \o (backlog \o <<c>>)
    BY <2>1, <2>2, AppendIsConcat DEF Queue
  <2>4. Queue' = Queue \o <<c>> /\ Queue \in Seq(Conns)
    BY <2>1, <2>3, ConcatAssociative DEF Queue
  <2> QED  BY <2>4, AppendIsConcat
<1>2. /\ conn' = [conn EXCEPT ![c] = "backlog"] /\ conn[c] = "none"
      /\ conn \in [Conns -> Places]
  BY DEF Connect, TypeOK
<1> DEFINE q == Queue  r == Queue'
<1>3. /\ Len(q) \in Nat /\ Len(r) = Len(q) + 1 /\ r[Len(q) + 1] = c
      /\ \A i \in 1 .. Len(q) : r[i] = q[i] /\ q[i] \in Conns
  BY <1>1
<1>4. \A i \in 1 .. Len(q) : conn[q[i]] = "backlog" /\ q[i] # c
  BY <1>2 DEF QueuedOnce
<1>5. \A i \in 1 .. Len(r) : i \in 1 .. Len(q) \/ i = Len(q) + 1
  BY <1>3
<1>6. \A i \in 1 .. Len(r) : conn'[r[i]] = "backlog"
  BY <1>2, <1>3, <1>4, <1>5
<1>7. \A i, j \in 1 .. Len(r) : r[i] = r[j] => i = j
  BY <1>3, <1>4, <1>5 DEF QueuedOnce
<1> QED  BY <1>6, <1>7 DEF QueuedOnce

\* StartAccept takes the first connection of the queue and starts its HandleNewConn.
LEMMA QueueTail ==
  ASSUME TypeOK, QueuedOnce, Queue # <<>>, Queue' = Tail(Queue),
         conn' = [conn EXCEPT ![Head(Queue)] = "recv"]
  PROVE  QueuedOnce' /\ Head(Queue) \in Conns /\ conn[Head(Queue)] = "backlog"
<1> DEFINE q == Queue  r == Queue'
<1>1. q \in Seq(Conns) /\ conn \in [Conns -> Places]
  BY DEF Queue, TypeOK
<1>2. /\ Len(q) \in Nat \ {0} /\ Len(r) = Len(q) - 1 /\ Head(q) = q[1]
      /\ \A i \in 1 .. Len(q) : q[i] \in Conns
      /\ \A i \in 1 .. Len(r) : i + 1 \in 1 .. Len(q) /\ r[i] = q[i + 1]
  BY <1>1
<1>3. \A i \in 1 .. Len(r) : r[i] # q[1] /\ conn[r[i]] = "backlog"
  BY <1>2 DEF QueuedOnce
<1>4. \A i \in 1 .. Len(r) : conn'[r[i]] = "backlog"
  BY <1>1, <1>2, <1>3
<1>5. \A i, j \in 1 .. Len(r) : r[i] = r[j] => i = j
  BY <1>2 DEF QueuedOnce
<1>6. conn[q[1]] = "backlog"
  BY <1>2 DEF QueuedOnce
<1> QED  BY <1>2, <1>4, <1>5, <1>6 DEF QueuedOnce

\* Both ways of StartAccept to a connection take the head of the queue.
LEMMA AcceptEffect ==
  ASSUME TypeOK, AcceptQueued \/ GetNextAvailableSocket
  PROVE  /\ Queue # <<>> /\ Queue' = Tail(Queue)
         /\ conn' = [conn EXCEPT ![Head(Queue)] = "recv"]
<1>1. accepted_sockets \in Seq(Conns) /\ backlog \in Seq(Conns)
  BY DEF TypeOK
<1>2. CASE AcceptQueued
  <2>1. /\ accepted_sockets # <<>> /\ backlog' = backlog
        /\ accepted_sockets' = Tail(accepted_sockets)
        /\ conn' = [conn EXCEPT ![Head(accepted_sockets)] = "recv"]
    BY <1>2 DEF AcceptQueued, Handled
  <2>2. /\ Head(Queue) = Head(accepted_sockets) /\ Queue # <<>>
        /\ Tail(Queue) = Tail(accepted_sockets) \o backlog
    BY <1>1, <2>1 DEF Queue
  <2> QED  BY <2>1, <2>2 DEF Queue
<1>3. CASE GetNextAvailableSocket
  <2>1. /\ backlog # <<>> /\ backlog' = <<>> /\ accepted_sockets' = Tail(Queue)
        /\ conn' = [conn EXCEPT ![Head(Queue)] = "recv"]
    BY <1>3 DEF GetNextAvailableSocket, Handled, Queue
  <2>2. Queue \in Seq(Conns) /\ Queue # <<>>
    BY <1>1, <2>1 DEF Queue
  <2>3. Tail(Queue) \in Seq(Conns)
    BY <2>2
  <2> QED  BY <2>1, <2>2, <2>3 DEF Queue
<1> QED  BY <1>2, <1>3

\* QueuedOnce is inductive relative to TypeOK.
LEMMA QueuedOnceStep ==
  ASSUME TypeOK, QueuedOnce, [Next]_vars
  PROVE  QueuedOnce'
<1> USE DEF acceptVars, connVars
<1>1. CASE UNCHANGED vars \/ Terminated
  BY <1>1, QueueFrame DEF vars, Terminated
<1>2. ASSUME NEW c \in Conns, Peer(c)
      PROVE  QueuedOnce'
  <2>1. CASE BeginRequest(c) \/ Deliver(c) \/ ClosePeer(c)
    BY <2>1, QueueFrame DEF BeginRequest, Deliver, ClosePeer
  <2> QED  BY <1>2, <2>1, QueueAppend DEF Peer
<1>3. ASSUME NEW c \in Conns, HandleNewConn(c)
      PROVE  QueuedOnce'
  <2>1. conn[c] # "backlog" /\ UNCHANGED <<accepted_sockets, backlog>>
    BY <1>3 DEF HandleNewConn, ReadOn, Lost, Parse, Receive, HandlerReturns,
                HandlerThrows, SendReturns, CloseConn
  <2>2. \A d \in Conns \ {c} : conn'[d] = conn[d]
    BY <1>3 DEF TypeOK, HandleNewConn, ReadOn, Lost, Parse, HandlerReturns,
                HandlerThrows, SendReturns, CloseConn
  <2> QED  BY <2>1, <2>2, QueueFrame
<1>4. CASE StartAccept
  <2>1. CASE AcceptQueued \/ GetNextAvailableSocket
    BY <2>1, AcceptEffect, QueueTail
  <2>2. CASE AwaitAccept \/ AcceptFails
    BY <2>2, QueueFrame DEF AwaitAccept, AcceptFails
  <2> QED  BY <1>4, <2>1, <2>2 DEF StartAccept
<1> QED  BY <1>1, <1>2, <1>3, <1>4 DEF Next

\* StartAccept never gets a connection twice, nor one that HandleNewConn has already:
\* the accept() loop and the queue of earlier accept()s hand out each once.
THEOREM AcceptedOnce == Spec => []QueuedOnce
<1>1. Init => QueuedOnce
  <2> SUFFICES ASSUME Init PROVE QueuedOnce
    OBVIOUS
  <2>1. Queue = <<>>
    BY DEF Init, Queue
  <2> QED  BY <2>1 DEF QueuedOnce
<1> QED  BY <1>1, QueuedOnceStep, TypeCorrect, PTL DEF Spec

-----------------------------------------------------------------------------
(* Requests and answers.                                                   *)

\* Of another connection nothing changes.
LEMMA RequestFrame ==
  ASSUME NEW d \in Conns, Accounted(d), Handling(d),
         conn'[d] = conn[d], recv'[d] = recv[d], parsed'[d] = parsed[d],
         parser'[d] = parser[d], kind'[d] = kind[d], length'[d] = length[d],
         unsent'[d] = unsent[d], arrived'[d] = arrived[d], asked'[d] = asked[d],
         answers'[d] = answers[d]
  PROVE  Accounted(d)' /\ Handling(d)'
BY DEF Accounted, Handling, Units

\* A connection may move between the places where it is not being answered.
LEMMA MoveFrame ==
  ASSUME TypeOK, RequestInv, NEW c \in Conns, conn[c] \notin {"handle", "send"},
         NEW at \in Places \ {"handle", "send"}, conn' = [conn EXCEPT ![c] = at],
         UNCHANGED <<recv, parsed, parser, kind, length, unsent, arrived, asked, answers>>
  PROVE  RequestInv'
<1> SUFFICES ASSUME NEW d \in Conns
             PROVE  Accounted(d)' /\ Handling(d)'
  BY DEF RequestInv
<1>1. Accounted(d) /\ Handling(d)
  BY DEF RequestInv
<1>2. conn'[d] = IF d = c THEN at ELSE conn[d]
  BY DEF TypeOK
<1> QED  BY <1>1, <1>2 DEF Accounted, Handling, Units

\* A peer begins a request, or a segment of it arrives.
LEMMA PeerRequest ==
  ASSUME TypeOK, RequestInv, NEW c \in Conns, BeginRequest(c) \/ Deliver(c)
  PROVE  RequestInv'
<1>1. /\ Accounted(c) /\ Handling(c)
      /\ recv[c] \in Nat /\ parsed[c] \in Nat /\ unsent[c] \in Nat /\ arrived[c] \in Nat
      /\ length[c] \in Nat /\ asked[c] \in Nat /\ Len(answers[c]) \in Nat
  BY DEF RequestInv, TypeOK
<1>2. CASE BeginRequest(c)
  <2>1. PICK k \in Kinds, n \in Lengths \cup {1} :
          /\ (k = "bad") => n = 1
          /\ kind' = [kind EXCEPT ![c] = k]
          /\ length' = [length EXCEPT ![c] = n]
          /\ unsent' = [unsent EXCEPT ![c] = n]
    BY <1>2 DEF BeginRequest
  <2>2. /\ unsent[c] = 0 /\ asked[c] = Len(answers[c])
        /\ UNCHANGED <<conn, recv, parsed, parser, arrived, asked, answers>>
    BY <1>2 DEF BeginRequest, connVars
  <2>3. /\ unsent'[c] = n /\ length'[c] = n /\ kind'[c] = k
        /\ n \in Nat \ {0}
    BY <2>1, HttpAssumption DEF TypeOK
  <2>4. Units(c) = 0
    BY <1>1, <2>2 DEF Accounted
  <2>5. Accounted(c)'
    <3>1. arrived[c] = 0 /\ recv[c] = 0 /\ parsed[c] = 0
      BY <1>1, <2>4 DEF Units
    <3>2. arrived'[c] = 0 /\ recv'[c] = 0 /\ parsed'[c] = 0
      BY <2>2, <3>1
    <3>3. Units(c)' = n
      BY <2>3, <3>2 DEF Units
    <3> QED  BY <2>1, <2>2, <2>3, <3>3 DEF Accounted
  <2>6. Handling(c)'
    BY <1>1, <2>2 DEF Handling
  <2>7. ASSUME NEW d \in Conns \ {c}
        PROVE  Accounted(d)' /\ Handling(d)'
    <3>1. kind'[d] = kind[d] /\ length'[d] = length[d] /\ unsent'[d] = unsent[d]
      BY <2>1 DEF TypeOK
    <3> QED  BY <2>2, <3>1, RequestFrame DEF RequestInv
  <2> QED  BY <2>5, <2>6, <2>7 DEF RequestInv
<1>3. CASE Deliver(c)
  <2>1. PICK n \in 1 .. unsent[c] :
          /\ unsent' = [unsent EXCEPT ![c] = @ - n]
          /\ arrived' = [arrived EXCEPT ![c] = @ + n]
          /\ asked' = IF n = unsent[c] THEN [asked EXCEPT ![c] = @ + 1] ELSE asked
    BY <1>3 DEF Deliver
  <2>2. UNCHANGED <<conn, recv, parsed, parser, kind, length, answers>>
    BY <1>3 DEF Deliver, connVars
  <2>3. /\ unsent'[c] = unsent[c] - n /\ arrived'[c] = arrived[c] + n
        /\ asked'[c] = IF n = unsent[c] THEN asked[c] + 1 ELSE asked[c]
    BY <2>1 DEF TypeOK
  <2>4. /\ Units(c) = length[c] /\ (kind[c] = "bad" => length[c] = 1)
        /\ asked[c] = Len(answers[c]) /\ unsent[c] > 0
    <3>1. unsent[c] > 0
      BY <1>1
    <3>2. Units(c) # 0
      BY <1>1, <3>1 DEF Units
    <3> QED  BY <1>1, <3>1, <3>2 DEF Accounted
  <2>5. Units(c)' = Units(c)
    BY <1>1, <2>1, <2>2, <2>3 DEF Units
  <2>6. Accounted(c)'
    <3>1. Units(c)' = length'[c] /\ (kind'[c] = "bad" => length'[c] = 1)
      BY <2>2, <2>4, <2>5
    <3>2. CASE n = unsent[c]
      <4>1. asked'[c] = Len(answers'[c]) + 1 /\ unsent'[c] = 0
        BY <1>1, <2>2, <2>3, <2>4, <3>2
      <4> QED  BY <3>1, <4>1 DEF Accounted
    <3>3. CASE n # unsent[c]
      <4>1. asked'[c] = Len(answers'[c]) /\ unsent'[c] > 0
        BY <1>1, <2>1, <2>2, <2>3, <2>4, <3>3
      <4> QED  BY <3>1, <4>1 DEF Accounted
    <3> QED  BY <3>2, <3>3
  <2>7. Handling(c)'
    BY <1>1, <2>2, <2>4 DEF Handling
  <2>8. ASSUME NEW d \in Conns \ {c}
        PROVE  Accounted(d)' /\ Handling(d)'
    <3>1. unsent'[d] = unsent[d] /\ arrived'[d] = arrived[d] /\ asked'[d] = asked[d]
      BY <2>1 DEF TypeOK
    <3> QED  BY <2>2, <3>1, RequestFrame DEF RequestInv
  <2> QED  BY <2>6, <2>7, <2>8 DEF RequestInv
<1> QED  BY <1>2, <1>3

\* HandleNewConn gathers what has arrived and has it parsed.
LEMMA ReadRequest ==
  ASSUME TypeOK, RequestInv, NEW c \in Conns, ReadOn(c) \/ Lost(c) \/ Parse(c)
  PROVE  RequestInv'
<1>1. /\ Accounted(c) /\ Handling(c)
      /\ recv[c] \in Nat /\ parsed[c] \in Nat /\ unsent[c] \in Nat /\ arrived[c] \in Nat
      /\ length[c] \in Nat /\ asked[c] \in Nat /\ Len(answers[c]) \in Nat
      /\ parser[c] \in {"ok", "error"} /\ kind[c] \in {"keep", "close", "bad"}
  BY DEF RequestInv, TypeOK
<1>2. CASE ReadOn(c)
  <2>1. /\ read_buffer_size \in Nat /\ Receive(c, read_buffer_size)
        /\ recv'[c] = recv[c] + read_buffer_size /\ conn[c] = "recv"
        /\ UNCHANGED <<conn, parsed, parser, is_need_return>>
    BY <1>2, HttpAssumption DEF ReadOn, Receive, TypeOK
  <2>2. arrived'[c] = arrived[c] - read_buffer_size
    <3>1. arrived' = [arrived EXCEPT ![c] = arrived[c] - read_buffer_size]
      BY <2>1, ReceiveEffect
    <3> QED  BY <3>1 DEF TypeOK
  <2>3. UNCHANGED <<kind, length, unsent, asked, answers>>
    BY <2>1, ReceiveEffect
  <2>4. Units(c)' = Units(c)
    BY <1>1, <2>1, <2>2, <2>3 DEF Units
  <2>5. Accounted(c)' /\ Handling(c)'
    BY <1>1, <2>1, <2>3, <2>4 DEF Accounted, Handling
  <2>6. ASSUME NEW d \in Conns \ {c}
        PROVE  Accounted(d)' /\ Handling(d)'
    <3>1. arrived'[d] = arrived[d]
      BY ZenonT(60), <2>1, ReceiveEffect DEF TypeOK
    <3>2. recv'[d] = recv[d]
      BY <1>2 DEF ReadOn, TypeOK
    <3> QED  BY <2>1, <2>3, <3>1, <3>2, RequestFrame DEF RequestInv
  <2> QED  BY <2>5, <2>6 DEF RequestInv
<1>3. CASE Lost(c)
  <2>1. PICK n \in 0 .. read_buffer_size - 1 : Receive(c, n) /\ recv[c] + n = 0
    BY <1>3 DEF Lost
  <2>2. n = 0 /\ conn[c] = "recv"
    BY <1>1, <2>1, HttpAssumption DEF Receive
  <2>3. arrived' = arrived
    BY SMTT(60), <2>1, <2>2, ReceiveEffect DEF TypeOK
  <2>4. UNCHANGED <<kind, length, unsent, asked, answers>>
    BY <2>1, <2>2, ReceiveEffect
  <2>5. /\ conn' = [conn EXCEPT ![c] = "ending"]
        /\ UNCHANGED <<recv, parsed, parser>>
    BY <1>3 DEF Lost
  <2>6. "ending" \in Places \ {"handle", "send"}
    BY DEF Places
  <2> QED  BY <2>2, <2>3, <2>4, <2>5, <2>6, MoveFrame
<1>4. CASE Parse(c)
  <2>1. PICK n \in 0 .. arrived[c] :
          /\ conn[c] = "recv" /\ recv[c] + n > 0
          /\ arrived' = [arrived EXCEPT ![c] = arrived[c] - n]
          /\ parsed' = [parsed EXCEPT ![c] = parsed[c] + (recv[c] + n)]
          /\ recv' = [recv EXCEPT ![c] = 0]
          /\ parser' = [parser EXCEPT ![c] =
               IF ParseOnce(c, recv[c] + n) = "refused" THEN "error" ELSE parser[c]]
          /\ conn' = [conn EXCEPT ![c] =
               IF ParseOnce(c, recv[c] + n) = "partial" THEN "recv" ELSE "handle"]
    BY <1>4, ParseEffect
  <2>2. UNCHANGED <<kind, length, unsent, asked, answers>>
    BY <1>4, ParseEffect
  <2> DEFINE ret == ParseOnce(c, recv[c] + n)
  <2>3. /\ arrived'[c] = arrived[c] - n /\ parsed'[c] = parsed[c] + (recv[c] + n)
        /\ recv'[c] = 0 /\ parser'[c] = IF ret = "refused" THEN "error" ELSE parser[c]
        /\ conn'[c] = IF ret = "partial" THEN "recv" ELSE "handle"
    <3>1. arrived'[c] = arrived[c] - n
      BY <2>1 DEF TypeOK
    <3>2. parsed'[c] = parsed[c] + (recv[c] + n)
      BY <2>1 DEF TypeOK
    <3>3. recv'[c] = 0
      BY <2>1 DEF TypeOK
    <3>4. parser'[c] = IF ret = "refused" THEN "error" ELSE parser[c]
      BY <2>1 DEF TypeOK
    <3>5. conn'[c] = IF ret = "partial" THEN "recv" ELSE "handle"
      BY <2>1 DEF TypeOK
    <3> QED  BY <3>1, <3>2, <3>3, <3>4, <3>5
  <2>4. Units(c)' = Units(c) /\ Units(c) > 0
    <3>1. Units(c)' = unsent[c] + (arrived[c] - n) + 0 + (parsed[c] + (recv[c] + n))
      BY <2>2, <2>3 DEF Units
    <3>2. Units(c) = unsent[c] + arrived[c] + recv[c] + parsed[c]
      BY DEF Units
    <3> HIDE DEF ret
    <3> QED  BY SMTT(60), <1>1, <2>1, <3>1, <3>2
  <2>5. Accounted(c)'
    BY <1>1, <2>2, <2>4 DEF Accounted
  <2>6. parser[c] = "ok"
    BY <1>1, <2>1 DEF Handling
  <2>7. Handling(c)'
    <3>1. CASE ret = "partial"
      BY <2>3, <2>6, <3>1 DEF Handling
    <3>2. CASE ret = "complete"
      <4>1. kind[c] # "bad" /\ parsed[c] + (recv[c] + n) = length[c]
        BY <3>2 DEF ParseOnce
      <4>2. asked[c] = Len(answers[c]) + 1
        BY SMTT(60), <1>1, <2>1, <2>4, <4>1 DEF Accounted, Units
      <4> QED  BY <2>2, <2>3, <2>6, <3>2, <4>1, <4>2 DEF Handling
    <3>3. CASE ret = "refused"
      <4>1. kind[c] = "bad"
        BY <2>6, <3>3 DEF ParseOnce
      <4>2. asked[c] = Len(answers[c]) + 1 /\ parsed[c] + (recv[c] + n) = length[c]
        <5>1. Units(c) = 1 /\ length[c] = 1 /\ recv[c] + n >= 1
          BY <1>1, <2>1, <2>4, <4>1 DEF Accounted
        <5>2. unsent[c] = 0 /\ parsed[c] = 0 /\ recv[c] + n = 1
          BY <1>1, <5>1 DEF Units
        <5> QED  BY <1>1, <2>4, <5>1, <5>2 DEF Accounted
      <4> QED  BY <2>2, <2>3, <3>3, <4>1, <4>2 DEF Handling
    <3>4. ret \in {"partial", "complete", "refused"}
      BY DEF ParseOnce
    <3> QED  BY <3>1, <3>2, <3>3, <3>4
  <2>8. ASSUME NEW d \in Conns \ {c}
        PROVE  Accounted(d)' /\ Handling(d)'
    <3>1. /\ arrived'[d] = arrived[d] /\ parsed'[d] = parsed[d] /\ recv'[d] = recv[d]
          /\ parser'[d] = parser[d] /\ conn'[d] = conn[d]
      BY <2>1 DEF TypeOK
    <3> QED  BY <2>2, <3>1, RequestFrame DEF RequestInv
  <2> QED  BY <2>5, <2>7, <2>8 DEF RequestInv
<1> QED  BY <1>2, <1>3, <1>4

\* The answer to a request ends it: its units are those that were parsed.
LEMMA AnswerRequest ==
  ASSUME TypeOK, RequestInv, NEW c \in Conns, SendReturns(c)
  PROVE  RequestInv'
<1>1. /\ Accounted(c) /\ Handling(c)
      /\ recv[c] \in Nat /\ parsed[c] \in Nat /\ unsent[c] \in Nat /\ arrived[c] \in Nat
      /\ length[c] \in Nat /\ asked[c] \in Nat /\ answers[c] \in Seq({"good", "bad"})
  BY DEF RequestInv, TypeOK
<1>2. /\ conn[c] = "send" /\ parser'[c] = "ok" /\ parsed'[c] = 0
      /\ conn'[c] \in {"ending", "recv"}
      /\ UNCHANGED <<kind, length, unsent, arrived, asked, recv>>
  BY DEF SendReturns, TypeOK, peerVars
<1>3. Len(answers'[c]) = Len(answers[c]) + 1 /\ Len(answers[c]) \in Nat
  BY <1>1 DEF SendReturns, TypeOK
<1>4. asked[c] = Len(answers[c]) + 1 /\ parsed[c] = length[c]
  BY <1>1, <1>2 DEF Handling
<1>5. Units(c) = length[c]
  BY <1>1, <1>3, <1>4 DEF Accounted
<1>6. Units(c)' = 0
  BY <1>1, <1>2, <1>4, <1>5 DEF Units
<1>7. Accounted(c)' /\ Handling(c)'
  BY <1>2, <1>3, <1>4, <1>6 DEF Accounted, Handling
<1>8. ASSUME NEW d \in Conns \ {c}
      PROVE  Accounted(d)' /\ Handling(d)'
  <2>1. /\ answers'[d] = answers[d] /\ parser'[d] = parser[d] /\ parsed'[d] = parsed[d]
        /\ conn'[d] = conn[d]
    BY DEF SendReturns, TypeOK
  <2> QED  BY <1>2, <2>1, RequestFrame DEF RequestInv
<1> QED  BY <1>7, <1>8 DEF RequestInv

\* RequestInv is inductive relative to TypeOK and QueuedOnce.
LEMMA RequestStep ==
  ASSUME TypeOK, QueuedOnce, RequestInv, [Next]_vars
  PROVE  RequestInv'
<1> USE DEF acceptVars, connVars, peerVars
<1>1. ASSUME UNCHANGED <<conn, recv, parsed, parser, kind, length, unsent, arrived, asked,
                         answers>>
      PROVE  RequestInv'
  BY <1>1 DEF RequestInv, Accounted, Handling, Units
<1>2. ASSUME NEW c \in Conns, Peer(c)
      PROVE  RequestInv'
  <2>1. CASE Connect(c)
    <3>1. "backlog" \in Places \ {"handle", "send"}
      BY DEF Places
    <3> QED  BY <2>1, <3>1, MoveFrame DEF Connect
  <2>2. CASE ClosePeer(c)
    BY <1>1, <2>2 DEF ClosePeer
  <2> QED  BY <1>2, <2>1, <2>2, PeerRequest DEF Peer
<1>3. ASSUME NEW c \in Conns, HandleNewConn(c)
      PROVE  RequestInv'
  <2>1. CASE HandlerReturns(c)
    <3>1. /\ conn[c] = "handle" /\ conn' = [conn EXCEPT ![c] = "send"]
          /\ UNCHANGED <<recv, parsed, parser, kind, length, unsent, arrived, asked, answers>>
      BY <2>1 DEF HandlerReturns
    <3>2. \A d \in Conns : conn'[d] = IF d = c THEN "send" ELSE conn[d]
      BY <3>1 DEF TypeOK
    <3> QED  BY <3>1, <3>2 DEF RequestInv, Accounted, Handling, Units
  <2>2. CASE HandlerThrows(c)
    BY <1>1, <2>2 DEF HandlerThrows
  <2>3. CASE CloseConn(c)
    <3>1. "closed" \in Places \ {"handle", "send"}
      BY DEF Places
    <3> QED  BY <2>3, <3>1, MoveFrame DEF CloseConn
  <2> QED  BY <1>3, <2>1, <2>2, <2>3, ReadRequest, AnswerRequest DEF HandleNewConn
<1>4. CASE StartAccept
  <2>1. CASE AcceptQueued \/ GetNextAvailableSocket
    <3>1. "recv" \in Places \ {"handle", "send"}
      BY DEF Places
    <3>2. UNCHANGED <<recv, parsed, parser, kind, length, unsent, arrived, asked, answers>>
      BY <2>1 DEF AcceptQueued, GetNextAvailableSocket
    <3> QED  BY <2>1, <3>1, <3>2, AcceptEffect, QueueTail, MoveFrame
  <2>2. CASE AwaitAccept \/ AcceptFails
    BY <1>1, <2>2 DEF AwaitAccept, AcceptFails
  <2> QED  BY <1>4, <2>1, <2>2 DEF StartAccept
<1>5. CASE UNCHANGED vars \/ Terminated
  BY <1>1, <1>5 DEF vars, Terminated
<1> QED  BY <1>2, <1>3, <1>4, <1>5 DEF Next

\* Whatever the pieces a request comes in, the buffer's size and the requests before it
\* on the connection: HandleNewConn calls a handler and sends an answer only for a
\* request that has arrived in full, once, and refuses exactly the malformed ones.
THEOREM AnswersCorrect == Spec => []AnswersRight
<1>1. Init => RequestInv
  <2> SUFFICES ASSUME Init PROVE RequestInv
    OBVIOUS
  <2>1. \A c \in Conns : Len(answers[c]) = 0
    BY DEF Init
  <2> QED  BY <2>1 DEF Init, RequestInv, Accounted, Handling, Units
<1>2. TypeOK /\ RequestInv => AnswersRight
  <2> SUFFICES ASSUME TypeOK, RequestInv, NEW c \in Conns
               PROVE  /\ Len(answers[c]) <= asked[c]
                      /\ conn[c] \in {"handle", "send"} =>
                           /\ Len(answers[c]) < asked[c] /\ parsed[c] = length[c]
                           /\ (parser[c] = "error") <=> (kind[c] = "bad")
    BY DEF AnswersRight
  <2>1. Accounted(c) /\ Handling(c) /\ Len(answers[c]) \in Nat /\ asked[c] \in Nat
    BY DEF RequestInv, TypeOK
  <2> QED  BY <2>1 DEF Accounted, Handling
<1> QED  BY <1>1, <1>2, RequestStep, TypeCorrect, AcceptedOnce, PTL DEF Spec
=============================================================================
