----------------------------- MODULE HttpServer -----------------------------
(***************************************************************************)
(* One working thread of HttpServer: the Acceptor, the StartAccept         *)
(* coroutine, one HandleNewConn coroutine per connection, and the peers.   *)
(* Each thread has its own listening socket and loop, so one is enough.    *)
(*                                                                         *)
(* A coroutine's code from one co_await to the next is one step, since the *)
(* loop's coroutines share a thread.  Data are counted in units of which   *)
(* read_buffer_size fit into the buffer.  A peer sends its next request    *)
(* only after the answer to the last one (no pipelining), so that the      *)
(* units on their way always belong to one request.                        *)
(***************************************************************************)
EXTENDS Integers, Sequences, FiniteSets

CONSTANTS
  Conns,             \* the connections peers may open
  Kinds,             \* how a request goes: "keep" or "close" (the Connection header
                     \* and the version), "bad" (the parser refuses it)
  Lengths,           \* lengths of well-formed requests
  read_buffer_size,
  MaxRequests        \* bound: requests of each connection

ASSUME HttpAssumption ==
  /\ Kinds \subseteq {"keep", "close", "bad"}
  /\ Lengths \subseteq Nat \ {0}
  /\ read_buffer_size \in Nat \ {0} /\ MaxRequests \in [Conns -> Nat]

VARIABLES
  up,                \* FALSE: an exception has left the event loop's thread
  acceptor,          \* StartAccept: "ready" to run or "waiting" in IOAwaiter
  backlog,           \* connections the kernel has and accept() will return
  accepted_sockets,
  conn,              \* where HandleNewConn is
  recv,              \* length of HandleNewConn's string recv
  parsed,            \* units of the current request the parser has seen
  parser,            \* "ok", or "error" once http_parser has set http_errno
  is_need_return,
  \* peers: the request being sent, the part not sent yet, the part to be received
  kind, length, unsent, arrived, eof,
  \* history: requests completely sent, and the answers to them
  asked, answers

acceptVars == <<acceptor, backlog, accepted_sockets>>
connVars   == <<conn, recv, parsed, parser, is_need_return>>
peerVars   == <<kind, length, unsent, arrived, eof, asked>>
vars == <<up, acceptVars, connVars, peerVars, answers>>

Init ==
  /\ up = TRUE /\ acceptor = "ready" /\ backlog = <<>> /\ accepted_sockets = <<>>
  /\ conn = [c \in Conns |-> "none"]
  /\ recv = [c \in Conns |-> 0] /\ parsed = [c \in Conns |-> 0]
  /\ parser = [c \in Conns |-> "ok"] /\ is_need_return = [c \in Conns |-> TRUE]
  /\ kind = [c \in Conns |-> "keep"] /\ length = [c \in Conns |-> 0]
  /\ unsent = [c \in Conns |-> 0] /\ arrived = [c \in Conns |-> 0]
  /\ eof = [c \in Conns |-> FALSE]
  /\ asked = [c \in Conns |-> 0] /\ answers = [c \in Conns |-> <<>>]

-----------------------------------------------------------------------------
(* Peers and the kernel.                                                   *)

Connect(c) ==
  /\ conn[c] = "none"
  /\ conn' = [conn EXCEPT ![c] = "backlog"]
  /\ backlog' = Append(backlog, c)
  /\ UNCHANGED <<up, acceptor, accepted_sockets, recv, parsed, parser, is_need_return,
                 peerVars, answers>>

Open(c) == conn[c] \notin {"none", "closed"} /\ ~eof[c]

\* A malformed request is one unit long: what comes after the place where the
\* parser refuses it would be taken for another request.
BeginRequest(c) ==
  /\ Open(c) /\ unsent[c] = 0 /\ asked[c] = Len(answers[c]) /\ asked[c] < MaxRequests[c]
  /\ \E k \in Kinds, n \in Lengths \cup {1} :
       /\ (k = "bad") => n = 1
       /\ kind' = [kind EXCEPT ![c] = k]
       /\ length' = [length EXCEPT ![c] = n]
       /\ unsent' = [unsent EXCEPT ![c] = n]
  /\ UNCHANGED <<up, acceptVars, connVars, arrived, eof, asked, answers>>

\* A segment arrives.
Deliver(c) ==
  /\ Open(c)
  /\ \E n \in 1 .. unsent[c] :
       /\ unsent' = [unsent EXCEPT ![c] = @ - n]
       /\ arrived' = [arrived EXCEPT ![c] = @ + n]
       /\ asked' = IF n = unsent[c] THEN [asked EXCEPT ![c] = @ + 1] ELSE asked
  /\ UNCHANGED <<up, acceptVars, connVars, kind, length, eof, answers>>

ClosePeer(c) ==
  /\ Open(c)
  /\ eof' = [eof EXCEPT ![c] = TRUE]
  /\ UNCHANGED <<up, acceptVars, connVars, kind, length, unsent, arrived, asked, answers>>

-----------------------------------------------------------------------------
(* StartAccept: co_await Accept(), then EnsureFuture(HandleNewConn(socket)) *)
(* which runs to the first Recv.                                           *)

Handled(c) == conn' = [conn EXCEPT ![c] = "recv"]

\* Acceptor::IOReadyFunctor: sockets accepted earlier are there already.
AcceptQueued ==
  /\ up /\ acceptor = "ready" /\ accepted_sockets # <<>>
  /\ accepted_sockets' = Tail(accepted_sockets)
  /\ Handled(Head(accepted_sockets))
  /\ UNCHANGED <<up, acceptor, backlog, recv, parsed, parser, is_need_return, peerVars,
                 answers>>

\* Mutant: IOReadyFunctor does not look at accepted_sockets_.
AwaitAcceptAlways ==
  /\ up /\ acceptor = "ready"
  /\ acceptor' = "waiting"
  /\ UNCHANGED <<up, backlog, accepted_sockets, connVars, peerVars, answers>>

AwaitAccept ==
  /\ up /\ acceptor = "ready" /\ accepted_sockets = <<>>
  /\ acceptor' = "waiting"
  /\ UNCHANGED <<up, backlog, accepted_sockets, connVars, peerVars, answers>>

\* GetNextAvailableSocket, once the listening socket is readable: accept() until
\* EAGAIN, then the first of the queue.
GetNextAvailableSocket ==
  /\ up /\ acceptor = "waiting" /\ backlog # <<>>
  /\ LET queue == accepted_sockets \o backlog IN
       /\ accepted_sockets' = Tail(queue)
       /\ Handled(Head(queue))
  /\ backlog' = <<>>
  /\ acceptor' = "ready"
  /\ UNCHANGED <<up, recv, parsed, parser, is_need_return, peerVars, answers>>

\* accept() fails for good (EMFILE): the exception leaves StartAccept and the loop.
AcceptFails ==
  /\ up /\ acceptor = "waiting" /\ backlog # <<>>
  /\ up' = FALSE
  /\ UNCHANGED <<acceptVars, connVars, peerVars, answers>>

-----------------------------------------------------------------------------
(* HandleNewConn.                                                          *)

\* recv() when the socket is readable or at its end: 0 at the end.
RecvBytes(c) == IF arrived[c] < read_buffer_size THEN arrived[c] ELSE read_buffer_size

Readable(c) == arrived[c] > 0 \/ eof[c]

Receive(c, n) ==
  /\ up /\ conn[c] = "recv" /\ Readable(c) /\ n = RecvBytes(c)
  /\ arrived' = [arrived EXCEPT ![c] = @ - n]
  /\ UNCHANGED <<up, acceptVars, kind, length, unsent, eof, asked, answers>>

\* The buffer was filled: read on.
ReadOn(c) ==
  /\ Receive(c, read_buffer_size)
  /\ recv' = [recv EXCEPT ![c] = @ + read_buffer_size]
  /\ UNCHANGED <<conn, parsed, parser, is_need_return>>

\* ParseOnce of what was gathered (external: http_parser): refused, complete or not.
ParseOnce(c, n) ==
  IF kind[c] = "bad" \/ parser[c] = "error" THEN "refused"
  ELSE IF parsed[c] + n = length[c] THEN "complete" ELSE "partial"

\* Mutant: the coroutine reads again.
LostReadsOn(c) ==
  /\ \E n \in 0 .. read_buffer_size - 1 : Receive(c, n) /\ recv[c] + n = 0
  /\ UNCHANGED <<conn, recv, parsed, parser, is_need_return>>

\* Nothing was received: the peer is gone.
Lost(c) ==
  /\ \E n \in 0 .. read_buffer_size - 1 : Receive(c, n) /\ recv[c] + n = 0
  /\ conn' = [conn EXCEPT ![c] = "ending"]
  /\ UNCHANGED <<recv, parsed, parser, is_need_return>>

\* Part of a request, or all of it: wait for more, or call its handler.
Parse(c) ==
  /\ \E n \in 0 .. read_buffer_size - 1 :
       LET all == recv[c] + n
           ret == ParseOnce(c, all) IN
       /\ Receive(c, n) /\ all > 0
       /\ parsed' = [parsed EXCEPT ![c] = @ + all]
       /\ parser' = [parser EXCEPT ![c] = IF ret = "refused" THEN "error" ELSE @]
       /\ conn' = [conn EXCEPT ![c] = IF ret = "partial" THEN "recv" ELSE "handle"]
       /\ is_need_return' =
            [is_need_return EXCEPT ![c] = ret = "complete" /\ kind[c] = "close"]
  /\ recv' = [recv EXCEPT ![c] = 0]

\* The handler returns (one of handlers_, RESTful_handlers_ or default_handlers_).
HandlerReturns(c) ==
  /\ up /\ conn[c] = "handle"
  /\ conn' = [conn EXCEPT ![c] = "send"]
  /\ UNCHANGED <<up, acceptVars, recv, parsed, parser, is_need_return, peerVars, answers>>

\* The handler throws; HandleNewConn does not catch it and has no continuation.
HandlerThrows(c) ==
  /\ up /\ conn[c] = "handle"
  /\ up' = FALSE
  /\ UNCHANGED <<acceptVars, connVars, peerVars, answers>>

\* Mutants: the parser, or what belongs to the last request, is kept.
SendReturnsSameParser(c) ==
  /\ up /\ conn[c] = "send"
  /\ answers' = [answers EXCEPT ![c] =
                   Append(@, IF parser[c] = "error" THEN "bad" ELSE "good")]
  /\ parsed' = [parsed EXCEPT ![c] = 0]
  /\ conn' = [conn EXCEPT ![c] = IF is_need_return[c] THEN "ending" ELSE "recv"]
  /\ UNCHANGED <<up, acceptVars, recv, parser, is_need_return, peerVars>>

SendReturnsSameRequest(c) ==
  /\ up /\ conn[c] = "send"
  /\ answers' = [answers EXCEPT ![c] =
                   Append(@, IF parser[c] = "error" THEN "bad" ELSE "good")]
  /\ parser' = [parser EXCEPT ![c] = "ok"]
  /\ conn' = [conn EXCEPT ![c] = IF is_need_return[c] THEN "ending" ELSE "recv"]
  /\ UNCHANGED <<up, acceptVars, recv, parsed, is_need_return, peerVars>>

\* Send returns (its result is not looked at, an exception is logged); a new request
\* and a new parser, and the next turn of the loop or the end.
SendReturns(c) ==
  /\ up /\ conn[c] = "send"
  /\ answers' = [answers EXCEPT ![c] =
                   Append(@, IF parser[c] = "error" THEN "bad" ELSE "good")]
  /\ parser' = [parser EXCEPT ![c] = "ok"]
  /\ parsed' = [parsed EXCEPT ![c] = 0]
  /\ conn' = [conn EXCEPT ![c] = IF is_need_return[c] THEN "ending" ELSE "recv"]
  /\ UNCHANGED <<up, acceptVars, recv, is_need_return, peerVars>>

\* CleanUpFinishedCoroutines destroys the frame and with it the socket.
CloseConn(c) ==
  /\ up /\ conn[c] = "ending"
  /\ conn' = [conn EXCEPT ![c] = "closed"]
  /\ UNCHANGED <<up, acceptVars, recv, parsed, parser, is_need_return, peerVars, answers>>

-----------------------------------------------------------------------------
Peer(c) == Connect(c) \/ BeginRequest(c) \/ Deliver(c) \/ ClosePeer(c)
StartAccept == AcceptQueued \/ AwaitAccept \/ GetNextAvailableSocket \/ AcceptFails
HandleNewConn(c) ==
  ReadOn(c) \/ Lost(c) \/ Parse(c) \/ HandlerReturns(c) \/ HandlerThrows(c)
  \/ SendReturns(c) \/ CloseConn(c)

\* The thread is gone (std::terminate), or every peer is.
Terminated ==
  /\ ~up \/ \A c \in Conns : conn[c] = "closed"
  /\ UNCHANGED vars

Next == (\E c \in Conns : Peer(c) \/ HandleNewConn(c)) \/ StartAccept \/ Terminated

Spec == Init /\ [][Next]_vars

\* The loop resumes what is ready and handlers return; peers promise nothing.
FairSpec ==
  /\ Spec
  /\ WF_vars(StartAccept)
  /\ \A c \in Conns : WF_vars(HandleNewConn(c))

-----------------------------------------------------------------------------
(* Properties.                                                             *)

\* A handler runs, and an answer is sent, only for a request that has arrived in
\* full, once, and a well-formed one is never refused: neither the pieces it came
\* in nor a request refused before it on the connection make a difference.
AnswersRight ==
  \A c \in Conns :
    /\ Len(answers[c]) <= asked[c]
    /\ conn[c] \in {"handle", "send"} =>
         /\ Len(answers[c]) < asked[c] /\ parsed[c] = length[c]
         /\ (parser[c] = "error") <=> (kind[c] = "bad")

\* Each connection a peer opens is accepted and handled: those that one readiness
\* of the listening socket brought together must not wait for the next one.
ConnServed == \A c \in Conns : conn[c] = "backlog" ~> (conn[c] # "backlog" \/ ~up)

\* HandleNewConn waits in its inner loop with a full buffer behind it.
AtBoundary(c) == conn[c] = "recv" /\ recv[c] > 0 /\ arrived[c] = 0

\* A request that has arrived in full is answered, unless its last read filled the
\* buffer: then HandleNewConn reads on (http_server.cc:143) and stays there until
\* the peer sends more or goes.
RequestAnswered ==
  \A c \in Conns : \A k \in 1 .. MaxRequests[c] :
    asked[c] >= k ~> (Len(answers[c]) >= k \/ conn[c] = "closed" \/ AtBoundary(c) \/ ~up)

\* When the peer has gone the coroutine ends and the socket is closed, whatever part
\* of a request was received.
GoneClosed == \A c \in Conns : eof[c] ~> (conn[c] = "closed" \/ ~up)
=============================================================================
