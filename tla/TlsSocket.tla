------------------------------ MODULE TlsSocket ------------------------------
(***************************************************************************)
(* A TLSSocket that Connects and the one TLSAcceptor::Accept returns for   *)
(* it, each used by one coroutine (or, on the client's side, one thread:   *)
(* Pattern::SYNC), over one TCP connection.                                *)
(*                                                                         *)
(* The library's part is which SSL_* function a call drives, what it waits *)
(* for when OpenSSL wants to read or to write, when it calls again and     *)
(* what it makes of each result.  OpenSSL and the kernel are external: a   *)
(* handshake is a few flights, SSL_write sends a record in two parts, of   *)
(* which the socket buffer may take only one, and must be called again     *)
(* with the same data until all is written; close_notify ends a direction. *)
(*                                                                         *)
(* The applications are those of the tests and examples: the client sends  *)
(* a value and receives the echo, and at the end calls Shutdown or not.    *)
(***************************************************************************)
EXTENDS Naturals, Sequences, SequencesExt

CONSTANTS
  Values,      \* what is sent
  Plans,       \* the calls of the client and the first ones of the server, in pairs
  Capacity,    \* bound: the units the socket buffers of one direction hold
  MaxAborts    \* bound: guarded waits of a side that a token or a timeout ends

client == "client"
server == "server"
Sides == {client, server}
Peer(p) == IF p = client THEN server ELSE client

Call(op, v) == [op |-> op, v |-> v]
Calls == [op : {"Connect", "Accept", "Recv", "Shutdown"}, v : {"none"}]
           \cup [op : {"Send"}, v : Values]

ASSUME TlsAssumption ==
  /\ Capacity \in Nat \ {0} /\ MaxAborts \in Nat
  /\ "other" \in Values /\ Values \cap {"none", "nothing", "handshake", "close_notify"} = {}
  /\ Plans \subseteq [Sides -> Seq(Calls)]
  /\ \A calls \in Plans :
       calls[client][1].op = "Connect" /\ calls[server][1].op = "Accept"

VARIABLES
  \* how this run is set up: the client's pattern, whether OpenSSL (3.0) reports an
  \* end of file without close_notify as a protocol error, whether the calls of a side
  \* have a token or a timeout, whether the server calls Shutdown
  pattern, eof_error, guarded, polite,
  plan,        \* the calls a side has still to make; the first one is being made
  io,          \* "run", or the event its IOAwaiter waits for
  ssl,         \* the SSL object: see NewSSL
  tcp,         \* "none", "backlog" or "open"
  net,         \* units on their way to a side, at the end "fin" or "rst"
  gone,        \* a side has closed its descriptor
  aborts,
  \* history: values whose Send has returned their size; values Recv has returned;
  \* sides whose Recv has returned 0
  put, got, ended

setup == <<pattern, eof_error, guarded, polite>>
vars == <<setup, plan, io, ssl, tcp, net, gone, aborts, put, got, ended>>

\* SSL_new: hs is the next flight of the handshake, out what is left of the write
\* that was begun and owner the data it belongs to.
NewSSL == [hs |-> 1, out |-> <<>>, owner |-> "none", sent |-> FALSE, received |-> FALSE]

Init ==
  /\ pattern \in {"SYNC", "ASYNC"} /\ eof_error \in BOOLEAN /\ polite \in BOOLEAN
  /\ guarded \in [Sides -> BOOLEAN] /\ (pattern = "SYNC" => ~guarded[client])
  /\ plan \in Plans
  /\ io = [p \in Sides |-> "run"] /\ ssl = [p \in Sides |-> NewSSL]
  /\ tcp = "none" /\ net = [p \in Sides |-> <<>>]
  /\ gone = [p \in Sides |-> FALSE] /\ aborts = [p \in Sides |-> 0]
  /\ put = [p \in Sides |-> <<>>] /\ got = [p \in Sides |-> <<>>] /\ ended = {}

Op(p) == IF plan[p] = <<>> THEN "none" ELSE Head(plan[p]).op
Value(p) == Head(plan[p]).v

\* The socket p works on: Connect has returned from TCP's connect, Accept is over.
Working(p) ==
  /\ io[p] = "run" /\ Op(p) \notin {"none", "Accept"}
  /\ Op(p) = "Connect" => tcp # "none"

-----------------------------------------------------------------------------
(* OpenSSL: what one SSL_* call does before it returns.                    *)

Unit(t, v) == [t |-> t, v |-> v]

\* The flights of a TLS 1.3 handshake and who writes them; the server's last one are
\* the session tickets.
Flights == <<[by |-> client, units |-> <<Unit("hello", "none")>>],
             [by |-> server, units |-> <<Unit("certificate", "none"), Unit("finished", "none")>>],
             [by |-> client, units |-> <<Unit("finished", "none")>>],
             [by |-> server, units |-> <<Unit("ticket", "none")>>]>>

\* A client has shaken hands after three flights; tickets it reads with the data.
InHandshake(p) ==
  \/ ssl[p].hs <= IF p = client THEN 3 ELSE 4
  \/ ssl[p].owner = "handshake"

\* The data the current call wants written.
Wants(p) ==
  CASE InHandshake(p)     -> "handshake"
    [] Op(p) = "Send"     -> Value(p)
    [] Op(p) = "Shutdown" -> "close_notify"
    [] OTHER              -> "nothing"

\* The modes FetchSSL sets (none): a write that was begun has to be continued with
\* the same buffer.
\* Mutant: the buffer may be another one.
FetchSSLMoving == {"ACCEPT_MOVING_WRITE_BUFFER"}
FetchSSL == {}

MayContinue(p) == ssl[p].owner = Wants(p) \/ "ACCEPT_MOVING_WRITE_BUFFER" \in FetchSSL

Writing(p) == ssl[p].out # <<>> /\ MayContinue(p)

Reading(p) ==
  /\ ssl[p].out = <<>>
  /\ \/ InHandshake(p) /\ Flights[ssl[p].hs].by # p
     \/ ~InHandshake(p) /\ Op(p) = "Recv" /\ ~ssl[p].received
     \/ ~InHandshake(p) /\ Op(p) = "Shutdown" /\ ssl[p].sent /\ ~ssl[p].received

Arrived(p) == IF net[p] = <<>> THEN "nothing" ELSE Head(net[p]).t
AtEnd(p) == Arrived(p) \in {"fin", "rst"}
Room(p) == gone[Peer(p)] \/ Len(net[Peer(p)]) < Capacity

\* A unit is written: to a peer that has gone, to no effect.
WriteUnit(p) ==
  /\ Working(p) /\ Writing(p) /\ Room(p)
  /\ ssl' = [ssl EXCEPT ![p].out = Tail(@),
               ![p].owner = IF @ = "handshake" /\ Len(ssl[p].out) = 1 THEN "none" ELSE @]
  /\ net' = IF gone[Peer(p)] THEN net
            ELSE [net EXCEPT ![Peer(p)] = Append(@, Head(ssl[p].out))]
  /\ UNCHANGED <<setup, plan, io, tcp, gone, aborts, put, got, ended>>

\* The next flight is p's: it is put together and will be written.
WriteFlight(p) ==
  /\ Working(p) /\ InHandshake(p) /\ ssl[p].out = <<>> /\ Flights[ssl[p].hs].by = p
  /\ ssl' = [ssl EXCEPT ![p].hs = @ + 1, ![p].out = Flights[ssl[p].hs].units,
                        ![p].owner = "handshake"]
  /\ UNCHANGED <<setup, plan, io, tcp, net, gone, aborts, put, got, ended>>

\* A unit is read: part of a flight, a ticket, a part of a record, close_notify.
ReadUnit(p) ==
  /\ Working(p) /\ Reading(p) /\ ~AtEnd(p) /\ Arrived(p) \notin {"nothing", "data"}
  /\ net' = [net EXCEPT ![p] = Tail(@)]
  /\ ssl' = [ssl EXCEPT
       ![p].hs = IF InHandshake(p) /\ Head(net[p]) = Last(Flights[@].units) THEN @ + 1 ELSE @,
       ![p].received = @ \/ Arrived(p) = "close_notify"]
  /\ UNCHANGED <<setup, plan, io, tcp, gone, aborts, put, got, ended>>

SslWorks(p) == WriteUnit(p) \/ WriteFlight(p) \/ ReadUnit(p)

-----------------------------------------------------------------------------
(* What an SSL_* call returns.                                             *)

BadWriteRetry(p) == ssl[p].out # <<>> /\ ~MayContinue(p)

WantRead(p) == Reading(p) /\ Arrived(p) = "nothing"
WantWrite(p) == Writing(p) /\ ~Room(p)

\* SSL_ERROR_SYSCALL with errno 0: the end of the stream without close_notify.
EndOfFile(p) == Reading(p) /\ Arrived(p) = "fin" /\ ~eof_error

\* SSL_ERROR_SYSCALL with another errno, or SSL_ERROR_SSL; the latter also when data
\* arrive at an SSL_shutdown, and for an SSL_shutdown in the handshake.
Error(p) ==
  \/ Op(p) = "Shutdown" /\ InHandshake(p)
  \/ Reading(p) /\ (Arrived(p) = "rst" \/ (Arrived(p) = "fin" /\ eof_error))
  \/ Reading(p) /\ Op(p) = "Shutdown" /\ Arrived(p) = "data"
  \/ Writing(p) /\ gone[Peer(p)]
  \/ BadWriteRetry(p)

-----------------------------------------------------------------------------
(* The calls.  What the applications do next is the argument of Returns.   *)

Returns(p, calls) ==
  /\ plan' = [plan EXCEPT ![p] = calls]
  /\ io' = [io EXCEPT ![p] = "run"]
  /\ UNCHANGED <<setup, tcp, gone>>

\* After a result of -1 or an exception the socket is destroyed; the end of the file is
\* an error to Connect and to Send.
Fails(p) ==
  /\ Working(p)
  /\ Error(p) \/ (Op(p) \in {"Connect", "Send"} /\ EndOfFile(p))
  /\ Returns(p, <<>>)
  /\ UNCHANGED <<ssl, net, aborts, put, got, ended>>

\* IOAwaiter with the event OpenSSL wants; TLSIOReadyFunctor says "not ready", so the
\* coroutine always suspends.  (A thread of Pattern::SYNC blocks in SSL_*.)
\* Mutant: always for reading.
AwaitIORead(p) ==
  /\ Working(p) /\ (WantRead(p) \/ WantWrite(p))
  /\ io' = [io EXCEPT ![p] = "READ"]
  /\ UNCHANGED <<setup, plan, ssl, tcp, net, gone, aborts, put, got, ended>>

AwaitIO(p) ==
  /\ Working(p) /\ (WantRead(p) \/ WantWrite(p))
  /\ io' = [io EXCEPT ![p] = IF WantRead(p) THEN "READ" ELSE "WRITE"]
  /\ UNCHANGED <<setup, plan, ssl, tcp, net, gone, aborts, put, got, ended>>

\* The event has come and the loop resumes the coroutine, which calls SSL_* again.
Resume(p) ==
  /\ \/ io[p] = "READ" /\ net[p] # <<>>
     \/ io[p] = "WRITE" /\ Room(p)
  /\ io' = [io EXCEPT ![p] = "run"]
  /\ UNCHANGED <<setup, plan, ssl, tcp, net, gone, aborts, put, got, ended>>

\* TLSIOResumeInterruptedFunctor: the token or the timeout ended the wait, the call
\* returns -1 with EAGAIN, and the application does one of calls.
Interrupted(p, calls) ==
  /\ io[p] # "run" /\ guarded[p] /\ aborts[p] < MaxAborts
  /\ aborts' = [aborts EXCEPT ![p] = @ + 1]
  /\ \E next \in calls : Returns(p, next)
  /\ UNCHANGED <<ssl, net, put, got, ended>>

\* Socket::Connect, then SSL_set_connect_state and SSL_do_handshake until it is done.
Connect(p) ==
  /\ Op(p) = "Connect"
  /\ \/ tcp = "none" /\ tcp' = "backlog"
        /\ UNCHANGED <<setup, plan, io, ssl, net, gone, aborts, put, got, ended>>
     \/ tcp = "none" /\ Returns(p, <<>>)                    \* refused: IOException
        /\ UNCHANGED <<ssl, net, aborts, put, got, ended>>
     \/ SslWorks(p) \/ AwaitIO(p)
     \/ Working(p) /\ ~InHandshake(p) /\ Returns(p, Tail(plan[p]))
        /\ UNCHANGED <<ssl, net, aborts, put, got, ended>>
     \/ Fails(p)

\* Acceptor::Accept, then SSL_set_accept_state: the handshake is left to the calls
\* that follow.
Accept(p) ==
  /\ Op(p) = "Accept" /\ tcp = "backlog"
  /\ tcp' = "open"
  /\ plan' = [plan EXCEPT ![p] = Tail(@)]
  /\ UNCHANGED <<setup, io, ssl, net, gone, aborts, put, got, ended>>

\* After the end of the stream: the calls before Shutdown are left out.
AtEndOfStream(p) ==
  IF \/ p = server /\ polite
     \/ p = client /\ \E i \in DOMAIN plan[p] : plan[p][i].op = "Shutdown"
  THEN <<Call("Shutdown", "none")>> ELSE <<>>

\* SSL_ERROR_ZERO_RETURN, or the end of the file: Recv returns 0.
\* Mutant: it calls SSL_read again.
RecvEndsNot(p) ==
  /\ Working(p) /\ (ssl[p].received \/ EndOfFile(p))
  /\ UNCHANGED vars

RecvEnds(p) ==
  /\ Working(p) /\ (ssl[p].received \/ EndOfFile(p))
  /\ ended' = ended \cup {p}
  /\ Returns(p, AtEndOfStream(p))
  /\ UNCHANGED <<ssl, net, aborts, put, got>>

\* SSL_read until it returns data (the server echoes them) or the end.
Recv(p) ==
  /\ Op(p) = "Recv"
  /\ \/ SslWorks(p) \/ AwaitIO(p)
     \/ /\ Working(p) /\ Reading(p) /\ ~InHandshake(p) /\ Arrived(p) = "data"
        /\ got' = [got EXCEPT ![p] = Append(@, Head(net[p]).v)]
        /\ net' = [net EXCEPT ![p] = Tail(@)]
        /\ Returns(p, IF p = client THEN Tail(plan[p])
                      ELSE <<Call("Send", Head(net[p]).v), Call("Recv", "none")>>)
        /\ UNCHANGED <<ssl, aborts, put, ended>>
     \/ RecvEnds(p)
     \/ Interrupted(p, {plan[p], <<>>})
     \/ Fails(p)

Record(v) == <<Unit("part", v), Unit("data", v)>>

\* Mutant: a wait is followed by no second SSL_write.
SendOnce(p) ==
  /\ Op(p) = "Send"
  /\ \/ SslWorks(p) \/ AwaitIO(p)
     \/ /\ Working(p) /\ ~InHandshake(p) /\ ssl[p].out = <<>> /\ ssl[p].owner # Value(p)
        /\ ssl' = [ssl EXCEPT ![p].out = Record(Value(p)), ![p].owner = Value(p)]
        /\ UNCHANGED <<setup, plan, io, tcp, net, gone, aborts, put, got, ended>>
     \/ /\ \/ Working(p) /\ ssl[p].out = <<>> /\ ssl[p].owner = Value(p)
           \/ io[p] = "WRITE" /\ Room(p)
        /\ put' = [put EXCEPT ![p] = Append(@, Value(p))]
        /\ ssl' = [ssl EXCEPT ![p].owner = IF ssl[p].out = <<>> THEN "none" ELSE @]
        /\ Returns(p, Tail(plan[p]))
        /\ UNCHANGED <<net, aborts, got, ended>>
     \/ Interrupted(p, {plan[p], <<Call("Send", "other")>> \o Tail(plan[p]), <<>>})
     \/ Fails(p)

\* SSL_write until all of the data are written.
Send(p) ==
  /\ Op(p) = "Send"
  /\ \/ SslWorks(p) \/ AwaitIO(p)
     \/ /\ Working(p) /\ ~InHandshake(p) /\ ssl[p].out = <<>> /\ ssl[p].owner # Value(p)
        /\ ssl' = [ssl EXCEPT ![p].out = Record(Value(p)), ![p].owner = Value(p)]
        /\ UNCHANGED <<setup, plan, io, tcp, net, gone, aborts, put, got, ended>>
     \/ /\ Working(p) /\ ssl[p].out = <<>> /\ ssl[p].owner = Value(p)
        /\ put' = [put EXCEPT ![p] = Append(@, Value(p))]
        /\ ssl' = [ssl EXCEPT ![p].owner = "none"]
        /\ Returns(p, Tail(plan[p]))
        /\ UNCHANGED <<net, aborts, got, ended>>
     \/ Interrupted(p, {plan[p], <<Call("Send", "other")>> \o Tail(plan[p]), <<>>})
     \/ Fails(p)

\* SSL_shutdown, again while it returns 0: close_notify is sent, then the peer's is
\* awaited.  At the end of the file the coroutine is content, and Pattern::SYNC throws.
Shutdown(p) ==
  /\ Op(p) = "Shutdown"
  /\ \/ ~InHandshake(p) /\ (WriteUnit(p) \/ ReadUnit(p) \/ AwaitIO(p))
     \/ /\ Working(p) /\ ~InHandshake(p) /\ ~ssl[p].sent
        /\ ssl' = [ssl EXCEPT ![p].sent = TRUE, ![p].out = <<Unit("close_notify", "none")>>,
                              ![p].owner = "close_notify"]
        /\ UNCHANGED <<setup, plan, io, tcp, net, gone, aborts, put, got, ended>>
     \/ /\ Working(p) /\ ~InHandshake(p) /\ ssl[p].out = <<>>
        /\ (ssl[p].sent /\ ssl[p].received) \/ EndOfFile(p)
        /\ Returns(p, <<>>)
        /\ UNCHANGED <<ssl, net, aborts, put, got, ended>>
     \/ Fails(p)

\* ~TLSSocket frees the SSL object, which sends nothing, and the bases close the
\* descriptor: a reset if something had not been read.
Destroy(p) ==
  /\ plan[p] = <<>> /\ ~gone[p]
  /\ gone' = [gone EXCEPT ![p] = TRUE]
  /\ net' = [q \in Sides |->
               IF q = p THEN <<>>
               ELSE IF tcp = "none" \/ gone[q] THEN net[q]
               ELSE Append(net[q], Unit(IF net[p] = <<>> \/ AtEnd(p) THEN "fin" ELSE "rst",
                                        "none"))]
  /\ UNCHANGED <<setup, plan, io, ssl, tcp, aborts, put, got, ended>>

\* The client's process ends, or the owner of its coroutine destroys it.
Abandon ==
  /\ plan[client] # <<>> /\ tcp # "none"
  /\ Returns(client, <<>>)
  /\ UNCHANGED <<ssl, net, aborts, put, got, ended>>

\* Both sockets are gone, or the client was refused.
Terminated ==
  /\ gone[client] /\ (gone[server] \/ tcp = "none")
  /\ UNCHANGED vars

-----------------------------------------------------------------------------
Side(p) ==
  Connect(p) \/ Accept(p) \/ Recv(p) \/ Send(p) \/ Shutdown(p) \/ Destroy(p) \/ Resume(p)

Next == (\E p \in Sides : Side(p)) \/ Abandon \/ Terminated

Spec == Init /\ [][Next]_vars

\* Each loop runs what is ready (and each thread its calls).  Neither application
\* stops using its socket without destroying it.
FairSpec == Spec /\ \A p \in Sides : WF_vars(Side(p))

-----------------------------------------------------------------------------
(* Properties.                                                             *)

\* What Recv returns is, in order, what the peer's Sends have returned as sent (and at
\* most the value all of which is written and whose Send has not returned yet): a
\* record continued after a wait or by a repeated Send is not sent twice, and data given
\* to Send after an aborted one do not come out mixed with the first.
StreamExact ==
  \A p \in Sides :
    LET s == ssl[Peer(p)]
        written == IF s.out = <<>> /\ s.owner \notin {"none", "handshake", "close_notify"}
                   THEN <<s.owner>> ELSE <<>> IN
    IsPrefix(got[p], put[Peer(p)] \o written)

\* When Recv has returned 0, every value whose Send returned its size has been
\* received: the end, with or without close_notify, hides no lost data.
EndMeansAll == \A p \in ended : IsPrefix(put[Peer(p)], got[p])

\* Every call returns and both sockets are destroyed, whatever part of a flight or a
\* record the buffers took, whichever waits were aborted and wherever the client was
\* abandoned: no side waits for the wrong event, or for what the other has still to
\* flush, or calls OpenSSL again for ever.
ConnectionEnds == \A p \in Sides : tcp # "none" ~> gone[p]
=============================================================================
