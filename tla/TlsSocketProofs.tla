--------------------------- MODULE TlsSocketProofs ---------------------------
(***************************************************************************)
(* TlsSocket for all values, all plans, any capacity and any number of     *)
(* aborted waits: Recv returns what Send was given, in order and once, and *)
(* an end of the stream hides nothing that Send had reported as sent.      *)
(*                                                                         *)
(* StreamExact looks at both ends of a connection and says nothing of what *)
(* is between them.  The inductive invariant numbers the values that are   *)
(* on their way (Matches): the numbers go on from what Recv has returned   *)
(* to what SSL_write has handed to the kernel, and close_notify and the    *)
(* end of the file come after the last number.  That a number is given     *)
(* once needs that a write which was begun belongs to the call its side is *)
(* still making, or to none (Doing).                                       *)
(***************************************************************************)
EXTENDS TlsSocket, TLAPS

Units == [t : {"hello", "certificate", "finished", "ticket", "close_notify", "fin", "rst"},
          v : {"none"}] \cup [t : {"part", "data"}, v : Values]
Owners == Values \cup {"none", "handshake", "close_notify"}

SSLs == [hs : 1 .. 5, out : Seq(Units), owner : Owners, sent : BOOLEAN, received : BOOLEAN]

TypeOK ==
  /\ plan \in [Sides -> Seq(Calls)] /\ io \in [Sides -> {"run", "READ", "WRITE"}]
  /\ ssl \in [Sides -> SSLs]
  /\ tcp \in {"none", "backlog", "open"} /\ net \in [Sides -> Seq(Units)]
  /\ gone \in [Sides -> BOOLEAN] /\ aborts \in [Sides -> Nat]
  /\ put \in [Sides -> Seq(Values)] /\ got \in [Sides -> Seq(Values)] /\ ended \subseteq Sides

\* The handshake's part of InHandshake.
Flying(p) == ssl[p].hs <= IF p = client THEN 3 ELSE 4

\* A write of data was begun.
Begun(p) == ssl[p].owner \in Values

\* What is left of a write.
Flown == {<<Unit("hello", "none")>>, <<Unit("certificate", "none"), Unit("finished", "none")>>,
          <<Unit("finished", "none")>>, <<Unit("ticket", "none")>>}
Out(p) ==
  /\ ssl[p].owner = "none" => ssl[p].out = <<>>
  /\ ssl[p].owner = "handshake" => ssl[p].out \in Flown
  /\ ssl[p].owner = "close_notify" =>
       ssl[p].sent /\ ssl[p].out \in {<<>>, <<Unit("close_notify", "none")>>}
  /\ Begun(p) => ssl[p].out \in {<<>>, <<Unit("data", ssl[p].owner)>>, Record(ssl[p].owner)}

\* A write that was begun belongs to the call that is being made.
Doing(p) ==
  /\ Begun(p) => /\ ~Flying(p)
                 /\ \/ plan[p] = <<>>
                    \/ /\ Op(p) = "Send"
                       /\ ssl[p].out = <<>> => io[p] = "run" /\ Value(p) = ssl[p].owner
  /\ ssl[p].sent => /\ ~Flying(p) /\ ssl[p].owner = "close_notify"
                    /\ plan[p] = <<>> \/ Op(p) = "Shutdown"
  /\ gone[p] => plan[p] = <<>>

\* The values p was given to send, and how many of them the kernel has in full.
Stream(p) == put[p] \o IF Begun(p) THEN <<ssl[p].owner>> ELSE <<>>
Written(p) == IF Begun(p) /\ ssl[p].out = <<>> THEN Len(put[p]) + 1 ELSE Len(put[p])

\* What is in q continues the first n values of stream up to the first m; the end comes
\* after them.
Numbers(c, q, n, stream, m, shut, left) ==
  /\ c[0] = n /\ c[Len(q)] = m
  /\ \A i \in 1 .. Len(q) :
       /\ c[i] <= m
       /\ c[i] = c[i - 1] + (IF q[i].t = "data" THEN 1 ELSE 0)
       /\ q[i].t = "data" => q[i].v = stream[c[i]]
       /\ q[i].t = "close_notify" => shut /\ c[i] = m
       /\ q[i].t \in {"fin", "rst"} => left /\ c[i] = m
Matches(q, n, stream, m, shut, left) ==
  \E c \in [0 .. Len(q) -> Nat] : Numbers(c, q, n, stream, m, shut, left)

Flow(p) ==
  LET s == Peer(p) IN
  ~gone[p] => Matches(net[p], Len(got[p]), Stream(s), Written(s), ssl[s].sent, gone[s])

\* What was received is the beginning of what was written.
Received(p) ==
  LET s == Peer(p) IN
  /\ Len(got[p]) <= Written(s)
  /\ \A i \in 1 .. Len(got[p]) : got[p][i] = Stream(s)[i]
  /\ ssl[p].received => ssl[s].sent /\ Len(put[s]) <= Len(got[p])
  /\ p \in ended => (ssl[s].sent \/ gone[s]) /\ Len(put[s]) <= Len(got[p])

IInv == TypeOK /\ \A p \in Sides : Out(p) /\ Doing(p) /\ Flow(p) /\ Received(p)

-----------------------------------------------------------------------------
(* The values on their way.                                                *)

\* The two sides.
LEMMA PeerIs ==
  ASSUME NEW p \in Sides
  PROVE  Peer(p) \in Sides /\ Peer(p) # p /\ Peer(Peer(p)) = p /\ Sides = {p, Peer(p)}
BY DEF Sides, Peer, client, server

\* A longer stream, or an end that has come, changes nothing of what is on its way.
LEMMA MatchWeaken ==
  ASSUME NEW q, q \in Seq(Units), NEW n \in Nat, NEW m \in Nat, NEW s, NEW r,
         NEW shut, NEW left, NEW shut2, NEW left2, Matches(q, n, s, m, shut, left),
         shut => shut2, left => left2, \A i \in 1 .. m : r[i] = s[i]
  PROVE  Matches(q, n, r, m, shut2, left2)
<1>1. PICK c \in [0 .. Len(q) -> Nat] : Numbers(c, q, n, s, m, shut, left)
  BY DEF Matches
<1>2. ASSUME NEW i \in 1 .. Len(q), q[i].t = "data"
      PROVE  q[i].v = r[c[i]]
  <2>1. c[i] \in Nat /\ c[i - 1] \in Nat /\ c[i] = c[i - 1] + 1 /\ c[i] <= m /\ q[i].v = s[c[i]]
    <3>1. i - 1 \in 0 .. Len(q) /\ i \in 0 .. Len(q)
      OBVIOUS
    <3>2. /\ c[i] = c[i - 1] + (IF q[i].t = "data" THEN 1 ELSE 0) /\ c[i] <= m
          /\ q[i].t = "data" => q[i].v = s[c[i]]
      BY <1>1 DEF Numbers
    <3> QED  BY <1>1, <1>2, <3>1, <3>2
  <2>2. c[i] \in 1 .. m
    BY <2>1
  <2> QED  BY <2>1, <2>2
<1>3. Numbers(c, q, n, r, m, shut2, left2)
  BY <1>1, <1>2 DEF Numbers
<1> QED  BY <1>3 DEF Matches

\* A unit is written that is no end of a record.
LEMMA MatchAppend ==
  ASSUME NEW q, q \in Seq(Units), NEW u \in Units, NEW n \in Nat, NEW m \in Nat, NEW s,
         NEW shut, NEW left, Matches(q, n, s, m, shut, left), u.t # "data",
         u.t = "close_notify" => shut, u.t \in {"fin", "rst"} => left
  PROVE  Matches(Append(q, u), n, s, m, shut, left)
<1>1. PICK c \in [0 .. Len(q) -> Nat] : Numbers(c, q, n, s, m, shut, left)
  BY DEF Matches
<1> DEFINE r == Append(q, u)
           d == [i \in 0 .. Len(q) + 1 |-> IF i = Len(q) + 1 THEN m ELSE c[i]]
<1>2. /\ Len(q) \in Nat /\ Len(r) = Len(q) + 1 /\ r[Len(q) + 1] = u
      /\ \A i \in 1 .. Len(q) : r[i] = q[i]
  OBVIOUS
<1> HIDE DEF r
<1>3. /\ d \in [0 .. Len(r) -> Nat] /\ d[Len(q) + 1] = m
      /\ \A i \in 0 .. Len(q) : d[i] = c[i]
  BY <1>1, <1>2
<1> HIDE DEF d
<1>4. c[0] = n /\ c[Len(q)] = m
  BY <1>1 DEF Numbers
<1>5. d[0] = n /\ d[Len(r)] = m
  BY <1>2, <1>3, <1>4
<1>6. ASSUME NEW i \in 1 .. Len(r)
      PROVE  /\ d[i] <= m
             /\ d[i] = d[i - 1] + (IF r[i].t = "data" THEN 1 ELSE 0)
             /\ r[i].t = "data" => r[i].v = s[d[i]]
             /\ r[i].t = "close_notify" => shut /\ d[i] = m
             /\ r[i].t \in {"fin", "rst"} => left /\ d[i] = m
  <2>1. CASE i = Len(q) + 1
    <3>1. i - 1 = Len(q) /\ i - 1 \in 0 .. Len(q)
      BY <1>2, <2>1
    <3>2. d[i - 1] = m
      BY <1>3, <1>4, <3>1
    <3> QED  BY <1>2, <1>3, <2>1, <3>2
  <2>2. CASE i # Len(q) + 1
    <3>1. i \in 1 .. Len(q) /\ i - 1 \in 0 .. Len(q) /\ i \in 0 .. Len(q)
      BY <1>2, <2>2
    <3>2. d[i] = c[i] /\ d[i - 1] = c[i - 1] /\ r[i] = q[i]
      BY <1>2, <1>3, <3>1
    <3> QED  BY <1>1, <3>1, <3>2 DEF Numbers
  <2> QED  BY <2>1, <2>2
<1>7. Numbers(d, r, n, s, m, shut, left)
  BY <1>5, <1>6 DEF Numbers
<1>8. Matches(r, n, s, m, shut, left)
  BY <1>3, <1>7 DEF Matches
<1> QED  BY <1>8 DEF r

\* The end of a record is written: its value is the next of the stream.
LEMMA MatchData ==
  ASSUME NEW q, q \in Seq(Units), NEW u \in Units, NEW n \in Nat, NEW m \in Nat, NEW s,
         Matches(q, n, s, m, FALSE, FALSE), u.t = "data", u.v = s[m + 1]
  PROVE  Matches(Append(q, u), n, s, m + 1, FALSE, FALSE)
<1>1. PICK c \in [0 .. Len(q) -> Nat] : Numbers(c, q, n, s, m, FALSE, FALSE)
  BY DEF Matches
<1> DEFINE r == Append(q, u)
           d == [i \in 0 .. Len(q) + 1 |-> IF i = Len(q) + 1 THEN m + 1 ELSE c[i]]
<1>2. /\ Len(q) \in Nat /\ Len(r) = Len(q) + 1 /\ r[Len(q) + 1] = u
      /\ \A i \in 1 .. Len(q) : r[i] = q[i]
  OBVIOUS
<1> HIDE DEF r
<1>3. /\ d \in [0 .. Len(r) -> Nat] /\ d[Len(q) + 1] = m + 1
      /\ \A i \in 0 .. Len(q) : d[i] = c[i]
  BY <1>1, <1>2
<1> HIDE DEF d
<1>4. c[0] = n /\ c[Len(q)] = m
  BY <1>1 DEF Numbers
<1>5. d[0] = n /\ d[Len(r)] = m + 1
  BY <1>2, <1>3, <1>4
<1>6. ASSUME NEW i \in 1 .. Len(r)
      PROVE  /\ d[i] <= m + 1
             /\ d[i] = d[i - 1] + (IF r[i].t = "data" THEN 1 ELSE 0)
             /\ r[i].t = "data" => r[i].v = s[d[i]]
             /\ r[i].t # "close_notify" /\ r[i].t \notin {"fin", "rst"}
  <2>1. CASE i = Len(q) + 1
    <3>1. i - 1 = Len(q) /\ i - 1 \in 0 .. Len(q)
      BY <1>2, <2>1
    <3>2. d[i - 1] = m
      BY <1>3, <1>4, <3>1
    <3> QED  BY <1>2, <1>3, <2>1, <3>2
  <2>2. CASE i # Len(q) + 1
    <3>1. i \in 1 .. Len(q) /\ i - 1 \in 0 .. Len(q) /\ i \in 0 .. Len(q)
      BY <1>2, <2>2
    <3>2. d[i] = c[i] /\ d[i - 1] = c[i - 1] /\ r[i] = q[i] /\ c[i] \in Nat
      BY <1>1, <1>2, <1>3, <3>1
    <3> QED  BY <1>1, <3>1, <3>2 DEF Numbers
  <2> QED  BY <2>1, <2>2
<1>7. Numbers(d, r, n, s, m + 1, FALSE, FALSE)
  BY <1>5, <1>6 DEF Numbers
<1>8. Matches(r, n, s, m + 1, FALSE, FALSE)
  BY <1>3, <1>7 DEF Matches
<1> QED  BY <1>8 DEF r

\* The first unit is read.
LEMMA MatchTail ==
  ASSUME NEW q, q \in Seq(Units), q # <<>>, NEW n \in Nat, NEW m \in Nat, NEW s,
         NEW shut, NEW left, Matches(q, n, s, m, shut, left)
  PROVE  /\ Head(q).t # "data" => Matches(Tail(q), n, s, m, shut, left)
         /\ Head(q).t = "data" => /\ n + 1 <= m /\ Head(q).v = s[n + 1]
                                  /\ Matches(Tail(q), n + 1, s, m, shut, left)
         /\ Head(q).t = "close_notify" => shut /\ n = m
         /\ Head(q).t \in {"fin", "rst"} => left /\ n = m
<1>1. PICK c \in [0 .. Len(q) -> Nat] : Numbers(c, q, n, s, m, shut, left)
  BY DEF Matches
<1> DEFINE r == Tail(q)
           d == [i \in 0 .. Len(q) - 1 |-> c[i + 1]]
           k == n + (IF Head(q).t = "data" THEN 1 ELSE 0)
<1>2. /\ Len(q) \in Nat \ {0} /\ Len(r) = Len(q) - 1 /\ Head(q) = q[1]
      /\ \A i \in 1 .. Len(q) - 1 : r[i] = q[i + 1]
  OBVIOUS
<1> HIDE DEF r
<1>3. /\ d \in [0 .. Len(r) -> Nat]
      /\ \A i \in 0 .. Len(r) : d[i] = c[i + 1]
  BY <1>1, <1>2
<1> HIDE DEF d
<1>4. /\ c[0] = n /\ c[Len(q)] = m /\ c[1] <= m /\ c[1] = k
      /\ Head(q).t = "data" => Head(q).v = s[c[1]]
      /\ Head(q).t = "close_notify" => shut /\ c[1] = m
      /\ Head(q).t \in {"fin", "rst"} => left /\ c[1] = m
  <2>1. 1 \in 1 .. Len(q) /\ 1 - 1 = 0
    BY <1>2
  <2> QED  BY <1>1, <1>2, <2>1 DEF Numbers
<1>5. d[0] = k /\ d[Len(r)] = m
  <2>1. 0 \in 0 .. Len(r) /\ Len(r) \in 0 .. Len(r) /\ Len(r) + 1 = Len(q) /\ 0 + 1 = 1
    BY <1>2
  <2> QED  BY <1>3, <1>4, <2>1
<1>6. ASSUME NEW i \in 1 .. Len(r)
      PROVE  /\ d[i] <= m
             /\ d[i] = d[i - 1] + (IF r[i].t = "data" THEN 1 ELSE 0)
             /\ r[i].t = "data" => r[i].v = s[d[i]]
             /\ r[i].t = "close_notify" => shut /\ d[i] = m
             /\ r[i].t \in {"fin", "rst"} => left /\ d[i] = m
  <2>1. /\ i + 1 \in 1 .. Len(q) /\ i \in 0 .. Len(r) /\ i - 1 \in 0 .. Len(r)
        /\ (i - 1) + 1 = i /\ (i + 1) - 1 = i
    BY <1>2
  <2>2. d[i] = c[i + 1] /\ d[i - 1] = c[i] /\ r[i] = q[i + 1]
    BY <1>2, <1>3, <2>1
  <2>3. /\ c[i + 1] <= m
        /\ c[i + 1] = c[(i + 1) - 1] + (IF q[i + 1].t = "data" THEN 1 ELSE 0)
        /\ q[i + 1].t = "data" => q[i + 1].v = s[c[i + 1]]
        /\ q[i + 1].t = "close_notify" => shut /\ c[i + 1] = m
        /\ q[i + 1].t \in {"fin", "rst"} => left /\ c[i + 1] = m
    BY <1>1, <2>1 DEF Numbers
  <2> QED  BY <2>1, <2>2, <2>3
<1>7. Numbers(d, r, k, s, m, shut, left)
  BY <1>5, <1>6 DEF Numbers
<1>8. Matches(r, k, s, m, shut, left)
  BY <1>3, <1>7 DEF Matches
<1> QED  BY <1>4, <1>8 DEF r

-----------------------------------------------------------------------------
(* What a step of one side leaves of the invariant.                        *)

\* The parts of TypeOK that one side owns.
LEMMA Fields ==
  ASSUME TypeOK, NEW p \in Sides
  PROVE  /\ plan[p] \in Seq(Calls) /\ net[p] \in Seq(Units) /\ gone[p] \in BOOLEAN
         /\ put[p] \in Seq(Values) /\ got[p] \in Seq(Values)
         /\ ssl[p] \in SSLs /\ ssl[p].hs \in 1 .. 5 /\ ssl[p].out \in Seq(Units)
         /\ ssl[p].owner \in Owners /\ ssl[p].sent \in BOOLEAN /\ ssl[p].received \in BOOLEAN
<1>1. ssl[p] \in SSLs
  BY DEF TypeOK
<1>2. /\ ssl[p].hs \in 1 .. 5 /\ ssl[p].out \in Seq(Units) /\ ssl[p].owner \in Owners
      /\ ssl[p].sent \in BOOLEAN /\ ssl[p].received \in BOOLEAN
  BY <1>1 DEF SSLs
<1> QED  BY <1>1, <1>2 DEF TypeOK

\* The call being made.
LEMMA TheCall ==
  ASSUME TypeOK, NEW p \in Sides, Op(p) # "none"
  PROVE  /\ plan[p] # <<>> /\ Tail(plan[p]) \in Seq(Calls)
         /\ Op(p) = "Send" => Value(p) \in Values
<1>1. plan[p] # <<>> /\ plan[p] \in Seq(Calls)
  BY DEF Op, TypeOK
<1>2. Head(plan[p]) \in Calls /\ Tail(plan[p]) \in Seq(Calls)
  BY <1>1
<1> QED  BY <1>1, <1>2 DEF Op, Value, Calls

\* How many values were written, and which.
LEMMA StreamIs ==
  ASSUME TypeOK, NEW p \in Sides
  PROVE  /\ Written(p) \in Nat /\ Len(put[p]) \in Nat /\ Len(put[p]) <= Written(p)
         /\ Written(p) <= Len(put[p]) + 1 /\ Stream(p) \in Seq(Values)
         /\ \A i \in 1 .. Len(put[p]) : Stream(p)[i] = put[p][i]
         /\ Begun(p) => Stream(p)[Len(put[p]) + 1] = ssl[p].owner
<1>1. put[p] \in Seq(Values) /\ Len(put[p]) \in Nat
  BY Fields
<1>2. Written(p) \in Nat /\ Len(put[p]) <= Written(p) /\ Written(p) <= Len(put[p]) + 1
  <2>1. Written(p) = Len(put[p]) \/ Written(p) = Len(put[p]) + 1
    BY Zenon DEF Written
  <2> QED  BY <1>1, <2>1
<1>3. CASE Begun(p)
  <2>1. Stream(p) = put[p] \o <<ssl[p].owner>> /\ ssl[p].owner \in Values
    BY <1>3 DEF Stream, Begun
  <2> QED  BY <1>1, <1>2, <2>1
<1>4. CASE ~Begun(p)
  <2>1. Stream(p) = put[p]
    BY <1>1, <1>4 DEF Stream
  <2> QED  BY <1>1, <1>2, <1>4, <2>1
<1> QED  BY <1>3, <1>4

\* A side that writes nothing.
LEMMA SameWrite ==
  ASSUME NEW p \in Sides, put'[p] = put[p], ssl'[p].out = ssl[p].out,
         ssl'[p].owner = ssl[p].owner
  PROVE  Stream(p)' = Stream(p) /\ Written(p)' = Written(p)
BY DEF Stream, Written, Begun

\* What p has to receive and has received, when its peer has written nothing.
LEMMA KeptStream ==
  ASSUME NEW p \in Sides, Flow(p), Received(p), net'[p] = net[p], got'[p] = got[p],
         put'[Peer(p)] = put[Peer(p)], gone' = gone, Stream(Peer(p))' = Stream(Peer(p)),
         Written(Peer(p))' = Written(Peer(p)), ssl'[Peer(p)].sent = ssl[Peer(p)].sent,
         ssl'[p].received = ssl[p].received, p \in ended' <=> p \in ended
  PROVE  Flow(p)' /\ Received(p)'
<1>1. Flow(p)'
  BY DEF Flow
<1>2. Received(p)'
  BY DEF Received
<1> QED  BY <1>1, <1>2

\* The same, when the write of its peer is left alone.
LEMMA Kept ==
  ASSUME NEW p \in Sides, Flow(p), Received(p), net'[p] = net[p], got'[p] = got[p],
         put'[Peer(p)] = put[Peer(p)], gone' = gone, ssl'[Peer(p)].out = ssl[Peer(p)].out,
         ssl'[Peer(p)].owner = ssl[Peer(p)].owner, ssl'[Peer(p)].sent = ssl[Peer(p)].sent,
         ssl'[p].received = ssl[p].received, p \in ended' <=> p \in ended
  PROVE  Flow(p)' /\ Received(p)'
<1>1. Stream(Peer(p))' = Stream(Peer(p)) /\ Written(Peer(p))' = Written(Peer(p))
  BY PeerIs, SameWrite
<1> QED  BY <1>1, KeptStream

\* A step that changes nothing but which calls p has still to make and what p waits
\* for: the calls end, or go on and no write belongs to them, or the write goes on.
LEMMA Quiet ==
  ASSUME IInv, TypeOK', NEW p \in Sides, UNCHANGED <<ssl, net, gone, put, got, ended>>,
         \A q \in Sides : q # p => plan'[q] = plan[q] /\ io'[q] = io[q],
         \/ plan'[p] = <<>>
         \/ plan[p] # <<>> /\ ~Begun(p) /\ ~ssl[p].sent
         \/ plan'[p] = plan[p] /\ (io'[p] = "run" \/ io'[p] = io[p] \/ ~Begun(p) \/ ssl[p].out # <<>>)
         \/ plan[p] # <<>> /\ Op(p) = "Send" /\ Op(p)' = "Send" /\ ssl[p].out # <<>>
  PROVE  IInv'
<1>1. ASSUME NEW q \in Sides
      PROVE  Out(q)' /\ Flow(q)' /\ Received(q)'
  <2>1. Out(q) /\ Flow(q) /\ Received(q)
    BY DEF IInv
  <2>2. Out(q)'
    BY <2>1 DEF Out, Begun
  <2> QED  BY <2>1, <2>2, Kept
<1>2. ASSUME NEW q \in Sides
      PROVE  Doing(q)'
  <2>1. Doing(q)
    BY DEF IInv
  <2>2. CASE q # p
    <3>1. plan'[q] = plan[q] /\ io'[q] = io[q]
      BY <2>2
    <3> QED  BY <2>1, <3>1 DEF Doing, Begun, Flying, Op, Value
  <2>3. CASE q = p /\ plan'[p] = <<>>
    BY <2>1, <2>3 DEF Doing, Begun, Flying, Op
  <2>4. CASE q = p /\ plan[p] # <<>> /\ ~Begun(p) /\ ~ssl[p].sent
    BY <2>1, <2>4 DEF Doing, Begun
  <2>5. CASE q = p /\ plan'[p] = plan[p]
               /\ (io'[p] = "run" \/ io'[p] = io[p] \/ ~Begun(p) \/ ssl[p].out # <<>>)
    BY <2>1, <2>5 DEF Doing, Begun, Flying, Op, Value
  <2>6. CASE q = p /\ plan[p] # <<>> /\ Op(p) = "Send" /\ Op(p)' = "Send" /\ ssl[p].out # <<>>
    BY <2>1, <2>6 DEF Doing, Begun, Flying
  <2> QED  BY <2>2, <2>3, <2>4, <2>5, <2>6
<1> QED  BY <1>1, <1>2 DEF IInv

\* The write that was begun belongs to the call being made, if there is one.
LEMMA Belongs ==
  ASSUME IInv, NEW p \in Sides, Op(p) # "none"
  PROVE  /\ Op(p) # "Send" => ~Begun(p)
         /\ Op(p) # "Shutdown" => ~ssl[p].sent
         /\ ~gone[p] /\ (Begun(p) \/ ssl[p].sent => ~InHandshake(p))
<1>1. Doing(p) /\ Out(p) /\ plan[p] # <<>> /\ TypeOK
  BY DEF IInv, Op
<1>2. "handshake" \notin Values
  BY TlsAssumption
<1>3. Begun(p) \/ ssl[p].sent => ~InHandshake(p)
  BY <1>1, <1>2 DEF Doing, Begun, InHandshake, Flying
<1> QED  BY <1>1, <1>3 DEF Doing

\* Returns, where SSL_* and the net are left alone.
LEMMA ReturnsQuietly ==
  ASSUME IInv, NEW p \in Sides, NEW calls \in Seq(Calls), Returns(p, calls),
         UNCHANGED <<ssl, net, put, got, ended>>, aborts' \in [Sides -> Nat],
         \/ calls = <<>> \/ calls = plan[p]
         \/ Op(p) # "none" /\ ~Begun(p) /\ ~ssl[p].sent
         \/ /\ Op(p) = "Send" /\ ssl[p].out # <<>>
            /\ calls # <<>> /\ Head(calls).op = "Send"
  PROVE  IInv'
<1>1. /\ plan' = [plan EXCEPT ![p] = calls] /\ io' = [io EXCEPT ![p] = "run"]
      /\ UNCHANGED <<tcp, gone>> /\ TypeOK
  BY DEF Returns, IInv
<1>2. TypeOK'
  <2>1. plan' \in [Sides -> Seq(Calls)] /\ io' \in [Sides -> {"run", "READ", "WRITE"}]
    BY <1>1 DEF TypeOK
  <2> QED  BY <1>1, <2>1 DEF TypeOK
<1>3. /\ plan'[p] = calls /\ io'[p] = "run"
      /\ \A q \in Sides : q # p => plan'[q] = plan[q] /\ io'[q] = io[q]
  BY <1>1 DEF TypeOK
<1>4. Op(p) # "none" => plan[p] # <<>>
  BY DEF Op
<1>5. calls # <<>> /\ Head(calls).op = "Send" => Op(p)' = "Send"
  BY <1>3 DEF Op
<1> QED  BY <1>1, <1>2, <1>3, <1>4, <1>5, Quiet

\* A call ends with an error, or waits, or is resumed.
LEMMA WaitStep ==
  ASSUME IInv, NEW p \in Sides, Fails(p) \/ AwaitIO(p) \/ Resume(p)
  PROVE  IInv'
<1>1. TypeOK
  BY DEF IInv
<1>2. CASE Fails(p)
  <2>1. <<>> \in Seq(Calls) /\ aborts' \in [Sides -> Nat]
    BY <1>1, <1>2 DEF TypeOK, Fails
  <2> QED  BY <1>2, <2>1, ReturnsQuietly DEF Fails
<1>3. CASE AwaitIO(p) \/ Resume(p)
  <2>1. /\ UNCHANGED <<plan, ssl, tcp, net, gone, aborts, put, got, ended>>
        /\ io' \in [Sides -> {"run", "READ", "WRITE"}]
        /\ \A q \in Sides : q # p => io'[q] = io[q]
    BY <1>1, <1>3 DEF TypeOK, AwaitIO, Resume
  <2>2. TypeOK'
    BY <1>1, <2>1 DEF TypeOK
  <2>3. io'[p] = "run" \/ ~Begun(p) \/ ssl[p].out # <<>>
    <3>1. CASE AwaitIO(p)
      <4>1. Op(p) # "none" /\ (Reading(p) \/ Writing(p))
        BY <3>1 DEF AwaitIO, Working, WantRead, WantWrite
      <4>2. Begun(p) => Op(p) = "Send" /\ ~InHandshake(p)
        BY <4>1, Belongs
      <4>3. Reading(p) => ~Begun(p)
        BY <4>2 DEF Reading
      <4> QED  BY <4>1, <4>3 DEF Writing
    <3>2. CASE Resume(p)
      BY <1>1, <3>2 DEF Resume, TypeOK
    <3> QED  BY <1>3, <3>1, <3>2
  <2> QED  BY <2>1, <2>2, <2>3, Quiet
<1> QED  BY <1>2, <1>3

\* A token or a timeout ends the wait of Recv or Send.
LEMMA InterruptedStep ==
  ASSUME IInv, NEW p \in Sides,
         \/ Op(p) = "Recv" /\ Interrupted(p, {plan[p], <<>>})
         \/ Op(p) = "Send"
              /\ Interrupted(p, {plan[p], <<Call("Send", "other")>> \o Tail(plan[p]), <<>>})
  PROVE  IInv'
<1> DEFINE other == <<Call("Send", "other")>> \o Tail(plan[p])
<1>1. TypeOK /\ plan[p] \in Seq(Calls) /\ <<>> \in Seq(Calls)
  BY Fields DEF IInv
<1>2. Op(p) # "none" /\ Tail(plan[p]) \in Seq(Calls) /\ plan[p] # <<>>
  BY <1>1, TheCall
<1>3. PICK calls \in {plan[p], other, <<>>} :
        Returns(p, calls) /\ (calls = other => Op(p) = "Send" \/ other \in {plan[p], <<>>})
  BY DEF Interrupted
<1>4. io[p] # "run" /\ UNCHANGED <<ssl, net, put, got, ended>> /\ aborts' \in [Sides -> Nat]
  <2>1. /\ io[p] # "run" /\ UNCHANGED <<ssl, net, put, got, ended>>
        /\ aborts' = [aborts EXCEPT ![p] = aborts[p] + 1]
    BY DEF Interrupted
  <2> QED  BY <1>1, <2>1 DEF TypeOK
<1>5. other \in Seq(Calls) /\ other # <<>> /\ Head(other).op = "Send"
  <2>1. Call("Send", "other") \in Calls /\ Call("Send", "other").op = "Send"
    BY TlsAssumption DEF Call, Calls
  <2>2. PICK u \in Calls : u = Call("Send", "other")
    BY <2>1
  <2>3. PICK t \in Seq(Calls) : t = Tail(plan[p])
    BY <1>2
  <2>4. <<u>> \o t \in Seq(Calls) /\ <<u>> \o t # <<>> /\ Head(<<u>> \o t) = u
    OBVIOUS
  <2> QED  BY <2>1, <2>2, <2>3, <2>4
<1> HIDE DEF other
<1>6. CASE calls = plan[p] \/ calls = <<>>
  BY <1>1, <1>3, <1>4, <1>6, ReturnsQuietly
<1>7. CASE calls = other /\ Op(p) = "Send"
  <2>1. Begun(p) => ssl[p].out # <<>>
    BY <1>2, <1>4 DEF IInv, Doing
  <2>2. ~ssl[p].sent
    BY <1>2, <1>7, Belongs
  <2> QED  BY <1>2, <1>3, <1>4, <1>5, <1>7, <2>1, <2>2, ReturnsQuietly
<1> QED  BY <1>3, <1>6, <1>7

-----------------------------------------------------------------------------
(* The steps that write and read.                                          *)

\* The first of one or of two units.
LEMMA FirstOf ==
  ASSUME NEW u, NEW w
  PROVE  /\ Head(<<u>>) = u /\ Tail(<<u>>) = <<>> /\ Len(<<u>>) = 1
         /\ Head(<<u, w>>) = u /\ Tail(<<u, w>>) = <<w>> /\ Len(<<u, w>>) = 2
OBVIOUS

\* OpenSSL writes a unit of what was begun.
LEMMA WriteUnitStep ==
  ASSUME IInv, NEW p \in Sides, WriteUnit(p)
  PROVE  IInv'
<1> DEFINE s == Peer(p)
           o == ssl[p].out
           u == Head(o)
<1>1. /\ TypeOK /\ s \in Sides /\ s # p /\ Peer(s) = p /\ Sides = {p, s}
      /\ Out(p) /\ Doing(p) /\ Out(s) /\ Doing(s)
      /\ Flow(p) /\ Flow(s) /\ Received(p) /\ Received(s)
  BY PeerIs DEF IInv
<1>2. /\ io[p] = "run" /\ Op(p) # "none" /\ o # <<>> /\ ssl[p].owner = Wants(p)
  BY DEF WriteUnit, Working, Writing, MayContinue, FetchSSL
<1>3. /\ o \in Seq(Units) /\ ssl[p].owner \in Owners /\ net[s] \in Seq(Units)
  BY <1>1, Fields
<1>4. u \in Units /\ Tail(o) \in Seq(Units)
  BY <1>2, <1>3
<1>5. \/ /\ ssl[p].owner = "handshake" /\ u.t \notin {"data", "close_notify", "fin", "rst"}
         /\ \/ Len(o) = 1 /\ Tail(o) = <<>>
            \/ Len(o) = 2 /\ Tail(o) = <<Unit("finished", "none")>>
      \/ /\ ssl[p].owner = "close_notify" /\ ssl[p].sent /\ u.t = "close_notify"
         /\ Tail(o) = <<>>
      \/ /\ Begun(p) /\ u.t = "part" /\ Tail(o) = <<Unit("data", ssl[p].owner)>>
      \/ /\ Begun(p) /\ u.t = "data" /\ u.v = ssl[p].owner /\ Tail(o) = <<>>
  <2>1. CASE ssl[p].owner = "none"
    BY <1>1, <1>2, <2>1 DEF Out
  <2>2. CASE ssl[p].owner = "handshake"
    <3>1. o \in Flown
      BY <1>1, <2>2 DEF Out
    <3>2. PICK f \in {"hello", "certificate", "finished", "ticket"} :
            \/ o = <<Unit(f, "none")>>
            \/ o = <<Unit(f, "none"), Unit("finished", "none")>>
      BY <3>1 DEF Flown
    <3>3. Unit(f, "none").t \notin {"data", "close_notify", "fin", "rst"}
      BY DEF Unit
    <3>4. \/ o = <<Unit(f, "none")>> /\ u = Unit(f, "none") /\ Len(o) = 1 /\ Tail(o) = <<>>
          \/ /\ u = Unit(f, "none") /\ Len(o) = 2
             /\ Tail(o) = <<Unit("finished", "none")>>
      <4>1. PICK a, b : a = Unit(f, "none") /\ b = Unit("finished", "none")
        OBVIOUS
      <4>2. CASE o = <<a>>
        BY <4>1, <4>2, FirstOf
      <4>3. CASE o = <<a, b>>
        BY <4>1, <4>3, FirstOf
      <4> QED  BY <3>2, <4>1, <4>2, <4>3
    <3> HIDE DEF o, u
    <3> QED  BY <2>2, <3>3, <3>4
  <2>3. CASE ssl[p].owner = "close_notify"
    <3>1. ssl[p].sent /\ o = <<Unit("close_notify", "none")>>
      BY <1>1, <1>2, <2>3 DEF Out
    <3>2. u = Unit("close_notify", "none") /\ Tail(o) = <<>>
      BY <3>1, FirstOf
    <3> HIDE DEF o, u
    <3> QED  BY <2>3, <3>1, <3>2 DEF Unit
  <2>4. CASE Begun(p)
    <3>1. \/ o = <<Unit("data", ssl[p].owner)>>
          \/ o = <<Unit("part", ssl[p].owner), Unit("data", ssl[p].owner)>>
      BY <1>1, <1>2, <2>4 DEF Out, Record
    <3>2. \/ u = Unit("data", ssl[p].owner) /\ Tail(o) = <<>>
          \/ u = Unit("part", ssl[p].owner) /\ Tail(o) = <<Unit("data", ssl[p].owner)>>
      <4>1. PICK a, b : a = Unit("data", ssl[p].owner) /\ b = Unit("part", ssl[p].owner)
        OBVIOUS
      <4>2. CASE o = <<a>>
        BY <4>1, <4>2, FirstOf
      <4>3. CASE o = <<b, a>>
        BY <4>1, <4>3, FirstOf
      <4> QED  BY <3>1, <4>1, <4>2, <4>3
    <3>3. /\ Unit("data", ssl[p].owner).t = "data" /\ Unit("part", ssl[p].owner).t = "part"
          /\ Unit("data", ssl[p].owner).v = ssl[p].owner
      BY DEF Unit
    <3> HIDE DEF o, u
    <3> QED  BY <2>4, <3>2, <3>3
  <2> HIDE DEF o, u
  <2>5. ssl[p].owner \in {"none", "handshake", "close_notify"} \/ Begun(p)
    BY <1>3 DEF Owners, Begun
  <2> QED  BY <2>1, <2>2, <2>3, <2>4, <2>5
<1>6. /\ ssl'[p].out = Tail(o) /\ ssl'[p].hs = ssl[p].hs /\ ssl'[p].sent = ssl[p].sent
      /\ ssl'[p].received = ssl[p].received /\ ssl'[s] = ssl[s]
      /\ ssl'[p].owner = IF ssl[p].owner = "handshake" /\ Len(o) = 1 THEN "none"
                         ELSE ssl[p].owner
      /\ ssl' \in [Sides -> SSLs]
  <2>1. ssl' = [ssl EXCEPT ![p].out = Tail(o), ![p].owner =
                  IF ssl[p].owner = "handshake" /\ Len(o) = 1 THEN "none" ELSE ssl[p].owner]
    BY DEF WriteUnit
  <2>2. PICK w \in Owners :
          w = IF ssl[p].owner = "handshake" /\ Len(o) = 1 THEN "none" ELSE ssl[p].owner
    BY <1>3 DEF Owners
  <2>3. PICK t \in Seq(Units) : t = Tail(o)
    BY <1>4
  <2>4. ssl' = [ssl EXCEPT ![p].out = t, ![p].owner = w]
    BY <2>1, <2>2, <2>3
  <2> HIDE DEF o, s
  <2>5. /\ ssl'[p].out = t /\ ssl'[p].owner = w /\ ssl'[p].hs = ssl[p].hs
        /\ ssl'[p].sent = ssl[p].sent /\ ssl'[p].received = ssl[p].received
        /\ ssl'[s] = ssl[s]
        /\ ssl' \in [Sides -> SSLs]
    <3>1. PICK x : x = [ssl[p] EXCEPT !.out = t, !.owner = w]
      OBVIOUS
    <3>2. /\ x \in SSLs /\ x.out = t /\ x.owner = w /\ x.hs = ssl[p].hs
          /\ x.sent = ssl[p].sent /\ x.received = ssl[p].received
      BY <1>1, <3>1, Fields DEF SSLs
    <3>3. ssl' = [ssl EXCEPT ![p] = x] /\ ssl \in [Sides -> SSLs]
      BY <1>1, <2>4, <3>1 DEF TypeOK
    <3>4. ssl'[p] = x /\ ssl'[s] = ssl[s] /\ ssl' \in [Sides -> SSLs]
      BY <1>1, <3>2, <3>3
    <3> QED  BY <3>2, <3>4
  <2> QED  BY <2>2, <2>3, <2>5
<1>7. /\ net'[p] = net[p] /\ (gone[s] => net'[s] = net[s])
      /\ ~gone[s] => net'[s] = Append(net[s], u)
      /\ net' \in [Sides -> Seq(Units)]
  <2>1. net' = IF gone[s] THEN net ELSE [net EXCEPT ![s] = Append(net[s], u)]
    BY DEF WriteUnit
  <2>2. Append(net[s], u) \in Seq(Units)
    BY <1>3, <1>4
  <2> HIDE DEF u, s
  <2> QED  BY <1>1, <2>1, <2>2 DEF TypeOK
<1>8. UNCHANGED <<setup, plan, io, tcp, gone, aborts, put, got, ended>>
  BY DEF WriteUnit
<1>9. TypeOK'
  BY <1>1, <1>6, <1>7, <1>8 DEF TypeOK
<1> HIDE DEF s, u, o
<1>10. "none" \notin Values /\ "handshake" \notin Values /\ "close_notify" \notin Values
  BY TlsAssumption
<1>11. Begun(p)' = Begun(p) /\ (Begun(p) => ssl'[p].owner = ssl[p].owner)
  BY <1>6, <1>10 DEF Begun
<1>12. Out(p)'
  <2>1. CASE ssl[p].owner = "handshake"
    BY <1>5, <1>6, <1>10, <2>1 DEF Out, Begun, Flown
  <2>2. CASE ssl[p].owner = "close_notify"
    BY <1>5, <1>6, <1>10, <2>2 DEF Out, Begun
  <2>3. CASE Begun(p)
    BY <1>5, <1>6, <1>10, <2>3 DEF Out, Begun
  <2> QED  BY <1>5, <2>1, <2>2, <2>3
<1>13. Doing(p)'
  <2>1. /\ Op(p)' = Op(p) /\ Value(p)' = Value(p) /\ Flying(p)' = Flying(p)
        /\ plan'[p] = plan[p] /\ io'[p] = "run" /\ gone'[p] = gone[p]
    BY <1>2, <1>6, <1>8 DEF Op, Value, Flying
  <2>2. Begun(p) => Op(p) = "Send" /\ ~InHandshake(p)
    BY <1>2, Belongs
  <2>3. Begun(p) => Value(p) = ssl[p].owner
    BY <1>2, <2>2 DEF Wants
  <2>4. Begun(p)' => ~Flying(p)' /\ Op(p)' = "Send" /\ io'[p] = "run" /\ Value(p)' = ssl'[p].owner
    BY <1>1, <1>11, <2>1, <2>2, <2>3 DEF Doing
  <2>5. ssl'[p].sent => /\ ~Flying(p)' /\ ssl'[p].owner = "close_notify"
                        /\ plan'[p] = <<>> \/ Op(p)' = "Shutdown"
    BY <1>1, <1>6, <2>1 DEF Doing
  <2> QED  BY <1>1, <2>1, <2>4, <2>5 DEF Doing
<1>14. Stream(p)' = Stream(p)
  BY <1>8, <1>11 DEF Stream
<1>15. /\ Written(p) \in Nat /\ Len(put[p]) \in Nat
       /\ u.t = "data" => Written(p) = Len(put[p]) /\ Written(p)' = Len(put[p]) + 1
                          /\ u.v = Stream(p)[Written(p) + 1]
       /\ u.t # "data" => Written(p)' = Written(p)
  <2>1. Written(p) \in Nat /\ Len(put[p]) \in Nat
    BY <1>1, StreamIs
  <2>2. Written(p) = Len(put[p])
    BY <1>2 DEF Written, o
  <2>3. CASE u.t = "data"
    <3>1. Begun(p) /\ u.v = ssl[p].owner /\ ssl'[p].out = <<>>
      BY <1>5, <1>6, <2>3
    <3>2. Written(p)' = Len(put[p]) + 1
      BY <1>8, <1>11, <3>1 DEF Written
    <3>3. u.v = Stream(p)[Len(put[p]) + 1]
      BY <1>1, <3>1, StreamIs
    <3> QED  BY <2>1, <2>2, <2>3, <3>2, <3>3
  <2>4. CASE u.t # "data"
    <3>1. ~(Begun(p) /\ ssl'[p].out = <<>>)
      <4>1. <<Unit("data", ssl[p].owner)>> # <<>>
        OBVIOUS
      <4> QED  BY <1>5, <1>6, <1>10, <2>4, <4>1 DEF Begun
    <3>2. Written(p)' = Len(put[p])
      BY <1>8, <1>11, <3>1 DEF Written
    <3> QED  BY <2>1, <2>2, <2>4, <3>2
  <2> QED  BY <2>3, <2>4
<1>16. /\ ~gone[p] /\ (Begun(p) => ~ssl[p].sent)
  BY <1>2, Belongs
<1>17. Flow(s)'
  <2>1. CASE gone[s]
    BY <1>8, <2>1 DEF Flow
  <2>2. CASE ~gone[s]
    <3>1. Matches(net[s], Len(got[s]), Stream(p), Written(p), ssl[p].sent, gone[p])
      BY <1>1, <2>2 DEF Flow
    <3>2. Len(got[s]) \in Nat
      BY <1>1, Fields
    <3>3. Matches(Append(net[s], u), Len(got[s]), Stream(p), Written(p)', ssl[p].sent, gone[p])
      <4>1. CASE u.t = "data"
        <5>1. ssl[p].sent = FALSE /\ gone[p] = FALSE
          BY <1>1, <1>5, <1>16, <4>1, Fields
        <5>2. Written(p)' = Written(p) + 1
          BY <1>15, <4>1
        <5> QED  BY <1>3, <1>4, <1>15, <3>1, <3>2, <4>1, <5>1, <5>2, MatchData DEF u, o
      <4>2. CASE u.t # "data"
        <5>1. (u.t = "close_notify" => ssl[p].sent) /\ u.t \notin {"fin", "rst"}
          BY <1>5
        <5>2. u \in Units
          BY <1>4 DEF u, o
        <5> QED  BY <1>3, <1>15, <3>1, <3>2, <4>2, <5>1, <5>2, MatchAppend DEF u, o
      <4> QED  BY <4>1, <4>2
    <3> QED  BY <1>1, <1>6, <1>7, <1>8, <1>14, <2>2, <3>3 DEF Flow
  <2> QED  BY <2>1, <2>2
<1>18. Received(s)'
  <2>1. Len(got[s]) \in Nat /\ Len(got[s]) <= Written(p) /\ Written(p) <= Written(p)' /\ Written(p)' \in Nat
    BY SMTT(60), <1>1, <1>15, Fields DEF Received
  <2>2. Len(got'[s]) <= Written(p)'
    BY <1>8, <1>15, <2>1
  <2> QED  BY <1>1, <1>6, <1>8, <1>14, <2>2 DEF Received
<1>19. Flow(p)' /\ Received(p)'
  BY <1>1, <1>6, <1>7, <1>8, Kept DEF s
<1>20. Out(s)' /\ Doing(s)'
  BY <1>1, <1>6, <1>8 DEF Out, Doing, Begun, Op, Value, Flying
<1> QED  BY <1>1, <1>9, <1>12, <1>13, <1>17, <1>18, <1>19, <1>20 DEF IInv

\* The next flight is put together.
LEMMA WriteFlightStep ==
  ASSUME IInv, NEW p \in Sides, WriteFlight(p)
  PROVE  IInv'
<1> DEFINE s == Peer(p)
           f == Flights[ssl[p].hs].units
<1>1. /\ TypeOK /\ s \in Sides /\ s # p /\ Peer(s) = p /\ Sides = {p, s}
      /\ Out(p) /\ Doing(p) /\ Out(s) /\ Doing(s)
      /\ Flow(p) /\ Flow(s) /\ Received(p) /\ Received(s)
  BY PeerIs DEF IInv
<1>2. Op(p) # "none" /\ InHandshake(p) /\ ssl[p].out = <<>>
  BY DEF WriteFlight, Working
<1>3. ssl[p].owner # "handshake"
  <2>1. <<>> \notin Flown
    BY DEF Flown
  <2> QED  BY <1>1, <1>2, <2>1 DEF Out
<1>4. ssl[p].hs \in 1 .. 4 /\ ~Begun(p) /\ ~ssl[p].sent /\ ~gone[p]
  <2>1. ssl[p].hs \in 1 .. 5 /\ ssl[p].hs <= 4
    <3>1. ssl[p].hs \in 1 .. 5
      BY <1>1, Fields
    <3>2. ssl[p].hs <= IF p = client THEN 3 ELSE 4
      BY <1>2, <1>3 DEF InHandshake
    <3> QED  BY <3>1, <3>2
  <2> QED  BY <1>2, <2>1, Belongs
<1>5. f \in Flown /\ f \in Seq(Units)
  <2>1. /\ Unit("hello", "none") \in Units /\ Unit("certificate", "none") \in Units
        /\ Unit("finished", "none") \in Units /\ Unit("ticket", "none") \in Units
    BY DEF Unit, Units
  <2>2. Flown \subseteq Seq(Units)
    BY <2>1 DEF Flown
  <2>3. f \in Flown
    BY <1>4 DEF Flights, Flown
  <2> QED  BY <2>2, <2>3
<1>6. UNCHANGED <<setup, plan, io, tcp, net, gone, aborts, put, got, ended>>
  BY DEF WriteFlight
<1>7. PICK x : x = [ssl[p] EXCEPT !.hs = ssl[p].hs + 1, !.out = f, !.owner = "handshake"]
  OBVIOUS
<1>8. ssl' = [ssl EXCEPT ![p] = x]
  BY <1>7 DEF WriteFlight
<1> HIDE DEF f, s
<1>9. /\ x \in SSLs /\ x.hs = ssl[p].hs + 1 /\ x.out = f /\ x.owner = "handshake"
      /\ x.sent = ssl[p].sent /\ x.received = ssl[p].received
  <2>1. ssl[p] \in SSLs /\ ssl[p].hs + 1 \in 1 .. 5 /\ "handshake" \in Owners
    BY SMTT(60), <1>1, <1>4, Fields DEF Owners
  <2> QED  BY <1>5, <1>7, <2>1 DEF SSLs
<1>10. ssl'[p] = x /\ ssl'[s] = ssl[s] /\ ssl' \in [Sides -> SSLs]
  BY <1>1, <1>8, <1>9 DEF TypeOK
<1>11. TypeOK'
  BY <1>1, <1>6, <1>10 DEF TypeOK
<1>12. ~Begun(p)' /\ ~ssl'[p].sent
  BY <1>4, <1>9, <1>10, TlsAssumption DEF Begun
<1>13. Out(p)'
  BY <1>5, <1>9, <1>10, <1>12 DEF Out
<1>14. Doing(p)'
  BY <1>4, <1>6, <1>12 DEF Doing
<1>15. Stream(p)' = Stream(p) /\ Written(p)' = Written(p)
  BY <1>4, <1>6, <1>12 DEF Stream, Written
<1>16. Flow(s)' /\ Received(s)'
  BY <1>1, <1>6, <1>9, <1>10, <1>15, KeptStream
<1>17. Flow(p)' /\ Received(p)'
  BY <1>1, <1>6, <1>9, <1>10, Kept DEF s
<1>18. Out(s)' /\ Doing(s)'
  BY <1>1, <1>6, <1>10 DEF Out, Doing, Begun, Op, Value, Flying
<1> QED  BY <1>1, <1>11, <1>13, <1>14, <1>16, <1>17, <1>18 DEF IInv

\* OpenSSL reads a unit that is no data.
LEMMA ReadUnitStep ==
  ASSUME IInv, NEW p \in Sides, ReadUnit(p)
  PROVE  IInv'
<1> DEFINE s == Peer(p)
           h == IF InHandshake(p) /\ Head(net[p]) = Last(Flights[ssl[p].hs].units)
                THEN ssl[p].hs + 1 ELSE ssl[p].hs
           e == ssl[p].received \/ Arrived(p) = "close_notify"
<1>1. /\ TypeOK /\ s \in Sides /\ s # p /\ Peer(s) = p /\ Sides = {p, s}
      /\ Out(p) /\ Doing(p) /\ Out(s) /\ Doing(s)
      /\ Flow(p) /\ Flow(s) /\ Received(p) /\ Received(s)
  BY PeerIs DEF IInv
<1>2. Op(p) # "none" /\ ssl[p].out = <<>> /\ net[p] # <<>> /\ Head(net[p]).t = Arrived(p)
      /\ Arrived(p) \notin {"data", "fin", "rst"}
  BY DEF ReadUnit, Working, Reading, AtEnd, Arrived
<1>3. h \in 1 .. 5 /\ ssl[p].hs <= h /\ ssl[p].hs \in 1 .. 5 /\ e \in BOOLEAN
  <2>1. ssl[p].owner # "handshake"
    <3>1. <<>> \notin Flown
      BY DEF Flown
    <3> QED  BY <1>1, <1>2, <3>1 DEF Out
  <2>2. ssl[p].hs \in 1 .. 5 /\ (InHandshake(p) => ssl[p].hs <= 4) /\ ssl[p].received \in BOOLEAN
    BY SMTT(60), <1>1, <2>1, Fields DEF InHandshake
  <2> QED  BY <2>2
<1>4. /\ UNCHANGED <<setup, plan, io, tcp, gone, aborts, put, got, ended>>
      /\ net' = [net EXCEPT ![p] = Tail(net[p])]
      /\ ssl' = [ssl EXCEPT ![p].hs = h, ![p].received = e]
  BY DEF ReadUnit
<1>5. net[p] \in Seq(Units) /\ Tail(net[p]) \in Seq(Units)
  BY <1>1, <1>2, Fields
<1>6. net'[p] = Tail(net[p]) /\ net'[s] = net[s] /\ net' \in [Sides -> Seq(Units)]
  BY <1>1, <1>4, <1>5 DEF TypeOK
<1> HIDE DEF s, h
<1>7. PICK x : x = [ssl[p] EXCEPT !.hs = h, !.received = e]
  OBVIOUS
<1>8. ssl' = [ssl EXCEPT ![p] = x]
  BY <1>4, <1>7
<1> HIDE DEF e
<1>9. /\ x \in SSLs /\ x.hs = h /\ x.out = ssl[p].out /\ x.owner = ssl[p].owner
      /\ x.sent = ssl[p].sent /\ x.received = e
  BY <1>1, <1>3, <1>7, Fields DEF SSLs
<1>10. ssl'[p] = x /\ ssl'[s] = ssl[s] /\ ssl' \in [Sides -> SSLs]
  BY <1>1, <1>8, <1>9 DEF TypeOK
<1>11. TypeOK'
  BY <1>1, <1>4, <1>6, <1>10 DEF TypeOK
<1>12. Out(p)' /\ Begun(p)' = Begun(p)
  BY <1>1, <1>9, <1>10 DEF Out, Begun
<1>13. Doing(p)'
  <2>1. Flying(p)' => Flying(p)
    BY <1>3, <1>9, <1>10 DEF Flying
  <2> QED  BY <1>1, <1>4, <1>9, <1>10, <1>12, <2>1 DEF Doing, Op, Value
<1>14. Flow(s)' /\ Received(s)'
  BY <1>1, <1>4, <1>6, <1>9, <1>10, Kept
<1>15. Stream(s)' = Stream(s) /\ Written(s)' = Written(s)
  BY <1>1, <1>4, <1>10, SameWrite
<1>16. /\ Matches(Tail(net[p]), Len(got[p]), Stream(s), Written(s), ssl[s].sent, gone[s])
       /\ Arrived(p) = "close_notify" => ssl[s].sent /\ Len(got[p]) = Written(s)
  <2>1. Matches(net[p], Len(got[p]), Stream(s), Written(s), ssl[s].sent, gone[s])
    BY <1>1, <1>2, Belongs DEF Flow, s
  <2>2. Len(got[p]) \in Nat /\ Written(s) \in Nat
    BY <1>1, Fields, StreamIs
  <2> QED  BY <1>2, <1>5, <2>1, <2>2, MatchTail
<1>17. Flow(p)'
  BY <1>4, <1>6, <1>10, <1>15, <1>16 DEF Flow, s
<1>18. Received(p)'
  <2>1. Len(put[s]) <= Written(s)
    BY <1>1, StreamIs
  <2>2. e => ssl[s].sent /\ Len(put[s]) <= Len(got[p])
    BY <1>1, <1>16, <2>1 DEF Received, s, e
  <2> QED  BY <1>1, <1>4, <1>9, <1>10, <1>15, <2>2 DEF Received, s
<1>19. Out(s)' /\ Doing(s)'
  BY <1>1, <1>4, <1>10 DEF Out, Doing, Begun, Op, Value, Flying
<1> QED  BY <1>1, <1>11, <1>12, <1>13, <1>14, <1>17, <1>18, <1>19 DEF IInv

\* Recv returns data.
LEMMA RecvDataStep ==
  ASSUME IInv, NEW p \in Sides, Op(p) = "Recv", Arrived(p) = "data",
         got' = [got EXCEPT ![p] = Append(got[p], Head(net[p]).v)],
         net' = [net EXCEPT ![p] = Tail(net[p])],
         Returns(p, IF p = client THEN Tail(plan[p])
                    ELSE <<Call("Send", Head(net[p]).v), Call("Recv", "none")>>),
         UNCHANGED <<ssl, aborts, put, ended>>
  PROVE  IInv'
<1> DEFINE s == Peer(p)
           v == Head(net[p]).v
           n == Len(got[p])
<1>1. /\ TypeOK /\ s \in Sides /\ s # p /\ Peer(s) = p /\ Sides = {p, s}
      /\ Out(p) /\ Doing(p) /\ Out(s) /\ Doing(s)
      /\ Flow(p) /\ Flow(s) /\ Received(p) /\ Received(s)
  BY PeerIs DEF IInv
<1>2. /\ ~Begun(p) /\ ~ssl[p].sent /\ ~gone[p] /\ plan[p] # <<>> /\ Tail(plan[p]) \in Seq(Calls)
  BY <1>1, Belongs, TheCall
<1>3. net[p] \in Seq(Units) /\ net[p] # <<>> /\ Head(net[p]).t = "data"
  BY <1>1, Fields DEF Arrived
<1>4. Head(net[p]) \in Units /\ Tail(net[p]) \in Seq(Units)
  BY <1>3
<1>5. v \in Values
  BY <1>3, <1>4 DEF Units
<1>6. PICK calls \in Seq(Calls) : Returns(p, calls)
  <2>1. Call("Send", v) \in Calls /\ Call("Recv", "none") \in Calls
    BY <1>5 DEF Call, Calls
  <2>2. PICK a, b \in Calls : a = Call("Send", v) /\ b = Call("Recv", "none")
    BY <2>1
  <2>3. <<a, b>> \in Seq(Calls)
    OBVIOUS
  <2> QED  BY <1>2, <2>2, <2>3
<1>7. /\ plan' = [plan EXCEPT ![p] = calls] /\ io' = [io EXCEPT ![p] = "run"]
      /\ UNCHANGED <<setup, tcp, gone>>
  BY <1>6 DEF Returns
<1> HIDE DEF s, v
<1>8. /\ plan'[s] = plan[s] /\ io'[s] = io[s] /\ plan' \in [Sides -> Seq(Calls)]
      /\ io' \in [Sides -> {"run", "READ", "WRITE"}]
  BY <1>1, <1>7 DEF TypeOK
<1>9. /\ net'[p] = Tail(net[p]) /\ net'[s] = net[s] /\ net' \in [Sides -> Seq(Units)]
  BY <1>1, <1>4 DEF TypeOK
<1>10. got[p] \in Seq(Values) /\ Append(got[p], v) \in Seq(Values) /\ n \in Nat
  BY <1>1, <1>5, Fields
<1>11. /\ got'[p] = Append(got[p], v) /\ got'[s] = got[s] /\ got' \in [Sides -> Seq(Values)]
  BY <1>1, <1>10 DEF TypeOK, v
<1>12. TypeOK'
  BY <1>1, <1>7, <1>8, <1>9, <1>11 DEF TypeOK
<1>13. Len(got'[p]) = n + 1 /\ got'[p][n + 1] = v /\ \A i \in 1 .. n : got'[p][i] = got[p][i]
  BY <1>5, <1>10, <1>11
<1> HIDE DEF n
<1>14. Stream(s)' = Stream(s) /\ Written(s)' = Written(s)
  BY <1>1, SameWrite
<1>15. /\ n + 1 <= Written(s) /\ v = Stream(s)[n + 1]
       /\ Matches(Tail(net[p]), n + 1, Stream(s), Written(s), ssl[s].sent, gone[s])
  <2>1. Matches(net[p], n, Stream(s), Written(s), ssl[s].sent, gone[s])
    BY <1>1, <1>2 DEF Flow, s, n
  <2>2. Written(s) \in Nat
    BY <1>1, StreamIs
  <2> QED  BY <1>3, <1>10, <2>1, <2>2, MatchTail DEF v
<1>16. Flow(p)'
  BY <1>7, <1>9, <1>13, <1>14, <1>15 DEF Flow, s
<1>17. Received(p)'
  <2>1. /\ \A i \in 1 .. n : got[p][i] = Stream(s)[i]
        /\ ssl[p].received => ssl[s].sent /\ Len(put[s]) <= n
        /\ p \in ended => (ssl[s].sent \/ gone[s]) /\ Len(put[s]) <= n
    BY <1>1 DEF Received, s, n
  <2>2. \A i \in 1 .. n + 1 : got'[p][i] = Stream(s)[i]
    <3>1. ASSUME NEW i \in 1 .. n + 1 PROVE got'[p][i] = Stream(s)[i]
      <4>1. i \in 1 .. n \/ i = n + 1
        BY <1>10
      <4> QED  BY <1>13, <1>15, <2>1, <4>1
    <3> QED  BY <3>1
  <2>3. Len(put[s]) \in Nat
    BY <1>1, Fields
  <2>4. Len(put[s]) <= n => Len(put[s]) <= n + 1
    BY <1>10, <2>3
  <2> QED  BY <1>7, <1>13, <1>14, <1>15, <2>1, <2>2, <2>4 DEF Received, s
<1>18. Out(p)' /\ Out(s)'
  BY <1>1 DEF Out, Begun
<1>19. Doing(p)' /\ Doing(s)'
  <2>1. Doing(p)'
    BY <1>2, <1>7 DEF Doing, Begun
  <2>2. Doing(s)'
    BY <1>1, <1>7, <1>8 DEF Doing, Begun, Flying, Op, Value
  <2> QED  BY <2>1, <2>2
<1>20. Flow(s)' /\ Received(s)'
  BY <1>1, <1>7, <1>9, <1>11, Kept
<1> QED  BY <1>1, <1>12, <1>16, <1>17, <1>18, <1>19, <1>20 DEF IInv

\* Recv returns 0.
LEMMA RecvEndsStep ==
  ASSUME IInv, NEW p \in Sides, Op(p) = "Recv", RecvEnds(p)
  PROVE  IInv'
<1> DEFINE s == Peer(p)
<1>1. /\ TypeOK /\ s \in Sides /\ s # p /\ Peer(s) = p /\ Sides = {p, s}
      /\ Out(p) /\ Doing(p) /\ Out(s) /\ Doing(s)
      /\ Flow(p) /\ Flow(s) /\ Received(p) /\ Received(s)
  BY PeerIs DEF IInv
<1>2. /\ ~Begun(p) /\ ~ssl[p].sent /\ ~gone[p]
  BY Belongs
<1>3. PICK calls \in Seq(Calls) : Returns(p, calls)
  <2>1. Call("Shutdown", "none") \in Calls
    BY DEF Call, Calls
  <2>2. <<Call("Shutdown", "none")>> \in Seq(Calls) /\ <<>> \in Seq(Calls)
    BY <2>1
  <2> QED  BY <2>2 DEF RecvEnds, AtEndOfStream
<1>4. /\ plan' = [plan EXCEPT ![p] = calls] /\ io' = [io EXCEPT ![p] = "run"]
      /\ UNCHANGED <<setup, tcp, gone>>
  BY <1>3 DEF Returns
<1>5. ended' = ended \cup {p} /\ UNCHANGED <<ssl, net, aborts, put, got>>
  BY DEF RecvEnds
<1> HIDE DEF s
<1>6. /\ plan'[s] = plan[s] /\ io'[s] = io[s] /\ plan' \in [Sides -> Seq(Calls)]
      /\ io' \in [Sides -> {"run", "READ", "WRITE"}]
  BY <1>1, <1>4 DEF TypeOK
<1>7. TypeOK'
  BY <1>1, <1>4, <1>5, <1>6 DEF TypeOK
<1>8. (ssl[s].sent \/ gone[s]) /\ Len(put[s]) <= Len(got[p])
  <2>1. CASE ssl[p].received
    BY <1>1, <2>1 DEF Received, s
  <2>2. CASE EndOfFile(p)
    <3>1. net[p] \in Seq(Units) /\ net[p] # <<>> /\ Head(net[p]).t = "fin"
      BY <1>1, <2>2, Fields DEF EndOfFile, Arrived
    <3>2. Matches(net[p], Len(got[p]), Stream(s), Written(s), ssl[s].sent, gone[s])
      BY <1>1, <1>2 DEF Flow, s
    <3>3. Written(s) \in Nat /\ Len(put[s]) <= Written(s) /\ Len(got[p]) \in Nat
      BY <1>1, Fields, StreamIs
    <3>4. gone[s] /\ Len(got[p]) = Written(s)
      BY <3>1, <3>2, <3>3, MatchTail
    <3> QED  BY <3>3, <3>4
  <2> QED  BY <2>1, <2>2 DEF RecvEnds
<1>9. Stream(s)' = Stream(s) /\ Written(s)' = Written(s)
  BY <1>1, <1>5, SameWrite
<1>10. Flow(p)'
  BY <1>1, <1>4, <1>5, <1>9 DEF Flow, s
<1>11. Received(p)'
  BY <1>1, <1>4, <1>5, <1>8, <1>9 DEF Received, s
<1>12. Out(p)' /\ Out(s)'
  BY <1>1, <1>5 DEF Out, Begun
<1>13. Doing(p)' /\ Doing(s)'
  <2>1. Doing(p)'
    BY <1>2, <1>4, <1>5 DEF Doing, Begun
  <2>2. Doing(s)'
    BY <1>1, <1>4, <1>5, <1>6 DEF Doing, Begun, Flying, Op, Value
  <2> QED  BY <2>1, <2>2
<1>14. Flow(s)' /\ Received(s)'
  BY <1>1, <1>4, <1>5, Kept
<1> QED  BY <1>1, <1>7, <1>10, <1>11, <1>12, <1>13, <1>14 DEF IInv

\* No write was begun that the call being made would have to go on with.
LEMMA NoWrite ==
  ASSUME IInv, NEW p \in Sides, Working(p), ~InHandshake(p),
         \/ Op(p) = "Send" /\ ssl[p].out = <<>> /\ ssl[p].owner # Value(p)
         \/ Op(p) = "Shutdown" /\ ~ssl[p].sent
  PROVE  ssl[p].owner = "none" /\ ~Begun(p) /\ ~ssl[p].sent
<1>1. TypeOK /\ Out(p) /\ Doing(p) /\ ssl[p].owner \in Owners
  BY Fields DEF IInv
<1>2. plan[p] # <<>> /\ Op(p) # "none" /\ ssl[p].owner # "handshake"
  BY DEF Working, Op, InHandshake
<1>3. ~ssl[p].sent
  BY <1>2, Belongs
<1>4. ssl[p].owner # "close_notify"
  BY <1>1, <1>3 DEF Out
<1>5. ~Begun(p)
  BY <1>1, <1>2 DEF Doing
<1> QED  BY <1>1, <1>2, <1>3, <1>4, <1>5 DEF Owners, Begun

\* SSL_write or SSL_shutdown begins: what the peer has still to read is as before.
LEMMA BeginStep ==
  ASSUME IInv, NEW p \in Sides, Working(p), ~InHandshake(p),
         \/ /\ Op(p) = "Send" /\ ssl[p].out = <<>> /\ ssl[p].owner # Value(p)
            /\ ssl' = [ssl EXCEPT ![p].out = Record(Value(p)), ![p].owner = Value(p)]
         \/ /\ Op(p) = "Shutdown" /\ ~ssl[p].sent
            /\ ssl' = [ssl EXCEPT ![p].sent = TRUE, ![p].out = <<Unit("close_notify", "none")>>,
                                  ![p].owner = "close_notify"],
         UNCHANGED <<setup, plan, io, tcp, net, gone, aborts, put, got, ended>>
  PROVE  IInv'
<1> DEFINE s == Peer(p)
<1>1. /\ TypeOK /\ s \in Sides /\ s # p /\ Peer(s) = p /\ Sides = {p, s}
      /\ Out(p) /\ Doing(p) /\ Out(s) /\ Doing(s)
      /\ Flow(p) /\ Flow(s) /\ Received(p) /\ Received(s)
  BY PeerIs DEF IInv
<1>2. ssl[p].owner = "none" /\ ~Begun(p) /\ ~ssl[p].sent /\ Op(p) # "none" /\ ~gone[p]
  BY NoWrite, Belongs DEF Working
<1>3. ~Flying(p) /\ (Op(p) = "Send" => Value(p) \in Values)
  BY <1>1, <1>2, TheCall DEF InHandshake, Flying
<1>4. "none" \notin Values /\ "handshake" \notin Values /\ "close_notify" \notin Values
  BY TlsAssumption
<1>5. PICK x \in SSLs :
        /\ ssl' = [ssl EXCEPT ![p] = x] /\ x.hs = ssl[p].hs /\ x.received = ssl[p].received
        /\ x.out # <<>>
        /\ \/ /\ Op(p) = "Send" /\ x.owner = Value(p) /\ x.out = Record(Value(p)) /\ ~x.sent
           \/ /\ Op(p) = "Shutdown" /\ x.owner = "close_notify" /\ x.sent
              /\ x.out = <<Unit("close_notify", "none")>>
  <2>1. ssl[p] \in SSLs
    BY <1>1, Fields
  <2>2. CASE Op(p) = "Send"
    <3>1. Unit("part", Value(p)) \in Units /\ Unit("data", Value(p)) \in Units
      BY <1>3, <2>2 DEF Unit, Units
    <3>2. PICK r \in Seq(Units) : r = Record(Value(p)) /\ r # <<>>
      <4>1. PICK a, b \in Units : a = Unit("part", Value(p)) /\ b = Unit("data", Value(p))
        BY <3>1
      <4>2. <<a, b>> \in Seq(Units) /\ <<a, b>> # <<>>
        OBVIOUS
      <4> QED  BY <4>1, <4>2 DEF Record
    <3>3. PICK w \in Owners : w = Value(p)
      BY <1>3, <2>2 DEF Owners
    <3>4. PICK x : x = [ssl[p] EXCEPT !.out = r, !.owner = w]
      OBVIOUS
    <3>5. ssl' = [ssl EXCEPT ![p] = x]
      BY <2>2, <3>2, <3>3, <3>4
    <3>6. /\ x \in SSLs /\ x.out = r /\ x.owner = w /\ x.hs = ssl[p].hs
          /\ x.sent = ssl[p].sent /\ x.received = ssl[p].received
      BY <2>1, <3>4 DEF SSLs
    <3> QED  BY <1>2, <2>2, <3>2, <3>3, <3>5, <3>6
  <2>3. CASE Op(p) = "Shutdown"
    <3>1. Unit("close_notify", "none") \in Units
      BY DEF Unit, Units
    <3>2. PICK r \in Seq(Units) : r = <<Unit("close_notify", "none")>> /\ r # <<>>
      <4>1. PICK a \in Units : a = Unit("close_notify", "none")
        BY <3>1
      <4>2. <<a>> \in Seq(Units) /\ <<a>> # <<>>
        OBVIOUS
      <4> QED  BY <4>1, <4>2
    <3>3. PICK w \in Owners : w = "close_notify"
      BY DEF Owners
    <3>4. PICK x : x = [ssl[p] EXCEPT !.sent = TRUE, !.out = r, !.owner = w]
      OBVIOUS
    <3>5. ssl' = [ssl EXCEPT ![p] = x]
      BY <2>3, <3>2, <3>3, <3>4
    <3>6. /\ x \in SSLs /\ x.out = r /\ x.owner = w /\ x.hs = ssl[p].hs
          /\ x.sent /\ x.received = ssl[p].received
      BY <2>1, <3>4 DEF SSLs
    <3> QED  BY <2>3, <3>2, <3>3, <3>5, <3>6
  <2> QED  BY <2>2, <2>3
<1> HIDE DEF s
<1>6. ssl'[p] = x /\ ssl'[s] = ssl[s] /\ ssl' \in [Sides -> SSLs]
  BY <1>1, <1>5 DEF TypeOK
<1>7. TypeOK'
  BY <1>1, <1>6 DEF TypeOK
<1>8. Begun(p)' <=> Op(p) = "Send"
  BY <1>3, <1>4, <1>5, <1>6 DEF Begun
<1>9. Out(p)'
  <2>1. CASE Op(p) = "Send"
    BY <1>3, <1>4, <1>5, <1>6, <2>1 DEF Out
  <2>2. CASE Op(p) = "Shutdown"
    BY <1>4, <1>5, <1>6, <1>8, <2>2 DEF Out
  <2> QED  BY <2>1, <2>2
<1>10. Doing(p)'
  <2>1. ~Flying(p)' /\ Op(p)' = Op(p) /\ gone'[p] = gone[p] /\ ssl'[p].out # <<>>
    BY <1>3, <1>5, <1>6 DEF Flying, Op
  <2> QED  BY <1>2, <1>5, <1>6, <1>8, <2>1 DEF Doing
<1>11. /\ Written(p) = Len(put[p]) /\ Written(p)' = Len(put[p]) /\ Len(put[p]) \in Nat
       /\ \A i \in 1 .. Len(put[p]) : Stream(p)'[i] = Stream(p)[i]
  <2>1. Written(p) = Len(put[p]) /\ Written(p)' = Len(put[p])
    BY <1>2, <1>5, <1>6 DEF Written
  <2>2. \A i \in 1 .. Len(put[p]) : Stream(p)[i] = put[p][i]
    BY <1>1, StreamIs
  <2>3. put'[p] \in Seq(Values) /\ put[p] = put'[p] /\ put[p] \in Seq(Values)
    BY <1>1, Fields
  <2>4. \A i \in 1 .. Len(put[p]) : Stream(p)'[i] = put[p][i]
    <3>1. CASE Begun(p)'
      <4>1. Stream(p)' = put[p] \o <<ssl'[p].owner>>
        BY <3>1 DEF Stream
      <4> QED  BY <2>3, <4>1
    <3>2. CASE ~Begun(p)'
      <4>1. Stream(p)' = put[p] \o <<>>
        BY <3>2 DEF Stream
      <4> QED  BY <2>3, <4>1
    <3> QED  BY <3>1, <3>2
  <2> QED  BY <2>1, <2>2, <2>3, <2>4
<1>12. Flow(s)'
  <2>1. CASE gone[s]
    BY <2>1 DEF Flow
  <2>2. CASE ~gone[s]
    <3>1. Matches(net[s], Len(got[s]), Stream(p), Written(p), ssl[p].sent, gone[p])
      BY <1>1, <2>2 DEF Flow
    <3>2. net[s] \in Seq(Units) /\ Len(got[s]) \in Nat
      BY <1>1, Fields
    <3>3. Matches(net[s], Len(got[s]), Stream(p)', Written(p), ssl'[p].sent, gone[p])
      BY <1>2, <1>11, <3>1, <3>2, MatchWeaken
    <3> QED  BY <1>1, <1>11, <3>3 DEF Flow
  <2> QED  BY <2>1, <2>2
<1>13. Received(s)'
  <2>1. Len(got[s]) \in Nat /\ Len(got[s]) <= Len(put[p])
    BY <1>1, <1>11, Fields DEF Received
  <2>2. \A i \in 1 .. Len(got[s]) : got[s][i] = Stream(p)'[i]
    <3>1. ASSUME NEW i \in 1 .. Len(got[s]) PROVE got[s][i] = Stream(p)'[i]
      <4>1. i \in 1 .. Len(put[p])
        BY <1>11, <2>1
      <4> QED  BY <1>1, <1>11, <4>1 DEF Received
    <3> QED  BY <3>1
  <2>3. /\ ssl[s].received => ssl'[p].sent /\ Len(put[p]) <= Len(got[s])
        /\ s \in ended => (ssl'[p].sent \/ gone[p]) /\ Len(put[p]) <= Len(got[s])
    BY <1>1, <1>2 DEF Received
  <2> QED  BY <1>1, <1>6, <1>11, <2>1, <2>2, <2>3 DEF Received
<1>14. Flow(p)' /\ Received(p)'
  BY <1>1, <1>5, <1>6, Kept DEF s
<1>15. Out(s)' /\ Doing(s)'
  BY <1>1, <1>6 DEF Out, Doing, Begun, Op, Value, Flying
<1> QED  BY <1>1, <1>7, <1>9, <1>10, <1>12, <1>13, <1>14, <1>15 DEF IInv

\* Send returns the size of its data.
LEMMA SendReturnsStep ==
  ASSUME IInv, NEW p \in Sides, Op(p) = "Send", ssl[p].out = <<>>, ssl[p].owner = Value(p),
         put' = [put EXCEPT ![p] = Append(put[p], Value(p))],
         ssl' = [ssl EXCEPT ![p].owner = "none"], Returns(p, Tail(plan[p])),
         UNCHANGED <<net, aborts, got, ended>>
  PROVE  IInv'
<1> DEFINE s == Peer(p)
<1>1. /\ TypeOK /\ s \in Sides /\ s # p /\ Peer(s) = p /\ Sides = {p, s}
      /\ Out(p) /\ Doing(p) /\ Out(s) /\ Doing(s)
      /\ Flow(p) /\ Flow(s) /\ Received(p) /\ Received(s)
  BY PeerIs DEF IInv
<1>2. ~ssl[p].sent /\ ~gone[p] /\ Tail(plan[p]) \in Seq(Calls) /\ Value(p) \in Values
  BY <1>1, Belongs, TheCall
<1>3. Begun(p)
  BY <1>2 DEF Begun
<1>4. PICK calls \in Seq(Calls) : Returns(p, calls)
  BY <1>2
<1>5. /\ plan' = [plan EXCEPT ![p] = calls] /\ io' = [io EXCEPT ![p] = "run"]
      /\ UNCHANGED <<setup, tcp, gone>>
  BY <1>4 DEF Returns
<1> HIDE DEF s
<1>6. /\ plan'[s] = plan[s] /\ io'[s] = io[s] /\ plan' \in [Sides -> Seq(Calls)]
      /\ io' \in [Sides -> {"run", "READ", "WRITE"}]
  BY <1>1, <1>5 DEF TypeOK
<1>7. PICK x \in SSLs :
        /\ x = [ssl[p] EXCEPT !.owner = "none"] /\ x.out = <<>> /\ x.owner = "none"
        /\ x.sent = ssl[p].sent /\ x.received = ssl[p].received
  <2>1. ssl[p] \in SSLs /\ "none" \in Owners
    BY <1>1, Fields DEF Owners
  <2>2. PICK x : x = [ssl[p] EXCEPT !.owner = "none"]
    OBVIOUS
  <2>3. /\ x \in SSLs /\ x.out = ssl[p].out /\ x.owner = "none"
        /\ x.sent = ssl[p].sent /\ x.received = ssl[p].received
    BY <2>1, <2>2 DEF SSLs
  <2> QED  BY <2>2, <2>3
<1>8. ssl' = [ssl EXCEPT ![p] = x]
  BY <1>7
<1>9. ssl'[p] = x /\ ssl'[s] = ssl[s] /\ ssl' \in [Sides -> SSLs]
  BY <1>1, <1>7, <1>8 DEF TypeOK
<1>10. put[p] \in Seq(Values) /\ Append(put[p], Value(p)) \in Seq(Values) /\ Len(put[p]) \in Nat
  BY <1>1, <1>2, Fields
<1>11. /\ put'[p] = Append(put[p], Value(p)) /\ put'[s] = put[s] /\ put' \in [Sides -> Seq(Values)]
  BY <1>1, <1>10 DEF TypeOK
<1>12. TypeOK'
  BY <1>1, <1>5, <1>6, <1>9, <1>11 DEF TypeOK
<1>13. ~Begun(p)'
  BY <1>7, <1>9, TlsAssumption DEF Begun
<1>14. Stream(p)' = Stream(p) /\ Written(p)' = Written(p)
  <2>1. PICK w \in Values : w = Value(p)
    BY <1>2
  <2>2. Stream(p) = put[p] \o <<w>> /\ Written(p) = Len(put[p]) + 1
    BY <1>3, <2>1 DEF Stream, Written
  <2>3. Stream(p)' = put'[p] \o <<>> /\ Written(p)' = Len(put'[p])
    BY <1>13 DEF Stream, Written
  <2>4. put'[p] = Append(put[p], w) /\ put[p] \in Seq(Values)
    BY <1>10, <1>11, <2>1
  <2>5. Append(put[p], w) \o <<>> = put[p] \o <<w>> /\ Len(Append(put[p], w)) = Len(put[p]) + 1
    BY <2>4
  <2> QED  BY <2>2, <2>3, <2>4, <2>5
<1>15. Flow(s)'
  BY <1>1, <1>5, <1>7, <1>9, <1>14 DEF Flow
<1>16. Received(s)'
  <2>1. ~ssl[s].received /\ s \notin ended
    BY <1>1, <1>2 DEF Received
  <2> QED  BY <1>1, <1>9, <1>14, <2>1 DEF Received
<1>17. Flow(p)' /\ Received(p)'
  BY <1>1, <1>5, <1>7, <1>9, <1>11, Kept DEF s
<1>18. Out(p)' /\ Out(s)'
  <2>1. Out(p)'
    BY <1>7, <1>9, <1>13 DEF Out
  <2>2. Out(s)'
    BY <1>1, <1>9 DEF Out, Begun
  <2> QED  BY <2>1, <2>2
<1>19. Doing(p)' /\ Doing(s)'
  <2>1. Doing(p)'
    BY <1>2, <1>5, <1>7, <1>9, <1>13 DEF Doing
  <2>2. Doing(s)'
    BY <1>1, <1>5, <1>6, <1>9 DEF Doing, Begun, Flying, Op, Value
  <2> QED  BY <2>1, <2>2
<1> QED  BY <1>1, <1>12, <1>15, <1>16, <1>17, <1>18, <1>19 DEF IInv

\* ~TLSSocket: the end comes after what is on its way.
LEMMA DestroyStep ==
  ASSUME IInv, NEW p \in Sides, Destroy(p)
  PROVE  IInv'
<1> DEFINE s == Peer(p)
           u == Unit(IF net[p] = <<>> \/ AtEnd(p) THEN "fin" ELSE "rst", "none")
<1>1. /\ TypeOK /\ s \in Sides /\ s # p /\ Peer(s) = p /\ Sides = {p, s}
      /\ Out(p) /\ Doing(p) /\ Out(s) /\ Doing(s)
      /\ Flow(p) /\ Flow(s) /\ Received(p) /\ Received(s)
  BY PeerIs DEF IInv
<1>2. /\ plan[p] = <<>> /\ gone' = [gone EXCEPT ![p] = TRUE]
      /\ UNCHANGED <<setup, plan, io, ssl, tcp, aborts, put, got, ended>>
  BY DEF Destroy
<1>3. u \in Units /\ u.t \in {"fin", "rst"}
  BY DEF Unit, Units
<1>4. net' = [q \in Sides |-> IF q = p THEN <<>>
                              ELSE IF tcp = "none" \/ gone[q] THEN net[q]
                              ELSE Append(net[q], u)]
  BY DEF Destroy
<1> HIDE DEF s, u
<1>5. gone'[p] = TRUE /\ gone'[s] = gone[s] /\ gone' \in [Sides -> BOOLEAN]
  BY <1>1, <1>2 DEF TypeOK
<1>6. net[s] \in Seq(Units) /\ Append(net[s], u) \in Seq(Units) /\ <<>> \in Seq(Units)
  BY <1>1, <1>3, Fields
<1>7. /\ net'[s] = net[s] \/ net'[s] = Append(net[s], u)
      /\ net' \in [Sides -> Seq(Units)]
  <2>1. net'[p] = <<>> /\ (net'[s] = net[s] \/ net'[s] = Append(net[s], u))
    BY <1>1, <1>4
  <2> QED  BY <1>1, <1>4, <1>6, <2>1
<1>8. TypeOK'
  BY <1>1, <1>2, <1>5, <1>7 DEF TypeOK
<1>9. Stream(p)' = Stream(p) /\ Written(p)' = Written(p) /\ Stream(s)' = Stream(s)
      /\ Written(s)' = Written(s)
  BY <1>1, <1>2, SameWrite
<1>10. Flow(s)'
  <2>1. CASE gone[s]
    BY <1>5, <2>1 DEF Flow
  <2>2. CASE ~gone[s]
    <3>1. Matches(net[s], Len(got[s]), Stream(p), Written(p), ssl[p].sent, gone[p])
      BY <1>1, <2>2 DEF Flow
    <3>2. Len(got[s]) \in Nat /\ Written(p) \in Nat
      BY <1>1, Fields, StreamIs
    <3>3. Matches(net[s], Len(got[s]), Stream(p), Written(p), ssl[p].sent, gone'[p])
      <4>1. \A i \in 1 .. Written(p) : Stream(p)[i] = Stream(p)[i]
        OBVIOUS
      <4>2. (ssl[p].sent => ssl[p].sent) /\ (gone[p] => gone'[p])
        BY <1>5
      <4> QED  BY <1>6, <3>1, <3>2, <4>1, <4>2, MatchWeaken
    <3>4. Matches(Append(net[s], u), Len(got[s]), Stream(p), Written(p), ssl[p].sent, gone'[p])
      BY <1>3, <1>5, <1>6, <3>2, <3>3, MatchAppend
    <3>5. Matches(net'[s], Len(got[s]), Stream(p), Written(p), ssl[p].sent, gone'[p])
      BY <1>7, <3>3, <3>4
    <3> QED  BY <1>1, <1>2, <1>5, <1>9, <3>5 DEF Flow
  <2> QED  BY <2>1, <2>2
<1>11. Flow(p)'
  BY <1>5 DEF Flow
<1>12. Received(s)'
  BY <1>1, <1>2, <1>5, <1>9 DEF Received
<1>13. Received(p)'
  BY <1>1, <1>2, <1>5, <1>9 DEF Received, s
<1>14. Out(p)' /\ Out(s)'
  BY <1>1, <1>2 DEF Out, Begun
<1>15. Doing(p)' /\ Doing(s)'
  <2>1. Doing(p)'
    BY <1>1, <1>2 DEF Doing, Begun, Flying, Op, Value
  <2>2. Doing(s)'
    BY <1>1, <1>2, <1>5 DEF Doing, Begun, Flying, Op, Value
  <2> QED  BY <2>1, <2>2
<1> QED  BY <1>1, <1>8, <1>10, <1>11, <1>12, <1>13, <1>14, <1>15 DEF IInv

-----------------------------------------------------------------------------
(* The calls.                                                              *)

\* The steps of OpenSSL.
LEMMA SslWorksStep ==
  ASSUME IInv, NEW p \in Sides, SslWorks(p)
  PROVE  IInv'
BY WriteUnitStep, WriteFlightStep, ReadUnitStep DEF SslWorks

\* Connect, up to TCP and to the end of the handshake.
LEMMA ConnectStep ==
  ASSUME IInv, NEW p \in Sides, Connect(p)
  PROVE  IInv'
<1>1. TypeOK /\ Op(p) = "Connect"
  BY DEF IInv, Connect
<1>2. ~Begun(p) /\ ~ssl[p].sent /\ Tail(plan[p]) \in Seq(Calls)
  BY <1>1, Belongs, TheCall
<1>3. CASE tcp' = "backlog" /\ UNCHANGED <<setup, plan, io, ssl, net, gone, aborts, put, got, ended>>
  <2>1. TypeOK'
    BY <1>1, <1>3 DEF TypeOK
  <2> QED  BY <1>3, <2>1, Quiet
<1>4. ASSUME NEW calls \in {<<>>, Tail(plan[p])}, Returns(p, calls),
             UNCHANGED <<ssl, net, aborts, put, got, ended>>
      PROVE  IInv'
  <2>1. <<>> \in Seq(Calls) /\ aborts' \in [Sides -> Nat]
    BY <1>1, <1>4 DEF TypeOK
  <2>2. calls \in Seq(Calls)
    BY <1>2, <1>4, <2>1
  <2> QED  BY <1>1, <1>2, <1>4, <2>1, <2>2, ReturnsQuietly
<1>5. CASE SslWorks(p) \/ AwaitIO(p) \/ Fails(p)
  BY <1>5, SslWorksStep, WaitStep
<1> QED  BY <1>3, <1>4, <1>5 DEF Connect

\* Accept.
LEMMA AcceptStep ==
  ASSUME IInv, NEW p \in Sides, Accept(p)
  PROVE  IInv'
<1>1. TypeOK /\ Op(p) = "Accept"
  BY DEF IInv, Accept
<1>2. ~Begun(p) /\ ~ssl[p].sent /\ Tail(plan[p]) \in Seq(Calls) /\ plan[p] # <<>>
  BY <1>1, Belongs, TheCall
<1>3. /\ tcp' = "open" /\ plan' = [plan EXCEPT ![p] = Tail(plan[p])]
      /\ UNCHANGED <<setup, io, ssl, net, gone, aborts, put, got, ended>>
  BY DEF Accept
<1>4. /\ plan' \in [Sides -> Seq(Calls)]
      /\ \A q \in Sides : q # p => plan'[q] = plan[q]
  BY <1>1, <1>2, <1>3 DEF TypeOK
<1>5. TypeOK'
  BY <1>1, <1>3, <1>4 DEF TypeOK
<1> QED  BY <1>2, <1>3, <1>4, <1>5, Quiet

\* Recv.
LEMMA RecvStep ==
  ASSUME IInv, NEW p \in Sides, Recv(p)
  PROVE  IInv'
<1>1. Op(p) = "Recv"
  BY DEF Recv
<1>2. CASE SslWorks(p) \/ AwaitIO(p) \/ Fails(p)
  BY <1>2, SslWorksStep, WaitStep
<1>3. CASE RecvEnds(p)
  BY <1>1, <1>3, RecvEndsStep
<1>4. CASE Interrupted(p, {plan[p], <<>>})
  BY <1>1, <1>4, InterruptedStep
<1>5. ASSUME ~(SslWorks(p) \/ AwaitIO(p) \/ Fails(p)), ~RecvEnds(p),
             ~Interrupted(p, {plan[p], <<>>})
      PROVE  /\ Arrived(p) = "data"
             /\ got' = [got EXCEPT ![p] = Append(got[p], Head(net[p]).v)]
             /\ net' = [net EXCEPT ![p] = Tail(net[p])]
             /\ Returns(p, IF p = client THEN Tail(plan[p])
                           ELSE <<Call("Send", Head(net[p]).v), Call("Recv", "none")>>)
             /\ UNCHANGED <<ssl, aborts, put, ended>>
  BY <1>5 DEF Recv
<1> QED  BY <1>1, <1>2, <1>3, <1>4, <1>5, RecvDataStep

\* Send.
LEMMA SendStep ==
  ASSUME IInv, NEW p \in Sides, Send(p)
  PROVE  IInv'
<1>1. Op(p) = "Send"
  BY DEF Send
<1>2. CASE SslWorks(p) \/ AwaitIO(p) \/ Fails(p)
  BY <1>2, SslWorksStep, WaitStep
<1>3. CASE /\ Working(p) /\ ~InHandshake(p) /\ ssl[p].out = <<>> /\ ssl[p].owner # Value(p)
           /\ ssl' = [ssl EXCEPT ![p].out = Record(Value(p)), ![p].owner = Value(p)]
           /\ UNCHANGED <<setup, plan, io, tcp, net, gone, aborts, put, got, ended>>
  BY <1>1, <1>3, BeginStep
<1>4. CASE /\ Working(p) /\ ssl[p].out = <<>> /\ ssl[p].owner = Value(p)
           /\ put' = [put EXCEPT ![p] = Append(put[p], Value(p))]
           /\ ssl' = [ssl EXCEPT ![p].owner = "none"]
           /\ Returns(p, Tail(plan[p]))
           /\ UNCHANGED <<net, aborts, got, ended>>
  BY <1>1, <1>4, SendReturnsStep
<1>5. CASE Interrupted(p, {plan[p], <<Call("Send", "other")>> \o Tail(plan[p]), <<>>})
  BY <1>1, <1>5, InterruptedStep
<1> QED  BY <1>2, <1>3, <1>4, <1>5 DEF Send

\* Shutdown.
LEMMA ShutdownStep ==
  ASSUME IInv, NEW p \in Sides, Shutdown(p)
  PROVE  IInv'
<1>1. Op(p) = "Shutdown" /\ TypeOK
  BY DEF Shutdown, IInv
<1>2. CASE WriteUnit(p) \/ ReadUnit(p) \/ AwaitIO(p) \/ Fails(p)
  BY <1>2, WriteUnitStep, ReadUnitStep, WaitStep
<1>3. CASE /\ Working(p) /\ ~InHandshake(p) /\ ~ssl[p].sent
           /\ ssl' = [ssl EXCEPT ![p].sent = TRUE, ![p].out = <<Unit("close_notify", "none")>>,
                                 ![p].owner = "close_notify"]
           /\ UNCHANGED <<setup, plan, io, tcp, net, gone, aborts, put, got, ended>>
  BY <1>1, <1>3, BeginStep
<1>4. CASE Returns(p, <<>>) /\ UNCHANGED <<ssl, net, aborts, put, got, ended>>
  <2>1. <<>> \in Seq(Calls) /\ aborts' \in [Sides -> Nat]
    BY <1>1, <1>4 DEF TypeOK
  <2> QED  BY <1>4, <2>1, ReturnsQuietly
<1> QED  BY <1>2, <1>3, <1>4 DEF Shutdown

\* IInv is inductive.
LEMMA IInvStep ==
  ASSUME IInv, [Next]_vars
  PROVE  IInv'
<1>1. ASSUME NEW p \in Sides, Side(p)
      PROVE  IInv'
  BY <1>1, ConnectStep, AcceptStep, RecvStep, SendStep, ShutdownStep, DestroyStep, WaitStep
     DEF Side
<1>2. CASE Abandon
  <2>1. client \in Sides /\ <<>> \in Seq(Calls) /\ aborts' \in [Sides -> Nat]
    BY <1>2 DEF Sides, Abandon, IInv, TypeOK
  <2> QED  BY <1>2, <2>1, ReturnsQuietly DEF Abandon
<1>3. CASE UNCHANGED vars
  <2>1. TypeOK' /\ client \in Sides
    BY <1>3 DEF IInv, TypeOK, vars, Sides
  <2> QED  BY <1>3, <2>1, Quiet DEF vars
<1> QED  BY <1>1, <1>2, <1>3 DEF Next, Terminated

-----------------------------------------------------------------------------
(* The first state, and what the invariant says of both ends.              *)

\* A prefix, element by element.
LEMMA PrefixIs ==
  ASSUME NEW s \in Seq(Values), NEW t \in Seq(Values), Len(s) <= Len(t),
         \A i \in 1 .. Len(s) : s[i] = t[i]
  PROVE  IsPrefix(s, t)
<1>1. SubSeq(s, 1, Len(s)) = s
  OBVIOUS
<1>2. SubSeq(t, 1, Len(s)) = s
  OBVIOUS
<1> QED  BY <1>1, <1>2 DEF IsPrefix

\* IInv holds at first: nothing is on its way.
LEMMA IInvInit ==
  ASSUME Init
  PROVE  IInv
<1>1. /\ plan \in Plans /\ io = [p \in Sides |-> "run"] /\ ssl = [p \in Sides |-> NewSSL]
      /\ tcp = "none" /\ net = [p \in Sides |-> <<>>]
      /\ gone = [p \in Sides |-> FALSE] /\ aborts = [p \in Sides |-> 0]
      /\ put = [p \in Sides |-> <<>>] /\ got = [p \in Sides |-> <<>>] /\ ended = {}
  BY DEF Init
<1>2. NewSSL \in SSLs
  BY DEF NewSSL, SSLs, Owners
<1>3. plan \in [Sides -> Seq(Calls)]
  BY <1>1, TlsAssumption
<1>4. TypeOK
  BY <1>1, <1>2, <1>3 DEF TypeOK
<1>5. ASSUME NEW p \in Sides
      PROVE  /\ ssl[p] = NewSSL /\ gone[p] = FALSE /\ net[p] = <<>> /\ got[p] = <<>>
             /\ put[p] = <<>>
  BY <1>1
<1>6. ASSUME NEW p \in Sides
      PROVE  ~Begun(p) /\ ~ssl[p].sent /\ ~ssl[p].received /\ Out(p) /\ Doing(p)
  <2>1. ~Begun(p) /\ ~ssl[p].sent /\ ~ssl[p].received /\ ssl[p].owner = "none" /\ ssl[p].out = <<>>
    <3>1. /\ NewSSL.owner = "none" /\ NewSSL.out = <<>>
          /\ NewSSL.sent = FALSE /\ NewSSL.received = FALSE
      BY DEF NewSSL
    <3>2. "none" \notin Values
      BY TlsAssumption
    <3> QED  BY <1>5, <3>1, <3>2 DEF Begun
  <2> QED  BY <1>5, <2>1 DEF Out, Doing
<1>7. ASSUME NEW p \in Sides
      PROVE  Flow(p) /\ Received(p)
  <2>1. Peer(p) \in Sides
    BY PeerIs
  <2>2. ~Begun(Peer(p)) /\ put[Peer(p)] = <<>> /\ ~ssl[p].received /\ p \notin ended
    BY <1>1, <1>5, <1>6, <2>1
  <2>3. Written(Peer(p)) = 0 /\ Len(got[p]) = 0 /\ Len(net[p]) = 0 /\ Len(put[Peer(p)]) = 0
    <3>1. Written(Peer(p)) = Len(put[Peer(p)])
      BY <2>2 DEF Written
    <3>2. got[p] = <<>> /\ net[p] = <<>>
      BY <1>5
    <3>3. Len(got[p]) = 0 /\ Len(net[p]) = 0 /\ Len(put[Peer(p)]) = 0
      BY <2>2, <3>2
    <3> QED  BY <3>1, <3>3
  <2>4. PICK c : c = [i \in 0 .. 0 |-> 0]
    OBVIOUS
  <2>5. c \in [0 .. Len(net[p]) -> Nat] /\ c[0] = 0
    BY <2>3, <2>4
  <2>6. Numbers(c, net[p], 0, Stream(Peer(p)), 0, ssl[Peer(p)].sent, gone[Peer(p)])
    BY <2>3, <2>5 DEF Numbers
  <2>7. Flow(p)
    BY <2>3, <2>5, <2>6 DEF Flow, Matches
  <2>8. Received(p)
    BY <2>2, <2>3 DEF Received
  <2> QED  BY <2>7, <2>8
<1> QED  BY <1>4, <1>6, <1>7 DEF IInv

-----------------------------------------------------------------------------
(* The theorems.                                                           *)

\* The values on their way are numbered without a gap from what Recv has returned to
\* what SSL_write has handed to the kernel, and the end of the stream follows them.
THEOREM Invariant == Spec => []IInv
<1>1. Init => IInv
  BY IInvInit
<1>2. IInv /\ [Next]_vars => IInv'
  BY IInvStep
<1> QED  BY <1>1, <1>2, PTL DEF Spec

\* The SSL objects, the units on their way and the calls are what they are declared to be.
THEOREM TypeCorrect == Spec => []TypeOK
<1>1. IInv => TypeOK
  BY DEF IInv
<1> QED  BY <1>1, Invariant, PTL

\* Recv returns what the peer's Sends were given, in order, nothing twice and nothing
\* mixed, for any values, plans, buffers and aborted waits.
THEOREM StreamsExact == Spec => []StreamExact
<1>1. IInv => StreamExact
  <2> SUFFICES ASSUME IInv, NEW p \in Sides
               PROVE  LET s == ssl[Peer(p)]
                          written == IF s.out = <<>>
                                          /\ s.owner \notin {"none", "handshake", "close_notify"}
                                     THEN <<s.owner>> ELSE <<>> IN
                      IsPrefix(got[p], put[Peer(p)] \o written)
    BY DEF StreamExact
  <2> DEFINE s == Peer(p)
             w == IF ssl[s].out = <<>>
                       /\ ssl[s].owner \notin {"none", "handshake", "close_notify"}
                  THEN <<ssl[s].owner>> ELSE <<>>
  <2>1. s \in Sides /\ TypeOK /\ Received(p)
    BY PeerIs DEF IInv
  <2>2. ssl[s].owner \in Owners /\ got[p] \in Seq(Values) /\ put[s] \in Seq(Values)
    BY <2>1, Fields
  <2>3. Begun(s) <=> ssl[s].owner \notin {"none", "handshake", "close_notify"}
    BY <2>2, TlsAssumption DEF Begun, Owners
  <2>4. /\ w \in Seq(Values) /\ Len(put[s] \o w) = Written(s)
        /\ \A i \in 1 .. Written(s) : (put[s] \o w)[i] = Stream(s)[i]
    <3>1. CASE Begun(s) /\ ssl[s].out = <<>>
      <4>1. w = <<ssl[s].owner>> /\ ssl[s].owner \in Values
        BY <2>3, <3>1 DEF Begun
      <4>2. Stream(s) = put[s] \o w /\ Written(s) = Len(put[s]) + 1
        BY <3>1, <4>1 DEF Stream, Written
      <4> HIDE DEF w, s
      <4>3. w \in Seq(Values) /\ Len(put[s] \o w) = Len(put[s]) + 1
        BY <2>2, <4>1
      <4> QED  BY <4>2, <4>3
    <3>2. CASE ~(Begun(s) /\ ssl[s].out = <<>>)
      <4>1. w = <<>> /\ Written(s) = Len(put[s])
        BY <2>3, <3>2 DEF Written
      <4>2. \A i \in 1 .. Len(put[s]) : Stream(s)[i] = put[s][i]
        BY <2>1, StreamIs
      <4> HIDE DEF w, s
      <4>3. w \in Seq(Values) /\ put[s] \o w = put[s]
        BY <2>2, <4>1
      <4> QED  BY <4>1, <4>2, <4>3
    <3> QED  BY <3>1, <3>2
  <2> HIDE DEF w
  <2>5. Len(got[p]) <= Written(s) /\ \A i \in 1 .. Len(got[p]) : got[p][i] = Stream(s)[i]
    BY <2>1 DEF Received
  <2>6. IsPrefix(got[p], put[s] \o w)
    <3>1. PICK t \in Seq(Values) : t = put[s] \o w
      <4>1. PICK a, b \in Seq(Values) : a = put[s] /\ b = w
        BY <2>2, <2>4
      <4>2. a \o b \in Seq(Values)
        OBVIOUS
      <4> QED  BY <4>1, <4>2
    <3>2. /\ Len(got[p]) \in Nat /\ Len(t) \in Nat /\ Len(got[p]) <= Len(t)
          /\ \A i \in 1 .. Len(got[p]) : got[p][i] = t[i]
      BY <2>2, <2>4, <2>5, <3>1
    <3> QED  BY <2>2, <3>1, <3>2, PrefixIs
  <2> QED  BY <2>6 DEF w
<1> QED  BY <1>1, Invariant, PTL

\* When Recv has returned 0, everything whose Send had returned its size was received:
\* close_notify and the end of the file come after the last value.
THEOREM EndsMeanAll == Spec => []EndMeansAll
<1>1. IInv => EndMeansAll
  <2> SUFFICES ASSUME IInv, NEW p \in ended
               PROVE  IsPrefix(put[Peer(p)], got[p])
    BY DEF EndMeansAll
  <2>1. p \in Sides /\ Peer(p) \in Sides /\ TypeOK /\ Received(p)
    BY PeerIs DEF IInv, TypeOK
  <2>2. put[Peer(p)] \in Seq(Values) /\ got[p] \in Seq(Values)
    BY <2>1, Fields
  <2>3. /\ Len(put[Peer(p)]) \in Nat /\ Len(got[p]) \in Nat
        /\ Len(put[Peer(p)]) <= Len(got[p])
        /\ \A i \in 1 .. Len(got[p]) : got[p][i] = Stream(Peer(p))[i]
    BY <2>1, <2>2 DEF Received
  <2>4. \A i \in 1 .. Len(put[Peer(p)]) : Stream(Peer(p))[i] = put[Peer(p)][i]
    BY <2>1, StreamIs
  <2>5. \A i \in 1 .. Len(put[Peer(p)]) : put[Peer(p)][i] = got[p][i]
    BY <2>3, <2>4
  <2> QED  BY <2>2, <2>3, <2>5, PrefixIs
<1> QED  BY <1>1, Invariant, PTL
=============================================================================
