----------------------------- MODULE MCTlsSocket -----------------------------
EXTENDS TlsSocket

\* Two echoes, as in the tests, and no Shutdown; an echo and a Shutdown; a Shutdown
\* while the echo is still on its way; a server that speaks first.
MCPlans ==
  LET connect == <<Call("Connect", "none")>>
      echo(v) == <<Call("Send", v), Call("Recv", "none")>>
      shutdown == <<Call("Shutdown", "none")>>
      accept == <<Call("Accept", "none"), Call("Recv", "none")>>
      greet == <<Call("Accept", "none")>> \o echo("a")
      Both(c, s) == [p \in Sides |-> IF p = client THEN c ELSE s] IN
  { Both(connect \o echo("a") \o echo("b"), accept),
    Both(connect \o echo("a") \o shutdown, accept),
    Both(connect \o <<Call("Send", "a")>> \o shutdown, accept),
    Both(connect \o <<Call("Recv", "none")>> \o echo("b") \o shutdown, greet) }
=============================================================================
