---------------------------- MODULE TcpEndpoint ----------------------------
(***************************************************************************)
(* One end of a TCP connection, as far as the calls send(), recv() and     *)
(* close() of network_session.cpp can tell its states apart.  This is the  *)
(* Linux kernel's part, modelled from how the repository uses it: the      *)
(* sockets are blocking, send() is called with flags 0 (no MSG_NOSIGNAL)   *)
(* and nothing in either program ignores SIGPIPE.                          *)
(*                                                                         *)
(*   "closed"  the descriptor is not open                                  *)
(*   "est"     both directions are open                                    *)
(*   "fin"     the peer closed: recv() drains what arrived, then returns   *)
(*             0; send() still succeeds, its bytes are lost                *)
(*   "rst"     the peer reset an open connection: the next send(), or the  *)
(*             recv() that has drained what arrived, returns -1 with       *)
(*             ECONNRESET, which clears the error                          *)
(*   "dead"    reset after a FIN, or the error was already reported:       *)
(*             recv() drains what arrived, then returns 0; send() raises   *)
(*             SIGPIPE                                                     *)
(***************************************************************************)

EndpointStates == {"closed", "est", "fin", "rst", "dead"}

\* The peer ended the connection: recv() does not wait on this endpoint.
Ended(t) == t \in {"fin", "rst", "dead"}

\* send() takes the bytes, fails with -1, or raises SIGPIPE.
SendOk(t)    == t \in {"est", "fin"}
SendKills(t) == t = "dead"

\* The endpoint after a call that reported its pending error, if it had one.
AfterError(t) == IF t = "rst" THEN "dead" ELSE t

\* The same for a socket that this process may have shut down: send() then
\* raises SIGPIPE unless an error is still to be reported, and recv() does
\* not wait.
SendKillsShut(t, shut) == t = "dead" \/ (shut /\ t # "rst")

\* The endpoint after a RST from the peer.
AfterReset(t) == IF t = "est" THEN "rst" ELSE "dead"
=============================================================================
