--------------------------- MODULE MCStartupRetry ---------------------------
(***************************************************************************)
(* The instance of StartupRetry for TLC: how Go reports a cancellation, and*)
(* hooks whose errors look like those of the network.                      *)
(***************************************************************************)
EXTENDS StartupRetry

\* A handshake that pgconn ends, or an application's own DialFunc and LookupFunc;
\* and net.Dialer and net.Resolver.
MCCancellations == {Canceled, NetCanceled}

\* A timeout, and what pgconn returns when an application connects by itself.
LookalikeErrors == {Leaf("timeout"), Connect({Leaf("eof")})}
=============================================================================
