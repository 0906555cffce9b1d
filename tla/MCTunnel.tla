------------------------------ MODULE MCTunnel ------------------------------
(* Instances of Tunnel for TLC.                                             *)
EXTENDS Tunnel

Plain == [kind |-> "connect", auth |-> FALSE, tls |-> FALSE]
Socks == [kind |-> "socks5", auth |-> FALSE, tls |-> FALSE]
EveryProxy == {Plain, Socks, [Socks EXCEPT !.auth = TRUE], [Plain EXCEPT !.tls = TRUE]}
=============================================================================
