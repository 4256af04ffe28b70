------------------------------ MODULE MCChannel ------------------------------
(* Channel with an unbuffered channel u and a channel b of capacity one. *)
EXTENDS Channel, TLC

CONSTANTS u, b

Capacities == u :> 0 @@ b :> 1

send(c) == [dir |-> "send", ch |-> c]
recv(c) == [dir |-> "recv", ch |-> c]
close(c) == [dir |-> "close", ch |-> c]
one(k, cs) == [kind |-> k, cases |-> <<cs>>]
two(k, x, y) == [kind |-> k, cases |-> <<x, y>>]

\* Plain operations on both channels, and selects over both.
FullMenu == {two("select", send(u), recv(b)), two("select", recv(u), send(b)),
             two("poll", recv(b), send(u)), one("send", send(b)), one("recv", recv(u)),
             one("recvstop", recv(b)), one("close", close(u)), one("close", close(b))}
=============================================================================
