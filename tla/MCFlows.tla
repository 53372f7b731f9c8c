------------------------------- MODULE MCFlows -------------------------------
(* Small instances of Flows for TLC.                                       *)
EXTENDS Flows

\* A TCP connection and a UDP flow of one address.
Tcp(ip, dst) == [proto |-> "tcp", port |-> 80, src |-> ip, sport |-> 5, dst |-> dst]
Udp(ip, dst) == [proto |-> "udp", port |-> 80, src |-> ip, sport |-> 5, dst |-> dst]
TwoFlows == <<Tcp("a", "h"), Udp("a", "h")>>
BothProtos == [r \in Rules |-> {<<"tcp", 80>>, <<"udp", 80>>}]

\* Two connections of one client port to two addresses of the host.
TwinFlows == <<Tcp("a", "h"), Tcp("a", "k")>>
=============================================================================
