------------------------------ MODULE MCFwApp ------------------------------
(***************************************************************************)
(* FwApp for TLC: three rules that tell every part of Matches apart, a web *)
(* connection from the inside with its answer, an attempt to open one from *)
(* the outside, and a datagram.                                            *)
(***************************************************************************)
EXTENDS FwApp, TLC

Web  == [proto |-> "tcp", src |-> {"in"}, dst |-> Wild, sport |-> Wild, dport |-> 80, drop |-> FALSE]
Deny == [proto |-> Wild, src |-> Wild, dst |-> {"in"}, sport |-> Wild, dport |-> Wild, drop |-> TRUE]
Dns  == [proto |-> "udp", src |-> Wild, dst |-> {"in"}, sport |-> 53, dport |-> Wild, drop |-> FALSE]
MCRules == {Web, Deny, Dns}

NodesAlike == Permutations(Nodes)

MCFiles == {<<Web, Deny, Dns>>}

Tcp(s, d, sp, dp, o) == [proto |-> "tcp", src |-> s, dst |-> d, sport |-> sp, dport |-> dp, opens |-> o]
MCPackets == {Tcp("out", "in", 80, 1025, FALSE), Tcp("out", "in", 80, 1025, TRUE),
              [Tcp("out", "in", 53, 1025, FALSE) EXCEPT !.proto = "udp"]}
=============================================================================
