-------------------------- MODULE MCTCPTransport ---------------------------
(* Instances of TCPTransport for TLC. *)
EXTENDS TCPTransport, TLC

Symmetry == Permutations(Senders) \cup Permutations(Addrs)

=============================================================================
