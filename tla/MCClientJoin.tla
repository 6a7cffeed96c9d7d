---------------------------- MODULE MCClientJoin ----------------------------
(* Two sessions on a server. *)
EXTENDS ClientJoin, TLC

\* Sessions are interchangeable, and so are names.
MCSymmetry == Permutations(Peers) \cup Permutations(Names)

=============================================================================
