--------------------------- MODULE OrderedDelivery ---------------------------
(***************************************************************************)
(* What a reliable channel promises its two applications: the pieces that  *)
(* one of them submits are handed to the other in the order they were      *)
(* submitted, none missing and none twice.  A piece is named by its        *)
(* position in what was submitted.                                         *)
(***************************************************************************)
EXTENDS Naturals, Sequences

VARIABLES submitted, delivered

odVars == <<submitted, delivered>>

Init == submitted = 0 /\ delivered = <<>>

Submit == /\ submitted' \in Nat /\ submitted' > submitted
          /\ UNCHANGED delivered

Deliver == /\ Len(delivered) < submitted
           /\ delivered' = Append(delivered, Len(delivered) + 1)
           /\ UNCHANGED submitted

Spec == Init /\ [][Submit \/ Deliver]_odVars

=============================================================================
