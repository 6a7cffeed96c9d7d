------------------------------- MODULE SeqNum -------------------------------
(***************************************************************************)
(* Arithmetic on the 16-bit sequence numbers of the reliable channels      *)
(* (network/mt_connection.h).  The code's numbers live on a circle of      *)
(* SEQNUM_MAX + 1 points; which of two numbers is "newer" and whether a    *)
(* number lies in a window are decided by the two inline functions below.  *)
(* The code has SEQNUM_MAX = 65535 and MAX_RELIABLE_WINDOW_SIZE = 0x8000;  *)
(* what everything here rests on is only that the receive window is half   *)
(* the circle.                                                             *)
(***************************************************************************)
EXTENDS Integers

CONSTANTS
  SEQNUM_MAX,               (* the largest sequence number                 *)
  MAX_RELIABLE_WINDOW_SIZE  (* the receiver's window                       *)

ASSUME SeqNumAssumption ==
  /\ MAX_RELIABLE_WINDOW_SIZE \in Nat \ {0}
  /\ SEQNUM_MAX = 2 * MAX_RELIABLE_WINDOW_SIZE - 1

SeqNums == 0 .. SEQNUM_MAX

(* A variant of U16 that never wraps around.                               *)
U16_Wide(x) == x

(* The value an integer takes when it is stored in a u16.                  *)
U16(x) == x % (SEQNUM_MAX + 1)

(* A variant: signed comparison of what is left of a 16-bit subtraction.   *)
seqnum_higher_Half(totest, base) ==
  U16(totest - base) <= MAX_RELIABLE_WINDOW_SIZE /\ totest # base

(* Is totest newer than base?                                              *)
seqnum_higher(totest, base) ==
  IF totest > base THEN totest - base <= SEQNUM_MAX \div 2
                   ELSE base - totest > SEQNUM_MAX \div 2

(* Is seqnum one of the window_size numbers that start at next?            *)
seqnum_in_window(seqnum, next, window_size) ==
  LET window_end == U16(next + window_size)
  IN IF next < window_end THEN next <= seqnum /\ seqnum < window_end
                          ELSE seqnum < window_end \/ next <= seqnum

-----------------------------------------------------------------------------
(* Reference definition: how many steps forward lead from one number to    *)
(* another on the circle.                                                  *)
Distance(from, to) == IF to >= from THEN to - from
                                    ELSE to - from + SEQNUM_MAX + 1

=============================================================================
