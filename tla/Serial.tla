------------------------------- MODULE Serial -------------------------------
(***************************************************************************)
(* RFC 1982 serial-number arithmetic as the refresh engine uses it.        *)
(* Serials are SerialBits wide (32 in the code); a small width keeps the   *)
(* wrap-around point and the incomparable distance reachable by TLC.       *)
(* serial_compare and serial_next live in knot/zone/serial.c, outside the  *)
(* sources: they are written from the spec (section 4.1).                  *)
(***************************************************************************)
EXTENDS Naturals

CONSTANT SerialBits
ASSUME SerialBits \in Nat /\ SerialBits >= 2

SerialMod  == 2 ^ SerialBits
HalfRange  == 2 ^ (SerialBits - 1)
Serials    == 0 .. (SerialMod - 1)

\* serial_compare(s1, s2): the unsigned difference s2 - s1 decides.
SerialCompare(s1, s2) ==
    LET diff == (s2 - s1 + SerialMod) % SerialMod
    IN  CASE diff = 0         -> "EQUAL"
          [] diff < HalfRange -> "LOWER"
          [] diff > HalfRange -> "GREATER"
          [] OTHER            -> "INCOMPARABLE"

\* SERIAL_MASK_GEQ: s1 is equal to or greater than s2.
SerialGeq(s1, s2) == SerialCompare(s1, s2) \in {"EQUAL", "GREATER"}

\* Variant of serial_is_current that treats only an equal serial as current.
SerialIsCurrentEqualOnly(local, remote) == local = remote

\* serial_is_current(local, remote): the local serial is not older.
SerialIsCurrent(local, remote) == SerialGeq(local, remote)

\* serial_next under the "increment" serial policy.
SerialNext(prev, increment) == (prev + increment) % SerialMod

=============================================================================
