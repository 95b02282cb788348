------------------------------- MODULE Backoff -------------------------------
(***************************************************************************)
(* NextBackoff (internal/connectors/polymarket/ws_market_client.go): the   *)
(* wait before reconnect number `attempt'.  A time.Duration is an int64    *)
(* and the product wraps; an int64 is modelled as the set of its bits that *)
(* are 1, bit 63 being the sign, so that a shift and a comparison need no  *)
(* arithmetic beyond that on bit positions.                                *)
(***************************************************************************)
EXTENDS Integers, FiniteSetsExt

SignBit == 63

(* A natural number below 2^31 as bits. *)
Bits(n) == {b \in 0 .. 30 : (n \div 2^b) % 2 = 1}

(* x * 2^k without a limit on the width, and in an int64. *)
Times2(x, k) == {b + k : b \in x}
Shl(x, k) == Times2(x, k) \cap 0 .. SignBit

(* Two's complement order: the highest bit in which they differ decides,   *)
(* and decides the other way round if it is the sign.                      *)
Less(x, y) ==
  LET differ == (x \ y) \cup (y \ x)
      top == Max(differ)
  IN  differ # {} /\ top \in (IF top = SignBit THEN x ELSE y)

(* DefaultReconnectPolicy in nanoseconds: 250ms = 5^9 * 2^7 and            *)
(* 5s = 5^10 * 2^9.                                                        *)
BaseDelay == Times2(Bits(1953125), 7)
MaxDelay == Times2(Bits(9765625), 9)

NextBackoff(attempt) ==
  LET delay == Shl(BaseDelay, IF attempt < 0 THEN 0 ELSE attempt)
  IN  IF Less(MaxDelay, delay) THEN MaxDelay ELSE delay
=============================================================================
