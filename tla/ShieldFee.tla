------------------------------ MODULE ShieldFee ------------------------------
(***************************************************************************)
(* The pool's shield fee on a fee note, and the gross-up that makes up for *)
(* it in the tiers that are paid by such a note.                           *)
(***************************************************************************)
EXTENDS Integers

CONSTANTS
  Bps,             \* 10000
  shieldFeeBps     \* RELAYER_SHIELD_FEE_BPS, the rate of the pool

ASSUME ShieldFeeAssumption ==
  Bps \in Nat \ {0} /\ shieldFeeBps \in 0..(Bps - 1)

\* Mutant: marks the fee up instead of dividing by what is left of it.
grossUpForShieldFee_Markup(net) == (net * (Bps + shieldFeeBps)) \div Bps

\* Ceil division, so that the note still covers net once the fee is taken.
grossUpForShieldFee(net) ==
  LET denom == Bps - shieldFeeBps
  IN IF shieldFeeBps = 0 THEN net ELSE (net * Bps + denom - 1) \div denom

\* What the pool leaves of a fee note: it takes shieldFeeBps, rounded down.
Shielded(value) == value - (value * shieldFeeBps) \div Bps
=============================================================================
