----------------------------- MODULE RelayChecks -----------------------------
(***************************************************************************)
(* The checks a relay request passes before the wallet is asked for        *)
(* (PrivacyRelay.pipeline, steps 1 to 5), with the three fee verifiers.    *)
(*                                                                         *)
(* A request r has the chain and the target it names; quote, the chain     *)
(* whose live schedule its feesCacheId belongs to, or NULL; selector, or   *)
(* NULL: too short; decodes, whether the rest of the calldata has the      *)
(* selector's shape; random, feeShieldRandom or NULL; and notes, the value *)
(* carrying notes of the call in the order of the calldata, each with the  *)
(* key npk it is addressed to, its token and its value. The notes of a     *)
(* gasless or redeem call are the user's and the fee note.                 *)
(***************************************************************************)
EXTENDS RelayerConfig, ShieldFee, Sequences, FiniteSetsExt

CONSTANT NetFees   \* tier -> what its gas costs, with the margin; the same on every chain

Gasless == {"gaslessShield", "gaslessCrossChainShield"}

ProofBearing == {"transact", "lendAndShield", "redeemAndShield", "atomicCrossChainUnshield"}

WRAPPER_SELECTORS == {"lendAndShield", "atomicCrossChainUnshield"}

advertisedFeeKeys(selector) ==
  CASE selector = "transact"                              -> {"transfer", "unshield"}
    [] selector \in {"lendAndShield", "redeemAndShield"}  -> {"crossContract"}
    [] selector = "atomicCrossChainUnshield"              -> {"crossChainUnshield"}
    [] selector = "gaslessShield"                         -> {"shield"}
    [] selector = "gaslessCrossChainShield"               -> {"shieldXchain"}

\* Amounts are unsigned.
ASSUME FeesAssumption ==
  \A selector \in Gasless \union ProofBearing :
    \A k \in advertisedFeeKeys(selector) : NetFees[k] \in Nat

SHIELD_FEE_TIERS == {"shield", "shieldXchain"}

\* The schedule: the tiers paid by a fee note are grossed up.
fees(k) == IF k \in SHIELD_FEE_TIERS THEN grossUpForShieldFee(NetFees[k]) ELSE NetFees[k]

\* The least of the tiers.
advertisedFee(selector) == Min({fees(k) : k \in advertisedFeeKeys(selector)})

\* The relayer's key for a note made with this random.
deriveFeeNoteNpk(random) == [owner |-> "relayer", random |-> random]
-----------------------------------------------------------------------------
(* gasless-fee-verifier.ts *)

\* The first note to our key; of a cross-chain shield only the fee note counts.
extractFeeNoteValue(r, npk) ==
  LET candidates == IF r.selector = "gaslessShield" THEN DOMAIN r.notes ELSE {2}
      ours == {i \in candidates : r.notes[i].npk = npk}
  IN IF ours = {} THEN NULL ELSE r.notes[Min(ours)].value

verifyGaslessFee(w, r, advertised) ==
  LET value == extractFeeNoteValue(r, deriveFeeNoteNpk(r.random))
  IN IF w.wrapper[r.chain] = NULL THEN "INVALID_CHAIN"
     ELSE IF w.wrapper[r.chain] # r.to THEN "INVALID_TARGET"
     ELSE IF r.random \in {NULL, Malformed} \/ ~r.decodes THEN "INVALID_DATA"
     ELSE IF value = NULL \/ value < advertised THEN "FEE_INSUFFICIENT"
     ELSE "ok"
-----------------------------------------------------------------------------
(* redeem-fee-verifier.ts: any target; the amount is judged before the key. *)

\* Mutant: whom the note is addressed to is not asked.
verifyRedeemFee_AmountOnly(r, advertised) ==
  IF r.random = NULL \/ ~r.decodes THEN "INVALID_DATA"
  ELSE IF r.notes[2].value < advertised THEN "FEE_INSUFFICIENT"
  ELSE "ok"

verifyRedeemFee(r, advertised) ==
  IF r.random = NULL \/ ~r.decodes THEN "INVALID_DATA"
  ELSE IF r.notes[2].value < advertised THEN "FEE_INSUFFICIENT"
  ELSE IF r.random = Malformed THEN "INVALID_DATA"
  ELSE IF r.notes[2].npk # deriveFeeNoteNpk(r.random) THEN "FEE_INSUFFICIENT"
  ELSE "ok"
-----------------------------------------------------------------------------
(* broadcaster-fee-verifier.ts, with the seam of railgun-wallet.ts.        *)

\* A wrapper embeds one Transaction, transact carries several.
normaliseRequestToVanillaTransact(r) ==
  IF r.selector = "transact" THEN r.notes ELSE <<Head(r.notes)>>

\* The sum of a sequence of amounts.
Total(amounts) ==
  LET sum[i \in 0..Len(amounts)] == IF i = 0 THEN 0 ELSE sum[i - 1] + amounts[i]
  IN sum[Len(amounts)]

\* What a note addressed to one of our keys is worth to us, and any other note.
amount(n) == IF n.npk.owner = "relayer" THEN n.value ELSE 0

\* The first note of each Transaction, where the wallet decrypts it, by token.
extractFirstNoteERC20AmountMap(notes, token) ==
  Total([i \in DOMAIN notes |-> IF notes[i].token = token THEN amount(notes[i]) ELSE 0])

\* An outcome that cannot be decoded is an insufficient fee.
verifyBroadcasterFee(w, r, advertised) ==
  IF r.selector # "transact" /\ (r.selector \notin WRAPPER_SELECTORS \/ ~r.decodes)
  THEN "INVALID_DATA"
  ELSE IF \/ ~r.decodes
          \/ extractFirstNoteERC20AmountMap(normaliseRequestToVanillaTransact(r), w.usdc)
               < advertised
  THEN "FEE_INSUFFICIENT"
  ELSE "ok"
-----------------------------------------------------------------------------
(* privacy-relay.ts *)

verifyFee(w, r) ==
  LET advertised == advertisedFee(r.selector)
  IN CASE r.selector \in Gasless           -> verifyGaslessFee(w, r, advertised)
       [] r.selector = "redeemAndShield"   -> verifyRedeemFee(r, advertised)
       [] OTHER                            -> verifyBroadcasterFee(w, r, advertised)

pipeline(w, r) ==
  IF r.chain \notin DOMAIN w.targets THEN "INVALID_CHAIN"
  ELSE IF r.to \notin w.targets[r.chain] THEN "INVALID_TARGET"
  ELSE IF r.quote # r.chain THEN "FEE_EXPIRED"
  ELSE IF r.selector \notin Gasless \union ProofBearing THEN "INVALID_DATA"
  ELSE verifyFee(w, r)
-----------------------------------------------------------------------------
(* What the contracts do, outside this repository.                         *)

\* The call a contract answers to; any other reverts, in the gas estimation.
implements(a) ==
  CASE a.kind = "pool"    -> IF a.chain = Hub THEN {"transact", "atomicCrossChainUnshield"} ELSE {}
    [] a.kind = "wrapper" ->
          IF a.chain = Hub THEN {"gaslessShield"} ELSE {"gaslessCrossChainShield"}
    [] a.kind = "adapter" -> {"lendAndShield", "redeemAndShield"}
    [] OTHER              -> {}

\* The wrapper of the hub shields the USDC of the user's permit, and no other token.
executes(r, usdc) ==
  /\ r.selector \in implements(r.to)
  /\ r.selector = "gaslessShield" => \A i \in DOMAIN r.notes : r.notes[i].token = usdc

\* The hub USDC the relayer's wallet holds once the call is executed. A note that is
\* shielded, by a wrapper or by the adapter, is charged the pool's fee, at the rate
\* of the settings: no integrator takes a share, and the notes arrive whole. Those of
\* a redeem or of a cross-chain shield are USDC, as their calldata names no token. Of
\* a proof only the first note of a Transaction is the broadcaster's, and free.
received(r, usdc) ==
  LET usdcOf(n) == IF n.token = usdc THEN amount(n) ELSE 0
  IN CASE r.selector \in {"redeemAndShield", "gaslessCrossChainShield"}
            -> Total([i \in DOMAIN r.notes |-> Shielded(amount(r.notes[i]))])
       [] r.selector = "gaslessShield"
            -> Total([i \in DOMAIN r.notes |-> Shielded(usdcOf(r.notes[i]))])
       [] r.selector = "transact"
            -> Total([i \in DOMAIN r.notes |-> usdcOf(r.notes[i])])
       [] OTHER
            -> usdcOf(r.notes[1])
=============================================================================
