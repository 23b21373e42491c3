----------------------------- MODULE CardCharges -----------------------------
(***************************************************************************)
(* What a charge of the stored card comes to (services/buy-credits.ts)     *)
(* and how the gateway may answer it (services/payment-gateway.ts).        *)
(***************************************************************************)
EXTENDS Integers

CONSTANT ChargeUnit \* card charges are rounded up to a multiple of this (1000)

ASSUME ChargeUnitAssumption == ChargeUnit \in Nat \ {0}

\* Credits the card is charged for when n are asked for.
Charged(n) == ChargeUnit * ((n + ChargeUnit - 1) \div ChargeUnit)

\* executeCreditCardTransaction: a charge of nothing never reaches the gateway,
\* which takes any other one or refuses it.
CardAnswers(n) == IF n > 0 THEN {"taken", "refused"} ELSE {"refused"}
=============================================================================
