------------------------------ MODULE Currencies ------------------------------
(* currencies.py: amounts between Python's Decimal and Stripe's minor units.   *)
(*                                                                             *)
(* A Decimal is the number of ten-thousandths of a major unit it stands for:   *)
(* one place more than any currency has, so that every tie of the rounding     *)
(* occurs.  Amounts are never negative.                                        *)
EXTENDS Integers

\* One currency code stands for each row of the tables.
STRIPE_ZERO_DECIMAL == {"JPY"}
STRIPE_THREE_DECIMAL == {"KWD"}
STRIPE_WHOLE_UNIT_TWO_DECIMAL == {"ISK"}
CurrencyCode ==
    {"PLN"} \cup STRIPE_ZERO_DECIMAL \cup STRIPE_THREE_DECIMAL
            \cup STRIPE_WHOLE_UNIT_TWO_DECIMAL

MajorUnit == 10000

StripeExponent(code) ==
    CASE code \in STRIPE_ZERO_DECIMAL -> 0
      [] code \in STRIPE_THREE_DECIMAL -> 3
      [] OTHER -> 2

\* One minor unit as a Decimal: 10^-exponent.
MinorUnit(code) ==
    CASE StripeExponent(code) = 0 -> 10000
      [] StripeExponent(code) = 3 -> 10
      [] OTHER -> 100

\* quantize(Decimal("1"), ROUND_HALF_UP) of amount / unit.
RoundHalfUp(amount, unit) == (2 * amount + unit) \div (2 * unit)

\* to_minor() raises ValueError.
ForbidsFraction(amount, code) ==
    code \in STRIPE_WHOLE_UNIT_TWO_DECIMAL /\ amount % MajorUnit # 0

\* Mutated form: rounded down.
ToMinor_Truncates(amount, code) ==
    IF code \in STRIPE_THREE_DECIMAL
    THEN 10 * (amount \div (10 * MinorUnit(code)))
    ELSE amount \div MinorUnit(code)

\* Three-decimal currencies are rounded to tens of minor units.
ToMinor(amount, code) ==
    IF StripeExponent(code) = 3
    THEN 10 * RoundHalfUp(amount, 10 * MinorUnit(code))
    ELSE RoundHalfUp(amount, MinorUnit(code))

FromMinor(minor, code) == minor * MinorUnit(code)

-----------------------------------------------------------------------------
(* What Stripe can charge. *)

\* The step between two amounts Stripe accepts, in minor units.
ChargeStep(code) ==
    CASE code \in STRIPE_THREE_DECIMAL -> 10
      [] code \in STRIPE_WHOLE_UNIT_TWO_DECIMAL -> 100
      [] OTHER -> 1

IsChargeable(minor, code) == minor \in Nat /\ minor % ChargeStep(code) = 0

\* told is a nearest chargeable amount to asked.
IsNearest(told, asked, code) ==
    LET step == FromMinor(ChargeStep(code), code) IN
        /\ 2 * (told - asked) <= step
        /\ 2 * (asked - told) <= step
=============================================================================
