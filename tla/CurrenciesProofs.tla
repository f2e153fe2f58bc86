--------------------------- MODULE CurrenciesProofs ---------------------------
(* What the conversions of currencies.py guarantee for every amount.           *)
EXTENDS Currencies, TLAPS

\* The tables of currencies.py, expanded.
LEMMA Tables ==
    /\ MinorUnit("PLN") = 100 /\ ChargeStep("PLN") = 1
    /\ MinorUnit("JPY") = 10000 /\ ChargeStep("JPY") = 1
    /\ MinorUnit("KWD") = 10 /\ ChargeStep("KWD") = 10
    /\ MinorUnit("ISK") = 100 /\ ChargeStep("ISK") = 100
    /\ CurrencyCode = {"PLN", "JPY", "KWD", "ISK"}
BY DEF MinorUnit, ChargeStep, StripeExponent, CurrencyCode, STRIPE_ZERO_DECIMAL,
       STRIPE_THREE_DECIMAL, STRIPE_WHOLE_UNIT_TWO_DECIMAL

\* to_minor() in every row of the tables.
LEMMA ToMinorByCode ==
    ASSUME NEW amount \in Nat
    PROVE  /\ ToMinor(amount, "PLN") = (2 * amount + 100) \div 200
           /\ ToMinor(amount, "JPY") = (2 * amount + 10000) \div 20000
           /\ ToMinor(amount, "KWD") = 10 * ((2 * amount + 100) \div 200)
           /\ ToMinor(amount, "ISK") = (2 * amount + 100) \div 200
<1>1. StripeExponent("KWD") = 3
  BY DEF StripeExponent, STRIPE_ZERO_DECIMAL, STRIPE_THREE_DECIMAL
<1>2. /\ StripeExponent("PLN") = 2 /\ StripeExponent("ISK") = 2
      /\ StripeExponent("JPY") = 0
  BY DEF StripeExponent, STRIPE_ZERO_DECIMAL, STRIPE_THREE_DECIMAL
<1>3. QED
  BY <1>1, <1>2, Tables DEF ToMinor, RoundHalfUp

\* from_minor() in every row of the tables.
LEMMA FromMinorByCode ==
    ASSUME NEW minor
    PROVE  /\ FromMinor(minor, "PLN") = minor * 100
           /\ FromMinor(minor, "JPY") = minor * 10000
           /\ FromMinor(minor, "KWD") = minor * 10
           /\ FromMinor(minor, "ISK") = minor * 100
BY Tables DEF FromMinor

\* Only the whole-unit currencies forbid fractions.
LEMMA ForbidsByCode ==
    ASSUME NEW amount
    PROVE  /\ ~ForbidsFraction(amount, "PLN")
           /\ ~ForbidsFraction(amount, "JPY")
           /\ ~ForbidsFraction(amount, "KWD")
           /\ ForbidsFraction(amount, "ISK") <=> amount % 10000 # 0
BY DEF ForbidsFraction, STRIPE_WHOLE_UNIT_TWO_DECIMAL, MajorUnit

\* An exact number of minor units, alone or with a rest, rounds to itself.
LEMMA RoundHundred ==
    ASSUME NEW m \in Nat, NEW r \in Nat
    PROVE  (2 * (m * 100 + r) + 100) \div 200 = m + (2 * r + 100) \div 200
OBVIOUS

LEMMA RoundTenThousand ==
    ASSUME NEW m \in Nat, NEW r \in Nat
    PROVE  (2 * (m * 10000 + r) + 10000) \div 20000
               = m + (2 * r + 10000) \div 20000
OBVIOUS

\* Rounding is never off by more than half a unit.
LEMMA HalfHundred ==
    ASSUME NEW a \in Nat
    PROVE  LET q == (2 * a + 100) \div 200 IN
             q \in Nat /\ 2 * (q * 100 - a) <= 100 /\ 2 * (a - q * 100) <= 100
OBVIOUS

LEMMA HalfTenThousand ==
    ASSUME NEW a \in Nat
    PROVE  LET q == (2 * a + 10000) \div 20000 IN
             /\ q \in Nat
             /\ 2 * (q * 10000 - a) <= 10000 /\ 2 * (a - q * 10000) <= 10000
OBVIOUS

\* Converting what Stripe reports and sending it back asks for the same amount:
\* charge() of a locked_amount, start_refund() of a paid_amount.
THEOREM RoundTrip ==
    ASSUME NEW code \in CurrencyCode, NEW minor \in Nat, IsChargeable(minor, code)
    PROVE  /\ ToMinor(FromMinor(minor, code), code) = minor
           /\ ~ForbidsFraction(FromMinor(minor, code), code)
<1>1. /\ ToMinor(minor * 100, "PLN") = (2 * (minor * 100) + 100) \div 200
      /\ ToMinor(minor * 100, "ISK") = (2 * (minor * 100) + 100) \div 200
      /\ ToMinor(minor * 10, "KWD") = 10 * ((2 * (minor * 10) + 100) \div 200)
      /\ ToMinor(minor * 10000, "JPY")
           = (2 * (minor * 10000) + 10000) \div 20000
  BY ToMinorByCode
<1>2. (2 * (minor * 100) + 100) \div 200 = minor
  OBVIOUS
<1>3. CASE code = "PLN"
  BY <1>1, <1>2, <1>3, FromMinorByCode, ForbidsByCode
<1>4. CASE code = "JPY"
  <2>1. (2 * (minor * 10000) + 10000) \div 20000 = minor
    OBVIOUS
  <2>2. QED
    BY <1>1, <1>4, <2>1, FromMinorByCode, ForbidsByCode
<1>5. CASE code = "KWD"
  <2>1. minor % 10 = 0
    BY <1>5, Tables DEF IsChargeable
  <2>2. 10 * ((2 * (minor * 10) + 100) \div 200) = minor
    BY <2>1
  <2>3. QED
    BY <1>1, <1>5, <2>2, FromMinorByCode, ForbidsByCode
<1>6. CASE code = "ISK"
  <2>1. minor % 100 = 0
    BY <1>6, Tables DEF IsChargeable
  <2>2. (minor * 100) % 10000 = 0
    BY <2>1
  <2>3. QED
    BY <1>1, <1>2, <1>6, <2>2, FromMinorByCode, ForbidsByCode
<1>7. QED
  BY <1>3, <1>4, <1>5, <1>6, Tables

\* Whatever amount the application asks for, Stripe is asked for an amount it can
\* charge, and for one nearest to it: never off by more than half a step.
THEOREM NearestChargeable ==
    ASSUME NEW code \in CurrencyCode, NEW amount \in Nat,
           ~ForbidsFraction(amount, code)
    PROVE  /\ IsChargeable(ToMinor(amount, code), code)
           /\ IsNearest(FromMinor(ToMinor(amount, code), code), amount, code)
<1> DEFINE q == (2 * amount + 100) \div 200
           t == (2 * amount + 10000) \div 20000
<1>1. q \in Nat /\ 2 * (q * 100 - amount) <= 100 /\ 2 * (amount - q * 100) <= 100
  BY HalfHundred
<1>2. /\ t \in Nat
      /\ 2 * (t * 10000 - amount) <= 10000 /\ 2 * (amount - t * 10000) <= 10000
  BY HalfTenThousand
<1>3. /\ ToMinor(amount, "PLN") = q /\ ToMinor(amount, "JPY") = t
      /\ ToMinor(amount, "KWD") = 10 * q /\ ToMinor(amount, "ISK") = q
  BY ToMinorByCode
<1>4. CASE code = "PLN"
  <2>1. FromMinor(q, "PLN") = q * 100 /\ FromMinor(1, "PLN") = 100
    BY FromMinorByCode
  <2>2. q % 1 = 0
    BY <1>1
  <2>3. QED
    BY <1>1, <1>3, <1>4, <2>1, <2>2, Tables DEF IsChargeable, IsNearest
<1>5. CASE code = "JPY"
  <2>1. FromMinor(t, "JPY") = t * 10000 /\ FromMinor(1, "JPY") = 10000
    BY FromMinorByCode
  <2>2. t % 1 = 0
    BY <1>2
  <2>3. QED
    BY <1>2, <1>3, <1>5, <2>1, <2>2, Tables DEF IsChargeable, IsNearest
<1>6. CASE code = "KWD"
  <2>1. FromMinor(10 * q, "KWD") = q * 100 /\ FromMinor(10, "KWD") = 100
    BY <1>1, FromMinorByCode
  <2>2. (10 * q) % 10 = 0 /\ 10 * q \in Nat
    BY <1>1
  <2>3. QED
    BY <1>1, <1>3, <1>6, <2>1, <2>2, Tables DEF IsChargeable, IsNearest
<1>7. CASE code = "ISK"
  <2>1. amount % 10000 = 0
    BY <1>7, ForbidsByCode
  <2>2. q = 100 * (amount \div 10000) /\ amount = 10000 * (amount \div 10000)
    BY <2>1
  <2>3. q % 100 = 0 /\ q * 100 = amount
    BY <2>2
  <2>4. FromMinor(q, "ISK") = amount /\ FromMinor(100, "ISK") = 10000
    BY <2>3, FromMinorByCode
  <2>5. QED
    BY <1>1, <1>3, <1>7, <2>3, <2>4, Tables DEF IsChargeable, IsNearest
<1>8. QED
  BY <1>4, <1>5, <1>6, <1>7, Tables

\* A larger amount never converts to a smaller one: a partial charge or refund
\* within the available amount is asked for within it.
THEOREM Monotone ==
    ASSUME NEW code \in CurrencyCode, NEW a \in Nat, NEW b \in Nat, a <= b
    PROVE  ToMinor(a, code) <= ToMinor(b, code)
<1>1. (2 * a + 100) \div 200 <= (2 * b + 100) \div 200
  OBVIOUS
<1>2. (2 * a + 10000) \div 20000 <= (2 * b + 10000) \div 20000
  OBVIOUS
<1>3. 10 * ((2 * a + 100) \div 200) <= 10 * ((2 * b + 100) \div 200)
  BY <1>1
<1>4. /\ ToMinor(a, "PLN") <= ToMinor(b, "PLN")
      /\ ToMinor(a, "JPY") <= ToMinor(b, "JPY")
      /\ ToMinor(a, "KWD") <= ToMinor(b, "KWD")
      /\ ToMinor(a, "ISK") <= ToMinor(b, "ISK")
  <2>1. /\ ToMinor(a, "PLN") = (2 * a + 100) \div 200
        /\ ToMinor(a, "JPY") = (2 * a + 10000) \div 20000
        /\ ToMinor(a, "KWD") = 10 * ((2 * a + 100) \div 200)
        /\ ToMinor(a, "ISK") = (2 * a + 100) \div 200
    BY ToMinorByCode
  <2>2. /\ ToMinor(b, "PLN") = (2 * b + 100) \div 200
        /\ ToMinor(b, "JPY") = (2 * b + 10000) \div 20000
        /\ ToMinor(b, "KWD") = 10 * ((2 * b + 100) \div 200)
        /\ ToMinor(b, "ISK") = (2 * b + 100) \div 200
    BY ToMinorByCode
  <2>3. QED
    BY <1>1, <1>2, <1>3, <2>1, <2>2
<1>5. QED
  BY <1>4, Tables

\* Parts add up: a chargeable part and the rest of an amount are asked for as
\* the whole would be, so refunding in parts neither loses nor gains a minor unit.
THEOREM PartsAddUp ==
    ASSUME NEW code \in CurrencyCode, NEW part \in Nat, NEW rest \in Nat,
           IsChargeable(part, code)
    PROVE  ToMinor(FromMinor(part, code) + rest, code)
               = part + ToMinor(rest, code)
<1>1. /\ ToMinor(rest, "PLN") = (2 * rest + 100) \div 200
      /\ ToMinor(rest, "JPY") = (2 * rest + 10000) \div 20000
      /\ ToMinor(rest, "KWD") = 10 * ((2 * rest + 100) \div 200)
      /\ ToMinor(rest, "ISK") = (2 * rest + 100) \div 200
  BY ToMinorByCode
<1>2. ToMinor(part * 100 + rest, "PLN") = part + ToMinor(rest, "PLN")
  <2>1. ToMinor(part * 100 + rest, "PLN")
          = (2 * (part * 100 + rest) + 100) \div 200
    BY ToMinorByCode
  <2>2. QED
    BY <1>1, <2>1, RoundHundred
<1>3. ToMinor(part * 10000 + rest, "JPY") = part + ToMinor(rest, "JPY")
  <2>1. ToMinor(part * 10000 + rest, "JPY")
          = (2 * (part * 10000 + rest) + 10000) \div 20000
    BY ToMinorByCode
  <2>2. QED
    BY <1>1, <2>1, RoundTenThousand
<1>4. ToMinor(part * 100 + rest, "ISK") = part + ToMinor(rest, "ISK")
  <2>1. ToMinor(part * 100 + rest, "ISK")
          = (2 * (part * 100 + rest) + 100) \div 200
    BY ToMinorByCode
  <2>2. QED
    BY <1>1, <2>1, RoundHundred
<1>5. ASSUME code = "KWD"
      PROVE  ToMinor(part * 10 + rest, "KWD") = part + ToMinor(rest, "KWD")
  <2>1. part % 10 = 0
    BY <1>5, Tables DEF IsChargeable
  <2>2. 10 * ((2 * (part * 10 + rest) + 100) \div 200)
          = part + 10 * ((2 * rest + 100) \div 200)
    BY <2>1
  <2>3. ToMinor(part * 10 + rest, "KWD")
          = 10 * ((2 * (part * 10 + rest) + 100) \div 200)
    BY ToMinorByCode
  <2>4. QED
    BY <1>1, <2>2, <2>3
<1>6. /\ FromMinor(part, "PLN") = part * 100 /\ FromMinor(part, "JPY") = part * 10000
      /\ FromMinor(part, "KWD") = part * 10 /\ FromMinor(part, "ISK") = part * 100
  BY FromMinorByCode
<1>7. QED
  BY <1>2, <1>3, <1>4, <1>5, <1>6, Tables
=============================================================================
