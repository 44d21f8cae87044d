------------------------------ MODULE BinMath ------------------------------
(***************************************************************************)
(* The arithmetic behind the rows of LiquidityLedger: src/utils/bin-math   *)
(* and what swap.processor and composition-fees.processor compute with it. *)
(*                                                                         *)
(* BigInts are integers.  A double is an integer of at most Mantissa       *)
(* significant bits; the fractions in use are multiples of 1/Scale, a      *)
(* power of two, and are counted in that unit.                             *)
(***************************************************************************)
EXTENDS Integers

CONSTANTS
  Scale,          \* SCALE, 2^64
  MiddleBinId,    \* MIDDLE_BIN_ID
  MaxBinStep,     \* MAX_BIN_STEP
  BasisPoints,    \* 10000
  Mantissa,       \* bits of a double's mantissa
  FractionDigits  \* digits normalizeAmount keeps

Ten[n \in Nat] == IF n = 0 THEN 1 ELSE 10 * Ten[n - 1]
Two[n \in Nat] == IF n = 0 THEN 1 ELSE 2 * Two[n - 1]

\* The last bit's value in a double near n, and the nearest double, ties to even.
Unit[n \in Nat] == IF n < Two[Mantissa] THEN 1 ELSE 2 * Unit[n \div 2]

Nearest(n) ==
  LET u == Unit[n]  q == n \div u  r == n % u IN
  IF 2 * r < u \/ (2 * r = u /\ q % 2 = 0) THEN q * u ELSE (q + 1) * u

Double(n) == IF n < 0 THEN -Nearest(-n) ELSE Nearest(n)

-----------------------------------------------------------------------------
(* Prices *)

\* <<result, currentBase, exp>>: the loop of powQ64.  It misses the last factor.
PowLoop_StopsEarly[x \in Nat \X Nat \X Nat] ==
  IF x[3] <= 1 THEN x[1]
  ELSE PowLoop_StopsEarly[<<IF x[3] % 2 = 1 THEN (x[1] * x[2]) \div Scale ELSE x[1],
                            (x[2] * x[2]) \div Scale, x[3] \div 2>>]

PowLoop[x \in Nat \X Nat \X Nat] ==
  IF x[3] = 0 THEN x[1]
  ELSE PowLoop[<<IF x[3] % 2 = 1 THEN (x[1] * x[2]) \div Scale ELSE x[1],
                 (x[2] * x[2]) \div Scale, x[3] \div 2>>]

PowQ64_StopsEarly(base, exponent) == PowLoop_StopsEarly[<<Scale, base, exponent>>]

PowQ64(base, exponent) ==
  CASE exponent = 0 -> Scale
    [] exponent = 1 -> base
    [] OTHER -> PowLoop[<<Scale, base, exponent>>]

\* Other bin steps throw.
BinSteps == 1..MaxBinStep

Base(binStep) == Scale + (binStep * Scale) \div BasisPoints

\* The price in Q64.64.
PriceQ64(binStep, id) ==
  LET exponent == id - MiddleBinId IN
  CASE exponent = 0 -> Scale
    [] exponent > 0 -> PowQ64(Base(binStep), exponent)
    [] exponent < 0 -> (Scale * Scale) \div PowQ64(Base(binStep), -exponent)

\* q64ToFloat rounds to a double; its division by a power of two is exact.
PriceFromId(binStep, id) ==
  IF id = MiddleBinId THEN Scale ELSE Double(PriceQ64(binStep, id))
-----------------------------------------------------------------------------
(* Amounts *)

\* Adding the strings instead of the numbers.
Concatenate(a, b) ==
  a * Ten[CHOOSE n \in 1..12 : b < Ten[n] /\ (b >= Ten[n - 1] \/ n = 1)] + b

Add_Strings(a, b) == IF b < 0 THEN a + b ELSE Concatenate(a, b)

\* parseFloat rounds, the sum of the Q64.64 numbers is exact, Number rounds.
Add(a, b) == Double(Double(a) + Double(b))

\* In units of the last fraction digit.
NormalizeAmount(amount, decimals) ==
  LET whole == amount \div Ten[decimals]
      part == ((amount % Ten[decimals]) * Ten[FractionDigits]) \div Ten[decimals]
  IN whole * Ten[FractionDigits] + part
-----------------------------------------------------------------------------
(* swap.processor: e is a bin-swap event, d the decimals of the mints. *)

BinSwapEvent(amounts) ==
  {e \in [swap_for_y : BOOLEAN, amount_in : amounts, amount_out : amounts,
          fee : amounts, protocol_fee : amounts] : e.protocol_fee <= e.fee /\ e.fee <= e.amount_in}

\* What goes in is a difference of two u64s taken as doubles.
SwapDelta(e) ==
  LET into == Double(Double(e.amount_in) - Double(e.protocol_fee)) IN
  IF e.swap_for_y THEN [x |-> into, y |-> -e.amount_out]
  ELSE [x |-> -e.amount_out, y |-> into]

NewReserves(bin, e) ==
  [x |-> Add(bin.x, SwapDelta(e).x), y |-> Add(bin.y, SwapDelta(e).y)]

\* The fee is taken for an amount of the token that comes out.
SwapAmounts_FeeOut(e, d) ==
  LET into == IF e.swap_for_y THEN d.x ELSE d.y
      out  == IF e.swap_for_y THEN d.y ELSE d.x
  IN [in |-> NormalizeAmount(e.amount_in, into), out |-> NormalizeAmount(e.amount_out, out),
      fee |-> NormalizeAmount(e.fee, out), protocolFee |-> NormalizeAmount(e.protocol_fee, into)]

\* With the prices all 1.0, these are also the amounts in dollars and SOL.
SwapAmounts(e, d) ==
  LET into == IF e.swap_for_y THEN d.x ELSE d.y
      out  == IF e.swap_for_y THEN d.y ELSE d.x
  IN [in |-> NormalizeAmount(e.amount_in, into), out |-> NormalizeAmount(e.amount_out, out),
      fee |-> NormalizeAmount(e.fee, into), protocolFee |-> NormalizeAmount(e.protocol_fee, into)]

(* composition-fees.processor: parseFloat gives a number and the event a   *)
(* BN, whose sum is the concatenation of their decimals.                   *)
NewProtocolFees(current, fee) == Concatenate(Double(current), fee)
-----------------------------------------------------------------------------
(* The calls the properties are about. *)
CONSTANTS
  Ids,      \* bin ids
  Amounts,  \* amounts of an event
  Reserves, \* reserves of a bin
  Decimals  \* decimals of a mint

\* How many bin steps the prices of id and of the next id are away from 1.
Reach(id) == IF id >= MiddleBinId THEN id + 1 - MiddleBinId ELSE MiddleBinId - id

\* A double has 53 bits; two are enough for a tie at a power of two to be even.
\* Ids have 32 bits and Scale 64, so truncations do not add up to a bin step.
ASSUME BinMathAssumption ==
  /\ Scale \in Nat /\ \E n \in 0..Scale : Scale = Two[n]
  /\ MiddleBinId \in Nat /\ MaxBinStep \in Nat
  /\ BasisPoints \in Nat \ {0} /\ Ids \subseteq Nat
  /\ \A id \in Ids : BasisPoints + (BasisPoints + 1) * Reach(id) <= Scale
  /\ Mantissa \in Nat /\ Mantissa >= 2
  /\ FractionDigits \in Nat /\ Decimals \subseteq Nat
  /\ Amounts \subseteq Nat /\ Reserves \subseteq Nat

VARIABLE call   \* the function called last and its arguments

NoCall == [kind |-> "none"]
Calls ==
  [kind : {"price"}, binStep : BinSteps, id : Ids]
    \cup [kind : {"amounts"}, event : BinSwapEvent(Amounts), reserve : Reserves,
          x : Decimals, y : Decimals]

Call == call = NoCall /\ call' \in Calls

CallSpec == call = NoCall /\ [][Call]_call

OfPrice == call.kind = "price"
OfAmounts == call.kind = "amounts"

Distance(a, b) == IF a < b THEN b - a ELSE a - b

(* Prices grow with the bin id, by the factor 1 + binStep/10000.  Of their  *)
(* value the truncations take no more than Reach(id) parts in Scale, and   *)
(* below the middle the quotients one unit more; the doubles that are      *)
(* returned are off by no more than the last bit of each price.            *)
PricesGeometric ==
  OfPrice =>
    LET Price(id) == PriceFromId(call.binStep, id)
        base == Base(call.binStep)
        next == Price(call.id + 1) * Scale
        grown == Price(call.id) * base
        larger == IF next < grown THEN grown ELSE next
        unit == IF call.id < MiddleBinId THEN base ELSE 0
        lastBits == Unit[Price(call.id + 1)] * Scale + Unit[Price(call.id)] * base
    IN /\ Price(MiddleBinId) = Scale
       /\ Price(call.id) <= Price(call.id + 1)
       /\ Distance(next, grown) <= (Reach(call.id) * larger) \div Scale + unit + lastBits

(* A swap changes the reserves of its bin by what came in less the         *)
(* protocol's share and by what went out, exactly while they are below     *)
(* 2^53; above, each is off by less than three times a double's last bit.  *)
ReservesAgree ==
  OfAmounts =>
    LET e == call.event
        after == NewReserves([x |-> call.reserve, y |-> call.reserve], e)
        in == call.reserve + e.amount_in - e.protocol_fee
        out == call.reserve - e.amount_out
        most == call.reserve + e.amount_in
        Near(n, m) == IF most <= Two[Mantissa] THEN n = m
                      ELSE Distance(n, m) < 3 * Unit[most]
    IN out >= 0 => /\ Near(after.x, IF e.swap_for_y THEN in ELSE out)
                   /\ Near(after.y, IF e.swap_for_y THEN out ELSE in)

(* An amount is shown in units of its own token: no digit is lost or       *)
(* shifted while the mint has no more decimals than are kept; of more, the *)
(* last are cut off.                                                       *)
AmountsNormalized ==
  OfAmounts =>
    LET e == call.event
        a == SwapAmounts(e, call)
        Shows(n, amount, d) ==
          LET kept == n * Ten[d]  exact == amount * Ten[FractionDigits] IN
          IF d <= FractionDigits THEN kept = exact
          ELSE kept <= exact /\ exact < kept + Ten[d]
        into == IF e.swap_for_y THEN call.x ELSE call.y
        out == IF e.swap_for_y THEN call.y ELSE call.x
    IN /\ Shows(a.in, e.amount_in, into) /\ Shows(a.out, e.amount_out, out)
       /\ Shows(a.fee, e.fee, into) /\ Shows(a.protocolFee, e.protocol_fee, into)
=============================================================================
