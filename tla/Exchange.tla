------------------------------- MODULE Exchange -------------------------------
(***************************************************************************)
(* An exchange between an account in PLN and one in a foreign currency:    *)
(* the rate it is booked at, its two roundings, and the validation of the  *)
(* legs (finance/transactions.py, nbp_rates.py, ledger_validation.py).     *)
(*                                                                         *)
(* Amounts are in minor units, and a rate is a number of 1/Scale.          *)
(***************************************************************************)
EXTENDS Integers, FiniteSetsExt

CONSTANTS
  Days, Weekend,   \* days are numbers
  Rates,           \* rates that NBP may publish
  ManualRates,     \* rates that a user may type in
  Scale,
  Amounts,         \* from_amount
  None

VARIABLES
  published,  \* table A of NBP: the rate of a day, or None
  ex          \* the exchange that is being made

xvars == <<published, ex>>

\* NBP publishes on working days, if they are not holidays.
Init ==
  /\ published \in [Days -> Rates \cup {None}]
  /\ \A d \in Weekend : published[d] = None
  /\ ex = [at |-> "start"]

Refused == [at |-> "refused"]
Priced(x, rate, day) ==
  [at |-> "priced", from |-> x.from, amount |-> x.amount, asked |-> x.day,
   rate |-> rate, day |-> day]

\* A request names the account it takes from, "PLN" or "foreign", and an amount; the
\* rate is looked up for its date unless it names one.
Request(from, n, d) ==
  /\ ex.at = "start"
  /\ ex' = [at |-> "lookup", from |-> from, amount |-> n, day |-> d]
  /\ UNCHANGED published

RequestManual(from, n, rate) ==
  /\ ex.at = "start"
  /\ ex' = Priced([from |-> from, amount |-> n, day |-> None], rate, None)
  /\ UNCHANGED published

-----------------------------------------------------------------------------
(***************************************************************************)
(* NbpRateProvider.get_rate.                                               *)
(***************************************************************************)
\* The rate of the day itself; without one (404) a weekday has none at all.
Lookup ==
  /\ ex.at = "lookup"
  /\ ex' = IF published[ex.day] # None THEN Priced(ex, published[ex.day], ex.day)
           ELSE IF ex.day \in Weekend THEN [ex EXCEPT !.at = "fallback"]
           ELSE Refused
  /\ UNCHANGED published

\* What NBP has published in the week up to the day.
Before(d) == {e \in Days : e \in d - 7 .. d - 1 /\ published[e] # None}
NewestQuote(D) == Max(D)

\* _get_previous_business_day_rate
Fallback ==
  /\ ex.at = "fallback"
  /\ ex' = IF Before(ex.day) = {} THEN Refused
           ELSE LET d == NewestQuote(Before(ex.day)) IN Priced(ex, published[d], d)
  /\ UNCHANGED published

\* NBP does not answer, or with an error.
Unavailable == ex.at \in {"lookup", "fallback"} /\ ex' = Refused /\ UNCHANGED published

-----------------------------------------------------------------------------
(***************************************************************************)
(* create_exchange_transaction: both legs have the same base amount.       *)
(***************************************************************************)
\* a/b, rounded to an integer, halves to the even one.
HalfEven(a, b) ==
  LET q == a \div b
      r == 2 * (a % b)
  IN  IF r < b \/ (r = b /\ q % 2 = 0) THEN q ELSE q + 1

InPLN(n, rate) == HalfEven(n * rate, Scale)
FromPLN(base, rate) == HalfEven(base * Scale, rate)

Legs(x) ==
  LET rate(c) == IF c = "PLN" THEN Scale ELSE x.rate
      to == IF x.from = "PLN" THEN "foreign" ELSE "PLN"
      base == InPLN(x.amount, rate(x.from))
  IN  {[currency |-> x.from, amount |-> x.amount, base |-> base, rate |-> rate(x.from)],
       [currency |-> to, amount |-> FromPLN(base, rate(to)), base |-> base, rate |-> rate(to)]}

\* _validate_transaction_postings, of the amounts of an exchange.
MatchesOneWay(l) == l.base = InPLN(l.amount, l.rate)    \* mutant: no exchange_rounding
Matches(l) == \/ l.base = InPLN(l.amount, l.rate)
              \/ l.amount = FromPLN(l.base, l.rate)
Consistent(l) == IF l.currency = "PLN" THEN l.rate = Scale /\ l.amount = l.base ELSE Matches(l)
Positive(l) == l.amount > 0 /\ l.base > 0

Book ==
  /\ ex.at = "priced"
  /\ LET legs == Legs(ex)
     IN  ex' = IF \A l \in legs : Positive(l) /\ Consistent(l)
               THEN [at |-> "booked", legs |-> legs, asked |-> ex.asked, rate |-> ex.rate, day |-> ex.day]
               ELSE [at |-> "invalid", legs |-> legs]
  /\ UNCHANGED published

-----------------------------------------------------------------------------
Next ==
  \/ \E from \in {"PLN", "foreign"}, n \in Amounts :
       \/ \E d \in Days : Request(from, n, d)
       \/ \E rate \in ManualRates : RequestManual(from, n, rate)
  \/ Lookup \/ Fallback \/ Unavailable \/ Book

Spec == Init /\ [][Next]_xvars

-----------------------------------------------------------------------------
(***************************************************************************)
(* Properties.                                                             *)
(***************************************************************************)
Distance(a, b) == IF a < b THEN b - a ELSE a - b
Larger(a, b) == IF a < b THEN b ELSE a

\* An exchange is refused for its amounts only if one of them would be zero
\* ("A converted receipt is rounded to one foreign minor unit"), and the book
\* value of each leg is within half a minor unit, of the one currency or of the
\* other, of its amount at the rate, which is the last that NBP has published
\* ("nbp_previous_business_day").
ExchangeBooked ==
  /\ ex.at = "invalid" => \E l \in ex.legs : ~Positive(l)
  /\ ex.at = "booked" =>
       /\ \A l \in ex.legs :
            2 * Distance(l.base * Scale, l.amount * l.rate) <= Larger(Scale, l.rate)
       /\ ex.day # None =>
            /\ ex.rate = published[ex.day] /\ ex.day <= ex.asked
            /\ \A d \in Days : d \in ex.day + 1 .. ex.asked => published[d] = None
=============================================================================
