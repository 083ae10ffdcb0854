----------------------------- MODULE OrderSizing -----------------------------
(***************************************************************************)
(* The price and the quantity of an order: execution/sizing.py on top of   *)
(* execution/tick_size.py.  Prices may be half a won (a reference price    *)
(* can be the middle of a quote), so all money is counted in half won.     *)
(* Rates are in percent.  max_per_day_krw and used_per_day_krw are not      *)
(* here: size writes them to its audit line and compares them with nothing. *)
(***************************************************************************)
EXTENDS Integers, FiniteSets
Fraction == INSTANCE Decimals

CONSTANTS
    MaxPerOrder, MinPerOrder,   \* max_per_order_krw, min_per_order_krw
    MaxPctOfEquity              \* max_pct_of_equity

\* _TICK_TABLE_STOCK: [price below, tick], in won.
Bands == {<<2000, 1>>, <<5000, 5>>, <<20000, 10>>, <<50000, 50>>,
          <<200000, 100>>, <<500000, 500>>}

\* get_tick_size: the band with the lowest bound above the price.
Tick(price, type) ==
    LET above == {b \in Bands : price < 2 * b[1]}
    IN  IF type \in {"etf", "etn"} THEN 2 * 5
        ELSE IF above = {} THEN 2 * 1000
        ELSE 2 * (CHOOSE b \in above : \A c \in above : b[1] <= c[1])[2]

Down(price, tick) == (price \div tick) * tick
Up(price, tick) == -((-price) \div tick) * tick

\* align_price_to_tick, conservative: a buyer bids less, a seller asks more.
Aligned(price, side, type) ==
    IF side = "buy" THEN Down(price, Tick(price, type)) ELSE Up(price, Tick(price, type))

IsAligned(price, type) == price % Tick(price, type) = 0

-----------------------------------------------------------------------------
\* The share of the equity an input's method puts at risk, as a fraction.
AtRisk(i) == Fraction!Ratio(i.equity * i.rate, 100)

\* _compute_notional: fixed_pct spends the amount; atr and fixed_risk divide
\* it by the distance (the ATR, the stop) for a quantity at the reference price.
Notional(i) ==
    IF i.method = "fixed_pct" THEN AtRisk(i)
    ELSE Fraction!Over(Fraction!Times(AtRisk(i), i.price), i.distance)

\* A missing or non-positive parameter of the method is a ValueError.
MethodIsUsable(i) ==
    i.rate > 0 /\ (i.method \in {"atr", "fixed_risk"} => i.distance > 0)

InputsAreValid(i) == i.equity > 0 /\ i.cash >= 0 /\ i.price > 0

\* The limits of one order.
Caps(i) ==
    {Notional(i), Fraction!Whole(MaxPerOrder),
     Fraction!Ratio(i.equity * MaxPctOfEquity, 100)}
    \union (IF i.side = "buy" THEN {Fraction!Whole(i.cash)} ELSE {})

\* Steps 4 to 6 of size: the smallest of the caps.
Target(i) == CHOOSE c \in Caps(i) : \A d \in Caps(i) : Fraction!AtMost(c, d)

\* Whole shares at the aligned price that the target pays for.
SharesAtReference(i) == LET t == Target(i) IN t[1] \div (t[2] * i.price)

Shares(i) ==
    LET t == Target(i)
    IN  t[1] \div (t[2] * Aligned(i.price, i.side, i.type))

Rejected == [accepted |-> FALSE, quantity |-> 0, price |-> 0]

\* size: every failing step rejects with quantity 0.
Size(i) ==
    IF /\ InputsAreValid(i)
       /\ Aligned(i.price, i.side, i.type) > 0
       /\ MethodIsUsable(i)
       /\ Fraction!AtMost(Fraction!Whole(MinPerOrder), Target(i))
       /\ Shares(i) > 0
       /\ i.side = "buy" => Shares(i) * Aligned(i.price, i.side, i.type) <= i.cash
    THEN [accepted |-> TRUE, quantity |-> Shares(i),
          price |-> Aligned(i.price, i.side, i.type)]
    ELSE Rejected

-----------------------------------------------------------------------------
(* The price is one the exchange takes: a multiple of the tick of its own   *)
(* band, also when rounding moved it into the next one, never worse for the *)
(* trader than the reference and within one tick of it.                     *)
PriceIsOnTick(i) ==
    LET s == Size(i)
    IN  s.accepted =>
          /\ IsAligned(s.price, i.type)
          /\ IF i.side = "buy" THEN s.price <= i.price ELSE s.price >= i.price
          /\ s.price - i.price \in -(Tick(i.price, i.type) - 1) .. Tick(i.price, i.type) - 1

(* An accepted order is as large as the limits of one order allow and no    *)
(* larger: it costs no more than any of them at the price it is sent with,  *)
(* and one share more would break one.                                      *)
SizedToTheLimit(i) ==
    LET s == Size(i)
        Within(quantity) ==
            \A c \in Caps(i) : Fraction!AtMost(Fraction!Whole(quantity * s.price), c)
    IN  s.accepted => Within(s.quantity) /\ ~Within(s.quantity + 1)
=============================================================================
