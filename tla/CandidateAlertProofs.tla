-------------------------- MODULE CandidateAlertProofs -------------------------
(***************************************************************************)
(* What is proved of the candidates and of the alerts: of the ledger each  *)
(* candidate trades in, of the transaction that records their lifecycles,  *)
(* of the alert center, of the observation of its alerts, and of the replay *)
(* of a dataset's candidates.                                              *)
(***************************************************************************)
EXTENDS CandidateRecords, CandidateRecorder, AlertCenter, AlertOutcomes, FiniteSetTheorems,
        WellFoundedInduction, SequenceTheorems, TLAPS

-----------------------------------------------------------------------------
(***************************************************************************)
(* Rounding to the nearest whole number: it keeps the order, leaves whole  *)
(* numbers as they are, and is at most one half away.                      *)
(***************************************************************************)

\* Division by a positive number: what the quotient and the rest satisfy.
LEMMA Quotients ==
    ASSUME NEW a \in Int, NEW b \in Nat \ {0}
    PROVE  /\ a \div b \in Int /\ a % b \in 0..(b - 1)
           /\ a = b * (a \div b) + (a % b)
  OBVIOUS

\* A larger factor makes a larger product.
LEMMA ProductGrows ==
    ASSUME NEW a \in Int, NEW b \in Int, NEW k \in Nat, a <= b
    PROVE  a * k <= b * k
  OBVIOUS

LEMMA QuotientGrows ==
    ASSUME NEW a \in Int, NEW c \in Int, NEW b \in Nat \ {0}, a <= c
    PROVE  a \div b <= c \div b
  BY Quotients

\* A rounded quotient is its floor or one more.
LEMMA RoundedIsNear ==
    ASSUME NEW a \in Int, NEW b \in Nat \ {0}
    PROVE  /\ HalfEven(a, b) \in Int
           /\ HalfEven(a, b) = (a \div b) + 1 <=>
                2 * (a % b) > b \/ (2 * (a % b) = b /\ (a \div b) % 2 = 1)
           /\ HalfEven(a, b) \in {a \div b, (a \div b) + 1}
  <1>1. a \div b \in Int
    BY Quotients
  <1>2. HalfEven(a, b) =
          IF 2 * (a % b) > b \/ (2 * (a % b) = b /\ (a \div b) % 2 = 1)
          THEN (a \div b) + 1 ELSE a \div b
    BY DEF HalfEven
  <1> QED
    BY <1>1, <1>2

\* Rounding to the nearest keeps the order, ties included.
LEMMA RoundedGrows ==
    ASSUME NEW a \in Int, NEW c \in Int, NEW b \in Nat \ {0}, a <= c
    PROVE  HalfEven(a, b) <= HalfEven(c, b)
  <1> DEFINE f == a \div b
             g == c \div b
             q == a % b
             r == c % b
  <1>1. /\ f \in Int /\ q \in 0..(b - 1) /\ a = b * f + q
        /\ g \in Int /\ r \in 0..(b - 1) /\ c = b * g + r /\ f <= g
    BY Quotients, QuotientGrows
  <1>2. /\ HalfEven(a, b) \in {f, f + 1}
        /\ HalfEven(a, b) = f + 1 <=> 2 * q > b \/ (2 * q = b /\ f % 2 = 1)
        /\ HalfEven(c, b) \in {g, g + 1}
        /\ HalfEven(c, b) = g + 1 <=> 2 * r > b \/ (2 * r = b /\ g % 2 = 1)
    BY RoundedIsNear
  <1>3. f = g => q <= r
    BY <1>1
  <1> HIDE DEF f, g, q, r
  <1>4. CASE f < g
    BY <1>1, <1>2, <1>4
  <1>5. CASE f = g
    BY <1>1, <1>2, <1>3, <1>5
  <1> QED
    BY <1>1, <1>4, <1>5

\* A whole number is rounded to itself.
LEMMA RoundedWhole ==
    ASSUME NEW n \in Int, NEW b \in Nat \ {0}
    PROVE  HalfEven(b * n, b) = n
  <1>1. (b * n) \div b = n /\ (b * n) % b = 0
    <2> DEFINE a == b * n
               f == a \div b
               q == a % b
    <2>1. a \in Int
      OBVIOUS
    <2>2. f \in Int /\ q \in 0..(b - 1) /\ a = b * f + q
      <3> HIDE DEF a
      <3> QED
        BY <2>1, Quotients
    <2>3. b * (n - f) = q
      BY <2>2
    <2>4. n = f
      <3> HIDE DEF f, q
      <3>1. CASE n > f
        <4>1. n - f \in Nat /\ 1 <= n - f
          BY <2>2, <3>1
        <4>2. 1 * b <= (n - f) * b
          BY <2>2, <4>1, ProductGrows
        <4> QED
          BY <2>2, <2>3, <4>2
      <3>2. CASE n < f
        <4>1. n - f \in Int /\ n - f <= -1
          BY <2>2, <3>2
        <4>2. (n - f) * b <= (-1) * b
          BY <2>2, <4>1, ProductGrows
        <4> QED
          BY <2>2, <2>3, <4>2
      <3> QED
        BY <2>2, <3>1, <3>2
    <2> QED
      BY <2>2, <2>3, <2>4
  <1> QED
    BY <1>1 DEF HalfEven

\* A rounded quotient is at most one half away.
LEMMA RoundedIsClose ==
    ASSUME NEW a \in Int, NEW b \in Nat \ {0}
    PROVE  /\ 2 * (b * HalfEven(a, b)) <= 2 * a + b
           /\ 2 * a - b <= 2 * (b * HalfEven(a, b))
  <1>1. PICK f \in Int, q \in 0..(b - 1) :
          f = a \div b /\ q = a % b /\ a = b * f + q
    BY Quotients
  <1>2. /\ HalfEven(a, b) \in {f, f + 1}
        /\ HalfEven(a, b) = f + 1 <=> 2 * q > b \/ (2 * q = b /\ f % 2 = 1)
    BY <1>1, RoundedIsNear
  <1>3. PICK x \in Int : x = b * f
    BY <1>1
  <1>4. b * (f + 1) = x + b
    BY <1>1, <1>3
  <1>5. CASE HalfEven(a, b) = f
    BY <1>1, <1>2, <1>3, <1>5
  <1>6. CASE HalfEven(a, b) = f + 1
    BY <1>1, <1>2, <1>3, <1>4, <1>6
  <1> QED
    BY <1>2, <1>5, <1>6

\* What is rounded of an amount that is not negative is not negative.
LEMMA RoundedNat ==
    ASSUME NEW a \in Nat, NEW b \in Nat \ {0}
    PROVE  HalfEven(a, b) \in Nat
  <1>1. HalfEven(b * 0, b) = 0
    BY RoundedWhole
  <1>2. b * 0 = 0
    OBVIOUS
  <1>3. HalfEven(0, b) <= HalfEven(a, b)
    BY RoundedGrows
  <1> QED
    BY <1>1, <1>2, <1>3, RoundedIsNear

-----------------------------------------------------------------------------
(***************************************************************************)
(* Proof that the ledger neither makes nor loses money, for every starting *)
(* cash, fee, price and quantity.                                          *)
(*                                                                         *)
(* The equations alone are not inductive: open_position leaves the         *)
(* unrealized result of the portfolio as it is, which is right only        *)
(* because nothing is open then.  The invariant adds that a portfolio      *)
(* without an open position carries no amount of one.  Prices and          *)
(* quantities enter through their rounded products only, of which the      *)
(* lemmas keep just the type, so that every step is linear arithmetic.     *)
(***************************************************************************)

NothingOpen ==
    portfolio.open.number = 0 =>
        /\ portfolio.unrealized = 0
        /\ portfolio.open.reserved = 0 /\ portfolio.open.entryFee = 0

\* Open positions are traded at what the ledger was asked for.
OpenTraded == portfolio.open.number # 0 => portfolio.open.quantity \in Quantity

LedgerInv == TypeOK /\ Reconciled /\ NothingOpen /\ OpenTraded

\* A product of naturals is one.
LEMMA ProductType == ASSUME NEW a \in Nat, NEW b \in Nat PROVE a * b \in Nat
  OBVIOUS

\* The gross result of a position at a price is a whole amount.
LEMMA GrossType ==
  ASSUME NEW p \in Positions, NEW price \in Nat
  PROVE  GrossPnl(p, price) \in Int
  <1>1. p.entry \in Nat /\ p.quantity \in Nat
    BY DEF Positions
  <1>2. Gain(p, price) \in Int
    <2>1. CASE p.side = "long"
      <3>1. Gain(p, price) = (price - p.entry) * p.quantity /\ price - p.entry \in Int
        BY <1>1, <2>1 DEF Gain
      <3>. QED
        BY <1>1, <3>1
    <2>2. CASE p.side # "long"
      <3>1. Gain(p, price) = (p.entry - price) * p.quantity /\ p.entry - price \in Int
        BY <1>1, <2>2 DEF Gain
      <3>. QED
        BY <1>1, <3>1
    <2>. QED
      BY <2>1, <2>2
  <1>. QED
    BY <1>2, RoundedIsNear, QuantumAssumption, Quotients DEF GrossPnl, Money

\* What an entry commits and what an exit costs are whole amounts.
LEMMA AmountTypes ==
  ASSUME NEW price \in Price, NEW quantity \in Quantity
  PROVE  /\ Notional(price, quantity) \in Nat /\ EntryFee(price, quantity) \in Nat
         /\ ExitFee(price, quantity) \in Nat
  <1>1. price * quantity \in Nat
    BY TradeAssumption, ProductType
  <1>2. HalfEven(price * quantity, Quantum) \in Nat
    <2>1. PICK product \in Nat : product = price * quantity
      BY <1>1
    <2>2. HalfEven(product, Quantum) \in Nat
      BY RoundedNat, QuantumAssumption
    <2>. QED
      BY <2>1, <2>2
  <1>3. /\ Fee(price * quantity) \in Nat
        /\ Fee(Quantum * HalfEven(price * quantity, Quantum)) \in Nat
    BY FeeAssumption
  <1>. QED
    BY <1>2, <1>3 DEF Notional, EntryFee, ExitFee, Money

\* Appending to a typed sequence keeps its type.
LEMMA AppendType == ASSUME NEW S, NEW s \in Seq(S), NEW x \in S PROVE Append(s, x) \in Seq(S)
  OBVIOUS

\* The first snapshot holds the starting cash.
LEMMA LedgerInvInit == Init => LedgerInv
  <1>. SUFFICES ASSUME Init PROVE LedgerInv
    OBVIOUS
  <1>1. portfolio = Created(0)
    BY DEF Init
  <1>2. NoPosition \in Positions
    BY DEF NoPosition, Positions, Side
  <1>3. TypeOK
    <2>1. [sequence |-> 1, type |-> "created", at |-> 0, equity |-> Starting, position |-> 0]
            \in Events
      BY StartingAssumption DEF Events, EventType
    <2>. QED
      BY <1>1, <1>2, <2>1, StartingAssumption DEF TypeOK, Created
  <1>4. Reconciled /\ NothingOpen /\ OpenTraded
    BY <1>1, StartingAssumption DEF Created, NoPosition, Reconciled, NothingOpen, OpenTraded
  <1>. QED
    BY <1>3, <1>4 DEF LedgerInv

\* open_position: what is committed leaves the cash and is still counted in the
\* equity, except for the fee.
LEMMA LedgerInvOpen == LedgerInv /\ OpenPosition => LedgerInv'
  <1>. SUFFICES ASSUME LedgerInv, OpenPosition PROVE LedgerInv'
    OBVIOUS
  <1>. USE DEF LedgerInv
  <1>1. PICK side \in Side, price \in Price, quantity \in Quantity, at \in Times(portfolio) :
          /\ CanOpen(portfolio, price, quantity, at)
          /\ portfolio' = Opened(portfolio, side, price, quantity, at)
    BY DEF OpenPosition
  <1>. DEFINE number == Len(portfolio.closed) + 1
              p == Position(number, side, price, quantity, at)
              e == Event(portfolio, "opened", at, portfolio.cash - (p.reserved + p.entryFee)
                                                  + p.reserved, number)
  <1>2. /\ portfolio.cash \in Int /\ portfolio.fees \in Int /\ portfolio.realized \in Int
        /\ portfolio.unrealized \in Int /\ portfolio.timeline \in Seq(Events)
        /\ portfolio.closed \in Seq(Exits) /\ portfolio.updated \in Nat
    BY DEF TypeOK
  <1>3. at \in Nat /\ number \in Nat \ {0}
    BY <1>2, BoundAssumption DEF Times
  <1>4. /\ price \in Nat /\ quantity \in Nat
        /\ Notional(price, quantity) \in Nat /\ EntryFee(price, quantity) \in Nat
    BY TradeAssumption, AmountTypes
  <1>5. /\ p \in Positions /\ p.number = number /\ p.quantity = quantity /\ p.unrealized = 0
        /\ p.reserved = Notional(price, quantity) /\ p.entryFee = EntryFee(price, quantity)
    BY <1>3, <1>4 DEF Position, Positions
  <1>6. e \in Events
    <2>1. portfolio.cash - (p.reserved + p.entryFee) + p.reserved \in Int
      <3>1. p.reserved \in Nat /\ p.entryFee \in Nat
        BY <1>4, <1>5
      <3>. QED
        BY <1>2, <3>1
    <2>2. Len(portfolio.timeline) + 1 \in Nat
      BY <1>2
    <2>. HIDE DEF p, number
    <2>. QED
      BY <1>3, <2>1, <2>2 DEF Event, Events, EventType
  <1>7. portfolio.open.number = 0 /\ Notional(price, quantity) + EntryFee(price, quantity) <= portfolio.cash
    BY <1>1 DEF CanOpen, IsOpen
  <1>8. portfolio' = [portfolio EXCEPT
                        !.updated = at, !.cash = portfolio.cash - (p.reserved + p.entryFee),
                        !.equity = portfolio.cash - (p.reserved + p.entryFee) + p.reserved,
                        !.fees = @ + p.entryFee, !.open = p, !.timeline = Append(@, e)]
    <2>. HIDE DEF LedgerInv
    <2>. QED
      BY <1>1, <1>5 DEF Opened
  <1>. HIDE DEF p, e, number
  <1>9. TypeOK'
    <2>1. Append(portfolio.timeline, e) \in Seq(Events)
      BY AppendType, <1>2, <1>3, <1>4, <1>5, <1>6, <1>8 DEF TypeOK
    <2>2. /\ portfolio.cash - (p.reserved + p.entryFee) \in Int
          /\ portfolio.cash - (p.reserved + p.entryFee) + p.reserved \in Int
          /\ portfolio.fees + p.entryFee \in Int
      <3>1. p.reserved \in Nat /\ p.entryFee \in Nat
        BY <1>4, <1>5
      <3>2. portfolio.cash \in Int /\ portfolio.fees \in Int
        BY <1>2
      <3>. HIDE DEF LedgerInv
      <3>. QED
        BY <3>1, <3>2
    <2>. QED
      BY <1>3, <1>5, <1>8, <2>1, <2>2 DEF TypeOK
  <1>10. Reconciled'
    <2>1. /\ portfolio'.cash = portfolio.cash - (p.reserved + p.entryFee)
          /\ portfolio'.equity = portfolio.cash - (p.reserved + p.entryFee) + p.reserved
          /\ portfolio'.open = p /\ portfolio'.realized = portfolio.realized
          /\ portfolio'.unrealized = portfolio.unrealized
      BY <1>8 DEF TypeOK
    <2>2. /\ portfolio.unrealized = 0 /\ portfolio.open.reserved = 0 /\ portfolio.open.entryFee = 0
          /\ portfolio.cash = Starting + portfolio.realized
      BY <1>2, <1>7, StartingAssumption DEF Reconciled, NothingOpen
    <2>3. p.reserved \in Nat /\ p.entryFee \in Nat /\ p.unrealized = 0
      BY <1>4, <1>5
    <2>4. p.reserved + p.entryFee <= portfolio.cash
      BY <1>5, <1>7
    <2>. QED
      BY <1>2, <2>1, <2>2, <2>3, <2>4, StartingAssumption DEF Reconciled
  <1>11. NothingOpen' /\ OpenTraded'
    BY <1>3, <1>5, <1>8 DEF NothingOpen, OpenTraded, TypeOK
  <1>. QED
    BY <1>9, <1>10, <1>11

\* mark_to_market: the equity follows the mark and the cash does not move.
LEMMA LedgerInvMark == LedgerInv /\ MarkToMarket => LedgerInv'
  <1>. SUFFICES ASSUME LedgerInv, MarkToMarket PROVE LedgerInv'
    OBVIOUS
  <1>. USE DEF LedgerInv
  <1>1. PICK price \in Price, at \in Times(portfolio) :
          CanMark(portfolio, at) /\ portfolio' = Marked(portfolio, price, at)
    BY DEF MarkToMarket
  <1>. DEFINE gross == GrossPnl(portfolio.open, price)
              p == [portfolio.open EXCEPT !.current = price, !.marked = at, !.unrealized = gross]
              e == Event(portfolio, "marked", at,
                         portfolio.cash + portfolio.open.reserved + gross, portfolio.open.number)
  <1>2. /\ portfolio.cash \in Int /\ portfolio.open \in Positions /\ portfolio.updated \in Nat
        /\ portfolio.timeline \in Seq(Events) /\ portfolio.realized \in Int
    BY DEF TypeOK
  <1>3. at \in Nat /\ price \in Nat
    BY <1>2, BoundAssumption, TradeAssumption DEF Times
  <1>4. gross \in Int
    BY <1>2, <1>3, GrossType
  <1>5. portfolio.open.reserved \in Nat /\ portfolio.open.entryFee \in Nat
        /\ portfolio.open.number \in Nat
    BY <1>2 DEF Positions
  <1>. HIDE DEF gross
  <1>6. /\ p \in Positions /\ p.reserved = portfolio.open.reserved /\ p.unrealized = gross
        /\ p.entryFee = portfolio.open.entryFee /\ p.number = portfolio.open.number
        /\ p.quantity = portfolio.open.quantity
    BY <1>2, <1>3, <1>4 DEF Positions
  <1>7. e \in Events
    <2>1. portfolio.cash + portfolio.open.reserved + gross \in Int
      BY <1>2, <1>4, <1>5
    <2>2. Len(portfolio.timeline) + 1 \in Nat
      BY <1>2
    <2>. QED
      BY <1>3, <1>5, <2>1, <2>2 DEF Event, Events, EventType
  <1>8. portfolio' = [portfolio EXCEPT
                        !.updated = at,
                        !.equity = portfolio.cash + portfolio.open.reserved + gross,
                        !.unrealized = gross, !.open = p, !.timeline = Append(@, e)]
    <2>. HIDE DEF LedgerInv
    <2>. QED
      BY <1>1, <1>6 DEF Marked, gross
  <1>9. portfolio.open.number # 0
    BY <1>1 DEF CanMark, IsOpen
  <1>. HIDE DEF p, e
  <1>10. TypeOK'
    <2>1. Append(portfolio.timeline, e) \in Seq(Events)
      BY AppendType, <1>2, <1>3, <1>4, <1>5, <1>6, <1>7, <1>8 DEF TypeOK
    <2>2. portfolio.cash + portfolio.open.reserved + gross \in Int
      BY <1>2, <1>4, <1>5
    <2>. QED
      BY <1>3, <1>4, <1>6, <1>8, <2>1, <2>2 DEF TypeOK
  <1>11. Reconciled'
    <2>1. /\ portfolio'.cash = portfolio.cash /\ portfolio'.realized = portfolio.realized
          /\ portfolio'.equity = portfolio.cash + portfolio.open.reserved + gross
          /\ portfolio'.open = p /\ portfolio'.unrealized = gross
      BY <1>8 DEF TypeOK
    <2>. QED
      BY <1>2, <1>4, <1>5, <1>6, <2>1, StartingAssumption DEF Reconciled
  <1>12. NothingOpen' /\ OpenTraded'
    BY <1>6, <1>8, <1>9 DEF NothingOpen, OpenTraded, TypeOK
  <1>. QED
    BY <1>10, <1>11, <1>12

\* What closing returns to the cash is what it adds to the realized result.
LEMMA CloseArithmetic ==
  ASSUME NEW start \in Int, NEW cash0 \in Int, NEW realized \in Int, NEW reserved \in Int,
         NEW entryFee \in Int, NEW gross \in Int, NEW fee \in Int,
         cash0 = start + realized - (reserved + entryFee)
  PROVE  cash0 + reserved + gross - fee = start + (realized + (gross - entryFee - fee))
  OBVIOUS

\* The amounts of a closed position are whole.
LEMMA CloseTypes ==
  ASSUME NEW cash0 \in Int, NEW reserved \in Int, NEW entryFee \in Int, NEW gross \in Int,
         NEW fee \in Int
  PROVE  gross - entryFee - fee \in Int /\ cash0 + reserved + gross - fee \in Int
  OBVIOUS

\* close_position: what was committed comes back with the gross result, less the
\* exit fee, and the realized result takes both fees.
LEMMA LedgerInvClose == LedgerInv /\ ClosePosition => LedgerInv'
  <1>. SUFFICES ASSUME LedgerInv, ClosePosition PROVE LedgerInv'
    OBVIOUS
  <1>. USE DEF LedgerInv
  <1>1. PICK price \in Price, at \in Times(portfolio) :
          CanClose(portfolio, price, at) /\ portfolio' = Closed(portfolio, price, at)
    BY DEF ClosePosition
  <1>. DEFINE gross == GrossPnl(portfolio.open, price)
              fee == ExitFee(price, portfolio.open.quantity)
              earned == gross - portfolio.open.entryFee - fee
              cash == portfolio.cash + portfolio.open.reserved + gross - fee
              x == [number |-> portfolio.open.number, side |-> portfolio.open.side,
                    quantity |-> portfolio.open.quantity, entry |-> portfolio.open.entry,
                    opened |-> portfolio.open.opened, entryFee |-> portfolio.open.entryFee,
                    exit |-> price, closed |-> at, exitFee |-> fee, gross |-> gross,
                    realized |-> earned]
              e == Event(portfolio, "closed", at, cash, portfolio.open.number)
  <1>2. /\ portfolio.cash \in Int /\ portfolio.open \in Positions /\ portfolio.updated \in Nat
        /\ portfolio.timeline \in Seq(Events) /\ portfolio.realized \in Int
        /\ portfolio.fees \in Int /\ portfolio.closed \in Seq(Exits)
    BY DEF TypeOK
  <1>3. at \in Nat /\ price \in Nat
    BY <1>2, BoundAssumption, TradeAssumption DEF Times
  <1>4. gross \in Int
    BY <1>2, <1>3, GrossType
  <1>5. portfolio.open.number # 0
    BY <1>1 DEF CanClose, CanMark, IsOpen
  <1>6. fee \in Nat
    BY <1>1, <1>5, AmountTypes DEF OpenTraded
  <1>7. /\ portfolio.open.number \in Nat /\ portfolio.open.side \in Side
        /\ portfolio.open.quantity \in Nat /\ portfolio.open.entry \in Nat
        /\ portfolio.open.opened \in Nat /\ portfolio.open.entryFee \in Nat
        /\ portfolio.open.reserved \in Nat
    BY <1>2 DEF Positions
  <1>8. portfolio' = [portfolio EXCEPT
                        !.updated = at, !.cash = cash, !.equity = cash, !.fees = portfolio.fees + fee,
                        !.realized = portfolio.realized + earned, !.unrealized = 0, !.open = NoPosition,
                        !.closed = Append(@, x), !.timeline = Append(@, e)]
    <2>. QED
      BY <1>1, <1>2 DEF Closed, CashAtClose
  <1>9. cash >= 0
    BY <1>1 DEF CanClose, CashAtClose
  <1>. HIDE DEF gross, fee
  <1>10. earned \in Int /\ cash \in Int
    <2>1. portfolio.cash \in Int
      BY <1>2
    <2>2. portfolio.open.reserved \in Int /\ portfolio.open.entryFee \in Int
      BY <1>7
    <2>3. fee \in Int
      BY <1>6
    <2>. QED
      BY <2>1, <2>2, <2>3, <1>4, CloseTypes
  <1>. HIDE DEF earned, cash
  <1>11. x \in Exits
    BY <1>3, <1>4, <1>6, <1>7, <1>10 DEF Exits
  <1>12. e \in Events
    <2>1. Len(portfolio.timeline) + 1 \in Nat
      BY <1>2
    <2>. QED
      BY <1>3, <1>7, <1>10, <2>1 DEF Event, Events, EventType
  <1>13. NoPosition \in Positions /\ NoPosition.number = 0
         /\ NoPosition.reserved = 0 /\ NoPosition.entryFee = 0
    BY DEF NoPosition, Positions, Side
  <1>. HIDE DEF x, e
  <1>14. TypeOK'
    <2>1. Append(portfolio.timeline, e) \in Seq(Events)
      BY AppendType, <1>2, <1>3, <1>6, <1>8, <1>10, <1>11, <1>12, <1>13 DEF TypeOK
    <2>2. Append(portfolio.closed, x) \in Seq(Exits)
      BY AppendType, <1>2, <1>3, <1>6, <1>8, <1>10, <1>11, <1>12, <1>13 DEF TypeOK
    <2>3. portfolio.fees + fee \in Int /\ portfolio.realized + earned \in Int
      BY <1>2, <1>6, <1>10
    <2>4. PICK none \in Int : none = 0
      OBVIOUS
    <2>5. portfolio' = [portfolio EXCEPT
                          !.updated = at, !.cash = cash, !.equity = cash,
                          !.fees = portfolio.fees + fee,
                          !.realized = portfolio.realized + earned, !.unrealized = none,
                          !.open = NoPosition, !.closed = Append(@, x),
                          !.timeline = Append(@, e)]
      BY <1>8, <2>4
    <2>. QED
      BY <1>3, <1>10, <1>13, <2>1, <2>2, <2>3, <2>5 DEF TypeOK
  <1>15. Reconciled'
    <2>1. /\ portfolio'.cash = cash /\ portfolio'.equity = cash
          /\ portfolio'.realized = portfolio.realized + earned
          /\ portfolio'.open = NoPosition /\ portfolio'.unrealized = 0
      BY <1>8 DEF TypeOK
    <2>2. cash = Starting + (portfolio.realized + earned)
      <3>1. portfolio.cash = Starting + portfolio.realized
                             - (portfolio.open.reserved + portfolio.open.entryFee)
        BY DEF Reconciled
      <3>2. cash = portfolio.cash + portfolio.open.reserved + gross - fee
        BY DEF cash
      <3>3. earned = gross - portfolio.open.entryFee - fee
        BY DEF earned
      <3>4. /\ Starting \in Int /\ portfolio.cash \in Int /\ portfolio.realized \in Int
            /\ portfolio.open.reserved \in Int /\ portfolio.open.entryFee \in Int
            /\ gross \in Int /\ fee \in Int
        BY <1>2, <1>4, <1>6, <1>7, StartingAssumption
      <3>5. portfolio.cash + portfolio.open.reserved + gross - fee
              = Starting + (portfolio.realized + (gross - portfolio.open.entryFee - fee))
        BY <3>1, <3>4, CloseArithmetic
      <3>. QED
        BY <3>2, <3>3, <3>5
    <2>. QED
      BY <1>2, <1>9, <1>10, <1>13, <2>1, <2>2, StartingAssumption DEF Reconciled
  <1>16. NothingOpen' /\ OpenTraded'
    BY <1>8, <1>13 DEF NothingOpen, OpenTraded, TypeOK
  <1>. QED
    BY <1>14, <1>15, <1>16

\* complete: only the status and the timeline move.
LEMMA LedgerInvComplete == LedgerInv /\ Complete => LedgerInv'
  <1>. SUFFICES ASSUME LedgerInv, Complete PROVE LedgerInv'
    OBVIOUS
  <1>. USE DEF LedgerInv
  <1>1. PICK at \in Times(portfolio) :
          CanComplete(portfolio, at) /\ portfolio' = Completed(portfolio, at)
    BY DEF Complete
  <1>. DEFINE e == Event(portfolio, "completed", at, portfolio.equity, 0)
  <1>2. at \in Nat
    BY BoundAssumption DEF Times, TypeOK
  <1>3. e \in Events
    <2>1. Len(portfolio.timeline) + 1 \in Nat /\ portfolio.equity \in Int
      BY DEF TypeOK
    <2>. QED
      BY <1>2, <2>1 DEF Event, Events, EventType
  <1>4. portfolio' = [portfolio EXCEPT !.status = "completed", !.updated = at,
                                       !.timeline = Append(@, e)]
    BY <1>1 DEF Completed
  <1>. HIDE DEF e
  <1>5. TypeOK'
    <2>1. Append(portfolio.timeline, e) \in Seq(Events)
      BY AppendType, <1>2, <1>3, <1>4 DEF TypeOK
    <2>. QED
      BY <1>2, <1>3, <1>4, <2>1 DEF TypeOK
  <1>6. /\ portfolio'.cash = portfolio.cash /\ portfolio'.equity = portfolio.equity
        /\ portfolio'.realized = portfolio.realized /\ portfolio'.open = portfolio.open
        /\ portfolio'.unrealized = portfolio.unrealized
    BY <1>4 DEF TypeOK
  <1>7. Reconciled' /\ NothingOpen' /\ OpenTraded'
    BY <1>6 DEF Reconciled, NothingOpen, OpenTraded
  <1>. QED
    BY <1>5, <1>7

\* The invariant is kept by every step of the ledger.
LEMMA LedgerInvStep == LedgerInv /\ [Next]_portfolio => LedgerInv'
  <1>. SUFFICES ASSUME LedgerInv, [Next]_portfolio PROVE LedgerInv'
    OBVIOUS
  <1>1. CASE UNCHANGED portfolio
    BY <1>1 DEF LedgerInv, TypeOK, Reconciled, NothingOpen, OpenTraded
  <1>2. CASE Next
    BY <1>2, LedgerInvOpen, LedgerInvMark, LedgerInvClose, LedgerInvComplete DEF Next
  <1>. QED
    BY <1>1, <1>2

\* Whatever the ledger is asked to do, in any order and at any price, cash and
\* equity stay what the trades account for, and the cash never turns negative
\* (validate_accounting of SimulatedPortfolio).
THEOREM MoneyConserved == Spec => []Reconciled
  <1>1. LedgerInv => Reconciled
    BY DEF LedgerInv
  <1>. QED
    BY <1>1, LedgerInvInit, LedgerInvStep, PTL DEF Spec

\* Every snapshot has the fields the validators of the ledger read.
THEOREM LedgerTyped == Spec => []TypeOK
  <1>1. LedgerInv => TypeOK
    BY DEF LedgerInv
  <1>. QED
    BY <1>1, LedgerInvInit, LedgerInvStep, PTL DEF Spec

-----------------------------------------------------------------------------
(***************************************************************************)
(* Proof that every snapshot of the ledger passes its validators.          *)
(*                                                                         *)
(* They add fees and results up anew over all closed positions.  That is a *)
(* recursive function, so that its sums exist and that two of them agree   *)
(* are proved here by the least number for which they would not.  From then *)
(* on all that counts is that one more position adds its own amount.       *)
(***************************************************************************)

\* f holds the sums of the first terms of t, for every number of them up to n.
SumsUp(f, t, n) ==
    /\ f[0] = 0
    /\ \A i \in 1..n : f[i] = f[i - 1] + t[i]

\* A set of numbers has a least one.
LEMMA LeastNumber ==
  ASSUME NEW S \in SUBSET Nat, S # {}
  PROVE  \E m \in S : \A k \in S : ~(k < m)
  <1>1. PICK m \in S : \A k \in S : ~(<<k, m>> \in OpToRel(<, Nat))
    BY NatLessThanWellFounded, WFMin
  <1>. QED
    BY <1>1 DEF OpToRel

\* Every sequence of whole numbers has its sums.
LEMMA SumsExist ==
  ASSUME NEW n \in Nat, NEW t \in [1..n -> Int]
  PROVE  \E f \in [0..n -> Int] : SumsUp(f, t, n)
  <1>. DEFINE Missing == {m \in 0..n : ~ \E f \in [0..m -> Int] : SumsUp(f, t, m)}
  <1>1. SUFFICES ASSUME Missing # {} PROVE FALSE
    <2>1. n \in 0..n
      OBVIOUS
    <2>. QED
      BY <2>1
  <1>2. PICK m \in Missing : \A k \in Missing : ~(k < m)
    <2>1. Missing \in SUBSET Nat
      OBVIOUS
    <2>. HIDE DEF Missing
    <2>. QED
      BY <1>1, <2>1, LeastNumber
  <1>4. m \in 0..n /\ ~ \E f \in [0..m -> Int] : SumsUp(f, t, m)
    OBVIOUS
  <1>5. m # 0
    <2>1. [i \in 0..0 |-> 0] \in [0..0 -> Int] /\ SumsUp([i \in 0..0 |-> 0], t, 0)
      BY DEF SumsUp
    <2>. QED
      BY <1>4, <2>1
  <1>6. PICK f \in [0..(m - 1) -> Int] : SumsUp(f, t, m - 1)
    <2>1. m - 1 \in 0..n /\ m - 1 < m
      BY <1>4, <1>5
    <2>2. m - 1 \notin Missing
      BY <1>2, <2>1
    <2>. QED
      BY <2>1, <2>2
  <1>. DEFINE g == [i \in 0..m |-> IF i = m THEN f[m - 1] + t[m] ELSE f[i]]
  <1>7. g \in [0..m -> Int] /\ SumsUp(g, t, m)
    <2>1. \A i \in 0..(m - 1) : f[i] \in Int
      BY <1>4, <1>6 DEF SumsUp
    <2>2. t[m] \in Int /\ m - 1 \in 0..(m - 1)
      BY <1>4, <1>5
    <2>3. f[m - 1] + t[m] \in Int
      BY <2>1, <2>2
    <2>4. g \in [0..m -> Int]
      <3>1. \A i \in 0..m : i # m => i \in 0..(m - 1)
        BY <1>4
      <3>. QED
        BY <2>1, <2>3, <3>1
    <2>5. g[0] = 0
      BY <1>4, <1>5, <1>6 DEF SumsUp
    <2>6. ASSUME NEW i \in 1..m PROVE g[i] = g[i - 1] + t[i]
      <3>1. CASE i = m
        BY <1>4, <1>5, <3>1
      <3>2. CASE i # m
        BY <1>4, <1>6, <3>2 DEF SumsUp
      <3>. QED
        BY <3>1, <3>2
    <2>. QED
      BY <2>4, <2>5, <2>6 DEF SumsUp
  <1>. QED
    BY <1>4, <1>7

\* Sequences with the same first terms have the same first sums.
LEMMA SumsAgree ==
  ASSUME NEW n \in Nat, NEW f, NEW g, NEW t, NEW u,
         SumsUp(f, t, n), SumsUp(g, u, n), \A i \in 1..n : t[i] = u[i]
  PROVE  \A i \in 0..n : f[i] = g[i]
  <1>. DEFINE Different == {i \in 0..n : f[i] # g[i]}
  <1>1. SUFFICES ASSUME Different # {} PROVE FALSE
    BY <1>1
  <1>2. PICK m \in Different : \A k \in Different : ~(k < m)
    <2>1. Different \in SUBSET Nat
      OBVIOUS
    <2>. HIDE DEF Different
    <2>. QED
      BY <1>1, <2>1, LeastNumber
  <1>4. m \in 0..n /\ f[m] # g[m]
    OBVIOUS
  <1>5. m \in 1..n /\ m - 1 \in 0..n
    BY <1>4 DEF SumsUp
  <1>6. f[m - 1] = g[m - 1]
    BY <1>2, <1>5
  <1>7. f[m] = f[m - 1] + t[m] /\ g[m] = g[m - 1] + u[m] /\ t[m] = u[m]
    BY <1>5 DEF SumsUp
  <1>. QED
    BY <1>4, <1>6, <1>7

\* Total adds up a field of a sequence of records.
LEMMA TotalIsSum ==
  ASSUME NEW items, NEW field, Len(items) \in Nat,
         \A i \in 1..Len(items) : items[i][field] \in Int
  PROVE  \E f : /\ SumsUp(f, [i \in 1..Len(items) |-> items[i][field]], Len(items))
                /\ Total(items, field) = f[Len(items)]
  <1>. DEFINE n == Len(items)
              t == [i \in 1..n |-> items[i][field]]
              Equation(g) == g = [i \in 0..n |-> IF i = 0 THEN 0 ELSE g[i - 1] + items[i][field]]
  <1>1. PICK f \in [0..n -> Int] : SumsUp(f, t, n)
    BY SumsExist
  <1>2. Equation(f)
    <2>1. f \in [0..n -> Int]
      BY <1>1
    <2>2. ASSUME NEW i \in 0..n
          PROVE  f[i] = IF i = 0 THEN 0 ELSE f[i - 1] + items[i][field]
      BY <1>1 DEF SumsUp
    <2>. QED
      BY <2>1, <2>2
  <1>. DEFINE sum == CHOOSE g : Equation(g)
  <1>3. Equation(sum)
    BY <1>2
  <1>4. SumsUp(sum, t, n)
    <2>1. \A i \in 0..n : sum[i] = IF i = 0 THEN 0 ELSE sum[i - 1] + items[i][field]
      BY <1>3
    <2>. HIDE DEF sum
    <2>2. sum[0] = 0 /\ \A i \in 1..n : sum[i] = sum[i - 1] + t[i]
      BY <2>1
    <2>. QED
      BY <2>2 DEF SumsUp
  <1>5. Total(items, field) = sum[n]
    BY DEF Total
  <1>. QED
    BY <1>4, <1>5

\* Nothing adds up to nothing.
LEMMA TotalOfNone == ASSUME NEW field PROVE Total(<< >>, field) = 0
  <1>1. Len(<< >>) = 0 /\ \A i \in 1..0 : << >>[i][field] \in Int
    OBVIOUS
  <1>2. PICK f : /\ SumsUp(f, [i \in 1..0 |-> << >>[i][field]], 0)
                 /\ Total(<< >>, field) = f[0]
    BY <1>1, TotalIsSum
  <1>. QED
    BY <1>2 DEF SumsUp

\* One more record adds its own amount.
LEMMA TotalOfLonger ==
  ASSUME NEW S, NEW items \in Seq(S), NEW x \in S, NEW field, \A y \in S : y[field] \in Int
  PROVE  Total(Append(items, x), field) = Total(items, field) + x[field]
  <1>. DEFINE n == Len(items)
              longer == Append(items, x)
              t == [i \in 1..n |-> items[i][field]]
              u == [i \in 1..(n + 1) |-> longer[i][field]]
  <1>1. /\ n \in Nat /\ Len(longer) = n + 1 /\ longer[n + 1] = x
        /\ \A i \in 1..n : items[i] \in S /\ longer[i] = items[i]
    OBVIOUS
  <1>. HIDE DEF longer
  <1>2. PICK f : SumsUp(f, t, n) /\ Total(items, field) = f[n]
    BY <1>1, TotalIsSum
  <1>3. PICK g : SumsUp(g, u, n + 1) /\ Total(longer, field) = g[n + 1]
    <2>1. \A i \in 1..(n + 1) : longer[i][field] \in Int
      <3>1. \A i \in 1..(n + 1) : i \in 1..n \/ i = n + 1
        BY <1>1
      <3>. QED
        BY <1>1, <3>1
    <2>2. \E g : /\ SumsUp(g, [i \in 1..Len(longer) |-> longer[i][field]], Len(longer))
                 /\ Total(longer, field) = g[Len(longer)]
      <3>1. Len(longer) \in Nat /\ \A i \in 1..Len(longer) : longer[i][field] \in Int
        BY <1>1, <2>1
      <3>. QED
        BY <3>1, TotalIsSum
    <2>. QED
      BY <1>1, <2>2
  <1>4. SumsUp(g, u, n)
    BY <1>1, <1>3 DEF SumsUp
  <1>5. \A i \in 1..n : t[i] = u[i]
    BY <1>1
  <1>6. g[n + 1] = g[n] + x[field]
    BY <1>1, <1>3 DEF SumsUp
  <1>7. f[n] = g[n]
    <2>. HIDE DEF t, u
    <2>1. \A i \in 0..n : f[i] = g[i]
      BY <1>1, <1>2, <1>4, <1>5, SumsAgree
    <2>. QED
      BY <1>1, <2>1
  <1>. QED
    BY <1>2, <1>3, <1>6, <1>7 DEF longer

\* Records with a whole amount have a whole total.
LEMMA TotalType ==
  ASSUME NEW S, NEW items \in Seq(S), NEW field, \A y \in S : y[field] \in Int
  PROVE  Total(items, field) \in Int
  <1>. DEFINE n == Len(items)
              t == [i \in 1..n |-> items[i][field]]
  <1>1. n \in Nat /\ \A i \in 1..n : items[i] \in S
    OBVIOUS
  <1>2. PICK f : SumsUp(f, t, n) /\ Total(items, field) = f[n]
    BY <1>1, TotalIsSum
  <1>3. t \in [1..n -> Int]
    BY <1>1
  <1>. HIDE DEF t, n
  <1>4. PICK g \in [0..n -> Int] : SumsUp(g, t, n)
    BY <1>1, <1>3, SumsExist
  <1>5. \A i \in 1..n : t[i] = t[i]
    OBVIOUS
  <1>6. \A i \in 0..n : f[i] = g[i]
    BY <1>1, <1>2, <1>4, <1>5, SumsAgree
  <1>. QED
    BY <1>1, <1>2, <1>4, <1>6

\* The totals of the exits.
LEMMA ExitTotals ==
  ASSUME NEW items \in Seq(Exits)
  PROVE  /\ Total(items, "entryFee") \in Int /\ Total(items, "exitFee") \in Int
         /\ Total(items, "realized") \in Int
  <1>1. \A y \in Exits : y["entryFee"] \in Int /\ y["exitFee"] \in Int /\ y["realized"] \in Int
    BY DEF Exits
  <1>. QED
    BY <1>1, TotalType

\* The totals after one more exit.
LEMMA ExitAdds ==
  ASSUME NEW items \in Seq(Exits), NEW x \in Exits
  PROVE  /\ Total(Append(items, x), "entryFee") = Total(items, "entryFee") + x.entryFee
         /\ Total(Append(items, x), "exitFee") = Total(items, "exitFee") + x.exitFee
         /\ Total(Append(items, x), "realized") = Total(items, "realized") + x.realized
  <1>1. \A y \in Exits : y["entryFee"] \in Int /\ y["exitFee"] \in Int /\ y["realized"] \in Int
    BY DEF Exits
  <1>. QED
    BY <1>1, TotalOfLonger

-----------------------------------------------------------------------------
(* Proof that every snapshot passes its validators. *)

TimelineSound(f) == f.timeline # << >> /\ TimelineValid(f)

\* What the validators demand of the positions, and that no mark is of later.
PositionsSound ==
    /\ portfolio.updated >= portfolio.created /\ portfolio.fees >= 0
    /\ IsOpen(portfolio) =>
        /\ PositionValid(portfolio.open)
        /\ portfolio.open.number = Len(portfolio.closed) + 1
        /\ portfolio.open.marked <= portfolio.updated
        /\ portfolio.status = "active"
    /\ \A i \in 1..Len(portfolio.closed) :
        ExitValid(portfolio.closed[i]) /\ portfolio.closed[i].number = i

\* What the validators add up.
AmountsSound ==
    /\ portfolio.fees = Total(portfolio.closed, "entryFee") + Total(portfolio.closed, "exitFee")
                        + portfolio.open.entryFee
    /\ portfolio.realized = Total(portfolio.closed, "realized")
    /\ portfolio.unrealized = portfolio.open.unrealized

SnapshotInv == LedgerInv /\ TimelineSound(portfolio) /\ PositionsSound /\ AmountsSound

\* One more event, of the portfolio as it then is, keeps the timeline valid.
LEMMA TimelineGrows ==
  ASSUME NEW f, NEW g, NEW e \in Events, f.timeline \in Seq(Events), TimelineSound(f),
         g.timeline = Append(f.timeline, e), e.sequence = Len(f.timeline) + 1,
         (e.position # 0) = (e.type \in {"opened", "marked", "closed"}),
         e.at = g.updated, e.equity = g.equity,
         (g.status = "completed") = (e.type = "completed")
  PROVE  TimelineSound(g)
  <1>. DEFINE n == Len(f.timeline)
  <1>1. n \in Nat \ {0}
    BY DEF TimelineSound
  <1>2. /\ g.timeline # << >> /\ Len(g.timeline) = n + 1 /\ g.timeline[n + 1] = e
        /\ \A i \in 1..n : g.timeline[i] = f.timeline[i]
    OBVIOUS
  <1>3. \A i \in 1..(n + 1) : i \in 1..n \/ i = n + 1
    BY <1>1
  <1>4. /\ f.timeline[1].type = "created"
        /\ \A i \in 1..n : f.timeline[i].sequence = i
        /\ \A i \in 1..n :
            (f.timeline[i].position # 0) = (f.timeline[i].type \in {"opened", "marked", "closed"})
    BY DEF TimelineSound, TimelineValid
  <1>. HIDE DEF n
  <1>5. g.timeline[1].type = "created"
    BY <1>1, <1>2, <1>4
  <1>6. \A i \in 1..(n + 1) : g.timeline[i].sequence = i
    BY <1>2, <1>3, <1>4 DEF n
  <1>7. \A i \in 1..(n + 1) :
            (g.timeline[i].position # 0) = (g.timeline[i].type \in {"opened", "marked", "closed"})
    BY <1>2, <1>3, <1>4
  <1>. QED
    BY <1>2, <1>5, <1>6, <1>7 DEF TimelineSound, TimelineValid

\* The first snapshot passes.
LEMMA SnapshotInvInit == Init => SnapshotInv
  <1>. SUFFICES ASSUME Init PROVE SnapshotInv
    OBVIOUS
  <1>1. portfolio = Created(0)
    BY DEF Init
  <1>2. LedgerInv
    BY LedgerInvInit
  <1>3. TimelineSound(portfolio)
    BY <1>1 DEF TimelineSound, TimelineValid, Created
  <1>4. PositionsSound
    BY <1>1 DEF PositionsSound, Created, NoPosition, IsOpen
  <1>5. AmountsSound
    <2>1. /\ portfolio.closed = << >> /\ portfolio.fees = 0 /\ portfolio.realized = 0
          /\ portfolio.unrealized = 0
          /\ portfolio.open.entryFee = 0 /\ portfolio.open.unrealized = 0
      BY <1>1 DEF Created, NoPosition
    <2>2. /\ Total(<< >>, "entryFee") = 0 /\ Total(<< >>, "exitFee") = 0
          /\ Total(<< >>, "realized") = 0
      BY TotalOfNone
    <2>. QED
      BY <2>1, <2>2 DEF AmountsSound
  <1>. QED
    BY <1>2, <1>3, <1>4, <1>5 DEF SnapshotInv

\* open_position: the new position is valid and its fee is counted.
LEMMA SnapshotInvOpen == SnapshotInv /\ OpenPosition => SnapshotInv'
  <1>. SUFFICES ASSUME SnapshotInv, OpenPosition PROVE SnapshotInv'
    OBVIOUS
  <1>0. LedgerInv /\ LedgerInv'
    BY LedgerInvOpen DEF SnapshotInv
  <1>1. PICK side \in Side, price \in Price, quantity \in Quantity, at \in Times(portfolio) :
          /\ CanOpen(portfolio, price, quantity, at)
          /\ portfolio' = Opened(portfolio, side, price, quantity, at)
    BY DEF OpenPosition
  <1>. DEFINE number == Len(portfolio.closed) + 1
              p == Position(number, side, price, quantity, at)
              equity == portfolio.cash - (p.reserved + p.entryFee) + p.reserved
              e == Event(portfolio, "opened", at, equity, number)
  <1>2. /\ portfolio.cash \in Int /\ portfolio.fees \in Int /\ portfolio.timeline \in Seq(Events)
        /\ portfolio.closed \in Seq(Exits) /\ portfolio.updated \in Nat /\ portfolio.created \in Nat
    BY <1>0 DEF LedgerInv, TypeOK
  <1>3. /\ at \in Nat /\ at > portfolio.updated /\ number \in Nat \ {0}
        /\ portfolio.open.number = 0 /\ portfolio.status = "active"
    BY <1>1, <1>2, BoundAssumption DEF Times, CanOpen, IsOpen
  <1>4. /\ price \in Nat \ {0} /\ quantity \in Nat \ {0}
        /\ Notional(price, quantity) \in Nat /\ EntryFee(price, quantity) \in Nat
    BY TradeAssumption, AmountTypes
  <1>5. Notional(price, quantity) > 0
    BY <1>1 DEF CanOpen
  <1>6. /\ p.number = number /\ p.quantity = quantity /\ p.entry = price /\ p.opened = at
        /\ p.current = price /\ p.marked = at /\ p.unrealized = 0 /\ p.side = side
        /\ p.reserved = Notional(price, quantity) /\ p.entryFee = EntryFee(price, quantity)
    BY DEF Position
  <1>7. /\ portfolio'.updated = at /\ portfolio'.equity = equity
        /\ portfolio'.fees = portfolio.fees + p.entryFee /\ portfolio'.open = p
        /\ portfolio'.timeline = Append(portfolio.timeline, e)
        /\ portfolio'.closed = portfolio.closed /\ portfolio'.realized = portfolio.realized
        /\ portfolio'.unrealized = portfolio.unrealized /\ portfolio'.status = portfolio.status
        /\ portfolio'.created = portfolio.created
    <2>. HIDE DEF number
    <2>1. portfolio' = [portfolio EXCEPT
                          !.updated = at, !.cash = portfolio.cash - (p.reserved + p.entryFee),
                          !.equity = equity, !.fees = @ + p.entryFee, !.open = p,
                          !.timeline = Append(@, e)]
      BY <1>1, <1>6 DEF Opened, number
    <2>. HIDE DEF p, e, equity
    <2>. QED
      BY <1>0, <2>1 DEF LedgerInv, TypeOK
  <1>8. GrossPnl(p, price) = 0
    <2>1. 0 * quantity = 0
      BY <1>4
    <2>2. price - price = 0
      BY <1>4
    <2>. HIDE DEF p
    <2>3. Gain(p, price) = 0
      BY <1>6, <2>1, <2>2 DEF Gain
    <2>4. Quantum * 0 = 0
      BY QuantumAssumption
    <2>5. HalfEven(0, Quantum) = 0
      BY <2>4, RoundedWhole, QuantumAssumption
    <2>. QED
      BY <2>3, <2>5 DEF GrossPnl, Money
  <1>9. TimelineSound(portfolio')
    <2>1. e \in Events
      <3>1. equity \in Int
        <4>1. p.reserved \in Int /\ p.entryFee \in Int
          BY <1>4, <1>6
        <4>. HIDE DEF p
        <4>. QED
          BY <1>2, <4>1
      <3>2. Len(portfolio.timeline) + 1 \in Nat
        BY <1>2
      <3>. HIDE DEF equity, number
      <3>. QED
        BY <1>3, <3>1, <3>2 DEF Event, Events, EventType
    <2>2. /\ e.sequence = Len(portfolio.timeline) + 1 /\ e.position = number
          /\ e.type = "opened" /\ e.at = at /\ e.equity = equity
      BY DEF Event
    <2>3. TimelineSound(portfolio)
      BY DEF SnapshotInv
    <2>. HIDE DEF e, number, equity
    <2>4. (e.position # 0) = (e.type \in {"opened", "marked", "closed"})
      BY <1>3, <2>2
    <2>5. (portfolio'.status = "completed") = (e.type = "completed")
      BY <1>3, <1>7, <2>2
    <2>. QED
      BY <1>2, <1>7, <2>1, <2>2, <2>3, <2>4, <2>5, TimelineGrows
  <1>. HIDE DEF p, e, equity
  <1>10. PositionsSound'
    <2>1. PositionValid(p)
      BY <1>3, <1>4, <1>5, <1>6, <1>8 DEF PositionValid
    <2>2. /\ portfolio.updated >= portfolio.created /\ portfolio.fees >= 0
          /\ \A i \in 1..Len(portfolio.closed) :
                ExitValid(portfolio.closed[i]) /\ portfolio.closed[i].number = i
      BY DEF SnapshotInv, PositionsSound
    <2>3. portfolio'.updated >= portfolio'.created /\ portfolio'.fees >= 0
      <3>1. p.entryFee \in Nat
        BY <1>4, <1>6
      <3>2. portfolio.fees + p.entryFee >= 0
        BY <1>2, <2>2, <3>1
      <3>3. at >= portfolio.created
        BY <1>2, <1>3, <2>2
      <3>. QED
        BY <1>7, <3>2, <3>3
    <2>4. p.marked <= portfolio'.updated
      BY <1>3, <1>6, <1>7
    <2>. QED
      BY <1>3, <1>6, <1>7, <2>1, <2>2, <2>3, <2>4 DEF PositionsSound
  <1>11. AmountsSound'
    <2>1. /\ portfolio.fees = Total(portfolio.closed, "entryFee")
                              + Total(portfolio.closed, "exitFee")
          /\ portfolio.realized = Total(portfolio.closed, "realized")
          /\ portfolio.unrealized = 0
      <3>1. portfolio.open.entryFee = 0 /\ portfolio.unrealized = 0
        BY <1>0, <1>3 DEF LedgerInv, NothingOpen
      <3>2. Total(portfolio.closed, "entryFee") \in Int /\ Total(portfolio.closed, "exitFee") \in Int
        BY <1>2, ExitTotals
      <3>. QED
        BY <3>1, <3>2 DEF SnapshotInv, AmountsSound
    <2>. QED
      BY <1>6, <1>7, <2>1 DEF AmountsSound
  <1>. QED
    BY <1>0, <1>9, <1>10, <1>11 DEF SnapshotInv

\* mark_to_market: the position and the portfolio get the same unrealized result.
LEMMA SnapshotInvMark == SnapshotInv /\ MarkToMarket => SnapshotInv'
  <1>. SUFFICES ASSUME SnapshotInv, MarkToMarket PROVE SnapshotInv'
    OBVIOUS
  <1>0. LedgerInv /\ LedgerInv'
    BY LedgerInvMark DEF SnapshotInv
  <1>1. PICK price \in Price, at \in Times(portfolio) :
          CanMark(portfolio, at) /\ portfolio' = Marked(portfolio, price, at)
    BY DEF MarkToMarket
  <1>. DEFINE gross == GrossPnl(portfolio.open, price)
              p == [portfolio.open EXCEPT !.current = price, !.marked = at, !.unrealized = gross]
              equity == portfolio.cash + portfolio.open.reserved + gross
              e == Event(portfolio, "marked", at, equity, portfolio.open.number)
  <1>2. /\ portfolio.cash \in Int /\ portfolio.fees \in Int /\ portfolio.timeline \in Seq(Events)
        /\ portfolio.closed \in Seq(Exits) /\ portfolio.updated \in Nat /\ portfolio.created \in Nat
        /\ portfolio.open \in Positions
    BY <1>0 DEF LedgerInv, TypeOK
  <1>3. /\ at \in Nat /\ at > portfolio.updated /\ price \in Nat \ {0}
        /\ portfolio.open.number # 0 /\ portfolio.status = "active"
    BY <1>1, <1>2, BoundAssumption, TradeAssumption DEF Times, CanMark, IsOpen
  <1>4. /\ portfolio.open.number \in Nat /\ portfolio.open.opened \in Nat
        /\ portfolio.open.marked \in Nat /\ portfolio.open.reserved \in Nat
    BY <1>2 DEF Positions
  <1>5. gross \in Int
    BY <1>2, <1>3, GrossType
  <1>6. /\ p.number = portfolio.open.number /\ p.quantity = portfolio.open.quantity
        /\ p.entry = portfolio.open.entry /\ p.opened = portfolio.open.opened
        /\ p.current = price /\ p.marked = at /\ p.unrealized = gross
        /\ p.side = portfolio.open.side /\ p.reserved = portfolio.open.reserved
        /\ p.entryFee = portfolio.open.entryFee
    <2>. HIDE DEF gross
    <2>. QED
      BY <1>2 DEF Positions
  <1>7. GrossPnl(p, price) = gross
    <2>. HIDE DEF p
    <2>. QED
      BY <1>6 DEF GrossPnl, Gain
  <1>8. /\ portfolio'.updated = at /\ portfolio'.equity = equity
        /\ portfolio'.fees = portfolio.fees /\ portfolio'.open = p
        /\ portfolio'.timeline = Append(portfolio.timeline, e)
        /\ portfolio'.closed = portfolio.closed /\ portfolio'.realized = portfolio.realized
        /\ portfolio'.unrealized = gross /\ portfolio'.status = portfolio.status
        /\ portfolio'.created = portfolio.created
    <2>1. portfolio' = [portfolio EXCEPT
                          !.updated = at, !.equity = equity, !.unrealized = gross,
                          !.open = p, !.timeline = Append(@, e)]
      BY <1>1 DEF Marked
    <2>. HIDE DEF p, e, equity, gross
    <2>. QED
      BY <1>0, <2>1 DEF LedgerInv, TypeOK
  <1>9. TimelineSound(portfolio')
    <2>1. e \in Events
      <3>1. equity \in Int
        <4>. HIDE DEF gross
        <4>. QED
          BY <1>2, <1>4, <1>5
      <3>2. Len(portfolio.timeline) + 1 \in Nat
        BY <1>2
      <3>. HIDE DEF equity
      <3>. QED
        BY <1>3, <1>4, <3>1, <3>2 DEF Event, Events, EventType
    <2>2. /\ e.sequence = Len(portfolio.timeline) + 1 /\ e.position = portfolio.open.number
          /\ e.type = "marked" /\ e.at = at /\ e.equity = equity
      BY DEF Event
    <2>3. TimelineSound(portfolio)
      BY DEF SnapshotInv
    <2>. HIDE DEF e, equity, p, gross
    <2>4. (e.position # 0) = (e.type \in {"opened", "marked", "closed"})
      BY <1>3, <2>2
    <2>5. (portfolio'.status = "completed") = (e.type = "completed")
      BY <1>3, <1>8, <2>2
    <2>. QED
      BY <1>2, <1>8, <2>1, <2>2, <2>3, <2>4, <2>5, TimelineGrows
  <1>. HIDE DEF p, e, equity, gross
  <1>10. PositionsSound'
    <2>1. /\ portfolio.updated >= portfolio.created /\ portfolio.fees >= 0
          /\ PositionValid(portfolio.open)
          /\ portfolio.open.number = Len(portfolio.closed) + 1
          /\ portfolio.open.marked <= portfolio.updated
          /\ \A i \in 1..Len(portfolio.closed) :
                ExitValid(portfolio.closed[i]) /\ portfolio.closed[i].number = i
      BY <1>3 DEF SnapshotInv, PositionsSound, IsOpen
    <2>2. at >= portfolio.open.opened
      <3>1. portfolio.open.marked >= portfolio.open.opened
        BY <2>1 DEF PositionValid
      <3>. QED
        BY <1>2, <1>3, <1>4, <2>1, <3>1
    <2>3. PositionValid(p)
      BY <1>3, <1>6, <1>7, <2>1, <2>2 DEF PositionValid
    <2>4. portfolio'.updated >= portfolio'.created /\ portfolio'.fees >= 0
      BY <1>2, <1>3, <1>8, <2>1
    <2>5. p.marked <= portfolio'.updated
      BY <1>3, <1>6, <1>8
    <2>. QED
      BY <1>3, <1>6, <1>8, <2>1, <2>3, <2>4, <2>5 DEF PositionsSound
  <1>11. AmountsSound'
    BY <1>6, <1>8 DEF SnapshotInv, AmountsSound
  <1>. QED
    BY <1>0, <1>9, <1>10, <1>11 DEF SnapshotInv

\* close_position: the exit is valid, comes next in order, and the amounts of the
\* portfolio take over those of the position it ends.
LEMMA SnapshotInvClose == SnapshotInv /\ ClosePosition => SnapshotInv'
  <1>. SUFFICES ASSUME SnapshotInv, ClosePosition PROVE SnapshotInv'
    OBVIOUS
  <1>0. LedgerInv /\ LedgerInv'
    BY LedgerInvClose DEF SnapshotInv
  <1>1. PICK price \in Price, at \in Times(portfolio) :
          CanClose(portfolio, price, at) /\ portfolio' = Closed(portfolio, price, at)
    BY DEF ClosePosition
  <1>. DEFINE gross == GrossPnl(portfolio.open, price)
              fee == ExitFee(price, portfolio.open.quantity)
              earned == gross - portfolio.open.entryFee - fee
              cash == portfolio.cash + portfolio.open.reserved + gross - fee
              x == [number |-> portfolio.open.number, side |-> portfolio.open.side,
                    quantity |-> portfolio.open.quantity, entry |-> portfolio.open.entry,
                    opened |-> portfolio.open.opened, entryFee |-> portfolio.open.entryFee,
                    exit |-> price, closed |-> at, exitFee |-> fee, gross |-> gross,
                    realized |-> earned]
              e == Event(portfolio, "closed", at, cash, portfolio.open.number)
  <1>2. /\ portfolio.cash \in Int /\ portfolio.fees \in Int /\ portfolio.timeline \in Seq(Events)
        /\ portfolio.closed \in Seq(Exits) /\ portfolio.updated \in Nat /\ portfolio.created \in Nat
        /\ portfolio.open \in Positions /\ portfolio.realized \in Int
    BY <1>0 DEF LedgerInv, TypeOK
  <1>3. /\ at \in Nat /\ at > portfolio.updated /\ price \in Nat \ {0}
        /\ portfolio.open.number # 0 /\ portfolio.status = "active"
    BY <1>1, <1>2, BoundAssumption, TradeAssumption DEF Times, CanClose, CanMark, IsOpen
  <1>4. /\ portfolio.open.number \in Nat /\ portfolio.open.opened \in Nat
        /\ portfolio.open.side \in Side /\ portfolio.open.quantity \in Nat
        /\ portfolio.open.entry \in Nat /\ portfolio.open.entryFee \in Nat
        /\ portfolio.open.marked \in Nat /\ portfolio.open.reserved \in Nat
    BY <1>2 DEF Positions
  <1>5. gross \in Int
    BY <1>2, <1>3, GrossType
  <1>6. fee \in Nat
    BY <1>0, <1>1, <1>3, AmountTypes DEF LedgerInv, OpenTraded
  <1>. HIDE DEF gross, fee
  <1>7. earned \in Int /\ cash \in Int
    <2>1. portfolio.cash \in Int
      BY <1>2
    <2>2. portfolio.open.reserved \in Int /\ portfolio.open.entryFee \in Int
      BY <1>4
    <2>3. fee \in Int
      BY <1>6
    <2>. QED
      BY <2>1, <2>2, <2>3, <1>5, CloseTypes
  <1>8. /\ portfolio'.updated = at /\ portfolio'.equity = cash
        /\ portfolio'.fees = portfolio.fees + fee /\ portfolio'.open = NoPosition
        /\ portfolio'.timeline = Append(portfolio.timeline, e)
        /\ portfolio'.closed = Append(portfolio.closed, x)
        /\ portfolio'.realized = portfolio.realized + earned
        /\ portfolio'.unrealized = 0 /\ portfolio'.status = portfolio.status
        /\ portfolio'.created = portfolio.created
    <2>1. portfolio' = [portfolio EXCEPT
                        !.updated = at, !.cash = cash, !.equity = cash, !.fees = portfolio.fees + fee,
                        !.realized = portfolio.realized + earned, !.unrealized = 0,
                        !.open = NoPosition,
                        !.closed = Append(@, x), !.timeline = Append(@, e)]
      BY <1>1, <1>2 DEF Closed, CashAtClose, gross, fee
    <2>. HIDE DEF earned, cash, x, e
    <2>. QED
      BY <1>0, <2>1 DEF LedgerInv, TypeOK
  <1>9. /\ x.number = portfolio.open.number /\ x.opened = portfolio.open.opened
        /\ x.entryFee = portfolio.open.entryFee /\ x.exit = price /\ x.closed = at
        /\ x.exitFee = fee /\ x.gross = gross /\ x.realized = earned
    OBVIOUS
  <1>10. x \in Exits
    <2>. HIDE DEF earned
    <2>. QED
      BY <1>3, <1>4, <1>5, <1>6, <1>7 DEF Exits
  <1>11. TimelineSound(portfolio')
    <2>1. e \in Events
      <3>1. Len(portfolio.timeline) + 1 \in Nat
        BY <1>2
      <3>. HIDE DEF cash
      <3>. QED
        BY <1>3, <1>4, <1>7, <3>1 DEF Event, Events, EventType
    <2>2. /\ e.sequence = Len(portfolio.timeline) + 1 /\ e.position = portfolio.open.number
          /\ e.type = "closed" /\ e.at = at /\ e.equity = cash
      BY DEF Event
    <2>3. TimelineSound(portfolio)
      BY DEF SnapshotInv
    <2>. HIDE DEF e, cash, x, earned
    <2>4. (e.position # 0) = (e.type \in {"opened", "marked", "closed"})
      BY <1>3, <2>2
    <2>5. (portfolio'.status = "completed") = (e.type = "completed")
      BY <1>3, <1>8, <2>2
    <2>. QED
      BY <1>2, <1>8, <2>1, <2>2, <2>3, <2>4, <2>5, TimelineGrows
  <1>12. x.realized = x.gross - x.entryFee - x.exitFee
    BY <1>9
  <1>. HIDE DEF x, e, cash
  <1>13. PositionsSound'
    <2>1. /\ portfolio.updated >= portfolio.created /\ portfolio.fees >= 0
          /\ PositionValid(portfolio.open)
          /\ portfolio.open.number = Len(portfolio.closed) + 1
          /\ portfolio.open.marked <= portfolio.updated
          /\ \A i \in 1..Len(portfolio.closed) :
                ExitValid(portfolio.closed[i]) /\ portfolio.closed[i].number = i
      BY <1>3 DEF SnapshotInv, PositionsSound, IsOpen
    <2>2. at > portfolio.open.opened
      <3>1. portfolio.open.marked >= portfolio.open.opened
        BY <2>1 DEF PositionValid
      <3>. QED
        BY <1>2, <1>3, <1>4, <2>1, <3>1
    <2>3. ExitValid(x)
      BY <1>3, <1>6, <1>9, <1>12, <2>2 DEF ExitValid
    <2>4. \A i \in 1..Len(portfolio'.closed) :
                ExitValid(portfolio'.closed[i]) /\ portfolio'.closed[i].number = i
      <3>. DEFINE n == Len(portfolio.closed)
                  longer == Append(portfolio.closed, x)
      <3>1. /\ n \in Nat /\ Len(longer) = n + 1 /\ longer[n + 1] = x
            /\ \A i \in 1..n : longer[i] = portfolio.closed[i]
        BY <1>2
      <3>2. \A i \in 1..(n + 1) : i \in 1..n \/ i = n + 1
        BY <3>1
      <3>. HIDE DEF longer
      <3>3. \A i \in 1..Len(longer) : ExitValid(longer[i]) /\ longer[i].number = i
        BY <1>9, <2>1, <2>3, <3>1, <3>2
      <3>. QED
        BY <1>8, <3>3 DEF longer
    <2>5. portfolio'.updated >= portfolio'.created /\ portfolio'.fees >= 0
      BY <1>2, <1>3, <1>6, <1>8, <2>1
    <2>6. ~IsOpen(portfolio')
      BY <1>8 DEF IsOpen, NoPosition
    <2>. QED
      BY <2>4, <2>5, <2>6 DEF PositionsSound
  <1>14. AmountsSound'
    <2>1. /\ portfolio.fees = Total(portfolio.closed, "entryFee")
                              + Total(portfolio.closed, "exitFee") + portfolio.open.entryFee
          /\ portfolio.realized = Total(portfolio.closed, "realized")
      BY DEF SnapshotInv, AmountsSound
    <2>2. /\ Total(portfolio.closed, "entryFee") \in Int /\ Total(portfolio.closed, "exitFee") \in Int
          /\ Total(portfolio.closed, "realized") \in Int
      BY <1>2, ExitTotals
    <2>3. /\ Total(portfolio'.closed, "entryFee")
                = Total(portfolio.closed, "entryFee") + portfolio.open.entryFee
          /\ Total(portfolio'.closed, "exitFee") = Total(portfolio.closed, "exitFee") + fee
          /\ Total(portfolio'.closed, "realized") = Total(portfolio.closed, "realized") + earned
      BY <1>2, <1>8, <1>9, <1>10, ExitAdds
    <2>4. NoPosition.entryFee = 0 /\ NoPosition.unrealized = 0
      BY DEF NoPosition
    <2>5. portfolio'.fees = Total(portfolio'.closed, "entryFee") + Total(portfolio'.closed, "exitFee")
                            + portfolio'.open.entryFee
      <3>1. portfolio'.fees = portfolio.fees + fee /\ portfolio'.open.entryFee = 0
        BY <1>8, <2>4
      <3>. HIDE DEF earned
      <3>. QED
        BY <1>4, <1>6, <2>1, <2>2, <2>3, <3>1
    <2>6. portfolio'.realized = Total(portfolio'.closed, "realized")
      BY <1>8, <2>1, <2>3
    <2>7. portfolio'.unrealized = portfolio'.open.unrealized
      BY <1>8, <2>4
    <2>. QED
      BY <2>5, <2>6, <2>7 DEF AmountsSound
  <1>. QED
    BY <1>0, <1>11, <1>13, <1>14 DEF SnapshotInv

\* complete: the last event completes the portfolio.
LEMMA SnapshotInvComplete == SnapshotInv /\ Complete => SnapshotInv'
  <1>. SUFFICES ASSUME SnapshotInv, Complete PROVE SnapshotInv'
    OBVIOUS
  <1>0. LedgerInv /\ LedgerInv'
    BY LedgerInvComplete DEF SnapshotInv
  <1>1. PICK at \in Times(portfolio) :
          CanComplete(portfolio, at) /\ portfolio' = Completed(portfolio, at)
    BY DEF Complete
  <1>. DEFINE e == Event(portfolio, "completed", at, portfolio.equity, 0)
  <1>2. /\ portfolio.equity \in Int /\ portfolio.timeline \in Seq(Events)
        /\ portfolio.updated \in Nat /\ portfolio.created \in Nat
    BY <1>0 DEF LedgerInv, TypeOK
  <1>3. at \in Nat /\ at > portfolio.updated /\ ~IsOpen(portfolio)
    BY <1>1, <1>2, BoundAssumption DEF Times, CanComplete
  <1>4. /\ portfolio'.updated = at /\ portfolio'.equity = portfolio.equity
        /\ portfolio'.fees = portfolio.fees /\ portfolio'.open = portfolio.open
        /\ portfolio'.timeline = Append(portfolio.timeline, e)
        /\ portfolio'.closed = portfolio.closed /\ portfolio'.realized = portfolio.realized
        /\ portfolio'.unrealized = portfolio.unrealized /\ portfolio'.status = "completed"
        /\ portfolio'.created = portfolio.created
    <2>1. portfolio' = [portfolio EXCEPT !.status = "completed", !.updated = at,
                                         !.timeline = Append(@, e)]
      BY <1>1 DEF Completed
    <2>. HIDE DEF e
    <2>. QED
      BY <1>0, <2>1 DEF LedgerInv, TypeOK
  <1>5. TimelineSound(portfolio')
    <2>1. e \in Events
      <3>1. Len(portfolio.timeline) + 1 \in Nat
        BY <1>2
      <3>. QED
        BY <1>2, <1>3, <3>1 DEF Event, Events, EventType
    <2>2. /\ e.sequence = Len(portfolio.timeline) + 1 /\ e.position = 0
          /\ e.type = "completed" /\ e.at = at /\ e.equity = portfolio.equity
      BY DEF Event
    <2>3. TimelineSound(portfolio)
      BY DEF SnapshotInv
    <2>. HIDE DEF e
    <2>4. (e.position # 0) = (e.type \in {"opened", "marked", "closed"})
      BY <2>2
    <2>5. (portfolio'.status = "completed") = (e.type = "completed")
      BY <1>4, <2>2
    <2>. QED
      BY <1>2, <1>4, <2>1, <2>2, <2>3, <2>4, <2>5, TimelineGrows
  <1>. HIDE DEF e
  <1>6. PositionsSound'
    <2>1. /\ portfolio.updated >= portfolio.created /\ portfolio.fees >= 0
          /\ \A i \in 1..Len(portfolio.closed) :
                ExitValid(portfolio.closed[i]) /\ portfolio.closed[i].number = i
      BY DEF SnapshotInv, PositionsSound
    <2>2. portfolio'.updated >= portfolio'.created /\ portfolio'.fees >= 0
      BY <1>2, <1>3, <1>4, <2>1
    <2>3. ~IsOpen(portfolio')
      BY <1>3, <1>4 DEF IsOpen
    <2>. QED
      BY <1>4, <2>1, <2>2, <2>3 DEF PositionsSound
  <1>7. AmountsSound'
    BY <1>4 DEF SnapshotInv, AmountsSound
  <1>. QED
    BY <1>0, <1>5, <1>6, <1>7 DEF SnapshotInv

\* The invariant is kept by every step of the ledger.
LEMMA SnapshotInvStep == SnapshotInv /\ [Next]_portfolio => SnapshotInv'
  <1>. SUFFICES ASSUME SnapshotInv, [Next]_portfolio PROVE SnapshotInv'
    OBVIOUS
  <1>1. CASE UNCHANGED portfolio
    BY <1>1, LedgerInvStep DEF SnapshotInv, PositionsSound, AmountsSound
  <1>2. CASE Next
    BY <1>2, SnapshotInvOpen, SnapshotInvMark, SnapshotInvClose, SnapshotInvComplete DEF Next
  <1>. QED
    BY <1>1, <1>2

\* Whatever the ledger is asked to do, its next snapshot passes the validators of
\* SimulatedPortfolio: amounts, positions and timeline agree in every snapshot.
THEOREM EverySnapshotIsValid == Spec => []LedgerSound
  <1>1. SnapshotInv => LedgerSound
    <2>. SUFFICES ASSUME SnapshotInv PROVE LedgerSound
      OBVIOUS
    <2>1. Reconciled
      BY DEF SnapshotInv, LedgerInv
    <2>2. TimelineValid(portfolio)
      BY DEF SnapshotInv, TimelineSound
    <2>3. PositionsSound /\ AmountsSound
      BY DEF SnapshotInv
    <2>. QED
      BY <2>1, <2>2, <2>3 DEF LedgerSound, PortfolioValid, PositionsSound, AmountsSound, Reconciled
  <1>. QED
    BY <1>1, SnapshotInvInit, SnapshotInvStep, PTL DEF Spec

-----------------------------------------------------------------------------
(***************************************************************************)
(* Recording candidates, for any number of workers, lifecycles, portfolios *)
(* and attempts: what is stored is always backed by a journal entry, and a *)
(* rebuild that nothing was committed beside leaves every journaled        *)
(* lifecycle projected.                                                    *)
(*                                                                         *)
(* The inductive invariant says of every open transaction what it is about *)
(* to store: a portfolio only together with its journal entry, projections *)
(* only of journals it has seen, and all of them while nobody else commits. *)
(***************************************************************************)

\* Where a transaction can stand, and where it is rebuilding.
Rebuilding == {"list", "delete", "deleting", "get", "save"}
Standing == {"idle", "portfolio", "journal", "rebuild", "done", "failed"} \cup Rebuilding

Session ==
    [pc : Standing, task : Lifecycles \cup {0},
     seen : BOOLEAN, saved : BOOLEAN, journaled : BOOLEAN,
     count : Nat, listed : SUBSET Lifecycles, found : SUBSET Lifecycles,
     deleted : SUBSET Lifecycles, written : SUBSET Lifecycles, alone : BOOLEAN]

RecorderTypeOK ==
    /\ portfolios \in [Portfolios -> Lifecycles \cup {0}]
    /\ journals \subseteq Lifecycles
    /\ projections \subseteq Lifecycles
    /\ session \in [Processes -> Session]
    /\ attempts \in [Processes -> Int]
    /\ overlapped \in BOOLEAN

\* The journals a transaction in state s sees.
Sees(s) == journals \cup (IF s.journaled THEN {s.task} ELSE {})

\* What process w in state s is about to store: a portfolio only with its journal
\* entry, and projections of the journals it has seen.
Backed(w, s) ==
    /\ w = Maintenance =>
         ~s.saved /\ ~s.journaled /\ s.pc \notin {"portfolio", "journal", "rebuild"}
    /\ w \in Workers =>
         s.task \in Lifecycles /\ (s.pc \in Rebuilding \cup {"rebuild"} => s.journaled)
    /\ s.listed \subseteq Sees(s)
    /\ s.written \subseteq s.listed
    /\ s.pc \notin {"get", "save"} => s.written = {}
    /\ s.pc = "save" => s.listed # s.written

\* A rebuild that nothing was committed beside has seen all there is.
Undisturbed(s) ==
    s.alone =>
        /\ s.pc = "list" => s.count = Cardinality(Sees(s))
        /\ s.pc \in Rebuilding \ {"list"} => s.listed = Sees(s)
        /\ s.pc = "deleting" => s.found = projections
        /\ s.pc \in {"get", "save"} => s.deleted = projections

RecorderInv ==
    /\ RecorderTypeOK
    /\ \A w \in Processes : Backed(w, session[w]) /\ Undisturbed(session[w])
    /\ LineageSound
    /\ RebuildHeals

-----------------------------------------------------------------------------
(* Finite sets of lifecycles.                                              *)

\* A finite set of numbers has a largest one: the one with the fewest above it.
LEMMA FiniteMaximum ==
    ASSUME NEW S, S \subseteq Nat, IsFiniteSet(S), S # {}
    PROVE  \E m \in S : \A k \in S : k <= m
  <1> DEFINE Above(x) == {k \in S : k > x}
             N == {Cardinality(Above(x)) : x \in S}
  <1>1. \A x \in S : IsFiniteSet(Above(x)) /\ Cardinality(Above(x)) \in Nat
    <2> TAKE x \in S
    <2>1. Above(x) \in SUBSET S
      OBVIOUS
    <2>2. IsFiniteSet(Above(x))
      BY <2>1, FS_Subset
    <2> QED
      BY <2>2, FS_CardinalityType
  <1>2. N \subseteq Nat /\ N # {}
    BY <1>1
  <1>3. PICK n \in N : \A y \in N : ~(<<y, n>> \in OpToRel(<, Nat))
    <2> HIDE DEF N
    <2> QED
      BY <1>2, NatLessThanWellFounded, WFMin
  <1>4. \A y \in N : ~(y < n)
    <2> HIDE DEF N
    <2> QED
      BY <1>2, <1>3 DEF OpToRel
  <1>5. PICK m \in S : n = Cardinality(Above(m))
    OBVIOUS
  <1>6. ASSUME NEW k \in S, k > m
        PROVE  FALSE
    <2>0. k \in Nat /\ m \in Nat
      OBVIOUS
    <2>1. /\ Above(k) \in SUBSET Above(m)
          /\ k \in Above(m) /\ k \notin Above(k)
      <3>1. \A j \in S : j > k => j > m
        BY <1>6, <2>0
      <3>2. Above(k) \in SUBSET Above(m)
        BY <3>1
      <3>3. k \in Above(m)
        BY <1>6
      <3>4. k \notin Above(k)
        BY <2>0
      <3> QED
        BY <3>2, <3>3, <3>4
    <2> HIDE DEF Above
    <2>2. Cardinality(Above(k)) <= n /\ Cardinality(Above(k)) # n
      BY <1>1, <1>5, <2>1, FS_Subset
    <2>3. Cardinality(Above(k)) \in N
      OBVIOUS
    <2> HIDE DEF N
    <2> QED
      BY <1>1, <1>2, <1>4, <2>2, <2>3
  <1> QED
    BY <1>6

\* Listing as many as there are lists all.
LEMMA NewestOfAll ==
    ASSUME NEW S, S \subseteq Nat, IsFiniteSet(S)
    PROVE  Newest(S, Cardinality(S)) = S
  <1> SUFFICES ASSUME NEW l \in S
               PROVE  Cardinality({k \in S : k > l}) < Cardinality(S)
    BY DEF Newest
  <1> DEFINE T == {k \in S : k > l}
  <1>1. T \in SUBSET S /\ T # S
    OBVIOUS
  <1> HIDE DEF T
  <1>2. Cardinality(T) <= Cardinality(S) /\ Cardinality(T) # Cardinality(S) /\ IsFiniteSet(T)
    BY <1>1, FS_Subset
  <1>3. Cardinality(T) < Cardinality(S)
    BY <1>2, FS_CardinalityType
  <1> QED
    BY <1>3 DEF T

\* What a transaction sees is a finite set of lifecycles.
LEMMA SeesFinite ==
    ASSUME RecorderTypeOK, NEW s \in Session, s.journaled => s.task \in Lifecycles
    PROVE  /\ Sees(s) \subseteq Lifecycles /\ Sees(s) \subseteq Nat
           /\ IsFiniteSet(Sees(s)) /\ Cardinality(Sees(s)) \in Nat
  <1>1. Sees(s) \in SUBSET Lifecycles
    BY DEF RecorderTypeOK, Sees
  <1> QED
    BY <1>1, RecorderAssumption, FS_Subset, FS_CardinalityType

\* The next projection to save is one that is listed and not yet written.
LEMMA NextIsListed ==
    ASSUME RecorderTypeOK, NEW w \in Processes,
           session[w].written \subseteq session[w].listed,
           session[w].listed # session[w].written
    PROVE  NextProjection(w) \in session[w].listed \ session[w].written
  <1> DEFINE S == session[w].listed \ session[w].written
  <1>1. S \in SUBSET Lifecycles /\ S # {}
    BY DEF RecorderTypeOK, Session
  <1>2. \E m \in S : \A k \in S : k <= m
    <2> HIDE DEF S
    <2> QED
      BY <1>1, RecorderAssumption, FS_Subset, FiniteMaximum
  <1> QED
    BY <1>2 DEF NextProjection
-----------------------------------------------------------------------------
(* The steps of a transaction before its commit.                           *)

\* A step that stores nothing keeps the invariant, if the state it brings its
\* process to is a sound one.
LEMMA StepKeeps ==
    ASSUME RecorderInv, NEW w \in Processes, NEW s \in Session,
           Backed(w, s), Undisturbed(s),
           session' = [session EXCEPT ![w] = s],
           attempts' \in [Processes -> Int],
           UNCHANGED <<portfolios, journals, projections, overlapped>>
    PROVE  RecorderInv'
  <1>1. session' \in [Processes -> Session]
    BY DEF RecorderInv, RecorderTypeOK
  <1>2. \A v \in Processes : Backed(v, session[v])' /\ Undisturbed(session[v])'
    <2> TAKE v \in Processes
    <2>1. Backed(v, session'[v]) /\ Undisturbed(session'[v])
      BY DEF RecorderInv, RecorderTypeOK
    <2> QED
      BY <2>1 DEF Backed, Undisturbed, Sees
  <1>3. LineageSound' /\ RebuildHeals'
    BY DEF RecorderInv, LineageSound, RebuildHeals, PositionDetail
  <1> QED
    BY <1>1, <1>2, <1>3 DEF RecorderInv, RecorderTypeOK

\* The same for the steps of a transaction.
LEMMA ContinueKeeps ==
    ASSUME RecorderInv, NEW w \in Processes, NEW s \in Session,
           Backed(w, s), Undisturbed(s), Continue(w, s)
    PROVE  RecorderInv'
  BY StepKeeps DEF Continue, Update, RecorderInv, RecorderTypeOK

\* A transaction without statements, or one that is over, is about to store nothing.
LEMMA NothingToStore ==
    ASSUME NEW w \in Processes, NEW l \in Lifecycles \cup {0},
           w \in Workers => l \in Lifecycles,
           NEW p \in {"idle", "done", "failed"}
    PROVE  /\ Fresh(l) \in Session
           /\ [Fresh(l) EXCEPT !.pc = p] \in Session
           /\ Backed(w, Fresh(l)) /\ Undisturbed(Fresh(l))
           /\ Backed(w, [Fresh(l) EXCEPT !.pc = p]) /\ Undisturbed([Fresh(l) EXCEPT !.pc = p])
  <1>1. ASSUME NEW r \in Session, r.pc \in {"idle", "done", "failed"}, r.task = l,
               ~r.saved, ~r.journaled, r.listed = {}, r.written = {}
        PROVE  Backed(w, r) /\ Undisturbed(r)
    <2>1. r.pc \notin Rebuilding \cup {"portfolio", "journal", "rebuild", "save", "get"}
      BY <1>1 DEF Rebuilding
    <2> QED
      BY <1>1, <2>1 DEF Backed, Undisturbed, Rebuilding
  <1> DEFINE a == Fresh(l)
             b == [a EXCEPT !.pc = p]
  <1>2. /\ a \in Session /\ a.pc = "idle" /\ a.task = l
        /\ ~a.saved /\ ~a.journaled /\ a.listed = {} /\ a.written = {}
    BY DEF Fresh, Session, Standing
  <1> HIDE DEF a
  <1>3. /\ b \in Session /\ b.pc = p /\ b.task = l
        /\ ~b.saved /\ ~b.journaled /\ b.listed = {} /\ b.written = {}
    BY <1>2 DEF Session, Standing
  <1> HIDE DEF b
  <1>4. Backed(w, a) /\ Undisturbed(a) /\ Backed(w, b) /\ Undisturbed(b)
    BY <1>1, <1>2, <1>3
  <1> QED
    BY <1>2, <1>3, <1>4 DEF a, b

\* A transaction that is rolled back stores nothing.
LEMMA RolledBackKeeps ==
    ASSUME RecorderInv, NEW w \in Processes, RolledBack(w)
    PROVE  RecorderInv'
  <1> DEFINE l == session[w].task
             p == IF attempts[w] > 1 THEN "idle" ELSE "failed"
             s == [Fresh(l) EXCEPT !.pc = p]
  <1>1. l \in Lifecycles \cup {0} /\ (w \in Workers => l \in Lifecycles)
    BY DEF RecorderInv, RecorderTypeOK, Session, Backed
  <1>2. p \in {"idle", "done", "failed"}
    OBVIOUS
  <1>3. /\ session' = [session EXCEPT ![w] = s]
        /\ attempts' \in [Processes -> Int]
        /\ UNCHANGED <<portfolios, journals, projections, overlapped>>
    BY DEF RolledBack, Update, RecorderInv, RecorderTypeOK
  <1> HIDE DEF l, p
  <1>4. s \in Session /\ Backed(w, s) /\ Undisturbed(s)
    BY <1>1, <1>2, NothingToStore
  <1> HIDE DEF s
  <1> QED
    BY <1>3, <1>4, StepKeeps

\* The portfolio is looked for.
LEMMA ReadPortfolioKeeps ==
    ASSUME RecorderInv, NEW w \in Processes, ReadPortfolio(w)
    PROVE  RecorderInv'
  <1> DEFINE r == session[w]
             s == [r EXCEPT !.pc = "portfolio",
                       !.seen = portfolios[PortfolioOf(r.task)] # 0]
  <1>1. /\ r \in Session /\ Backed(w, r) /\ Undisturbed(r)
        /\ r.pc = "idle" /\ w \in Workers
    BY DEF RecorderInv, RecorderTypeOK, ReadPortfolio, At
  <1>2. Continue(w, s)
    BY DEF ReadPortfolio
  <1> HIDE DEF r
  <1>3. /\ s \in Session
        /\ s.pc = "portfolio" /\ s.task = r.task
        /\ s.saved = r.saved /\ s.journaled = r.journaled
        /\ s.listed = r.listed /\ s.written = r.written
    BY <1>1 DEF Session, Standing, Rebuilding
  <1> HIDE DEF s
  <1>4. Backed(w, s)
    BY <1>1, <1>2, <1>3, RecorderAssumption DEF Backed, Sees, Rebuilding
  <1>5. Undisturbed(s)
    BY <1>1, <1>2, <1>3 DEF Undisturbed, Sees, Rebuilding
  <1> QED
    BY <1>2, <1>3, <1>4, <1>5, ContinueKeeps

\* The portfolio is written, or the transaction is rolled back.
LEMMA WritePortfolioKeeps ==
    ASSUME RecorderInv, NEW w \in Processes, WritePortfolio(w)
    PROVE  RecorderInv'
  <1> DEFINE r == session[w]
             s == [r EXCEPT !.pc = "journal", !.saved = TRUE]
  <1>1. /\ r \in Session /\ Backed(w, r) /\ Undisturbed(r)
        /\ r.pc = "portfolio"
    BY DEF RecorderInv, RecorderTypeOK, WritePortfolio, At
  <1>2. RolledBack(w) \/ Continue(w, s)
    BY DEF WritePortfolio
  <1> HIDE DEF r
  <1>3. /\ s \in Session
        /\ s.pc = "journal" /\ s.saved /\ s.task = r.task /\ s.journaled = r.journaled
        /\ s.listed = r.listed /\ s.written = r.written
    BY <1>1 DEF Session, Standing, Rebuilding
  <1> HIDE DEF s
  <1>4. Backed(w, s)
    BY <1>1, <1>3, RecorderAssumption DEF Backed, Sees, Rebuilding
  <1>5. Undisturbed(s)
    BY <1>3 DEF Undisturbed, Rebuilding
  <1> QED
    BY <1>2, <1>3, <1>4, <1>5, ContinueKeeps, RolledBackKeeps

\* The journal entry is saved.
LEMMA SaveJournalKeeps ==
    ASSUME RecorderInv, NEW w \in Processes, SaveJournal(w)
    PROVE  RecorderInv'
  <1> DEFINE r == session[w]
             s == [r EXCEPT !.pc = "rebuild", !.journaled = TRUE]
  <1>1. /\ r \in Session /\ Backed(w, r) /\ Undisturbed(r)
        /\ r.pc = "journal"
    BY DEF RecorderInv, RecorderTypeOK, SaveJournal, At
  <1>2. Continue(w, s)
    BY DEF SaveJournal
  <1> HIDE DEF r
  <1>3. /\ s \in Session
        /\ s.pc = "rebuild" /\ s.journaled /\ s.task = r.task
        /\ s.saved = r.saved /\ s.listed = r.listed /\ s.written = r.written
    BY <1>1 DEF Session, Standing, Rebuilding
  <1> HIDE DEF s
  <1>4. Backed(w, s)
    BY <1>1, <1>2, <1>3, RecorderAssumption DEF Backed, Sees, Rebuilding
  <1>5. Undisturbed(s)
    BY <1>1, <1>2, <1>3 DEF Undisturbed, Sees, Rebuilding
  <1> QED
    BY <1>2, <1>3, <1>4, <1>5, ContinueKeeps

\* The visible journals are counted.
LEMMA CountJournalsKeeps ==
    ASSUME RecorderInv, NEW w \in Processes, CountJournals(w)
    PROVE  RecorderInv'
  <1> DEFINE r == session[w]
             s == [r EXCEPT !.pc = "list", !.count = Cardinality(Visible(w)),
                       !.alone = TRUE]
  <1>1. /\ r \in Session /\ Backed(w, r) /\ Undisturbed(r)
        /\ r.pc = "rebuild" \/ (w = Maintenance /\ r.pc = "idle")
    BY DEF RecorderInv, RecorderTypeOK, CountJournals, At
  <1>2. Continue(w, s)
    BY DEF CountJournals
  <1> HIDE DEF r
  <1>a. Visible(w) = Sees(r) /\ Cardinality(Sees(r)) \in Nat
    <2>1. Visible(w) = Sees(r)
      BY DEF Visible, Sees, r
    <2>2. r.journaled => r.task \in Lifecycles
      BY <1>1 DEF Backed, Processes
    <2> QED
      BY <1>1, <2>1, <2>2, SeesFinite DEF RecorderInv
  <1>b. \A t : t.journaled = r.journaled /\ t.task = r.task => Sees(t) = Sees(r)
    BY DEF Sees
  <1>3. /\ s \in Session
        /\ s.pc = "list" /\ s.count = Cardinality(Sees(s))
        /\ s.task = r.task /\ s.saved = r.saved /\ s.journaled = r.journaled
        /\ s.listed = r.listed /\ s.written = r.written
    BY <1>1, <1>a, <1>b DEF Session, Standing, Rebuilding
  <1> HIDE DEF s
  <1>4. Backed(w, s)
    BY <1>1, <1>2, <1>3, RecorderAssumption DEF Backed, Sees, Rebuilding
  <1>5. Undisturbed(s)
    BY <1>1, <1>2, <1>3 DEF Undisturbed, Sees, Rebuilding
  <1> QED
    BY <1>2, <1>3, <1>4, <1>5, ContinueKeeps

\* As many journals as were counted are listed.
LEMMA ListJournalsKeeps ==
    ASSUME RecorderInv, NEW w \in Processes, ListJournals(w)
    PROVE  RecorderInv'
  <1> DEFINE r == session[w]
             s == [r EXCEPT !.pc = "delete",
                       !.listed = Newest(Visible(w), r.count)]
  <1>1. /\ r \in Session /\ Backed(w, r) /\ Undisturbed(r)
        /\ r.pc = "list"
    BY DEF RecorderInv, RecorderTypeOK, ListJournals, At
  <1>2. Continue(w, s)
    BY DEF ListJournals
  <1> HIDE DEF r
  <1>a. /\ Visible(w) = Sees(r) /\ Sees(r) \subseteq Lifecycles
        /\ IsFiniteSet(Sees(r)) /\ Sees(r) \subseteq Nat
    <2>1. Visible(w) = Sees(r)
      BY DEF Visible, Sees, r
    <2>2. r.journaled => r.task \in Lifecycles
      BY <1>1 DEF Backed, Processes
    <2> QED
      BY <1>1, <2>1, <2>2, SeesFinite DEF RecorderInv
  <1>b. Newest(Sees(r), r.count) \subseteq Sees(r)
    BY DEF Newest
  <1>3. /\ s \in Session
        /\ s.pc = "delete" /\ s.listed = Newest(Sees(r), r.count) /\ s.count = r.count
        /\ s.alone = r.alone /\ s.task = r.task /\ s.saved = r.saved
        /\ s.journaled = r.journaled /\ s.written = r.written
    BY <1>1, <1>a, <1>b DEF Session, Standing, Rebuilding
  <1> HIDE DEF s
  <1>c. Sees(s) = Sees(r)
    BY <1>3 DEF Sees
  <1>d. r.alone => s.listed = Sees(r)
    BY <1>1, <1>3, <1>a, NewestOfAll DEF Undisturbed
  <1>4. Backed(w, s)
    BY <1>1, <1>3, <1>b, <1>c, <1>d, RecorderAssumption DEF Backed, Sees, Rebuilding
  <1>5. Undisturbed(s)
    BY <1>1, <1>3, <1>b, <1>c, <1>d DEF Undisturbed, Sees, Rebuilding
  <1> QED
    BY <1>2, <1>3, <1>4, <1>5, ContinueKeeps

\* The deletion finds the committed projections.
LEMMA StartDeleteKeeps ==
    ASSUME RecorderInv, NEW w \in Processes, StartDelete(w)
    PROVE  RecorderInv'
  <1> DEFINE r == session[w]
             s == [r EXCEPT !.pc = "deleting", !.found = projections]
  <1>1. /\ r \in Session /\ Backed(w, r) /\ Undisturbed(r)
        /\ r.pc = "delete" /\ projections \subseteq Lifecycles
    BY DEF RecorderInv, RecorderTypeOK, StartDelete, At
  <1>2. Continue(w, s)
    BY DEF StartDelete
  <1> HIDE DEF r
  <1>3. /\ s \in Session
        /\ s.pc = "deleting" /\ s.found = projections /\ s.alone = r.alone
        /\ s.task = r.task /\ s.saved = r.saved /\ s.journaled = r.journaled
        /\ s.listed = r.listed /\ s.written = r.written
    BY <1>1 DEF Session, Standing, Rebuilding
  <1> HIDE DEF s
  <1>4. Backed(w, s)
    BY <1>1, <1>2, <1>3, RecorderAssumption DEF Backed, Sees, Rebuilding
  <1>5. Undisturbed(s)
    BY <1>1, <1>2, <1>3 DEF Undisturbed, Sees, Rebuilding
  <1> QED
    BY <1>2, <1>3, <1>4, <1>5, ContinueKeeps

\* What the deletion has found is deleted.
LEMMA FinishDeleteKeeps ==
    ASSUME RecorderInv, NEW w \in Processes, FinishDelete(w)
    PROVE  RecorderInv'
  <1> DEFINE r == session[w]
             s == [r EXCEPT !.pc = "get", !.deleted = r.found]
  <1>1. /\ r \in Session /\ Backed(w, r) /\ Undisturbed(r)
        /\ r.pc = "deleting"
    BY DEF RecorderInv, RecorderTypeOK, FinishDelete, At
  <1>2. Continue(w, s)
    BY DEF FinishDelete
  <1> HIDE DEF r
  <1>3. /\ s \in Session
        /\ s.pc = "get" /\ s.deleted = r.found /\ s.alone = r.alone
        /\ s.task = r.task /\ s.saved = r.saved /\ s.journaled = r.journaled
        /\ s.listed = r.listed /\ s.written = r.written
    BY <1>1 DEF Session, Standing, Rebuilding
  <1> HIDE DEF s
  <1>4. Backed(w, s)
    BY <1>1, <1>2, <1>3, RecorderAssumption DEF Backed, Sees, Rebuilding
  <1>5. Undisturbed(s)
    BY <1>1, <1>2, <1>3 DEF Undisturbed, Sees, Rebuilding
  <1> QED
    BY <1>2, <1>3, <1>4, <1>5, ContinueKeeps

\* The next projection is looked for.
LEMMA GetProjectionKeeps ==
    ASSUME RecorderInv, NEW w \in Processes, GetProjection(w)
    PROVE  RecorderInv'
  <1> DEFINE r == session[w]
             seen == NextProjection(w) \in projections \ r.deleted
             s == [r EXCEPT !.pc = "save", !.seen = seen]
  <1>1. /\ r \in Session /\ Backed(w, r) /\ Undisturbed(r)
        /\ r.pc = "get" /\ r.listed # r.written
    BY DEF RecorderInv, RecorderTypeOK, GetProjection, At
  <1>2. Continue(w, s) /\ seen \in BOOLEAN
    BY DEF GetProjection
  <1> HIDE DEF r, seen
  <1>3. /\ s \in Session
        /\ s.pc = "save" /\ s.deleted = r.deleted /\ s.alone = r.alone
        /\ s.task = r.task /\ s.saved = r.saved /\ s.journaled = r.journaled
        /\ s.listed = r.listed /\ s.written = r.written
    BY <1>1, <1>2 DEF Session, Standing, Rebuilding
  <1> HIDE DEF s
  <1>4. Backed(w, s)
    BY <1>1, <1>2, <1>3, RecorderAssumption DEF Backed, Sees, Rebuilding
  <1>5. Undisturbed(s)
    BY <1>1, <1>2, <1>3 DEF Undisturbed, Sees, Rebuilding
  <1> QED
    BY <1>2, <1>3, <1>4, <1>5, ContinueKeeps

\* The next projection is written, or the transaction is rolled back.
LEMMA SaveProjectionKeeps ==
    ASSUME RecorderInv, NEW w \in Processes, SaveProjection(w)
    PROVE  RecorderInv'
  <1> DEFINE r == session[w]
             l == NextProjection(w)
             s == [r EXCEPT !.pc = "get", !.written = @ \cup {l}]
  <1>1. /\ r \in Session /\ Backed(w, r) /\ Undisturbed(r)
        /\ r.pc = "save"
    BY DEF RecorderInv, RecorderTypeOK, SaveProjection, At
  <1>2. RolledBack(w) \/ Continue(w, s)
    BY DEF SaveProjection
  <1>3. l \in r.listed
    BY <1>1, NextIsListed DEF RecorderInv, Backed
  <1> HIDE DEF r, l
  <1>4. /\ s \in Session
        /\ s.pc = "get" /\ s.written = r.written \cup {l} /\ s.deleted = r.deleted
        /\ s.alone = r.alone /\ s.task = r.task /\ s.saved = r.saved
        /\ s.journaled = r.journaled /\ s.listed = r.listed
    BY <1>1, <1>3 DEF Session, Standing, Rebuilding
  <1> HIDE DEF s
  <1>5. Backed(w, s)
    BY <1>1, <1>3, <1>4, RecorderAssumption DEF Backed, Sees, Rebuilding
  <1>6. Undisturbed(s)
    BY <1>1, <1>4 DEF Undisturbed, Sees, Rebuilding
  <1> QED
    BY <1>2, <1>4, <1>5, <1>6, ContinueKeeps, RolledBackKeeps
-----------------------------------------------------------------------------
(* The commit, and the specification.                                      *)

\* The others go on with what they have seen, and no longer alone.
LEMMA OthersKeep ==
    ASSUME RecorderInv, NEW w \in Processes, NEW v \in Others(w), Commit(w)
    PROVE  session'[v] \in Session /\ Backed(v, session[v])' /\ Undisturbed(session[v])'
  <1> DEFINE r == session[v]
             gone == session[w].deleted
             s == [r EXCEPT !.found = @ \ gone, !.alone = FALSE]
  <1>1. r \in Session /\ Backed(v, r)
    BY DEF RecorderInv, RecorderTypeOK, Others
  <1>2. session'[v] = s /\ journals \subseteq journals'
    BY DEF Commit, Others
  <1> HIDE DEF r, gone
  <1>3. /\ s \in Session /\ ~s.alone
        /\ s.pc = r.pc /\ s.task = r.task /\ s.saved = r.saved
        /\ s.journaled = r.journaled /\ s.listed = r.listed /\ s.written = r.written
    BY <1>1 DEF Session
  <1> HIDE DEF s
  <1>4. Backed(v, session[v])'
    BY <1>1, <1>2, <1>3 DEF Backed, Sees
  <1>5. Undisturbed(session[v])'
    BY <1>2, <1>3 DEF Undisturbed
  <1> QED
    BY <1>2, <1>3, <1>4, <1>5

\* The process that commits is done.
LEMMA CommitterKeeps ==
    ASSUME RecorderInv, NEW w \in Processes, Commit(w)
    PROVE  session'[w] \in Session /\ Backed(w, session[w])' /\ Undisturbed(session[w])'
  <1> DEFINE l == session[w].task
             a == Fresh(l)
             s == [a EXCEPT !.pc = "done"]
  <1>1. l \in Lifecycles \cup {0} /\ (w \in Workers => l \in Lifecycles)
    BY DEF RecorderInv, RecorderTypeOK, Session, Backed
  <1>2. session'[w] = s
    BY DEF Commit
  <1> HIDE DEF l
  <1>3. /\ a \in Session /\ a.task = l
        /\ ~a.saved /\ ~a.journaled /\ a.listed = {} /\ a.written = {}
    BY <1>1 DEF Fresh, Session, Standing
  <1> HIDE DEF a
  <1>4. /\ s \in Session /\ s.pc = "done" /\ s.task = l
        /\ ~s.saved /\ ~s.journaled /\ s.listed = {} /\ s.written = {}
    BY <1>3 DEF Session, Standing
  <1> HIDE DEF s
  <1> QED
    BY <1>1, <1>2, <1>4 DEF Backed, Undisturbed, Rebuilding

\* What a transaction commits is backed by its journal entry, and complete if no
\* other was committed since it counted.
LEMMA CommitKeeps ==
    ASSUME RecorderInv, NEW w \in Processes, Commit(w)
    PROVE  RecorderInv'
  <1> DEFINE s == session[w]
  <1>1. /\ s \in Session /\ Backed(w, s) /\ Undisturbed(s)
        /\ s.pc = "get" /\ s.listed = s.written
    BY DEF RecorderInv, RecorderTypeOK, Commit, At
  <1>2. /\ portfolios' = IF s.saved THEN [portfolios EXCEPT ![PortfolioOf(s.task)] = s.task]
                         ELSE portfolios
        /\ journals' = IF s.journaled THEN journals \cup {s.task} ELSE journals
        /\ projections' = (projections \ s.deleted) \cup s.written
        /\ overlapped' = ~s.alone
        /\ attempts' = attempts
        /\ session' = [v \in Processes |-> session'[v]]
    BY DEF Commit
  <1>3. \A v \in Processes :
          session'[v] \in Session /\ Backed(v, session[v])' /\ Undisturbed(session[v])'
    BY CommitterKeeps, OthersKeep DEF Others
  <1> HIDE DEF s
  <1>4. /\ s.saved \/ s.journaled => w \in Workers
        /\ w \in Workers => s.task \in Lifecycles /\ s.journaled
    BY <1>1 DEF Backed, Rebuilding, Processes
  <1>5. journals' = Sees(s) /\ journals \subseteq journals' /\ journals' \subseteq Lifecycles
    BY <1>2, <1>4 DEF Sees, RecorderInv, RecorderTypeOK
  <1>6. projections' \subseteq journals'
    BY <1>1, <1>2, <1>5 DEF Backed, RecorderInv, LineageSound
  <1>7. /\ portfolios' \in [Portfolios -> Lifecycles \cup {0}]
        /\ \A p \in Portfolios : portfolios'[p] # 0 =>
             portfolios'[p] \in journals' /\ PortfolioOf(portfolios'[p]) = p
    <2>1. CASE s.saved
      <3>1. /\ s.task \in Lifecycles /\ PortfolioOf(s.task) \in Portfolios
            /\ s.task \in journals'
        BY <1>2, <1>4, <2>1 DEF Portfolios
      <3>2. \A p \in Portfolios :
              portfolios'[p] = IF p = PortfolioOf(s.task) THEN s.task ELSE portfolios[p]
        BY <1>2, <2>1 DEF RecorderInv, RecorderTypeOK
      <3>3. portfolios' \in [Portfolios -> Lifecycles \cup {0}]
        BY <1>2, <2>1, <3>1 DEF RecorderInv, RecorderTypeOK
      <3> QED
        BY <1>5, <3>1, <3>2, <3>3 DEF RecorderInv, LineageSound
    <2>2. CASE ~s.saved
      BY <1>2, <1>5, <2>2 DEF RecorderInv, RecorderTypeOK, LineageSound
    <2> QED
      BY <2>1, <2>2
  <1>8. LineageSound'
    <2>1. ASSUME NEW p \in Portfolios, portfolios'[p] # 0
          PROVE  PositionDetail(p, PositionOf(portfolios[p]))' \in {"complete", "conflict"}
      BY <1>7, <2>1 DEF PositionDetail
    <2> QED
      BY <1>6, <1>7, <2>1 DEF LineageSound
  <1>9. RebuildHeals'
    BY <1>1, <1>2, <1>5 DEF Undisturbed, RebuildHeals, Rebuilding
  <1>10. RecorderTypeOK'
    BY <1>2, <1>3, <1>5, <1>6, <1>7 DEF RecorderInv, RecorderTypeOK
  <1> QED
    BY <1>3, <1>8, <1>9, <1>10 DEF RecorderInv

\* A process that stopped after its commit starts the same once more.
LEMMA RepeatKeeps ==
    ASSUME RecorderInv, NEW w \in Processes, Repeat(w)
    PROVE  RecorderInv'
  <1> DEFINE l == session[w].task
             s == Fresh(l)
  <1>1. l \in Lifecycles \cup {0} /\ (w \in Workers => l \in Lifecycles)
    BY DEF RecorderInv, RecorderTypeOK, Session, Backed
  <1>2. /\ session' = [session EXCEPT ![w] = s]
        /\ attempts' \in [Processes -> Int]
        /\ UNCHANGED <<portfolios, journals, projections, overlapped>>
    BY DEF Repeat, Update, RecorderInv, RecorderTypeOK
  <1> HIDE DEF l
  <1>3. s \in Session /\ Backed(w, s) /\ Undisturbed(s)
    BY <1>1, NothingToStore
  <1> HIDE DEF s
  <1> QED
    BY <1>2, <1>3, StepKeeps

\* Whatever is recorded at first is backed, and nobody has begun.
LEMMA RecorderInvInit == RecorderInit => RecorderInv
  <1> SUFFICES ASSUME RecorderInit
               PROVE  RecorderInv
    OBVIOUS
  <1>1. PICK task \in [Workers -> Lifecycles] :
          session = [w \in Processes |-> Fresh(IF w = Maintenance THEN 0 ELSE task[w])]
    BY DEF RecorderInit
  <1>2. ASSUME NEW w \in Processes
        PROVE  session[w] \in Session /\ Backed(w, session[w]) /\ Undisturbed(session[w])
    <2> DEFINE l == IF w = Maintenance THEN 0 ELSE task[w]
    <2>1. l \in Lifecycles \cup {0} /\ (w \in Workers => l \in Lifecycles)
      BY RecorderAssumption DEF Processes
    <2>2. session[w] = Fresh(l)
      BY <1>1
    <2> HIDE DEF l
    <2> QED
      BY <2>1, <2>2, NothingToStore
  <1>3. /\ journals \subseteq Lifecycles /\ projections = journals
        /\ portfolios \in [Portfolios -> Lifecycles \cup {0}]
        /\ overlapped = FALSE
    <2>1. journals \subseteq Lifecycles /\ portfolios \in [Portfolios -> journals \cup {0}]
      BY DEF RecorderInit
    <2>2. portfolios \in [Portfolios -> Lifecycles \cup {0}]
      BY <2>1
    <2> QED
      BY <2>1, <2>2 DEF RecorderInit
  <1>4. \A p \in Portfolios : portfolios[p] # 0 =>
          portfolios[p] \in journals /\ PortfolioOf(portfolios[p]) = p
    BY DEF RecorderInit
  <1>5. LineageSound
    BY <1>3, <1>4 DEF LineageSound, PositionDetail
  <1>6. session \in [Processes -> Session]
    BY <1>1, <1>2
  <1>7. attempts \in [Processes -> Int]
    BY RecorderAssumption DEF RecorderInit
  <1> QED
    BY <1>2, <1>3, <1>5, <1>6, <1>7 DEF RecorderInv, RecorderTypeOK, RebuildHeals

\* Each step of each process keeps the invariant.
LEMMA RecorderInvStep == RecorderInv /\ [RecorderNext]_recorderVars => RecorderInv'
  <1> SUFFICES ASSUME RecorderInv, [RecorderNext]_recorderVars
               PROVE  RecorderInv'
    OBVIOUS
  <1>1. CASE UNCHANGED recorderVars \/ Settled
    BY <1>1 DEF recorderVars, Settled, RecorderInv, RecorderTypeOK, Backed, Undisturbed, Sees,
                LineageSound, PositionDetail, RebuildHeals
  <1>2. ASSUME NEW w \in Processes,
               \/ ReadPortfolio(w) \/ WritePortfolio(w) \/ SaveJournal(w)
               \/ CountJournals(w) \/ ListJournals(w) \/ StartDelete(w) \/ FinishDelete(w)
               \/ GetProjection(w) \/ SaveProjection(w)
        PROVE  RecorderInv'
    BY <1>2, ReadPortfolioKeeps, WritePortfolioKeeps, SaveJournalKeeps, CountJournalsKeeps,
       ListJournalsKeeps, StartDeleteKeeps, FinishDeleteKeeps, GetProjectionKeeps,
       SaveProjectionKeeps
  <1>3. ASSUME NEW w \in Processes, Commit(w) \/ Fail(w) \/ Repeat(w)
        PROVE  RecorderInv'
    BY <1>3, CommitKeeps, RolledBackKeeps, RepeatKeeps DEF Fail
  <1> QED
    BY <1>1, <1>2, <1>3 DEF RecorderNext

\* The invariant holds throughout.
LEMMA RecorderInvariant == RecorderSpec => []RecorderInv
  BY RecorderInvInit, RecorderInvStep, PTL DEF RecorderSpec

\* Types, of the sessions and of what they store.
THEOREM RecorderTypeCorrect == RecorderSpec => []RecorderTypeOK
  <1>1. RecorderInv => RecorderTypeOK
    BY DEF RecorderInv
  <1> QED
    BY <1>1, RecorderInvariant, PTL

\* However the transactions interleave and wherever they stop, each portfolio and
\* each projection that is stored is backed by a journal entry of its own.
THEOREM StoredLineageIsSound == RecorderSpec => []LineageSound
  <1>1. RecorderInv => LineageSound
    BY DEF RecorderInv
  <1> QED
    BY <1>1, RecorderInvariant, PTL

\* A rebuild that no other commit falls into leaves every journaled lifecycle
\* projected, whatever earlier rebuilds have lost.
THEOREM UndisturbedRebuildHeals == RecorderSpec => []RebuildHeals
  <1>1. RecorderInv => RebuildHeals
    BY DEF RecorderInv
  <1> QED
    BY <1>1, RecorderInvariant, PTL

-----------------------------------------------------------------------------
(***************************************************************************)
(* Proof that the alert center never stores a row it cannot read, and that *)
(* evaluations that do not overlap respect deduplication window and        *)
(* cooldown.                                                               *)
(*                                                                         *)
(* Neither property is inductive.  Whether a job ends by a disagreement of *)
(* builder and validator was decided when its worker read the rule, the    *)
(* source and the newest alert: the invariant says that whatever a worker  *)
(* has prepared is accepted when it is written, however long that takes.   *)
(* For the window it says more of an evaluation that runs alone: what it   *)
(* decided holds of every stored alert, not of the newest one only.        *)
(***************************************************************************)

\* What the larger and the smaller of two numbers satisfy.
Extremes(a, b) ==
    /\ Max({a, b}) \in Int /\ Max({a, b}) \in {a, b}
    /\ Max({a, b}) >= a /\ Max({a, b}) >= b
    /\ Min({a, b}) \in Int /\ Min({a, b}) \in {a, b}
    /\ Min({a, b}) <= a /\ Min({a, b}) <= b

LEMMA PairExtremes ==
    ASSUME NEW a \in Int, NEW b \in Int
    PROVE  Extremes(a, b)
  <1>1. \E x \in {a, b} : \A y \in {a, b} : x >= y
    OBVIOUS
  <1>2. \E x \in {a, b} : \A y \in {a, b} : x <= y
    OBVIOUS
  <1>3. Max({a, b}) \in {a, b} /\ \A y \in {a, b} : Max({a, b}) >= y
    BY <1>1 DEF Max
  <1>4. Min({a, b}) \in {a, b} /\ \A y \in {a, b} : Min({a, b}) <= y
    BY <1>2 DEF Min
  <1> QED
    BY <1>3, <1>4 DEF Extremes

\* A row put into a table.
IsPut(changed, table, key, row) ==
    /\ DOMAIN changed = DOMAIN table \cup {key}
    /\ changed[key] = row
    /\ \A k \in DOMAIN table : k # key => changed[k] = table[k]

LEMMA PutRow ==
    ASSUME NEW table, NEW key, NEW row, NEW changed, changed = Put(table, key, row)
    PROVE  IsPut(changed, table, key, row)
  BY DEF Put, IsPut

\* Rows as they are built.
RuleRow == {RuleDefinition(c, v) : c \in RuleContent, v \in Nat}
PolicyRow == {Policy(v, c) : c \in PolicyContent, v \in Nat}
InboxRow == [acked : Int, snoozed : Int, updated : Int]

\* A source reference that reads back, with the times the comparisons need.
SourceSound(s) == SourceValid(s) /\ s.consumable \in BOOLEAN /\ s.at \in Int /\ s.expires \in Int

\* An alert lies at least the window and the cooldown of a rule before a time.
Respected(earlier, rule, at) ==
    /\ earlier.created + rule.window <= at
    /\ earlier.created + rule.cooldown <= at

\* Nothing a worker has prepared is refused when it is written.
PendingSound(p) ==
    /\ Accepted(p)
    /\ SourceSound(p.evaluation.source)
    /\ p.evaluation.source.at \in Nat /\ p.evaluation.source.at <= now
    /\ p.evaluation.alert \in BOOLEAN
    /\ p.evaluation.rule \in RuleRow
    /\ p.evaluation.alert => p.decision # {}

DefinitionsInv ==
    /\ rules \in Seq(RuleRow) /\ policies \in Seq(PolicyRow)
    /\ \A i \in DOMAIN rules : RuleValid(rules[i]) /\ rules[i].version = i
    /\ \A i \in DOMAIN policies : PolicyValid(policies[i])

JobsInv ==
    \A i \in DOMAIN jobs : /\ jobs[i] \in [status : {"queued", "done"}, requested : 0..now]
                           /\ i[1] \in DOMAIN rules /\ i[2] \in SourceEvent

EvaluationsInv ==
    /\ DOMAIN alerts \subseteq DOMAIN evaluations
    /\ DOMAIN decisions \subseteq DOMAIN evaluations
    /\ \A i \in DOMAIN evaluations : /\ EvaluationValid(evaluations[i])
                                     /\ SourceValid(evaluations[i].source)
                                     /\ (i \in DOMAIN alerts) = evaluations[i].alert
    /\ \A i \in DOMAIN decisions : DecisionValid(decisions[i])

AlertsInv ==
    /\ DOMAIN inbox = DOMAIN alerts
    /\ \A i \in DOMAIN alerts :
        /\ DraftValid(alerts[i])
        /\ alerts[i].created \in 0..now /\ alerts[i].expires \in Int
        /\ i \in DOMAIN decisions /\ decisions[i].allowed
        /\ inbox[i] \in InboxRow /\ InboxValid(inbox[i])

EvidenceInv ==
    /\ \A a \in actions : ActionValid(a)
    /\ DOMAIN expiries \subseteq DOMAIN alerts
    /\ \A i \in DOMAIN expiries : ExpiryValid(expiries[i], alerts[i])

WorkInv ==
    /\ DOMAIN work = Worker
    /\ \A w \in Evaluating : PendingSound(work[w])
    /\ \A w \in Worker : (work[w] # NoWork /\ work[w].kind = "sweep") =>
        /\ work[w].batch \subseteq DOMAIN alerts
        /\ \A a \in work[w].batch : alerts[a].expires <= work[w].at

\* What a single evaluation has decided still holds when it is written, because
\* no other evaluation can have published in between.
AloneInv ==
    /\ \A v, w \in Evaluating : v = w
    /\ \A w \in Evaluating : \A d \in work[w].decision : \A a \in DOMAIN alerts :
        work[w].evaluation.alert => Respected(alerts[a], work[w].evaluation.rule, d.at)

SpacingInv == ~concurrent => AloneInv /\ WindowsRespected

CenterInv ==
    /\ now \in Nat /\ concurrent \in BOOLEAN
    /\ DefinitionsInv /\ JobsInv /\ EvaluationsInv /\ AlertsInv /\ EvidenceInv /\ WorkInv
    /\ SpacingInv

-----------------------------------------------------------------------------
(* What the builders of the records establish.                             *)

\* A view of an assessment is a source reference that reads back.
LEMMA ReferenceSound ==
    ASSUME NEW e, NEW a, a.expires \in Int, NEW at \in Int
    PROVE  /\ SourceSound(SourceReference(e, a, at))
           /\ SourceReference(e, a, at).at = at
  <1> DEFINE s == SourceReference(e, a, at)
  <1>1. /\ s.asOf = a.asOf /\ s.expires = a.expires /\ s.at = at /\ s.expected = Boundary(at)
        /\ s.status = a.status
        /\ s.unavailable = UnavailableReasons(a, at)
        /\ s.consumable = (UnavailableReasons(a, at) = {})
    BY DEF SourceReference
  <1> HIDE DEF s
  <1>2. SourceValid(s)
    <2>1. s.unavailable
            = {r \in {"assessment_not_ready", "assessment_expired", "boundary_mismatch"} :
                 \/ r = "assessment_not_ready" /\ s.status # "ready"
                 \/ r = "assessment_expired" /\ s.expires <= s.at
                 \/ r = "boundary_mismatch" /\ s.asOf # s.expected}
      BY <1>1 DEF UnavailableReasons
    <2>2. s.consumable = (s.unavailable = {})
      BY <1>1
    <2> QED
      BY <2>1, <2>2 DEF SourceValid
  <1>3. s.consumable \in BOOLEAN
    BY <1>1
  <1>4. SourceSound(s) /\ s.at = at
    BY <1>1, <1>2, <1>3 DEF SourceSound
  <1> QED
    BY <1>4 DEF s

\* What is known of an evaluation of a source by a rule.
EvaluationSound(e, rule, source) ==
    /\ e.rule = rule /\ e.source = source /\ e.at = source.at
    /\ e.alert \in BOOLEAN /\ e.alert = (e.reasons = {})
    /\ EvaluationValid(e)
    /\ e.alert => DraftBuildable(rule, source, source.at)

LEMMA EvaluateSound ==
    ASSUME NEW rule, rule.state \in {"enabled", "disabled"},
           NEW source, SourceSound(source), NEW policyReasons
    PROVE  EvaluationSound(Evaluate(rule, source, policyReasons), rule, source)
  <1> DEFINE basic == {r \in {"rule_disabled", "source_not_consumable", "source_expired"} :
                         \/ r = "rule_disabled" /\ rule.state = "disabled"
                         \/ r = "source_not_consumable" /\ ~source.consumable
                         \/ r = "source_expired" /\ source.expires <= source.at}
             reasons == IF basic # {} THEN basic
                        ELSE IF ~Matches(rule.condition, source) THEN {"condition_not_matched"}
                        ELSE policyReasons
             e == Evaluate(rule, source, policyReasons)
  <1>1. e = IF reasons # {} THEN Suppressed(rule, source, reasons)
            ELSE Published(Draft(rule, source, source.at))
    BY DEF Evaluate
  <1>2. /\ "rule_disabled" \in basic <=> rule.state = "disabled"
        /\ "source_not_consumable" \in basic <=> ~source.consumable
        /\ "source_expired" \in basic <=> source.expires <= source.at
    OBVIOUS
  <1>3. basic # {} => reasons = basic
    OBVIOUS
  <1>4. reasons = {} => basic = {} /\ Matches(rule.condition, source)
    OBVIOUS
  <1> HIDE DEF basic, reasons, e
  <1>5. CASE reasons # {}
    <2>1. /\ e.id = Identity(rule, source) /\ e.rule = rule /\ e.source = source
          /\ e.disposition = "suppressed" /\ e.reasons = reasons /\ e.alert = FALSE
          /\ e.at = source.at
      BY <1>1, <1>5 DEF Suppressed
    <2>2. /\ rule.state = "disabled" => "rule_disabled" \in reasons
          /\ ~source.consumable => "source_not_consumable" \in reasons
          /\ source.expires <= source.at => "source_expired" \in reasons
      BY <1>2, <1>3
    <2>3. EvaluationValid(e)
      BY <1>5, <2>1, <2>2 DEF EvaluationValid
    <2>4. EvaluationSound(e, rule, source)
      BY <1>5, <2>1, <2>3 DEF EvaluationSound
    <2> QED
      BY <2>4 DEF e
  <1>6. CASE reasons = {}
    <2>1. /\ e.id = Identity(rule, source) /\ e.rule = rule /\ e.source = source
          /\ e.disposition = "published" /\ e.reasons = {} /\ e.alert = TRUE
          /\ e.at = source.at
      BY <1>1, <1>6 DEF Published, Draft
    <2>2. /\ rule.state = "enabled" /\ source.consumable /\ ~(source.expires <= source.at)
          /\ Matches(rule.condition, source)
      BY <1>2, <1>4, <1>6
    <2>3. source.expires > source.at
      BY <2>2 DEF SourceSound
    <2>4. EvaluationValid(e)
      BY <2>1, <2>2, <2>3 DEF EvaluationValid
    <2>5. DraftBuildable(rule, source, source.at)
      BY <2>2, <2>3 DEF DraftBuildable
    <2>6. EvaluationSound(e, rule, source)
      BY <2>1, <2>4, <2>5 DEF EvaluationSound
    <2> QED
      BY <2>6 DEF e
  <1> QED
    BY <1>5, <1>6

\* Once nothing else is against an alert, the policy alone decides.
LEMMA PolicyDecides ==
    ASSUME NEW rule, NEW source, Evaluate(rule, source, {}).alert = TRUE, NEW policyReasons
    PROVE  Evaluate(rule, source, policyReasons).reasons = policyReasons
  <1> DEFINE basic == {r \in {"rule_disabled", "source_not_consumable", "source_expired"} :
                         \/ r = "rule_disabled" /\ rule.state = "disabled"
                         \/ r = "source_not_consumable" /\ ~source.consumable
                         \/ r = "source_expired" /\ source.expires <= source.at}
             reasons(R) == IF basic # {} THEN basic
                           ELSE IF ~Matches(rule.condition, source) THEN {"condition_not_matched"}
                           ELSE R
  <1>1. \A R : Evaluate(rule, source, R) = IF reasons(R) # {} THEN Suppressed(rule, source, reasons(R))
                                           ELSE Published(Draft(rule, source, source.at))
    BY DEF Evaluate
  <1> HIDE DEF basic
  <1>2. Suppressed(rule, source, reasons({})).alert = FALSE
    BY DEF Suppressed
  <1>3. reasons({}) = {}
    BY <1>1, <1>2
  <1>4. reasons(policyReasons) = policyReasons
    BY <1>3
  <1>5. /\ Suppressed(rule, source, policyReasons).reasons = policyReasons
        /\ Published(Draft(rule, source, source.at)).reasons = {}
    BY DEF Suppressed, Published
  <1> QED
    BY <1>1, <1>4, <1>5

\* A draft of a source that has not expired.
DraftSound(d, rule, at) ==
    /\ DraftValid(d) /\ d.created = at /\ d.rule = rule /\ d.expires \in Int

LEMMA DraftIsSound ==
    ASSUME NEW rule, rule.lifetime \in Nat, NEW source, SourceSound(source),
           DraftBuildable(rule, source, source.at)
    PROVE  DraftSound(Draft(rule, source, source.at), rule, source.at)
  <1> DEFINE d == Draft(rule, source, source.at)
  <1>1. /\ d.id = Identity(rule, source) /\ d.rule = rule /\ d.source = source
        /\ d.severity = rule.severity /\ d.created = source.at
        /\ d.expires = Expiry(rule, source, source.at)
    BY DEF Draft
  <1> HIDE DEF d
  <1>2. source.at \in Int /\ source.expires \in Int /\ source.at + rule.lifetime \in Int
    BY DEF SourceSound
  <1>3. d.expires \in Int
    BY <1>1, <1>2, PairExtremes DEF Extremes, Expiry
  <1>4. /\ rule.state = "enabled" /\ source.consumable /\ source.expires > source.at
    BY DEF DraftBuildable
  <1>5. source.unavailable = {}
    BY <1>4 DEF SourceSound, SourceValid
  <1>6. source.at <= source.at /\ source.at < source.expires
    BY <1>2, <1>4
  <1>7. DraftValid(d)
    BY <1>1, <1>4, <1>5, <1>6 DEF DraftValid
  <1>8. DraftSound(d, rule, source.at)
    BY <1>1, <1>3, <1>7 DEF DraftSound
  <1> QED
    BY <1>8 DEF d

\* A publication decision passes its validator, allows what it has no reason
\* against, and carries the time it was made at.
DecisionSound(d, at) == DecisionValid(d) /\ d.allowed = (d.reasons = {}) /\ d.at = at

LEMMA PublicationSound ==
    ASSUME NEW id, NEW rule, NEW source, NEW previous, NEW at
    PROVE  DecisionSound(PublicationDecision(id, rule, source, previous, at), at)
  <1> DEFINE quiet == IF Suppresses(CurrentPolicy, rule.severity, at)
                      THEN {[reason |-> "quiet_hours", until |-> QuietHoursEnd(CurrentPolicy, at)]}
                      ELSE {}
             stream == UNION {Blockers(rule, p, at) : p \in previous}
             reasons == {b.reason : b \in quiet \cup stream}
                        \cup (IF source.expires <= at THEN {"source_expired"} ELSE {})
             prior == IF stream = {} THEN {} ELSE previous
             blockers == {b.until : b \in quiet \cup stream}
             d == PublicationDecision(id, rule, source, previous, at)
  <1>1. d = Decision(id, CurrentPolicy, reasons, prior, blockers, at)
    BY DEF PublicationDecision
  <1>2. \A b \in quiet : b.reason = "quiet_hours"
    OBVIOUS
  <1>3. \A b \in stream : b.reason \in {"duplicate", "cooldown_active", "snoozed"}
    <2>1. \A p : \A b \in Blockers(rule, p, at) :
            b.reason \in {"duplicate", "cooldown_active", "snoozed"}
      BY DEF Blockers
    <2> QED
      BY <2>1
  <1> HIDE DEF quiet, stream
  <1>4. reasons \subseteq {"duplicate", "cooldown_active", "quiet_hours", "snoozed",
                           "source_expired"}
    BY <1>2, <1>3
  <1> HIDE DEF reasons, prior, blockers, d
  <1>5. /\ d.allowed = (reasons = {}) /\ d.reasons = reasons /\ d.at = at
        /\ d.previous = IF reasons = {} THEN {} ELSE prior
        /\ d.until = IF reasons = {} \/ blockers = {} THEN NoTime ELSE Max(blockers)
    BY <1>1 DEF Decision
  <1>6. DecisionSound(d, at)
    BY <1>4, <1>5 DEF DecisionSound, DecisionValid
  <1> QED
    BY <1>6 DEF d

\* An alert that gives no reason against another one lies its window and its
\* cooldown before it.
LEMMA NoBlocker ==
    ASSUME NEW id, NEW rule, rule.window \in Nat, rule.cooldown \in Nat, NEW source,
           NEW p, NEW at \in Nat, alerts[p].created \in Int, alerts[p].created <= at,
           PublicationDecision(id, rule, source, {p}, at).reasons = {}
    PROVE  Respected(alerts[p], rule, at)
  <1> DEFINE quiet == IF Suppresses(CurrentPolicy, rule.severity, at)
                      THEN {[reason |-> "quiet_hours", until |-> QuietHoursEnd(CurrentPolicy, at)]}
                      ELSE {}
             stream == UNION {Blockers(rule, q, at) : q \in {p}}
             reasons == {b.reason : b \in quiet \cup stream}
                        \cup (IF source.expires <= at THEN {"source_expired"} ELSE {})
             prior == IF stream = {} THEN {} ELSE {p}
             blockers == {b.until : b \in quiet \cup stream}
  <1>1. PublicationDecision(id, rule, source, {p}, at)
          = Decision(id, CurrentPolicy, reasons, prior, blockers, at)
    BY DEF PublicationDecision
  <1>2. reasons = {}
    <2> HIDE DEF reasons, prior, blockers
    <2> QED
      BY <1>1 DEF Decision
  <1>3. Blockers(rule, p, at) = {}
    <2>1. stream = Blockers(rule, p, at)
      OBVIOUS
    <2> HIDE DEF stream, quiet
    <2> QED
      BY <1>2, <2>1
  <1> DEFINE duplicate == [reason |-> "duplicate", until |-> alerts[p].created + rule.window]
             cooling == [reason |-> "cooldown_active", until |-> alerts[p].created + rule.cooldown]
  <1>4. /\ duplicate.reason = "duplicate" /\ duplicate.until = alerts[p].created + rule.window
        /\ cooling.reason = "cooldown_active"
        /\ cooling.until = alerts[p].created + rule.cooldown
    OBVIOUS
  <1>5. /\ duplicate \in Blockers(rule, p, at) <=>
             /\ duplicate.until > at
             /\ duplicate.reason = "snoozed" => alerts[p].expires > at
             /\ duplicate.reason = "cooldown_active" => rule.cooldown > 0
        /\ cooling \in Blockers(rule, p, at) <=>
             /\ cooling.until > at
             /\ cooling.reason = "snoozed" => alerts[p].expires > at
             /\ cooling.reason = "cooldown_active" => rule.cooldown > 0
    BY DEF Blockers
  <1> HIDE DEF duplicate, cooling
  <1>6. ~(alerts[p].created + rule.window > at)
    BY <1>3, <1>4, <1>5
  <1>7. ~(alerts[p].created + rule.cooldown > at /\ rule.cooldown > 0)
    BY <1>3, <1>4, <1>5
  <1> QED
    BY <1>6, <1>7 DEF Respected

\* The filters of the inbox put an alert under the status its item shows.
LEMMA OneStatus ==
    ASSUME NEW d, d.expires \in Int, NEW s \in InboxRow, NEW at \in Nat
    PROVE  {t \in {"active", "snoozed", "acknowledged", "expired"} : StatusCondition(t, d, s, at)}
             = {ItemStatus(d, s, at)}
  <1>1. s.acked \in Int /\ s.snoozed \in Int
    BY DEF InboxRow
  <1>2. CASE s.acked # NoTime
    <2>1. ItemStatus(d, s, at) = "acknowledged"
      BY <1>2 DEF ItemStatus
    <2> QED
      BY <1>2, <2>1 DEF StatusCondition
  <1>3. CASE s.acked = NoTime /\ d.expires <= at
    <2>1. ItemStatus(d, s, at) = "expired"
      BY <1>3 DEF ItemStatus
    <2>2. ~(d.expires > at)
      BY <1>3
    <2> QED
      BY <1>3, <2>1, <2>2 DEF StatusCondition
  <1>4. CASE s.acked = NoTime /\ ~(d.expires <= at) /\ s.snoozed > at
    <2>1. d.expires > at /\ s.snoozed # NoTime /\ ~(s.snoozed <= at)
      BY <1>1, <1>4 DEF NoTime
    <2>2. ItemStatus(d, s, at) = "snoozed"
      BY <1>4, <2>1 DEF ItemStatus
    <2> QED
      BY <1>4, <2>1, <2>2 DEF StatusCondition
  <1>5. CASE s.acked = NoTime /\ ~(d.expires <= at) /\ ~(s.snoozed > at)
    <2>1. d.expires > at /\ s.snoozed <= at
      BY <1>1, <1>5
    <2>2. ItemStatus(d, s, at) = "active"
      BY <1>5, <2>1 DEF ItemStatus
    <2> QED
      BY <1>5, <2>1, <2>2 DEF StatusCondition
  <1> QED
    BY <1>2, <1>3, <1>4, <1>5

-----------------------------------------------------------------------------
(* The steps.                                                              *)

LEMMA CenterInvInit == CenterInit => CenterInv
  <1> SUFFICES ASSUME CenterInit PROVE CenterInv
    OBVIOUS
  <1>1. /\ now = 0 /\ rules = <<>> /\ policies = <<>> /\ actions = {} /\ concurrent = FALSE
        /\ work = [w \in Worker |-> NoWork]
        /\ DOMAIN jobs = {} /\ DOMAIN evaluations = {} /\ DOMAIN alerts = {}
        /\ DOMAIN decisions = {} /\ DOMAIN inbox = {} /\ DOMAIN expiries = {}
    BY DEF CenterInit, Empty
  <1>2. Evaluating = {}
    BY <1>1 DEF Evaluating
  <1>3. DefinitionsInv /\ JobsInv /\ EvaluationsInv /\ AlertsInv /\ EvidenceInv
    BY <1>1 DEF DefinitionsInv, JobsInv, EvaluationsInv, AlertsInv, EvidenceInv
  <1>4. WorkInv /\ SpacingInv
    BY <1>1, <1>2 DEF WorkInv, SpacingInv, AloneInv, WindowsRespected
  <1> QED
    BY <1>1, <1>3, <1>4 DEF CenterInv

\* The time only moves on.
LEMMA CenterTickKeeps ==
    ASSUME CenterInv, CenterTick
    PROVE  CenterInv'
  <1>1. /\ now' = now + 1 /\ now \in Nat
        /\ UNCHANGED <<work, inbox, actions, expiries, rules, jobs, evaluations, alerts,
                       decisions, policies, concurrent>>
    BY DEF CenterTick, CenterInv, publicationVars
  <1>2. 0..now \subseteq 0..now'
    BY <1>1
  <1>3. DefinitionsInv' /\ EvaluationsInv' /\ EvidenceInv'
    BY <1>1 DEF CenterInv, DefinitionsInv, EvaluationsInv, EvidenceInv
  <1>4. JobsInv'
    BY <1>1, <1>2 DEF CenterInv, JobsInv
  <1>5. AlertsInv'
    BY <1>1, <1>2 DEF CenterInv, AlertsInv
  <1>6. Evaluating' = Evaluating
    BY <1>1 DEF Evaluating
  <1>7. ASSUME NEW w \in Evaluating PROVE PendingSound(work[w])'
    <2>1. PendingSound(work[w])
      BY DEF CenterInv, WorkInv
    <2>2. work[w].evaluation.source.at <= now'
      BY <1>1, <2>1 DEF PendingSound
    <2> QED
      BY <1>1, <2>1, <2>2 DEF PendingSound
  <1>8. WorkInv'
    BY <1>1, <1>6, <1>7 DEF CenterInv, WorkInv
  <1>9. SpacingInv'
    BY <1>1, <1>6 DEF CenterInv, SpacingInv, AloneInv, WindowsRespected
  <1> QED
    BY <1>1, <1>3, <1>4, <1>5, <1>8, <1>9 DEF CenterInv

\* What a step that leaves evaluations, alerts and work alone keeps.
Untouched ==
    UNCHANGED <<now, work, expiries, evaluations, alerts, decisions, concurrent>>

LEMMA UntouchedKeeps ==
    ASSUME CenterInv, Untouched
    PROVE  now' \in Nat /\ concurrent' \in BOOLEAN /\ EvaluationsInv' /\ WorkInv' /\ SpacingInv'
  <1>1. Evaluating' = Evaluating
    BY DEF Evaluating, Untouched
  <1>2. now' \in Nat /\ concurrent' \in BOOLEAN /\ EvaluationsInv'
    BY DEF CenterInv, EvaluationsInv, Untouched
  <1>3. ASSUME NEW w \in Evaluating PROVE PendingSound(work[w])'
    BY DEF CenterInv, WorkInv, PendingSound, Untouched
  <1>4. WorkInv'
    BY <1>1, <1>3 DEF CenterInv, WorkInv, Untouched
  <1>5. SpacingInv'
    BY <1>1 DEF CenterInv, SpacingInv, AloneInv, WindowsRespected, Untouched
  <1> QED
    BY <1>2, <1>4, <1>5

LEMMA StageRuleKeeps ==
    ASSUME CenterInv, NEW c \in RuleContent, StageRule(c)
    PROVE  CenterInv'
  <1> DEFINE r == RuleDefinition(c, Len(rules) + 1)
  <1>1. /\ RuleValid(r) /\ rules' = Append(rules, r)
        /\ UNCHANGED <<now, work, inbox, actions, expiries, jobs, evaluations, alerts, decisions,
                       policies, concurrent>>
    BY DEF StageRule
  <1>2. rules \in Seq(RuleRow) /\ Len(rules) \in Nat
    BY DEF CenterInv, DefinitionsInv
  <1>3. r \in RuleRow /\ r.version = Len(rules) + 1
    <2>1. PICK v \in Nat : v = Len(rules) + 1
      BY <1>2
    <2>2. RuleDefinition(c, v) \in RuleRow
      BY DEF RuleRow
    <2>3. RuleDefinition(c, v).version = v
      BY DEF RuleDefinition
    <2>. QED
      BY <2>1, <2>2, <2>3
  <1> HIDE DEF r
  <1>4. /\ rules' \in Seq(RuleRow) /\ DOMAIN rules = 1..Len(rules)
        /\ DOMAIN rules' = 1..(Len(rules) + 1)
        /\ rules'[Len(rules) + 1] = r
        /\ \A i \in DOMAIN rules : rules'[i] = rules[i]
    BY <1>1, <1>2, <1>3
  <1>5. \A i \in DOMAIN rules' : i \in DOMAIN rules \/ i = Len(rules) + 1
    BY <1>2, <1>4
  <1>6. DOMAIN rules \subseteq DOMAIN rules'
    BY <1>2, <1>4
  <1>7. \A i \in DOMAIN rules' : RuleValid(rules'[i]) /\ rules'[i].version = i
    BY <1>1, <1>3, <1>4, <1>5 DEF CenterInv, DefinitionsInv
  <1>8. DefinitionsInv'
    BY <1>1, <1>4, <1>7 DEF CenterInv, DefinitionsInv
  <1>9. JobsInv'
    BY <1>1, <1>6 DEF CenterInv, JobsInv
  <1>10. AlertsInv' /\ EvidenceInv'
    BY <1>1 DEF CenterInv, AlertsInv, EvidenceInv
  <1> QED
    BY <1>1, <1>8, <1>9, <1>10, UntouchedKeeps DEF CenterInv, Untouched

LEMMA UpdatePolicyKeeps ==
    ASSUME CenterInv, NEW c \in PolicyContent, UpdatePolicy(c)
    PROVE  CenterInv'
  <1> DEFINE p == Policy(Len(policies) + 1, c)
  <1>1. /\ PolicyValid(p) /\ policies' = Append(policies, p)
        /\ UNCHANGED <<now, work, inbox, actions, expiries, rules, jobs, evaluations, alerts,
                       decisions, concurrent>>
    BY DEF UpdatePolicy
  <1>2. policies \in Seq(PolicyRow) /\ Len(policies) \in Nat
    BY DEF CenterInv, DefinitionsInv
  <1>3. p \in PolicyRow
    BY <1>2 DEF PolicyRow
  <1> HIDE DEF p
  <1>4. /\ policies' \in Seq(PolicyRow) /\ DOMAIN policies = 1..Len(policies)
        /\ DOMAIN policies' = 1..(Len(policies) + 1)
        /\ policies'[Len(policies) + 1] = p
        /\ \A i \in DOMAIN policies : policies'[i] = policies[i]
    BY <1>1, <1>2, <1>3
  <1>5. \A i \in DOMAIN policies' : i \in DOMAIN policies \/ i = Len(policies) + 1
    BY <1>2, <1>4
  <1>6. \A i \in DOMAIN policies' : PolicyValid(policies'[i])
    BY <1>1, <1>4, <1>5 DEF CenterInv, DefinitionsInv
  <1>7. DefinitionsInv'
    BY <1>1, <1>4, <1>6 DEF CenterInv, DefinitionsInv
  <1>8. JobsInv' /\ AlertsInv' /\ EvidenceInv'
    BY <1>1 DEF CenterInv, JobsInv, AlertsInv, EvidenceInv
  <1> QED
    BY <1>1, <1>7, <1>8, UntouchedKeeps DEF CenterInv, Untouched

LEMMA EnqueueKeeps ==
    ASSUME CenterInv, NEW v \in DOMAIN rules, NEW e \in SourceEvent, Enqueue(v, e)
    PROVE  CenterInv'
  <1> DEFINE id == <<v, e>>
             row == [status |-> "queued", requested |-> now]
  <1>1. /\ jobs' = Put(jobs, id, row) /\ id \notin DOMAIN jobs
        /\ UNCHANGED <<now, work, inbox, actions, expiries, rules, evaluations, alerts, decisions,
                       policies, concurrent>>
    BY DEF Enqueue
  <1>2. row \in [status : {"queued", "done"}, requested : 0..now]
    BY DEF CenterInv
  <1>3. id[1] = v /\ id[2] = e
    OBVIOUS
  <1> HIDE DEF id, row
  <1>4. IsPut(jobs', jobs, id, row)
    BY <1>1, PutRow
  <1>5. JobsInv'
    BY <1>1, <1>2, <1>3, <1>4 DEF CenterInv, JobsInv, IsPut
  <1>6. DefinitionsInv' /\ AlertsInv' /\ EvidenceInv'
    BY <1>1 DEF CenterInv, DefinitionsInv, AlertsInv, EvidenceInv
  <1> QED
    BY <1>1, <1>5, <1>6, UntouchedKeeps DEF CenterInv, Untouched

LEMMA EnqueueForSourceKeeps ==
    ASSUME CenterInv, NEW e \in SourceEvent, EnqueueForSource(e)
    PROVE  CenterInv'
  <1>1. rules # <<>> /\ Enqueue(Len(rules), e)
    BY DEF EnqueueForSource
  <1>2. Len(rules) \in DOMAIN rules
    BY <1>1 DEF CenterInv, DefinitionsInv
  <1> QED
    BY <1>1, <1>2, EnqueueKeeps

LEMMA FinishEvaluatedKeeps ==
    ASSUME CenterInv, NEW id, FinishEvaluated(id)
    PROVE  CenterInv'
  <1>1. /\ jobs' = [jobs EXCEPT ![id].status = "done"] /\ id \in DOMAIN jobs
        /\ UNCHANGED <<now, work, inbox, actions, expiries, rules, evaluations, alerts, decisions,
                       policies, concurrent>>
    BY DEF FinishEvaluated
  <1>2. JobsInv'
    BY <1>1 DEF CenterInv, JobsInv
  <1>3. DefinitionsInv' /\ AlertsInv' /\ EvidenceInv'
    BY <1>1 DEF CenterInv, DefinitionsInv, AlertsInv, EvidenceInv
  <1> QED
    BY <1>1, <1>2, <1>3, UntouchedKeeps DEF CenterInv, Untouched

LEMMA AcknowledgeKeeps ==
    ASSUME CenterInv, NEW id, Acknowledge(id)
    PROVE  CenterInv'
  <1> DEFINE s == Acknowledged(inbox[id], now)
             a == ActionRecord(id, "acknowledged", now, NoTime)
  <1>1. /\ id \in DOMAIN alerts
        /\ inbox' = [inbox EXCEPT ![id] = s] /\ actions' = actions \cup {a}
        /\ UNCHANGED <<now, work, expiries, rules, jobs, evaluations, alerts, decisions,
                       policies, concurrent>>
    BY DEF Acknowledge, publicationVars
  <1>2. now \in Nat /\ NoTime \in Int
    BY DEF CenterInv, NoTime
  <1>3. s \in InboxRow /\ s.acked = now /\ s.snoozed = NoTime /\ s.updated = now
    BY <1>2 DEF Acknowledged, InboxRow
  <1>4. a.kind = "acknowledged" /\ a.until = NoTime
    BY DEF ActionRecord
  <1> HIDE DEF s, a
  <1>5. InboxValid(s) /\ ActionValid(a)
    BY <1>2, <1>3, <1>4 DEF InboxValid, ActionValid
  <1>6. AlertsInv'
    BY <1>1, <1>3, <1>5 DEF CenterInv, AlertsInv
  <1>7. EvidenceInv'
    BY <1>1, <1>5 DEF CenterInv, EvidenceInv
  <1>8. DefinitionsInv' /\ JobsInv'
    BY <1>1 DEF CenterInv, DefinitionsInv, JobsInv
  <1> QED
    BY <1>1, <1>6, <1>7, <1>8, UntouchedKeeps DEF CenterInv, Untouched

LEMMA SnoozeKeeps ==
    ASSUME CenterInv, NEW id, NEW d \in Duration, Snooze(id, d)
    PROVE  CenterInv'
  <1> DEFINE s == Snoozed(inbox[id], now, d)
             a == ActionRecord(id, "snoozed", now, now + d)
  <1>1. /\ id \in DOMAIN alerts /\ inbox[id].acked = NoTime
        /\ inbox' = [inbox EXCEPT ![id] = s] /\ actions' = actions \cup {a}
        /\ UNCHANGED <<now, work, expiries, rules, jobs, evaluations, alerts, decisions,
                       policies, concurrent>>
    BY DEF Snooze, publicationVars
  <1>2. now \in Nat /\ d \in Nat \ {0}
    BY AlertCenterAssumption DEF CenterInv
  <1>3. inbox[id] \in InboxRow
    BY <1>1 DEF CenterInv, AlertsInv
  <1>4. s \in InboxRow /\ s.acked = NoTime
    <2> DEFINE r == inbox[id]
               until == now + d
    <2>1. s = [r EXCEPT !.snoozed = until, !.updated = now]
      BY DEF Snoozed
    <2>2. r \in InboxRow /\ r.acked = NoTime /\ until \in Int /\ now \in Int
      BY <1>1, <1>2, <1>3
    <2> HIDE DEF r, until, s
    <2> QED
      BY <2>1, <2>2 DEF InboxRow
  <1>5. a.kind = "snoozed" /\ a.until = now + d /\ a.at = now
    BY DEF ActionRecord
  <1> HIDE DEF s, a
  <1>6. InboxValid(s)
    BY <1>4 DEF InboxValid
  <1>7. ActionValid(a)
    BY <1>2, <1>5 DEF ActionValid, NoTime
  <1>8. AlertsInv'
    BY <1>1, <1>4, <1>6 DEF CenterInv, AlertsInv
  <1>9. EvidenceInv'
    BY <1>1, <1>7 DEF CenterInv, EvidenceInv
  <1>10. DefinitionsInv' /\ JobsInv'
    BY <1>1 DEF CenterInv, DefinitionsInv, JobsInv
  <1> QED
    BY <1>1, <1>8, <1>9, <1>10, UntouchedKeeps DEF CenterInv, Untouched

\* A worker that ends its transaction has nothing prepared any more.
JobEnded(w) ==
    /\ DOMAIN work' = Worker
    /\ work'[w] = NoWork
    /\ \A v \in Worker : v # w => work'[v] = work[v]
    /\ Evaluating' = Evaluating \ {w}

LEMMA CloseEnds ==
    ASSUME WorkInv, NEW w \in Worker, Close(w)
    PROVE  JobEnded(w)
  <1>1. DOMAIN work = Worker /\ work' = [work EXCEPT ![w] = NoWork]
    BY DEF WorkInv, Close
  <1>2. /\ DOMAIN work' = Worker /\ work'[w] = NoWork
        /\ \A v \in Worker : v # w => work'[v] = work[v]
    BY <1>1
  <1>3. Evaluating' = Evaluating \ {w}
    BY <1>2 DEF Evaluating
  <1> QED
    BY <1>2, <1>3 DEF JobEnded

LEMMA AbandonKeeps ==
    ASSUME CenterInv, NEW w \in Worker, Close(w),
           UNCHANGED <<now, inbox, actions, rules, jobs, evaluations, alerts,
                       decisions, policies, concurrent>>,
           EvidenceInv'
    PROVE  CenterInv'
  <1>1. JobEnded(w)
    BY CloseEnds DEF CenterInv
  <1>2. DefinitionsInv' /\ JobsInv' /\ EvaluationsInv' /\ AlertsInv'
    BY DEF CenterInv, DefinitionsInv, JobsInv, EvaluationsInv, AlertsInv
  <1>3. ASSUME NEW v \in Evaluating' PROVE PendingSound(work[v])' /\ v \in Evaluating /\ v # w
    <2>1. v \in Evaluating /\ v # w /\ v \in Worker
      BY <1>1 DEF JobEnded, Evaluating
    <2>2. work'[v] = work[v]
      BY <1>1, <2>1 DEF JobEnded
    <2>3. PendingSound(work[v])
      BY <2>1 DEF CenterInv, WorkInv
    <2> QED
      BY <2>1, <2>2, <2>3 DEF PendingSound
  <1>4. WorkInv'
    BY <1>1, <1>3 DEF CenterInv, WorkInv, JobEnded
  <1>5. \A v \in Evaluating' : work'[v] = work[v]
    BY <1>1, <1>3 DEF JobEnded, Evaluating
  <1>6. SpacingInv'
    BY <1>3, <1>5 DEF CenterInv, SpacingInv, AloneInv, WindowsRespected
  <1> QED
    BY <1>2, <1>4, <1>6 DEF CenterInv

LEMMA CommitSweepKeeps ==
    ASSUME CenterInv, NEW w \in Worker, CommitSweep(w)
    PROVE  CenterInv'
  <1>1. /\ work[w] # NoWork /\ work[w].kind = "sweep"
        /\ expiries' = [a \in DOMAIN expiries \cup work[w].batch |->
                          IF a \in work[w].batch
                          THEN [expired |-> alerts[a].expires, recorded |-> work[w].at]
                          ELSE expiries[a]]
        /\ Close(w)
        /\ UNCHANGED <<now, inbox, actions, rules, jobs, evaluations, alerts, decisions,
                       policies, concurrent>>
    BY DEF CommitSweep, publicationVars
  <1>2. work[w].batch \subseteq DOMAIN alerts
    BY <1>1 DEF CenterInv, WorkInv
  <1>3. \A a \in work[w].batch : alerts[a].expires <= work[w].at
    BY <1>1 DEF CenterInv, WorkInv
  <1>4. DOMAIN expiries' = DOMAIN expiries \cup work[w].batch
    BY <1>1
  <1>5. ASSUME NEW a \in DOMAIN expiries' PROVE ExpiryValid(expiries'[a], alerts'[a])
    <2>1. CASE a \in work[w].batch
      <3>1. expiries'[a].expired = alerts[a].expires /\ expiries'[a].recorded = work[w].at
        BY <1>1, <1>4, <2>1
      <3> QED
        BY <1>1, <1>3, <2>1, <3>1 DEF ExpiryValid
    <2>2. CASE a \notin work[w].batch
      <3>1. a \in DOMAIN expiries /\ expiries'[a] = expiries[a]
        BY <1>1, <1>4, <2>2
      <3> QED
        BY <1>1, <3>1 DEF CenterInv, EvidenceInv
    <2> QED
      BY <2>1, <2>2
  <1>6. EvidenceInv'
    BY <1>1, <1>2, <1>4, <1>5 DEF CenterInv, EvidenceInv
  <1> QED
    BY <1>1, <1>6, AbandonKeeps

LEMMA RejectNever ==
    ASSUME CenterInv, NEW w \in Worker, RejectEvaluation(w)
    PROVE  FALSE
  <1>1. w \in Evaluating /\ ~Accepted(work[w])
    BY DEF RejectEvaluation
  <1> QED
    BY <1>1 DEF CenterInv, WorkInv, PendingSound

LEMMA StartSweepKeeps ==
    ASSUME CenterInv, NEW w \in Worker, StartSweep(w)
    PROVE  CenterInv'
  <1> DEFINE due == {a \in DOMAIN alerts : alerts[a].expires <= now /\ a \notin DOMAIN expiries}
  <1>1. PICK batch \in Oldest(due, SweepLimit) :
          work' = [work EXCEPT ![w] = [kind |-> "sweep", batch |-> batch, at |-> now]]
    BY DEF StartSweep
  <1>2. /\ work[w] = NoWork
        /\ UNCHANGED <<now, inbox, actions, expiries, rules, jobs, evaluations, alerts, decisions,
                       policies, concurrent>>
    BY DEF StartSweep, publicationVars
  <1>3. batch \subseteq due
    BY DEF Oldest
  <1> DEFINE p == [kind |-> "sweep", batch |-> batch, at |-> now]
  <1>4. p.kind = "sweep" /\ p.batch = batch /\ p.at = now
    OBVIOUS
  <1>5. work' = [work EXCEPT ![w] = p]
    BY <1>1
  <1> HIDE DEF p
  <1>6. /\ DOMAIN work' = Worker /\ work'[w] = p
        /\ \A v \in Worker : v # w => work'[v] = work[v]
    BY <1>5 DEF CenterInv, WorkInv
  <1>7. Evaluating' = Evaluating /\ w \notin Evaluating
    BY <1>2, <1>4, <1>6 DEF Evaluating
  <1>8. \A v \in Evaluating : work'[v] = work[v]
    BY <1>6, <1>7 DEF Evaluating
  <1>9. ASSUME NEW v \in Evaluating PROVE PendingSound(work[v])'
    <2>1. PendingSound(work[v]) /\ work'[v] = work[v]
      BY <1>8 DEF CenterInv, WorkInv
    <2> QED
      BY <1>2, <2>1 DEF PendingSound
  <1>10. /\ p.batch \subseteq DOMAIN alerts
         /\ \A a \in p.batch : alerts[a].expires <= p.at
    BY <1>3, <1>4
  <1>11. WorkInv'
    BY <1>2, <1>6, <1>7, <1>9, <1>10 DEF CenterInv, WorkInv
  <1>12. SpacingInv'
    BY <1>2, <1>7, <1>8 DEF CenterInv, SpacingInv, AloneInv, WindowsRespected
  <1>13. DefinitionsInv' /\ JobsInv' /\ EvaluationsInv' /\ AlertsInv' /\ EvidenceInv'
    BY <1>2 DEF CenterInv, DefinitionsInv, JobsInv, EvaluationsInv, AlertsInv, EvidenceInv
  <1> QED
    BY <1>2, <1>11, <1>12, <1>13 DEF CenterInv

\* What the fields of a rule row are.
LEMMA RuleRowFields ==
    ASSUME NEW r \in RuleRow
    PROVE  /\ r.state \in {"enabled", "disabled"}
           /\ r.lifetime \in Nat /\ r.window \in Nat /\ r.cooldown \in Nat
  <1>1. PICK c \in RuleContent, v \in Nat : r = RuleDefinition(c, v)
    BY DEF RuleRow
  <1>2. r.state = c.state /\ r.lifetime = c.lifetime /\ r.window = c.window /\ r.cooldown = c.cooldown
    BY <1>1 DEF RuleDefinition
  <1> QED
    BY <1>2, AlertCenterAssumption

\* The newest alert of a stream decides for all of them.
LEMMA NewestDecides ==
    ASSUME CenterInv, NEW id, NEW rule \in RuleRow, NEW source,
           NEW previous \in (IF LatestStreamAlert(rule, now) = {} THEN {{}}
                             ELSE {{p} : p \in LatestStreamAlert(rule, now)}),
           PublicationDecision(id, rule, source, previous, now).reasons = {},
           NEW a \in DOMAIN alerts
    PROVE  Respected(alerts[a], rule, now)
  <1>1. /\ now \in Nat
        /\ \A b \in DOMAIN alerts : alerts[b].created \in 0..now
    BY DEF CenterInv, AlertsInv
  <1> DEFINE Creations == {alerts[b].created : b \in DOMAIN alerts}
  <1>2. Creations \subseteq Nat /\ Creations # {} /\ Creations \subseteq 0..now
    BY <1>1
  <1>3. IsFiniteSet(Creations)
    <2>1. IsFiniteSet(0..now)
      BY <1>1, FS_Interval
    <2> HIDE DEF Creations
    <2> QED
      BY <1>2, <2>1, FS_Subset
  <1>4. PICK m \in Creations : \A k \in Creations : k <= m
    <2> HIDE DEF Creations
    <2> QED
      BY <1>2, <1>3, FiniteMaximum
  <1>5. PICK q \in DOMAIN alerts : m = alerts[q].created
    OBVIOUS
  <1>6. \A b \in DOMAIN alerts : alerts[b].created <= alerts[q].created
    BY <1>4, <1>5
  <1>7. q \in LatestStreamAlert(rule, now)
    BY <1>1, <1>6 DEF LatestStreamAlert
  <1>8. PICK p \in LatestStreamAlert(rule, now) : previous = {p}
    BY <1>7
  <1>9. /\ p \in DOMAIN alerts /\ alerts[p].created <= now
        /\ \A b \in DOMAIN alerts : alerts[b].created <= now
                                      => alerts[b].created <= alerts[p].created
    BY <1>8 DEF LatestStreamAlert
  <1>10. rule.window \in Nat /\ rule.cooldown \in Nat
    BY RuleRowFields
  <1>11. Respected(alerts[p], rule, now)
    <2>1. alerts[p].created \in Int
      BY <1>1, <1>9
    <2>2. PublicationDecision(id, rule, source, {p}, now).reasons = {}
      BY <1>8
    <2> QED
      BY <1>1, <1>9, <1>10, <2>1, <2>2, NoBlocker
  <1>12. /\ alerts[a].created \in Int /\ alerts[p].created \in Int
         /\ alerts[a].created <= alerts[p].created
    <2>1. alerts[a].created \in 0..now /\ alerts[p].created \in 0..now
      BY <1>1, <1>9
    <2> QED
      BY <1>1, <1>9, <2>1
  <1> QED
    BY <1>1, <1>10, <1>11, <1>12 DEF Respected

\* What a worker prepares is accepted when it writes.
LEMMA PreparedSound ==
    ASSUME NEW rule \in RuleRow, NEW source, SourceSound(source),
           source.at \in Nat, source.at <= now, NEW p,
           EvaluationSound(p.evaluation, rule, source),
           p.evaluation.alert => p.decision # {},
           \A d \in p.decision : DecisionSound(d, now) /\ d.reasons = p.evaluation.reasons
    PROVE  PendingSound(p)
  <1> DEFINE e == p.evaluation
  <1>1. /\ e.rule = rule /\ e.source = source /\ e.at = source.at
        /\ e.alert \in BOOLEAN /\ e.alert = (e.reasons = {})
        /\ EvaluationValid(e)
        /\ e.alert => DraftBuildable(rule, source, source.at)
    BY DEF EvaluationSound
  <1>2. rule.lifetime \in Nat
    BY RuleRowFields
  <1>3. e.alert => /\ DraftBuildable(e.rule, e.source, e.at)
                   /\ DraftValid(Draft(e.rule, e.source, e.at))
    <2> SUFFICES ASSUME e.alert PROVE /\ DraftBuildable(e.rule, e.source, e.at)
                                      /\ DraftValid(Draft(e.rule, e.source, e.at))
      OBVIOUS
    <2>1. DraftBuildable(rule, source, source.at)
      BY <1>1
    <2>2. DraftSound(Draft(rule, source, source.at), rule, source.at)
      BY <1>2, <2>1, DraftIsSound
    <2>3. DraftValid(Draft(rule, source, source.at))
      BY <2>2 DEF DraftSound
    <2> QED
      BY <1>1, <2>1, <2>3
  <1>4. \A d \in p.decision : /\ DecisionValid(d) /\ d.allowed = e.alert
                              /\ d.reasons = e.reasons
    BY <1>1 DEF DecisionSound
  <1>5. Accepted(p)
    BY <1>1, <1>3, <1>4 DEF Accepted
  <1> QED
    BY <1>1, <1>5 DEF PendingSound

\* What a worker has read and decided when it begins.
Prepared(p) ==
    /\ p.kind = "evaluation"
    /\ PendingSound(p)
    /\ p.evaluation.alert =>
        \A d \in p.decision, a \in DOMAIN alerts : Respected(alerts[a], p.evaluation.rule, d.at)

LEMMA StartPrepares ==
    ASSUME CenterInv, NEW w \in Worker, NEW id, StartEvaluation(w, id)
    PROVE  \E p : Prepared(p) /\ work' = [work EXCEPT ![w] = p]
  <1> DEFINE rule == rules[id[1]]
             source == SourceReference(id[2], Assessment[id[2]], jobs[id].requested)
             basic == Evaluate(rule, source, {})
             newest == LatestStreamAlert(rule, now)
             Pending(e, d) == [kind |-> "evaluation", id |-> id, evaluation |-> e, decision |-> d]
  <1>1. id \in DOMAIN jobs
    BY DEF StartEvaluation
  <1>2. /\ jobs[id].requested \in 0..now /\ id[1] \in DOMAIN rules /\ id[2] \in SourceEvent
        /\ now \in Nat
    BY <1>1 DEF CenterInv, JobsInv
  <1>3. rule \in RuleRow
    BY <1>2 DEF CenterInv, DefinitionsInv
  <1>4. SourceSound(source) /\ source.at = jobs[id].requested
    <2>1. Assessment[id[2]].expires \in Int /\ jobs[id].requested \in Int
      BY <1>2, AlertCenterAssumption
    <2> QED
      BY <2>1, ReferenceSound
  <1>5. source.at \in Nat /\ source.at <= now
    BY <1>2, <1>4
  <1>6. rule.state \in {"enabled", "disabled"}
    BY <1>3, RuleRowFields
  <1>7. \/ ~basic.alert /\ work' = [work EXCEPT ![w] = Pending(basic, {})]
        \/ /\ basic.alert
           /\ \E previous \in (IF newest = {} THEN {{}} ELSE {{p} : p \in newest}) :
                LET d == PublicationDecision(id, rule, source, previous, now)
                IN work' = [work EXCEPT ![w] = Pending(Evaluate(rule, source, d.reasons), {d})]
    BY DEF StartEvaluation
  <1> HIDE DEF rule, source
  <1>8. EvaluationSound(basic, rule, source)
    BY <1>4, <1>6, EvaluateSound
  <1>9. CASE ~basic.alert /\ work' = [work EXCEPT ![w] = Pending(basic, {})]
    <2> DEFINE p == Pending(basic, {})
    <2>1. p.kind = "evaluation" /\ p.evaluation = basic /\ p.decision = {}
      OBVIOUS
    <2> HIDE DEF p, basic
    <2>2. PendingSound(p)
      BY <1>3, <1>4, <1>5, <1>8, <1>9, <2>1, PreparedSound
    <2>3. Prepared(p)
      BY <1>9, <2>1, <2>2 DEF Prepared
    <2>4. work' = [work EXCEPT ![w] = p]
      BY <1>9 DEF p
    <2> QED
      BY <2>3, <2>4
  <1>10. CASE /\ basic.alert
              /\ \E previous \in (IF newest = {} THEN {{}} ELSE {{p} : p \in newest}) :
                   LET d == PublicationDecision(id, rule, source, previous, now)
                   IN work' = [work EXCEPT ![w] = Pending(Evaluate(rule, source, d.reasons), {d})]
    <2>1. PICK previous \in (IF newest = {} THEN {{}} ELSE {{p} : p \in newest}) :
            LET d == PublicationDecision(id, rule, source, previous, now)
            IN work' = [work EXCEPT ![w] = Pending(Evaluate(rule, source, d.reasons), {d})]
      BY <1>10
    <2> DEFINE d == PublicationDecision(id, rule, source, previous, now)
               e == Evaluate(rule, source, d.reasons)
               p == Pending(e, {d})
    <2>2. work' = [work EXCEPT ![w] = p]
      BY <2>1
    <2>3. p.kind = "evaluation" /\ p.evaluation = e /\ p.decision = {d}
      OBVIOUS
    <2>4. DecisionSound(d, now)
      BY PublicationSound
    <2>5. basic.alert = TRUE
      BY <1>8, <1>10 DEF EvaluationSound
    <2>6. e.reasons = d.reasons
      BY <2>5, PolicyDecides
    <2>7. EvaluationSound(e, rule, source)
      BY <1>4, <1>6, EvaluateSound
    <2>8. d.reasons = {} => \A a \in DOMAIN alerts : Respected(alerts[a], rule, now)
      BY <1>3, NewestDecides
    <2> HIDE DEF p, e, d
    <2>9. PendingSound(p)
      <3>1. /\ EvaluationSound(p.evaluation, rule, source)
            /\ p.evaluation.alert => p.decision # {}
            /\ \A x \in p.decision : DecisionSound(x, now) /\ x.reasons = p.evaluation.reasons
        BY <2>3, <2>4, <2>6, <2>7
      <3> QED
        BY <1>3, <1>4, <1>5, <3>1, PreparedSound
    <2>10. e.alert => d.reasons = {}
      BY <2>6, <2>7 DEF EvaluationSound
    <2>11. e.rule = rule /\ d.at = now
      BY <2>4, <2>7 DEF EvaluationSound, DecisionSound
    <2>12. Prepared(p)
      BY <2>3, <2>8, <2>9, <2>10, <2>11 DEF Prepared
    <2> QED
      BY <2>2, <2>12
  <1> QED
    BY <1>7, <1>9, <1>10

LEMMA StartEvaluationKeeps ==
    ASSUME CenterInv, NEW w \in Worker, NEW id, StartEvaluation(w, id)
    PROVE  CenterInv'
  <1>1. PICK p : Prepared(p) /\ work' = [work EXCEPT ![w] = p]
    BY StartPrepares
  <1>2. /\ work[w] = NoWork /\ concurrent' = (concurrent \/ Evaluating # {})
        /\ UNCHANGED <<now, rules, jobs, evaluations, alerts, decisions, policies, inbox,
                       actions, expiries>>
    BY DEF StartEvaluation
  <1>3. /\ DOMAIN work' = Worker /\ work'[w] = p
        /\ \A v \in Worker : v # w => work'[v] = work[v]
    BY <1>1 DEF CenterInv, WorkInv
  <1>4. Evaluating' \subseteq Evaluating \cup {w} /\ w \notin Evaluating
    BY <1>2, <1>3 DEF Evaluating
  <1>5. \A v \in Evaluating' : v # w => v \in Evaluating /\ work'[v] = work[v]
    BY <1>3, <1>4 DEF Evaluating
  <1>6. ASSUME NEW v \in Evaluating' PROVE PendingSound(work[v])'
    <2>1. PendingSound(work'[v])
      <3>1. CASE v = w
        BY <1>1, <1>3, <3>1 DEF Prepared
      <3>2. CASE v # w
        BY <1>5, <3>2 DEF CenterInv, WorkInv
      <3> QED
        BY <3>1, <3>2
    <2> QED
      BY <1>2, <2>1 DEF PendingSound
  <1>7. \A v \in Worker : (work'[v] # NoWork /\ work'[v].kind = "sweep") =>
          /\ work'[v].batch \subseteq DOMAIN alerts'
          /\ \A a \in work'[v].batch : alerts'[a].expires <= work'[v].at
    <2> TAKE v \in Worker
    <2>1. CASE v = w
      BY <1>1, <1>3, <2>1 DEF Prepared
    <2>2. CASE v # w
      BY <1>2, <1>3, <2>2 DEF CenterInv, WorkInv
    <2> QED
      BY <2>1, <2>2
  <1>8. WorkInv'
    BY <1>3, <1>6, <1>7 DEF WorkInv
  <1>9. SpacingInv'
    <2> SUFFICES ASSUME ~concurrent' PROVE AloneInv' /\ WindowsRespected'
      BY DEF SpacingInv
    <2>1. ~concurrent /\ Evaluating = {}
      BY <1>2 DEF CenterInv
    <2>2. Evaluating' \subseteq {w}
      BY <1>4, <2>1
    <2>3. \A v, u \in Evaluating' : v = u
      BY <2>2
    <2>4. ASSUME NEW v \in Evaluating', NEW d \in work'[v].decision, NEW a \in DOMAIN alerts',
                 work'[v].evaluation.alert
          PROVE  Respected(alerts'[a], work'[v].evaluation.rule, d.at)
      <3>1. v = w /\ work'[v] = p
        BY <1>3, <2>2
      <3> QED
        BY <1>1, <1>2, <2>4, <3>1 DEF Prepared
    <2>5. AloneInv'
      BY <2>3, <2>4 DEF AloneInv
    <2>6. WindowsRespected'
      BY <1>2, <2>1 DEF CenterInv, SpacingInv, WindowsRespected
    <2> QED
      BY <2>5, <2>6
  <1>10. DefinitionsInv' /\ JobsInv' /\ EvaluationsInv' /\ AlertsInv' /\ EvidenceInv'
    BY <1>2 DEF CenterInv, DefinitionsInv, JobsInv, EvaluationsInv, AlertsInv, EvidenceInv
  <1>11. concurrent' \in BOOLEAN
    BY <1>2 DEF CenterInv
  <1> QED
    BY <1>2, <1>8, <1>9, <1>10, <1>11 DEF CenterInv

\* The rows that a transaction writes, and what holds of them.
Written(p) ==
    /\ p.id \notin DOMAIN evaluations
    /\ IsPut(evaluations', evaluations, p.id, p.evaluation)
    /\ p.evaluation.alert =>
        \E draft, state :
            /\ IsPut(alerts', alerts, p.id, draft) /\ IsPut(inbox', inbox, p.id, state)
            /\ DraftSound(draft, p.evaluation.rule, p.evaluation.source.at)
            /\ state \in InboxRow /\ InboxValid(state)
    /\ ~p.evaluation.alert => UNCHANGED <<alerts, inbox>>
    /\ \/ p.decision = {} /\ decisions' = decisions
       \/ \E d \in p.decision : IsPut(decisions', decisions, p.id, d)

LEMMA CommitWrites ==
    ASSUME CenterInv, NEW w \in Worker, CommitEvaluation(w)
    PROVE  Written(work[w])
  <1> DEFINE p == work[w]
             e == p.evaluation
             draft == Draft(e.rule, e.source, e.at)
             state == InitialState(draft.created)
  <1>1. /\ w \in Evaluating /\ p.id \notin DOMAIN evaluations
        /\ evaluations' = Put(evaluations, p.id, e)
        /\ e.alert => alerts' = Put(alerts, p.id, draft) /\ inbox' = Put(inbox, p.id, state)
        /\ ~e.alert => UNCHANGED <<alerts, inbox>>
        /\ decisions' = IF p.decision = {} THEN decisions
                        ELSE Put(decisions, p.id, CHOOSE d \in p.decision : TRUE)
    BY DEF CommitEvaluation
  <1>2. PendingSound(p)
    BY <1>1 DEF CenterInv, WorkInv
  <1> HIDE DEF p
  <1>3. /\ e.rule \in RuleRow /\ SourceSound(e.source) /\ e.at = e.source.at
        /\ e.source.at \in Nat
        /\ e.alert => DraftBuildable(e.rule, e.source, e.source.at)
    BY <1>2 DEF PendingSound, Accepted, EvaluationValid
  <1>4. e.alert => DraftSound(draft, e.rule, e.source.at)
    <2> SUFFICES ASSUME e.alert PROVE DraftSound(draft, e.rule, e.source.at)
      OBVIOUS
    <2>1. e.rule.lifetime \in Nat
      BY <1>3, RuleRowFields
    <2>2. DraftSound(Draft(e.rule, e.source, e.source.at), e.rule, e.source.at)
      BY <1>3, <2>1, DraftIsSound
    <2> QED
      BY <1>3, <2>2
  <1>5. e.alert => state \in InboxRow /\ InboxValid(state)
    <2> SUFFICES ASSUME e.alert PROVE state \in InboxRow /\ InboxValid(state)
      OBVIOUS
    <2>1. draft.created \in Int
      BY <1>3, <1>4 DEF DraftSound
    <2> HIDE DEF draft
    <2>2. state.acked = NoTime /\ state.snoozed = NoTime /\ state.updated = draft.created
      BY DEF InitialState
    <2>3. state \in InboxRow
      BY <2>1 DEF InitialState, InboxRow, NoTime
    <2> QED
      BY <2>2, <2>3 DEF InboxValid
  <1>6. IsPut(evaluations', evaluations, p.id, e)
    BY <1>1, PutRow
  <1>7. e.alert => IsPut(alerts', alerts, p.id, draft) /\ IsPut(inbox', inbox, p.id, state)
    <2> HIDE DEF draft, state, e
    <2> SUFFICES ASSUME e.alert PROVE IsPut(alerts', alerts, p.id, draft)
                                      /\ IsPut(inbox', inbox, p.id, state)
      OBVIOUS
    <2>1. IsPut(alerts', alerts, p.id, draft)
      BY <1>1, PutRow
    <2>2. IsPut(inbox', inbox, p.id, state)
      BY <1>1, PutRow
    <2> QED
      BY <2>1, <2>2
  <1>8. \/ p.decision = {} /\ decisions' = decisions
        \/ \E d \in p.decision : IsPut(decisions', decisions, p.id, d)
    <2>1. CASE p.decision = {}
      BY <1>1, <2>1
    <2>2. CASE p.decision # {}
      <3> DEFINE d == CHOOSE x \in p.decision : TRUE
      <3>1. d \in p.decision
        BY <2>2
      <3>2. decisions' = Put(decisions, p.id, d)
        BY <1>1, <2>2
      <3> HIDE DEF d
      <3>3. IsPut(decisions', decisions, p.id, d)
        BY <3>2, PutRow
      <3> QED
        BY <3>1, <3>3
    <2> QED
      BY <2>1, <2>2
  <1>9. Written(p)
    <2> HIDE DEF draft, state
    <2>1. e.alert => \E x, s :
            /\ IsPut(alerts', alerts, p.id, x) /\ IsPut(inbox', inbox, p.id, s)
            /\ DraftSound(x, e.rule, e.source.at)
            /\ s \in InboxRow /\ InboxValid(s)
      BY <1>4, <1>5, <1>7
    <2> QED
      BY <1>1, <1>6, <1>8, <2>1 DEF Written
  <1> QED
    BY <1>9 DEF p

LEMMA CommitEvaluationKeeps ==
    ASSUME CenterInv, NEW w \in Worker, CommitEvaluation(w)
    PROVE  CenterInv'
  <1> DEFINE p == work[w]
             e == p.evaluation
  <1>1. /\ w \in Evaluating /\ Close(w)
        /\ UNCHANGED <<now, rules, jobs, policies, concurrent, actions, expiries>>
    BY DEF CommitEvaluation
  <1>2. Written(p)
    BY CommitWrites
  <1>3. PendingSound(p)
    BY <1>1 DEF CenterInv, WorkInv
  <1>4. JobEnded(w)
    BY <1>1, CloseEnds DEF CenterInv
  <1>5. ~concurrent =>
          /\ \A v \in Evaluating : v = w
          /\ \A d \in p.decision, a \in DOMAIN alerts :
                e.alert => Respected(alerts[a], e.rule, d.at)
    BY <1>1 DEF CenterInv, SpacingInv, AloneInv
  <1> HIDE DEF p
  <1>6. /\ DOMAIN alerts \subseteq DOMAIN evaluations /\ DOMAIN decisions \subseteq DOMAIN evaluations
        /\ DOMAIN inbox = DOMAIN alerts
        /\ p.id \notin DOMAIN evaluations /\ p.id \notin DOMAIN alerts
        /\ p.id \notin DOMAIN decisions /\ p.id \notin DOMAIN inbox
    BY <1>2 DEF CenterInv, EvaluationsInv, AlertsInv, Written
  <1>7. /\ DOMAIN evaluations' = DOMAIN evaluations \cup {p.id} /\ evaluations'[p.id] = e
        /\ \A i \in DOMAIN evaluations : evaluations'[i] = evaluations[i]
    BY <1>2, <1>6 DEF Written, IsPut
  <1>8. /\ DOMAIN alerts \subseteq DOMAIN alerts'
        /\ \A i \in DOMAIN alerts : alerts'[i] = alerts[i] /\ inbox'[i] = inbox[i]
        /\ DOMAIN alerts' \subseteq DOMAIN alerts \cup {p.id}
        /\ (p.id \in DOMAIN alerts') = e.alert
        /\ DOMAIN inbox' = DOMAIN alerts'
    <2>1. e.alert \in BOOLEAN
      BY <1>3 DEF PendingSound
    <2>2. CASE e.alert = TRUE
      BY <1>2, <1>6, <2>2 DEF Written, IsPut
    <2>3. CASE e.alert = FALSE
      <3>1. alerts' = alerts /\ inbox' = inbox
        BY <1>2, <2>3 DEF Written
      <3>2. (p.id \in DOMAIN alerts') = e.alert
        <4>1. p.id \notin DOMAIN alerts'
          BY <1>6, <3>1
        <4>2. (p.id \in DOMAIN alerts') = FALSE
          BY <4>1
        <4> QED
          BY <2>3, <4>2
      <3> QED
        BY <1>6, <3>1, <3>2
    <2> QED
      BY <2>1, <2>2, <2>3
  <1>9. /\ DOMAIN decisions \subseteq DOMAIN decisions'
        /\ DOMAIN decisions' \subseteq DOMAIN decisions \cup {p.id}
        /\ \A i \in DOMAIN decisions : decisions'[i] = decisions[i]
        /\ p.id \in DOMAIN decisions' => decisions'[p.id] \in p.decision
        /\ p.decision # {} => p.id \in DOMAIN decisions'
    <2>1. CASE p.decision = {} /\ decisions' = decisions
      BY <1>6, <2>1
    <2>2. CASE \E d \in p.decision : IsPut(decisions', decisions, p.id, d)
      BY <1>6, <2>2 DEF IsPut
    <2> QED
      BY <1>2, <2>1, <2>2 DEF Written
  <1>10. /\ EvaluationValid(e) /\ SourceValid(e.source)
         /\ \A d \in p.decision : DecisionValid(d) /\ d.allowed = e.alert
         /\ e.alert => p.decision # {}
    BY <1>3 DEF PendingSound, Accepted, SourceSound
  <1>11. EvaluationsInv'
    <2>1. DOMAIN alerts' \subseteq DOMAIN evaluations' /\ DOMAIN decisions' \subseteq DOMAIN evaluations'
      BY <1>6, <1>7, <1>8, <1>9
    <2>2. ASSUME NEW i \in DOMAIN evaluations'
          PROVE  /\ EvaluationValid(evaluations'[i]) /\ SourceValid(evaluations'[i].source)
                 /\ (i \in DOMAIN alerts') = evaluations'[i].alert
      <3>1. CASE i = p.id
        BY <1>7, <1>8, <1>10, <3>1
      <3>2. CASE i # p.id
        <4>1. i \in DOMAIN evaluations /\ evaluations'[i] = evaluations[i]
          BY <1>7, <3>2
        <4>2. (i \in DOMAIN alerts') = (i \in DOMAIN alerts)
          BY <1>8, <3>2
        <4>3. /\ EvaluationValid(evaluations[i]) /\ SourceValid(evaluations[i].source)
              /\ (i \in DOMAIN alerts) = evaluations[i].alert
          BY <4>1 DEF CenterInv, EvaluationsInv
        <4> QED
          BY <4>1, <4>2, <4>3
      <3> QED
        BY <3>1, <3>2
    <2>3. ASSUME NEW i \in DOMAIN decisions' PROVE DecisionValid(decisions'[i])
      <3>1. CASE i = p.id
        BY <1>9, <1>10, <3>1
      <3>2. CASE i # p.id
        BY <1>9, <3>2 DEF CenterInv, EvaluationsInv
      <3> QED
        BY <3>1, <3>2
    <2> QED
      BY <2>1, <2>2, <2>3 DEF EvaluationsInv
  <1>12. e.alert => /\ alerts'[p.id].rule = e.rule
                    /\ alerts'[p.id].created \in 0..now
                    /\ alerts'[p.id].expires \in Int /\ DraftValid(alerts'[p.id])
                    /\ inbox'[p.id] \in InboxRow /\ InboxValid(inbox'[p.id])
    <2> SUFFICES ASSUME e.alert
                 PROVE  /\ alerts'[p.id].rule = e.rule
                        /\ alerts'[p.id].created \in 0..now
                        /\ alerts'[p.id].expires \in Int /\ DraftValid(alerts'[p.id])
                        /\ inbox'[p.id] \in InboxRow /\ InboxValid(inbox'[p.id])
      OBVIOUS
    <2>1. PICK draft, state :
            /\ IsPut(alerts', alerts, p.id, draft) /\ IsPut(inbox', inbox, p.id, state)
            /\ DraftSound(draft, e.rule, e.source.at)
            /\ state \in InboxRow /\ InboxValid(state)
      BY <1>2 DEF Written
    <2>2. alerts'[p.id] = draft /\ inbox'[p.id] = state
      BY <2>1 DEF IsPut
    <2>3. e.source.at \in Nat /\ e.source.at <= now /\ now \in Nat
      BY <1>3 DEF PendingSound, CenterInv
    <2>4. draft.rule = e.rule /\ draft.created = e.source.at /\ DraftValid(draft) /\ draft.expires \in Int
      BY <2>1 DEF DraftSound
    <2>5. draft.created \in 0..now
      BY <2>3, <2>4
    <2> QED
      BY <2>1, <2>2, <2>4, <2>5
  <1>13. AlertsInv'
    <2>1. ASSUME NEW i \in DOMAIN alerts'
          PROVE  /\ DraftValid(alerts'[i])
                 /\ alerts'[i].created \in 0..now /\ alerts'[i].expires \in Int
                 /\ i \in DOMAIN decisions' /\ decisions'[i].allowed
                 /\ inbox'[i] \in InboxRow /\ InboxValid(inbox'[i])
      <3>1. CASE i = p.id
        <4>1. e.alert
          BY <1>8, <3>1
        <4>2. i \in DOMAIN decisions' /\ decisions'[i] \in p.decision
          BY <1>9, <1>10, <3>1, <4>1
        <4>3. decisions'[i].allowed
          BY <1>10, <4>1, <4>2
        <4> QED
          BY <1>12, <3>1, <4>1, <4>2, <4>3
      <3>2. CASE i # p.id
        <4>1. i \in DOMAIN alerts /\ alerts'[i] = alerts[i] /\ inbox'[i] = inbox[i]
          BY <1>8, <3>2
        <4>2. i \in DOMAIN decisions /\ i \in DOMAIN decisions' /\ decisions'[i] = decisions[i]
          BY <1>9, <4>1 DEF CenterInv, AlertsInv
        <4> QED
          BY <4>1, <4>2 DEF CenterInv, AlertsInv
      <3> QED
        BY <3>1, <3>2
    <2>2. now' = now
      BY <1>1
    <2> QED
      BY <1>8, <2>1, <2>2 DEF AlertsInv
  <1>14. EvidenceInv'
    <2>1. DOMAIN expiries \subseteq DOMAIN alerts
      BY DEF CenterInv, EvidenceInv
    <2> QED
      BY <1>1, <1>8, <2>1 DEF CenterInv, EvidenceInv
  <1>15. \A v \in Evaluating' : v \in Evaluating /\ v # w /\ v \in Worker /\ work'[v] = work[v]
    BY <1>4 DEF JobEnded, Evaluating
  <1>16. WorkInv'
    <2>1. ASSUME NEW v \in Evaluating' PROVE PendingSound(work[v])'
      <3>1. PendingSound(work[v]) /\ work'[v] = work[v]
        BY <1>15 DEF CenterInv, WorkInv
      <3> QED
        BY <1>1, <3>1 DEF PendingSound
    <2>2. ASSUME NEW v \in Worker, work'[v] # NoWork, work'[v].kind = "sweep"
          PROVE  /\ work'[v].batch \subseteq DOMAIN alerts'
                 /\ \A a \in work'[v].batch : alerts'[a].expires <= work'[v].at
      <3>1. v # w /\ work'[v] = work[v]
        BY <1>4, <2>2 DEF JobEnded
      <3>2. /\ work[v].batch \subseteq DOMAIN alerts
            /\ \A a \in work[v].batch : alerts[a].expires <= work[v].at
        BY <2>2, <3>1 DEF CenterInv, WorkInv
      <3> QED
        BY <1>8, <3>1, <3>2
    <2>3. DOMAIN work' = Worker
      BY <1>4 DEF JobEnded
    <2> QED
      BY <2>1, <2>2, <2>3 DEF WorkInv
  <1>17. SpacingInv'
    <2> SUFFICES ASSUME ~concurrent' PROVE AloneInv' /\ WindowsRespected'
      BY DEF SpacingInv
    <2>1. ~concurrent
      BY <1>1
    <2>2. Evaluating' = {}
      BY <1>5, <1>15, <2>1
    <2>3. AloneInv'
      BY <2>2 DEF AloneInv
    <2>4. ASSUME NEW a \in DOMAIN alerts, NEW b \in DOMAIN alerts, a # b
          PROVE  \E x \in {<<a, b>>, <<b, a>>} :
                    Respected(alerts'[x[1]], alerts'[x[2]].rule, decisions'[x[2]].at)
      <3>1. PICK x \in {<<a, b>>, <<b, a>>} :
              Respected(alerts[x[1]], alerts[x[2]].rule, decisions[x[2]].at)
        BY <2>1, <2>4 DEF CenterInv, SpacingInv, WindowsRespected, Respected
      <3>2. x[1] \in DOMAIN alerts /\ x[2] \in DOMAIN alerts
        OBVIOUS
      <3>3. x[2] \in DOMAIN decisions
        BY <3>2 DEF CenterInv, AlertsInv
      <3>4. /\ alerts'[x[1]] = alerts[x[1]] /\ alerts'[x[2]] = alerts[x[2]]
            /\ decisions'[x[2]] = decisions[x[2]]
        BY <1>8, <1>9, <3>2, <3>3
      <3> QED
        BY <3>1, <3>4
    <2>5. ASSUME NEW a \in DOMAIN alerts, p.id \in DOMAIN alerts'
          PROVE  Respected(alerts'[a], alerts'[p.id].rule, decisions'[p.id].at)
      <3>1. e.alert
        BY <1>8, <2>5
      <3>2. decisions'[p.id] \in p.decision
        BY <1>9, <1>10, <3>1
      <3>3. Respected(alerts[a], e.rule, decisions'[p.id].at)
        BY <1>5, <2>1, <3>1, <3>2
      <3>4. alerts'[a] = alerts[a] /\ alerts'[p.id].rule = e.rule
        BY <1>8, <1>12, <3>1
      <3> QED
        BY <3>3, <3>4
    <2>6. ASSUME NEW a \in DOMAIN alerts', NEW b \in DOMAIN alerts', a # b
          PROVE  \E x \in {<<a, b>>, <<b, a>>} :
                    Respected(alerts'[x[1]], alerts'[x[2]].rule, decisions'[x[2]].at)
      <3>1. CASE a \in DOMAIN alerts /\ b \in DOMAIN alerts
        BY <2>4, <2>6, <3>1
      <3>2. CASE b = p.id
        <4>1. a \in DOMAIN alerts
          BY <1>8, <2>6, <3>2
        <4>2. Respected(alerts'[a], alerts'[b].rule, decisions'[b].at)
          BY <2>5, <3>2, <4>1
        <4> WITNESS <<a, b>> \in {<<a, b>>, <<b, a>>}
        <4> QED
          BY <4>2
      <3>3. CASE a = p.id
        <4>1. b \in DOMAIN alerts
          BY <1>8, <2>6, <3>3
        <4>2. Respected(alerts'[b], alerts'[a].rule, decisions'[a].at)
          BY <2>5, <3>3, <4>1
        <4> WITNESS <<b, a>> \in {<<a, b>>, <<b, a>>}
        <4> QED
          BY <4>2
      <3> QED
        BY <1>8, <3>1, <3>2, <3>3
    <2>7. WindowsRespected'
      BY <2>6 DEF WindowsRespected, Respected
    <2> QED
      BY <2>3, <2>7
  <1>18. DefinitionsInv' /\ JobsInv' /\ now' \in Nat /\ concurrent' \in BOOLEAN
    BY <1>1 DEF CenterInv, DefinitionsInv, JobsInv
  <1> QED
    BY <1>11, <1>13, <1>14, <1>16, <1>17, <1>18 DEF CenterInv

\* Every step of the center keeps the invariant.
LEMMA CenterInvStep ==
    ASSUME CenterInv, [CenterNext]_centerVars
    PROVE  CenterInv'
  <1>1. CASE UNCHANGED centerVars
    <2>1. /\ Untouched /\ UNCHANGED <<rules, jobs, policies, inbox, actions>>
      BY <1>1 DEF centerVars, publicationVars, Untouched
    <2>2. DefinitionsInv' /\ JobsInv' /\ AlertsInv' /\ EvidenceInv'
      BY <2>1 DEF CenterInv, DefinitionsInv, JobsInv, AlertsInv, EvidenceInv, Untouched
    <2> QED
      BY <2>1, <2>2, UntouchedKeeps DEF CenterInv
  <1>2. CASE CenterTick
    BY <1>2, CenterTickKeeps
  <1>3. ASSUME NEW c \in RuleContent, StageRule(c) PROVE CenterInv'
    BY <1>3, StageRuleKeeps
  <1>4. ASSUME NEW c \in PolicyContent, UpdatePolicy(c) PROVE CenterInv'
    BY <1>4, UpdatePolicyKeeps
  <1>5. ASSUME NEW e \in SourceEvent, EnqueueForSource(e) PROVE CenterInv'
    BY <1>5, EnqueueForSourceKeeps
  <1>6. ASSUME NEW v \in DOMAIN rules, NEW e \in SourceEvent, Enqueue(v, e) PROVE CenterInv'
    BY <1>6, EnqueueKeeps
  <1>7. ASSUME NEW w \in Worker, NEW id \in Id, StartEvaluation(w, id) PROVE CenterInv'
    BY <1>7, StartEvaluationKeeps
  <1>8. ASSUME NEW w \in Worker, CommitEvaluation(w) PROVE CenterInv'
    BY <1>8, CommitEvaluationKeeps
  <1>9. ASSUME NEW w \in Worker, RejectEvaluation(w) PROVE CenterInv'
    BY <1>9, RejectNever
  <1>10. ASSUME NEW w \in Worker, StartSweep(w) PROVE CenterInv'
    BY <1>10, StartSweepKeeps
  <1>11. ASSUME NEW w \in Worker, CommitSweep(w) PROVE CenterInv'
    BY <1>11, CommitSweepKeeps
  <1>12. ASSUME NEW w \in Worker, Abandon(w) PROVE CenterInv'
    <2>1. /\ Close(w)
          /\ UNCHANGED <<now, inbox, actions, expiries, rules, jobs, evaluations, alerts,
                         decisions, policies, concurrent>>
      BY <1>12 DEF Abandon, publicationVars
    <2>2. EvidenceInv'
      BY <2>1 DEF CenterInv, EvidenceInv
    <2> QED
      BY <2>1, <2>2, AbandonKeeps
  <1>13. ASSUME NEW id \in Id, FinishEvaluated(id) PROVE CenterInv'
    BY <1>13, FinishEvaluatedKeeps
  <1>14. ASSUME NEW id \in Id, Acknowledge(id) PROVE CenterInv'
    BY <1>14, AcknowledgeKeeps
  <1>15. ASSUME NEW id \in Id, NEW d \in Duration, Snooze(id, d) PROVE CenterInv'
    BY <1>15, SnoozeKeeps
  <1> QED
    BY <1>1, <1>2, <1>3, <1>4, <1>5, <1>6, <1>7, <1>8, <1>9, <1>10, <1>11, <1>12, <1>13, <1>14,
       <1>15 DEF CenterNext

LEMMA CenterInvReadable == CenterInv => RowsReadable
  <1> SUFFICES ASSUME CenterInv PROVE RowsReadable
    OBVIOUS
  <1>1. /\ \A i \in DOMAIN rules : RuleValid(rules[i]) /\ rules[i].version = i
        /\ \A i \in DOMAIN policies : PolicyValid(policies[i])
    BY DEF CenterInv, DefinitionsInv
  <1>2. /\ \A i \in DOMAIN evaluations : /\ EvaluationValid(evaluations[i])
                                         /\ SourceValid(evaluations[i].source)
                                         /\ (i \in DOMAIN alerts) = evaluations[i].alert
        /\ \A i \in DOMAIN decisions : DecisionValid(decisions[i])
    BY DEF CenterInv, EvaluationsInv
  <1>3. \A i \in DOMAIN alerts : /\ DraftValid(alerts[i]) /\ InboxValid(inbox[i])
                                 /\ i \in DOMAIN evaluations /\ decisions[i].allowed
    BY DEF CenterInv, EvaluationsInv, AlertsInv
  <1>4. /\ \A a \in actions : ActionValid(a)
        /\ \A i \in DOMAIN expiries : ExpiryValid(expiries[i], alerts[i])
    BY DEF CenterInv, EvidenceInv
  <1>5. \A i \in DOMAIN jobs : jobs[i].status # "rejected"
    BY DEF CenterInv, JobsInv
  <1>6. \A i \in DOMAIN alerts :
          {s \in {"active", "snoozed", "acknowledged", "expired"} :
              StatusCondition(s, alerts[i], inbox[i], now)}
          = {ItemStatus(alerts[i], inbox[i], now)}
    <2> TAKE i \in DOMAIN alerts
    <2>1. alerts[i].expires \in Int /\ inbox[i] \in InboxRow /\ now \in Nat
      BY DEF CenterInv, AlertsInv
    <2> QED
      BY <2>1, OneStatus
  <1> QED
    BY <1>1, <1>2, <1>3, <1>4, <1>5, <1>6 DEF RowsReadable

\* Every row of the center passes the validators it is read back through, no job
\* ends by a disagreement of builder and validator, and the inbox shows each
\* alert under one status: for any number of workers, rules, policies and
\* assessments (RowsReadable).
THEOREM StoredRowsAreReadable == CenterSpec => []RowsReadable
  BY CenterInvInit, CenterInvStep, CenterInvReadable, PTL DEF CenterSpec

\* As long as evaluations do not overlap, deduplication window and cooldown are
\* respected whatever the rule versions say and whatever the operator does
\* (WindowsRespected).
THEOREM WindowsAreRespected == CenterSpec => []WindowsRespected
  <1>1. CenterInv => WindowsRespected
    BY DEF CenterInv, SpacingInv, WindowsRespected
  <1> QED
    BY CenterInvInit, CenterInvStep, <1>1, PTL DEF CenterSpec

-----------------------------------------------------------------------------
(***************************************************************************)
(* Proof that outcomes are sound and that a review fails by a race only.   *)
(*                                                                         *)
(* The bracketing of a return by its excursions rests on the rounding,     *)
(* which keeps the order: above equal floors a larger rest is never        *)
(* rounded down where a smaller one is rounded up.  What the statements of *)
(* a reader have counted stays true of the rows they saw, because rows are *)
(* only added: counts of equal sets of rows agree.                         *)
(***************************************************************************)

\* A return is a whole number of metric units and grows with the price.
LEMMA ReturnGrows ==
    ASSUME NEW p \in Int, NEW q \in Int, NEW reference \in Nat \ {0}, p <= q
    PROVE  /\ Return(p, reference) \in Int /\ Return(q, reference) \in Int
           /\ Return(p, reference) <= Return(q, reference)
  <1> DEFINE a == (p - reference) * Scale
             c == (q - reference) * Scale
  <1>1. a \in Int /\ c \in Int /\ a <= c
    <2>1. p - reference \in Int /\ q - reference \in Int /\ p - reference <= q - reference
      OBVIOUS
    <2>2. Scale \in Nat
      BY AlertContractsAssumption
    <2> QED
      BY <2>1, <2>2, ProductGrows
  <1>2. Return(p, reference) = HalfEven(a, reference) /\ Return(q, reference) = HalfEven(c, reference)
    BY DEF Return
  <1> HIDE DEF a, c
  <1> QED
    BY <1>1, <1>2, RoundedIsNear, RoundedGrows

\* The return an outcome reports lies between the excursions it reports.
LEMMA ReturnBracketed ==
    ASSUME NEW p, p.reference \in Int, p.end \in Int, p.high \in Int, p.low \in Int,
           PricesConsistent(p), NEW trend
    PROVE  /\ Excursions(trend, p).adverse <= DirectionalReturn(trend, p)
           /\ DirectionalReturn(trend, p) <= Max({0, Excursions(trend, p).favorable})
  <1>1. /\ p.reference \in Nat \ {0}
        /\ p.low <= p.end /\ p.end <= p.high
    <2>1. p.reference > 0 /\ p.high >= Max({p.reference, p.end})
          /\ p.low <= Min({p.reference, p.end})
      BY DEF PricesConsistent
    <2>2. Extremes(p.reference, p.end)
      BY PairExtremes
    <2> QED
      BY <2>1, <2>2 DEF Extremes
  <1> DEFINE raw == Return(p.end, p.reference)
             up == Return(p.high, p.reference)
             down == Return(p.low, p.reference)
  <1>2. raw \in Int /\ up \in Int /\ down \in Int /\ down <= raw /\ raw <= up
    BY <1>1, ReturnGrows
  <1>3. CASE trend = "trending_up"
    <2>1. /\ DirectionalReturn(trend, p) = raw
          /\ Excursions(trend, p).favorable = Max({0, up})
          /\ Excursions(trend, p).adverse = Min({0, down})
      BY <1>3 DEF DirectionalReturn, Excursions
    <2> HIDE DEF raw, up, down
    <2>2. Extremes(0, up) /\ Extremes(0, down)
      BY <1>2, PairExtremes
    <2>3. Max({0, up}) \in Int
      BY <2>2 DEF Extremes
    <2>4. Extremes(0, Max({0, up}))
      BY <2>3, PairExtremes
    <2> QED
      BY <1>2, <2>1, <2>2, <2>4 DEF Extremes
  <1>4. CASE trend = "trending_down"
    <2>1. /\ DirectionalReturn(trend, p) = -raw
          /\ Excursions(trend, p).favorable = Max({0, -down})
          /\ Excursions(trend, p).adverse = Min({0, -up})
      BY <1>4 DEF DirectionalReturn, Excursions
    <2> HIDE DEF raw, up, down
    <2>2. -down \in Int /\ -up \in Int /\ -up <= -raw /\ -raw <= -down
      BY <1>2
    <2>3. Extremes(0, -down) /\ Extremes(0, -up)
      BY <2>2, PairExtremes
    <2>4. Max({0, -down}) \in Int
      BY <2>3 DEF Extremes
    <2>5. Extremes(0, Max({0, -down}))
      BY <2>4, PairExtremes
    <2> QED
      BY <1>2, <2>1, <2>2, <2>3, <2>5 DEF Extremes
  <1>5. CASE trend \notin {"trending_up", "trending_down"}
    <2>1. /\ DirectionalReturn(trend, p) = -Abs(raw)
          /\ Excursions(trend, p).favorable = 0
          /\ Excursions(trend, p).adverse = DirectionalReturn(trend, p)
      BY <1>5 DEF DirectionalReturn, Excursions
    <2> HIDE DEF raw, up, down
    <2>2. -Abs(raw) \in Int /\ -Abs(raw) <= 0
      BY <1>2 DEF Abs
    <2>3. Extremes(0, 0)
      BY PairExtremes
    <2> QED
      BY <2>1, <2>2, <2>3 DEF Extremes
  <1> QED
    BY <1>3, <1>4, <1>5

-----------------------------------------------------------------------------
\* A set that falls into three parts has the rows of the three.
LEMMA ThreeParts ==
    ASSUME NEW S, IsFiniteSet(S), NEW A, NEW B, NEW C, S = A \cup B \cup C,
           A \cap B = {}, A \cap C = {}, B \cap C = {}
    PROVE  Cardinality(S) = Cardinality(A) + Cardinality(B) + Cardinality(C)
  <1>1. IsFiniteSet(A) /\ IsFiniteSet(B) /\ IsFiniteSet(C)
    <2>1. A \subseteq S /\ B \subseteq S /\ C \subseteq S
      OBVIOUS
    <2> QED
      BY <2>1, FS_Subset
  <1>2. /\ IsFiniteSet(A \cup B)
        /\ Cardinality(A \cup B) = Cardinality(A) + Cardinality(B) - Cardinality(A \cap B)
    BY <1>1, FS_Union
  <1>3. Cardinality((A \cup B) \cup C)
          = Cardinality(A \cup B) + Cardinality(C) - Cardinality((A \cup B) \cap C)
    BY <1>1, <1>2, FS_Union
  <1>4. (A \cup B) \cap C = {} /\ (A \cup B) \cup C = S
    OBVIOUS
  <1>5. Cardinality({}) = 0
    BY FS_EmptySet
  <1>6. Cardinality(A) \in Nat /\ Cardinality(B) \in Nat /\ Cardinality(C) \in Nat
    BY <1>1, FS_CardinalityType
  <1>7. Cardinality(A \cap B) = 0 /\ Cardinality((A \cup B) \cap C) = 0
    BY <1>4, <1>5
  <1>8. Cardinality(S) = Cardinality(A \cup B) + Cardinality(C) - 0
    BY <1>3, <1>4, <1>7
  <1>9. Cardinality(A \cup B) = Cardinality(A) + Cardinality(B) - 0
    BY <1>2, <1>7
  <1> QED
    BY <1>6, <1>8, <1>9

LEMMA TwoParts ==
    ASSUME NEW S, IsFiniteSet(S), NEW A, NEW B, S = A \cup B, A \cap B = {}
    PROVE  Cardinality(S) = Cardinality(A) + Cardinality(B)
  <1>1. Cardinality(S) = Cardinality(A) + Cardinality(B) + Cardinality({})
    <2>1. S = A \cup B \cup {} /\ A \cap {} = {} /\ B \cap {} = {}
      OBVIOUS
    <2> QED
      BY <2>1, ThreeParts
  <1>2. Cardinality({}) = 0 /\ Cardinality(A) \in Nat /\ Cardinality(B) \in Nat
    <2>1. A \subseteq S /\ B \subseteq S
      OBVIOUS
    <2> QED
      BY <2>1, FS_EmptySet, FS_Subset, FS_CardinalityType
  <1> QED
    BY <1>1, <1>2

\* What holds of a stored outcome, seen at a time.
OutcomeSound(o, s, at) ==
    /\ OutcomeValid(o)
    /\ o.class \in {"confirmed", "neutral", "false_positive"}
    /\ o.observedAt \in Int /\ o.observedAt >= s.ends /\ o.observedAt <= at
    /\ o.excursions.adverse <= o.directional
    /\ o.directional <= Max({0, o.excursions.favorable})

\* The tables: outcomes are of simulations whose horizon has passed, and a
\* journal ended without a position or for one of the reasons.
TablesInv ==
    /\ now \in Int
    /\ IsFiniteSet(DOMAIN simulations)
    /\ DOMAIN outcomes \subseteq DOMAIN simulations
    /\ \A s \in DOMAIN simulations :
        /\ AlertSimulationValid(simulations[s])
        /\ simulations[s].ends \in Int
    /\ \A s \in DOMAIN outcomes : OutcomeSound(outcomes[s], simulations[s], now)
    /\ IsFiniteSet(DOMAIN journaled) /\ IsFiniteSet(DOMAIN decided)
    /\ \A j \in DOMAIN journaled : journaled[j] \in ExitReasons \cup {"no_position"}

\* A reader is a sequence, whatever its statements return.
IsSequence(s) == \E S : s \in Seq(S)

\* The two statements of a summary
JudgedRead(r) ==
    /\ r.stored \subseteq DOMAIN outcomes /\ r.completed = Cardinality(r.stored)
    /\ r.completed = r.confirmed + r.neutral + r.falsePositive
AwaitingRead(at, r, w) ==
    /\ r.stored \subseteq w.stored /\ w.stored \subseteq DOMAIN outcomes
    /\ w.awaiting = Cardinality(Due(at) \ w.stored)

SummaryInv ==
    /\ IsSequence(summary) /\ Len(summary) <= 3
    /\ Len(summary) >= 1 => summary[1].at \in Int /\ summary[1].at <= now
    /\ Len(summary) >= 2 => JudgedRead(summary[2])
    /\ Len(summary) >= 3 => AwaitingRead(summary[1].at, summary[2], summary[3])

\* The statements of a review: each counts rows that stay stored.
ByClass(r) == r.stored \subseteq DOMAIN outcomes /\ r.completed = Cardinality(r.stored)
ByDrift(r) ==
    r.stored \subseteq DOMAIN outcomes /\ r.drifted \in Nat /\ r.drifted <= Cardinality(r.stored)
ByStatus(r) ==
    /\ r.stored \subseteq DOMAIN journaled
    /\ r.noPosition + r.closed = Cardinality(r.stored)
    /\ r.closed = Cardinality({j \in r.stored : journaled[j] # "no_position"})
ByReason(r, x) == x.stored = r.stored => x.exits = r.closed
ByEvaluation(r) == r.stored \subseteq DOMAIN decided /\ r.evaluations = Cardinality(r.stored)
ByStage(r) ==
    /\ r.stored \subseteq DOMAIN decided
    /\ \A n \in Stages : r.stages[n].total \in Nat /\ r.stages[n].total <= Cardinality(r.stored)

\* What a concluded review says
ReviewConcluded(r) ==
    /\ r[7].refused => Contradictions(Snapshot(r)) # {}
    /\ \A d \in r[7].derived : d.readiness = "review_ready" =>
         /\ ~(r[1].completed < Learning.minimum["alert_outcomes"])
         /\ ~(r[3].noPosition + r[3].closed < Learning.minimum["candidate_journals"])
         /\ ~(r[5].evaluations < Learning.minimum["decision_evaluations"])

ReviewInv ==
    /\ IsSequence(review) /\ Len(review) <= 7
    /\ Len(review) >= 1 => ByClass(review[1])
    /\ Len(review) >= 2 => ByDrift(review[2])
    /\ Len(review) >= 3 => ByStatus(review[3])
    /\ Len(review) >= 4 => ByReason(review[3], review[4])
    /\ Len(review) >= 5 => ByEvaluation(review[5])
    /\ Len(review) >= 6 => ByStage(review[6])
    /\ Len(review) >= 7 => ReviewConcluded(review)

ObservationInv == TablesInv /\ SummaryInv /\ ReviewInv

\* A statement adds its result behind the others.
IsAppended(t, s, x) ==
    /\ IsSequence(t) /\ Len(s) \in Nat /\ Len(t) = Len(s) + 1
    /\ t[Len(s) + 1] = x
    /\ \A i \in 1..Len(s) : t[i] = s[i]

LEMMA Appended ==
    ASSUME NEW s, IsSequence(s), NEW x, NEW t, t = Append(s, x)
    PROVE  IsAppended(t, s, x)
  <1>1. PICK S : s \in Seq(S)
    BY DEF IsSequence
  <1>2. s \in Seq(S \cup {x}) /\ x \in S \cup {x}
    <2>1. Seq(S) \subseteq Seq(S \cup {x})
      OBVIOUS
    <2> QED
      BY <1>1, <2>1
  <1> DEFINE T == S \cup {x}
  <1> HIDE DEF T
  <1>3. /\ t \in Seq(T) /\ Len(t) = Len(s) + 1 /\ t[Len(s) + 1] = x
        /\ \A i \in 1..Len(s) : t[i] = s[i]
    BY <1>2, AppendProperties DEF T
  <1>4. Len(s) \in Nat
    BY <1>1, LenProperties
  <1> QED
    BY <1>3, <1>4 DEF IsSequence, IsAppended

LEMMA EmptyIsSequence == IsSequence(<<>>) /\ Len(<<>>) = 0
  BY EmptySeq DEF IsSequence

LEMMA LengthOf == ASSUME NEW s, IsSequence(s) PROVE Len(s) \in Nat
  BY LenProperties DEF IsSequence

\* An outcome recorded after the horizon is sound.
LEMMA RecordedSound ==
    ASSUME NEW s, s.ends \in Int, NEW p \in PricePath, NEW trend, NEW at \in Int,
           OutcomeBuildable(s, p, at)
    PROVE  OutcomeSound(Outcome(s, p, trend, at, at), s, at)
  <1> DEFINE o == Outcome(s, p, trend, at, at)
  <1>1. /\ o.prices = p /\ o.observed = trend /\ o.expected = s.trend
        /\ o.class = Classification(s.trend, p)
        /\ o.falsePositive = (Classification(s.trend, p) = "false_positive")
        /\ o.drifted = (trend # s.trend)
        /\ o.observedAt = at /\ o.recordedAt = at
        /\ o.directional = DirectionalReturn(s.trend, p)
        /\ o.excursions = Excursions(s.trend, p)
    BY DEF Outcome
  <1> HIDE DEF o
  <1>2. PricesConsistent(p) /\ at >= s.ends
    BY DEF OutcomeBuildable
  <1>3. /\ p.reference \in Int /\ p.end \in Int /\ p.high \in Int /\ p.low \in Int
    BY AlertOutcomesAssumption
  <1>4. /\ o.excursions.adverse <= o.directional
        /\ o.directional <= Max({0, o.excursions.favorable})
    BY <1>1, <1>2, <1>3, ReturnBracketed
  <1>5. o.class \in {"confirmed", "neutral", "false_positive"}
    <2>1. Classification(s.trend, p) \in {"confirmed", "neutral", "false_positive"}
      BY DEF Classification
    <2> QED
      BY <1>1, <2>1
  <1>6. OutcomeValid(o)
    <2>1. p.high >= Max({p.reference, p.end}) /\ p.low <= Min({p.reference, p.end})
      BY <1>2 DEF PricesConsistent
    <2>2. o.falsePositive = (o.class = "false_positive")
      BY <1>1
    <2>3. o.drifted = (o.observed # o.expected)
      BY <1>1
    <2> QED
      BY <1>1, <2>1, <2>2, <2>3 DEF OutcomeValid
  <1>7. OutcomeSound(o, s, at)
    BY <1>1, <1>2, <1>4, <1>5, <1>6 DEF OutcomeSound
  <1> QED
    BY <1>7 DEF o

LEMMA ObservationInvInit == ObservationInit => ObservationInv
  <1> SUFFICES ASSUME ObservationInit PROVE ObservationInv
    OBVIOUS
  <1>1. /\ DOMAIN simulations = {} /\ DOMAIN outcomes = {} /\ DOMAIN journaled = {}
        /\ DOMAIN decided = {} /\ now = 0 /\ summary = <<>> /\ review = <<>>
    BY DEF ObservationInit, Empty
  <1> QED
    BY <1>1, FS_EmptySet, EmptyIsSequence DEF ObservationInv, TablesInv, SummaryInv, ReviewInv

\* Rows are only added, and a journal stays as it is.
Grows ==
    /\ DOMAIN outcomes \subseteq DOMAIN outcomes'
    /\ DOMAIN journaled \subseteq DOMAIN journaled'
    /\ \A j \in DOMAIN journaled : journaled'[j] = journaled[j]
    /\ DOMAIN decided \subseteq DOMAIN decided'
    /\ now' \in Int /\ now <= now'
    /\ \A at \in Int : at <= now => Due(at)' = Due(at)

\* Every step of the observation keeps the tables and only adds to them.
LEMMA TablesStep ==
    ASSUME TablesInv, [ObservationNext]_observationVars
    PROVE  TablesInv' /\ Grows
  <1>1. CASE UNCHANGED tables /\ now' \in {now, now + 1}
    <2>1. \A s \in DOMAIN outcomes : OutcomeSound(outcomes[s], simulations[s], now')
      BY <1>1 DEF TablesInv, OutcomeSound
    <2>2. now' \in Int /\ now <= now'
      BY <1>1 DEF TablesInv
    <2>3. \A at : Due(at)' = Due(at)
      BY <1>1 DEF Due, tables
    <2> QED
      BY <1>1, <2>1, <2>2, <2>3 DEF TablesInv, Grows, tables
  <1>2. ASSUME NEW d \in Alert, NEW mode \in Mode, StartSimulation(d, mode)
        PROVE  TablesInv' /\ Grows
    <2> DEFINE k == <<d.id, mode>>
               r == Simulation(d, mode, Horizon, now)
    <2>1. /\ k \notin DOMAIN simulations /\ simulations' = Put(simulations, k, r)
          /\ UNCHANGED <<now, outcomes, journaled, decided>>
      BY <1>2 DEF StartSimulation
    <2>2. AlertSimulationValid(r) /\ r.ends \in Int /\ r.ends > now
      BY AlertOutcomesAssumption DEF TablesInv, Simulation, AlertSimulationValid
    <2> HIDE DEF k, r
    <2>3. /\ DOMAIN simulations' = DOMAIN simulations \cup {k} /\ simulations'[k] = r
          /\ \A s \in DOMAIN simulations : simulations'[s] = simulations[s]
      <3>1. IsPut(simulations', simulations, k, r)
        BY <2>1, PutRow
      <3> QED
        BY <2>1, <3>1 DEF IsPut
    <2>4. IsFiniteSet(DOMAIN simulations')
      BY <2>3, FS_AddElement DEF TablesInv
    <2>5. TablesInv'
      BY <2>1, <2>2, <2>3, <2>4 DEF TablesInv
    <2>6. \A at \in Int : at <= now => Due(at)' = Due(at)
      <3> TAKE at \in Int
      <3> HAVE at <= now
      <3>1. ~(r.ends <= at)
        BY <2>2 DEF TablesInv
      <3> QED
        BY <2>3, <3>1 DEF Due
    <2> QED
      BY <2>1, <2>5, <2>6 DEF Grows, TablesInv
  <1>3. ASSUME NEW s \in DOMAIN simulations, NEW p \in PricePath, NEW t \in Trend,
               RecordOutcome(s, p, t)
        PROVE  TablesInv' /\ Grows
    <2> DEFINE o == Outcome(simulations[s], p, t, now, now)
    <2>1. /\ s \notin DOMAIN outcomes /\ outcomes' = Put(outcomes, s, o)
          /\ OutcomeBuildable(simulations[s], p, now)
          /\ UNCHANGED <<now, simulations, journaled, decided>>
      BY <1>3 DEF RecordOutcome
    <2>2. simulations[s].ends \in Int /\ now \in Int
      BY DEF TablesInv
    <2>3. OutcomeSound(o, simulations[s], now)
      BY <2>1, <2>2, RecordedSound
    <2> HIDE DEF o
    <2>4. /\ DOMAIN outcomes' = DOMAIN outcomes \cup {s} /\ outcomes'[s] = o
          /\ \A i \in DOMAIN outcomes : outcomes'[i] = outcomes[i]
      <3>1. IsPut(outcomes', outcomes, s, o)
        BY <2>1, PutRow
      <3> QED
        BY <2>1, <3>1 DEF IsPut
    <2>5. TablesInv'
      BY <2>1, <2>3, <2>4 DEF TablesInv
    <2>6. \A at : Due(at)' = Due(at)
      BY <2>1 DEF Due
    <2> QED
      BY <2>1, <2>2, <2>4, <2>5, <2>6 DEF Grows
  <1>4. ASSUME NEW j \in Journal, NEW end \in JournalEnd, RecordJournal(j, end)
        PROVE  TablesInv' /\ Grows
    <2>1. /\ j \notin DOMAIN journaled /\ journaled' = Put(journaled, j, end)
          /\ UNCHANGED <<now, simulations, outcomes, decided>>
      BY <1>4 DEF RecordJournal
    <2>2. IsPut(journaled', journaled, j, end)
      BY <2>1, PutRow
    <2>3. /\ DOMAIN journaled' = DOMAIN journaled \cup {j} /\ journaled'[j] = end
          /\ \A i \in DOMAIN journaled : journaled'[i] = journaled[i]
      BY <2>1, <2>2 DEF IsPut
    <2>4. end \in ExitReasons \cup {"no_position"}
      BY AlertOutcomesAssumption
    <2>5. IsFiniteSet(DOMAIN journaled')
      BY <2>3, FS_AddElement DEF TablesInv
    <2>6. TablesInv'
      BY <2>1, <2>3, <2>4, <2>5 DEF TablesInv
    <2>7. \A at : Due(at)' = Due(at)
      BY <2>1 DEF Due
    <2> QED
      BY <2>1, <2>3, <2>6, <2>7 DEF Grows, TablesInv
  <1>5. ASSUME NEW e \in Evaluation, RequestEvaluation(e)
        PROVE  TablesInv' /\ Grows
    <2>1. /\ decided' = Put(decided, e, <<>>)
          /\ UNCHANGED <<now, simulations, outcomes, journaled>>
      BY <1>5 DEF RequestEvaluation
    <2>2. IsPut(decided', decided, e, <<>>)
      BY <2>1, PutRow
    <2>3. DOMAIN decided' = DOMAIN decided \cup {e} /\ IsFiniteSet(DOMAIN decided')
      BY <2>2, FS_AddElement DEF IsPut, TablesInv
    <2>4. TablesInv'
      BY <2>1, <2>3 DEF TablesInv
    <2>5. \A at : Due(at)' = Due(at)
      BY <2>1 DEF Due
    <2> QED
      BY <2>1, <2>3, <2>4, <2>5 DEF Grows, TablesInv
  <1>6. ASSUME NEW e \in DOMAIN decided, NEW r \in StageRecord, RecordStages(e, r)
        PROVE  TablesInv' /\ Grows
    <2>1. /\ DOMAIN decided' = DOMAIN decided
          /\ UNCHANGED <<now, simulations, outcomes, journaled>>
      BY <1>6 DEF RecordStages
    <2>2. TablesInv'
      BY <2>1 DEF TablesInv
    <2>3. \A at : Due(at)' = Due(at)
      BY <2>1 DEF Due
    <2> QED
      BY <2>1, <2>2, <2>3 DEF Grows, TablesInv
  <1>7. CASE ObservationTick
    BY <1>1, <1>7 DEF ObservationTick, tables
  <1>8. CASE ReadSummary \/ EndSummary \/ ReadReview \/ Conclude \/ EndReview
    <2>1. UNCHANGED tables /\ now' = now
      BY <1>8 DEF ReadSummary, EndSummary, ReadReview, Conclude, EndReview, SummaryReads,
                  ReviewReads
    <2> QED
      BY <1>1, <2>1
  <1>9. CASE UNCHANGED observationVars
    BY <1>1, <1>9 DEF observationVars
  <1> QED
    BY <1>2, <1>3, <1>4, <1>5, <1>6, <1>7, <1>8, <1>9 DEF ObservationNext

\* What has been read of the tables stays true of them as they grow.
LEMMA SummaryKept ==
    ASSUME TablesInv, SummaryInv, Grows, summary' = summary
    PROVE  SummaryInv'
  <1>1. Len(summary) \in Nat
    BY LengthOf DEF SummaryInv
  <1>2. ASSUME Len(summary) >= 1 PROVE summary'[1].at \in Int /\ summary'[1].at <= now'
    BY <1>2 DEF SummaryInv, Grows, TablesInv
  <1>3. ASSUME Len(summary) >= 2 PROVE JudgedRead(summary[2])'
    BY <1>3 DEF SummaryInv, Grows, JudgedRead
  <1>4. ASSUME Len(summary) >= 3 PROVE AwaitingRead(summary[1].at, summary[2], summary[3])'
    <2>1. Due(summary[1].at)' = Due(summary[1].at)
      BY <1>1, <1>4 DEF SummaryInv, Grows
    <2> QED
      BY <1>4, <2>1 DEF SummaryInv, Grows, AwaitingRead
  <1> QED
    BY <1>2, <1>3, <1>4 DEF SummaryInv

\* What the first statement of a summary returns
LEMMA JudgedPartitioned == ASSUME TablesInv PROVE JudgedRead(JudgedOutcomes)
  <1>1. IsFiniteSet(DOMAIN outcomes)
    BY FS_Subset DEF TablesInv
  <1>2. DOMAIN outcomes = OfClass("confirmed") \cup OfClass("neutral") \cup OfClass("false_positive")
    BY DEF OfClass, TablesInv, OutcomeSound
  <1>3. /\ OfClass("confirmed") \cap OfClass("neutral") = {}
        /\ OfClass("confirmed") \cap OfClass("false_positive") = {}
        /\ OfClass("neutral") \cap OfClass("false_positive") = {}
    BY DEF OfClass
  <1>4. Cardinality(DOMAIN outcomes) = Cardinality(OfClass("confirmed"))
          + Cardinality(OfClass("neutral")) + Cardinality(OfClass("false_positive"))
    BY <1>1, <1>2, <1>3, ThreeParts
  <1> QED
    BY <1>4 DEF JudgedRead, JudgedOutcomes

LEMMA SummaryStep ==
    ASSUME TablesInv, SummaryInv, Grows, [ObservationNext]_observationVars
    PROVE  SummaryInv'
  <1>1. CASE summary' = summary
    BY <1>1, SummaryKept
  <1>2. CASE ReadSummary
    <2> DEFINE l == Len(summary)
    <2>1. IsSequence(summary)
      BY DEF SummaryInv
    <2>2. UNCHANGED <<now, tables>>
      BY <1>2 DEF ReadSummary, SummaryReads
    <2>3. CASE SummaryReads(1, [at |-> now])
      <3>1. l = 0 /\ summary' = Append(summary, [at |-> now])
        BY <2>3 DEF SummaryReads
      <3>2. IsSequence(summary') /\ Len(summary') = 1 /\ summary'[1] = [at |-> now]
        <4>1. IsAppended(summary', summary, [at |-> now])
          BY <2>1, <3>1, Appended
        <4> QED
          BY <3>1, <4>1 DEF IsAppended
      <3> QED
        BY <2>2, <3>2 DEF SummaryInv, TablesInv
    <2>4. CASE SummaryReads(2, JudgedOutcomes)
      <3>1. l = 1 /\ summary' = Append(summary, JudgedOutcomes)
        BY <2>4 DEF SummaryReads
      <3>2. /\ IsSequence(summary') /\ Len(summary') = 2 /\ summary'[2] = JudgedOutcomes
            /\ summary'[1] = summary[1]
        <4>1. IsAppended(summary', summary, JudgedOutcomes)
          BY <2>1, <3>1, Appended
        <4> QED
          BY <3>1, <4>1 DEF IsAppended
      <3>3. JudgedRead(summary[2])'
        BY <2>2, <3>2, JudgedPartitioned DEF JudgedRead, tables
      <3> QED
        BY <2>2, <3>1, <3>2, <3>3 DEF SummaryInv
    <2>5. CASE SummaryReads(3, Awaiting(summary[1].at))
      <3>1. l = 2 /\ summary' = Append(summary, Awaiting(summary[1].at))
        BY <2>5 DEF SummaryReads
      <3>2. /\ IsSequence(summary') /\ Len(summary') = 3
            /\ summary'[3] = Awaiting(summary[1].at)
            /\ summary'[1] = summary[1] /\ summary'[2] = summary[2]
        <4>1. IsAppended(summary', summary, Awaiting(summary[1].at))
          BY <2>1, <3>1, Appended
        <4> QED
          BY <3>1, <4>1 DEF IsAppended
      <3>3. JudgedRead(summary[2]) /\ summary[1].at \in Int /\ summary[1].at <= now
        BY <3>1 DEF SummaryInv
      <3>4. Due(summary[1].at)' = Due(summary[1].at)
        BY <2>2, <3>2 DEF Due, tables
      <3>5. AwaitingRead(summary[1].at, summary[2], summary[3])'
        BY <2>2, <3>2, <3>3, <3>4 DEF AwaitingRead, Awaiting, JudgedRead, tables
      <3>6. JudgedRead(summary[2])'
        BY <2>2, <3>2, <3>3 DEF JudgedRead, tables
      <3> QED
        BY <2>2, <3>2, <3>3, <3>5, <3>6 DEF SummaryInv
    <2> QED
      BY <1>2, <2>3, <2>4, <2>5 DEF ReadSummary
  <1>3. CASE EndSummary
    BY <1>3, EmptyIsSequence DEF EndSummary, SummaryInv
  <1>4. CASE ~(ReadSummary \/ EndSummary)
    <2>1. summary' = summary
      BY <1>4 DEF ObservationNext, observationVars, ObservationTick, StartSimulation, RecordOutcome,
                  RecordJournal, RequestEvaluation, RecordStages, ReadReview, Conclude, EndReview,
                  ReviewReads
    <2> QED
      BY <1>1, <2>1
  <1> QED
    BY <1>2, <1>3, <1>4

-----------------------------------------------------------------------------
LEMMA ReviewKept ==
    ASSUME TablesInv, ReviewInv, Grows, review' = review
    PROVE  ReviewInv'
  <1>1. ASSUME Len(review) >= 1 PROVE ByClass(review[1])'
    BY <1>1 DEF ReviewInv, Grows, ByClass
  <1>2. ASSUME Len(review) >= 2 PROVE ByDrift(review[2])'
    BY <1>2 DEF ReviewInv, Grows, ByDrift
  <1>3. ASSUME Len(review) >= 3 PROVE ByStatus(review[3])'
    <2> DEFINE r == review[3]
    <2>1. r.stored \subseteq DOMAIN journaled
      BY <1>3 DEF ReviewInv, ByStatus
    <2>2. {j \in r.stored : journaled'[j] # "no_position"}
            = {j \in r.stored : journaled[j] # "no_position"}
      BY <2>1 DEF Grows
    <2> QED
      BY <1>3, <2>1, <2>2 DEF ReviewInv, Grows, ByStatus
  <1>4. ASSUME Len(review) >= 4 PROVE ByReason(review[3], review[4])'
    BY <1>4 DEF ReviewInv, ByReason
  <1>5. ASSUME Len(review) >= 5 PROVE ByEvaluation(review[5])'
    BY <1>5 DEF ReviewInv, Grows, ByEvaluation
  <1>6. ASSUME Len(review) >= 6 PROVE ByStage(review[6])'
    BY <1>6 DEF ReviewInv, Grows, ByStage
  <1>7. ASSUME Len(review) >= 7 PROVE ReviewConcluded(review)'
    BY <1>7 DEF ReviewInv, ReviewConcluded
  <1> QED
    BY <1>1, <1>2, <1>3, <1>4, <1>5, <1>6, <1>7 DEF ReviewInv

\* A part of a finite set
LEMMA PartOf ==
    ASSUME NEW S, IsFiniteSet(S), NEW A, A \subseteq S
    PROVE  /\ IsFiniteSet(A) /\ Cardinality(A) \in Nat /\ Cardinality(S) \in Nat
           /\ Cardinality(A) <= Cardinality(S)
  BY FS_Subset, FS_CardinalityType

\* What each statement of a review returns
LEMMA StatementsCount ==
    ASSUME TablesInv
    PROVE  /\ ByClass(OutcomesByClass) /\ ByDrift(OutcomesDrifted) /\ ByStatus(JournalsByStatus)
           /\ ByEvaluation(EvaluationCount) /\ ByStage(OutcomesByStage)
  <1>1. ByClass(OutcomesByClass) /\ ByEvaluation(EvaluationCount)
    BY DEF ByClass, OutcomesByClass, ByEvaluation, EvaluationCount
  <1>2. ByDrift(OutcomesDrifted)
    <2>1. IsFiniteSet(DOMAIN outcomes) /\ Drifted \subseteq DOMAIN outcomes
      BY FS_Subset DEF Drifted, TablesInv
    <2>2. Cardinality(Drifted) \in Nat /\ Cardinality(Drifted) <= Cardinality(DOMAIN outcomes)
      BY <2>1, PartOf
    <2> QED
      BY <2>2 DEF ByDrift, OutcomesDrifted
  <1>3. ByStatus(JournalsByStatus)
    <2> DEFINE A == {j \in DOMAIN journaled : journaled[j] = "no_position"}
               B == {j \in DOMAIN journaled : journaled[j] # "no_position"}
    <2>1. DOMAIN journaled = A \cup B /\ A \cap B = {}
      OBVIOUS
    <2>2. JournalsByStatus = [noPosition |-> Cardinality(A), closed |-> Cardinality(B),
                              stored |-> DOMAIN journaled]
      BY DEF JournalsByStatus
    <2>3. Cardinality(DOMAIN journaled) = Cardinality(A) + Cardinality(B)
      <3> HIDE DEF A, B
      <3> QED
        BY <2>1, TwoParts DEF TablesInv
    <2> QED
      BY <2>2, <2>3 DEF ByStatus
  <1>4. ByStage(OutcomesByStage)
    <2>1. OutcomesByStage.stored = DOMAIN decided
      BY DEF OutcomesByStage
    <2>2. ASSUME NEW n \in Stages
          PROVE  /\ OutcomesByStage.stages[n].total \in Nat
                 /\ OutcomesByStage.stages[n].total <= Cardinality(DOMAIN decided)
      <3> DEFINE reached == {e \in DOMAIN decided : Len(decided[e]) >= n}
      <3>1. OutcomesByStage.stages[n].total = Cardinality(reached)
        BY DEF OutcomesByStage
      <3>2. Cardinality(reached) \in Nat /\ Cardinality(reached) <= Cardinality(DOMAIN decided)
        <4>1. reached \subseteq DOMAIN decided
          OBVIOUS
        <4> HIDE DEF reached
        <4> QED
          BY <4>1, PartOf DEF TablesInv
      <3> QED
        BY <3>1, <3>2
    <2> QED
      BY <2>1, <2>2 DEF ByStage
  <1> QED
    BY <1>1, <1>2, <1>3, <1>4

\* Every closed journal has one of the reasons.
LEMMA ReasonsCount ==
    ASSUME TablesInv, NEW r, ByStatus(r)
    PROVE  ByReason(r, ClosedByReason)
  <1> SUFFICES ASSUME r.stored = DOMAIN journaled
               PROVE  Cardinality({j \in DOMAIN journaled : journaled[j] \in ExitReasons}) = r.closed
    BY DEF ByReason, ClosedByReason
  <1>1. "no_position" \notin ExitReasons
    BY DEF ExitReasons
  <1>2. {j \in DOMAIN journaled : journaled[j] \in ExitReasons}
          = {j \in r.stored : journaled[j] # "no_position"}
    BY <1>1 DEF TablesInv
  <1> QED
    BY <1>2 DEF ByStatus

\* What a review concludes from its six statements
LEMMA ReviewConcludes ==
    ASSUME NEW r, NEW x, IsAppended(r, review, x), Len(review) = 6,
           x = Conclusion(Snapshot(review))
    PROVE  ReviewConcluded(r)
  <1>1. /\ r[7] = x /\ r[1] = review[1] /\ r[2] = review[2] /\ r[3] = review[3]
        /\ r[4] = review[4] /\ r[5] = review[5] /\ r[6] = review[6]
    BY DEF IsAppended
  <1> DEFINE s == Snapshot(review)
  <1>2. Snapshot(r) = s
    BY <1>1 DEF Snapshot
  <1>3. /\ s.completed = review[1].completed /\ s.noPosition = review[3].noPosition
        /\ s.closed = review[3].closed /\ s.evaluations = review[5].evaluations
    BY DEF Snapshot
  <1> HIDE DEF s
  <1>4. r[7].refused => Contradictions(Snapshot(r)) # {}
    BY <1>1, <1>2 DEF s, Conclusion
  <1>5. ASSUME NEW d \in r[7].derived, d.readiness = "review_ready"
        PROVE  /\ ~(r[1].completed < Learning.minimum["alert_outcomes"])
               /\ ~(r[3].noPosition + r[3].closed < Learning.minimum["candidate_journals"])
               /\ ~(r[5].evaluations < Learning.minimum["decision_evaluations"])
    <2>1. d = Derived(Learning, s)
      BY <1>1, <1>5 DEF s, Conclusion
    <2>2. Gaps(Learning, s) = {}
      BY <1>5, <2>1 DEF Derived
    <2>3. /\ Samples(s)["alert_outcomes"] = s.completed
          /\ Samples(s)["candidate_journals"] = s.noPosition + s.closed
          /\ Samples(s)["decision_evaluations"] = s.evaluations
      BY DEF Samples, Areas
    <2>4. \A a \in Areas : ~(Samples(s)[a] < Learning.minimum[a])
      BY <2>2 DEF Gaps
    <2> QED
      BY <1>1, <1>3, <2>3, <2>4 DEF Areas
  <1> QED
    BY <1>4, <1>5 DEF ReviewConcluded

\* A statement or the conclusion is appended to what the review has read.
LEMMA ReviewAppended ==
    ASSUME ReviewInv, NEW n \in Int, NEW x, ReviewReads(n, x)
    PROVE  /\ IsAppended(review', review, x) /\ Len(review) = n - 1 /\ Len(review') = n
           /\ review'[n] = x
           /\ \A i \in 1..(n - 1) : review'[i] = review[i]
           /\ UNCHANGED <<now, tables>>
  <1>1. IsSequence(review) /\ review' = Append(review, x) /\ Len(review) = n - 1
    BY DEF ReviewInv, ReviewReads
  <1>2. IsAppended(review', review, x)
    BY <1>1, Appended
  <1> QED
    BY <1>1, <1>2 DEF IsAppended, ReviewReads

LEMMA ReviewStep ==
    ASSUME TablesInv, ReviewInv, Grows, [ObservationNext]_observationVars
    PROVE  ReviewInv'
  <1>1. CASE review' = review
    BY <1>1, ReviewKept
  <1>2. ASSUME NEW n \in 1..7, NEW x, ReviewReads(n, x),
               n = 1 => ByClass(x), n = 2 => ByDrift(x), n = 3 => ByStatus(x),
               n = 4 => ByReason(review[3], x), n = 5 => ByEvaluation(x), n = 6 => ByStage(x),
               n = 7 => ReviewConcluded(review')
        PROVE  ReviewInv'
    <2>1. /\ IsAppended(review', review, x) /\ Len(review) = n - 1 /\ Len(review') = n
          /\ review'[n] = x
          /\ \A i \in 1..(n - 1) : review'[i] = review[i]
          /\ UNCHANGED <<now, tables>>
      BY <1>2, ReviewAppended
    <2>2. IsSequence(review') /\ Len(review') <= 7
      BY <2>1 DEF IsAppended
    <2>3. ASSUME Len(review') >= 1 PROVE ByClass(review[1])'
      <3>1. ByClass(review'[1])
        BY <1>2, <2>1, <2>3 DEF ReviewInv
      <3> QED
        BY <2>1, <3>1 DEF ByClass, tables
    <2>4. ASSUME Len(review') >= 2 PROVE ByDrift(review[2])'
      <3>1. ByDrift(review'[2])
        BY <1>2, <2>1, <2>4 DEF ReviewInv
      <3> QED
        BY <2>1, <3>1 DEF ByDrift, tables
    <2>5. ASSUME Len(review') >= 3 PROVE ByStatus(review[3])'
      <3>1. ByStatus(review'[3])
        BY <1>2, <2>1, <2>5 DEF ReviewInv
      <3> QED
        BY <2>1, <3>1 DEF ByStatus, tables
    <2>6. ASSUME Len(review') >= 4 PROVE ByReason(review[3], review[4])'
      <3>1. ByReason(review'[3], review'[4])
        BY <1>2, <2>1, <2>6 DEF ReviewInv
      <3> QED
        BY <3>1 DEF ByReason
    <2>7. ASSUME Len(review') >= 5 PROVE ByEvaluation(review[5])'
      <3>1. ByEvaluation(review'[5])
        BY <1>2, <2>1, <2>7 DEF ReviewInv
      <3> QED
        BY <2>1, <3>1 DEF ByEvaluation, tables
    <2>8. ASSUME Len(review') >= 6 PROVE ByStage(review[6])'
      <3>1. ByStage(review'[6])
        BY <1>2, <2>1, <2>8 DEF ReviewInv
      <3> QED
        BY <2>1, <3>1 DEF ByStage, tables
    <2>9. ASSUME Len(review') >= 7 PROVE ReviewConcluded(review)'
      <3>1. ReviewConcluded(review')
        BY <1>2, <2>1, <2>9
      <3> QED
        BY <3>1 DEF ReviewConcluded
    <2> QED
      BY <2>2, <2>3, <2>4, <2>5, <2>6, <2>7, <2>8, <2>9 DEF ReviewInv
  <1>3. CASE ReadReview
    <2>1. CASE ReviewReads(1, OutcomesByClass)
      BY <1>2, <2>1, StatementsCount
    <2>2. CASE ReviewReads(2, OutcomesDrifted)
      BY <1>2, <2>2, StatementsCount
    <2>3. CASE ReviewReads(3, JournalsByStatus)
      BY <1>2, <2>3, StatementsCount
    <2>4. CASE ReviewReads(4, ClosedByReason)
      <3>1. ByStatus(review[3])
        BY <2>4 DEF ReviewInv, ReviewReads
      <3>2. ByReason(review[3], ClosedByReason)
        BY <3>1, ReasonsCount
      <3> QED
        BY <1>2, <2>4, <3>2
    <2>5. CASE ReviewReads(5, EvaluationCount)
      BY <1>2, <2>5, StatementsCount
    <2>6. CASE ReviewReads(6, OutcomesByStage)
      BY <1>2, <2>6, StatementsCount
    <2> QED
      BY <1>3, <2>1, <2>2, <2>3, <2>4, <2>5, <2>6 DEF ReadReview
  <1>4. CASE Conclude
    <2> DEFINE x == Conclusion(Snapshot(review))
    <2>1. ReviewReads(7, x)
      BY <1>4 DEF Conclude
    <2>2. x = Conclusion(Snapshot(review))
      OBVIOUS
    <2> HIDE DEF x
    <2>3. IsAppended(review', review, x) /\ Len(review) = 6
      <3>1. IsSequence(review) /\ review' = Append(review, x) /\ Len(review) = 6
        BY <2>1 DEF ReviewInv, ReviewReads
      <3> QED
        BY <3>1, Appended
    <2>4. ReviewConcluded(review')
      BY <2>2, <2>3, ReviewConcludes
    <2> QED
      BY <1>2, <2>1, <2>4
  <1>5. CASE EndReview
    BY <1>5, EmptyIsSequence DEF EndReview, ReviewInv
  <1>6. CASE ~(ReadReview \/ Conclude \/ EndReview)
    <2>1. review' = review
      BY <1>6 DEF ObservationNext, observationVars, ObservationTick, StartSimulation, RecordOutcome,
                  RecordJournal, RequestEvaluation, RecordStages, ReadSummary, EndSummary,
                  SummaryReads
    <2> QED
      BY <1>1, <2>1
  <1> QED
    BY <1>3, <1>4, <1>5, <1>6

LEMMA ObservationInvStep ==
    ASSUME ObservationInv, [ObservationNext]_observationVars
    PROVE  ObservationInv'
  <1>1. TablesInv' /\ Grows
    BY TablesStep DEF ObservationInv
  <1>2. SummaryInv' /\ ReviewInv'
    BY <1>1, SummaryStep, ReviewStep DEF ObservationInv
  <1> QED
    BY <1>1, <1>2 DEF ObservationInv

-----------------------------------------------------------------------------
\* Why the invariant gives the two properties.

\* A review contradicts itself only where rows were recorded between two counts.
LEMMA ReviewInvSound == ObservationInv => ReviewFailsByRaceOnly
  <1> DEFINE first == [alert_outcomes |-> 1, candidate_journals |-> 3, decision_evaluations |-> 5]
  <1> SUFFICES ASSUME ObservationInv, Len(review) = 7
               PROVE  /\ review[7].refused => Contradictions(Snapshot(review)) # {}
                      /\ \A a \in Contradictions(Snapshot(review)) :
                           review[first[a]].stored # review[first[a] + 1].stored
                      /\ \A d \in review[7].derived : d.readiness = "review_ready" =>
                           /\ Cardinality(DOMAIN outcomes) >= Learning.minimum["alert_outcomes"]
                           /\ Cardinality(DOMAIN journaled)
                                >= Learning.minimum["candidate_journals"]
                           /\ Cardinality(DOMAIN decided)
                                >= Learning.minimum["decision_evaluations"]
    BY DEF ReviewFailsByRaceOnly
  <1>1. /\ ByClass(review[1]) /\ ByDrift(review[2]) /\ ByStatus(review[3])
        /\ ByReason(review[3], review[4]) /\ ByEvaluation(review[5]) /\ ByStage(review[6])
        /\ ReviewConcluded(review)
    BY DEF ObservationInv, ReviewInv
  <1>2. IsFiniteSet(DOMAIN outcomes) /\ IsFiniteSet(DOMAIN journaled) /\ IsFiniteSet(DOMAIN decided)
    BY FS_Subset DEF ObservationInv, TablesInv
  <1>3. /\ Cardinality(review[1].stored) \in Nat
        /\ Cardinality(review[1].stored) <= Cardinality(DOMAIN outcomes)
        /\ Cardinality(DOMAIN outcomes) \in Nat
    BY <1>1, <1>2, PartOf DEF ByClass
  <1>4. /\ Cardinality(review[3].stored) \in Nat
        /\ Cardinality(review[3].stored) <= Cardinality(DOMAIN journaled)
        /\ Cardinality(DOMAIN journaled) \in Nat
    BY <1>1, <1>2, PartOf DEF ByStatus
  <1>5. /\ Cardinality(review[5].stored) \in Nat
        /\ Cardinality(review[5].stored) <= Cardinality(DOMAIN decided)
        /\ Cardinality(DOMAIN decided) \in Nat
    BY <1>1, <1>2, PartOf DEF ByEvaluation
  <1>6. \A a \in Areas : Learning.minimum[a] \in Nat
    BY AlertOutcomesAssumption
  <1>7. ASSUME NEW a \in Contradictions(Snapshot(review))
        PROVE  review[first[a]].stored # review[first[a] + 1].stored
    <2> DEFINE s == Snapshot(review)
    <2>1. /\ s.completed = review[1].completed /\ s.drifted = review[2].drifted
          /\ s.closed = review[3].closed /\ s.exits = review[4].exits
          /\ s.evaluations = review[5].evaluations /\ s.stages = review[6].stages
      BY DEF Snapshot
    <2> HIDE DEF s
    <2>2. \/ a = "alert_outcomes" /\ s.drifted > s.completed
          \/ a = "candidate_journals" /\ s.exits # s.closed
          \/ a = "decision_evaluations" /\ \E n \in Stages : s.stages[n].total > s.evaluations
      BY <1>7 DEF Contradictions, s
    <2>3. CASE a = "alert_outcomes" /\ s.drifted > s.completed
      <3>1. review[1].stored # review[2].stored
        BY <1>1, <1>3, <2>1, <2>3 DEF ByClass, ByDrift
      <3> QED
        BY <2>3, <3>1
    <2>4. CASE a = "candidate_journals" /\ s.exits # s.closed
      <3>1. review[3].stored # review[4].stored
        BY <1>1, <2>1, <2>4 DEF ByReason
      <3> QED
        BY <2>4, <3>1
    <2>5. CASE a = "decision_evaluations" /\ \E n \in Stages : s.stages[n].total > s.evaluations
      <3>1. PICK n \in Stages : review[6].stages[n].total > review[5].evaluations
        BY <2>1, <2>5
      <3>2. review[5].stored # review[6].stored
        BY <1>1, <1>5, <3>1 DEF ByEvaluation, ByStage
      <3> QED
        BY <2>5, <3>2
    <2> QED
      BY <2>2, <2>3, <2>4, <2>5
  <1>8. ASSUME NEW d \in review[7].derived, d.readiness = "review_ready"
        PROVE  /\ Cardinality(DOMAIN outcomes) >= Learning.minimum["alert_outcomes"]
               /\ Cardinality(DOMAIN journaled) >= Learning.minimum["candidate_journals"]
               /\ Cardinality(DOMAIN decided) >= Learning.minimum["decision_evaluations"]
    <2>1. /\ ~(review[1].completed < Learning.minimum["alert_outcomes"])
          /\ ~(review[3].noPosition + review[3].closed < Learning.minimum["candidate_journals"])
          /\ ~(review[5].evaluations < Learning.minimum["decision_evaluations"])
      BY <1>1, <1>8 DEF ReviewConcluded
    <2>2. /\ review[1].completed = Cardinality(review[1].stored)
          /\ review[3].noPosition + review[3].closed = Cardinality(review[3].stored)
          /\ review[5].evaluations = Cardinality(review[5].stored)
      BY <1>1 DEF ByClass, ByStatus, ByEvaluation
    <2>3. /\ Learning.minimum["alert_outcomes"] \in Nat
          /\ Learning.minimum["candidate_journals"] \in Nat
          /\ Learning.minimum["decision_evaluations"] \in Nat
      BY <1>6 DEF Areas
    <2> QED
      BY <1>3, <1>4, <1>5, <2>1, <2>2, <2>3
  <1>9. review[7].refused => Contradictions(Snapshot(review)) # {}
    BY <1>1 DEF ReviewConcluded
  <1> QED
    BY <1>7, <1>8, <1>9

\* What the two statements of a summary add up to
LEMMA SummaryAddsUp ==
    ASSUME NEW D, IsFiniteSet(D), NEW F, NEW T, IsFiniteSet(T), F \subseteq T
    PROVE  Cardinality(F) + Cardinality(D \ T)
             = Cardinality(D \cup F) - Cardinality(D \cap (T \ F))
  <1>1. IsFiniteSet(F) /\ IsFiniteSet(D \cup F) /\ IsFiniteSet(D \ F)
    BY FS_Subset, FS_Union
  <1>2. Cardinality(D \cup F) = Cardinality(F) + Cardinality(D \ F)
    <2>1. D \cup F = F \cup (D \ F) /\ F \cap (D \ F) = {}
      OBVIOUS
    <2> QED
      BY <1>1, <2>1, TwoParts
  <1>3. Cardinality(D \ F) = Cardinality(D \cap (T \ F)) + Cardinality(D \ T)
    <2>1. D \ F = (D \cap (T \ F)) \cup (D \ T) /\ (D \cap (T \ F)) \cap (D \ T) = {}
      OBVIOUS
    <2> QED
      BY <1>1, <2>1, TwoParts
  <1>4. /\ Cardinality(F) \in Nat /\ Cardinality(D \ T) \in Nat
        /\ Cardinality(D \cap (T \ F)) \in Nat /\ Cardinality(D \cup F) \in Nat
    <2>1. D \ T \subseteq D /\ D \cap (T \ F) \subseteq D
      OBVIOUS
    <2>2. Cardinality(D \ T) \in Nat /\ Cardinality(D \cap (T \ F)) \in Nat
      BY <2>1, PartOf
    <2> QED
      BY <1>1, <2>2, FS_CardinalityType
  <1> QED
    BY <1>2, <1>3, <1>4

LEMMA ObservationInvSound == ObservationInv => OutcomesSound
  <1> SUFFICES ASSUME ObservationInv PROVE OutcomesSound
    OBVIOUS
  <1>0. TablesInv /\ SummaryInv
    BY DEF ObservationInv
  <1>1. \A s \in DOMAIN simulations : AlertSimulationValid(simulations[s])
    BY <1>0 DEF TablesInv
  <1>2. \A s \in DOMAIN outcomes :
          /\ OutcomeValid(outcomes[s])
          /\ outcomes[s].observedAt >= simulations[s].ends
          /\ outcomes[s].excursions.adverse <= outcomes[s].directional
          /\ outcomes[s].directional <= Max({0, outcomes[s].excursions.favorable})
    BY <1>0 DEF TablesInv, OutcomeSound
  <1>3. IsFiniteSet(DOMAIN simulations) /\ IsFiniteSet(DOMAIN outcomes)
    BY <1>0, FS_Subset DEF TablesInv
  <1>4. ASSUME Len(summary) = 3
        PROVE  LET due == Due(summary[1].at)
                   first == summary[2].stored
                   later == summary[3].stored \ first
               IN /\ summary[2].completed
                       = summary[2].confirmed + summary[2].neutral + summary[2].falsePositive
                  /\ summary[2].completed + summary[3].awaiting
                       = Cardinality(due \cup first) - Cardinality(due \cap later)
    <2>1. JudgedRead(summary[2]) /\ AwaitingRead(summary[1].at, summary[2], summary[3])
      BY <1>0, <1>4 DEF SummaryInv
    <2> DEFINE D == Due(summary[1].at)
               F == summary[2].stored
               T == summary[3].stored
    <2>2. IsFiniteSet(D) /\ IsFiniteSet(T) /\ F \subseteq T
      <3>1. D \subseteq DOMAIN simulations /\ T \subseteq DOMAIN outcomes /\ F \subseteq T
        BY <2>1 DEF Due, AwaitingRead
      <3> HIDE DEF D, T, F
      <3> QED
        BY <1>3, <3>1, FS_Subset
    <2>3. summary[2].completed = Cardinality(F) /\ summary[3].awaiting = Cardinality(D \ T)
      BY <2>1 DEF JudgedRead, AwaitingRead
    <2>4. Cardinality(F) + Cardinality(D \ T)
            = Cardinality(D \cup F) - Cardinality(D \cap (T \ F))
      <3> HIDE DEF D, T, F
      <3> QED
        BY <2>2, SummaryAddsUp
    <2>5. summary[2].completed
            = summary[2].confirmed + summary[2].neutral + summary[2].falsePositive
      BY <2>1 DEF JudgedRead
    <2> QED
      BY <2>3, <2>4, <2>5
  <1>5. LET sum == SimulationSummary(now) IN sum.total = sum.observing + sum.awaiting
    <2> DEFINE A == {s \in DOMAIN simulations :
                       SimulationStatus(simulations[s], now) = "observing"}
               B == {s \in DOMAIN simulations :
                       SimulationStatus(simulations[s], now) = "awaiting_outcome"}
    <2>1. DOMAIN simulations = A \cup B /\ A \cap B = {}
      BY DEF SimulationStatus
    <2>2. Cardinality(DOMAIN simulations) = Cardinality(A) + Cardinality(B)
      <3> HIDE DEF A, B
      <3> QED
        BY <1>3, <2>1, TwoParts
    <2> QED
      BY <2>2 DEF SimulationSummary
  <1> QED
    BY <1>1, <1>2, <1>4, <1>5 DEF OutcomesSound

\* However enrolments, outcomes and requests interleave, every outcome is of a
\* simulation whose horizon has passed and reports a return between its
\* excursions, and a summary counts no simulation twice and leaves out only those
\* judged between its two statements (OutcomesSound).
THEOREM OutcomesAreSound == ObservationSpec => []OutcomesSound
  BY ObservationInvInit, ObservationInvStep, ObservationInvSound, PTL DEF ObservationSpec

\* A review refuses its own counts only in areas whose rows were recorded between
\* the two statements that count them, and is ready only with the samples its
\* policy demands (ReviewFailsByRaceOnly).
THEOREM ReviewsFailByRaceOnly == ObservationSpec => []ReviewFailsByRaceOnly
  BY ObservationInvInit, ObservationInvStep, ReviewInvSound, PTL DEF ObservationSpec

-----------------------------------------------------------------------------
(***************************************************************************)
(* Proof that a replayed trade loses at most its risk budget, and that the *)
(* application raises only for a signal without a trade plan or for a fill *)
(* on the last candle, for every dataset of any length.                    *)
(*                                                                         *)
(* The invariant is that of a trade in progress: its quantity is what the  *)
(* risk policy allowed, its last mark lies between its thresholds, and its *)
(* timeline has one event for each candle since the fill.  At a price      *)
(* between the thresholds less than the budget is lost, so that the risk   *)
(* directive speaks only where rounding reaches the budget; at one of them *)
(* at most the budget is lost, because rounding keeps the order and the    *)
(* budget is a whole amount, and twice that won at most.  With a quarter   *)
(* of the cash at stake, give or take half a unit, and a fee below the     *)
(* amount it is charged on, no exit is beyond the cash.                    *)
(***************************************************************************)

\* The least and the greatest of a set of numbers.
LEMMA LowestIs ==
  ASSUME NEW S \in SUBSET Nat, S # {}
  PROVE  Lowest(S) \in S /\ \A k \in S : Lowest(S) <= k
  <1>1. PICK m \in S : \A k \in S : ~(k < m)
    BY LeastNumber
  <1>2. \A k \in S : m <= k
    BY <1>1
  <1>. QED
    BY <1>2 DEF Lowest

LEMMA HighestIs ==
  ASSUME NEW S \in SUBSET Nat, S # {}, IsFiniteSet(S)
  PROVE  Highest(S) \in S /\ \A k \in S : k <= Highest(S)
  <1>1. PICK m \in S : \A k \in S : k <= m
    BY FiniteMaximum
  <1>2. \A k \in S : m >= k
    BY <1>1
  <1>3. /\ Highest(S) \in S
        /\ \A k \in S : Highest(S) >= k
    BY <1>2 DEF Highest
  <1>. QED
    BY <1>3

LEMMA LowerOfTwo ==
  ASSUME NEW a \in Int, NEW b \in Int
  PROVE  Lowest({a, b}) \in {a, b} /\ Lowest({a, b}) <= a /\ Lowest({a, b}) <= b
  <1>1. \E x \in {a, b} : \A y \in {a, b} : x <= y
    <2>1. CASE a <= b
      BY <2>1
    <2>2. CASE b <= a
      BY <2>2
    <2>. QED
      BY <2>1, <2>2
  <1>2. Lowest({a, b}) \in {a, b} /\ \A y \in {a, b} : Lowest({a, b}) <= y
    BY <1>1 DEF Lowest
  <1>. QED
    BY <1>2

\* Candles are numbered, and finitely many.
LEMMA CandleNumbers ==
  CandleNumber \in SUBSET Nat /\ \A S \in SUBSET CandleNumber : S \in SUBSET Nat /\ IsFiniteSet(S)
  <1>1. CandleCount \in Nat
    BY DatasetAssumption
  <1>2. IsFiniteSet(CandleNumber)
    BY <1>1, FS_Interval DEF CandleNumber
  <1>3. CandleNumber \in SUBSET Nat
    BY <1>1 DEF CandleNumber
  <1>. QED
    BY <1>2, <1>3, FS_Subset

-----------------------------------------------------------------------------
(* The candidates. *)

DataTypeOK ==
    data \in [candles : [CandleNumber -> Shapes], signals : [CandleNumber -> Signals],
              horizon : Horizons, issue : Issues]

\* What a candidate has at risk for each unit.
Risk(c) == UnitRisk(c.side, data.candles[c.number])

\* A candidate with its plan: the invalidation is one risk away from the entry, the
\* target two, and all three are prices.
CandidateSound(c) ==
    /\ c.number \in CandleNumber /\ c.side \in Side /\ c.strength \in 1..10
    /\ c.created = c.number /\ c.until = c.number + data.horizon
    /\ c.entry = data.candles[c.number].close /\ c.entry \in Nat \ {0}
    /\ Risk(c) \in Nat \ {0}
    /\ c.side = "long" => c.invalidation = c.entry - Risk(c) /\ c.target = c.entry + 2 * Risk(c)
    /\ c.side = "short" => c.invalidation = c.entry + Risk(c) /\ c.target = c.entry - 2 * Risk(c)
    /\ c.invalidation \in Nat \ {0} /\ c.target \in Nat \ {0}

\* A candle's prices are positive, and its close lies between its low and its high.
LEMMA CandleIs ==
  ASSUME DataTypeOK, NEW i \in CandleNumber
  PROVE  LET s == data.candles[i] IN
         /\ s.low \in Nat \ {0} /\ s.close \in Nat \ {0} /\ s.high \in Nat \ {0}
         /\ s.low <= s.close /\ s.close <= s.high
  <1>. DEFINE s == data.candles[i]
  <1>1. s \in Shapes
    BY DEF DataTypeOK
  <1>. HIDE DEF s
  <1>2. s.low \in Nat /\ s.close \in Nat /\ s.high \in Nat
    BY <1>1, DatasetAssumption
  <1>3. s.low > 0 /\ s.low <= s.close /\ s.close <= s.high
    BY <1>1, DatasetAssumption
  <1>4. s.low # 0 /\ s.close # 0 /\ s.high # 0
    BY <1>2, <1>3
  <1>. QED
    BY <1>2, <1>3, <1>4 DEF s

\* A planned signal makes a candidate with its plan.
LEMMA CandidateIsSound ==
  ASSUME DataTypeOK, NEW i \in CandleNumber, Directional(i),
         Planned(data.signals[i].side, data.candles[i])
  PROVE  CandidateSound(Candidate(i))
  <1>. DEFINE s == data.candles[i]
              signal == data.signals[i]
              risk == UnitRisk(signal.side, s)
              c == Candidate(i)
  <1>. SUFFICES CandidateSound(c)
    OBVIOUS
  <1>1. s.low \in Nat \ {0} /\ s.close \in Nat \ {0} /\ s.high \in Nat \ {0}
        /\ s.low <= s.close /\ s.close <= s.high
    BY CandleIs
  <1>2. signal.side \in Side /\ signal.strength \in 1..10
    <2>1. signal \in Signals
      BY DEF DataTypeOK
    <2>. HIDE DEF signal
    <2>2. signal.side # "neutral"
      BY DEF Directional, signal
    <2>3. signal \in [side : Side, strength : Strengths]
      BY <2>1, <2>2 DEF Signals
    <2>. QED
      BY <2>3, DatasetAssumption
  <1>3. risk > 0 /\ (signal.side = "short" => s.close - 2 * risk > 0)
    BY DEF Planned
  <1>4. risk \in Nat \ {0}
    <2>. HIDE DEF s, signal
    <2>. QED
      BY <1>1, <1>3 DEF UnitRisk
  <1>5. /\ c.number = i /\ c.side = signal.side /\ c.strength = signal.strength
        /\ c.created = i /\ c.until = i + data.horizon /\ c.entry = s.close
        /\ c.invalidation = s.close - (IF signal.side = "long" THEN 1 ELSE -1) * risk
        /\ c.target = s.close + 2 * (IF signal.side = "long" THEN 1 ELSE -1) * risk
    <2>. HIDE DEF s, signal
    <2>. QED
      BY DEF Candidate, s, signal
  <1>6. Risk(c) = risk /\ c.entry = data.candles[c.number].close
    BY <1>5 DEF Risk
  <1>. HIDE DEF c
  <1>7. CASE signal.side = "long"
    <2>1. risk = s.close - s.low
      BY <1>7 DEF UnitRisk
    <2>. HIDE DEF risk, s, signal
    <2>2. c.invalidation = s.close - risk /\ c.target = s.close + 2 * risk
      BY <1>1, <1>4, <1>5, <1>7
    <2>3. c.invalidation \in Nat \ {0} /\ c.target \in Nat \ {0}
      BY <1>1, <1>4, <2>1, <2>2
    <2>. QED
      <3>1. c.side \in Side /\ c.strength \in 1..10
        BY <1>2, <1>5
      <3>2. c.entry = s.close /\ c.entry \in Nat \ {0} /\ Risk(c) \in Nat \ {0}
        BY <1>1, <1>4, <1>5, <1>6
      <3>3. c.side = "long" /\ c.invalidation = c.entry - Risk(c) /\ c.target = c.entry + 2 * Risk(c)
        BY <1>5, <1>6, <1>7, <2>2
      <3>4. c.number \in CandleNumber /\ c.created = c.number /\ c.until = c.number + data.horizon
        BY <1>5
      <3>. QED
        BY <1>6, <2>3, <3>1, <3>2, <3>3, <3>4 DEF CandidateSound
  <1>8. CASE signal.side = "short"
    <2>. HIDE DEF risk, s, signal
    <2>2. c.invalidation = s.close + risk /\ c.target = s.close - 2 * risk
      BY <1>1, <1>4, <1>5, <1>8
    <2>3. c.invalidation \in Nat \ {0} /\ c.target \in Nat \ {0}
      BY <1>1, <1>3, <1>4, <1>8, <2>2
    <2>. QED
      <3>1. c.side \in Side /\ c.strength \in 1..10
        BY <1>2, <1>5
      <3>2. c.entry = s.close /\ c.entry \in Nat \ {0} /\ Risk(c) \in Nat \ {0}
        BY <1>1, <1>4, <1>5, <1>6
      <3>3. c.side = "short" /\ c.invalidation = c.entry + Risk(c) /\ c.target = c.entry - 2 * Risk(c)
        BY <1>5, <1>6, <1>8, <2>2
      <3>4. c.number \in CandleNumber /\ c.created = c.number /\ c.until = c.number + data.horizon
        BY <1>5
      <3>. QED
        BY <1>6, <2>3, <3>1, <3>2, <3>3, <3>4 DEF CandidateSound
  <1>. QED
    BY <1>2, <1>7, <1>8 DEF Side

\* So do all that are generated, and they are finitely many.
LEMMA GeneratedAreSound ==
  ASSUME DataTypeOK
  PROVE  /\ \A c \in GeneratedCandidates : CandidateSound(c)
         /\ IsFiniteSet(GeneratedCandidates)
  <1>. DEFINE J == {j \in CandleNumber :
                      Directional(j) /\ Planned(data.signals[j].side, data.candles[j])}
  <1>1. \A i \in J : CandidateSound(Candidate(i))
    BY CandidateIsSound
  <1>2. IsFiniteSet(J)
    <2>1. J \in SUBSET CandleNumber
      OBVIOUS
    <2>. QED
      BY <2>1, CandleNumbers
  <1>3. IsFiniteSet({Candidate(i) : i \in J})
    <2>. DEFINE image == {Candidate(i) : i \in J}
                f == [i \in J |-> Candidate(i)]
    <2>1. f \in Surjection(J, image)
      <3>. HIDE DEF J
      <3>. QED
        BY DEF Surjection
    <2>. HIDE DEF J, image
    <2>. QED
      BY <1>2, <2>1, FS_Surjection DEF image
  <1>. QED
    BY <1>1, <1>3 DEF GeneratedCandidates

-----------------------------------------------------------------------------
(* The ranking. *)

RankedAt(at) == ranked \in Rankings({c \in GeneratedCandidates : Selectable(c, at)}, at)

\* The ranking holds selectable candidates only, each once, the best first.
LEMMA RankedAre ==
  ASSUME DataTypeOK, NEW at, RankedAt(at)
  PROVE  /\ Len(ranked) \in Nat /\ ranked \in Seq(GeneratedCandidates)
         /\ \A k \in 1..Len(ranked) : CandidateSound(ranked[k]) /\ Selectable(ranked[k], at)
         /\ \A j, k \in 1..Len(ranked) : j # k => ranked[j] # ranked[k]
         /\ \A k \in 1..(Len(ranked) - 1) : Score(ranked[k], at) >= Score(ranked[k + 1], at)
  <1>. DEFINE C == {c \in GeneratedCandidates : Selectable(c, at)}
              n == Cardinality(C)
  <1>1. \A c \in C : CandidateSound(c) /\ Selectable(c, at) /\ c \in GeneratedCandidates
    BY GeneratedAreSound
  <1>2. n \in Nat
    <2>1. C \in SUBSET GeneratedCandidates
      OBVIOUS
    <2>. HIDE DEF C
    <2>. QED
      BY <2>1, GeneratedAreSound, FS_Subset, FS_CardinalityType
  <1>3. /\ ranked \in [1..n -> C]
        /\ \A j, k \in 1..n : j # k => ranked[j] # ranked[k]
        /\ \A k \in 1..(n - 1) : Score(ranked[k], at) >= Score(ranked[k + 1], at)
    BY DEF RankedAt, Rankings
  <1>. HIDE DEF C, n
  <1>4. Len(ranked) = n /\ ranked \in Seq(C)
    BY <1>2, <1>3
  <1>5. \A k \in 1..n : ranked[k] \in C
    BY <1>3
  <1>6. ranked \in Seq(GeneratedCandidates)
    BY <1>1, <1>2, <1>3, <1>5
  <1>. QED
    BY <1>1, <1>2, <1>3, <1>4, <1>5, <1>6

\* The scores of the ranking do not increase.
LEMMA ScoresDescend ==
  ASSUME DataTypeOK, NEW at \in Nat, RankedAt(at)
  PROVE  /\ \A k \in 1..Len(ranked) : Score(ranked[k], at) \in 0..(1000 * data.horizon)
         /\ \A j, k \in 1..Len(ranked) : j < k => Score(ranked[j], at) >= Score(ranked[k], at)
  <1>1. data.horizon \in Nat \ {0}
    BY DatasetAssumption DEF DataTypeOK
  <1>2. ASSUME NEW c, CandidateSound(c), Selectable(c, at)
        PROVE  Score(c, at) \in 0..(1000 * data.horizon)
    <2>. DEFINE h == data.horizon
    <2>1. c.strength \in 1..10 /\ c.number \in Nat /\ c.until = c.number + h /\ c.created = c.number
      BY <1>2, CandleNumbers DEF CandidateSound
    <2>2. c.number <= at /\ at < c.number + h
      BY <1>2, <2>1 DEF Selectable
    <2>3. Freshness(c, at) \in Nat /\ Freshness(c, at) <= h
      BY <1>1, <2>1, <2>2 DEF Freshness
    <2>. DEFINE m == 35 * c.strength * h
    <2>4. m \in Nat /\ m <= 350 * h
      <3>. HIDE DEF h
      <3>1. \A x \in 1..10 : 35 * x * h \in Nat /\ 35 * x * h <= 350 * h
        <4>1. h \in Nat
          BY <1>1 DEF h
        <4>. QED
          BY <4>1
      <3>. QED
        BY <2>1, <3>1
    <2>5. Score(c, at) = 225 * h + m + 200 * Freshness(c, at)
      BY DEF Score
    <2>. HIDE DEF m, h
    <2>6. Score(c, at) \in 0..(1000 * h)
      <3>1. h \in Nat
        BY <1>1 DEF h
      <3>. QED
        BY <2>3, <2>4, <2>5, <3>1
    <2>. QED
      BY <2>6 DEF h
  <1>3. /\ Len(ranked) \in Nat
        /\ \A k \in 1..Len(ranked) : CandidateSound(ranked[k]) /\ Selectable(ranked[k], at)
        /\ \A k \in 1..(Len(ranked) - 1) : Score(ranked[k], at) >= Score(ranked[k + 1], at)
    BY RankedAre
  <1>4. \A k \in 1..Len(ranked) : Score(ranked[k], at) \in 0..(1000 * data.horizon)
    BY <1>2, <1>3
  <1>. DEFINE n == Len(ranked)
              s(k) == Score(ranked[k], at)
  <1>5. \A k \in 1..n : s(k) \in Int
    BY <1>1, <1>4
  <1>6. ASSUME NEW j \in 1..n
        PROVE  \A k \in 1..n : j < k => s(j) >= s(k)
    <2>. DEFINE Wrong == {k \in 1..n : j < k /\ ~(s(j) >= s(k))}
    <2>. SUFFICES ASSUME Wrong # {} PROVE FALSE
      OBVIOUS
    <2>1. Wrong \in SUBSET Nat
      BY <1>3
    <2>2. PICK k \in Wrong : \A i \in Wrong : ~(i < k)
      <3>. HIDE DEF Wrong
      <3>. QED
        BY <2>1, LeastNumber
    <2>3. k \in 1..n /\ j < k /\ ~(s(j) >= s(k))
      BY <2>2
    <2>4. k - 1 \in 1..n /\ k - 1 < k /\ k - 1 \in 1..(n - 1) /\ j <= k - 1 /\ k - 1 + 1 = k
      BY <1>3, <1>6, <2>3
    <2>. HIDE DEF s
    <2>5. s(j) >= s(k - 1)
      <3>1. CASE j = k - 1
        BY <1>5, <1>6, <3>1
      <3>2. CASE j # k - 1
        <4>1. j < k - 1
          BY <1>3, <1>6, <2>3, <2>4, <3>2
        <4>2. k - 1 \notin Wrong
          <5>. HIDE DEF Wrong
          <5>. QED
            BY <2>2, <2>4
        <4>. QED
          BY <2>4, <4>1, <4>2
      <3>. QED
        BY <3>1, <3>2
    <2>6. s(k - 1) >= s(k)
      BY <1>3, <2>4 DEF s
    <2>7. s(j) \in Int /\ s(k - 1) \in Int /\ s(k) \in Int
      BY <1>5, <1>6, <2>3, <2>4
    <2>. QED
      BY <2>3, <2>5, <2>6, <2>7
  <1>. QED
    BY <1>4, <1>6

-----------------------------------------------------------------------------
(* The quantity and the exit. *)

LEMMA QuotientFits ==
  ASSUME NEW a \in Nat, NEW b \in Nat \ {0}, NEW q \in Nat, q <= a \div b
  PROVE  q * b <= a
  <1>1. a \div b \in Int /\ a % b \in 0..(b - 1) /\ a = b * (a \div b) + (a % b)
    BY Quotients
  <1>2. q * b <= (a \div b) * b
    BY <1>1, ProductGrows
  <1>3. (a \div b) * b = b * (a \div b)
    BY <1>1
  <1>4. PICK x \in Int : x = b * (a \div b)
    BY <1>1
  <1>5. PICK y \in Int : y = q * b
    OBVIOUS
  <1>6. a = x + (a % b) /\ y <= x /\ a % b \in Nat
    BY <1>1, <1>2, <1>3, <1>4, <1>5
  <1>. QED
    BY <1>5, <1>6

LEMMA FitsQuotient ==
  ASSUME NEW a \in Nat, NEW b \in Nat \ {0}, NEW q \in Nat, q * b <= a
  PROVE  q <= a \div b
  <1>1. PICK f \in Int, x \in 0..(b - 1) : f = a \div b /\ x = a % b /\ a = b * f + x
    BY Quotients
  <1>2. CASE q > f
    <2>1. f + 1 \in Int /\ f + 1 <= q
      BY <1>1, <1>2
    <2>2. (f + 1) * b <= q * b
      BY <2>1, ProductGrows
    <2>3. (f + 1) * b = b * f + b
      BY <1>1
    <2>4. PICK y \in Int : y = b * f
      <3>1. f \in Int
        BY <1>1
      <3>. QED
        BY <3>1
    <2>5. PICK z \in Int : z = q * b
      OBVIOUS
    <2>6. PICK w \in Int : w = (f + 1) * b
      BY <1>1
    <2>7. w <= z /\ w = y + b /\ z <= a /\ a = y + x /\ x < b
      <3>1. x \in Int /\ x < b /\ a = b * f + x
        BY <1>1
      <3>. QED
        BY <2>2, <2>3, <2>4, <2>5, <2>6, <3>1
    <2>. QED
      BY <1>1, <2>4, <2>5, <2>6, <2>7
  <1>. QED
    BY <1>1, <1>2

\* An amount between two whole amounts of money is rounded to one between them.
LEMMA MoneyWithin ==
  ASSUME NEW a \in Int, NEW m \in Int, NEW n \in Int, Quantum * m <= a, a <= Quantum * n
  PROVE  Money(a) \in Int /\ m <= Money(a) /\ Money(a) <= n
  <1>1. /\ HalfEven(Quantum * m, Quantum) = m /\ HalfEven(Quantum * n, Quantum) = n
    BY RoundedWhole, QuantumAssumption
  <1>2. PICK x \in Int, y \in Int : x = Quantum * m /\ y = Quantum * n
    BY QuantumAssumption
  <1>3. HalfEven(x, Quantum) <= HalfEven(a, Quantum) /\ HalfEven(a, Quantum) <= HalfEven(y, Quantum)
    BY <1>2, RoundedGrows, QuantumAssumption
  <1>4. HalfEven(a, Quantum) \in Int
    BY RoundedIsNear, QuantumAssumption, Quotients
  <1>. QED
    BY <1>1, <1>2, <1>3, <1>4 DEF Money

\* Whole amounts of money, in units of price by quantity.
LEMMA QuantumGrows ==
  ASSUME NEW m \in Int, NEW n \in Int, m <= n
  PROVE  Quantum * m \in Int /\ Quantum * n \in Int /\ Quantum * m <= Quantum * n
  <1>1. m * Quantum <= n * Quantum
    BY ProductGrows, QuantumAssumption
  <1>. QED
    BY <1>1, QuantumAssumption

\* What an entry commits, when it is within a budget of whole money.
LEMMA CommitmentIs ==
  ASSUME NEW price \in Nat, NEW q \in Nat, NEW n \in Nat, n <= Starting, price * q <= Quantum * n
  PROVE  Notional(price, q) \in 0..n /\ EntryFee(price, q) \in 0..Notional(price, q)
  <1>1. PICK product \in Nat : product = price * q
    BY ProductType
  <1>2. Quantum * 0 = 0
    BY QuantumAssumption
  <1>3. Money(product) \in 0..n
    <2>1. Money(product) \in Int /\ 0 <= Money(product) /\ Money(product) <= n
      BY <1>1, <1>2, MoneyWithin
    <2>. QED
      BY <2>1
  <1>4. PICK amount \in 0..n : amount = Money(product)
    BY <1>3
  <1>5. Quantum * amount \in 0..(Quantum * Starting)
    <2>1. amount \in Nat /\ amount <= Starting /\ Starting \in Nat
      BY StartingAssumption
    <2>2. Quantum * amount \in Int /\ Quantum * 0 <= Quantum * amount
          /\ Quantum * amount <= Quantum * Starting /\ Quantum * Starting \in Int
      BY <2>1, QuantumGrows
    <2>. QED
      BY <1>2, <2>2
  <1>6. Fee(Quantum * amount) \in 0..HalfEven(Quantum * amount, Quantum)
    BY <1>5, FeeRateAssumption
  <1>7. HalfEven(Quantum * amount, Quantum) = amount
    BY RoundedWhole, QuantumAssumption
  <1>. QED
    BY <1>1, <1>4, <1>6, <1>7 DEF Notional, EntryFee

\* The least quantity the budgets leave is worth more than half a unit of money.
LEMMA LeastQuantity ==
  ASSUME NEW e \in Nat \ {0}, NEW r \in Nat \ {0}, r <= e, NEW b \in Nat \ {0}, NEW n \in Nat \ {0},
         NEW most \in Nat \ {0},
         most \in {(Quantum * b) \div r, (Quantum * n) \div e}
  PROVE  Quantum < 2 * (most * e)
  <1>1. PICK k \in Int, x \in 0..(e - 1) : k = Quantum \div e /\ Quantum = e * k + x
    BY Quotients, QuantumAssumption
  <1>2. Quantum \in Nat \ {0}
    BY QuantumAssumption
  <1>3. k >= 0
    <2>1. CASE k <= -1
      <3>1. k * e <= (-1) * e
        BY <2>1, ProductGrows
      <3>2. PICK y \in Int : y = e * k /\ y = k * e
        OBVIOUS
      <3>. QED
        BY <1>1, <1>2, <3>1, <3>2
    <2>. QED
      BY <2>1
  <1>4. 1 * e <= most * e
    BY ProductGrows
  <1>5. PICK z \in Int : z = most * e
    OBVIOUS
  <1>6. CASE k = 0
    BY <1>1, <1>2, <1>4, <1>5, <1>6
  <1>7. CASE k > 0
    <2>1. k \in Nat /\ 1 <= k
      BY <1>7
    <2>2. PICK y \in Int : y = k * e /\ y = e * k
      OBVIOUS
    <2>3. k * r <= k * e
      <3>1. r * k <= e * k
        BY <2>1, ProductGrows
      <3>. QED
        BY <3>1
    <2>4. PICK v \in Int : v = k * r
      OBVIOUS
    <2>5. v <= y /\ y <= Quantum
      BY <1>1, <2>2, <2>3, <2>4
    <2>6. Quantum <= Quantum * b /\ Quantum <= Quantum * n /\ Quantum * b \in Nat /\ Quantum * n \in Nat
      <3>1. Quantum * 1 <= Quantum * b /\ Quantum * 1 <= Quantum * n
        BY QuantumGrows
      <3>. QED
        BY <1>2, <3>1
    <2>7. k * r <= Quantum * b /\ k * e <= Quantum * n
      BY <1>2, <2>2, <2>4, <2>5, <2>6
    <2>8. k <= (Quantum * b) \div r /\ k <= (Quantum * n) \div e
      BY <2>1, <2>6, <2>7, FitsQuotient
    <2>9. k <= most
      BY <2>8
    <2>10. k * e <= most * e
      BY <2>9, ProductGrows
    <2>. QED
      BY <1>1, <1>4, <1>5, <2>2, <2>10
  <1>. QED
    BY <1>3, <1>6, <1>7

\* The quantity of an approved candidate puts at most the risk budget at its
\* invalidation, at most a quarter of the cash into the position, and more than
\* nothing.
Quantified(c, at) ==
    LET f == Created(at)
        q == SimulationQuantity(c, f)
    IN  /\ RiskBudget(f) \in Nat \ {0} /\ NotionalBudget(f) \in Nat /\ q \in Nat
        /\ 100 * RiskBudget(f) <= Starting + 50
        /\ 4 * NotionalBudget(f) <= Starting + 2
        /\ q * Risk(c) <= Quantum * RiskBudget(f)
        /\ q * c.entry <= Quantum * NotionalBudget(f)
        /\ Quantum < 2 * (q * c.entry)

\* What the risk policy approves is of a quantity within its budgets.
LEMMA ApprovedIsQuantified ==
  ASSUME DataTypeOK, NEW at, NEW c, CandidateSound(c), NEW rank, Approved(c, rank, Created(at), at)
  PROVE  Quantified(c, at)
  <1>. DEFINE f == Created(at)
              b == RiskBudget(f)
              n == NotionalBudget(f)
              r == Risk(c)
              most == MaxQuantity(c, f)
              payable == Affordable(f, c.entry)
              q == SimulationQuantity(c, f)
  <1>1. Starting \in Nat \ {0} /\ f.cash = Starting /\ f.equity = Starting
    BY StartingAssumption DEF Created
  <1>2. r \in Nat \ {0} /\ c.entry \in Nat \ {0} /\ r <= c.entry
    <2>1. /\ r \in Nat \ {0} /\ c.entry \in Nat \ {0} /\ c.side \in Side
          /\ c.invalidation \in Nat /\ c.target \in Nat
          /\ c.side = "long" => c.invalidation = c.entry - r
          /\ c.side = "short" => c.target = c.entry - 2 * r
      BY DEF CandidateSound
    <2>. HIDE DEF r
    <2>. QED
      BY <2>1 DEF Side
  <1>3. most > 0
    <2>1. RiskChecks(c, rank, f, at)["budget"]
      <3>1. "budget" \in DOMAIN RiskChecks(c, rank, f, at)
        BY DEF RiskChecks
      <3>. QED
        BY <3>1 DEF Approved
    <2>. HIDE DEF most, f
    <2>. QED
      BY <2>1 DEF RiskChecks, most
  <1>4. b = HalfEven(Starting, 100)
        /\ n = Lowest({HalfEven(Starting, 4), HalfEven(Starting * 95, 100)})
    <2>. HIDE DEF f
    <2>. QED
      BY <1>1 DEF RiskBudget, NotionalBudget
  <1>5. b \in Int /\ 100 * b <= Starting + 50
    <2>1. HalfEven(Starting, 100) \in Int
      BY <1>1, RoundedIsNear, Quotients
    <2>2. 2 * (100 * HalfEven(Starting, 100)) <= 2 * Starting + 100
      BY <1>1, RoundedIsClose
    <2>. HIDE DEF b
    <2>. QED
      BY <1>1, <1>4, <2>1, <2>2
  <1>6. n \in Int /\ 4 * n <= Starting + 2
    <2>1. HalfEven(Starting, 4) \in Int /\ 2 * (4 * HalfEven(Starting, 4)) <= 2 * Starting + 4
      <3>1. HalfEven(Starting, 4) \in Int
        BY <1>1, RoundedIsNear, Quotients
      <3>2. 2 * (4 * HalfEven(Starting, 4)) <= 2 * Starting + 4
        BY <1>1, RoundedIsClose
      <3>. QED
        BY <3>1, <3>2
    <2>2. HalfEven(Starting * 95, 100) \in Int
      <3>1. Starting * 95 \in Nat
        BY <1>1
      <3>. QED
        BY <3>1, RoundedIsNear, Quotients
    <2>3. /\ n \in {HalfEven(Starting, 4), HalfEven(Starting * 95, 100)}
          /\ n <= HalfEven(Starting, 4)
      <3>. HIDE DEF n
      <3>. QED
        BY <1>4, <2>1, <2>2, LowerOfTwo
    <2>. HIDE DEF n
    <2>. QED
      BY <1>1, <2>1, <2>2, <2>3
  <1>7. b > 0 /\ n > 0 /\ most = Lowest({(Quantum * b) \div r, (Quantum * n) \div c.entry})
    <2>1. most = IF b <= 0 \/ n <= 0 THEN 0
                 ELSE Lowest({(Quantum * b) \div r, (Quantum * n) \div c.entry})
      BY DEF MaxQuantity, Risk
    <2>. HIDE DEF most, b, n, r
    <2>. QED
      BY <1>3, <1>5, <1>6, <2>1
  <1>. HIDE DEF f, b, n, r, most
  <1>8. PICK budget \in Nat, cap \in Nat, all \in Nat :
          budget = Quantum * b /\ cap = Quantum * n /\ all = Quantum * Starting
    <2>1. b \in Nat /\ n \in Nat /\ Starting \in Nat /\ Quantum \in Nat
      BY <1>1, <1>5, <1>6, <1>7, QuantumAssumption
    <2>. QED
      BY <2>1, ProductType
  <1>9. budget \div r \in Int /\ cap \div c.entry \in Int
    BY <1>2, <1>8
  <1>10. /\ most \in Nat \ {0} /\ most <= budget \div r /\ most <= cap \div c.entry
         /\ most \in {budget \div r, cap \div c.entry}
    <2>1. most \in {budget \div r, cap \div c.entry} /\ most <= budget \div r
          /\ most <= cap \div c.entry
      BY <1>7, <1>8, <1>9, LowerOfTwo
    <2>. QED
      BY <1>3, <1>9, <2>1
  <1>11. most * r <= budget /\ most * c.entry <= cap
    BY <1>2, <1>8, <1>10, QuotientFits
  <1>12. b \in Nat \ {0} /\ n \in Nat \ {0} /\ 2 * n <= Starting
    BY <1>1, <1>5, <1>6, <1>7
  <1>13. Quantum < 2 * (most * c.entry)
    <2>1. most \in {(Quantum * b) \div r, (Quantum * n) \div c.entry}
      BY <1>8, <1>10
    <2>. QED
      BY <1>2, <1>10, <1>12, <2>1, LeastQuantity
  <1>14. payable \in Nat /\ most <= payable
    <2>. DEFINE k == all \div c.entry
                Q == {x \in 0..k : c.entry * x + Quantum * Fee(c.entry * x) <= all}
    <2>1. k \in Nat
      BY <1>2, <1>8
    <2>2. most <= k
      <3>1. cap <= all
        BY <1>8, <1>12, <1>1, QuantumGrows
      <3>2. cap \div c.entry <= all \div c.entry
        BY <1>2, <1>8, <3>1, QuotientGrows
      <3>3. all \div c.entry \in Int
        BY <1>2, <1>8
      <3>. QED
        BY <1>9, <1>10, <3>2, <3>3
    <2>3. payable = Highest(Q)
      BY <1>1, <1>8 DEF Affordable
    <2>. HIDE DEF k
    <2>4. most \in Q
      <3>1. PICK value \in Nat : value = c.entry * most /\ value = most * c.entry
        <4>1. c.entry \in Nat /\ most \in Nat
          BY <1>2, <1>10
        <4>. QED
          BY <4>1, ProductType
      <3>2. value <= cap /\ cap + cap <= all
        <4>1. Quantum * (2 * n) <= Quantum * Starting
          BY <1>1, <1>12, QuantumGrows
        <4>2. Quantum * (2 * n) = Quantum * n + Quantum * n
          BY <1>12, QuantumAssumption
        <4>. QED
          BY <1>8, <1>11, <3>1, <4>1, <4>2
      <3>3. Fee(value) \in 0..Money(value)
        <4>1. value \in 0..(Quantum * Starting)
          BY <1>8, <3>2
        <4>. QED
          BY <4>1, FeeRateAssumption DEF Money
      <3>4. Money(value) \in Int /\ Money(value) <= n
        <4>1. Quantum * 0 = 0 /\ 0 <= value /\ value <= Quantum * n
          BY <1>8, <3>1, <3>2, QuantumAssumption
        <4>2. PICK zero \in Int : zero = 0
          OBVIOUS
        <4>3. value \in Int /\ n \in Int /\ Quantum * zero <= value
          BY <1>12, <3>1, <4>1, <4>2
        <4>. QED
          BY <4>1, <4>2, <4>3, MoneyWithin
      <3>5. PICK fee \in Nat : fee = Fee(value) /\ fee <= n
        <4>1. PICK amount \in Int : amount = Money(value)
          BY <3>4
        <4>2. Fee(value) \in 0..amount /\ amount <= n /\ n \in Int
          BY <1>12, <3>3, <3>4, <4>1
        <4>. QED
          BY <4>1, <4>2
      <3>6. Quantum * fee \in Int /\ Quantum * fee <= cap
        BY <1>8, <1>12, <3>5, QuantumGrows
      <3>7. value + Quantum * fee <= all
        <4>1. PICK y \in Int : y = Quantum * fee
          BY <3>6
        <4>. QED
          BY <1>8, <3>2, <3>6, <4>1
      <3>8. most \in 0..k
        BY <1>10, <2>1, <2>2
      <3>. QED
        BY <3>1, <3>5, <3>7, <3>8
    <2>5. Q \in SUBSET Nat /\ IsFiniteSet(Q)
      <3>1. Q \in SUBSET (0..k) /\ IsFiniteSet(0..k)
        BY <2>1, FS_Interval
      <3>2. IsFiniteSet(Q)
        <4>. HIDE DEF Q
        <4>. QED
          BY <3>1, FS_Subset
      <3>. QED
        BY <2>1, <3>2
    <2>. HIDE DEF Q, payable
    <2>. QED
      BY <2>3, <2>4, <2>5, HighestIs
  <1>. HIDE DEF payable
  <1>15. q = most
    <2>1. q = Lowest({most, payable})
      BY DEF SimulationQuantity, most, payable
    <2>2. q \in {most, payable} /\ q <= most /\ q <= payable
      <3>. HIDE DEF q
      <3>1. most \in Int /\ payable \in Int
        BY <1>10, <1>14
      <3>. QED
        BY <2>1, <3>1, LowerOfTwo
    <2>. HIDE DEF q
    <2>. QED
      BY <1>10, <1>14, <2>2
  <1>. HIDE DEF q
  <1>. QED
    BY <1>5, <1>6, <1>8, <1>10, <1>11, <1>12, <1>13, <1>15 DEF Quantified, b, n, r, q, f

-----------------------------------------------------------------------------
(* What depends on the data alone stays as it is. *)

LEMMA SameCandidates ==
  ASSUME data' = data
  PROVE  /\ \A i : Candidate(i)' = Candidate(i)
         /\ GeneratedCandidates' = GeneratedCandidates
         /\ DataTypeOK => DataTypeOK'
         /\ \A i : Directional(i)' = Directional(i)
  <1>1. ASSUME NEW i PROVE Candidate(i)' = Candidate(i) /\ Directional(i)' = Directional(i)
    BY DEF Candidate, Directional
  <1>2. GeneratedCandidates' = GeneratedCandidates
    BY <1>1 DEF GeneratedCandidates
  <1>. QED
    BY <1>1, <1>2 DEF DataTypeOK

LEMMA SameJudgement ==
  ASSUME data' = data
  PROVE  /\ \A c : Risk(c)' = Risk(c)
         /\ \A c : CandidateSound(c)' = CandidateSound(c)
         /\ \A c, at : Score(c, at)' = Score(c, at)
         /\ \A c, f : MaxQuantity(c, f)' = MaxQuantity(c, f)
         /\ \A c, at : FillCandle(c, at)' = FillCandle(c, at)
         /\ \A c, rank, f, at : RiskChecks(c, rank, f, at)' = RiskChecks(c, rank, f, at)
         /\ \A c, rank, f, at : ReplayStatus(c, rank, f, at)' = ReplayStatus(c, rank, f, at)
         /\ \A c, f : SimulationQuantity(c, f)' = SimulationQuantity(c, f)
  <1>1. ASSUME NEW c PROVE Risk(c)' = Risk(c) /\ CandidateSound(c)' = CandidateSound(c)
    BY DEF CandidateSound, Risk
  <1>2. ASSUME NEW c, NEW at PROVE Score(c, at)' = Score(c, at) /\ FillCandle(c, at)' = FillCandle(c, at)
    BY DEF Score, FillCandle
  <1>3. ASSUME NEW c, NEW f
        PROVE  MaxQuantity(c, f)' = MaxQuantity(c, f)
    BY DEF MaxQuantity
  <1>4. ASSUME NEW c, NEW f
        PROVE  SimulationQuantity(c, f)' = SimulationQuantity(c, f)
    BY <1>3 DEF SimulationQuantity
  <1>5. ASSUME NEW c, NEW rank, NEW f, NEW at
        PROVE  RiskChecks(c, rank, f, at)' = RiskChecks(c, rank, f, at)
    BY <1>2, <1>3 DEF RiskChecks
  <1>6. ASSUME NEW c, NEW rank, NEW f, NEW at
        PROVE  ReplayStatus(c, rank, f, at)' = ReplayStatus(c, rank, f, at)
    BY <1>2, <1>5 DEF ReplayStatus, Approved
  <1>. QED
    BY <1>1, <1>2, <1>3, <1>4, <1>5, <1>6

LEMMA SameRanking ==
  ASSUME data' = data, ranked' = ranked, NEW at
  PROVE  RankedAt(at)' = RankedAt(at)
  <1>1. GeneratedCandidates' = GeneratedCandidates /\ \A c : Score(c, at)' = Score(c, at)
    BY SameCandidates, SameJudgement
  <1>. QED
    BY <1>1 DEF RankedAt, Rankings

LEMMA SameStatus ==
  ASSUME data' = data, ranked' = ranked, portfolio'.created = portfolio.created
  PROVE  /\ Given' = Given
         /\ \A k : Status(k)' = Status(k)
  <1>1. Given' = Given
    BY DEF Given
  <1>2. ASSUME NEW k PROVE Status(k)' = Status(k)
    BY <1>1, SameJudgement DEF Status
  <1>. QED
    BY <1>1, <1>2

LEMMA SameReversal ==
  ASSUME data' = data, trial' = trial
  PROVE  Watched' = Watched /\ ReversalAt' = ReversalAt
  <1>1. Watched' = Watched
    BY DEF Watched
  <1>. QED
    BY <1>1 DEF ReversalAt

-----------------------------------------------------------------------------
(* The amounts of a trade. *)

\* A price between invalidation and target, or strictly so.
Within(c, price) ==
    /\ price \in Nat \ {0}
    /\ c.side = "long" => c.invalidation <= price /\ price <= c.target
    /\ c.side = "short" => c.target <= price /\ price <= c.invalidation

Inside(c, price) ==
    /\ price \in Nat \ {0}
    /\ c.side = "long" => c.invalidation < price /\ price < c.target
    /\ c.side = "short" => c.target < price /\ price < c.invalidation

\* The bounds of a difference of prices, for a quantity of them.
LEMMA ScaledBounds ==
  ASSUME NEW d \in Int, NEW r \in Nat, NEW q \in Nat, -r <= d, d <= 2 * r
  PROVE  -(q * r) <= d * q /\ d * q <= 2 * (q * r)
  <1>1. (-r) * q <= d * q /\ d * q <= (2 * r) * q
    BY ProductGrows
  <1>2. (-r) * q = -(q * r) /\ (2 * r) * q = 2 * (q * r)
    OBVIOUS
  <1>. QED
    BY <1>1, <1>2

LEMMA ScaledStrictly ==
  ASSUME NEW d \in Int, NEW r \in Nat, NEW q \in Nat, -r < d, NEW b \in Nat \ {0}, q * r <= b
  PROVE  -(d * q) < b
  <1>1. CASE q = 0
    <2>1. d * q = 0
      BY <1>1
    <2>. QED
      BY <2>1
  <1>2. CASE q # 0
    <2>1. (1 - r) * q <= d * q
      BY ProductGrows
    <2>2. (1 - r) * q = q - q * r
      OBVIOUS
    <2>3. PICK x \in Int : x = d * q
      OBVIOUS
    <2>4. PICK y \in Int : y = q * r
      OBVIOUS
    <2>5. q - y <= x /\ y <= b /\ q > 0
      BY <1>2, <2>1, <2>2, <2>3, <2>4
    <2>6. -x < b
      BY <2>3, <2>4, <2>5
    <2>. QED
      BY <2>3, <2>6
  <1>. QED
    BY <1>1, <1>2

\* What the trade has won or lost at a price, and what its units are worth there,
\* before rounding.
LEMMA GainBounds ==
  ASSUME DataTypeOK, NEW c, CandidateSound(c), NEW p, NEW price, Within(c, price), NEW q \in Nat,
         p.side = c.side, p.entry = c.entry, p.quantity = q
  PROVE  LET gain == Gain(p, price) IN
         /\ gain \in Int /\ -(q * Risk(c)) <= gain /\ gain <= 2 * (q * Risk(c))
         /\ price * q \in Nat /\ price * q \in {q * c.entry + gain, q * c.entry - gain}
  <1>. DEFINE r == Risk(c)
              gain == Gain(p, price)
  <1>1. /\ c.side \in Side /\ r \in Nat /\ c.entry \in Nat /\ price \in Nat
        /\ c.side = "long" => c.invalidation = c.entry - r /\ c.target = c.entry + 2 * r
        /\ c.side = "short" => c.invalidation = c.entry + r /\ c.target = c.entry - 2 * r
    BY DEF CandidateSound, Within
  <1>. HIDE DEF r
  <1>2. CASE c.side = "long"
    <2>1. gain = (price - c.entry) * q
      BY <1>2 DEF Gain
    <2>2. price - c.entry \in Int /\ -r <= price - c.entry /\ price - c.entry <= 2 * r
      BY <1>1, <1>2 DEF Within
    <2>. HIDE DEF gain
    <2>3. gain \in Int /\ -(q * r) <= gain /\ gain <= 2 * (q * r)
      BY <1>1, <2>1, <2>2, ScaledBounds
    <2>4. price * q = q * c.entry + (price - c.entry) * q /\ price * q \in Nat
      BY <1>1
    <2>. QED
      BY <2>1, <2>3, <2>4 DEF gain, r
  <1>3. CASE c.side = "short"
    <2>1. gain = (c.entry - price) * q
      BY <1>3 DEF Gain
    <2>2. c.entry - price \in Int /\ -r <= c.entry - price /\ c.entry - price <= 2 * r
      BY <1>1, <1>3 DEF Within
    <2>. HIDE DEF gain
    <2>3. gain \in Int /\ -(q * r) <= gain /\ gain <= 2 * (q * r)
      BY <1>1, <2>1, <2>2, ScaledBounds
    <2>4. price * q = q * c.entry - (c.entry - price) * q /\ price * q \in Nat
      BY <1>1
    <2>. QED
      BY <2>1, <2>3, <2>4 DEF gain, r
  <1>. QED
    BY <1>1, <1>2, <1>3 DEF Side

\* Between the thresholds less than the budget is lost.
LEMMA InsideLoss ==
  ASSUME DataTypeOK, NEW c, CandidateSound(c), NEW p, NEW price, Inside(c, price), NEW q \in Nat,
         p.side = c.side, p.entry = c.entry, p.quantity = q,
         NEW b \in Nat \ {0}, q * Risk(c) <= b
  PROVE  -Gain(p, price) < b
  <1>. DEFINE r == Risk(c)
  <1>1. /\ c.side \in Side /\ r \in Nat /\ c.entry \in Nat /\ price \in Nat
        /\ c.side = "long" => c.invalidation = c.entry - r
        /\ c.side = "short" => c.invalidation = c.entry + r
    BY DEF CandidateSound, Inside
  <1>2. q * r <= b
    OBVIOUS
  <1>. HIDE DEF r
  <1>3. CASE c.side = "long"
    <2>1. Gain(p, price) = (price - c.entry) * q
      BY <1>3 DEF Gain
    <2>2. price - c.entry \in Int /\ -r < price - c.entry
      BY <1>1, <1>3 DEF Inside
    <2>3. -((price - c.entry) * q) < b
      BY <1>1, <1>2, <2>2, ScaledStrictly
    <2>. QED
      BY <2>1, <2>3
  <1>4. CASE c.side = "short"
    <2>1. Gain(p, price) = (c.entry - price) * q
      BY <1>4 DEF Gain
    <2>2. c.entry - price \in Int /\ -r < c.entry - price
      BY <1>1, <1>4 DEF Inside
    <2>3. -((c.entry - price) * q) < b
      BY <1>1, <1>2, <2>2, ScaledStrictly
    <2>. QED
      BY <2>1, <2>3
  <1>. QED
    BY <1>1, <1>3, <1>4 DEF Side

\* However the trade ends between its thresholds, the cash pays for it.
LEMMA CashSuffices ==
  ASSUME NEW start \in Nat, NEW n \in Nat, NEW b \in Nat \ {0},
         100 * b <= start + 50, 4 * n <= start + 2,
         NEW reserved \in 0..n, NEW gross \in Int, -b <= gross,
         NEW entryFee \in 0..reserved, NEW exitFee \in 0..(n + 2 * b)
  PROVE  start - (reserved + entryFee) + reserved + gross - exitFee >= 0
  OBVIOUS

\* The fill follows the ranking.
LEMMA FillIs ==
  ASSUME NEW c, NEW at \in Nat, FillCandle(c, at) # 0
  PROVE  FillCandle(c, at) \in CandleNumber /\ FillCandle(c, at) > at
  <1>. DEFINE S == {i \in CandleNumber : /\ i - 1 >= at /\ Selectable(c, i)
                                         /\ data.candles[i].low <= c.entry
                                         /\ c.entry <= data.candles[i].high}
  <1>1. S # {} /\ FillCandle(c, at) = Lowest(S)
    BY DEF FillCandle
  <1>2. S \in SUBSET Nat
    BY CandleNumbers
  <1>3. Lowest(S) \in S
    <2>. HIDE DEF S
    <2>. QED
      BY <1>1, <1>2, LowestIs
  <1>4. \A i \in S : i \in CandleNumber /\ i \in Nat /\ i - 1 >= at
    BY <1>2
  <1>. HIDE DEF S
  <1>. QED
    BY <1>1, <1>3, <1>4

\* A signal that reverses a trade comes after the ranking and has no plan.
LEMMA ReversalIsUnplanned ==
  ASSUME DataTypeOK, NEW at \in Nat, \A c \in GeneratedCandidates : c.created <= at,
         trial.opened \in CandleNumber, trial.opened > at, trial.candidate.side \in Side,
         ReversalAt # 0
  PROVE  ReversalAt \in Watched /\ ~Planned(data.signals[ReversalAt].side, data.candles[ReversalAt])
  <1>. DEFINE S == {i \in Watched : data.signals[i].side = Opposite(trial.candidate.side)}
              i == ReversalAt
  <1>1. S # {} /\ i = Lowest(S)
    BY DEF ReversalAt, FirstOf
  <1>2. S \in SUBSET Nat
    BY CandleNumbers DEF Watched
  <1>3. i \in S
    <2>. HIDE DEF S, i
    <2>. QED
      BY <1>1, <1>2, LowestIs
  <1>. HIDE DEF i
  <1>4. i \in CandleNumber /\ i - 1 >= trial.opened /\ i \in Nat /\ trial.opened \in Nat
    BY <1>3, CandleNumbers DEF Watched
  <1>5. data.signals[i].side \in Side
    BY <1>3 DEF Opposite, Side
  <1>6. ASSUME Planned(data.signals[i].side, data.candles[i]) PROVE FALSE
    <2>1. Directional(i)
      BY <1>5 DEF Directional, Side
    <2>2. Candidate(i) \in GeneratedCandidates
      BY <1>4, <1>6, <2>1 DEF GeneratedCandidates
    <2>3. Candidate(i).created = i
      BY DEF Candidate
    <2>. QED
      BY <1>4, <2>2, <2>3
  <1>. QED
    BY <1>3, <1>6 DEF i

\* A candle that reaches neither threshold closes between them.
LEMMA NotReached ==
  ASSUME DataTypeOK, NEW c, CandidateSound(c), NEW i \in CandleNumber,
         PriceTrigger(c, data.candles[i]) = NoTrigger
  PROVE  Inside(c, data.candles[i].close)
  <1>. DEFINE s == data.candles[i]
  <1>1. /\ s.low \in Nat \ {0} /\ s.close \in Nat \ {0} /\ s.high \in Nat \ {0}
        /\ s.low <= s.close /\ s.close <= s.high
    BY CandleIs
  <1>2. c.side \in Side /\ c.invalidation \in Nat /\ c.target \in Nat
    BY DEF CandidateSound
  <1>. HIDE DEF s
  <1>3. Trigger("invalidation", c.invalidation) # NoTrigger /\ Trigger("target", c.target) # NoTrigger
    BY DEF Trigger, NoTrigger
  <1>4. ~InvalidationHit(c, s) /\ ~TargetHit(c, s)
    BY <1>3 DEF PriceTrigger, s
  <1>. SUFFICES Inside(c, s.close)
    BY DEF s
  <1>5. CASE c.side = "long"
    <2>1. c.invalidation < s.low /\ s.high < c.target
      BY <1>1, <1>2, <1>4, <1>5 DEF InvalidationHit, TargetHit
    <2>. QED
      BY <1>1, <1>2, <1>5, <2>1 DEF Inside
  <1>6. CASE c.side = "short"
    <2>1. s.high < c.invalidation /\ c.target < s.low
      BY <1>1, <1>2, <1>4, <1>6 DEF InvalidationHit, TargetHit
    <2>. QED
      BY <1>1, <1>2, <1>6, <2>1 DEF Inside
  <1>. QED
    BY <1>2, <1>5, <1>6 DEF Side

LEMMA InsideIsWithin ==
  ASSUME NEW c, CandidateSound(c), NEW price, Inside(c, price)
  PROVE  Within(c, price)
  <1>1. c.side \in Side /\ c.invalidation \in Nat /\ c.target \in Nat
    BY DEF CandidateSound
  <1>. QED
    BY <1>1 DEF Inside, Within

LEMMA ThresholdsAreWithin ==
  ASSUME NEW c, CandidateSound(c)
  PROVE  Within(c, c.invalidation) /\ Within(c, c.target)
  <1>. DEFINE r == Risk(c)
  <1>1. /\ c.side \in Side /\ r \in Nat \ {0} /\ c.entry \in Nat
        /\ c.invalidation \in Nat \ {0} /\ c.target \in Nat \ {0}
        /\ c.side = "long" => c.invalidation = c.entry - r /\ c.target = c.entry + 2 * r
        /\ c.side = "short" => c.invalidation = c.entry + r /\ c.target = c.entry - 2 * r
    BY DEF CandidateSound
  <1>. HIDE DEF r
  <1>2. CASE c.side = "long"
    BY <1>1, <1>2 DEF Within
  <1>3. CASE c.side = "short"
    BY <1>1, <1>3 DEF Within
  <1>. QED
    BY <1>1, <1>2, <1>3 DEF Side

LEMMA EntryIsInside ==
  ASSUME NEW c, CandidateSound(c)
  PROVE  Inside(c, c.entry)
  <1>. DEFINE r == Risk(c)
  <1>1. /\ c.side \in Side /\ r \in Nat \ {0} /\ c.entry \in Nat \ {0}
        /\ c.side = "long" => c.invalidation = c.entry - r /\ c.target = c.entry + 2 * r
        /\ c.side = "short" => c.invalidation = c.entry + r /\ c.target = c.entry - 2 * r
    BY DEF CandidateSound
  <1>. HIDE DEF r
  <1>2. CASE c.side = "long"
    BY <1>1, <1>2 DEF Inside
  <1>3. CASE c.side = "short"
    BY <1>1, <1>3 DEF Inside
  <1>. QED
    BY <1>1, <1>2, <1>3 DEF Side

ReplayExits ==
    {"invalidation", "target", "data_unreliable", "trend_reversal", "portfolio_risk",
     "time_expiry", "end_of_data"}

\* What ends the watch at candle i, or that nothing does.
Decides(i) ==
    LET c == trial.candidate
        exit == ExitTrigger(i)
    IN  /\ exit # NoTrigger =>
            /\ Within(c, exit.price) /\ exit.reason \in ReplayExits
            /\ exit.reason = "trend_reversal" => i = ReversalAt
            /\ exit.reason = "portfolio_risk" =>
                /\ Inside(c, exit.price)
                /\ -GrossPnl(portfolio.open, exit.price) >= trial.budget
        /\ exit = NoTrigger => Inside(c, data.candles[i].close) /\ i # CandleCount

\* Whatever ends the watch ends it within the thresholds, and the risk directive
\* strictly so, where it is met.
LEMMA ExitDecides ==
  ASSUME DataTypeOK, NEW i \in CandleNumber,
         CandidateSound(trial.candidate), Inside(trial.candidate, portfolio.open.current)
  PROVE  Decides(i)
  <1>. DEFINE c == trial.candidate
              s == data.candles[i]
              d == DirectiveAt(i)
              t == PriceTrigger(c, s)
              x == ExitTrigger(i)
  <1>1. t # NoTrigger => \/ t = Trigger("invalidation", c.invalidation)
                         \/ t = Trigger("target", c.target)
    BY DEF PriceTrigger
  <1>2. t = NoTrigger => Inside(c, s.close)
    BY NotReached
  <1>3. d \in {"data_unreliable", "trend_reversal", "portfolio_risk", "none"}
        /\ (d = "trend_reversal" => i = ReversalAt)
        /\ (d = "portfolio_risk" => i = RiskBreachAt)
    BY DEF DirectiveAt
  <1>4. x = IF d = "data_unreliable" THEN Trigger(d, portfolio.open.current)
            ELSE IF t # NoTrigger THEN t
            ELSE IF d # "none" THEN Trigger(d, s.close)
            ELSE IF i >= trial.candidate.until THEN Trigger("time_expiry", s.close)
            ELSE IF i = CandleCount THEN Trigger("end_of_data", s.close)
            ELSE NoTrigger
    BY DEF ExitTrigger
  <1>5. ASSUME d = "portfolio_risk"
        PROVE  -GrossPnl(portfolio.open, s.close) >= trial.budget
    <2>. DEFINE S == {k \in Watched : -GrossPnl(portfolio.open, data.candles[k].close) >= trial.budget}
    <2>1. i = IF S = {} THEN 0 ELSE Lowest(S)
      BY <1>3, <1>5 DEF RiskBreachAt, FirstOf
    <2>2. i # 0 /\ S \in SUBSET Nat
      BY CandleNumbers DEF Watched, CandleNumber
    <2>3. i \in S
      <3>. HIDE DEF S
      <3>. QED
        BY <2>1, <2>2, LowestIs
    <2>. QED
      BY <2>3
  <1>6. /\ CandidateSound(c) /\ Inside(c, portfolio.open.current)
        /\ Within(c, c.invalidation) /\ Within(c, c.target) /\ Within(c, portfolio.open.current)
        /\ (t = NoTrigger => Within(c, s.close))
    BY <1>2, InsideIsWithin, ThresholdsAreWithin
  <1>7. \A reason, price : /\ Trigger(reason, price).reason = reason
                           /\ Trigger(reason, price).price = price
    BY DEF Trigger
  <1>8. NoTrigger.reason = "none"
    BY DEF NoTrigger, Trigger
  <1>. HIDE DEF c, s, d, t, x
  <1>9. CASE d = "data_unreliable"
    <2>1. x = Trigger(d, portfolio.open.current)
      BY <1>4, <1>9
    <2>2. x.reason = "data_unreliable" /\ Within(c, x.price) /\ x # NoTrigger
      BY <1>6, <1>7, <1>8, <1>9, <2>1
    <2>. QED
      BY <2>2 DEF Decides, ReplayExits, c, x
  <1>10. CASE d # "data_unreliable" /\ t # NoTrigger
    <2>1. x = t
      BY <1>4, <1>10
    <2>2. x.reason \in {"invalidation", "target"} /\ Within(c, x.price) /\ x # NoTrigger
      BY <1>1, <1>6, <1>7, <1>10, <2>1
    <2>. QED
      BY <2>2 DEF Decides, ReplayExits, c, x
  <1>11. CASE d # "data_unreliable" /\ t = NoTrigger /\ d # "none"
    <2>1. x = Trigger(d, s.close) /\ d \in {"trend_reversal", "portfolio_risk"}
      BY <1>3, <1>4, <1>11
    <2>2. x.reason = d /\ x.price = s.close /\ x # NoTrigger
      BY <1>7, <1>8, <1>11, <2>1
    <2>3. Inside(c, x.price) /\ Within(c, x.price)
      BY <1>2, <1>6, <1>11, <2>2
    <2>4. x.reason = "trend_reversal" => i = ReversalAt
      BY <1>3, <2>2
    <2>5. x.reason = "portfolio_risk" => -GrossPnl(portfolio.open, x.price) >= trial.budget
      BY <1>5, <2>2
    <2>. QED
      BY <2>1, <2>2, <2>3, <2>4, <2>5 DEF Decides, ReplayExits, c, x
  <1>12. CASE t = NoTrigger /\ d = "none"
    <2>1. CASE x = NoTrigger
      <3>1. i # CandleCount
        <4>1. Trigger("end_of_data", s.close) # NoTrigger /\ Trigger("time_expiry", s.close) # NoTrigger
          BY <1>7, <1>8
        <4>. QED
          BY <1>4, <1>12, <2>1, <4>1
      <3>2. Inside(c, s.close)
        BY <1>2, <1>12
      <3>. QED
        BY <2>1, <3>1, <3>2 DEF Decides, c, s, x
    <2>2. CASE x # NoTrigger
      <3>1. x.reason \in {"time_expiry", "end_of_data"} /\ Within(c, x.price)
        BY <1>4, <1>6, <1>7, <1>12, <2>2
      <3>. QED
        BY <2>2, <3>1 DEF Decides, ReplayExits, c, x
    <2>. QED
      BY <2>1, <2>2
  <1>. QED
    BY <1>9, <1>10, <1>11, <1>12

-----------------------------------------------------------------------------
(* The invariant. *)

Later == {"replay", "no_position", "opened", "watching", "closed", "aborted"}
ReplayStages == {"generate", "no_candidates"} \cup Later

Fields ==
    {"status", "created", "updated", "cash", "equity", "fees", "realized", "unrealized",
     "open", "closed", "timeline"}

PositionFields ==
    {"number", "side", "quantity", "entry", "opened", "current", "marked", "reserved",
     "entryFee", "unrealized"}

BatchInv ==
    stage \in Later =>
        /\ portfolio.created \in CandleNumber
        /\ \A c \in GeneratedCandidates : c.created <= portfolio.created
        /\ RankedAt(portfolio.created)

\* Until a candidate opens, every one tried has been refused or has found no fill.
WaitingInv ==
    /\ stage = "generate" => trial = NoTrial
    /\ stage \in {"replay", "no_position"} =>
        /\ portfolio = Given /\ trial = NoTrial /\ next \in Nat \ {0}
        /\ \A k \in 1..Len(ranked) : k < next => Status(k) # "opened"
    /\ stage = "no_position" => next > Len(ranked)

TrialInv ==
    stage \in {"opened", "watching", "closed", "aborted"} =>
        /\ trial.rank \in 1..Len(ranked) /\ trial.candidate = ranked[trial.rank]
        /\ Status(trial.rank) = "opened"
        /\ \A k \in 1..Len(ranked) : k < trial.rank => Status(k) # "opened"
        /\ trial.opened = FillCandle(trial.candidate, portfolio.created)
        /\ trial.budget = RiskBudget(Given)

Bought == SimulationQuantity(trial.candidate, Given)

\* One event for the creation, one for the opening, and one for each candle since.
Timed(timeline, n) ==
    /\ timeline \in Seq(Events) /\ Len(timeline) = n /\ n >= 2
    /\ \A i \in 1..n : (timeline[i].type = "marked") = (i > 2)

\* And, once closed, one event for the close.
TimedOut(timeline, n) ==
    Len(timeline) = n /\ \A i \in 1..n : (timeline[i].type = "marked") = (2 < i /\ i < n)

\* The open position is the candidate's, and its last mark is between the thresholds.
Held ==
    LET c == trial.candidate
        p == portfolio.open
    IN  /\ DOMAIN portfolio = Fields /\ DOMAIN p = PositionFields
        /\ portfolio.status = "active" /\ portfolio.updated = next - 1
        /\ portfolio.closed = << >>
        /\ portfolio.cash = Starting - (Notional(c.entry, Bought) + EntryFee(c.entry, Bought))
        /\ p.number = 1 /\ p.side = c.side /\ p.quantity = Bought /\ p.entry = c.entry
        /\ p.opened = trial.opened /\ p.reserved = Notional(c.entry, Bought)
        /\ Inside(c, p.current)
        /\ Timed(portfolio.timeline, next - trial.opened + 1)

HoldingInv ==
    /\ stage = "opened" => Held /\ next = trial.opened + 1
    /\ stage = "watching" => Held /\ next \in CandleNumber /\ next > trial.opened

\* The closed position, and what its timeline has marked.
Concluded ==
    LET p == portfolio.closed[1]
        c == trial.candidate
    IN  /\ Len(portfolio.closed) = 1 /\ ~IsOpen(portfolio)
        /\ next \in CandleNumber /\ next > trial.opened
        /\ portfolio.updated = next
        /\ p.opened = trial.opened /\ p.closed = next /\ p.exit > 0
        /\ p.side = c.side /\ p.entry = c.entry /\ p.quantity = Bought
        /\ -p.gross <= trial.budget
        /\ TimedOut(portfolio.timeline, next - trial.opened + 2)
        /\ result \in ReplayExits
        /\ result = "trend_reversal" => ReversalAt # 0
        /\ result = "portfolio_risk" =>
            -p.gross = trial.budget /\ -Gain(p, p.exit) < Quantum * trial.budget

EndInv ==
    /\ stage = "aborted" =>
        \/ result = "directive_conflict" /\ ReversalAt # 0
        \/ result = "no_candle_after_entry" /\ trial.opened = CandleCount
    /\ stage = "closed" => Concluded
    /\ stage \notin {"aborted", "closed"} => result = "none"

ReplayInv ==
    DataTypeOK /\ stage \in ReplayStages /\ BatchInv /\ WaitingInv /\ TrialInv /\ HoldingInv /\ EndInv

-----------------------------------------------------------------------------
LEMMA GivenIs ==
  /\ Given.created = portfolio.created /\ Given.cash = Starting /\ Given.status = "active"
  /\ ~IsOpen(Given)
  BY DEF Given, Created, IsOpen, NoPosition

\* What holds of the candidate that opened and of its quantity.
TradeFacts ==
    LET c == trial.candidate
        b == trial.budget
        n == NotionalBudget(Given)
    IN  /\ CandidateSound(c)
        /\ trial.opened \in CandleNumber /\ trial.opened > portfolio.created
        /\ b \in Nat \ {0} /\ 100 * b <= Starting + 50
        /\ n \in Nat /\ 4 * n <= Starting + 2
        /\ Bought \in Nat /\ Bought * Risk(c) <= Quantum * b
        /\ c.entry * Bought \in Nat /\ c.entry * Bought <= Quantum * n

LEMMA TradeIs ==
  ASSUME DataTypeOK, BatchInv, TrialInv, stage \in {"opened", "watching", "closed", "aborted"}
  PROVE  TradeFacts
  <1>. DEFINE c == trial.candidate
              at == portfolio.created
              k == trial.rank
  <1>1. at \in CandleNumber /\ RankedAt(at) /\ at \in Nat
    BY CandleNumbers DEF BatchInv, Later
  <1>2. /\ k \in 1..Len(ranked) /\ c = ranked[k] /\ Status(k) = "opened"
        /\ trial.opened = FillCandle(c, at) /\ trial.budget = RiskBudget(Given)
    BY DEF TrialInv
  <1>. HIDE DEF c, at, k
  <1>3. CandidateSound(c)
    BY <1>1, <1>2, RankedAre
  <1>4. Approved(c, k, Given, at) /\ FillCandle(c, at) # 0
    <2>1. ReplayStatus(c, k, Given, at) = "opened"
      BY <1>2, GivenIs DEF Status, at
    <2>. QED
      BY <2>1 DEF ReplayStatus
  <1>5. trial.opened \in CandleNumber /\ trial.opened > at
    BY <1>1, <1>2, <1>4, FillIs
  <1>6. Given = Created(at)
    BY DEF Given, at
  <1>7. Quantified(c, at)
    BY <1>3, <1>4, <1>6, ApprovedIsQuantified
  <1>. DEFINE q == SimulationQuantity(c, Given)
  <1>8. /\ trial.budget \in Nat \ {0} /\ q \in Nat /\ 100 * trial.budget <= Starting + 50
        /\ NotionalBudget(Given) \in Nat /\ 4 * NotionalBudget(Given) <= Starting + 2
        /\ q * Risk(c) <= Quantum * trial.budget
        /\ q * c.entry <= Quantum * NotionalBudget(Given)
    BY <1>2, <1>6, <1>7 DEF Quantified
  <1>9. Bought = q
    BY DEF Bought, c
  <1>. HIDE DEF q
  <1>10. c.entry * q \in Nat /\ c.entry * q = q * c.entry
    <2>1. c.entry \in Nat /\ q \in Nat
      BY <1>3, <1>8 DEF CandidateSound
    <2>. QED
      BY <2>1
  <1>. QED
    BY <1>3, <1>5, <1>8, <1>9, <1>10 DEF TradeFacts, c, at

\* The attempts, the trade's own facts and the ranking stay as they are.
LEMMA KeptInv ==
  ASSUME data' = data, ranked' = ranked, trial' = trial, portfolio'.created = portfolio.created
  PROVE  /\ DataTypeOK => DataTypeOK'
         /\ (BatchInv /\ stage \in Later) => BatchInv'
         /\ (TrialInv /\ stage \in {"opened", "watching", "closed", "aborted"}) => TrialInv'
         /\ Bought' = Bought
         /\ \A c, price : Inside(c, price)' = Inside(c, price)
  <1>1. DataTypeOK => DataTypeOK'
    BY SameCandidates
  <1>2. (BatchInv /\ stage \in Later) => BatchInv'
    <2>1. \A at : RankedAt(at)' = RankedAt(at)
      BY SameRanking
    <2>. QED
      BY <2>1, SameCandidates DEF BatchInv
  <1>3. (TrialInv /\ stage \in {"opened", "watching", "closed", "aborted"}) => TrialInv'
    <2>1. \A c, at : FillCandle(c, at)' = FillCandle(c, at)
      BY SameJudgement
    <2>2. Given' = Given /\ \A k : Status(k)' = Status(k)
      BY SameStatus
    <2>. QED
      BY <2>1, <2>2 DEF TrialInv
  <1>4. Bought' = Bought
    BY SameJudgement, SameStatus DEF Bought
  <1>. QED
    BY <1>1, <1>2, <1>3, <1>4 DEF Inside

LEMMA ReplayInvInit == ReplayInit => ReplayInv
  <1>. SUFFICES ASSUME ReplayInit PROVE ReplayInv
    OBVIOUS
  <1>1. stage = "generate" /\ trial = NoTrial /\ result = "none"
    BY DEF ReplayInit
  <1>2. DataTypeOK
    BY DEF ReplayInit, DataTypeOK
  <1>. QED
    BY <1>1, <1>2 DEF ReplayInv, ReplayStages, Later, BatchInv, WaitingInv, TrialInv, HoldingInv, EndInv

\* The batch gets a portfolio dated by the youngest candidate, and its ranking.
LEMMA GenerateKeeps == ReplayInv /\ GenerateCandidates => ReplayInv'
  <1>. SUFFICES ASSUME ReplayInv, GenerateCandidates PROVE ReplayInv'
    OBVIOUS
  <1>1. stage = "generate" /\ data' = data /\ trial' = trial /\ result' = result /\ DataTypeOK
        /\ trial = NoTrial /\ result = "none"
    BY DEF GenerateCandidates, ReplayInv, WaitingInv, EndInv
  <1>2. DataTypeOK'
    BY <1>1, SameCandidates
  <1>3. CASE GeneratedCandidates = {}
    <2>1. stage' = "no_candidates"
      BY <1>3 DEF GenerateCandidates
    <2>. QED
      BY <1>1, <1>2, <2>1
      DEF ReplayInv, ReplayStages, Later, BatchInv, WaitingInv, TrialInv, HoldingInv, EndInv
  <1>4. CASE GeneratedCandidates # {}
    <2>0. PICK at : at = EvaluatedAt(GeneratedCandidates)
      OBVIOUS
    <2>. DEFINE T == {c.created : c \in GeneratedCandidates}
    <2>1. /\ stage' = "replay" /\ portfolio' = Created(at) /\ next' = 1
          /\ ranked' \in Rankings({c \in GeneratedCandidates : Selectable(c, at)}, at)
      BY <1>4, <2>0 DEF GenerateCandidates
    <2>2. T \in SUBSET CandleNumber /\ T # {}
      BY <1>1, <1>4, GeneratedAreSound DEF CandidateSound
    <2>3. at \in CandleNumber /\ \A k \in T : k <= at
      <3>1. at = Highest(T)
        BY <2>0 DEF EvaluatedAt
      <3>. HIDE DEF T
      <3>. QED
        BY <2>2, <3>1, CandleNumbers, HighestIs
    <2>4. \A c \in GeneratedCandidates : c.created <= at
      BY <2>3
    <2>. HIDE DEF T
    <2>5. portfolio'.created = at /\ portfolio' = Given'
      BY <2>1 DEF Given, Created
    <2>6. GeneratedCandidates' = GeneratedCandidates /\ \A c : Score(c, at)' = Score(c, at)
      BY <1>1, SameCandidates, SameJudgement
    <2>7. RankedAt(at)'
      BY <2>1, <2>6 DEF RankedAt, Rankings
    <2>8. BatchInv'
      BY <2>1, <2>3, <2>4, <2>5, <2>6, <2>7 DEF BatchInv
    <2>9. WaitingInv'
      BY <1>1, <2>1, <2>5 DEF WaitingInv
    <2>. QED
      BY <1>1, <1>2, <2>1, <2>8, <2>9 DEF ReplayInv, ReplayStages, Later, TrialInv, HoldingInv, EndInv
  <1>. QED
    BY <1>3, <1>4

LEMMA NoPositionKeeps == ReplayInv /\ NoPositionOpened => ReplayInv'
  <1>. SUFFICES ASSUME ReplayInv, NoPositionOpened PROVE ReplayInv'
    OBVIOUS
  <1>1. /\ stage = "replay" /\ next > Len(ranked) /\ stage' = "no_position"
        /\ UNCHANGED <<portfolio, data, ranked, trial, next, result>>
    BY DEF NoPositionOpened
  <1>2. DataTypeOK' /\ BatchInv'
    BY <1>1, KeptInv DEF ReplayInv, Later
  <1>3. WaitingInv'
    <2>1. Given' = Given /\ \A k : Status(k)' = Status(k)
      BY <1>1, SameStatus
    <2>. QED
      BY <1>1, <2>1 DEF ReplayInv, WaitingInv
  <1>. QED
    BY <1>1, <1>2, <1>3 DEF ReplayInv, ReplayStages, Later, TrialInv, HoldingInv, EndInv

\* A timeline with one more event, marked or not.
LEMMA TimedGrows ==
  ASSUME NEW t, NEW n \in Nat, Timed(t, n), NEW e \in Events
  PROVE  LET u == Append(t, e) IN
         /\ u \in Seq(Events) /\ Len(u) = n + 1
         /\ e.type = "marked" => Timed(u, n + 1)
         /\ e.type # "marked" => TimedOut(u, n + 1)
  <1>. DEFINE u == Append(t, e)
  <1>1. t \in Seq(Events) /\ Len(t) = n /\ n >= 2 /\ \A i \in 1..n : (t[i].type = "marked") = (i > 2)
    BY DEF Timed
  <1>2. u \in Seq(Events) /\ Len(u) = n + 1 /\ u[n + 1] = e /\ \A i \in 1..n : u[i] = t[i]
    BY <1>1
  <1>. SUFFICES /\ u \in Seq(Events) /\ Len(u) = n + 1
                /\ e.type = "marked" => Timed(u, n + 1)
                /\ e.type # "marked" => TimedOut(u, n + 1)
    OBVIOUS
  <1>. HIDE DEF u
  <1>3. ASSUME e.type = "marked" PROVE Timed(u, n + 1)
    <2>1. ASSUME NEW i \in 1..(n + 1) PROVE (u[i].type = "marked") = (i > 2)
      <3>1. CASE i = n + 1
        BY <1>1, <1>2, <1>3, <3>1
      <3>2. CASE i # n + 1
        <4>1. i \in 1..n
          BY <3>2
        <4>. QED
          BY <1>1, <1>2, <4>1
      <3>. QED
        BY <3>1, <3>2
    <2>2. n + 1 >= 2
      BY <1>1
    <2>. QED
      BY <1>2, <2>1, <2>2 DEF Timed
  <1>4. ASSUME e.type # "marked", NEW i \in 1..(n + 1)
        PROVE  (u[i].type = "marked") = (2 < i /\ i < n + 1)
    <2>1. CASE i = n + 1
      BY <1>2, <1>4, <2>1
    <2>2. CASE i # n + 1
      <3>1. i \in 1..n /\ i < n + 1
        BY <2>2
      <3>2. (u[i].type = "marked") = (i > 2)
        BY <1>1, <1>2, <3>1
      <3>. QED
        BY <3>1, <3>2
    <2>. QED
      BY <2>1, <2>2
  <1>. QED
    BY <1>2, <1>3, <1>4 DEF TimedOut

\* What is bought commits no more than the notional budget, and a fee below that.
LEMMA BoughtIs ==
  ASSUME TradeFacts
  PROVE  LET e == trial.candidate.entry IN
         /\ Notional(e, Bought) \in 0..NotionalBudget(Given)
         /\ EntryFee(e, Bought) \in 0..Notional(e, Bought)
  <1>1. PICK e, q, n : e = trial.candidate.entry /\ q = Bought /\ n = NotionalBudget(Given)
    OBVIOUS
  <1>2. e \in Nat /\ q \in Nat /\ n \in Nat /\ 4 * n <= Starting + 2 /\ e * q <= Quantum * n
    BY <1>1 DEF TradeFacts, CandidateSound
  <1>3. n <= Starting
    BY <1>2, StartingAssumption
  <1>4. Notional(e, q) \in 0..n /\ EntryFee(e, q) \in 0..Notional(e, q)
    BY <1>2, <1>3, CommitmentIs
  <1>. QED
    BY <1>1, <1>4

\* An attempt that opens a position.
LEMMA OpeningHolds ==
  ASSUME portfolio = Given, NEW c, NEW q \in Nat, NEW fill \in Nat, CandidateSound(c),
         Notional(c.entry, q) \in Nat, EntryFee(c.entry, q) \in Nat,
         portfolio' = Opened(portfolio, c.side, c.entry, q, fill)
  PROVE  /\ DOMAIN portfolio' = Fields /\ DOMAIN (portfolio'.open) = PositionFields
         /\ portfolio'.created = portfolio.created
         /\ portfolio'.status = "active" /\ portfolio'.updated = fill /\ portfolio'.closed = << >>
         /\ portfolio'.cash = Starting - (Notional(c.entry, q) + EntryFee(c.entry, q))
         /\ portfolio'.open.number = 1 /\ portfolio'.open.side = c.side
         /\ portfolio'.open.quantity = q /\ portfolio'.open.entry = c.entry
         /\ portfolio'.open.opened = fill /\ portfolio'.open.reserved = Notional(c.entry, q)
         /\ portfolio'.open.current = c.entry
         /\ portfolio.created \in Nat => Timed(portfolio'.timeline, 2)
  <1>. DEFINE f == portfolio
              p == Position(1, c.side, c.entry, q, fill)
              cash == Starting - (Notional(c.entry, q) + EntryFee(c.entry, q))
              equity == cash + Notional(c.entry, q)
              e == [sequence |-> 2, type |-> "opened", at |-> fill, equity |-> equity, position |-> 1]
              first == [sequence |-> 1, type |-> "created", at |-> f.created, equity |-> Starting,
                        position |-> 0]
  <1>1. /\ DOMAIN f = Fields /\ f.status = "active" /\ f.cash = Starting
        /\ f.closed = << >> /\ f.timeline = <<first>>
    BY DEF Given, Created, Fields
  <1>2. /\ DOMAIN p = PositionFields /\ p.number = 1 /\ p.side = c.side /\ p.quantity = q
        /\ p.entry = c.entry /\ p.opened = fill /\ p.reserved = Notional(c.entry, q) /\ p.current = c.entry
        /\ p.entryFee = EntryFee(c.entry, q)
    BY DEF Position, PositionFields
  <1>3. Event(f, "opened", fill, equity, 1) = e
    <2>1. Len(f.timeline) + 1 = 2
      BY <1>1
    <2>. QED
      BY <2>1 DEF Event
  <1>4. portfolio' = [f EXCEPT !.updated = fill, !.cash = cash, !.equity = equity,
                  !.fees = @ + p.entryFee, !.open = p, !.timeline = Append(@, e)]
    <2>1. Len(f.closed) + 1 = 1
      BY <1>1
    <2>2. f.cash - (p.reserved + p.entryFee) = cash
      BY <1>1, <1>2
    <2>3. cash + p.reserved = equity
      BY <1>2
    <2>. HIDE DEF p, e, cash, equity
    <2>. QED
      BY <1>2, <1>3, <2>1, <2>2, <2>3 DEF Opened, p
  <1>. HIDE DEF p, f, e, cash, equity, first
  <1>5. /\ portfolio'.created = f.created /\ portfolio'.status = f.status
        /\ portfolio'.updated = fill /\ portfolio'.closed = f.closed /\ portfolio'.cash = cash
        /\ portfolio'.open = p /\ portfolio'.timeline = Append(f.timeline, e)
        /\ DOMAIN portfolio' = Fields
    BY <1>1, <1>4 DEF Fields
  <1>6. ASSUME f.created \in Nat PROVE Timed(portfolio'.timeline, 2)
    <2>1. equity \in Int
      <3>1. Notional(c.entry, q) \in Nat /\ EntryFee(c.entry, q) \in Nat /\ Starting \in Nat
        BY StartingAssumption
      <3>. QED
        BY <3>1 DEF equity, cash
    <2>2. first \in Events /\ e \in Events /\ first.type = "created" /\ e.type = "opened"
      BY <1>6, <2>1, StartingAssumption DEF first, e, Events, EventType
    <2>3. f.timeline \in Seq(Events) /\ Len(f.timeline) = 1 /\ f.timeline[1] = first
      BY <1>1, <2>2
    <2>4. PICK u : u = portfolio'.timeline
      OBVIOUS
    <2>5. u \in Seq(Events) /\ Len(u) = 2 /\ u[1] = first /\ u[2] = e
      BY <1>5, <2>2, <2>3, <2>4
    <2>6. \A i \in 1..2 : (u[i].type = "marked") = (i > 2)
      BY <2>2, <2>5
    <2>. QED
      BY <2>4, <2>5, <2>6 DEF Timed
  <1>. QED
    BY <1>1, <1>2, <1>5, <1>6 DEF f, cash

\* An attempt is refused and the next one follows, or it opens the position.
LEMMA AttemptKeeps == ReplayInv /\ AttemptCandidate => ReplayInv'
  <1>. SUFFICES ASSUME ReplayInv, AttemptCandidate PROVE ReplayInv'
    OBVIOUS
  <1>0. DataTypeOK /\ BatchInv /\ WaitingInv /\ EndInv
    BY DEF ReplayInv
  <1>1. /\ stage = "replay" /\ next <= Len(ranked)
        /\ data' = data /\ ranked' = ranked /\ result' = result /\ result = "none"
    BY DEF AttemptCandidate, ReplayInv, EndInv
  <1>2. /\ portfolio = Given /\ trial = NoTrial /\ next \in Nat \ {0}
        /\ \A k \in 1..Len(ranked) : k < next => Status(k) # "opened"
    BY <1>0, <1>1 DEF WaitingInv
  <1>. DEFINE c == ranked[next]
              at == portfolio.created
              fill == FillCandle(c, at)
  <1>3. at \in Nat /\ RankedAt(at) /\ next \in 1..Len(ranked)
    <2>1. at \in CandleNumber /\ RankedAt(at)
      BY <1>0, <1>1 DEF BatchInv, Later
    <2>2. at \in Nat
      BY <2>1, CandleNumbers
    <2>. HIDE DEF at
    <2>3. Len(ranked) \in Nat
      BY <1>0, <2>1, RankedAre
    <2>. QED
      BY <1>1, <1>2, <2>1, <2>2, <2>3
  <1>4. Status(next) = ReplayStatus(c, next, portfolio, at)
    BY <1>2 DEF Status
  <1>5. CASE ReplayStatus(c, next, portfolio, at) # "opened"
    <2>1. next' = next + 1 /\ UNCHANGED <<portfolio, trial, stage>>
      BY <1>5 DEF AttemptCandidate
    <2>2. DataTypeOK' /\ BatchInv'
      BY <1>0, <1>1, <2>1, KeptInv DEF Later
    <2>3. WaitingInv'
      <3>1. Given' = Given /\ \A k : Status(k)' = Status(k)
        BY <1>1, <2>1, SameStatus
      <3>2. Len(ranked) \in Nat
        BY <1>0, <1>3, RankedAre
      <3>3. \A k \in 1..Len(ranked) : k < next + 1 => k < next \/ k = next
        BY <1>2, <3>2
      <3>4. \A k \in 1..Len(ranked) : k < next' => Status(k) # "opened"
        BY <1>2, <1>4, <1>5, <2>1, <3>3
      <3>. QED
        BY <1>1, <1>2, <2>1, <3>1, <3>4 DEF WaitingInv
    <2>. QED
      BY <1>1, <2>1, <2>2, <2>3 DEF ReplayInv, ReplayStages, Later, TrialInv, HoldingInv, EndInv
  <1>6. CASE ReplayStatus(c, next, portfolio, at) = "opened"
    <2>. DEFINE t == [opened |-> fill, budget |-> RiskBudget(portfolio), rank |-> next, candidate |-> c]
                q == SimulationQuantity(c, portfolio)
    <2>1. /\ portfolio' = Opened(portfolio, c.side, c.entry, q, fill)
          /\ trial' = t /\ stage' = "opened" /\ next' = fill + 1
      BY <1>6 DEF AttemptCandidate
    <2>2. t.opened = fill /\ t.budget = RiskBudget(portfolio) /\ t.rank = next /\ t.candidate = c
      OBVIOUS
    <2>3. CandidateSound(c)
      BY <1>0, <1>3, RankedAre
    <2>4. Approved(c, next, Given, at) /\ fill # 0
      BY <1>2, <1>6 DEF ReplayStatus
    <2>5. fill \in CandleNumber /\ fill \in Nat
      BY <1>3, <2>4, FillIs, CandleNumbers
    <2>6. Quantified(c, at)
      <3>1. Given = Created(at)
        BY DEF Given
      <3>. QED
        BY <1>0, <2>3, <2>4, <3>1, ApprovedIsQuantified
    <2>7. /\ q \in Nat /\ NotionalBudget(Created(at)) \in Nat
          /\ 4 * NotionalBudget(Created(at)) <= Starting + 2
          /\ q * c.entry <= Quantum * NotionalBudget(Created(at))
      <3>1. portfolio = Created(at)
        BY <1>2 DEF Given
      <3>. QED
        BY <2>6, <3>1 DEF Quantified
    <2>. HIDE DEF t, q, fill, at
    <2>8. Notional(c.entry, q) \in Nat /\ EntryFee(c.entry, q) \in Nat
      <3>1. PICK e, n : e = c.entry /\ n = NotionalBudget(Created(at))
        OBVIOUS
      <3>2. e \in Nat /\ n \in Nat /\ n <= Starting
        BY <2>3, <2>7, <3>1, StartingAssumption DEF CandidateSound
      <3>3. e * q <= Quantum * n
        BY <2>7, <3>1, <3>2
      <3>4. Notional(e, q) \in 0..n /\ EntryFee(e, q) \in 0..Notional(e, q)
        BY <2>7, <3>2, <3>3, CommitmentIs
      <3>. QED
        BY <3>1, <3>2, <3>4
    <2>. HIDE DEF c
    <2>9. PICK x, y, z : x = c /\ y = q /\ z = fill
      OBVIOUS
    <2>10. /\ CandidateSound(x) /\ y \in Nat /\ z \in Nat
           /\ Notional(x.entry, y) \in Nat /\ EntryFee(x.entry, y) \in Nat
           /\ portfolio' = Opened(portfolio, x.side, x.entry, y, z)
      BY <2>1, <2>3, <2>5, <2>7, <2>8, <2>9
    <2>11. /\ DOMAIN portfolio' = Fields /\ DOMAIN (portfolio'.open) = PositionFields
           /\ portfolio'.created = portfolio.created
           /\ portfolio'.status = "active" /\ portfolio'.updated = z /\ portfolio'.closed = << >>
           /\ portfolio'.cash = Starting - (Notional(x.entry, y) + EntryFee(x.entry, y))
           /\ portfolio'.open.number = 1 /\ portfolio'.open.side = x.side
           /\ portfolio'.open.quantity = y /\ portfolio'.open.entry = x.entry
           /\ portfolio'.open.opened = z /\ portfolio'.open.reserved = Notional(x.entry, y)
           /\ portfolio'.open.current = x.entry
           /\ Timed(portfolio'.timeline, 2)
      BY <1>2, <1>3, <2>10, OpeningHolds DEF at
    <2>12. Given' = Given /\ (\A k : Status(k)' = Status(k))
      BY <1>1, <2>11, SameStatus
    <2>13. DataTypeOK' /\ BatchInv'
      <3>1. DataTypeOK'
        BY <1>0, <1>1, SameCandidates
      <3>2. \A v : RankedAt(v)' = RankedAt(v)
        BY <1>1, SameRanking
      <3>3. GeneratedCandidates' = GeneratedCandidates
        BY <1>1, SameCandidates
      <3>4. /\ portfolio.created \in CandleNumber /\ RankedAt(portfolio.created)
            /\ \A d \in GeneratedCandidates : d.created <= portfolio.created
        BY <1>0, <1>1 DEF BatchInv, Later
      <3>5. portfolio'.created = portfolio.created
        BY <2>11
      <3>. QED
        BY <3>1, <3>2, <3>3, <3>4, <3>5 DEF BatchInv
    <2>14. TrialInv'
      <3>1. trial'.rank = next /\ trial'.candidate = c /\ trial'.opened = fill
            /\ trial'.budget = RiskBudget(portfolio)
        BY <2>1, <2>2
      <3>2. (\A d, v : FillCandle(d, v)' = FillCandle(d, v))
        BY <1>1, SameJudgement
      <3>3. Status(next) = "opened"
        BY <1>4, <1>6
      <3>4. trial'.candidate = ranked'[trial'.rank] /\ trial'.rank \in 1..Len(ranked')
        BY <1>1, <1>3, <3>1 DEF c
      <3>5. (trial.budget = RiskBudget(Given))'
        <4>1. PICK f : f = Given
          OBVIOUS
        <4>2. RiskBudget(f)' = RiskBudget(f)
          BY DEF RiskBudget
        <4>3. Given' = f
          BY <2>12, <4>1
        <4>. QED
          BY <1>2, <3>1, <4>1, <4>3 DEF RiskBudget
      <3>6. (trial.opened = FillCandle(trial.candidate, portfolio.created))'
        <4>1. PICK d, v : d = c /\ v = portfolio.created
          OBVIOUS
        <4>2. FillCandle(d, v)' = FillCandle(d, v)
          BY <3>2
        <4>3. trial'.opened = FillCandle(d, v)
          BY <3>1, <4>1 DEF fill, at
        <4>4. trial'.candidate = d /\ portfolio'.created = v
          BY <2>11, <3>1, <4>1
        <4>. QED
          BY <4>2, <4>3, <4>4
      <3>7. /\ (Status(trial.rank) = "opened")'
            /\ (\A k \in 1..Len(ranked) : k < trial.rank => Status(k) # "opened")'
        <4>1. PICK m : m = next
          OBVIOUS
        <4>2. trial'.rank = m /\ Status(m)' = Status(m) /\ Status(m) = "opened"
          BY <2>12, <3>1, <3>3, <4>1
        <4>3. (\A k \in 1..Len(ranked) : k < trial.rank => Status(k) # "opened")'
          BY <1>1, <1>2, <2>12, <3>1
        <4>. QED
          BY <4>2, <4>3
      <3>. QED
        BY <3>4, <3>5, <3>6, <3>7 DEF TrialInv
    <2>15. Bought' = y /\ trial'.candidate = x /\ trial'.opened = z
      <3>1. trial'.candidate = c /\ trial'.opened = fill
        BY <2>1, <2>2
      <3>2. \A d, f : SimulationQuantity(d, f)' = SimulationQuantity(d, f)
        BY <1>1, SameJudgement
      <3>3. Bought' = q
        BY <1>2, <2>12, <3>1, <3>2 DEF Bought, q
      <3>. QED
        BY <2>9, <3>1, <3>3
    <2>16. Inside(x, x.entry)
      BY <2>10, EntryIsInside
    <2>17. z \in Nat /\ next' = z + 1
      BY <2>1, <2>9, <2>10
    <2>18. Held'
      <3>1. next' - 1 = z /\ next' - z + 1 = 2
        BY <2>17
      <3>. QED
        BY <2>11, <2>15, <2>16, <3>1 DEF Held, Inside, Timed
    <2>19. HoldingInv'
      BY <2>1, <2>15, <2>17, <2>18 DEF HoldingInv
    <2>20. WaitingInv' /\ EndInv' /\ stage' \in ReplayStages
      BY <1>1, <2>1 DEF WaitingInv, EndInv, ReplayStages, Later
    <2>. QED
      BY <2>13, <2>14, <2>19, <2>20 DEF ReplayInv
  <1>. QED
    BY <1>5, <1>6

\* The trade stands as it was when nothing of it changes.
LEMMA HeldKept ==
  ASSUME data' = data, trial' = trial, ranked' = ranked, portfolio' = portfolio, next' = next, Held
  PROVE  Held'
  <1>1. Bought' = Bought
    BY KeptInv
  <1>. QED
    BY <1>1 DEF Held, Inside, Timed

\* The watch begins with the candle after the fill, unless the directives conflict.
LEMMA PrepareKeeps == ReplayInv /\ PrepareWatch => ReplayInv'
  <1>. SUFFICES ASSUME ReplayInv, PrepareWatch PROVE ReplayInv'
    OBVIOUS
  <1>0. DataTypeOK /\ BatchInv /\ TrialInv /\ HoldingInv /\ EndInv
    BY DEF ReplayInv
  <1>1. /\ stage = "opened" /\ UNCHANGED <<portfolio, data, ranked, trial, next>>
        /\ result = "none"
    BY <1>0 DEF PrepareWatch, EndInv
  <1>2. Held /\ next = trial.opened + 1 /\ TradeFacts
    BY <1>0, <1>1, TradeIs DEF HoldingInv
  <1>3. DataTypeOK' /\ BatchInv' /\ TrialInv'
    BY <1>0, <1>1, KeptInv DEF Later
  <1>4. PICK o : o = trial.opened
    OBVIOUS
  <1>5. o \in CandleNumber /\ o \in Nat /\ CandleCount \in Nat /\ o <= CandleCount
    <2>1. o \in CandleNumber
      BY <1>2, <1>4 DEF TradeFacts
    <2>. QED
      BY <2>1, DatasetAssumption DEF CandleNumber
  <1>6. CASE DirectivesConflict
    <2>1. stage' = "aborted" /\ result' = "directive_conflict" /\ ReversalAt # 0
      BY <1>6 DEF PrepareWatch, Aborted, DirectivesConflict
    <2>2. ReversalAt' = ReversalAt
      BY <1>1, SameReversal
    <2>3. EndInv'
      BY <2>1, <2>2 DEF EndInv
    <2>. QED
      BY <1>3, <2>1, <2>3 DEF ReplayInv, ReplayStages, Later, WaitingInv, HoldingInv
  <1>7. CASE ~DirectivesConflict /\ Watched = {}
    <2>1. stage' = "aborted" /\ result' = "no_candle_after_entry"
      BY <1>7 DEF PrepareWatch, Aborted
    <2>2. o = CandleCount
      <3>1. ASSUME o # CandleCount PROVE FALSE
        <4>1. o + 1 \in CandleNumber /\ (o + 1) - 1 >= o
          BY <1>5, <3>1 DEF CandleNumber
        <4>2. o + 1 \in Watched
          BY <1>4, <4>1 DEF Watched
        <4>. QED
          BY <1>7, <4>2
      <3>. QED
        BY <3>1
    <2>3. EndInv'
      BY <1>1, <1>4, <2>1, <2>2 DEF EndInv
    <2>. QED
      BY <1>3, <2>1, <2>3 DEF ReplayInv, ReplayStages, Later, WaitingInv, HoldingInv
  <1>8. CASE ~DirectivesConflict /\ Watched # {}
    <2>1. stage' = "watching" /\ result' = result
      BY <1>8 DEF PrepareWatch
    <2>2. PICK i \in CandleNumber : i - 1 >= o
      BY <1>4, <1>8 DEF Watched
    <2>3. o + 1 \in CandleNumber /\ o + 1 > o
      BY <1>5, <2>2 DEF CandleNumber
    <2>4. next \in CandleNumber /\ next > trial.opened
      BY <1>2, <1>4, <2>3
    <2>5. HoldingInv'
      BY <1>1, <1>2, <2>1, <2>4, HeldKept DEF HoldingInv, CandleNumber
    <2>6. EndInv'
      BY <1>1, <2>1 DEF EndInv
    <2>. QED
      BY <1>3, <2>1, <2>5, <2>6 DEF ReplayInv, ReplayStages, Later, WaitingInv
  <1>. QED
    BY <1>6, <1>7, <1>8

\* A mark moves the price of the position and the time of the portfolio.
LEMMA MarkingHolds ==
  ASSUME NEW f, NEW price, NEW at, DOMAIN f = Fields, DOMAIN f.open = PositionFields
  PROVE  LET g == Marked(f, price, at) IN
         /\ DOMAIN g = Fields /\ DOMAIN g.open = PositionFields
         /\ g.created = f.created /\ g.status = f.status /\ g.updated = at
         /\ g.closed = f.closed /\ g.cash = f.cash
         /\ g.open.number = f.open.number /\ g.open.side = f.open.side
         /\ g.open.quantity = f.open.quantity /\ g.open.entry = f.open.entry
         /\ g.open.opened = f.open.opened /\ g.open.reserved = f.open.reserved
         /\ g.open.current = price
         /\ g.timeline = Append(f.timeline, Event(f, "marked", at, f.cash + f.open.reserved
                                                     + GrossPnl(f.open, price), f.open.number))
  <1>. DEFINE unrealized == GrossPnl(f.open, price)
              equity == f.cash + f.open.reserved + unrealized
              p == [f.open EXCEPT !.current = price, !.marked = at, !.unrealized = unrealized]
              e == Event(f, "marked", at, equity, f.open.number)
              g == Marked(f, price, at)
  <1>1. g = [f EXCEPT !.updated = at, !.equity = equity, !.unrealized = unrealized, !.open = p,
                      !.timeline = Append(@, e)]
    BY DEF Marked
  <1>2. /\ DOMAIN p = PositionFields /\ p.number = f.open.number /\ p.side = f.open.side
        /\ p.quantity = f.open.quantity /\ p.entry = f.open.entry /\ p.opened = f.open.opened
        /\ p.reserved = f.open.reserved /\ p.current = price
    <2>. HIDE DEF unrealized
    <2>. QED
      BY DEF PositionFields
  <1>3. /\ DOMAIN g = Fields /\ g.created = f.created /\ g.status = f.status /\ g.updated = at
        /\ g.closed = f.closed /\ g.cash = f.cash /\ g.open = p /\ g.timeline = Append(f.timeline, e)
    <2>. HIDE DEF unrealized, equity, p, e, g
    <2>. QED
      BY <1>1 DEF Fields
  <1>. SUFFICES /\ DOMAIN g = Fields /\ DOMAIN g.open = PositionFields
                /\ g.created = f.created /\ g.status = f.status /\ g.updated = at
                /\ g.closed = f.closed /\ g.cash = f.cash
                /\ g.open.number = f.open.number /\ g.open.side = f.open.side
                /\ g.open.quantity = f.open.quantity /\ g.open.entry = f.open.entry
                /\ g.open.opened = f.open.opened /\ g.open.reserved = f.open.reserved
                /\ g.open.current = price
                /\ g.timeline = Append(f.timeline, e)
    OBVIOUS
  <1>. HIDE DEF unrealized, equity, p, e, g
  <1>. QED
    BY <1>2, <1>3

\* What a close leaves of the position.
LEMMA ClosingHolds ==
  ASSUME NEW f, NEW price, NEW at, DOMAIN f = Fields, f.closed = << >>
  PROVE  LET g == Closed(f, price, at)
             p == g.closed[1]
         IN  /\ g.created = f.created /\ g.updated = at /\ Len(g.closed) = 1 /\ ~IsOpen(g)
             /\ p.opened = f.open.opened /\ p.closed = at /\ p.exit = price
             /\ p.side = f.open.side /\ p.entry = f.open.entry /\ p.quantity = f.open.quantity
             /\ p.gross = GrossPnl(f.open, price)
             /\ g.timeline = Append(f.timeline, Event(f, "closed", at, CashAtClose(f, price),
                                                      f.open.number))
  <1>. DEFINE o == f.open
              gross == GrossPnl(o, price)
              exitFee == ExitFee(price, o.quantity)
              earned == gross - o.entryFee - exitFee
              cash == CashAtClose(f, price)
              x == [number |-> o.number, side |-> o.side, quantity |-> o.quantity, entry |-> o.entry,
                    opened |-> o.opened, entryFee |-> o.entryFee, exit |-> price, closed |-> at,
                    exitFee |-> exitFee, gross |-> gross, realized |-> earned]
              e == Event(f, "closed", at, cash, o.number)
              g == Closed(f, price, at)
  <1>1. g = [f EXCEPT !.updated = at, !.cash = cash, !.equity = cash, !.fees = @ + exitFee,
                      !.realized = @ + earned, !.unrealized = 0,
                      !.open = NoPosition, !.closed = Append(@, x), !.timeline = Append(@, e)]
    BY DEF Closed
  <1>2. /\ x.opened = o.opened /\ x.closed = at /\ x.exit = price /\ x.side = o.side
        /\ x.entry = o.entry /\ x.quantity = o.quantity /\ x.gross = gross
    OBVIOUS
  <1>3. /\ g.created = f.created /\ g.updated = at /\ g.open = NoPosition
        /\ g.closed = Append(f.closed, x) /\ g.timeline = Append(f.timeline, e)
    <2>. HIDE DEF gross, exitFee, earned, cash, x, e, g, o
    <2>. QED
      BY <1>1 DEF Fields
  <1>4. g.closed = <<x>>
    <2>. HIDE DEF gross, exitFee, earned, cash, x, e, g, o
    <2>. QED
      BY <1>3
  <1>5. Len(g.closed) = 1 /\ g.closed[1] = x
    <2>. HIDE DEF gross, exitFee, earned, cash, x, e, g, o
    <2>. QED
      BY <1>4
  <1>6. ~IsOpen(g)
    BY <1>3 DEF IsOpen, NoPosition
  <1>. DEFINE p == g.closed[1]
  <1>. SUFFICES /\ g.created = f.created /\ g.updated = at /\ Len(g.closed) = 1 /\ ~IsOpen(g)
                /\ p.opened = o.opened /\ p.closed = at /\ p.exit = price
                /\ p.side = o.side /\ p.entry = o.entry /\ p.quantity = o.quantity
                /\ p.gross = gross
                /\ g.timeline = Append(f.timeline, e)
    OBVIOUS
  <1>. HIDE DEF gross, exitFee, earned, cash, x, e, g, o
  <1>. QED
    BY <1>2, <1>3, <1>5, <1>6

\* What a step of the watch knows of the trade and of its next candle.
Watching(q, n) ==
    LET c == trial.candidate
        p == portfolio.open
    IN  /\ TradeFacts /\ Held /\ Decides(next)
        /\ q = Bought /\ q \in Nat /\ n = next - trial.opened + 1 /\ n \in Nat
        /\ next \in CandleNumber /\ next \in Nat /\ next > trial.opened /\ trial.opened \in Nat

LEMMA WatchIs ==
  ASSUME ReplayInv, stage = "watching"
  PROVE  \E q, n : Watching(q, n)
  <1>0. DataTypeOK /\ BatchInv /\ TrialInv /\ HoldingInv
    BY DEF ReplayInv
  <1>1. TradeFacts /\ Held /\ next \in CandleNumber /\ next > trial.opened
    BY <1>0, TradeIs DEF HoldingInv
  <1>2. PICK q : q = Bought
    OBVIOUS
  <1>3. trial.opened \in Nat /\ next \in Nat
    BY <1>1, CandleNumbers DEF TradeFacts
  <1>4. PICK n : n = next - trial.opened + 1
    OBVIOUS
  <1>5. n \in Nat
    BY <1>1, <1>3, <1>4
  <1>6. q \in Nat /\ CandidateSound(trial.candidate)
    BY <1>1, <1>2 DEF TradeFacts
  <1>7. Inside(trial.candidate, portfolio.open.current)
    BY <1>1 DEF Held
  <1>8. Decides(next)
    BY <1>0, <1>1, <1>6, <1>7, ExitDecides
  <1>. QED
    BY <1>1, <1>2, <1>3, <1>4, <1>5, <1>6, <1>8 DEF Watching

\* What an exit, or a mark, at a price within the thresholds moves.
LEMMA AmountsAre ==
  ASSUME DataTypeOK, NEW q, NEW n, Watching(q, n), NEW price, Within(trial.candidate, price)
  PROVE  LET c == trial.candidate
             gross == GrossPnl(portfolio.open, price)
         IN  /\ gross \in Int /\ -gross <= trial.budget
             /\ Inside(c, price) => -Gain(portfolio.open, price) < Quantum * trial.budget
             /\ portfolio.cash \in Int /\ portfolio.open.reserved \in Nat
             /\ CashAtClose(portfolio, price) \in Nat
  <1>. DEFINE c == trial.candidate
              gain == Gain(portfolio.open, price)
              gross == GrossPnl(portfolio.open, price)
              r == Risk(c)
  <1>1. PICK b, m, o :
          b = trial.budget /\ m = NotionalBudget(Given) /\ o = portfolio.open
    OBVIOUS
  <1>2. /\ CandidateSound(c) /\ q \in Nat /\ q * r <= Quantum * b
        /\ b \in Nat \ {0} /\ 100 * b <= Starting + 50
        /\ m \in Nat /\ 4 * m <= Starting + 2 /\ c.entry * q <= Quantum * m
    BY <1>1 DEF Watching, TradeFacts
  <1>3. /\ Notional(c.entry, q) \in 0..m /\ EntryFee(c.entry, q) \in 0..Notional(c.entry, q)
    BY <1>1, BoughtIs DEF Watching
  <1>4. /\ o.side = c.side /\ o.entry = c.entry /\ o.quantity = q
        /\ o.reserved = Notional(c.entry, q)
        /\ portfolio.cash = Starting - (Notional(c.entry, q) + EntryFee(c.entry, q))
    BY <1>1 DEF Watching, Held
  <1>5. r \in Nat /\ c.entry \in Nat
    BY <1>2 DEF CandidateSound
  <1>6. /\ gain \in Int /\ -(q * r) <= gain /\ gain <= 2 * (q * r)
        /\ price * q \in Nat /\ price * q \in {q * c.entry + gain, q * c.entry - gain}
    <2>1. LET g == Gain(o, price) IN
          /\ g \in Int /\ -(q * Risk(c)) <= g /\ g <= 2 * (q * Risk(c))
          /\ price * q \in Nat /\ price * q \in {q * c.entry + g, q * c.entry - g}
      BY <1>2, <1>4, GainBounds
    <2>. QED
      BY <1>1, <2>1
  <1>7. Inside(c, price) => -gain < Quantum * b
    <2>. SUFFICES ASSUME Inside(c, price) PROVE -gain < Quantum * b
      OBVIOUS
    <2>1. PICK limit \in Nat \ {0} : limit = Quantum * b
      BY <1>2, QuantumAssumption
    <2>2. -Gain(o, price) < limit
      BY <1>2, <1>4, <2>1, InsideLoss
    <2>. QED
      BY <1>1, <2>1, <2>2
  <1>. HIDE DEF gain, r
  <1>8. Starting \in Nat
    BY StartingAssumption
  <1>9. PICK lost \in Int, worth \in Int, limit \in Int, cap \in Int, value \in Nat :
          /\ lost = q * r /\ worth = q * c.entry /\ worth = c.entry * q
          /\ limit = Quantum * b /\ cap = Quantum * m /\ value = price * q
    <2>1. /\ q \in Int /\ b \in Int /\ m \in Int /\ r \in Int /\ c.entry \in Int /\ Quantum \in Int
      BY <1>2, <1>5, QuantumAssumption
    <2>2. PICK e \in Int : e = c.entry
      BY <2>1
    <2>3. q * r \in Int /\ q * e \in Int /\ q * e = e * q /\ Quantum * b \in Int /\ Quantum * m \in Int
      BY <2>1
    <2>. QED
      BY <1>6, <2>2, <2>3
  <1>10. /\ lost <= limit /\ worth <= cap /\ -lost <= gain /\ gain <= 2 * lost
         /\ value \in {worth + gain, worth - gain}
    BY <1>2, <1>6, <1>9
  <1>11. /\ Quantum * (-b) = -limit /\ Quantum * (2 * b) = 2 * limit
         /\ Quantum * (m + 2 * b) = cap + 2 * limit /\ Quantum * 0 = 0
    BY <1>2, <1>9, QuantumAssumption
  <1>12. gross \in Int /\ -b <= gross
    <2>1. Quantum * (-b) <= gain /\ gain <= Quantum * (2 * b)
      BY <1>6, <1>9, <1>10, <1>11
    <2>2. Money(gain) \in Int /\ -b <= Money(gain)
      <3>1. -b \in Int /\ 2 * b \in Int
        BY <1>2
      <3>. QED
        BY <1>6, <2>1, <3>1, MoneyWithin
    <2>. QED
      BY <2>2 DEF GrossPnl, gain
  <1>13. value <= Quantum * (m + 2 * b)
    BY <1>6, <1>9, <1>10, <1>11
  <1>14. ExitFee(price, q) \in 0..(m + 2 * b)
    <2>1. m + 2 * b \in Nat /\ m + 2 * b <= Starting
      BY <1>2, <1>8
    <2>2. Quantum * (m + 2 * b) <= Quantum * Starting
      BY <1>8, <2>1, QuantumGrows
    <2>3. value \in 0..(Quantum * Starting)
      <3>1. PICK all \in Int : all = Quantum * Starting
        BY <1>8, QuantumAssumption
      <3>2. PICK bound \in Int : bound = Quantum * (m + 2 * b)
        BY <2>1, QuantumAssumption
      <3>. QED
        BY <1>13, <2>2, <3>1, <3>2
    <2>4. Fee(value) \in 0..Money(value)
      BY <2>3, FeeRateAssumption DEF Money
    <2>5. Money(value) \in Int /\ Money(value) <= m + 2 * b
      BY <1>11, <1>13, <2>1, MoneyWithin
    <2>. QED
      BY <1>9, <2>1, <2>4, <2>5 DEF ExitFee
  <1>15. PICK reserved, fee, exitFee, won :
           /\ reserved = Notional(c.entry, q) /\ fee = EntryFee(c.entry, q)
           /\ exitFee = ExitFee(price, q) /\ won = gross
           /\ reserved \in 0..m /\ fee \in 0..reserved /\ exitFee \in 0..(m + 2 * b) /\ won \in Int
    BY <1>3, <1>12, <1>14
  <1>16. CashAtClose(portfolio, price) = Starting - (reserved + fee) + reserved + won - exitFee
    BY <1>1, <1>4, <1>15 DEF CashAtClose
  <1>. HIDE DEF gross
  <1>17. CashAtClose(portfolio, price) \in Nat
    <2>1. -b <= won
      BY <1>12, <1>15
    <2>2. Starting - (reserved + fee) + reserved + won - exitFee >= 0
      <3>1. reserved \in 0..m /\ fee \in 0..reserved /\ exitFee \in 0..(m + 2 * b) /\ won \in Int
        BY <1>15
      <3>. QED
        BY <1>2, <1>8, <2>1, <3>1, CashSuffices
    <2>3. reserved \in Int /\ fee \in Int /\ exitFee \in Int /\ won \in Int
      BY <1>2, <1>15
    <2>. QED
      BY <1>8, <1>16, <2>2, <2>3
  <1>18. -gross <= b
    BY <1>2, <1>12
  <1>19. portfolio.cash \in Int /\ portfolio.open.reserved \in Nat
    BY <1>1, <1>2, <1>4, <1>8, <1>15
  <1>. QED
    BY <1>1, <1>7, <1>12, <1>17, <1>18, <1>19 DEF gross, gain

\* A candle that ends nothing moves the mark to a close between the thresholds.
LEMMA MarkKeeps == ReplayInv /\ MarkTrade => ReplayInv'
  <1>. SUFFICES ASSUME ReplayInv, MarkTrade PROVE ReplayInv'
    OBVIOUS
  <1>0. DataTypeOK /\ BatchInv /\ TrialInv /\ EndInv
    BY DEF ReplayInv
  <1>1. /\ stage = "watching" /\ ExitTrigger(next) = NoTrigger
        /\ UNCHANGED <<data, stage, ranked, trial, result>> /\ next' = next + 1
        /\ portfolio' = Marked(portfolio, data.candles[next].close, next)
    BY DEF MarkTrade
  <1>2. PICK q, n : Watching(q, n)
    BY <1>1, WatchIs
  <1>3. PICK f, at, price, o, c :
            /\ f = portfolio /\ at = next /\ price = data.candles[next].close
            /\ o = trial.opened /\ c = trial.candidate
    OBVIOUS
  <1>4. Inside(c, price) /\ at # CandleCount /\ CandidateSound(c)
    BY <1>1, <1>2, <1>3 DEF Watching, Decides, TradeFacts
  <1>5. at \in CandleNumber /\ at \in Nat /\ at > o /\ o \in Nat /\ n = at - o + 1 /\ n \in Nat
    BY <1>2, <1>3 DEF Watching
  <1>6. at + 1 \in CandleNumber /\ at + 1 > o
    BY <1>4, <1>5, DatasetAssumption DEF CandleNumber
  <1>7. /\ DOMAIN f = Fields /\ DOMAIN f.open = PositionFields
        /\ f.status = "active" /\ f.closed = << >>
        /\ f.cash = Starting - (Notional(c.entry, q) + EntryFee(c.entry, q))
        /\ f.open.number = 1 /\ f.open.side = c.side /\ f.open.quantity = q
        /\ f.open.entry = c.entry /\ f.open.opened = o /\ f.open.reserved = Notional(c.entry, q)
        /\ Timed(f.timeline, n)
    BY <1>2, <1>3 DEF Watching, Held
  <1>. DEFINE equity == f.cash + f.open.reserved + GrossPnl(f.open, price)
              e == Event(f, "marked", at, equity, f.open.number)
  <1>8. /\ DOMAIN portfolio' = Fields /\ DOMAIN (portfolio'.open) = PositionFields
        /\ portfolio'.created = f.created /\ portfolio'.status = f.status /\ portfolio'.updated = at
        /\ portfolio'.closed = f.closed /\ portfolio'.cash = f.cash
        /\ portfolio'.open.number = f.open.number /\ portfolio'.open.side = f.open.side
        /\ portfolio'.open.quantity = f.open.quantity /\ portfolio'.open.entry = f.open.entry
        /\ portfolio'.open.opened = f.open.opened /\ portfolio'.open.reserved = f.open.reserved
        /\ portfolio'.open.current = price /\ portfolio'.timeline = Append(f.timeline, e)
    <2>1. portfolio' = Marked(f, price, at)
      BY <1>1, <1>3
    <2>. DEFINE g == Marked(f, price, at)
    <2>2. /\ DOMAIN g = Fields /\ DOMAIN g.open = PositionFields
          /\ g.created = f.created /\ g.status = f.status /\ g.updated = at
          /\ g.closed = f.closed /\ g.cash = f.cash
          /\ g.open.number = f.open.number /\ g.open.side = f.open.side
          /\ g.open.quantity = f.open.quantity /\ g.open.entry = f.open.entry
          /\ g.open.opened = f.open.opened /\ g.open.reserved = f.open.reserved
          /\ g.open.current = price /\ g.timeline = Append(f.timeline, e)
      BY <1>7, MarkingHolds
    <2>. HIDE DEF g, e
    <2>. QED
      BY <2>1, <2>2 DEF g
  <1>9. e \in Events /\ e.type = "marked"
    <2>1. equity \in Int
      BY <1>0, <1>2, <1>3, <1>4, InsideIsWithin, AmountsAre
    <2>2. Len(f.timeline) \in Nat
      BY <1>5, <1>7 DEF Timed
    <2>. HIDE DEF equity
    <2>. QED
      BY <1>5, <1>7, <2>1, <2>2 DEF Event, Events, EventType
  <1>. HIDE DEF e
  <1>10. Timed(portfolio'.timeline, n + 1)
    <2>1. Timed(Append(f.timeline, e), n + 1)
      BY <1>5, <1>7, <1>9, TimedGrows
    <2>. QED
      BY <1>8, <2>1
  <1>11. DataTypeOK' /\ BatchInv' /\ TrialInv' /\ Bought' = q
    <2>1. Bought = q
      BY <1>2 DEF Watching
    <2>. QED
      BY <1>0, <1>1, <1>3, <1>8, <2>1, KeptInv DEF Later
  <1>12. Held'
    <2>1. next' - 1 = at /\ next' - o + 1 = n + 1
      BY <1>1, <1>3, <1>5
    <2>2. trial'.candidate = c /\ trial'.opened = o
      BY <1>1, <1>3
    <2>3. (Inside(trial.candidate, portfolio.open.current))'
      BY <1>4, <1>8, <2>2 DEF Inside
    <2>4. Timed(portfolio.timeline, next - trial.opened + 1)'
      BY <1>10, <2>1, <2>2 DEF Timed
    <2>5. /\ DOMAIN portfolio' = Fields' /\ DOMAIN (portfolio'.open) = PositionFields'
          /\ portfolio'.status = "active" /\ portfolio'.updated = next' - 1
          /\ portfolio'.closed = << >>
      BY <1>7, <1>8, <2>1 DEF Fields, PositionFields
    <2>6. /\ portfolio'.cash = Starting - (Notional(c.entry, q) + EntryFee(c.entry, q))
          /\ portfolio'.open.number = 1 /\ portfolio'.open.side = c.side
          /\ portfolio'.open.quantity = q /\ portfolio'.open.entry = c.entry
          /\ portfolio'.open.opened = o /\ portfolio'.open.reserved = Notional(c.entry, q)
      BY <1>7, <1>8
    <2>. QED
      BY <1>11, <2>2, <2>3, <2>4, <2>5, <2>6 DEF Held
  <1>13. HoldingInv'
    BY <1>1, <1>3, <1>6, <1>12 DEF HoldingInv, CandleNumber
  <1>14. EndInv'
    BY <1>0, <1>1 DEF EndInv
  <1>. QED
    BY <1>1, <1>11, <1>13, <1>14 DEF ReplayInv, ReplayStages, Later, WaitingInv

\* A close is always within the cash, and leaves the loss within the budget.
LEMMA CloseKeeps == ReplayInv /\ CloseTrade => ReplayInv'
  <1>. SUFFICES ASSUME ReplayInv, CloseTrade PROVE ReplayInv'
    OBVIOUS
  <1>0. DataTypeOK /\ BatchInv /\ TrialInv /\ EndInv
    BY DEF ReplayInv
  <1>1. PICK f, at, x, o, c :
            /\ f = portfolio /\ at = next /\ x = ExitTrigger(next)
            /\ o = trial.opened /\ c = trial.candidate
    OBVIOUS
  <1>2. /\ stage = "watching" /\ x # NoTrigger
        /\ UNCHANGED <<data, ranked, trial, next>>
    BY <1>1 DEF CloseTrade
  <1>3. PICK q, n : Watching(q, n)
    BY <1>2, WatchIs
  <1>4. /\ Within(c, x.price) /\ x.reason \in ReplayExits /\ CandidateSound(c)
        /\ (x.reason = "trend_reversal" => at = ReversalAt)
        /\ (x.reason = "portfolio_risk" =>
                Inside(c, x.price) /\ -GrossPnl(f.open, x.price) >= trial.budget)
        /\ trial.budget \in Nat
    BY <1>1, <1>2, <1>3 DEF Watching, Decides, TradeFacts
  <1>5. at \in CandleNumber /\ at \in Nat /\ at > o /\ o \in Nat /\ n = at - o + 1 /\ n \in Nat
    BY <1>1, <1>3 DEF Watching
  <1>6. /\ DOMAIN f = Fields /\ f.status = "active" /\ f.closed = << >> /\ f.updated = at - 1
        /\ f.open.number = 1 /\ f.open.side = c.side /\ f.open.quantity = q
        /\ f.open.entry = c.entry /\ f.open.opened = o /\ Timed(f.timeline, n)
    BY <1>1, <1>3 DEF Watching, Held
  <1>7. /\ GrossPnl(f.open, x.price) \in Int /\ -GrossPnl(f.open, x.price) <= trial.budget
        /\ Inside(c, x.price) => -Gain(f.open, x.price) < Quantum * trial.budget
        /\ CashAtClose(f, x.price) \in Nat
    BY <1>0, <1>1, <1>3, <1>4, AmountsAre
  <1>8. CanClose(f, x.price, at)
    BY <1>5, <1>6, <1>7 DEF CanClose, CanMark, IsOpen
  <1>9. portfolio' = Closed(f, x.price, at) /\ stage' = "closed" /\ result' = x.reason
    BY <1>1, <1>8 DEF CloseTrade
  <1>. DEFINE e == Event(f, "closed", at, CashAtClose(f, x.price), f.open.number)
              p == portfolio'.closed[1]
  <1>10. /\ portfolio'.created = f.created /\ portfolio'.updated = at
         /\ Len(portfolio'.closed) = 1 /\ ~IsOpen(portfolio')
         /\ p.opened = o /\ p.closed = at /\ p.exit = x.price
         /\ p.side = c.side /\ p.entry = c.entry /\ p.quantity = q
         /\ p.gross = GrossPnl(f.open, x.price)
         /\ portfolio'.timeline = Append(f.timeline, e)
    BY <1>6, <1>9, ClosingHolds
  <1>11. e \in Events /\ e.type = "closed"
    <2>1. Len(f.timeline) \in Nat
      BY <1>5, <1>6 DEF Timed
    <2>. QED
      BY <1>5, <1>6, <1>7, <2>1 DEF Event, Events, EventType
  <1>. HIDE DEF e
  <1>12. TimedOut(portfolio'.timeline, at - o + 2)
    <2>1. e.type # "marked"
      BY <1>11
    <2>2. TimedOut(Append(f.timeline, e), n + 1)
      BY <1>5, <1>6, <1>11, <2>1, TimedGrows
    <2>3. n + 1 = at - o + 2
      BY <1>5
    <2>. QED
      BY <1>10, <2>2, <2>3
  <1>13. DataTypeOK' /\ BatchInv' /\ TrialInv' /\ Bought' = q
    <2>1. Bought = q
      BY <1>3 DEF Watching
    <2>. QED
      BY <1>0, <1>1, <1>2, <1>9, <1>10, <2>1, KeptInv DEF Later
  <1>14. result' = "trend_reversal" => ReversalAt' # 0
    <2>1. ReversalAt' = ReversalAt
      BY <1>2, SameReversal
    <2>. QED
      BY <1>4, <1>5, <1>9, <2>1 DEF CandleNumber
  <1>15. x.price > 0
    BY <1>4 DEF Within
  <1>16. Concluded'
    <2>1. /\ next' = at /\ trial'.opened = o /\ trial'.candidate = c /\ trial' = trial
      BY <1>1, <1>2
    <2>2. at \in CandleNumber'
      BY <1>5 DEF CandleNumber
    <2>3. ~IsOpen(portfolio)'
      BY <1>10 DEF IsOpen
    <2>4. TimedOut(portfolio.timeline, next - trial.opened + 2)'
      BY <1>12, <2>1 DEF TimedOut
    <2>5. result' \in ReplayExits
      BY <1>4, <1>9
    <2>6. -p.gross <= trial'.budget
      BY <1>7, <1>10, <2>1
    <2>7. result' = "portfolio_risk" =>
            -p.gross = trial'.budget /\ -Gain(p, p.exit) < Quantum * trial'.budget
      <3>. SUFFICES ASSUME result' = "portfolio_risk"
                    PROVE  -p.gross = trial'.budget /\ -Gain(p, p.exit) < Quantum * trial'.budget
        OBVIOUS
      <3>1. /\ Inside(c, x.price) /\ p.gross = GrossPnl(f.open, x.price)
            /\ -GrossPnl(f.open, x.price) >= trial.budget
        BY <1>4, <1>9, <1>10
      <3>2. Gain(p, p.exit) = Gain(f.open, x.price)
        BY <1>6, <1>10 DEF Gain
      <3>3. -p.gross = trial'.budget
        BY <1>4, <1>7, <2>1, <3>1
      <3>. QED
        BY <1>7, <2>1, <3>1, <3>2, <3>3
    <2>. HIDE DEF p
    <2>8. (-portfolio.closed[1].gross <= trial.budget)' /\
          (result = "portfolio_risk" =>
             /\ -portfolio.closed[1].gross = trial.budget
             /\ -Gain(portfolio.closed[1], portfolio.closed[1].exit) < Quantum * trial.budget)'
      BY <2>6, <2>7 DEF p
    <2>. QED
      BY <1>5, <1>10, <1>12, <1>13, <1>14, <1>15, <2>1, <2>2, <2>3, <2>4, <2>5, <2>8
      DEF Concluded, ReplayExits, p
  <1>17. EndInv'
    BY <1>9, <1>16 DEF EndInv
  <1>. QED
    BY <1>9, <1>13, <1>17 DEF ReplayInv, ReplayStages, Later, WaitingInv, HoldingInv

LEMMA ReplayInvHolds == ReplaySpec => []ReplayInv
  <1>1. ReplayInit => ReplayInv
    BY ReplayInvInit
  <1>2. ReplayInv /\ [ReplayNext]_replayVars => ReplayInv'
    <2>. SUFFICES ASSUME ReplayInv, [ReplayNext]_replayVars PROVE ReplayInv'
      OBVIOUS
    <2>1. CASE GenerateCandidates
      BY <2>1, GenerateKeeps
    <2>2. CASE AttemptCandidate
      BY <2>2, AttemptKeeps
    <2>3. CASE NoPositionOpened
      BY <2>3, NoPositionKeeps
    <2>4. CASE PrepareWatch
      BY <2>4, PrepareKeeps
    <2>5. CASE CloseTrade
      BY <2>5, CloseKeeps
    <2>6. CASE MarkTrade
      BY <2>6, MarkKeeps
    <2>7. CASE UNCHANGED replayVars
      <3>0. /\ DataTypeOK /\ BatchInv /\ WaitingInv /\ TrialInv /\ HoldingInv /\ EndInv
            /\ stage \in ReplayStages
        BY DEF ReplayInv
      <3>1. UNCHANGED <<portfolio, data, stage, ranked, trial, next, result>>
        BY <2>7 DEF replayVars
      <3>2. /\ DataTypeOK'
            /\ (BatchInv /\ stage \in Later) => BatchInv'
            /\ (TrialInv /\ stage \in {"opened", "watching", "closed", "aborted"}) => TrialInv'
            /\ Bought' = Bought
        BY <3>0, <3>1, KeptInv
      <3>3. Given' = Given /\ (\A k : Status(k)' = Status(k)) /\ ReversalAt' = ReversalAt
        BY <3>1, SameStatus, SameReversal
      <3>4. BatchInv'
        BY <3>0, <3>1, <3>2 DEF BatchInv
      <3>5. TrialInv'
        BY <3>0, <3>1, <3>2 DEF TrialInv
      <3>6. WaitingInv'
        BY <3>0, <3>1, <3>3 DEF WaitingInv
      <3>7. HoldingInv'
        BY <3>0, <3>1, HeldKept DEF HoldingInv, CandleNumber
      <3>8. Concluded => Concluded'
        BY <3>1, <3>2, <3>3 DEF Concluded, TimedOut, IsOpen, CandleNumber, ReplayExits
      <3>9. EndInv'
        BY <3>0, <3>1, <3>3, <3>8 DEF EndInv
      <3>. QED
        BY <3>0, <3>1, <3>2, <3>4, <3>5, <3>6, <3>7, <3>9 DEF ReplayInv, ReplayStages, Later
    <2>. QED
      BY <2>1, <2>2, <2>3, <2>4, <2>5, <2>6, <2>7 DEF ReplayNext
  <1>. QED
    BY <1>1, <1>2, PTL DEF ReplaySpec

\* A closed trade has lost no more than its risk budget, and where the directive of
\* the portfolio's risk has closed it, the loss reaches the budget by rounding only.
THEOREM LossIsBounded == ReplaySpec => []LossBounded
  <1>1. ReplayInv => LossBounded
    BY DEF ReplayInv, EndInv, Concluded, LossBounded, ReplayExits
  <1>. QED
    BY <1>1, ReplayInvHolds, PTL

-----------------------------------------------------------------------------
(* What the application hands on. *)

\* What a run that has ended knows of its attempts.
Attempts ==
    /\ Len(ranked) \in Nat /\ Tried \in 0..Len(ranked)
    /\ stage = "no_position" => Tried = Len(ranked)
    /\ \A k \in 1..Tried : (Status(k) = "opened") = (stage = "closed" /\ k = Tried)

LEMMA AttemptsAre == ReplayInv /\ Ended => Attempts
  <1>. SUFFICES ASSUME ReplayInv, Ended PROVE Attempts
    OBVIOUS
  <1>0. DataTypeOK /\ BatchInv /\ WaitingInv /\ TrialInv /\ RankedAt(portfolio.created)
    BY DEF ReplayInv, Ended, BatchInv, Later
  <1>1. Len(ranked) \in Nat
    BY <1>0, RankedAre
  <1>2. CASE stage = "closed"
    <2>1. /\ trial.rank \in 1..Len(ranked) /\ Status(trial.rank) = "opened"
          /\ \A k \in 1..Len(ranked) : k < trial.rank => Status(k) # "opened"
      BY <1>0, <1>2 DEF TrialInv
    <2>2. Tried = trial.rank
      BY <1>2 DEF Tried
    <2>3. PICK m : m = trial.rank
      OBVIOUS
    <2>4. m \in 1..Len(ranked) /\ Tried = m /\ Status(m) = "opened"
          /\ \A k \in 1..Len(ranked) : k < m => Status(k) # "opened"
      BY <2>1, <2>2, <2>3
    <2>5. \A k \in 1..m : k = m \/ (k < m /\ k \in 1..Len(ranked))
      BY <1>1, <2>4
    <2>6. \A k \in 1..m : (Status(k) = "opened") = (k = m)
      BY <2>4, <2>5
    <2>. QED
      BY <1>1, <1>2, <2>4, <2>6 DEF Attempts
  <1>3. CASE stage = "no_position"
    <2>1. /\ next \in Nat /\ next > Len(ranked)
          /\ \A k \in 1..Len(ranked) : k < next => Status(k) # "opened"
      BY <1>0, <1>3 DEF WaitingInv
    <2>2. Tried = Len(ranked)
      BY <1>3 DEF Tried
    <2>3. \A k \in 1..Len(ranked) : Status(k) # "opened"
      BY <1>1, <2>1
    <2>. QED
      BY <1>1, <1>3, <2>2, <2>3 DEF Attempts
  <1>. QED
    BY <1>2, <1>3 DEF Ended

LEMMA CandidatesAreValid ==
  ASSUME DataTypeOK, NEW c, CandidateSound(c)
  PROVE  CandidateValid(c)
  <1>1. data.horizon \in Nat \ {0}
    BY DatasetAssumption DEF DataTypeOK
  <1>2. c.number \in Nat
    BY CandleNumbers DEF CandidateSound
  <1>3. c.created = c.number /\ c.until = c.number + data.horizon /\ c.strength \in 1..10
    BY DEF CandidateSound
  <1>4. c.until > c.created /\ c.strength > 0
    BY <1>1, <1>2, <1>3
  <1>5. PICK r : r = Risk(c)
    OBVIOUS
  <1>6. /\ c.side \in Side /\ r \in Nat \ {0} /\ c.entry \in Nat
        /\ c.side = "long" => c.invalidation = c.entry - r /\ c.target = c.entry + 2 * r
        /\ c.side = "short" => c.invalidation = c.entry + r /\ c.target = c.entry - 2 * r
    BY <1>5 DEF CandidateSound
  <1>7. CASE c.side = "long"
    BY <1>4, <1>6, <1>7 DEF CandidateValid
  <1>8. CASE c.side = "short"
    BY <1>4, <1>6, <1>8 DEF CandidateValid
  <1>. QED
    BY <1>6, <1>7, <1>8 DEF Side

LEMMA BatchIsValid == ReplayInv /\ Ended => BatchValid /\ LifecycleValid
  <1>. SUFFICES ASSUME ReplayInv, Ended PROVE BatchValid /\ LifecycleValid
    OBVIOUS
  <1>0. DataTypeOK /\ BatchInv /\ WaitingInv /\ TrialInv /\ RankedAt(portfolio.created) /\ Attempts
    BY AttemptsAre DEF ReplayInv, Ended, BatchInv, Later
  <1>1. \A j, k \in 1..Len(ranked) : j # k => ranked[j] # ranked[k]
    BY <1>0, RankedAre
  <1>2. stage = "no_position" => portfolio = Given
    BY <1>0 DEF WaitingInv
  <1>3. BatchValid
    BY <1>0, <1>1, <1>2 DEF BatchValid, Attempts
  <1>4. CASE stage = "closed"
    <2>1. trial.rank \in 1..Len(ranked) /\ ranked[trial.rank] = trial.candidate
      BY <1>0, <1>4 DEF TrialInv
    <2>2. trial # NoTrial
      <3>1. Len(ranked) \in Nat
        BY <1>0 DEF Attempts
      <3>. QED
        BY <2>1, <3>1 DEF NoTrial
    <2>. QED
      BY <1>3, <1>4, <2>1, <2>2 DEF LifecycleValid
  <1>5. CASE stage = "no_position"
    <2>1. trial = NoTrial
      BY <1>0, <1>5 DEF WaitingInv
    <2>. QED
      BY <1>3, <1>5, <2>1 DEF LifecycleValid
  <1>. QED
    BY <1>4, <1>5 DEF Ended

LEMMA AttemptsAreValid == ReplayInv /\ Ended => \A k \in 1..Tried : AttemptValid(k)
  <1>. SUFFICES ASSUME ReplayInv, Ended, NEW k \in 1..Tried, Status(k) = "opened"
                PROVE  /\ Approved(ranked[k], k, Given, Given.created)
                       /\ FillCandle(ranked[k], Given.created) = trial.opened
    BY DEF AttemptValid
  <1>0. TrialInv /\ Attempts
    BY AttemptsAre DEF ReplayInv
  <1>1. Approved(ranked[k], k, Given, Given.created)
    BY DEF Status, ReplayStatus
  <1>2. stage = "closed" /\ k = Tried
    BY <1>0 DEF Attempts
  <1>3. k = trial.rank /\ trial.candidate = ranked[k]
        /\ trial.opened = FillCandle(trial.candidate, portfolio.created)
    BY <1>0, <1>2 DEF Tried, TrialInv
  <1>. QED
    BY <1>1, <1>3, GivenIs

\* A rank among ties lies within them, and failed checks are those of a rejection.
LEMMA OccurrencesAreValid == ReplayInv /\ Ended => \A k \in 1..Len(ranked) : OccurrenceValid(k)
  <1>. SUFFICES ASSUME ReplayInv, Ended, NEW k \in 1..Len(ranked) PROVE OccurrenceValid(k)
    OBVIOUS
  <1>0. Attempts
    BY AttemptsAre
  <1>1. Len(ranked) \in Nat /\ Tried \in 0..Len(ranked) /\ k \in Nat /\ Tried \in Nat
    BY <1>0 DEF Attempts
  <1>. DEFINE T == Tied(k)
              P == {j \in T : j <= k}
              e == Evidence(k)
  <1>2. IsFiniteSet(1..Len(ranked)) /\ T \in SUBSET (1..Len(ranked)) /\ k \in T
    <2>1. IsFiniteSet(1..Len(ranked))
      BY <1>1, FS_Interval
    <2>. QED
      BY <2>1 DEF Tied
  <1>3. e.rank = k /\ e.tied = Cardinality(T) /\ e.position = Cardinality(P)
        /\ e.evaluated = (k <= Tried) /\ e.failed = (IF k <= Tried THEN Failed(k) ELSE {})
    BY DEF Evidence
  <1>4. e.position \in 1..e.tied
    <2>1. P \in SUBSET T /\ k \in P
      BY <1>1, <1>2
    <2>. HIDE DEF T, P, e
    <2>2. IsFiniteSet(T) /\ IsFiniteSet(P)
      BY <1>2, <2>1, FS_Subset
    <2>3. Cardinality(P) <= Cardinality(T) /\ Cardinality(P) \in Nat /\ Cardinality(T) \in Nat
      BY <2>1, <2>2, FS_Subset, FS_CardinalityType
    <2>4. Cardinality(P) # 0
      BY <2>1, <2>2, FS_EmptySet
    <2>. QED
      BY <1>3, <2>3, <2>4
  <1>5. EvidenceValid(e)
    <2>1. ~e.evaluated => e.failed = {}
      BY <1>3
    <2>. HIDE DEF e
    <2>. QED
      BY <1>4, <2>1 DEF EvidenceValid
  <1>6. (Failed(k) # {}) = (Status(k) = "risk_rejected")
    <2>. DEFINE checks == RiskChecks(ranked[k], k, Given, Given.created)
    <2>1. (Failed(k) # {}) = (\E name \in DOMAIN checks : ~checks[name])
      BY DEF Failed
    <2>2. Approved(ranked[k], k, Given, Given.created) = (\A name \in DOMAIN checks : checks[name])
      BY DEF Approved
    <2>3. (Status(k) = "risk_rejected") = ~Approved(ranked[k], k, Given, Given.created)
      BY DEF Status, ReplayStatus
    <2>. HIDE DEF checks
    <2>. QED
      BY <2>1, <2>2, <2>3
  <1>7. CASE k > Tried
    <2>1. stage = "closed"
      BY <1>0, <1>1, <1>7 DEF Attempts, Ended
    <2>. HIDE DEF e
    <2>. QED
      BY <1>3, <1>5, <1>7, <2>1 DEF OccurrenceValid, e
  <1>8. CASE k <= Tried
    <2>1. e.failed = Failed(k) /\ ~(k > Tried)
      BY <1>1, <1>3, <1>8
    <2>. HIDE DEF e
    <2>. QED
      BY <1>3, <1>5, <1>6, <2>1 DEF OccurrenceValid, e
  <1>. QED
    BY <1>1, <1>7, <1>8

\* The journal entry holds the ranking in two parts, and its times are in order.
LEMMA JournalIsValid == ReplayInv /\ Ended => JournalValid(JournalEntry)
  <1>. SUFFICES ASSUME ReplayInv, Ended PROVE JournalValid(JournalEntry)
    OBVIOUS
  <1>. DEFINE entry == JournalEntry
              n == Len(ranked)
  <1>0. DataTypeOK /\ BatchInv /\ TrialInv /\ EndInv /\ Attempts
        /\ portfolio.created \in CandleNumber /\ RankedAt(portfolio.created)
    BY AttemptsAre DEF ReplayInv, Ended, BatchInv, Later
  <1>1. n \in Nat /\ Tried \in 0..n /\ ranked \in Seq(GeneratedCandidates)
    BY <1>0, RankedAre DEF Attempts
  <1>2. /\ entry.status = stage /\ entry.evaluated = portfolio.created
        /\ entry.recorded = RecordedAt /\ entry.exit = result
        /\ entry.attempted = SubSeq(ranked, 1, Tried)
        /\ entry.skipped = SubSeq(ranked, Tried + 1, n)
    BY GivenIs DEF JournalEntry
  <1>3. entry.attempted \o entry.skipped = ranked
    <2>1. SubSeq(ranked, 1, Tried) \o SubSeq(ranked, Tried + 1, n) = SubSeq(ranked, 1, n)
      <3>1. 1 \in 1..(Len(ranked) + 1) /\ Tried \in (1 - 1)..Len(ranked) /\ n \in Tried..Len(ranked)
        BY <1>1
      <3>. HIDE DEF n
      <3>. QED
        BY <1>1, <3>1, ConcatAdjacentSubSeq
    <2>2. SubSeq(ranked, 1, n) = ranked
      BY <1>1, SubSeqFull
    <2>. QED
      BY <1>2, <2>1, <2>2
  <1>4. portfolio.created \in Nat
    BY <1>0, CandleNumbers
  <1>. HIDE DEF entry, n
  <1>5. CASE stage = "closed"
    <2>1. Concluded /\ TradeFacts
      BY <1>0, <1>5, TradeIs DEF EndInv
    <2>2. entry.recorded = next
      BY <1>2, <1>5, <2>1 DEF RecordedAt, Concluded
    <2>3. next \in Nat /\ trial.opened \in Nat /\ next > trial.opened
          /\ trial.opened > portfolio.created
      BY <2>1, CandleNumbers DEF Concluded, TradeFacts
    <2>4. entry.recorded > entry.evaluated /\ entry.recorded >= entry.evaluated
      BY <1>2, <1>4, <2>2, <2>3
    <2>5. entry.exit # "none"
      BY <1>2, <2>1 DEF Concluded, ReplayExits
    <2>. QED
      BY <1>2, <1>3, <1>5, <2>4, <2>5 DEF JournalValid, entry
  <1>6. CASE stage = "no_position"
    <2>1. entry.recorded = entry.evaluated /\ entry.recorded >= entry.evaluated
      BY <1>2, <1>4, <1>6, GivenIs DEF RecordedAt
    <2>2. entry.skipped = << >>
      <3>1. Tried = n
        BY <1>0, <1>6 DEF Attempts, n
      <3>2. SubSeq(ranked, n + 1, n) = << >>
        BY <1>1, SubSeqEmpty
      <3>. QED
        BY <1>2, <3>1, <3>2
    <2>3. entry.exit = "none"
      BY <1>0, <1>2, <1>6 DEF EndInv
    <2>. QED
      BY <1>2, <1>3, <1>6, <2>1, <2>2, <2>3 DEF JournalValid, entry
  <1>. QED
    BY <1>5, <1>6 DEF Ended

\* What opens is worth some money, the cash covers it, and it comes after the ranking.
LEMMA OpenedIsOpenable ==
  ASSUME DataTypeOK, NEW at \in Nat, Given.created = at, portfolio.created = at,
         NEW k, CandidateSound(ranked[k]), Status(k) = "opened"
  PROVE  Openable(ranked[k])
  <1>1. PICK c : c = ranked[k]
    OBVIOUS
  <1>. DEFINE q == SimulationQuantity(c, Given)
              fill == FillCandle(c, at)
  <1>2. Approved(c, k, Given, at) /\ fill # 0
    <2>1. ReplayStatus(c, k, Given, at) = "opened"
      BY <1>1 DEF Status
    <2>. QED
      BY <2>1 DEF ReplayStatus
  <1>3. Given = Created(at)
    BY DEF Given
  <1>4. Quantified(c, at)
    BY <1>1, <1>2, <1>3, ApprovedIsQuantified
  <1>5. PICK n : n = NotionalBudget(Given)
    OBVIOUS
  <1>6. /\ q \in Nat /\ n \in Nat /\ 4 * n <= Starting + 2
        /\ q * c.entry <= Quantum * n /\ Quantum < 2 * (q * c.entry)
    BY <1>3, <1>4, <1>5 DEF Quantified
  <1>7. fill > at
    BY <1>2, FillIs
  <1>. HIDE DEF q, fill
  <1>8. PICK e \in Nat : e = c.entry
    BY <1>1 DEF CandidateSound
  <1>9. PICK product \in Nat : product = e * q /\ product = q * c.entry
    BY <1>6, <1>8
  <1>10. 2 * n <= Starting /\ n <= Starting
    BY <1>6, StartingAssumption
  <1>11. Notional(e, q) \in 0..n /\ EntryFee(e, q) \in 0..Notional(e, q)
    <2>1. e * q <= Quantum * n
      BY <1>6, <1>9
    <2>. QED
      BY <1>6, <1>10, <2>1, CommitmentIs
  <1>12. Notional(e, q) > 0
    <2>1. Notional(e, q) = Money(product)
      BY <1>9 DEF Notional
    <2>2. 2 * product - Quantum <= 2 * (Quantum * Money(product))
      BY RoundedIsClose, QuantumAssumption DEF Money
    <2>3. Money(product) # 0
      <3>1. ASSUME Money(product) = 0 PROVE FALSE
        <4>1. Quantum * Money(product) = 0
          BY <3>1, QuantumAssumption
        <4>. QED
          BY <1>6, <1>9, <2>2, <4>1, QuantumAssumption
      <3>. QED
        BY <3>1
    <2>. QED
      BY <1>6, <1>11, <2>1, <2>3
  <1>13. Notional(e, q) + EntryFee(e, q) <= Given.cash
    <2>1. PICK amount, fee : amount = Notional(e, q) /\ fee = EntryFee(e, q)
      OBVIOUS
    <2>2. amount \in 0..n /\ fee \in 0..amount
      BY <1>11, <2>1
    <2>3. amount + fee <= Starting
      BY <1>6, <1>10, <2>2, StartingAssumption
    <2>. QED
      BY <2>1, <2>3, GivenIs
  <1>14. Given.updated = at
    BY <1>3 DEF Created
  <1>. QED
    BY <1>1, <1>7, <1>8, <1>12, <1>13, <1>14, GivenIs DEF Openable, CanOpen, q, fill

\* Each marked candle is one watched before the last.
LEMMA TradeIsValid == ReplayInv /\ stage = "closed" => SimulationValid /\ MonitoringValid
  <1>. SUFFICES ASSUME ReplayInv, stage = "closed" PROVE SimulationValid /\ MonitoringValid
    OBVIOUS
  <1>1. Concluded /\ TradeFacts
    BY TradeIs DEF ReplayInv, EndInv
  <1>2. SimulationValid
    BY <1>1 DEF SimulationValid, Concluded, Bought
  <1>3. PICK o, m, t : o = trial.opened /\ m = next /\ t = portfolio.timeline
    OBVIOUS
  <1>4. /\ o \in Nat /\ m \in CandleNumber /\ m \in Nat /\ m > o
        /\ TimedOut(t, m - o + 2)
    BY <1>1, <1>3, CandleNumbers DEF Concluded, TradeFacts
  <1>5. PICK n \in Nat : n = m - o + 2
    BY <1>4
  <1>6. Len(t) = n /\ \A i \in 1..n : (t[i].type = "marked") = (2 < i /\ i < n)
    BY <1>4, <1>5 DEF TimedOut
  <1>7. {i \in 1..Len(t) : t[i].type = "marked"} = 3..(n - 1)
    <2>1. \A i \in 1..n : t[i].type = "marked" => i \in 3..(n - 1)
      BY <1>5, <1>6
    <2>2. \A i \in 3..(n - 1) : i \in 1..n /\ t[i].type = "marked"
      <3>1. \A i \in 3..(n - 1) : i \in 1..n /\ 2 < i /\ i < n
        BY <1>5
      <3>. QED
        BY <1>6, <3>1
    <2>. QED
      BY <1>6, <2>1, <2>2
  <1>8. {i \in Watched : i <= next} = (o + 1)..m
    <2>1. \A i \in (o + 1)..m : i \in CandleNumber /\ i - 1 >= o /\ i <= m
      BY <1>4, DatasetAssumption DEF CandleNumber
    <2>2. \A i \in Watched : i \in Nat /\ i - 1 >= o
      BY <1>3, CandleNumbers DEF Watched
    <2>3. \A i \in Watched : i <= m => i \in (o + 1)..m
      BY <1>4, <2>2
    <2>4. \A i \in (o + 1)..m : i \in Watched
      BY <1>3, <2>1 DEF Watched
    <2>. QED
      BY <1>3, <2>1, <2>3, <2>4
  <1>9. Cardinality(3..(n - 1)) < Cardinality((o + 1)..m)
    <2>1. Cardinality((o + 1)..m) = m - o
      BY <1>4, FS_Interval
    <2>2. Cardinality(3..(n - 1)) = IF 3 > n - 1 THEN 0 ELSE (n - 1) - 3 + 1
      <3>1. 3 \in Int /\ n - 1 \in Int
        BY <1>5
      <3>2. PICK l \in Int : l = n - 1
        BY <3>1
      <3>3. Cardinality(3..l) = IF 3 > l THEN 0 ELSE l - 3 + 1
        BY <3>1, FS_Interval
      <3>. QED
        BY <3>2, <3>3
    <2>. QED
      BY <1>4, <1>5, <2>1, <2>2
  <1>10. Cardinality({i \in 1..Len(portfolio.timeline) : portfolio.timeline[i].type = "marked"})
            < Cardinality({i \in Watched : i <= next})
    BY <1>3, <1>7, <1>8, <1>9
  <1>11. LET p == portfolio.closed[1] IN
         /\ Len(portfolio.closed) = 1 /\ ~IsOpen(portfolio)
         /\ p.closed > p.opened /\ p.closed = next /\ portfolio.updated = p.closed
         /\ p.exit > 0
    BY <1>1 DEF Concluded
  <1>. QED
    BY <1>2, <1>10, <1>11 DEF MonitoringValid

\* Only a signal without a trade plan reverses a trade, and only such a signal, or a
\* fill on the last candle, makes the application raise: what it ends with passes
\* every validator on the way into the journal.
THEOREM OnlyUnplannedReversalsRaise == ReplaySpec => []OnlyUnplannedReversals
  <1>1. ReplayInv => OnlyUnplannedReversals
    <2>. SUFFICES ASSUME ReplayInv PROVE OnlyUnplannedReversals
      OBVIOUS
    <2>0. DataTypeOK /\ BatchInv /\ TrialInv /\ EndInv
      BY DEF ReplayInv
    <2>1. ASSUME result \in {"trend_reversal", "directive_conflict"}
          PROVE  ~Planned(data.signals[ReversalAt].side, data.candles[ReversalAt])
      <3>1. stage \in {"closed", "aborted"} /\ ReversalAt # 0
        BY <2>0, <2>1 DEF EndInv, Concluded, ReplayExits
      <3>2. TradeFacts
        BY <2>0, <3>1, TradeIs
      <3>3. /\ portfolio.created \in CandleNumber
            /\ \A c \in GeneratedCandidates : c.created <= portfolio.created
        BY <2>0, <3>1 DEF BatchInv, Later
      <3>4. PICK at : at = portfolio.created
        OBVIOUS
      <3>5. at \in Nat /\ trial.opened \in CandleNumber /\ trial.opened > at
            /\ trial.candidate.side \in Side
        BY <3>2, <3>3, <3>4, CandleNumbers DEF TradeFacts, CandidateSound
      <3>. QED
        BY <2>0, <3>1, <3>3, <3>4, <3>5, ReversalIsUnplanned
    <2>2. stage = "aborted" =>
            \/ result = "directive_conflict"
            \/ result = "no_candle_after_entry" /\ trial.opened = CandleCount
      BY <2>0 DEF EndInv
    <2>3. ASSUME stage = "replay"
          PROVE  /\ RankingValid
                 /\ \A k \in 1..Len(ranked) :
                      CandidateValid(ranked[k]) /\ (Status(k) = "opened" => Openable(ranked[k]))
      <3>1. PICK at : at = portfolio.created
        OBVIOUS
      <3>2. at \in Nat /\ RankedAt(at) /\ Given.created = at
        BY <2>0, <2>3, <3>1, CandleNumbers, GivenIs DEF BatchInv, Later
      <3>3. RankingValid
        BY <2>0, <3>2, ScoresDescend DEF RankingValid
      <3>4. \A k \in 1..Len(ranked) : CandidateValid(ranked[k])
        BY <2>0, <3>2, RankedAre, CandidatesAreValid
      <3>5. ASSUME NEW k \in 1..Len(ranked), Status(k) = "opened" PROVE Openable(ranked[k])
        <4>1. CandidateSound(ranked[k])
          BY <2>0, <3>2, RankedAre
        <4>. QED
          BY <2>0, <3>1, <3>2, <3>5, <4>1, OpenedIsOpenable
      <3>. QED
        BY <3>3, <3>4, <3>5
    <2>4. Ended => /\ BatchValid /\ LifecycleValid /\ JournalValid(JournalEntry)
                   /\ \A k \in 1..Tried : AttemptValid(k)
                   /\ \A k \in 1..Len(ranked) : OccurrenceValid(k)
      BY BatchIsValid, JournalIsValid, AttemptsAreValid, OccurrencesAreValid
    <2>5. stage = "closed" => SimulationValid /\ MonitoringValid
      BY TradeIsValid
    <2>. QED
      BY <2>1, <2>2, <2>3, <2>4, <2>5 DEF OnlyUnplannedReversals
  <1>. QED
    BY <1>1, ReplayInvHolds, PTL
================================================================================
