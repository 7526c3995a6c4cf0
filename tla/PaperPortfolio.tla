--------------------------- MODULE PaperPortfolio ---------------------------
(***************************************************************************)
(* The simulated portfolio ledger (paper/portfolio.py): an immutable       *)
(* accounting snapshot that four operations replace by the next one.       *)
(*                                                                         *)
(* The operations compute cash, equity, fees and results incrementally;    *)
(* the validators of the snapshot recompute them from its positions and    *)
(* refuse a snapshot in which the two disagree.  Prices, quantities and    *)
(* money are whole numbers of their smallest units; a product of a price   *)
(* and a quantity is finer than money, and each is rounded to a whole      *)
(* amount where the code quantizes it.  At most one position is open, and  *)
(* it is always the last one: `open` is that position, or NoPosition whose *)
(* amounts are zero, and `closed` are those before it.  A position's       *)
(* number stands for its identity, which the code digests from it.         *)
(***************************************************************************)
EXTENDS Integers, Sequences, Rounding

CONSTANTS
    Starting,       \* starting cash
    Quantum,        \* the smallest amount of money, in units of price by quantity
    Fee(_),         \* fee of a product of price and quantity, a whole amount of money
    Price, Quantity,    \* what the ledger is asked to trade at
    MaxTime, MaxPositions    \* bounds of the instance

ASSUME StartingAssumption == Starting \in Nat \ {0}
ASSUME QuantumAssumption == Quantum \in Nat \ {0}
ASSUME TradeAssumption == Price \subseteq Nat \ {0} /\ Quantity \subseteq Nat \ {0}
ASSUME BoundAssumption == MaxTime \in Nat /\ MaxPositions \in Nat
ASSUME FeeAssumption ==
    \A p \in Price, q \in Quantity :
        Fee(p * q) \in Nat /\ Fee(Quantum * HalfEven(p * q, Quantum)) \in Nat

VARIABLES portfolio

Side == {"long", "short"}

-----------------------------------------------------------------------------
(* The ledger *)

\* quantize_money of a product.
Money(product) == HalfEven(product, Quantum)

\* What a position wins at a price, before and after it is rounded to money.
Gain(p, price) == (IF p.side = "long" THEN price - p.entry ELSE p.entry - price) * p.quantity

GrossPnl(p, price) == Money(Gain(p, price))

Notional(price, quantity) == Money(price * quantity)

\* The fee of an entry is taken of the rounded notional, that of an exit is not.
EntryFee(price, quantity) == Fee(Quantum * Notional(price, quantity))

ExitFee(price, quantity) == Fee(price * quantity)

Event(f, type, at, equity, number) ==
    [sequence |-> Len(f.timeline) + 1, type |-> type, at |-> at, equity |-> equity,
     position |-> number]

NoPosition ==
    [number |-> 0, side |-> "long", quantity |-> 0, entry |-> 0, opened |-> 0,
     current |-> 0, marked |-> 0, reserved |-> 0, entryFee |-> 0, unrealized |-> 0]

IsOpen(f) == f.open.number # 0

Created(at) ==
    [status |-> "active", created |-> at, updated |-> at,
     cash |-> Starting, equity |-> Starting, fees |-> 0, realized |-> 0, unrealized |-> 0,
     open |-> NoPosition, closed |-> << >>,
     timeline |-> <<[sequence |-> 1, type |-> "created", at |-> at, equity |-> Starting,
                     position |-> 0]>>]

Position(number, side, price, quantity, at) ==
    [number |-> number, side |-> side, quantity |-> quantity, entry |-> price, opened |-> at,
     current |-> price, marked |-> at,
     reserved |-> Notional(price, quantity), entryFee |-> EntryFee(price, quantity),
     unrealized |-> 0]

\* A position whose notional rounds to nothing is refused by its validator.
CanOpen(f, price, quantity, at) ==
    /\ f.status = "active" /\ ~IsOpen(f) /\ at > f.updated
    /\ Notional(price, quantity) > 0
    /\ Notional(price, quantity) + EntryFee(price, quantity) <= f.cash

Opened(f, side, price, quantity, at) ==
    LET p == Position(Len(f.closed) + 1, side, price, quantity, at)
        cash == f.cash - (p.reserved + p.entryFee)
    IN  [f EXCEPT !.updated = at, !.cash = cash, !.equity = cash + p.reserved,
                  !.fees = @ + p.entryFee, !.open = p,
                  !.timeline = Append(@, Event(f, "opened", at, cash + p.reserved, p.number))]

CanMark(f, at) == f.status = "active" /\ IsOpen(f) /\ at > f.updated

Marked(f, price, at) ==
    LET p == f.open
        unrealized == GrossPnl(p, price)
        equity == f.cash + p.reserved + unrealized
    IN  [f EXCEPT !.updated = at, !.equity = equity, !.unrealized = unrealized,
                  !.open = [p EXCEPT !.current = price, !.marked = at, !.unrealized = unrealized],
                  !.timeline = Append(@, Event(f, "marked", at, equity, p.number))]

\* Mutant of CashAtClose: the exit fee is not taken from the cash.
CashBeforeExitFee(f, price) == f.cash + f.open.reserved + GrossPnl(f.open, price)

CashAtClose(f, price) ==
    f.cash + f.open.reserved + GrossPnl(f.open, price) - ExitFee(price, f.open.quantity)

\* The snapshot refuses negative cash: a short position that has lost more than
\* the portfolio holds cannot be closed at all.
CanClose(f, price, at) == CanMark(f, at) /\ CashAtClose(f, price) >= 0

Closed(f, price, at) ==
    LET p == f.open
        gross == GrossPnl(p, price)
        exitFee == ExitFee(price, p.quantity)
        result == gross - p.entryFee - exitFee
        cash == CashAtClose(f, price)
        exit == [number |-> p.number, side |-> p.side, quantity |-> p.quantity, entry |-> p.entry,
                 opened |-> p.opened, entryFee |-> p.entryFee, exit |-> price, closed |-> at,
                 exitFee |-> exitFee, gross |-> gross, realized |-> result]
    IN  [f EXCEPT !.updated = at, !.cash = cash, !.equity = cash, !.fees = @ + exitFee,
                  !.realized = @ + result, !.unrealized = 0,
                  !.open = NoPosition, !.closed = Append(@, exit),
                  !.timeline = Append(@, Event(f, "closed", at, cash, p.number))]

CanComplete(f, at) == f.status = "active" /\ ~IsOpen(f) /\ at > f.updated

Completed(f, at) ==
    [f EXCEPT !.status = "completed", !.updated = at,
              !.timeline = Append(@, Event(f, "completed", at, f.equity, 0))]

-----------------------------------------------------------------------------
(* The validators of a position and of a portfolio snapshot *)

PositionValid(p) ==
    /\ p.quantity > 0 /\ p.entry > 0 /\ p.current > 0 /\ p.reserved > 0 /\ p.entryFee >= 0
    /\ p.marked >= p.opened
    /\ p.unrealized = GrossPnl(p, p.current)

ExitValid(p) ==
    /\ p.exit > 0 /\ p.exitFee >= 0 /\ p.closed > p.opened
    /\ p.realized = p.gross - p.entryFee - p.exitFee

\* One event per step, in sequence, the last of them at the portfolio's own time
\* and equity, and a completion event exactly when it is completed.
TimelineValid(f) ==
    LET last == f.timeline[Len(f.timeline)]
    IN  /\ f.timeline[1].type = "created"
        /\ \A i \in 1..Len(f.timeline) : f.timeline[i].sequence = i
        /\ \A i \in 1..Len(f.timeline) :
            (f.timeline[i].position # 0) = (f.timeline[i].type \in {"opened", "marked", "closed"})
        /\ last.at = f.updated /\ last.equity = f.equity
        /\ (f.status = "completed") = (last.type = "completed")

Total(items, field) ==
    LET sum[i \in 0..Len(items)] == IF i = 0 THEN 0 ELSE sum[i - 1] + items[i][field]
    IN  sum[Len(items)]

PortfolioValid(f) ==
    LET realized == Total(f.closed, "realized")
    IN  /\ f.cash >= 0 /\ f.fees >= 0 /\ f.updated >= f.created
        /\ IsOpen(f) => /\ PositionValid(f.open)
                        /\ f.open.number = Len(f.closed) + 1
                        /\ f.status = "active"
        /\ \A i \in 1..Len(f.closed) : ExitValid(f.closed[i]) /\ f.closed[i].number = i
        /\ TimelineValid(f)
        /\ f.fees = Total(f.closed, "entryFee") + Total(f.closed, "exitFee") + f.open.entryFee
        /\ f.realized = realized
        /\ f.unrealized = f.open.unrealized
        /\ f.cash = Starting + realized - (f.open.reserved + f.open.entryFee)
        /\ f.equity = f.cash + f.open.reserved + f.open.unrealized

-----------------------------------------------------------------------------
(* A portfolio in the hands of any caller *)

Init == portfolio = Created(0)

Times(f) == (f.updated + 1)..MaxTime

OpenPosition ==
    \E side \in Side, price \in Price, quantity \in Quantity, at \in Times(portfolio) :
        /\ Len(portfolio.closed) < MaxPositions
        /\ CanOpen(portfolio, price, quantity, at)
        /\ portfolio' = Opened(portfolio, side, price, quantity, at)

MarkToMarket ==
    \E price \in Price, at \in Times(portfolio) :
        CanMark(portfolio, at) /\ portfolio' = Marked(portfolio, price, at)

ClosePosition ==
    \E price \in Price, at \in Times(portfolio) :
        CanClose(portfolio, price, at) /\ portfolio' = Closed(portfolio, price, at)

Complete ==
    \E at \in Times(portfolio) :
        CanComplete(portfolio, at) /\ portfolio' = Completed(portfolio, at)

Next == OpenPosition \/ MarkToMarket \/ ClosePosition \/ Complete

Spec == Init /\ [][Next]_portfolio

-----------------------------------------------------------------------------
Positions ==
    [number : Nat, side : Side, quantity : Nat, entry : Nat, opened : Nat,
     current : Nat, marked : Nat, reserved : Nat, entryFee : Nat, unrealized : Int]

Exits ==
    [number : Nat, side : Side, quantity : Nat, entry : Nat, opened : Nat, entryFee : Nat,
     exit : Nat, closed : Nat, exitFee : Nat, gross : Int, realized : Int]

EventType == {"created", "opened", "marked", "closed", "completed"}

Events == [sequence : Nat, type : EventType, at : Nat, equity : Int, position : Nat]

\* The fields of the snapshot and of what it holds.
TypeOK ==
    portfolio \in [status : {"active", "completed"}, created : Nat, updated : Nat,
                   cash : Int, equity : Int, fees : Int, realized : Int, unrealized : Int,
                   open : Positions, closed : Seq(Exits), timeline : Seq(Events)]

-----------------------------------------------------------------------------
\* Every operation leaves a snapshot its validators accept, whatever the order
\* of the calls, the prices and the sides: the amounts the ledger carries from
\* step to step are those the positions add up to (validate_accounting).
LedgerSound == PortfolioValid(portfolio)

\* Money is neither made nor lost: the cash is the starting cash, what closed
\* positions have earned and less what the open one has committed, and the equity
\* is the cash with the value of the open one.
Reconciled ==
    /\ portfolio.cash = Starting + portfolio.realized
                        - (portfolio.open.reserved + portfolio.open.entryFee)
    /\ portfolio.equity = portfolio.cash + portfolio.open.reserved + portfolio.unrealized
    /\ portfolio.cash >= 0
=============================================================================
