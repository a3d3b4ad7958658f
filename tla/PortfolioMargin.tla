--------------------------- MODULE PortfolioMargin ---------------------------
(***************************************************************************)
(* The margin of a portfolio (crates/risk/src/lib.rs): the isolated        *)
(* requirement that mirrors RiskMonitor.sol, and the portfolio engine      *)
(* M(P) = f_S + f_C + f_L + f_K.  Sizes and marks are multiples of         *)
(* 1/RISK_SCALE; a mark may be missing, and then what needs it fails.      *)
(* External: trades, deposits and the marks move as they like.             *)
(***************************************************************************)
EXTENDS Integers, FiniteSets, FiniteSetsExt, Functions

CONSTANTS
  RiskMarkets,
  RiskSizes,        \* signed sizes a position may have
  RiskMarks,        \* mark prices
  RiskAmounts,      \* deposits and withdrawals
  RISK_SCALE,       \* 1e18 in the code
  RISK_BPS,         \* BPS_DENOMINATOR, 10000 in the code
  RISK_MMR_BPS,     \* 300 in the code
  Scenarios,        \* a set of functions, market -> shift in bps
  WideBps,          \* how far they reach
  AssetGroups,      \* market -> its group
  ThresholdBps, KappaBps, LiquidityBps, RhoBps, BetaBps,
  MaxCollateral     \* bound

Missing == -1       \* no mark price, and the failure it causes

ASSUME RiskAssumption ==
  /\ RISK_SCALE \in Nat \ {0} /\ RISK_BPS \in Nat \ {0} /\ RISK_MMR_BPS \in Nat
  /\ IsFiniteSet(RiskMarkets) /\ RiskSizes \subseteq Int
  /\ RiskMarks \subseteq Nat /\ RiskAmounts \subseteq Nat
  /\ WideBps \in Nat /\ IsFiniteSet(Scenarios)
  /\ \A s \in Scenarios : DOMAIN s \subseteq RiskMarkets /\ \A m \in DOMAIN s : s[m] \in Int
  /\ ThresholdBps \in Nat /\ KappaBps \in Nat /\ LiquidityBps \in [RiskMarkets -> Nat]
  /\ IsFiniteSet(DOMAIN RhoBps) /\ DOMAIN RhoBps \subseteq RiskMarkets \X RiskMarkets
  /\ BetaBps \in Nat /\ \A p \in DOMAIN RhoBps : RhoBps[p] \in Int

VARIABLES riskPosition, riskMark, riskCollateral

riskVars == <<riskPosition, riskMark, riskCollateral>>

Magnitude(x) == IF x < 0 THEN -x ELSE x
Signed(x, magnitude) == IF x < 0 THEN -magnitude ELSE magnitude

\* The positions a computation looks at; a size of zero is skipped before the lookup.
Open(pos) == {m \in RiskMarkets : pos[m] # 0}

\* Every lookup is a `?`: the first missing mark ends the computation.
Priced(pos, marks) == \A m \in Open(pos) : marks[m] # Missing

Gross(size, price) == (Magnitude(size) * price) \div RISK_SCALE
signed_exposure_usd(size, price) == Signed(size, Gross(size, price))

-----------------------------------------------------------------------------
(* The isolated requirement *)

current_margin_requirement(pos, marks) ==
  IF ~(\A m \in RiskMarkets : pos[m] # 0 => marks[m] # Missing) THEN Missing
  ELSE SumFunctionOnSet([m \in RiskMarkets |-> (Magnitude(pos[m]) * marks[m] * RISK_MMR_BPS)
                                               \div (RISK_SCALE * RISK_BPS)],
                        {m \in RiskMarkets : pos[m] # 0})

compute_margin(pos, marks, collateral) ==
  LET required == current_margin_requirement(pos, marks) IN
  [margin_requirement |-> required, effective_collateral |-> collateral,
   maintenance_breached |-> required > collateral]

is_withdraw_safe(pos, marks, collateral, value) ==
  LET required == current_margin_requirement(pos, marks) IN
  required # Missing /\ value <= collateral /\ collateral - value >= required

-----------------------------------------------------------------------------
(* The portfolio engine *)

\* Mutant: every shift raises the price.
ShiftedUp(price, bps) == price + (price * Magnitude(bps)) \div RISK_BPS

Shifted(price, bps) ==
  Max({0, price + Signed(bps, (price * Magnitude(bps)) \div RISK_BPS)})

ShiftOf(s, m) == IF m \in DOMAIN s THEN s[m] ELSE 0

\* What the portfolio gains under one scenario.
Change(pos, marks, s) ==
  SumFunctionOnSet([m \in RiskMarkets |->
                      signed_exposure_usd(pos[m], Shifted(marks[m], ShiftOf(s, m)))
                        - signed_exposure_usd(pos[m], marks[m])],
                   Open(pos))

scenario_margin(pos, marks) == Max({0} \cup {-Change(pos, marks, s) : s \in Scenarios})

Notionals(pos, marks) == [m \in RiskMarkets |-> Gross(pos[m], marks[m])]

concentration_charge(pos, marks) ==
  LET Of(ms) == SumFunctionOnSet(Notionals(pos, marks), ms)
      threshold == (Of(Open(pos)) * ThresholdBps) \div RISK_BPS
      Excess(g) == Max({0, Of({m \in Open(pos) : AssetGroups[m] = g}) - threshold})
      groups == {AssetGroups[m] : m \in Open(pos)}
  IN SumFunctionOnSet([g \in groups |-> (Excess(g) * KappaBps) \div RISK_BPS], groups)

liquidity_charge(pos, marks) ==
  SumFunctionOnSet([m \in RiskMarkets |-> (Notionals(pos, marks)[m] * LiquidityBps[m]) \div RISK_BPS],
                   Open(pos))

SameDirection(x, y) == (x >= 0) = (y >= 0)

PairTerm(rho, x, y) ==
  LET smaller == Min({Magnitude(x), Magnitude(y)})
      term == (smaller * Magnitude(rho) * BetaBps) \div (RISK_BPS * RISK_BPS)
  IN (IF SameDirection(x, y) THEN 1 ELSE -1) * Signed(rho, term)

\* RhoBps: market pair -> correlation; a pair with a flat leg is skipped.
correlation_adjustment(pos, marks) ==
  LET Exposure(m) == signed_exposure_usd(pos[m], marks[m]) IN
  SumFunctionOnSet([p \in DOMAIN RhoBps |-> PairTerm(RhoBps[p], Exposure(p[1]), Exposure(p[2]))],
                   {p \in DOMAIN RhoBps : {p[1], p[2]} \subseteq Open(pos)})

Failed == [total |-> Missing]

compute_portfolio_margin(pos, marks) ==
  IF ~Priced(pos, marks) THEN Failed
  ELSE LET s == scenario_margin(pos, marks)
           c == concentration_charge(pos, marks)
           l == liquidity_charge(pos, marks)
           k == correlation_adjustment(pos, marks)
       IN [f_scenario |-> s, f_concentration |-> c, f_liquidity |-> l, f_correlation |-> k,
           total |-> Max({0, s + c + l + k})]

-----------------------------------------------------------------------------
RiskInit ==
  /\ riskPosition = [m \in RiskMarkets |-> 0]
  /\ riskMark = [m \in RiskMarkets |-> Missing]
  /\ riskCollateral = 0

Trade(m, size) ==
  /\ riskPosition' = [riskPosition EXCEPT ![m] = size]
  /\ UNCHANGED <<riskMark, riskCollateral>>

\* All marks are read at once.
MarksMove(marks) == riskMark' = marks /\ UNCHANGED <<riskPosition, riskCollateral>>

Deposit(value) ==
  /\ riskCollateral + value <= MaxCollateral
  /\ riskCollateral' = riskCollateral + value
  /\ UNCHANGED <<riskPosition, riskMark>>

Withdraw(value) ==
  /\ is_withdraw_safe(riskPosition, riskMark, riskCollateral, value)
  /\ riskCollateral' = riskCollateral - value
  /\ UNCHANGED <<riskPosition, riskMark>>

RiskNext ==
  \/ \E m \in RiskMarkets, n \in RiskSizes : Trade(m, n)
  \/ \E marks \in [RiskMarkets -> RiskMarks \cup {Missing}] : MarksMove(marks)
  \/ \E v \in RiskAmounts : Deposit(v) \/ Withdraw(v)

-----------------------------------------------------------------------------
(* Properties *)

Margin == compute_portfolio_margin(riskPosition, riskMark)

ValueAt(marks) ==
  SumFunctionOnSet([m \in RiskMarkets |-> signed_exposure_usd(riskPosition[m], marks[m])],
                   Open(riskPosition))

Reach(mark) == (mark * WideBps) \div RISK_BPS

InBox(before, after) ==
  /\ before # Missing /\ after # Missing
  /\ after \in before - Reach(before) .. before + Reach(before)

Corners == [RiskMarkets -> {-WideBps, WideBps}]

\* With a scenario for each corner of the box, f_S covers the loss of every
\* move of the marks inside it, whichever way each market goes and whatever the
\* roundings of the exposures are.
CornersCoverTheBox ==
  Corners \subseteq Scenarios /\ UNCHANGED riskPosition
  /\ (\A m \in RiskMarkets : InBox(riskMark[m], riskMark'[m]))
    => ValueAt(riskMark) - ValueAt(riskMark') <= Margin.f_scenario

\* A withdrawal the mirror calls safe leaves the account above its requirement
\* at the marks it was checked at, however close to it trades and marks had come.
WithdrawStaysHealthy ==
  riskCollateral' < riskCollateral =>
    ~compute_margin(riskPosition', riskMark', riskCollateral').maintenance_breached

\* The portfolio engine fails on exactly the states on which the isolated
\* requirement fails, those with an open position whose mark is missing: a flat
\* market without a feed never blocks a margin computation.
MarginErrorsAgree ==
  Margin = Failed <=> current_margin_requirement(riskPosition, riskMark) = Missing

Mirrored == [m \in RiskMarkets |-> -riskPosition[m]]

\* The charges see exposures, not their direction: the portfolio with every
\* position turned round is charged the same for concentration, liquidity and
\* correlation, so a short book gets no hedge credit a long one would not.
ShortBookChargedAlike ==
  Margin # Failed =>
    LET turned == compute_portfolio_margin(Mirrored, riskMark)
        asHeld == Margin
    IN /\ turned.f_concentration = asHeld.f_concentration
       /\ turned.f_liquidity = asHeld.f_liquidity
       /\ turned.f_correlation = asHeld.f_correlation
=============================================================================
