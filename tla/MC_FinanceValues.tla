--------------------------- MODULE MC_FinanceValues ---------------------------
EXTENDS FinanceValues

\* Two currency tickers as model values.
CONSTANTS USDC, DAI
MC_Tickers == {USDC, DAI}
=============================================================================
