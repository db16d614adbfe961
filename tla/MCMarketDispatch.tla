--------------------------- MODULE MCMarketDispatch ---------------------------
(* MarketDispatch for TLC: no step singles out a symbol, so the symbols are
   interchangeable. *)
EXTENDS MarketDispatch, TLC

SymbolSymmetry == Permutations(Symbols)
===============================================================================
