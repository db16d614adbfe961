------------------------------- MODULE Benchmark -------------------------------
(***************************************************************************)
(* run_pipeline_benchmark (src/src/benchmark/pipeline_benchmark.cpp) and   *)
(* the exit code run_bench_pipeline (src/src/main.cpp) makes of its        *)
(* result: trades and order books made up in turn are fed to the handler   *)
(* of MarketDispatch on the same thread.                                   *)
(***************************************************************************)
EXTENDS MarketDispatch

VARIABLES at,          \* "setup", "loop" or "ended"
          messages,    \* messages to feed
          enableWrite, \* --bench-write
          fed,         \* messages fed
          refused,     \* write() calls that failed, each a validation error too
          code         \* exit code, -1 before the end

benchVars == <<at, messages, enableWrite, fed, refused, code>>

BenchInit ==
    /\ Init
    /\ at = "setup" /\ messages \in 1..MaxMsgs /\ enableWrite \in BOOLEAN
    /\ fed = 0 /\ refused = 0 /\ code = -1

(* The first configured symbol, in both kinds of message. *)
BenchSymbol == CHOOSE s \in Symbols : TRUE

(* make_trade_message and make_orderbook_message: every message has the same
   trade id and the same update id. *)
TradeMsg == SoundTrade(1)
BookMsg == SoundBook(1)

(* A symbol that is not alphanumeric or too long, or a writer that does not
   open, throws; what was opened is closed and the exit code is 1. *)
SetupThrows ==
    /\ at = "setup"
    /\ at' = "ended" /\ code' = 1
    /\ UNCHANGED <<vars, messages, enableWrite, fed, refused>>

Setup ==
    /\ at = "setup"
    /\ at' = "loop"
    /\ UNCHANGED <<vars, messages, enableWrite, fed, refused, code>>

(* process_raw_message: the callbacks count, push and write but do not throw. *)
Feed ==
    /\ at = "loop" /\ fed < messages
    /\ IF fed % 2 = 0 THEN TradeMessage(BenchSymbol, TradeMsg)
                    ELSE DepthMessage(BenchSymbol, BookMsg)
    /\ metrics'["callback_errors"] = metrics["callback_errors"]
    /\ \/ UNCHANGED refused
       \/ enableWrite /\ handed' # {} /\ refused' = refused + 1
    /\ fed' = fed + 1
    /\ UNCHANGED <<at, messages, enableWrite, code>>

ExpectedTrades == (messages \div 2) + (messages % 2)
ExpectedOrderbooks == messages \div 2

(* The writers are closed and the result is judged.  Writers that failed have
   refused or lost records. *)
Finish ==
    /\ at = "loop" /\ fed = messages
    /\ at' = "ended"
    /\ \E writerError \in BOOLEAN :
          /\ writerError => enableWrite
          /\ code' = IF /\ metrics["parse_errors"] = 0 /\ metrics["callback_errors"] = 0
                        /\ refused = 0 /\ ~writerError
                        /\ metrics["trades_parsed"] = ExpectedTrades
                        /\ metrics["orderbooks_parsed"] = ExpectedOrderbooks
                     THEN 0 ELSE 1
          /\ refused' = refused + (IF writerError THEN 1 ELSE 0)
    /\ UNCHANGED <<vars, messages, enableWrite, fed>>

BenchNext == Setup \/ SetupThrows \/ Feed \/ Finish

BenchSpec == BenchInit /\ [][BenchNext]_<<vars, benchVars>>

-------------------------------------------------------------------------------
(* A benchmark whose set-up and writers do not fail exits with 0: the command
   the README and the continuous integration run (--bench-pipeline 20000
   --bench-write) is expected to succeed. *)
CleanBenchmarkPasses == at = "ended" /\ fed = messages /\ refused = 0 => code = 0
===============================================================================
