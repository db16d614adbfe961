------------------------------ MODULE CommandLine ------------------------------
(***************************************************************************)
(* parse_cli_options and the checks at the start of main()                 *)
(* (src/src/main.cpp).  An argument is a word; the loop over argv goes     *)
(* from state to state, each saying which value the last flag still wants. *)
(***************************************************************************)
EXTENDS Integers, SequencesExt

CONSTANTS MaxPin,     \* largest int
          MaxGapUs    \* largest std::chrono::microseconds

ASSUME CommandLineLimits == MaxPin \in Nat \ {0} /\ MaxGapUs \in Nat /\ MaxPin < MaxGapUs

(* What std::stoull reads from a word, {} if parse_u64_with_min refuses the
   word whatever the minimum is. *)
NumberOf(word) == CASE word = "0"    -> {0}
                    [] word = "1"    -> {1}
                    [] word = "wide" -> {MaxPin + 1}
                    [] word = "long" -> {MaxGapUs + 1}
                    [] OTHER         -> {}

Flags == {"--help", "--replay", "--bench-pipeline", "--bench-write",
          "--bench-gap-us", "--pin-cpu"}
Words == Flags \cup {"0", "1", "wide", "long", "-1", "junk"}
Dashed(word) == word \in Flags \cup {"-1"}

DefaultOptions == [mode |-> "live", messages |-> 100000, gap |-> 0, gapGiven |-> FALSE,
                   write |-> FALSE, pin |-> -1]

(* Scan state: the options so far, the value wanted next, and the outcome. *)
ScanStart == [options |-> DefaultOptions, wants |-> "nothing", status |-> "run"]
Refuse(st) == [st EXCEPT !.status = "refused"]

(* parse_u64_with_min *)
ParseU64WithMin(word, min) == {n \in NumberOf(word) : n >= min}

(* Only one mode may be chosen. *)
SelectMode(st, mode) ==
    IF st.options.mode # "live" THEN Refuse(st) ELSE [st EXCEPT !.options.mode = mode]

TakeFlag(st, word) ==
    CASE word = "--help"           -> [st EXCEPT !.status = "help"]
      [] word = "--replay"         -> SelectMode(st, "replay")
      [] word = "--bench-pipeline" -> [SelectMode(st, "bench") EXCEPT !.wants = "messages"]
      [] word = "--bench-write"    -> [st EXCEPT !.options.write = TRUE]
      [] word = "--bench-gap-us"   -> [st EXCEPT !.wants = "gap"]
      [] word = "--pin-cpu"        -> [st EXCEPT !.wants = "pin"]
      [] OTHER                     -> Refuse(st)

(* The flag stores its value in an option, or refuses it. *)
TakeValue(st, option, numbers) ==
    IF numbers = {} THEN Refuse(st)
    ELSE [st EXCEPT !.wants = "nothing", !.options[option] = CHOOSE n \in numbers : TRUE]

(* Mutation: the number of messages is read and not kept. *)
TakeMessagesDropped(st, word) ==
    IF ParseU64WithMin(word, 1) = {} THEN Refuse(st) ELSE [st EXCEPT !.wants = "nothing"]
TakeMessages(st, word) == TakeValue(st, "messages", ParseU64WithMin(word, 1))
TakeGap(st, word) ==
    TakeValue([st EXCEPT !.options.gapGiven = TRUE], "gap",
              {n \in ParseU64WithMin(word, 0) : n <= MaxGapUs})
TakePin(st, word) ==
    TakeValue(st, "pin", {n \in ParseU64WithMin(word, 0) : n <= MaxPin})

ScanWord(st, word) ==
    CASE st.status # "run"                              -> st
      [] st.status = "run" /\ st.wants = "gap"          -> TakeGap(st, word)
      [] st.status = "run" /\ st.wants = "pin"          -> TakePin(st, word)
      [] st.status = "run" /\ st.wants = "messages"     ->
            IF Dashed(word) THEN TakeFlag([st EXCEPT !.wants = "nothing"], word)
                            ELSE TakeMessages(st, word)
      [] st.status = "run" /\ st.wants = "nothing"      -> TakeFlag(st, word)

(* The state after each number of words. *)
Scan(words) ==
    LET states[k \in 0..Len(words)] ==
            IF k = 0 THEN ScanStart ELSE ScanWord(states[k - 1], words[k])
    IN  states

ParseCliOptions(words) ==
    LET end == Scan(words)[Len(words)]
    IN  IF end.status = "run" /\ end.wants \in {"gap", "pin"} THEN Refuse(end) ELSE end

(* main(): the benchmark's flags need the benchmark. *)
Startup(words) ==
    LET parsed == ParseCliOptions(words)
    IN  IF /\ parsed.status = "run" /\ parsed.options.mode # "bench"
           /\ parsed.options.write \/ parsed.options.gapGiven
        THEN Refuse(parsed) ELSE parsed

-------------------------------------------------------------------------------
(* Reference: what the usage text describes, of the first n words.  Each is a flag
   or the value of the flag before it, a flag that needs a value has one, and one
   flag at most chooses a mode. *)
Values(flag) == CASE flag = "--bench-pipeline" -> {"1", "wide", "long"}
                  [] flag = "--bench-gap-us"   -> {"0", "1", "wide"}
                  [] flag = "--pin-cpu"        -> {"0", "1"}
                  [] OTHER                     -> {}
NeedsValue == {"--bench-gap-us", "--pin-cpu"}
ModeFlags == {"--replay", "--bench-pipeline"}

Sentence(words, n) ==
    /\ \A k \in 1..n : \/ words[k] \in Flags \ {"--help"}
                        \/ (k > 1 /\ words[k] \in Values(words[k - 1]))
    /\ \A k \in 1..n : words[k] \in NeedsValue => k < n /\ words[k + 1] \in Values(words[k])
    /\ \A i, k \in 1..n : words[i] \in ModeFlags /\ words[k] \in ModeFlags => i = k

HasFlag(words, n, flag) == \E k \in 1..n : words[k] = flag
Mode(words, n) == IF HasFlag(words, n, "--replay") THEN "replay"
                  ELSE IF HasFlag(words, n, "--bench-pipeline") THEN "bench" ELSE "live"

(* The value of a flag is the one given last. *)
LastGiven(words, n, flag, default, value) ==
    IF HasFlag(words, n, flag)
    THEN \E k \in 1..n : /\ words[k] = flag /\ NumberOf(words[k + 1]) = {value}
                         /\ \A j \in (k + 1)..n : words[j] # flag
    ELSE value = default

(* Where --bench-pipeline has a value, and the number of messages: that value, or
   the default. *)
Counts(words, n) == {k \in 1..(n - 1) : /\ words[k] = "--bench-pipeline"
                                        /\ words[k + 1] \in Values(words[k])}
MessagesGiven(words, n, value) ==
    IF Counts(words, n) = {} THEN value = 100000
    ELSE \A k \in Counts(words, n) : NumberOf(words[k + 1]) = {value}

(* The benchmark's flags need the benchmark. *)
Runs(words, n) ==
    /\ Sentence(words, n)
    /\ (HasFlag(words, n, "--bench-write") \/ HasFlag(words, n, "--bench-gap-us"))
          => Mode(words, n) = "bench"

(* Help is asked for where a flag may stand. *)
AsksHelp(words, n) == \E k \in 1..n : words[k] = "--help" /\ Sentence(words, k - 1)
===============================================================================
