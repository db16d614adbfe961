-------------------------------- MODULE Config --------------------------------
(***************************************************************************)
(* Config::load (src/src/config/config.h) as a function from the file and  *)
(* the environment to an optional configuration: {} stands for an          *)
(* exception.  Numbers keep the widths of int and int64_t.                 *)
(***************************************************************************)
EXTENDS JsonValues, Sequences

CONSTANTS INT_MAX, INT64_MAX,     \* largest int and int64_t
          kMaxRingBufferSize      \* 100000000

ASSUME ConfigLimits == /\ INT_MAX \in Nat /\ INT64_MAX \in Nat
                       /\ kMaxRingBufferSize \in 1..INT_MAX /\ INT_MAX < INT64_MAX

GetInt(f) == Wrapped(INT_MAX, f.num)

(* The defaults keep the proportions of the code's. *)
Defaults == [ring_buffer_size |-> kMaxRingBufferSize, reconnect_interval_ms |-> 1,
             ping_interval_ms |-> 1, no_data_timeout_ms |-> 3,
             proxy_url |-> "", data_sources |-> <<"wss://binance">>]

(* ring_buffer_size: an integer, checked as unsigned and as signed.
   Mutation: narrowed to int before the check. *)
RingBufferSizeNarrow(f) ==
    IF f.type = "integer" /\ GetInt(f) \in 1..kMaxRingBufferSize THEN {GetInt(f)} ELSE {}
RingBufferSize(f) ==
    LET raw == Wrapped(INT64_MAX, f.num)
    IN  IF f.type = "integer" /\ f.num <= kMaxRingBufferSize /\ raw \in 1..kMaxRingBufferSize
        THEN {raw} ELSE {}

(* The value of a field that overrides a default, {} where get<> throws. *)
Override(f, default, values) == IF f.type = "absent" THEN {default} ELSE values
Milliseconds(f, default) == Override(f, default, IF IsArithmetic(f) THEN {GetInt(f)} ELSE {})

(* proxy_url: the file's, if only to say that there is none, else the
   environment's. *)
ProxyUrl(f, env) ==
    CASE f.type = "string"  -> {f.text}
      [] f.type = "absent"  -> {env}
      [] f.type = "untyped" -> {}

(* data_sources: the ws_url of each, "" where it is missing; null gives none.
   An entry that is no object, or whose ws_url is no string, throws. *)
DataSources(f) ==
    CASE f.type = "absent"  -> {Defaults.data_sources}
      [] f.type = "array"   -> {f.urls}
      [] f.type = "untyped" -> {}

(* The final checks. *)
TimingOk(c) == /\ c.reconnect_interval_ms > 0 /\ c.ping_interval_ms > 0
               /\ c.no_data_timeout_ms > 0
               /\ c.ping_interval_ms < c.no_data_timeout_ms

(* The rest of the fields, of use here only by their types: symbols, data_dir,
   log_level, enable_data_recovery, rest_api_url. *)
LoadFields(j, env) ==
    {c \in [ring_buffer_size : Override(j.ring_buffer_size, Defaults.ring_buffer_size,
                                        RingBufferSize(j.ring_buffer_size)),
            reconnect_interval_ms : Milliseconds(j.reconnect_interval_ms,
                                                 Defaults.reconnect_interval_ms),
            ping_interval_ms : Milliseconds(j.ping_interval_ms, Defaults.ping_interval_ms),
            no_data_timeout_ms : Milliseconds(j.no_data_timeout_ms,
                                              Defaults.no_data_timeout_ms),
            proxy_url : ProxyUrl(j.proxy_url, env),
            data_sources : DataSources(j.data_sources)] :
        j.others = "typed" /\ TimingOk(c)}

Load(file, env) ==
    CASE file.state = "missing" -> {Defaults}
      [] file.state = "broken"  -> {}
      [] file.state = "json"    -> LoadFields(file.json, env)

-------------------------------------------------------------------------------
(* The files to try: none, one that does not parse, the empty object, an
   object with one field, and all pairs of a ping interval and a time-out. *)
Text(type, text) == [type |-> type, text |-> text]
Array(type, urls) == [type |-> type, urls |-> urls]
EmptyObject == [ring_buffer_size |-> NumberField("absent", 0),
                reconnect_interval_ms |-> NumberField("absent", 0),
                ping_interval_ms |-> NumberField("absent", 0),
                no_data_timeout_ms |-> NumberField("absent", 0),
                proxy_url |-> Text("absent", ""), data_sources |-> Array("absent", <<>>),
                others |-> "typed"]

Numbers == {NumberField("integer", n) :
               n \in {-1, 0, 1, 2, 3, kMaxRingBufferSize + 1, INT_MAX + 1, 2 * INT_MAX + 3,
                      INT64_MAX, INT64_MAX + 1, 2 * INT64_MAX + 1}}
           \cup BadNumbers \cup {NumberField("bool", 1), NumberField("float", 1)}

Objects ==
    {[EmptyObject EXCEPT !.ring_buffer_size = f] : f \in Numbers}
    \cup {[EmptyObject EXCEPT !.reconnect_interval_ms = f] : f \in Numbers}
    \cup {[EmptyObject EXCEPT !.ping_interval_ms = p[1], !.no_data_timeout_ms = p[2]] :
             p \in Numbers \X Numbers}
    \cup {[EmptyObject EXCEPT !.proxy_url = f] :
             f \in {Text("untyped", ""), Text("string", ""), Text("string", "file")}}
    \cup {[EmptyObject EXCEPT !.data_sources = f] :
             f \in {Array("untyped", <<>>), Array("array", <<>>), Array("array", <<"">>),
                    Array("array", <<"wss://other", "">>)}}
    \cup {[EmptyObject EXCEPT !.others = "untyped"]}

Files == {[state |-> s, json |-> EmptyObject] : s \in {"missing", "broken"}}
         \cup {[state |-> "json", json |-> j] : j \in Objects}
Environments == {"", "env"}
===============================================================================
