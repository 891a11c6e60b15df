-------------------------------- MODULE Config --------------------------------
(***************************************************************************)
(* The numbers of the configuration and where their defaults come from:    *)
(* viper (internal/config/loader.go) gives some to keys that are absent,   *)
(* Validate (internal/config/config.go) and setDefaults                    *)
(* (internal/collector/collector.go) replace others that are not positive. *)
(***************************************************************************)
EXTENDS Integers

CONSTANTS
    Second,         \* the nanoseconds of a second, 10^9
    MaxDuration     \* the longest time.Duration, 2^63 - 1 of them

(* The defaults are far from the longest duration.                         *)
ASSUME DurationAssumption ==
    Second \in Nat \ {0} /\ MaxDuration \in Nat /\ 60 * Second <= MaxDuration

Keys ==
    {"request_timeout", "max_reconnects", "reconnect_wait_ms", "worker_count", "batch_size",
     "channel_buffer_size", "publish_timeout_ms", "monitor_interval_sec",
     "stale_threshold_sec", "heartbeat_interval_sec", "push_interval_sec"}

Settings == [Keys -> Int]

ViperDefaults ==
    [request_timeout |-> 30, max_reconnects |-> -1, reconnect_wait_ms |-> 1000,
     worker_count |-> 10, batch_size |-> 100, channel_buffer_size |-> 10000,
     publish_timeout_ms |-> 5000, monitor_interval_sec |-> 60]

ValidateDefaults ==
    [worker_count |-> 10, batch_size |-> 100, channel_buffer_size |-> 10000,
     stale_threshold_sec |-> 10, heartbeat_interval_sec |-> 5, push_interval_sec |-> 1]

CollectorDefaults ==
    [heartbeat_interval_sec |-> 5, stale_threshold_sec |-> 30, push_interval_sec |-> 1,
     worker_count |-> 10, batch_size |-> 100, channel_buffer_size |-> 10000,
     publish_timeout_ms |-> 5000, monitor_interval_sec |-> 60]

(* What Unmarshal yields for a file, a function from the keys it contains. *)
Loaded(file) ==
    [k \in Keys |->
        IF k \in DOMAIN file THEN file[k]
        ELSE IF k \in DOMAIN ViperDefaults THEN ViperDefaults[k] ELSE 0]

OrDefault(settings, defaults) ==
    [k \in Keys |->
        IF k \in DOMAIN defaults /\ settings[k] <= 0 THEN defaults[k] ELSE settings[k]]

(* Mutant: Validate trusts setDefaults with the size of the channels.      *)
ValidatedButBuffer(settings) ==
    [OrDefault(settings, ValidateDefaults) EXCEPT
        !["channel_buffer_size"] = settings["channel_buffer_size"]]
Validated(settings) == OrDefault(settings, ValidateDefaults)
WithDefaults(settings) == OrDefault(settings, CollectorDefaults)

(* Validate also settles the mode.                                         *)
PushMode(mode) == IF mode = "" THEN "timed" ELSE mode

(* time.Duration(n) * time.Second, an int64 that may wrap around: more than *)
(* 292 years may come out as no time, or less.                             *)
Duration(seconds) ==
    ((seconds * Second + MaxDuration + 1) % (2 * (MaxDuration + 1))) - (MaxDuration + 1)
TooLong(seconds) == seconds * Second > MaxDuration

(* The settings that Start and its goroutines make tickers of.             *)
Tickers(mode) ==
    {"heartbeat_interval_sec", "monitor_interval_sec"}
    \cup (IF mode = "timed" THEN {"push_interval_sec"} ELSE {})
=============================================================================
