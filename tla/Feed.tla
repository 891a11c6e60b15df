-------------------------------- MODULE Feed --------------------------------
(***************************************************************************)
(* What the collector promises the subscribers of its NATS topic, stated   *)
(* without channels, goroutines or a memory pool: the last message about a *)
(* node carries a sample which that very node really had, and a message    *)
(* that says "Good" carries a sample the server itself called Good.        *)
(* Nothing is promised about completeness: samples may be skipped,         *)
(* repeated or delivered late.  Collector implements this specification    *)
(* (MCCollector!ImplementsFeed, CollectorProofs!CollectorImplementsFeed).  *)
(***************************************************************************)
EXTENDS Naturals

CONSTANTS
    NodeIDs,        \* the node identifiers messages can be about
    SampleQualities,\* the qualities the server gives to samples
    NoValue,        \* the nil value of a node never sampled
    NoPoint         \* "no message received yet"

VARIABLES
    latest,         \* the current sample of each node, at the server
    feed            \* the last message about each node, downstream

feedVars == <<latest, feed>>

(* A sample is identified by its node and its number; it carries the       *)
(* quality the server gave it.                                             *)
Samples == [of : NodeIDs, ver : Nat, quality : SampleQualities]

(* The messages a subscriber may be shown about n now: the value is one of *)
(* n's samples up to the current one (or nil), and "Good" is not invented. *)
Truthful(n, value, quality) ==
    /\ value # NoValue => value \in Samples /\ value.of = n /\ value.ver <= latest[n].ver
    /\ quality = "Good" => value # NoValue /\ value.quality = "Good"

FeedInit ==
    /\ latest \in [NodeIDs -> Samples]
    /\ \A n \in NodeIDs : latest[n].of = n
    /\ feed = [n \in NodeIDs |-> NoPoint]

NewSample(n) ==
    /\ \E q \in SampleQualities :
          latest' = [latest EXCEPT ![n] = [of |-> n, ver |-> @.ver + 1, quality |-> q]]
    /\ UNCHANGED feed

(* One NATS message carries news about any number of nodes.                *)
Deliver ==
    /\ \A n \in NodeIDs : feed'[n] # feed[n] =>
          feed'[n] # NoPoint /\ Truthful(n, feed'[n].value, feed'[n].quality)
    /\ feed' = [n \in NodeIDs |-> feed'[n]]
    /\ UNCHANGED latest

FeedNext == Deliver \/ \E n \in NodeIDs : NewSample(n)

FeedSpec == FeedInit /\ [][FeedNext]_feedVars
=============================================================================
