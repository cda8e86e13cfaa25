---------------------------- MODULE MCMtPipeline ----------------------------
(***************************************************************************)
(* Three workers with a key each, and the mixes of requests a client sends.*)
(***************************************************************************)
EXTENDS MtPipeline, TLC

MCKeys == {"a", "b", "c"}

\* a name of the home worker's and one of another's, each a channel, a shard
\* channel and a pattern without wildcards
MCNames == {"h", "r"}
MCOwner == [k \in MCKeys \cup MCNames |-> CASE k \in {"a", "h"} -> 0
                                          [] k \in {"b", "r"} -> 1
                                          [] OTHER            -> 2]
MCGlob == [n \in MCNames |-> {n}]

Set(k) == [op |-> "set", k |-> k]
Watch(k) == [op |-> "watch", k |-> k]
Solo(w) == [op |-> "solo", w |-> w]
Op(o) == [op |-> o]
Mix(cmds, max) == [cmds |-> cmds, max |-> max, writes |-> MCKeys, publishes |-> {}]
Sub(kind, n) == [op |-> "sub", sub |-> [kind |-> kind, k |-> n]]
Unsub(kind, n) == [op |-> "unsub", sub |-> [kind |-> kind, k |-> n]]
UnsubAll(kind) == [op |-> "unsuball", kind |-> kind]
Publish(n, kind) == [op |-> "publish", k |-> n, kind |-> kind]

\* local commands, batches for two workers, tasks of their own, broadcasts; then
\* transactions over a key of the home worker; then transactions over a key of
\* another worker, where routed WATCHes defer what follows; then subscriptions
\* of three kinds, with another client's message
MCMixes == <<Mix({Set("a"), Set("b"), Set("c"), Solo(0), Solo(1), Op("agg"), Op("quit")}, 3),
             Mix({Set("a"), Set("b"), Watch("a"), Op("multi"), Op("exec"), Op("discard"), Op("reset")}, 4),
             Mix({Set("b"), Watch("b"), Op("multi"), Op("exec"), Op("unwatch")}, 5),
             [Mix({Sub(Channel, "r"), Sub(Pattern, "r"), Sub(Shard, "h"), Unsub(Channel, "r"),
                   UnsubAll(Pattern), Publish("r", Channel), Publish("h", Shard), Op("reset")}, 4)
                EXCEPT !.writes = {}, !.publishes = {"r"}]>>

\* mixes in which a documented promise fails
PassMix == <<Mix({Set("b"), Op("pass")}, 4)>>
AggMix == <<Mix({Watch("b"), Set("b"), Op("agg")}, 4)>>
ResetMix == <<Mix({Watch("b"), Set("b"), Op("reset")}, 4)>>
DenyMix == <<Mix({Watch("b"), Op("multi"), Op("deny")}, 4)>>
LocalMix == <<Mix({Watch("b"), Op("local")}, 4)>>
QuitMix == <<Mix({Set("b"), Op("quit")}, 4)>>
RewatchMix == <<Mix({Watch("b"), Watch("c"), Op("multi"), Set("c"), Op("exec"), Op("reset")}, 6)>>
=============================================================================
