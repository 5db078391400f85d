---------------------------- MODULE MCEventQueues ----------------------------
(* EventQueues for TLC: a deployment and its alerts, or two nodes with their *)
(* inventories, whose ids fall into one shard.                               *)
EXTENDS EventQueues

CONSTANTS a, b

Key(kind, id) == [kind |-> kind, id |-> id]

MixedKeys == {Key("deployment", a), Key("alerts", a), Key("reprocess", a),
              Key("node", a), Key("inventory", a)}
NodeKeys == {Key("node", a), Key("inventory", a), Key("inventory", b), Key("index", a)}

MCHashes == 1..MaxEvents
MCAlertKeys == {k \in Keys : k.kind = "alerts"}
MCSkipKeys == {k \in Keys : k.kind \in {"node", "inventory", "index", "reprocess"}}
MCDeploymentOf == [k \in MCAlertKeys |-> Key("deployment", k.id)]
OneShard == [i \in {a, b} |-> 1]
=============================================================================
