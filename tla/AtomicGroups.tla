---------------------------- MODULE AtomicGroups ----------------------------
(***************************************************************************)
(* What the owner of an order group is promised: at some time after its    *)
(* submission all of its orders are executed, or none ever is; and the     *)
(* holdings of an account change only when one of its groups is executed,  *)
(* in an asset the group names, or when a redeemable asset is paid back.   *)
(***************************************************************************)
EXTENDS Integers, Sequences

CONSTANTS Agents, Asset, Redeemable

VARIABLES
  groups,  \* the submitted groups: [agent, assets, outcome]
  units    \* units[g][a]: what agent g holds of asset a

Init == groups = <<>> /\ units = [g \in Agents |-> [a \in Asset |-> 0]]

Submit ==
  /\ Len(groups') = Len(groups) + 1
  /\ \A i \in DOMAIN groups : groups'[i] = groups[i]
  /\ groups'[Len(groups')].outcome = "open"
  /\ UNCHANGED units

Executed == {i \in DOMAIN groups : groups[i].outcome = "open" /\ groups'[i].outcome = "executed"}

(* Some open groups of an agent are executed and some are refused. *)
Resolve(agent) ==
  /\ DOMAIN groups' = DOMAIN groups
  /\ \A i \in DOMAIN groups :
       \/ groups'[i] = groups[i]
       \/ /\ groups[i].agent = agent /\ groups[i].outcome = "open"
          /\ groups'[i].outcome \in {"executed", "refused"}
  /\ \A g \in Agents, a \in Asset :
       units'[g][a] # units[g][a] =>
         /\ g = agent
         /\ \/ \E i \in Executed : a \in groups[i].assets
            \/ a = Redeemable /\ units'[g][a] = 0

Next == Submit \/ \E agent \in Agents : Resolve(agent)

Spec == Init /\ [][Next]_<<groups, units>>
=============================================================================
