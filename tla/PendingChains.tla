--------------------------- MODULE PendingChains ---------------------------
(***************************************************************************)
(* What the target pipeline promises about pending decisions: of the       *)
(* decisions an agent makes, numbered in order, at most one is pending for *)
(* each asset, a newer one replaces it, and once settled it never returns  *)
(* ("each symbol has one pending target chain",                            *)
(* sim_portfolio_replay.R:1101-1102).                                      *)
(***************************************************************************)
EXTENDS Naturals

CONSTANTS Agents, Assets

VARIABLES
  live,  \* the decision pending for each agent and asset, 0 for none
  next   \* the number of the next decision

chainVars == <<live, next>>

ChainInit == live = [g \in Agents |-> [a \in Assets |-> 0]] /\ next = 1

(* An agent decides on some assets; those its plan has orders for become   *)
(* pending on the new decision.                                            *)
Decide(agent, wanted, planned) ==
  /\ next' = next + 1
  /\ live' = [live EXCEPT ![agent] =
                [a \in Assets |-> IF a \in planned THEN next
                                  ELSE IF a \in wanted THEN 0
                                  ELSE live[agent][a]]]

(* Some pending decisions come to an end. *)
SettleSome ==
  /\ next' = next
  /\ live' \in [Agents -> [Assets -> 0 .. next]]
  /\ \A g \in Agents, a \in Assets : live'[g][a] \in {live[g][a], 0}

ChainNext ==
  \/ \E agent \in Agents, wanted \in SUBSET Assets :
       \E planned \in SUBSET wanted : Decide(agent, wanted, planned)
  \/ SettleSome

ChainSpec == ChainInit /\ [][ChainNext]_chainVars
=============================================================================
