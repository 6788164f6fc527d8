---------------------------- MODULE MCRunRouting ----------------------------
(***************************************************************************)
(* MCRunWorker's instance beside a small one of ModelRouting, from which   *)
(* runWorker.ts:66 has the model of a run: one run is claimed again and    *)
(* again, while a person edits twice and a provider changes its list once, *)
(* over two days.  They share no variable: one moves while the other       *)
(* stands at its start.                                                    *)
(*                                                                         *)
(* Hosted has a list of its own and takes models by the shape of their     *)
(* names; the name of twin has both, so that the order of the list tells.  *)
(* Routed has a router, auto; local serves its owner's models.             *)
(***************************************************************************)
EXTENDS MCRunWorker, ModelRouting

CONSTANTS hosted, routed, local,
          large, larger, small, twin,   \* models that hosted offers
          auto,                   \* the router, which routed offers beside large
          named, alias            \* models that local offers; alias also goes by named

MCPreference ==
  [p \in Provider |-> [top |-> <<larger>>, auto |-> IF p = routed THEN <<auto>> ELSE <<small>>]]
MCLike ==
  [p \in Provider |->
    IF p = routed THEN [top |-> Model \ {auto}, auto |-> {auto}]
                  ELSE [top |-> {large, larger, twin}, auto |-> {small, twin}]]
MCDefaultModel ==
  [p \in Provider |->
    CASE p = hosted -> [top |-> larger, auto |-> small]
      [] p = routed -> [top |-> larger, auto |-> auto]
      [] OTHER -> [t \in ModelTier |-> named]]
MCAdapterModel == [p \in Provider |-> IF p = local THEN named ELSE large]
MCEntered == [p \in Provider |-> IF p = local THEN {named, alias} ELSE {large}]
MCAlias == [m \in Model |-> IF m = alias THEN {named} ELSE {}]
MCOffers ==
  [p \in Provider |->
    CASE p = hosted -> <<<<small, larger>>, <<large, twin>>, <<twin, large>>>>
      [] p = routed -> <<<<auto, large>>, <<auto>>>>
      [] OTHER -> <<<<named, alias>>, <<alias>>>>]

RunRoutingInit == WorkInit /\ RoutingInit

RunRoutingNext ==
  \/ planning = NoProvider /\ RoutingInit /\ WorkNext /\ UNCHANGED routingVars
  \/ WorkInit /\ RoutingNext /\ UNCHANGED vars

RunRoutingSpec == RunRoutingInit /\ [][RunRoutingNext]_<<vars, routingVars>>
=============================================================================
