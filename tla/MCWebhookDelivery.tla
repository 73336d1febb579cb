------------------------- MODULE MCWebhookDelivery -------------------------
(* The tracker holds one ticket, which each body names by another of its    *)
(* identifiers, or one for each body, of which the first is refused.        *)
EXTENDS WebhookDelivery

CONSTANTS b1, b2, t1, t2

MCClass == [b \in Body |-> "pending"]

OneTicket ==
  [names |-> [b \in Body |-> << t1, IF b = b2 THEN "cfKey" ELSE "key" >>],
   refused |-> {}]
OneRefused ==
  [names |-> [b \in Body |-> << IF b = b2 THEN t2 ELSE t1, "key" >>],
   refused |-> {t1}]
MCTrackers == {OneTicket, OneRefused}
=============================================================================
