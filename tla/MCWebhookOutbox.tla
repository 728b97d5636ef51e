-------------------------- MODULE MCWebhookOutbox --------------------------
(***************************************************************************)
(* Two deliveries to two webhooks and two overlapping drains.              *)
(***************************************************************************)
EXTENDS WebhookOutbox

MCDelivery == {"d1", "d2"}
MCHook == {"h1", "h2"}
MCHookOf == [d \in MCDelivery |-> IF d = "d1" THEN "h1" ELSE "h2"]
MCDrain == {"w1", "w2"}
=============================================================================
