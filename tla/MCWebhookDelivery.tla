------------------------- MODULE MCWebhookDelivery -------------------------
(* Model values for model-checking WebhookDelivery. *)
EXTENDS WebhookDelivery

CONSTANTS w1, w2, hook, export

TwoWorkers == {w1, w2}
OneExport  == {export}
OnlyHook   == {hook}
NoneDirect == {}
=============================================================================
