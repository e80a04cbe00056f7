--------------------------- MODULE MCWebhookLists ---------------------------
(* WebhookLists by itself, with the values of MessagingBounds.             *)
EXTENDS WebhookLists, MessagingBounds
=============================================================================
