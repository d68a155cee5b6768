--------------------------- MODULE MCWebhookService ---------------------------
(* The edits of the hooks for model checking WebhookService.                  *)
EXTENDS WebhookService

\* The first hook is switched off and on and gets an unusable secret; the second
\* one gets the first one's id, or one that no hook has.
SomeEdits == {<<1, "status">>, <<1, "secret">>, <<2, "id">>}

============================================================================
