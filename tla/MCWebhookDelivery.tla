-------------------------- MODULE MCWebhookDelivery --------------------------
(***************************************************************************)
(* A small instance of WebhookDelivery for TLC.  The five delays of 0, 2,  *)
(* 10, 60 and 300 seconds and the tolerance of 300 become three delays     *)
(* with the same relations: only the last lies beyond the tolerance.       *)
(***************************************************************************)
EXTENDS WebhookDelivery

CONSTANTS cron, request, d1, d2, s1

TwoProbers == {cron, request}
OneRequest == {request}
TwoDeliveries == {d1, d2}
OneSecret == {s1}
Delays == <<0, 1, 1>>
=============================================================================
