--------------------------- MODULE MCPushDelivery ---------------------------
(* A small instance of PushDelivery: a batch for two addresses, a batch whose
   one entry names none, a single request, and one that names no address. *)
EXTENDS PushDelivery

CONSTANTS a1, a2, b, c, q, w

TwoBatches == b :> <<a1, a2>> @@ c :> <<NoEmail>> @@ q :> <<a1>> @@ w :> <<NoEmail>>

\* config.rs: default_forward_headers.
DefaultHeaders == {"X-AIMail-Email", "X-AIMail-Timestamp", "X-Amail-Email",
                   "X-Mailrelay-Timestamp", "X-Webhook-Signature", "content-type"}
NewNames == {"x-aimail-email", "x-aimail-timestamp", "x-webhook-signature", "content-type"}
=============================================================================
