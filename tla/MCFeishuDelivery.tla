--------------------------- MODULE MCFeishuDelivery ---------------------------
(* Small instances of the calls to Feishu.                                 *)
EXTENDS FeishuDelivery

=============================================================================
