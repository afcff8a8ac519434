-------------------------- MODULE MCNotifications --------------------------
(* Two orders that compete for stock, one of them with its messages. *)
EXTENDS Notifications, MCOrderPayment

\* the address and one of the two keys, or nothing
MailOrPush == {{}, {"PROJECT_URL", "NOTIFICATIONS_INTERNAL_KEY"},
               {"PROJECT_URL", "PUSH_ORDER_STATUS_INTERNAL_KEY"}}
=============================================================================
