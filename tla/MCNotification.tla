--------------------------- MODULE MCNotification ---------------------------
(* Notification and Metrics on a small instance: three breaches, two runs  *)
(* of the worker, one IPv4 and one IPv6 address, a database of one place.  *)
EXTENDS Notification
=============================================================================
