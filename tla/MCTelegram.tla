----------------------------- MODULE MCTelegram -----------------------------
(* TelegramBot on a small instance: two chats, three alerts, two errors.   *)
EXTENDS TelegramBot
=============================================================================
