----------------------------- MODULE MCLogTail -----------------------------
(* LogTail on small instances: chunks and a pipe of two or three lines.    *)
EXTENDS LogTail
=============================================================================
