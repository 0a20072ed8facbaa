----------------------------- MODULE MCPipeline -----------------------------
(***************************************************************************)
(* Pipeline on small instances: two addresses in four logs.  In the first  *)
(* the lines of a breach lie next to each other, in the second the two     *)
(* addresses alternate, in the third lines become stale, in the fourth     *)
(* one cannot be decoded.                                                  *)
(***************************************************************************)
EXTENDS Pipeline

CONSTANTS a, b

MCLogs == {<<a, a, Noise, a, a, a>>, <<a, b, a, b, b, a>>, <<b, Noise, Noise, Noise, b, b>>,
           <<a, a, Undecodable, a, b, a>>}

MCSubscribers == <<"on_security_event">>
=============================================================================
