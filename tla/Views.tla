-------------------------------- MODULE Views --------------------------------
(***************************************************************************)
(* What an administrator is told while calls are under way: /status of the *)
(* Telegram bot (adapters/telegram_worker.py 190-217) adds up two requests *)
(* to the web server, /api/alerts and /api/blocked (interfaces/web/app.py  *)
(* 124-135).  Each request reads the alerts table once and shows a limited *)
(* number of its rows; between the two anything may happen.                *)
(***************************************************************************)
EXTENDS Enforcement

CONSTANTS
  ListLimit,      \* rows /api/alerts shows: 50 in the code
  BlockedLimit    \* rows /api/blocked picks the blocked ones from: 200

ASSUME ViewsAssumption == ListLimit \in Nat /\ BlockedLimit \in Nat

VARIABLE
  status    \* the /status under way: what its requests have returned so far

NoStatus == [pc |-> "none", listed |-> {}, blocked |-> {}, shown |-> {}]

VInit == Init /\ status = NoStatus

BlockedAmong(ids) == {id \in ids : alerts[id].blocked}

(* GET /api/alerts                                                         *)
StatusAlerts ==
  /\ status = NoStatus
  /\ \E ids \in GetRecent(ListLimit) :
       status' = [NoStatus EXCEPT !.pc = "asked", !.listed = ids,
                                  !.blocked = BlockedAmong(ids)]

(* GET /api/blocked                                                        *)
StatusBlocked ==
  /\ status.pc = "asked"
  /\ \E ids \in GetRecent(BlockedLimit) :
       status' = [status EXCEPT !.pc = "answered", !.shown = BlockedAmong(ids)]

(* The counts are sent, or the failure of a request is.                    *)
StatusReply ==
  /\ status # NoStatus
  /\ status' = NoStatus

StatusStep == StatusAlerts \/ StatusBlocked \/ StatusReply

VNext ==
  \/ Next /\ UNCHANGED status
  \/ StatusStep /\ UNCHANGED vars

VSpec == VInit /\ [][VNext]_<<vars, status>>

VFairSpec == VSpec /\ Fairness

----------------------------------------------------------------------------

(* As long as nobody unblocks, no call breaks off, nothing is deleted and  *)
(* the table fits /api/blocked, the second request of a /status misses an  *)
(* alert the first one showed as blocked only while the worker is handling *)
(* a breach of that very address: save() has written back the flag it read *)
(* before the address was blocked, and mark_blocked is still to come       *)
(* (worker.py 228-244, repositories.py 124).                               *)
StatusMissesOnlyBreaches ==
  [][status.pc = "asked" /\ status'.pc = "answered"
     /\ Cardinality(DOMAIN alerts) <= BlockedLimit =>
       \A id \in status'.blocked \ status'.shown :
         call[Worker].op = "breach" /\ call[Worker].ip = alerts[id].ip]_<<vars, status>>
=============================================================================
