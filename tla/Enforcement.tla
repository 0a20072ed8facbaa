----------------------------- MODULE Enforcement -----------------------------
(***************************************************************************)
(* From a breach or a request to a firewall rule: the worker's handler     *)
(* on_security_event (worker.py 220-282) and the web endpoints /api/block  *)
(* and /api/unblock (interfaces/web/app.py 137-197) run on one database    *)
(* and one firewall, each calling AlertRepository and BlockService.  An    *)
(* administrator may empty the tables meanwhile (delete_alerts.py).        *)
(***************************************************************************)
EXTENDS BlockService, AlertRepository

CONSTANTS
  WebOps,         \* what is asked of the web server: "block", "unblock"
  AdminDeletes,   \* TRUE if delete_alerts.py is run
  Serial,         \* TRUE if calls do not overlap
  MaxBreaches     \* bound: the number of breaches the detector publishes

ASSUME EnforcementAssumption ==
  /\ WebOps \subseteq {"block", "unblock"}
  /\ AdminDeletes \in BOOLEAN /\ Serial \in BOOLEAN
  /\ MaxBreaches \in Nat

VARIABLES
  breaches,   \* events the worker's handler has been called with
  blocks      \* the worker's counter of record_block calls

vars == <<rules, records, alerts, call, breaches, blocks>>

Init ==
  /\ rules = {}
  /\ records = [ip \in {} |-> 0]
  /\ alerts = [id \in {} |-> 0]
  /\ call = [th \in Threads |-> Idle]
  /\ breaches = 0
  /\ blocks = 0

MayStart(th) ==
  /\ At(th, "idle")
  /\ Serial => \A other \in Threads : At(other, "idle")

Begin(th, op, ip, label) ==
  /\ MayStart(th)
  /\ call' = [call EXCEPT ![th] = [Idle EXCEPT !.op = op, !.ip = ip, !.pc = label]]
  /\ UNCHANGED <<rules, records, alerts, blocks>>

----------------------------------------------------------------------------
(* The worker: on_security_event.                                          *)

Breach(ip) ==
  /\ breaches < MaxBreaches
  /\ Begin(Worker, "breach", ip, "upsert_select")
  /\ breaches' = breaches + 1

PersistBreach ==
  /\ \/ UpsertSelect(Worker)
     \/ UpsertInsert(Worker, "event_lookup")
     \/ UpsertSave(Worker, "event_lookup")
  /\ UNCHANGED <<breaches, blocks>>

(* Mutant of OnBlocked: a block is counted twice.                          *)
OnBlockedCountsTwice ==
  /\ At(Worker, "returned") /\ call[Worker].ok
  /\ MarkBlocked(Worker, "notify")
  /\ blocks' = blocks + 2
  /\ UNCHANGED breaches

(* Mutant of OnBlocked: the alert is left to whoever blocked the address.  *)
OnBlockedWithoutMark ==
  /\ At(Worker, "returned") /\ call[Worker].ok
  /\ Goto(Worker, "notify")
  /\ blocks' = blocks + 1
  /\ UNCHANGED <<rules, records, alerts, breaches>>

(* handle_event said True: mark the alert and count the block.             *)
OnBlocked ==
  /\ At(Worker, "returned") /\ call[Worker].ok
  /\ MarkBlocked(Worker, "notify")
  /\ blocks' = blocks + 1
  /\ UNCHANGED breaches

(* handle_event said False: the failure is logged.                         *)
OnNotBlocked ==
  /\ At(Worker, "returned") /\ ~call[Worker].ok
  /\ Goto(Worker, "notify")
  /\ UNCHANGED <<rules, records, alerts, breaches, blocks>>

(* Enrich and alert; whatever the channel raises is caught.                *)
Notify ==
  /\ At(Worker, "notify")
  /\ Finish(Worker)
  /\ UNCHANGED <<rules, records, alerts, breaches, blocks>>

----------------------------------------------------------------------------
(* The web server: api_block and api_unblock.                              *)

ApiBlock(th, ip) ==
  /\ "block" \in WebOps
  /\ Begin(th, "block", ip, "block_deny")
  /\ UNCHANGED breaches

ApiUnblock(th, ip) ==
  /\ "unblock" \in WebOps
  /\ Begin(th, "unblock", ip, "unblock_lookup")
  /\ UNCHANGED breaches

(* The result of the service is not looked at.                             *)
ApiMark(th) ==
  /\ \/ /\ At(th, "returned") /\ call[th].op = "block"
        /\ MarkIpBlocked(th, "answer")
     \/ MarkIpInsert(th, "answer")
     \/ /\ At(th, "returned") /\ call[th].op = "unblock"
        /\ MarkIpUnblocked(th, "answer")
  /\ UNCHANGED <<breaches, blocks>>

(* 200 with "blocked": true or false.                                      *)
ApiAnswer(th) ==
  /\ At(th, "answer")
  /\ Finish(th)
  /\ UNCHANGED <<rules, records, alerts, breaches, blocks>>

----------------------------------------------------------------------------
(* Mutant of Raise: the service turns an exception into a success.         *)
RaiseReturnsTrue(th) ==
  /\ "raise" \in Faults
  /\ call[th].pc \notin {"idle", "notify", "answer"}
  /\ Return(th, TRUE)
  /\ UNCHANGED <<rules, records, alerts, breaches, blocks>>

(* A statement or a command raises (database locked, ufw not found): the   *)
(* worker's broker swallows the exception, Flask answers 500; what the     *)
(* call has done so far stays.                                             *)
Raise(th) ==
  /\ "raise" \in Faults
  /\ call[th].pc \notin {"idle", "notify", "answer"}
  /\ Finish(th)
  /\ UNCHANGED <<rules, records, alerts, breaches, blocks>>

(* A process dies in the middle of its calls and is started again.         *)
WorkerCrash ==
  /\ "crash" \in Faults
  /\ Finish(Worker)
  /\ blocks' = 0
  /\ UNCHANGED <<rules, records, alerts, breaches>>

WebCrash ==
  /\ "crash" \in Faults
  /\ call' = [th \in Threads |-> IF th \in WebThreads THEN Idle ELSE call[th]]
  /\ UNCHANGED <<rules, records, alerts, breaches, blocks>>

(* delete_alerts.py: both tables in one transaction; the firewall is left. *)
DeleteAll ==
  /\ AdminDeletes
  /\ Serial => \A th \in Threads : At(th, "idle")
  /\ DOMAIN alerts \cup DOMAIN records # {}
  /\ records' = [ip \in {} |-> 0]
  /\ alerts' = [id \in {} |-> 0]
  /\ UNCHANGED <<rules, call, breaches, blocks>>

ServiceStep(th) == BlockServiceStep(th) /\ UNCHANGED <<breaches, blocks>>

WorkerStep == PersistBreach \/ ServiceStep(Worker) \/ OnBlocked \/ OnNotBlocked \/ Notify
WebStep(th) == ServiceStep(th) \/ ApiMark(th) \/ ApiAnswer(th)

Next ==
  \/ \E ip \in IPs : Breach(ip)
  \/ WorkerStep
  \/ \E th \in WebThreads, ip \in IPs : ApiBlock(th, ip) \/ ApiUnblock(th, ip)
  \/ \E th \in WebThreads : WebStep(th)
  \/ \E th \in Threads : Raise(th)
  \/ WorkerCrash \/ WebCrash
  \/ DeleteAll

Spec == Init /\ [][Next]_vars

(* The interpreter and the web server keep running the code of a call.     *)
Fairness ==
  /\ WF_vars(WorkerStep)
  /\ \A th \in WebThreads : WF_vars(WebStep(th))

FairSpec == Spec /\ Fairness

----------------------------------------------------------------------------

Labels == {"idle", "upsert_select", "upsert_insert", "upsert_save",
           "event_lookup", "event_remark", "event_deny", "event_create",
           "block_deny", "block_lookup", "block_remark", "block_create",
           "unblock_lookup", "unblock_allow", "unblock_mark",
           "returned", "mark_insert", "notify", "answer"}

Call == [op : {"none", "breach", "block", "unblock"}, pc : Labels,
         ip : IPs \cup {NoIP}, rec : Nat, ok : BOOLEAN,
         alert : Nat, row : Row \cup {NoRow}]

(* Type invariant of the two tables, the firewall and the calls.           *)
TypeOK ==
  /\ rules \subseteq IPs
  /\ DOMAIN records \subseteq IPs /\ \A ip \in DOMAIN records : records[ip] \in Record
  /\ DOMAIN alerts \subseteq Nat /\ \A id \in DOMAIN alerts : alerts[id] \in Row
  /\ call \in [Threads -> Call]
  /\ breaches \in 0 .. MaxBreaches
  /\ blocks \in 0 .. MaxBreaches

AllIdle == \A th \in Threads : At(th, "idle")

(* Once every call has ended, the firewall, blocked_ips and the alerts of  *)
(* an address agree, however block requests and the handler of a breach    *)
(* have interleaved (docs/services/08-flask-dashboard/README.md 84-85: the *)
(* dashboard shows the state of an address from its alerts).               *)
QuiescentAgreement ==
  AllIdle =>
    \A ip \in IPs :
      /\ ip \in rules <=> ip \in DOMAIN records /\ records[ip].is_blocked
      /\ ip \in rules <=> \E id \in RowsOf(ip) : alerts[id].blocked
      /\ \A id \in RowsOf(ip) : alerts[id].blocked = (ip \in rules)

(* No interleaving of the read-add-write of upsert_breach with updates     *)
(* from the web loses or doubles the attempts of a breach.                 *)
AttemptsAccounted ==
  MapThenSumSet(LAMBDA id : alerts[id].attempts, DOMAIN alerts) =
    breaches - IF call[Worker].pc \in {"upsert_select", "upsert_insert", "upsert_save"}
               THEN 1 ELSE 0

(* There is never a record in blocked_ips for an address the firewall does *)
(* not deny, as long as nobody unblocks: a refusal, an exception or a      *)
(* crash between the two leaves a rule without a record, never the other   *)
(* way round (block_service.py: strategy first, then persist).             *)
RecordsAreEnforced == DOMAIN records \subseteq rules

(* Nor is there an alert marked blocked for such an address.               *)
FlagsAreEnforced ==
  \A id \in DOMAIN alerts : alerts[id].blocked => alerts[id].ip \in rules

(* Whatever is asked of the web server meanwhile, unblocking included, a   *)
(* record is created only while the firewall denies its address: an        *)
(* unblock cannot slip between the rule and the record, because it needs   *)
(* the record to begin.                                                    *)
RecordsCreatedUnderRule ==
  [][\A ip \in DOMAIN records' \ DOMAIN records : ip \in rules]_vars

(* A denied address can be unblocked again: unblock_ip does nothing without *)
(* a record, so a rule without one could never be removed through the API. *)
(* Holds whatever is asked for and refused, as long as no call breaks off. *)
DenialsAreUndoable == AllIdle => rules \subseteq DOMAIN records

(* The metric of blocked addresses counts only breaches whose address the  *)
(* firewall denies at that moment.                                         *)
CountedBlocksAreEnforced ==
  [][blocks' > blocks => call[Worker].ip \in rules]_vars

(* Every breach ends with its address denied by the firewall (README.md    *)
(* 57-60), even when a web request creates the record in between and the   *)
(* handler dies of the IntegrityError.                                     *)
BreachIsEnforced ==
  \A ip \in IPs : (At(Worker, "upsert_select") /\ call[Worker].ip = ip) ~> ip \in rules

(* A handler that reports success leaves the address denied.               *)
HandledBreachIsDenied ==
  At(Worker, "notify") /\ call[Worker].ok => call[Worker].ip \in rules

(* The answer 200 "Blocked <ip>" or "Unblocked <ip>" tells the truth.      *)
AnswerMatchesFirewall ==
  \A th \in WebThreads :
    At(th, "answer") => ((call[th].ip \in rules) <=> (call[th].op = "block"))

(* An address has at most one row of alerts.                               *)
OneAlertPerAddress ==
  \A i, j \in DOMAIN alerts : alerts[i].ip = alerts[j].ip => i = j
=============================================================================
