--------------------------- MODULE AlertRepository ---------------------------
(***************************************************************************)
(* core/repositories.py, PeeweeAlertRepository: the operations that write  *)
(* the alerts table, one action per SQL statement.  upsert_breach reads a  *)
(* row, adds to it in memory and writes the whole row back; mark_ip_       *)
(* blocked updates the rows of an address and inserts one if there was     *)
(* none.  Each operation names the label its caller goes on at.            *)
(***************************************************************************)
EXTENDS SharedState

(* upsert_breach, the SELECT: the row of the address with the largest      *)
(* last_seen.  Rows of one address are stamped by different clocks (log    *)
(* time, time of the web request), so any of them may come first.          *)
UpsertSelect(th) ==
  /\ At(th, "upsert_select")
  /\ \/ /\ RowsOf(call[th].ip) = {}
        /\ Goto(th, "upsert_insert")
     \/ \E id \in RowsOf(call[th].ip) :
          call' = [call EXCEPT ![th].pc = "upsert_save",
                               ![th].alert = id, ![th].row = alerts[id]]
  /\ UNCHANGED <<rules, records, alerts>>

(* Mutant of UpsertInsert: a new alert is born blocked.                    *)
UpsertInsertBlocked(th, next) ==
  /\ At(th, "upsert_insert")
  /\ LET id == NextId(DOMAIN alerts)
     IN  /\ alerts' = PutRow(id, [ip |-> call[th].ip, attempts |-> 1, blocked |-> TRUE])
         /\ call' = [call EXCEPT ![th].pc = next, ![th].alert = id]
  /\ UNCHANGED <<rules, records>>

UpsertInsert(th, next) ==
  /\ At(th, "upsert_insert")
  /\ LET id == NextId(DOMAIN alerts)
     IN  /\ alerts' = PutRow(id, [ip |-> call[th].ip, attempts |-> 1, blocked |-> FALSE])
         /\ call' = [call EXCEPT ![th].pc = next, ![th].alert = id]
  /\ UNCHANGED <<rules, records>>

(* Mutant of UpsertSave: the attempts of this breach replace the sum.      *)
UpsertSaveReplaces(th, next) ==
  /\ At(th, "upsert_save")
  /\ alerts' = IF call[th].alert \in DOMAIN alerts
               THEN PutRow(call[th].alert, [call[th].row EXCEPT !.attempts = 1])
               ELSE alerts
  /\ call' = [call EXCEPT ![th].pc = next, ![th].row = NoRow]
  /\ UNCHANGED <<rules, records>>

(* existing.save(): every column of the row as it was read, with the       *)
(* attempts added; no row is written if the id is gone.                    *)
UpsertSave(th, next) ==
  /\ At(th, "upsert_save")
  /\ alerts' = IF call[th].alert \in DOMAIN alerts
               THEN PutRow(call[th].alert, [call[th].row EXCEPT !.attempts = @ + 1])
               ELSE alerts
  /\ call' = [call EXCEPT ![th].pc = next, ![th].row = NoRow]
  /\ UNCHANGED <<rules, records>>

(* get_recent: the rows that were seen last, up to a limit.  As for        *)
(* UpsertSelect, any row may come before any other.                        *)
GetRecent(limit) ==
  {ids \in SUBSET DOMAIN alerts :
     Cardinality(ids) = Min({limit, Cardinality(DOMAIN alerts)})}

(* mark_blocked                                                            *)
MarkBlocked(th, next) ==
  /\ alerts' = MarkRows({call[th].alert}, TRUE)
  /\ Goto(th, next)
  /\ UNCHANGED <<rules, records>>

(* Mutant of MarkIpBlocked: nothing is inserted for an unknown address.    *)
MarkIpBlockedOnly(th, next) ==
  /\ alerts' = MarkRows(RowsOf(call[th].ip), TRUE)
  /\ Goto(th, next)
  /\ UNCHANGED <<rules, records>>

(* mark_ip_blocked, the UPDATE: without a row to update, one is inserted.  *)
MarkIpBlocked(th, next) ==
  /\ alerts' = MarkRows(RowsOf(call[th].ip), TRUE)
  /\ Goto(th, IF RowsOf(call[th].ip) = {} THEN "mark_insert" ELSE next)
  /\ UNCHANGED <<rules, records>>

MarkIpInsert(th, next) ==
  /\ At(th, "mark_insert")
  /\ alerts' = PutRow(NextId(DOMAIN alerts),
                      [ip |-> call[th].ip, attempts |-> 0, blocked |-> TRUE])
  /\ Goto(th, next)
  /\ UNCHANGED <<rules, records>>

(* mark_ip_unblocked                                                       *)
MarkIpUnblocked(th, next) ==
  /\ alerts' = MarkRows(RowsOf(call[th].ip), FALSE)
  /\ Goto(th, next)
  /\ UNCHANGED <<rules, records>>
=============================================================================
