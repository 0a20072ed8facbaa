---------------------------- MODULE BlockService ----------------------------
(***************************************************************************)
(* core/services/block_service.py on the Peewee repository (worker.py and  *)
(* web.py hold the same one) and a firewall strategy.  A method returns by *)
(* going to "returned" with its result in ok; what the caller does with    *)
(* the result is the caller's business (Enforcement.tla).                  *)
(*                                                                         *)
(* rules is what the strategy has been told with success: ufw keeps deny   *)
(* rules, NoOpStrategy only says yes.                                      *)
(***************************************************************************)
EXTENDS SharedState

Return(th, result) ==
  call' = [call EXCEPT ![th].pc = "returned", ![th].ok = result, ![th].rec = 0]

Fetch(th, next) ==
  call' = [call EXCEPT ![th].pc = next, ![th].rec = records[call[th].ip].id]

Recorded(th) == call[th].ip \in DOMAIN records

(* ufw exits with an error: no rule changes and the strategy says False.   *)
Refused(th) ==
  /\ "refuse" \in Faults
  /\ Return(th, FALSE)
  /\ UNCHANGED <<rules, records, alerts>>

(* Mutants of Deny: the command is never run; a refusal is not noticed.    *)
DenyNothing(th, next) ==
  /\ Goto(th, next)
  /\ UNCHANGED <<rules, records, alerts>>

DenyIgnoringRefusal(th, next) ==
  \/ /\ rules' = rules \cup {call[th].ip}
     /\ Goto(th, next)
     /\ UNCHANGED <<records, alerts>>
  \/ /\ "refuse" \in Faults
     /\ Goto(th, next)
     /\ UNCHANGED <<rules, records, alerts>>

(* strategy.block                                                          *)
Deny(th, next) ==
  \/ /\ rules' = rules \cup {call[th].ip}
     /\ Goto(th, next)
     /\ UNCHANGED <<records, alerts>>
  \/ Refused(th)

(* repo.create; a record that another thread has created since breaks the  *)
(* unique index on ip and the IntegrityError ends the whole call.          *)
Create(th) ==
  /\ IF Recorded(th)
     THEN Finish(th) /\ UNCHANGED records
     ELSE Return(th, TRUE) /\ records' = InsertRecord(call[th].ip)
  /\ UNCHANGED <<rules, alerts>>

(* Mutant of Mark: True only if the flag has changed.                      *)
MarkIfChanged(th, flag) ==
  /\ records' = MarkRecord(call[th].rec, flag)
  /\ Return(th, records' # records)
  /\ UNCHANGED <<rules, alerts>>

(* repo.mark_blocked, repo.mark_unblocked: by id; True if a row has it.    *)
Mark(th, flag) ==
  /\ records' = MarkRecord(call[th].rec, flag)
  /\ Return(th, call[th].rec \in RecordIds)
  /\ UNCHANGED <<rules, alerts>>

----------------------------------------------------------------------------
(* handle_event: look the address up, and either re-mark its record or     *)
(* deny the address and create one.                                        *)

(* Mutant of EventLookup: the record comes first, the rule never.          *)
EventLookupPersistsFirst(th) ==
  /\ At(th, "event_lookup")
  /\ IF Recorded(th) THEN Fetch(th, "event_remark") ELSE Goto(th, "event_create")
  /\ UNCHANGED <<rules, records, alerts>>

EventLookup(th) ==
  /\ At(th, "event_lookup")
  /\ IF Recorded(th) THEN Fetch(th, "event_remark") ELSE Goto(th, "event_deny")
  /\ UNCHANGED <<rules, records, alerts>>

EventRemark(th) == At(th, "event_remark") /\ Mark(th, TRUE)

EventDeny(th) == At(th, "event_deny") /\ Deny(th, "event_create")

EventCreate(th) == At(th, "event_create") /\ Create(th)

----------------------------------------------------------------------------
(* block_ip: deny the address first, then re-mark or create its record.    *)

(* Mutant of BlockDeny: returns as soon as the address is denied.          *)
BlockDenyWithoutLookup(th) ==
  /\ At(th, "block_deny")
  /\ \/ /\ rules' = rules \cup {call[th].ip}
        /\ Return(th, TRUE)
        /\ UNCHANGED <<records, alerts>>
     \/ Refused(th)

BlockDeny(th) == At(th, "block_deny") /\ Deny(th, "block_lookup")

BlockLookup(th) ==
  /\ At(th, "block_lookup")
  /\ IF Recorded(th) THEN Fetch(th, "block_remark") ELSE Goto(th, "block_create")
  /\ UNCHANGED <<rules, records, alerts>>

BlockRemark(th) == At(th, "block_remark") /\ Mark(th, TRUE)

BlockCreate(th) == At(th, "block_create") /\ Create(th)

----------------------------------------------------------------------------
(* unblock_ip: without a record nothing is done and the firewall is not    *)
(* asked.                                                                  *)

UnblockLookup(th) ==
  /\ At(th, "unblock_lookup")
  /\ IF Recorded(th) THEN Fetch(th, "unblock_allow") ELSE Return(th, FALSE)
  /\ UNCHANGED <<rules, records, alerts>>

(* strategy.unblock                                                        *)
UnblockAllow(th) ==
  /\ At(th, "unblock_allow")
  /\ \/ /\ rules' = rules \ {call[th].ip}
        /\ Goto(th, "unblock_mark")
        /\ UNCHANGED <<records, alerts>>
     \/ Refused(th)

UnblockMark(th) == At(th, "unblock_mark") /\ Mark(th, FALSE)

BlockServiceStep(th) ==
  \/ EventLookup(th) \/ EventRemark(th) \/ EventDeny(th) \/ EventCreate(th)
  \/ BlockDeny(th) \/ BlockLookup(th) \/ BlockRemark(th) \/ BlockCreate(th)
  \/ UnblockLookup(th) \/ UnblockAllow(th) \/ UnblockMark(th)
=============================================================================
