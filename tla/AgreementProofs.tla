--------------------------- MODULE AgreementProofs ---------------------------
(***************************************************************************)
(* Proofs about the alerts table: that it agrees with the firewall and     *)
(* with blocked_ips once every call has ended, that the two requests of a  *)
(* /status see the same of it but for the address being handled (Views),   *)
(* and that it accounts for every attempt.  AlertCases says what each step *)
(* of Enforcement does to the rows.  The last part adds up a column of the *)
(* table: sums over finite sets are reasoned about through the smallest    *)
(* set for which a claim would fail (Smallest).                            *)
(***************************************************************************)
EXTENDS Views, EnforcementProofs, FiniteSetTheorems, WellFoundedInduction

(* What the steps of Enforcement do to the alerts, and with which call.    *)

Frame(th) == \A o \in Threads \ {th} : call'[o] = call[o]

SamePurpose(th) == call'[th].op = call[th].op /\ call'[th].ip = call[th].ip

(* A row is put under id; the flags of some rows are set or lifted.        *)
RowPut(id) ==
  /\ DOMAIN alerts' = DOMAIN alerts \cup {id}
  /\ \A i \in DOMAIN alerts \ {id} : alerts'[i] = alerts[i]

FlagsSet(ids, flag) ==
  /\ DOMAIN alerts' = DOMAIN alerts
  /\ \A i \in DOMAIN alerts :
       /\ alerts'[i].ip = alerts[i].ip /\ alerts'[i].attempts = alerts[i].attempts
       /\ i \in ids => (alerts'[i].blocked <=> flag)
       /\ i \notin ids => alerts'[i] = alerts[i]

(* A call begins; the worker selects a row, inserts one or saves one, and  *)
(* ends with its alert marked or not; a web thread marks the rows of its   *)
(* address or adds one; a call ends; calls break off.                      *)
Begun(th, op, label) ==
  /\ Moves(th, "idle", label) /\ call'[th].op = op
  /\ UNCHANGED <<rules, records, alerts>>

Selected ==
  /\ call[Worker].pc = "upsert_select" /\ SamePurpose(Worker)
  /\ UNCHANGED <<rules, records, alerts>>
  /\ \/ call'[Worker].pc = "upsert_insert"
     \/ /\ call'[Worker].pc = "upsert_save"
        /\ call'[Worker].alert \in RowsOf(call[Worker].ip)
        /\ call'[Worker].row = alerts[call'[Worker].alert]

Inserted ==
  /\ Moves(Worker, "upsert_insert", "event_lookup") /\ SamePurpose(Worker)
  /\ UNCHANGED <<rules, records>>
  /\ call'[Worker].alert \notin DOMAIN alerts /\ RowPut(call'[Worker].alert)
  /\ alerts'[call'[Worker].alert].ip = call[Worker].ip
  /\ alerts'[call'[Worker].alert].attempts = 1
  /\ ~alerts'[call'[Worker].alert].blocked

Saved ==
  /\ Moves(Worker, "upsert_save", "event_lookup") /\ SamePurpose(Worker)
  /\ call'[Worker].alert = call[Worker].alert
  /\ UNCHANGED <<rules, records>>
  /\ IF call[Worker].alert \notin DOMAIN alerts THEN UNCHANGED alerts
     ELSE /\ RowPut(call[Worker].alert)
          /\ alerts'[call[Worker].alert].ip = call[Worker].row.ip
          /\ alerts'[call[Worker].alert].attempts = call[Worker].row.attempts + 1
          /\ alerts'[call[Worker].alert].blocked <=> call[Worker].row.blocked

Concluded ==
  /\ Moves(Worker, "returned", "notify") /\ SameCall(Worker)
  /\ UNCHANGED <<rules, records>>
  /\ \/ call[Worker].ok /\ FlagsSet({call[Worker].alert}, TRUE)
     \/ ~call[Worker].ok /\ UNCHANGED alerts

Marks(th) ==
  /\ call[th].pc = "returned" /\ SameCall(th) /\ UNCHANGED <<rules, records>>
  /\ \/ /\ call[th].op = "block" /\ FlagsSet(RowsOf(call[th].ip), TRUE)
        /\ call'[th].pc = IF RowsOf(call[th].ip) = {} THEN "mark_insert" ELSE "answer"
     \/ /\ call[th].op = "unblock" /\ FlagsSet(RowsOf(call[th].ip), FALSE)
        /\ call'[th].pc = "answer"

Adds(th) ==
  /\ Moves(th, "mark_insert", "answer") /\ SameCall(th) /\ UNCHANGED <<rules, records>>
  /\ \E id : /\ id \notin DOMAIN alerts /\ RowPut(id)
             /\ alerts'[id].ip = call[th].ip /\ alerts'[id].attempts = 0
             /\ alerts'[id].blocked

Ended(th, label) ==
  /\ call[th].pc = label /\ call'[th] = Idle /\ UNCHANGED <<rules, records, alerts>>

BrokenOff ==
  /\ BreaksOff /\ UNCHANGED <<rules, records, alerts>>
  /\ \A th \in Threads : call'[th] = call[th] \/ call'[th] = Idle

WorkerAct ==
  /\ Frame(Worker)
  /\ \/ Begun(Worker, "breach", "upsert_select") /\ breaches' = breaches + 1
     \/ /\ UNCHANGED breaches
        /\ Selected \/ Inserted \/ Saved \/ Concluded \/ Ended(Worker, "notify")

WebAct(th) ==
  /\ Frame(th) /\ UNCHANGED breaches
  /\ \/ Begun(th, "block", "block_deny")
     \/ "unblock" \in WebOps /\ Begun(th, "unblock", "unblock_lookup")
     \/ Marks(th) \/ Adds(th) \/ Ended(th, "answer")

\* Putting a row and setting flags, row by row.
LEMMA PutRowEffect ==
  ASSUME NEW id, NEW row, alerts' = PutRow(id, row)
  PROVE  RowPut(id) /\ alerts'[id] = row
BY DEF PutRow, RowPut

LEMMA MarkRowsEffect ==
  ASSUME AlertsInv, NEW ids, NEW flag \in BOOLEAN, alerts' = MarkRows(ids, flag)
  PROVE  FlagsSet(ids, flag)
<1>1. DOMAIN alerts' = DOMAIN alerts
  BY DEF MarkRows
<1>2. ASSUME NEW i \in DOMAIN alerts
      PROVE  /\ alerts'[i].ip = alerts[i].ip /\ alerts'[i].attempts = alerts[i].attempts
             /\ i \in ids => (alerts'[i].blocked <=> flag)
             /\ i \notin ids => alerts'[i] = alerts[i]
  <2>1. alerts[i] \in Row
    BY DEF AlertsInv
  <2> DEFINE row == [alerts[i] EXCEPT !.blocked = flag]
  <2>2. row.ip = alerts[i].ip /\ row.attempts = alerts[i].attempts /\ row.blocked = flag
    BY <2>1 DEF Row
  <2>3. alerts'[i] = IF i \in ids THEN row ELSE alerts[i]
    BY DEF MarkRows
  <2> HIDE DEF row
  <2>4. CASE i \in ids
    BY <2>2, <2>3, <2>4
  <2>5. CASE i \notin ids
    BY <2>3, <2>5
  <2> QED
    BY <2>4, <2>5
<1> QED
  BY <1>1, <1>2 DEF FlagsSet

\* upsert_breach selects a row, inserts one or saves one.
LEMMA PersistActs ==
  ASSUME TypeInv, PersistBreach
  PROVE  WorkerAct
<1> DEFINE w == call[Worker]
<1>1. /\ Worker \in Threads /\ call \in [Threads -> GoodCall] /\ w \in Call
      /\ w.pc = "upsert_save" => w.row \in Row
  BY DEF TypeInv, Threads, GoodCall
<1>2. CASE UpsertSelect(Worker)
  <2>1. w.pc = "upsert_select" /\ UNCHANGED <<rules, records, alerts, breaches>>
    BY <1>2 DEF UpsertSelect, At, PersistBreach
  <2>2. CASE Goto(Worker, "upsert_insert")
    <3>1. SameCall(Worker) /\ call'[Worker].pc = "upsert_insert" /\ Frame(Worker)
      BY <1>1, <2>1, <2>2, GotoEffect DEF Goto, Labels, Frame
    <3> QED
      BY <2>1, <3>1 DEF WorkerAct, Selected, SameCall, SamePurpose
  <2>3. ASSUME NEW id \in RowsOf(w.ip),
               call' = [call EXCEPT ![Worker].pc = "upsert_save",
                                    ![Worker].alert = id, ![Worker].row = alerts[id]]
        PROVE  WorkerAct
    <3> DEFINE row == alerts[id]
               c == [w EXCEPT !.pc = "upsert_save", !.alert = id, !.row = row]
    <3>1. call' = [call EXCEPT ![Worker] = c]
      BY <2>3
    <3> HIDE DEF row
    <3>2. c.op = w.op /\ c.ip = w.ip /\ c.pc = "upsert_save" /\ c.alert = id /\ c.row = row
      BY <1>1 DEF Call
    <3> HIDE DEF c
    <3>3. call'[Worker] = c /\ Frame(Worker)
      BY <1>1, <3>1 DEF Frame
    <3>4. Selected
      BY <2>1, <2>3, <3>2, <3>3 DEF Selected, SamePurpose, row
    <3> QED
      BY <2>1, <3>3, <3>4 DEF WorkerAct
  <2> QED
    BY <1>2, <2>2, <2>3 DEF UpsertSelect
<1>3. CASE UpsertInsert(Worker, "event_lookup")
  <2> DEFINE id == NextId(DOMAIN alerts)
             row == [ip |-> w.ip, attempts |-> 1, blocked |-> FALSE]
             c == [w EXCEPT !.pc = "event_lookup", !.alert = id]
  <2>1. /\ w.pc = "upsert_insert" /\ UNCHANGED <<rules, records, breaches>>
        /\ alerts' = PutRow(id, row)
        /\ call' = [call EXCEPT ![Worker] = c]
    BY <1>3 DEF UpsertInsert, At, PersistBreach
  <2>2. id \notin DOMAIN alerts
    <3>1. \A i \in DOMAIN alerts : i < id /\ i \in Nat
      BY NextIdIsNew DEF TypeInv, AlertsInv
    <3> HIDE DEF id
    <3> QED
      BY <3>1
  <2>3. row.ip = w.ip /\ row.attempts = 1 /\ ~row.blocked
    OBVIOUS
  <2> HIDE DEF id, row
  <2>4. c.op = w.op /\ c.ip = w.ip /\ c.pc = "event_lookup" /\ c.alert = id
    BY <1>1 DEF Call
  <2> HIDE DEF c
  <2>5. call'[Worker] = c /\ Frame(Worker)
    BY <1>1, <2>1 DEF Frame
  <2>6. RowPut(id) /\ alerts'[id] = row
    BY <2>1, PutRowEffect
  <2>7. Inserted
    BY <2>1, <2>2, <2>3, <2>4, <2>5, <2>6 DEF Inserted, Moves, SamePurpose
  <2> QED
    BY <2>1, <2>5, <2>7 DEF WorkerAct
<1>4. CASE UpsertSave(Worker, "event_lookup")
  <2> DEFINE row == [w.row EXCEPT !.attempts = @ + 1]
             c == [w EXCEPT !.pc = "event_lookup", !.row = NoRow]
  <2>1. /\ w.pc = "upsert_save" /\ UNCHANGED <<rules, records, breaches>>
        /\ alerts' = IF w.alert \in DOMAIN alerts THEN PutRow(w.alert, row) ELSE alerts
        /\ call' = [call EXCEPT ![Worker] = c]
    BY <1>4 DEF UpsertSave, At, PersistBreach
  <2>2. row.ip = w.row.ip /\ row.attempts = w.row.attempts + 1 /\ row.blocked = w.row.blocked
    BY <1>1, <2>1 DEF Row
  <2> HIDE DEF row
  <2>3. c.op = w.op /\ c.ip = w.ip /\ c.pc = "event_lookup" /\ c.alert = w.alert
    BY <1>1 DEF Call
  <2> HIDE DEF c
  <2>4. call'[Worker] = c /\ Frame(Worker)
    BY <1>1, <2>1 DEF Frame
  <2>5. w.alert \in DOMAIN alerts => RowPut(w.alert) /\ alerts'[w.alert] = row
    BY <2>1, PutRowEffect
  <2>6. Saved
    BY <2>1, <2>2, <2>3, <2>4, <2>5 DEF Saved, Moves, SamePurpose
  <2> QED
    BY <2>1, <2>4, <2>6 DEF WorkerAct
<1> QED
  BY <1>2, <1>3, <1>4 DEF PersistBreach

\* The worker concludes with its alert marked, or not.
LEMMA ConcludedActs ==
  ASSUME TypeInv, OnBlocked \/ OnNotBlocked
  PROVE  WorkerAct
<1>1. /\ Worker \in Threads /\ call \in [Threads -> GoodCall] /\ AlertsInv
      /\ call[Worker].pc = "returned" /\ Goto(Worker, "notify")
      /\ UNCHANGED <<rules, records, breaches>>
  BY DEF TypeInv, Threads, OnBlocked, OnNotBlocked, At, MarkBlocked
<1>2. Moves(Worker, "returned", "notify") /\ SameCall(Worker) /\ Frame(Worker)
  BY <1>1, GotoEffect DEF Goto, Labels, Frame, Moves
<1>3. \/ call[Worker].ok /\ alerts' = MarkRows({call[Worker].alert}, TRUE)
      \/ ~call[Worker].ok /\ UNCHANGED alerts
  BY DEF OnBlocked, OnNotBlocked, MarkBlocked
<1>4. \/ call[Worker].ok /\ FlagsSet({call[Worker].alert}, TRUE)
      \/ ~call[Worker].ok /\ UNCHANGED alerts
  BY <1>1, <1>3, MarkRowsEffect
<1> QED
  BY <1>1, <1>2, <1>4 DEF WorkerAct, Concluded

\* A web thread marks the rows of its address, or adds one.
LEMMA MarksActs ==
  ASSUME TypeInv, NEW th \in WebThreads, ApiMark(th)
  PROVE  WebAct(th)
<1> DEFINE w == call[th]
<1>1. /\ th \in Threads /\ call \in [Threads -> GoodCall] /\ AlertsInv
      /\ UNCHANGED <<rules, records, breaches>>
  BY DEF TypeInv, Threads, ApiMark, MarkIpBlocked, MarkIpInsert, MarkIpUnblocked
<1>2. CASE /\ At(th, "returned") /\ w.op = "block" /\ MarkIpBlocked(th, "answer")
  <2> DEFINE next == IF RowsOf(w.ip) = {} THEN "mark_insert" ELSE "answer"
  <2>1. /\ w.pc = "returned" /\ next \in Labels \ {"upsert_save"} /\ Goto(th, next)
        /\ alerts' = MarkRows(RowsOf(w.ip), TRUE)
    BY <1>2 DEF At, MarkIpBlocked, Labels
  <2> HIDE DEF next
  <2>2. SameCall(th) /\ call'[th].pc = next /\ Frame(th)
    BY <1>1, <2>1, GotoEffect DEF Goto, Frame
  <2>3. FlagsSet(RowsOf(w.ip), TRUE)
    BY <1>1, <2>1, MarkRowsEffect
  <2> QED
    BY <1>1, <1>2, <2>1, <2>2, <2>3 DEF WebAct, Marks, next
<1>3. CASE At(th, "returned") /\ w.op = "unblock" /\ MarkIpUnblocked(th, "answer")
  <2>1. w.pc = "returned" /\ Goto(th, "answer") /\ alerts' = MarkRows(RowsOf(w.ip), FALSE)
    BY <1>3 DEF At, MarkIpUnblocked
  <2>2. SameCall(th) /\ call'[th].pc = "answer" /\ Frame(th)
    BY <1>1, <2>1, GotoEffect DEF Goto, Frame, Labels
  <2>3. FlagsSet(RowsOf(w.ip), FALSE)
    BY <1>1, <2>1, MarkRowsEffect
  <2> QED
    BY <1>1, <1>3, <2>1, <2>2, <2>3 DEF WebAct, Marks
<1>4. CASE MarkIpInsert(th, "answer")
  <2> DEFINE id == NextId(DOMAIN alerts)
             row == [ip |-> w.ip, attempts |-> 0, blocked |-> TRUE]
  <2>1. w.pc = "mark_insert" /\ Goto(th, "answer") /\ alerts' = PutRow(id, row)
    BY <1>4 DEF At, MarkIpInsert
  <2>2. SameCall(th) /\ call'[th].pc = "answer" /\ Frame(th)
    BY <1>1, <2>1, GotoEffect DEF Goto, Frame, Labels
  <2>3. \A i \in DOMAIN alerts : i < id /\ i \in Nat
    BY <1>1, NextIdIsNew DEF AlertsInv
  <2>4. row.ip = w.ip /\ row.attempts = 0 /\ row.blocked
    OBVIOUS
  <2> HIDE DEF id, row
  <2>5. id \notin DOMAIN alerts
    BY <2>3
  <2>6. RowPut(id) /\ alerts'[id] = row
    BY <2>1, PutRowEffect
  <2>7. Adds(th)
    BY <1>1, <2>1, <2>2, <2>4, <2>5, <2>6 DEF Adds, Moves
  <2> QED
    BY <1>1, <2>2, <2>7 DEF WebAct
<1> QED
  BY <1>2, <1>3, <1>4 DEF ApiMark

\* Every step of Enforcement is one of the service, of the kinds above or the deletion.
LEMMA AlertCases ==
  ASSUME TypeInv, [Next]_vars
  PROVE  \/ \E th \in Threads : ServiceStep(th)
         \/ WorkerAct
         \/ \E th \in WebThreads : WebAct(th)
         \/ BrokenOff
         \/ AdminDeletes /\ DeleteAll
         \/ UNCHANGED vars
<1>0. /\ Worker \in Threads /\ WebThreads \subseteq Threads
      /\ call \in [Threads -> GoodCall]
  BY DEF TypeInv, Threads
<1>1. ASSUME NEW ip \in IPs, Breach(ip) PROVE WorkerAct
  <2>1. Begin(Worker, "breach", ip, "upsert_select") /\ breaches' = breaches + 1
    BY <1>1 DEF Breach
  <2>2. /\ Framed(Worker) /\ call[Worker].pc = "idle" /\ UNCHANGED <<rules, records, alerts>>
        /\ call'[Worker].op = "breach" /\ call'[Worker].pc = "upsert_select"
    BY <1>0, <2>1, BeginKeepsCalls DEF Labels
  <2> QED
    BY <2>1, <2>2 DEF Framed, Frame, WorkerAct, Begun, Moves
<1>2. ASSUME NEW th \in WebThreads, NEW ip \in IPs, ApiBlock(th, ip) PROVE WebAct(th)
  <2>1. Begin(th, "block", ip, "block_deny") /\ UNCHANGED breaches
    BY <1>2 DEF ApiBlock
  <2>2. /\ Framed(th) /\ call[th].pc = "idle" /\ UNCHANGED <<rules, records, alerts>>
        /\ call'[th].op = "block" /\ call'[th].pc = "block_deny"
    BY <1>0, <2>1, BeginKeepsCalls DEF Labels
  <2> QED
    BY <2>1, <2>2 DEF Framed, Frame, WebAct, Begun, Moves
<1>3. ASSUME NEW th \in WebThreads, NEW ip \in IPs, ApiUnblock(th, ip) PROVE WebAct(th)
  <2>1. Begin(th, "unblock", ip, "unblock_lookup") /\ UNCHANGED breaches /\ "unblock" \in WebOps
    BY <1>3 DEF ApiUnblock
  <2>2. /\ Framed(th) /\ call[th].pc = "idle" /\ UNCHANGED <<rules, records, alerts>>
        /\ call'[th].op = "unblock" /\ call'[th].pc = "unblock_lookup"
    BY <1>0, <2>1, BeginKeepsCalls DEF Labels
  <2> QED
    BY <2>1, <2>2 DEF Framed, Frame, WebAct, Begun, Moves
<1>4. ASSUME NEW th \in Threads, Finish(th) PROVE call'[th] = Idle /\ Frame(th)
  BY <1>0, <1>4, FinishKeepsCalls DEF Frame
<1>5. CASE Notify
  BY <1>0, <1>4, <1>5 DEF Notify, At, WorkerAct, Ended
<1>6. ASSUME NEW th \in WebThreads, ApiAnswer(th) PROVE WebAct(th)
  BY <1>0, <1>4, <1>6 DEF ApiAnswer, At, WebAct, Ended
<1>7. ASSUME NEW th \in Threads, Raise(th) PROVE BrokenOff
  BY <1>4, <1>7 DEF Raise, BrokenOff, BreaksOff, Frame
<1>8. CASE WorkerCrash
  BY <1>0, <1>4, <1>8 DEF WorkerCrash, BrokenOff, BreaksOff, Frame
<1>9. CASE WebCrash
  BY <1>0, <1>9 DEF WebCrash, BrokenOff, BreaksOff
<1>10. CASE DeleteAll
  BY <1>10 DEF DeleteAll
<1> QED
  BY <1>0, <1>1, <1>2, <1>3, <1>5, <1>6, <1>7, <1>8, <1>9, <1>10, PersistActs, ConcludedActs,
     MarksActs DEF Next, WorkerStep, WebStep

----------------------------------------------------------------------------
(* QuiescentAgreement.  Which labels a thread can be at when nobody        *)
(* unblocks; the alert the worker's call is about; and, for what the       *)
(* tables owe one another while calls are under way, who is about to pay.  *)
Handler == call[Worker]

WithAlert == {"event_lookup", "event_remark", "event_deny", "event_create", "returned"}

Roles ==
  /\ Handler.pc \in WithAlert \cup {"idle", "upsert_select", "upsert_insert", "upsert_save", "notify"}
  /\ Handler.pc # "idle" => Handler.op = "breach"
  /\ \A th \in WebThreads :
       /\ call[th].pc \in {"idle", "block_deny", "block_lookup", "block_remark",
                           "block_create", "returned", "mark_insert", "answer"}
       /\ call[th].pc # "idle" => call[th].op = "block"

Owned ==
  /\ Handler.pc \in WithAlert \cup {"upsert_save"} =>
       Handler.alert \in DOMAIN alerts /\ alerts[Handler.alert].ip = Handler.ip
  /\ Handler.pc = "upsert_save" => Handler.row.ip = Handler.ip

Succeeding == \A th \in Threads : call[th].pc = "returned" => call[th].ok

Standing == \A ip \in DOMAIN records : records[ip].is_blocked

(* A web request for ip is at one of the labels.                           *)
Marking(ip, labels) == \E th \in WebThreads : call[th].ip = ip /\ call[th].pc \in labels

(* A row not marked yet is the worker's, which will mark it, or of an      *)
(* address whose request is about to mark its rows.                        *)
EveryRow ==
  \A id \in DOMAIN alerts :
    \/ alerts[id].blocked
    \/ Handler.alert = id /\ Handler.pc \in WithAlert
    \/ Marking(alerts[id].ip, {"returned"})

(* A web request has created the record the worker missed: the worker is   *)
(* going to die of it, but the request marks its alert.                    *)
Overtaken ==
  Handler.pc \in {"event_deny", "event_create"} /\ Handler.ip \in DOMAIN records =>
    alerts[Handler.alert].blocked \/ Marking(Handler.ip, {"returned"})

(* An address on record has an alert, or a request is about to insert it.  *)
EveryRecord ==
  \A ip \in DOMAIN records : RowsOf(ip) # {} \/ Marking(ip, {"returned", "mark_insert"})

Agreeing ==
  Roles /\ Owned /\ Succeeding /\ Standing /\ EveryRow /\ Overtaken /\ EveryRecord

\* Without unblocking, failures and deletion the steps are of three kinds.
LEMMA SoundCases ==
  ASSUME AdminDeletes = FALSE, Faults = {}, TypeInv, [Next]_vars
  PROVE  \/ \E th \in Threads : ServiceStep(th)
         \/ WorkerAct
         \/ \E th \in WebThreads : WebAct(th)
         \/ UNCHANGED vars
<1>1. ~BrokenOff
  BY DEF BrokenOff, BreaksOff
<1> QED
  BY <1>1, AlertCases

\* Where a call that has ended is.
LEMMA IdleAt == Idle.pc = "idle" /\ Idle.op = "none"
BY DEF Idle

\* A step of the service in such a system: it ends with a success, or on a record that exists.
LEMMA SoundService ==
  ASSUME Faults = {}, TypeInv, Enforced, Roles, NEW th \in Threads, ServiceStep(th)
  PROVE  /\ Found(th) \/ Missing(th) \/ Marked(th) \/ Denied(th) \/ Collided(th) \/ Created(th)
         /\ call[th].pc \in {"event_lookup", "event_remark", "event_deny", "event_create",
                             "block_deny", "block_lookup", "block_remark", "block_create"}
         /\ th = Worker <=> call[th].pc \in {"event_lookup", "event_remark", "event_deny",
                                             "event_create"}
         /\ Results(th) /\ Frame(th) /\ UNCHANGED <<alerts, breaches, blocks>>
<1>1. /\ Effect(th) /\ Results(th) /\ Frame(th) /\ UNCHANGED <<alerts, breaches, blocks>>
      /\ ~WasRefused(th)
  BY ServiceEffect, ServiceResults DEF Frame, WasRefused
<1>2. /\ call[th].pc \notin {"unblock_lookup", "unblock_allow", "unblock_mark"}
      /\ call[th].pc \in {"event_lookup", "event_remark", "event_deny", "event_create",
                          "block_deny", "block_lookup", "block_remark", "block_create",
                          "unblock_lookup", "unblock_allow", "unblock_mark"}
  BY <1>1 DEF Enforced, Effect, Found, Missing, Marked, Denied, Collided, Created, Lifted, Moves
<1>3. Found(th) \/ Missing(th) \/ Marked(th) \/ Denied(th) \/ Collided(th) \/ Created(th)
  BY <1>1, <1>2 DEF Effect, Lifted, Moves
<1>4. th = Worker \/ th \in WebThreads
  BY DEF Threads
<1>5. th = Worker <=> call[th].pc \in {"event_lookup", "event_remark", "event_deny",
                                       "event_create"}
  BY <1>2, <1>4, SharedStateAssumption DEF Roles, Handler, WithAlert
<1> QED
  BY <1>1, <1>2, <1>3, <1>5

\* Where the threads are.
LEMMA NextKeepsRoles ==
  ASSUME "unblock" \notin WebOps, AdminDeletes = FALSE, Faults = {},
         TypeInv, Enforced, Roles, [Next]_vars
  PROVE  Roles'
<1>0. /\ Worker \in Threads /\ WebThreads \subseteq Threads /\ Worker \notin WebThreads
  BY SharedStateAssumption DEF Threads
<1>1. ASSUME NEW th \in Threads, ServiceStep(th) PROVE Roles'
  <2>1. /\ Found(th) \/ Missing(th) \/ Marked(th) \/ Denied(th) \/ Collided(th) \/ Created(th)
        /\ th = Worker <=> call[th].pc \in {"event_lookup", "event_remark", "event_deny",
                                            "event_create"}
        /\ Frame(th) /\ call[th].pc # "unblock_lookup"
    BY <1>1, SoundService
  <2>2. \/ call'[th] = Idle
        \/ /\ call'[th].op = call[th].op /\ call[th].pc # "idle"
           /\ th = Worker => call'[th].pc \in WithAlert
           /\ th # Worker => call'[th].pc \in {"block_lookup", "block_remark",
                                               "block_create", "returned"}
    BY <2>1, Zenon DEF Found, Missing, Marked, Denied, Collided, Created, Moves, SameCall, WithAlert
  <2> QED
    BY <1>0, <2>1, <2>2 DEF Roles, Handler, Frame, Idle, Threads
<1>2. CASE WorkerAct
  <2>1. /\ \A th \in WebThreads : call'[th] = call[th]
        /\ \/ call'[Worker] = Idle
           \/ /\ call'[Worker].pc \in WithAlert \cup {"upsert_select", "upsert_insert",
                                                      "upsert_save", "notify"}
              /\ call'[Worker].op = "breach"
    BY <1>0, <1>2 DEF WorkerAct, Frame, Begun, Selected, Inserted, Saved, Concluded, Ended,
                      Moves, SamePurpose, SameCall, Roles, Handler, WithAlert
  <2> QED
    BY <2>1 DEF Roles, Handler, Idle, WithAlert
<1>3. ASSUME NEW th \in WebThreads, WebAct(th) PROVE Roles'
  <2>1. /\ \A o \in Threads \ {th} : call'[o] = call[o]
        /\ \/ call'[th] = Idle
           \/ /\ call'[th].pc \in {"block_deny", "mark_insert", "answer"}
              /\ call'[th].op = "block"
    BY <1>3 DEF WebAct, Frame, Begun, Marks, Adds, Ended, Moves, SameCall, Roles
  <2> QED
    BY <1>0, <1>3, <2>1 DEF Roles, Handler, Idle
<1>4. CASE UNCHANGED vars
  BY <1>4 DEF vars, Roles, Handler
<1> QED
  BY <1>1, <1>2, <1>3, <1>4, SoundCases

\* What happens to the rows: none goes, none changes its address.
RowsStay ==
  /\ DOMAIN alerts \subseteq DOMAIN alerts'
  /\ \A id \in DOMAIN alerts : alerts'[id].ip = alerts[id].ip

\* A row keeps its address: save() writes back the one it has read.
LEMMA NextKeepsRows ==
  ASSUME "unblock" \notin WebOps, AdminDeletes = FALSE, Faults = {},
         TypeInv, Enforced, Roles, Owned, [Next]_vars
  PROVE  RowsStay
<1>1. ASSUME NEW th \in Threads, ServiceStep(th) PROVE RowsStay
  BY <1>1, ServiceEffect DEF RowsStay
<1>2. ASSUME UNCHANGED alerts PROVE RowsStay
  BY <1>2 DEF RowsStay
<1>3. ASSUME NEW ids, NEW flag \in BOOLEAN, FlagsSet(ids, flag) PROVE RowsStay
  BY <1>3 DEF FlagsSet, RowsStay
<1>4. ASSUME NEW id, RowPut(id), id \in DOMAIN alerts => alerts'[id].ip = alerts[id].ip
      PROVE  RowsStay
  BY <1>4 DEF RowPut, RowsStay
<1>5. CASE WorkerAct
  BY <1>2, <1>3, <1>4, <1>5 DEF WorkerAct, Begun, Selected, Inserted, Saved, Concluded, Ended,
                                Moves, Owned, Handler
<1>6. ASSUME NEW th \in WebThreads, WebAct(th) PROVE RowsStay
  BY <1>2, <1>3, <1>4, <1>6 DEF WebAct, Begun, Marks, Adds, Ended
<1>7. CASE UNCHANGED vars
  BY <1>2, <1>7 DEF vars
<1> QED
  BY <1>1, <1>5, <1>6, <1>7, SoundCases

\* The worker's alert is of its address.
LEMMA NextKeepsOwned ==
  ASSUME "unblock" \notin WebOps, AdminDeletes = FALSE, Faults = {},
         TypeInv, Enforced, Roles, Owned, [Next]_vars
  PROVE  Owned'
<1>0. Worker \in Threads /\ Worker \notin WebThreads /\ RowsStay
  BY SharedStateAssumption, NextKeepsRows DEF Threads
<1>1. ASSUME call'[Worker].pc \in WithAlert \cup {"upsert_save"} => SameCall(Worker),
             call'[Worker].pc \in WithAlert => call[Worker].pc \in WithAlert,
             call'[Worker].pc = "upsert_save" => call[Worker].pc = "upsert_save"
      PROVE  Owned'
  BY <1>0, <1>1 DEF Owned, Handler, SameCall, RowsStay
<1>2. ASSUME call'[Worker] = call[Worker] PROVE Owned'
  BY <1>1, <1>2 DEF SameCall
<1>3. ASSUME NEW th \in Threads, ServiceStep(th) PROVE Owned'
  <2>1. CASE th = Worker
    <3>1. call'[Worker] = Idle \/ (SameCall(Worker) /\ call[Worker].pc \in WithAlert
                                     /\ call'[Worker].pc # "upsert_save")
      BY <1>3, <2>1, SoundService DEF Found, Missing, Marked, Denied, Collided, Created, Moves,
                                      WithAlert
    <3> QED
      BY <1>1, <3>1 DEF Idle, WithAlert
  <2>2. CASE th # Worker
    BY <1>0, <1>2, <1>3, <2>2, SoundService DEF Frame
  <2> QED
    BY <2>1, <2>2
<1>4. CASE WorkerAct
  <2>1. CASE Begun(Worker, "breach", "upsert_select") \/ Concluded \/ Ended(Worker, "notify")
    <3>1. call'[Worker].pc \notin WithAlert \cup {"upsert_save"}
      BY <2>1, IdleAt DEF Begun, Concluded, Ended, Moves, WithAlert
    <3> QED
      BY <1>1, <3>1
  <2>2. CASE Selected
    <3>1. CASE call'[Worker].pc = "upsert_insert"
      BY <1>1, <3>1 DEF WithAlert
    <3>2. CASE call'[Worker].pc = "upsert_save"
      BY <2>2, <3>2 DEF Selected, SamePurpose, RowsOf, Owned, Handler, WithAlert
    <3> QED
      BY <2>2, <3>1, <3>2 DEF Selected
  <2>3. CASE Inserted
    BY <2>3 DEF Inserted, Moves, SamePurpose, RowPut, Owned, Handler, WithAlert
  <2>4. CASE Saved
    <3>1. /\ call[Worker].pc = "upsert_save" /\ call'[Worker].pc = "event_lookup"
          /\ call'[Worker].ip = call[Worker].ip /\ call'[Worker].alert = call[Worker].alert
      BY <2>4 DEF Saved, Moves, SamePurpose
    <3>2. /\ call[Worker].alert \in DOMAIN alerts
          /\ alerts[call[Worker].alert].ip = call[Worker].ip
      BY <3>1 DEF Owned, Handler
    <3> QED
      BY <1>0, <3>1, <3>2 DEF RowsStay, Owned, Handler
  <2> QED
    BY <1>4, <2>1, <2>2, <2>3, <2>4 DEF WorkerAct
<1>5. ASSUME NEW th \in WebThreads, WebAct(th) PROVE Owned'
  BY <1>0, <1>2, <1>5 DEF WebAct, Frame
<1>6. CASE UNCHANGED vars
  BY <1>2, <1>6 DEF vars
<1> QED
  BY <1>3, <1>4, <1>5, <1>6, SoundCases

\* Every call that returns has succeeded, and every record says blocked.
LEMMA NextKeepsSucceeding ==
  ASSUME "unblock" \notin WebOps, AdminDeletes = FALSE, Faults = {},
         TypeInv, Enforced, Known, Roles, Succeeding, Standing, [Next]_vars
  PROVE  Succeeding' /\ Standing'
<1>0. Worker \in Threads /\ Worker \notin WebThreads /\ WebThreads \subseteq Threads
  BY SharedStateAssumption DEF Threads
<1>1. ASSUME NEW th \in Threads, Frame(th), UNCHANGED records, call'[th].pc # "returned"
      PROVE  Succeeding' /\ Standing'
  BY <1>1 DEF Frame, Succeeding, Standing
<1>2. ASSUME NEW th \in Threads, ServiceStep(th) PROVE Succeeding' /\ Standing'
  <2>1. /\ Found(th) \/ Missing(th) \/ Marked(th) \/ Denied(th) \/ Collided(th) \/ Created(th)
        /\ call[th].pc # "unblock_lookup" /\ call[th].pc # "unblock_mark"
        /\ Results(th) /\ Frame(th)
    BY <1>2, SoundService
  <2>2. CASE call'[th].pc = "returned"
    <3>1. /\ call[th].pc \in {"event_remark", "block_remark", "event_create", "block_create"}
          /\ call[th].pc \in {"event_create", "block_create"} => ~Recorded(th)
      BY <2>1, <2>2 DEF Found, Missing, Marked, Denied, Collided, Created, Moves, Idle
    <3>2. call'[th].ok
      BY <2>1, <3>1 DEF Results, Known
    <3>3. records' = MarkRecord(call[th].rec, TRUE) \/ records' = InsertRecord(call[th].ip)
      BY <2>1, <3>1 DEF Results
    <3>4. CASE records' = MarkRecord(call[th].rec, TRUE)
      <4>1. DOMAIN records' = DOMAIN records
        BY <3>4 DEF MarkRecord
      <4>2. ASSUME NEW ip \in DOMAIN records PROVE records'[ip].is_blocked
        <5>1. records[ip] \in Record /\ records[ip].is_blocked
          BY DEF TypeInv, RecordsInv, Standing
        <5>2. [records[ip] EXCEPT !.is_blocked = TRUE].is_blocked
          BY <5>1 DEF Record
        <5> QED
          BY <3>4, <5>1, <5>2 DEF MarkRecord
      <4> QED
        BY <2>1, <3>2, <4>1, <4>2 DEF Succeeding, Standing, Frame
    <3>5. CASE records' = InsertRecord(call[th].ip)
      <4> DEFINE row == [id |-> NextId(RecordIds), is_blocked |-> TRUE]
      <4>1. row.is_blocked
        OBVIOUS
      <4>2. \A ip \in DOMAIN records' :
              records'[ip] = IF ip = call[th].ip THEN row ELSE records[ip]
        BY <3>5 DEF InsertRecord
      <4>3. DOMAIN records' = DOMAIN records \cup {call[th].ip}
        BY <3>5 DEF InsertRecord
      <4> HIDE DEF row
      <4> QED
        BY <2>1, <3>2, <4>1, <4>2, <4>3 DEF Succeeding, Standing, Frame
    <3> QED
      BY <3>3, <3>4, <3>5
  <2>3. CASE call'[th].pc # "returned"
    <3>1. UNCHANGED records
      BY <2>1, <2>3 DEF Found, Missing, Marked, Denied, Collided, Created, Moves
    <3> QED
      BY <1>1, <2>1, <2>3, <3>1
  <2> QED
    BY <2>2, <2>3
<1>3. CASE WorkerAct
  <2>1. Frame(Worker) /\ UNCHANGED records /\ call'[Worker].pc # "returned"
    BY <1>3, IdleAt DEF WorkerAct, Begun, Selected, Inserted, Saved, Concluded, Ended, Moves
  <2> QED
    BY <1>0, <1>1, <2>1
<1>4. ASSUME NEW th \in WebThreads, WebAct(th) PROVE Succeeding' /\ Standing'
  <2>1. Frame(th) /\ UNCHANGED records /\ call'[th].pc # "returned"
    BY <1>4, IdleAt DEF WebAct, Begun, Marks, Adds, Ended, Moves
  <2> QED
    BY <1>0, <1>1, <2>1
<1>5. CASE UNCHANGED vars
  BY <1>5 DEF vars, Succeeding, Standing
<1> QED
  BY <1>2, <1>3, <1>4, <1>5, SoundCases

\* A request about to mark rows is moved by nobody else.
LEMMA MarkingStays ==
  ASSUME NEW ip, NEW labels, NEW th \in Threads, Frame(th), Marking(ip, labels),
         th \in WebThreads => call[th].pc \notin labels
  PROVE  Marking(ip, labels)'
<1>1. PICK o \in WebThreads : call[o].ip = ip /\ call[o].pc \in labels
  BY DEF Marking
<1>2. o # th /\ o \in Threads
  BY <1>1 DEF Threads
<1>3. call'[o] = call[o]
  BY <1>2 DEF Frame
<1> QED
  BY <1>1, <1>3 DEF Marking

\* The requests about to mark rows while the service takes a step.
LEMMA ServiceKeepsMarking ==
  ASSUME Faults = {}, TypeInv, Enforced, Roles, NEW th \in Threads, ServiceStep(th),
         NEW ip, NEW labels \in {{"returned"}, {"returned", "mark_insert"}}
  PROVE  Marking(ip, labels) => Marking(ip, labels)'
<1>1. Frame(th) /\ call[th].pc \notin labels
  BY SoundService
<1> QED
  BY <1>1, MarkingStays

\* Each row is marked, or somebody is about to mark it.
LEMMA NextKeepsEveryRow ==
  ASSUME "unblock" \notin WebOps, AdminDeletes = FALSE, Faults = {},
         TypeInv, Enforced, Agreeing, [Next]_vars
  PROVE  EveryRow'
<1>0. /\ Worker \in Threads /\ Worker \notin WebThreads /\ WebThreads \subseteq Threads
      /\ Roles /\ Owned /\ Succeeding /\ EveryRow /\ Overtaken /\ RowsStay
  BY SharedStateAssumption, NextKeepsRows DEF Threads, Agreeing
<1>1. ASSUME NEW th \in Threads, ServiceStep(th) PROVE EveryRow'
  <2>1. /\ Frame(th) /\ UNCHANGED alerts
        /\ \A ip : Marking(ip, {"returned"}) => Marking(ip, {"returned"})'
    BY <1>0, <1>1, SoundService, ServiceKeepsMarking
  <2>2. CASE th # Worker
    BY <1>0, <2>1, <2>2 DEF EveryRow, Handler, Frame
  <2>3. CASE th = Worker
    <3>1. \/ SameCall(Worker) /\ call'[Worker].pc \in WithAlert
          \/ Collided(Worker) /\ Handler.pc = "event_create" /\ Recorded(Worker)
      <4>1. \/ Found(th) \/ Missing(th) \/ Marked(th) \/ Denied(th) \/ Collided(th) \/ Created(th)
        BY <1>0, <1>1, SoundService
      <4>2. call[th].pc \in {"event_lookup", "event_remark", "event_deny", "event_create"}
        BY <1>0, <1>1, <2>3, SoundService
      <4> QED
        BY <2>3, <4>1, <4>2
           DEF Found, Missing, Marked, Denied, Collided, Created, Moves, WithAlert, Handler
    <3>2. CASE SameCall(Worker) /\ call'[Worker].pc \in WithAlert
      BY <1>0, <2>1, <3>2 DEF EveryRow, Handler, SameCall
    <3>3. CASE Handler.pc = "event_create" /\ Recorded(Worker)
      <4>1. /\ alerts[Handler.alert].ip = Handler.ip
            /\ alerts[Handler.alert].blocked \/ Marking(Handler.ip, {"returned"})
        BY <1>0, <3>3 DEF Owned, Overtaken, Recorded, Handler, WithAlert
      <4>2. \A id \in DOMAIN alerts : alerts[id].blocked \/ Marking(alerts[id].ip, {"returned"})
        BY <1>0, <4>1 DEF EveryRow
      <4> QED
        BY <2>1, <4>2 DEF EveryRow
    <3> QED
      BY <3>1, <3>2, <3>3
  <2> QED
    BY <2>2, <2>3
<1>2. CASE WorkerAct
  <2>1. \A ip : Marking(ip, {"returned"}) => Marking(ip, {"returned"})'
    BY <1>0, <1>2, MarkingStays DEF WorkerAct
  <2>2. ASSUME UNCHANGED alerts, Handler.pc \notin WithAlert PROVE EveryRow'
    BY <1>0, <2>1, <2>2 DEF EveryRow
  <2>3. CASE Begun(Worker, "breach", "upsert_select") \/ Selected \/ Ended(Worker, "notify")
    BY <2>2, <2>3 DEF Begun, Selected, Ended, Moves, Handler, WithAlert
  <2>4. ASSUME NEW id, RowPut(id), Handler.pc \notin WithAlert,
               call'[Worker].alert = id, call'[Worker].pc = "event_lookup"
        PROVE  EveryRow'
    <3>1. \A i \in DOMAIN alerts' \ {id} : i \in DOMAIN alerts /\ alerts'[i] = alerts[i]
      BY <2>4 DEF RowPut
    <3>2. \A i \in DOMAIN alerts \ {id} :
            alerts[i].blocked \/ Marking(alerts[i].ip, {"returned"})
      BY <1>0, <2>4 DEF EveryRow
    <3> QED
      BY <2>1, <2>4, <3>1, <3>2 DEF EveryRow, Handler, WithAlert
  <2>5. CASE Inserted
    BY <2>4, <2>5 DEF Inserted, Moves, Handler, WithAlert
  <2>6. CASE Saved
    <3>1. call[Worker].alert \in DOMAIN alerts
      BY <1>0, <2>6 DEF Saved, Moves, Owned, Handler
    <3> QED
      BY <2>4, <2>6, <3>1 DEF Saved, Moves, Handler, WithAlert
  <2>7. CASE Concluded
    <3>1. FlagsSet({Handler.alert}, TRUE)
      BY <1>0, <2>7 DEF Concluded, Moves, Succeeding, Handler
    <3> QED
      BY <1>0, <2>1, <2>7, <3>1 DEF FlagsSet, EveryRow, Concluded, SameCall, Handler
  <2> QED
    BY <1>2, <2>3, <2>5, <2>6, <2>7 DEF WorkerAct
<1>3. ASSUME NEW th \in WebThreads, WebAct(th) PROVE EveryRow'
  <2>1. Frame(th) /\ Handler' = Handler
    BY <1>0, <1>3 DEF WebAct, Frame, Handler
  <2>2. ASSUME call[th].pc # "returned"
        PROVE  \A ip : Marking(ip, {"returned"}) => Marking(ip, {"returned"})'
    BY <1>0, <2>1, <2>2, MarkingStays
  <2>3. CASE \/ Begun(th, "block", "block_deny") \/ Begun(th, "unblock", "unblock_lookup")
             \/ Ended(th, "answer")
    BY <1>0, <2>1, <2>2, <2>3 DEF Begun, Ended, Moves, EveryRow
  <2>4. CASE Adds(th)
    BY <1>0, <2>1, <2>2, <2>4 DEF Adds, Moves, RowPut, EveryRow
  <2>5. CASE Marks(th)
    <3>1. FlagsSet(RowsOf(call[th].ip), TRUE)
      BY <1>0, <2>5 DEF Marks, Roles
    <3>2. ASSUME NEW ip, ip # call[th].ip, Marking(ip, {"returned"})
          PROVE  Marking(ip, {"returned"})'
      <4>1. PICK o \in WebThreads : call[o].ip = ip /\ call[o].pc \in {"returned"}
        BY <3>2 DEF Marking
      <4>2. o # th /\ o \in Threads
        BY <1>0, <3>2, <4>1
      <4>3. call'[o] = call[o]
        BY <2>1, <4>2 DEF Frame
      <4> QED
        BY <4>1, <4>3 DEF Marking
    <3> QED
      BY <1>0, <2>1, <3>1, <3>2 DEF FlagsSet, RowsOf, EveryRow
  <2> QED
    BY <1>3, <2>3, <2>4, <2>5 DEF WebAct
<1>4. CASE UNCHANGED vars
  BY <1>0, <1>4 DEF vars, EveryRow, Handler, Marking
<1> QED
  BY <1>1, <1>2, <1>3, <1>4, SoundCases

\* A worker that is going to meet a record has its alert marked by who created the record.
LEMMA NextKeepsOvertaken ==
  ASSUME "unblock" \notin WebOps, AdminDeletes = FALSE, Faults = {},
         TypeInv, Enforced, Agreeing, [Next]_vars
  PROVE  Overtaken'
<1>0. /\ Worker \in Threads /\ Worker \notin WebThreads /\ WebThreads \subseteq Threads
      /\ Roles /\ Owned /\ Overtaken /\ RowsStay
  BY SharedStateAssumption, NextKeepsRows DEF Threads, Agreeing
<1>1. ASSUME NEW th \in Threads, ServiceStep(th) PROVE Overtaken'
  <2>1. /\ \/ Found(th) \/ Missing(th) \/ Marked(th) \/ Denied(th) \/ Collided(th) \/ Created(th)
        /\ Frame(th) /\ UNCHANGED alerts
        /\ \A ip : Marking(ip, {"returned"}) => Marking(ip, {"returned"})'
    BY <1>0, <1>1, SoundService, ServiceKeepsMarking
  <2>2. CASE th = Worker
    <3>1. CASE call'[Worker].pc = "event_deny"
      <4>1. ~Recorded(Worker) /\ SameCall(Worker) /\ UNCHANGED records
        BY <2>1, <2>2, <3>1, IdleAt DEF Found, Missing, Marked, Denied, Collided, Created, Moves
      <4> QED
        BY <4>1 DEF Overtaken, Handler, Recorded, SameCall
    <3>2. CASE call'[Worker].pc = "event_create"
      <4>1. call[Worker].pc = "event_deny" /\ SameCall(Worker) /\ UNCHANGED records
        BY <2>1, <2>2, <3>2, IdleAt DEF Found, Missing, Marked, Denied, Collided, Created, Moves
      <4> QED
        BY <1>0, <2>1, <4>1 DEF Overtaken, Handler, SameCall
    <3>3. CASE call'[Worker].pc \notin {"event_deny", "event_create"}
      BY <3>3 DEF Overtaken, Handler
    <3> QED
      BY <3>1, <3>2, <3>3
  <2>3. CASE th # Worker
    <3>1. Handler' = Handler /\ th \in WebThreads
      BY <1>0, <2>1, <2>3 DEF Frame, Handler, Threads
    <3>2. CASE Created(th)
      <4>1. /\ DOMAIN records' = DOMAIN records \cup {call[th].ip}
            /\ call'[th].pc = "returned" /\ call'[th].ip = call[th].ip
        BY <3>2 DEF Created, Moves, SameCall
      <4>2. Marking(call[th].ip, {"returned"})'
        BY <3>1, <4>1 DEF Marking
      <4> QED
        BY <1>0, <2>1, <3>1, <4>1, <4>2 DEF Overtaken
    <3>3. CASE ~Created(th)
      <4>1. DOMAIN records' = DOMAIN records
        BY <2>1, <3>3 DEF Found, Missing, Marked, Denied, Collided
      <4> QED
        BY <1>0, <2>1, <3>1, <4>1 DEF Overtaken
    <3> QED
      BY <3>2, <3>3
  <2> QED
    BY <2>2, <2>3
<1>2. CASE WorkerAct
  <2>1. call'[Worker].pc \notin {"event_deny", "event_create"}
    BY <1>2, IdleAt DEF WorkerAct, Begun, Selected, Inserted, Saved, Concluded, Ended, Moves
  <2> QED
    BY <2>1 DEF Overtaken, Handler
<1>3. ASSUME NEW th \in WebThreads, WebAct(th) PROVE Overtaken'
  <2>1. Frame(th) /\ Handler' = Handler /\ UNCHANGED records
    BY <1>0, <1>3 DEF WebAct, Frame, Handler, Begun, Marks, Adds, Ended
  <2>2. CASE Marks(th)
    <3>1. FlagsSet(RowsOf(call[th].ip), TRUE)
      BY <1>0, <2>2 DEF Marks, Roles
    <3>2. CASE call[th].ip = Handler.ip
      BY <1>0, <2>1, <3>1, <3>2 DEF FlagsSet, RowsOf, Overtaken, Owned, WithAlert
    <3>3. CASE call[th].ip # Handler.ip
      <4>1. ASSUME Marking(Handler.ip, {"returned"}) PROVE Marking(Handler.ip, {"returned"})'
        <5>1. PICK o \in WebThreads : call[o].ip = Handler.ip /\ call[o].pc \in {"returned"}
          BY <4>1 DEF Marking
        <5>2. o # th /\ o \in Threads
          BY <1>0, <3>3, <5>1
        <5>3. call'[o] = call[o]
          BY <2>1, <5>2 DEF Frame
        <5> QED
          BY <2>1, <5>1, <5>3 DEF Marking
      <4>2. \A i \in DOMAIN alerts : alerts[i].blocked => alerts'[i].blocked
        BY <3>1 DEF FlagsSet
      <4> QED
        BY <1>0, <2>1, <4>1, <4>2 DEF Overtaken, Owned, WithAlert
    <3> QED
      BY <3>2, <3>3
  <2>3. CASE ~Marks(th)
    <3>1. /\ call[th].pc # "returned"
          /\ \A i \in DOMAIN alerts : alerts'[i] = alerts[i]
      BY <1>3, <2>3 DEF WebAct, Begun, Adds, Ended, Moves, RowPut
    <3>2. Marking(Handler.ip, {"returned"}) => Marking(Handler.ip, {"returned"})'
      BY <1>0, <2>1, <3>1, MarkingStays
    <3> QED
      BY <1>0, <2>1, <3>1, <3>2 DEF Overtaken, Owned, WithAlert
  <2> QED
    BY <2>2, <2>3
<1>4. CASE UNCHANGED vars
  BY <1>0, <1>4 DEF vars, Overtaken, Handler, Marking
<1> QED
  BY <1>1, <1>2, <1>3, <1>4, SoundCases

\* An address on record has an alert, or is about to have one.
LEMMA NextKeepsEveryRecord ==
  ASSUME "unblock" \notin WebOps, AdminDeletes = FALSE, Faults = {},
         TypeInv, Enforced, Agreeing, [Next]_vars
  PROVE  EveryRecord'
<1> DEFINE due == {"returned", "mark_insert"}
<1>0. /\ Worker \in Threads /\ Worker \notin WebThreads /\ WebThreads \subseteq Threads
      /\ Roles /\ Owned /\ EveryRecord /\ RowsStay
  BY SharedStateAssumption, NextKeepsRows DEF Threads, Agreeing
<1>1. \A ip : RowsOf(ip) # {} => RowsOf(ip)' # {}
  BY <1>0 DEF RowsStay, RowsOf
<1>2. ASSUME NEW th \in Threads, ServiceStep(th) PROVE EveryRecord'
  <2>1. /\ \/ Found(th) \/ Missing(th) \/ Marked(th) \/ Denied(th) \/ Collided(th) \/ Created(th)
        /\ Frame(th) /\ UNCHANGED alerts
        /\ \A ip : Marking(ip, due) => Marking(ip, due)'
        /\ th = Worker => call[th].pc \in WithAlert
    BY <1>0, <1>2, SoundService, ServiceKeepsMarking DEF WithAlert
  <2>2. CASE Created(th)
    <3>1. /\ DOMAIN records' = DOMAIN records \cup {call[th].ip}
          /\ call'[th].pc = "returned" /\ call'[th].ip = call[th].ip
      BY <2>2 DEF Created, Moves, SameCall
    <3>2. CASE th = Worker
      <4>1. call[th].alert \in RowsOf(call[th].ip)
        BY <1>0, <2>1, <3>2 DEF Owned, Handler, RowsOf
      <4> QED
        BY <1>0, <1>1, <2>1, <3>1, <4>1 DEF EveryRecord
    <3>3. CASE th # Worker
      <4>1. Marking(call[th].ip, due)'
        BY <3>1, <3>3 DEF Marking, Threads
      <4> QED
        BY <1>0, <1>1, <2>1, <3>1, <4>1 DEF EveryRecord
    <3> QED
      BY <3>2, <3>3
  <2>3. CASE ~Created(th)
    <3>1. DOMAIN records' = DOMAIN records
      BY <2>1, <2>3 DEF Found, Missing, Marked, Denied, Collided
    <3> QED
      BY <1>0, <1>1, <2>1, <3>1 DEF EveryRecord
  <2> QED
    BY <2>2, <2>3
<1>3. CASE WorkerAct
  <2>1. UNCHANGED records
    BY <1>3 DEF WorkerAct, Begun, Selected, Inserted, Saved, Concluded, Ended
  <2>2. \A ip : Marking(ip, due) => Marking(ip, due)'
    BY <1>0, <1>3, MarkingStays DEF WorkerAct
  <2> QED
    BY <1>0, <1>1, <2>1, <2>2 DEF EveryRecord
<1>4. ASSUME NEW th \in WebThreads, WebAct(th) PROVE EveryRecord'
  <2>1. Frame(th) /\ UNCHANGED records
    BY <1>4 DEF WebAct, Begun, Marks, Adds, Ended
  <2>2. ASSUME NEW ip, Marking(ip, due), ~Marking(ip, due)' PROVE RowsOf(ip)' # {}
    <3>1. PICK o \in WebThreads : call[o].ip = ip /\ call[o].pc \in due
      BY <2>2 DEF Marking
    <3>2. o = th /\ ~(call'[th].ip = ip /\ call'[th].pc \in due)
      BY <1>0, <2>1, <2>2, <3>1 DEF Marking, Frame
    <3>3. CASE Marks(th)
      <4>1. RowsOf(ip) # {}
        BY <1>0, <3>1, <3>2, <3>3 DEF Marks, SameCall, Roles
      <4> QED
        BY <1>1, <4>1
    <3>4. CASE Adds(th)
      BY <3>1, <3>2, <3>4 DEF Adds, RowPut, RowsOf
    <3>5. Marks(th) \/ Adds(th)
      BY <1>4, <3>1, <3>2 DEF WebAct, Begun, Ended, Moves
    <3> QED
      BY <3>3, <3>4, <3>5
  <2> QED
    BY <1>0, <1>1, <2>1, <2>2 DEF EveryRecord
<1>5. CASE UNCHANGED vars
  BY <1>0, <1>5 DEF vars, EveryRecord, RowsOf, Marking
<1> QED
  BY <1>2, <1>3, <1>4, <1>5, SoundCases

\* Together they are inductive.
LEMMA NextKeepsAgreeing ==
  ASSUME "unblock" \notin WebOps, AdminDeletes = FALSE, Faults = {}
  PROVE  TypeInv /\ Enforced /\ Known /\ Agreeing /\ [Next]_vars => Agreeing'
<1> SUFFICES ASSUME TypeInv, Enforced, Known, Agreeing, [Next]_vars PROVE Agreeing'
  OBVIOUS
<1>1. Roles' /\ Owned' /\ Succeeding' /\ Standing'
  BY NextKeepsRoles, NextKeepsOwned, NextKeepsSucceeding DEF Agreeing
<1>2. EveryRow' /\ Overtaken' /\ EveryRecord'
  BY NextKeepsEveryRow, NextKeepsOvertaken, NextKeepsEveryRecord
<1> QED
  BY <1>1, <1>2 DEF Agreeing

\* Nothing is owed before the first call.
LEMMA InitAgrees == Init => Agreeing
<1> SUFFICES ASSUME Init PROVE Agreeing
  OBVIOUS
<1>1. /\ \A th \in Threads : call[th].pc = "idle"
      /\ Worker \in Threads /\ WebThreads \subseteq Threads
      /\ DOMAIN records = {} /\ DOMAIN alerts = {}
  BY IdleAt DEF Init, Threads
<1> QED
  BY <1>1 DEF Agreeing, Roles, Owned, Succeeding, Standing, EveryRow, Overtaken, EveryRecord,
              Handler, WithAlert

\* When every call has ended nobody owes anybody anything.
LEMMA NothingOwed == Enforced /\ Undoable /\ Flagged /\ Agreeing => QuiescentAgreement
<1> SUFFICES ASSUME Enforced, Undoable, Flagged, Agreeing, AllIdle, NEW ip \in IPs
             PROVE  /\ ip \in rules <=> ip \in DOMAIN records /\ records[ip].is_blocked
                    /\ ip \in rules <=> \E id \in RowsOf(ip) : alerts[id].blocked
                    /\ \A id \in RowsOf(ip) : alerts[id].blocked = (ip \in rules)
  BY DEF QuiescentAgreement
<1>1. \A th \in Threads : call[th].pc = "idle"
  BY DEF AllIdle, At
<1>2. ip \in rules <=> ip \in DOMAIN records /\ records[ip].is_blocked
  BY <1>1 DEF Enforced, Undoable, BetweenRuleAndRecord, Agreeing, Standing
<1>3. \A id \in RowsOf(ip) : alerts[id].blocked /\ ip \in rules
  <2>1. \A id \in DOMAIN alerts : alerts[id].blocked
    BY <1>1 DEF Agreeing, EveryRow, Handler, WithAlert, Marking, Threads
  <2> QED
    BY <2>1 DEF RowsOf, Flagged, FlagsAreEnforced
<1>4. ip \in DOMAIN records => RowsOf(ip) # {}
  BY <1>1 DEF Agreeing, EveryRecord, Marking, Threads
<1> QED
  BY <1>2, <1>3, <1>4

(* Whatever the interleaving of block requests and of the handler of       *)
(* breaches, once they have ended the firewall, blocked_ips and the alerts *)
(* of every address agree, as long as nobody unblocks, nothing fails and   *)
(* the tables are not deleted: each of the two callers marks the alerts    *)
(* itself, and the one that finds a record marks what the other left.      *)
THEOREM QuiescentTablesAgree ==
  ASSUME "unblock" \notin WebOps, AdminDeletes = FALSE, Faults = {}
  PROVE  Spec => []QuiescentAgreement
<1>1. Init => Enforced /\ Known /\ Undoable /\ Flagged /\ Agreeing
  <2>1. Init => Enforced /\ Known /\ Undoable /\ Flagged
    BY DEF Init, Enforced, Known, Undoable, Flagged, FlagsAreEnforced, Threads, Idle, PastRule,
           BeforeAlert
  <2> QED
    BY <2>1, InitAgrees
<1>2. "refuse" \notin Faults /\ "raise" \notin Faults /\ "crash" \notin Faults
  OBVIOUS
<1>3. TypeInv /\ Enforced /\ Known /\ Undoable /\ Flagged /\ Agreeing /\ [Next]_vars =>
        Enforced' /\ Known' /\ Undoable' /\ Flagged' /\ Agreeing'
  BY <1>2, NextKeepsEnforced, NextKeepsKnown, NextKeepsUndoable, NextKeepsFlagged,
     NextKeepsAgreeing
<1> QED
  BY <1>1, <1>3, NothingOwed, TypeInvariant, PTL DEF Spec

\* A /status changes none of what Enforcement is about.
LEMMA ViewsOnlyLook == VSpec => Spec
<1>1. VInit => Init
  BY DEF VInit
<1>2. [VNext]_<<vars, status>> => [Next]_vars
  BY DEF VNext
<1> QED
  BY <1>1, <1>2, PTL DEF VSpec, Spec

\* So the tables agree under the eyes of /status too.
THEOREM QuiescentTablesAgreeWithViews ==
  ASSUME "unblock" \notin WebOps, AdminDeletes = FALSE, Faults = {}
  PROVE  VSpec => []QuiescentAgreement
BY ViewsOnlyLook, QuiescentTablesAgree, PTL

----------------------------------------------------------------------------
(* StatusMissesOnlyBreaches.  Whoever marks an alert, or is about to write *)
(* back a marked one, is of an address on record; and an alert that a      *)
(* /status has been shown as blocked is of such an address, so the only    *)
(* flag that can be lifted from it is lifted by a save of the worker,      *)
(* which finds the record and goes on to mark the alert again.             *)
OnRecord ==
  /\ \A id \in DOMAIN alerts : alerts[id].blocked => alerts[id].ip \in DOMAIN records
  /\ Handler.pc = "upsert_save" /\ Handler.row.blocked => Handler.ip \in DOMAIN records
  /\ \A th \in Threads :
       call[th].pc \in {"event_remark", "block_remark", "returned", "mark_insert"} =>
         Recorded(th)

Asked ==
  status.pc = "asked" =>
    \A id \in status.blocked :
      /\ id \in DOMAIN alerts /\ alerts[id].ip \in DOMAIN records
      /\ \/ alerts[id].blocked
         \/ Handler.alert = id /\ Handler.pc \in {"event_lookup", "event_remark", "returned"}

StatusType ==
  /\ status \in [pc : {"none", "asked", "answered"}, listed : SUBSET Nat,
                 blocked : SUBSET Nat, shown : SUBSET Nat]
  /\ IsFiniteSet(DOMAIN alerts)

\* Alerts are marked for addresses on record only.
LEMMA NextKeepsOnRecord ==
  ASSUME "unblock" \notin WebOps, AdminDeletes = FALSE, Faults = {},
         TypeInv, Enforced, Roles, Owned, OnRecord, [Next]_vars
  PROVE  OnRecord' /\ DOMAIN records \subseteq DOMAIN records'
<1>0. /\ Worker \in Threads /\ Worker \notin WebThreads /\ WebThreads \subseteq Threads
  BY SharedStateAssumption DEF Threads
<1>1. ASSUME NEW th \in Threads, ServiceStep(th)
      PROVE  OnRecord' /\ DOMAIN records \subseteq DOMAIN records'
  <2>1. /\ Found(th) \/ Missing(th) \/ Marked(th) \/ Denied(th) \/ Collided(th) \/ Created(th)
        /\ Frame(th) /\ UNCHANGED alerts /\ call[th].pc # "unblock_lookup"
        /\ call[th].pc # "unblock_mark"
    BY <1>0, <1>1, SoundService
  <2>2. DOMAIN records \subseteq DOMAIN records'
    BY <2>1 DEF Found, Missing, Marked, Denied, Collided, Created
  <2>3. call'[th].pc \notin {"upsert_save", "mark_insert"}
    BY <2>1, IdleAt DEF Found, Missing, Marked, Denied, Collided, Created, Moves
  <2>4. call'[th].pc \in {"event_remark", "block_remark", "returned"} =>
          call'[th].ip \in DOMAIN records'
    BY <2>1, IdleAt DEF Found, Missing, Marked, Denied, Collided, Created, Moves, SameCall,
                        Recorded, OnRecord
  <2>5. \A o \in Threads \ {th} : call'[o] = call[o]
    BY <2>1 DEF Frame
  <2> QED
    BY <1>0, <2>1, <2>2, <2>3, <2>4, <2>5 DEF OnRecord, Recorded, Handler
<1>2. ASSUME NEW th \in Threads, Frame(th), UNCHANGED records,
             \A id \in DOMAIN alerts' : alerts'[id].blocked => alerts'[id].ip \in DOMAIN records,
             th = Worker => (call'[Worker].pc = "upsert_save" /\ call'[Worker].row.blocked =>
                               call'[Worker].ip \in DOMAIN records),
             call'[th].pc \in {"event_remark", "block_remark", "returned", "mark_insert"} =>
               call'[th].ip \in DOMAIN records
      PROVE  OnRecord' /\ DOMAIN records \subseteq DOMAIN records'
  BY <1>0, <1>2 DEF Frame, OnRecord, Recorded, Handler
<1>3. ASSUME NEW ids, FlagsSet(ids, TRUE),
             \A id \in ids \cap DOMAIN alerts : alerts[id].ip \in DOMAIN records
      PROVE  \A id \in DOMAIN alerts' : alerts'[id].blocked => alerts'[id].ip \in DOMAIN records
  BY <1>3 DEF FlagsSet, OnRecord
<1>4. ASSUME NEW id, RowPut(id), alerts'[id].blocked => alerts'[id].ip \in DOMAIN records
      PROVE  \A i \in DOMAIN alerts' : alerts'[i].blocked => alerts'[i].ip \in DOMAIN records
  BY <1>4 DEF RowPut, OnRecord
<1>5. CASE WorkerAct
  <2>1. Frame(Worker)
    BY <1>5 DEF WorkerAct
  <2>2. CASE Begun(Worker, "breach", "upsert_select") \/ Ended(Worker, "notify")
    <3>1. /\ call'[Worker].pc \in {"upsert_select", "idle"} /\ UNCHANGED <<records, alerts>>
      BY <2>2, IdleAt DEF Begun, Ended, Moves
    <3> QED
      BY <1>0, <1>2, <2>1, <3>1 DEF OnRecord
  <2>3. CASE Selected
    <3>1. /\ call'[Worker].pc \in {"upsert_insert", "upsert_save"} /\ UNCHANGED <<records, alerts>>
          /\ call'[Worker].pc = "upsert_save" /\ call'[Worker].row.blocked =>
               call'[Worker].ip \in DOMAIN records
      BY <2>3 DEF Selected, SamePurpose, RowsOf, OnRecord
    <3> QED
      BY <1>0, <1>2, <2>1, <3>1 DEF OnRecord
  <2>4. CASE Inserted
    <3>1. \A i \in DOMAIN alerts' : alerts'[i].blocked => alerts'[i].ip \in DOMAIN records
      BY <1>4, <2>4 DEF Inserted
    <3> QED
      BY <1>0, <1>2, <2>1, <2>4, <3>1 DEF Inserted, Moves
  <2>5. CASE Saved
    <3>1. \A i \in DOMAIN alerts' : alerts'[i].blocked => alerts'[i].ip \in DOMAIN records
      <4>1. /\ call[Worker].alert \in DOMAIN alerts /\ call[Worker].row.ip = call[Worker].ip
            /\ call[Worker].row.blocked => call[Worker].ip \in DOMAIN records
        BY <2>5 DEF Saved, Moves, Owned, OnRecord, Handler
      <4> QED
        BY <1>4, <2>5, <4>1 DEF Saved
    <3> QED
      BY <1>0, <1>2, <2>1, <2>5, <3>1 DEF Saved, Moves
  <2>6. CASE Concluded
    <3>1. \A i \in DOMAIN alerts' : alerts'[i].blocked => alerts'[i].ip \in DOMAIN records
      <4>1. call[Worker].alert \in DOMAIN alerts /\ alerts[call[Worker].alert].ip \in DOMAIN records
        BY <1>0, <2>6 DEF Concluded, Moves, Owned, OnRecord, Recorded, Handler, WithAlert
      <4>2. FlagsSet({call[Worker].alert}, TRUE) \/ UNCHANGED alerts
        BY <2>6 DEF Concluded
      <4> QED
        BY <1>3, <4>1, <4>2 DEF OnRecord
    <3> QED
      BY <1>0, <1>2, <2>1, <2>6, <3>1 DEF Concluded, Moves
  <2> QED
    BY <1>5, <2>2, <2>3, <2>4, <2>5, <2>6 DEF WorkerAct
<1>6. ASSUME NEW th \in WebThreads, WebAct(th)
      PROVE  OnRecord' /\ DOMAIN records \subseteq DOMAIN records'
  <2>1. Frame(th) /\ th \in Threads /\ th # Worker
    BY <1>0, <1>6 DEF WebAct
  <2>2. CASE Begun(th, "block", "block_deny") \/ Ended(th, "answer")
    <3>1. /\ call'[th].pc \in {"block_deny", "idle"} /\ UNCHANGED <<records, alerts>>
      BY <2>2, IdleAt DEF Begun, Ended, Moves
    <3> QED
      BY <1>2, <2>1, <3>1 DEF OnRecord
  <2>3. CASE Marks(th) \/ Adds(th)
    <3>1. /\ call[th].ip \in DOMAIN records /\ call'[th].ip = call[th].ip /\ UNCHANGED records
      BY <2>1, <2>3 DEF Marks, Adds, Moves, SameCall, OnRecord, Recorded
    <3>2. \A i \in DOMAIN alerts' : alerts'[i].blocked => alerts'[i].ip \in DOMAIN records
      <4>1. CASE Marks(th)
        <5>1. FlagsSet(RowsOf(call[th].ip), TRUE)
          BY <1>6, <4>1 DEF Marks, Roles
        <5> QED
          BY <1>3, <3>1, <5>1 DEF RowsOf
      <4>2. CASE Adds(th)
        BY <1>4, <3>1, <4>2 DEF Adds
      <4> QED
        BY <2>3, <4>1, <4>2
    <3> QED
      BY <1>2, <2>1, <3>1, <3>2
  <2> QED
    BY <1>6, <2>2, <2>3 DEF WebAct
<1>7. CASE UNCHANGED vars
  BY <1>7 DEF vars, OnRecord, Recorded, Handler
<1> QED
  BY <1>1, <1>5, <1>6, <1>7, SoundCases

\* What a /status has been shown stays on record.
LEMMA NextKeepsAsked ==
  ASSUME "unblock" \notin WebOps, AdminDeletes = FALSE, Faults = {},
         TypeInv, Enforced, Roles, Succeeding, Owned, OnRecord, Asked, [Next]_vars, UNCHANGED status
  PROVE  Asked'
<1>0. /\ Worker \in Threads /\ Worker \notin WebThreads /\ WebThreads \subseteq Threads
      /\ RowsStay /\ DOMAIN records \subseteq DOMAIN records'
  BY SharedStateAssumption, NextKeepsRows, NextKeepsOnRecord DEF Threads
<1> DEFINE again == {"event_lookup", "event_remark", "returned"}
<1> SUFFICES ASSUME status.pc = "asked", NEW id \in status.blocked
             PROVE  \/ alerts'[id].blocked
                    \/ call'[Worker].alert = id /\ call'[Worker].pc \in again
  BY <1>0 DEF Asked, RowsStay, Handler
<1>1. /\ id \in DOMAIN alerts /\ alerts[id].ip \in DOMAIN records
      /\ alerts[id].blocked \/ (call[Worker].alert = id /\ call[Worker].pc \in again)
  BY DEF Asked, Handler
<1>2. ASSUME NEW th \in Threads, ServiceStep(th)
      PROVE  \/ alerts'[id].blocked
             \/ call'[Worker].alert = id /\ call'[Worker].pc \in again
  <2>1. /\ Found(th) \/ Missing(th) \/ Marked(th) \/ Denied(th) \/ Collided(th) \/ Created(th)
        /\ Frame(th) /\ UNCHANGED alerts
    BY <1>0, <1>2, SoundService
  <2>2. CASE alerts[id].blocked
    BY <2>1, <2>2
  <2>3. CASE th # Worker
    BY <1>0, <1>1, <2>1, <2>3 DEF Frame
  <2>4. CASE th = Worker /\ call[Worker].alert = id /\ call[Worker].pc \in again
    <3>1. Recorded(Worker)
      BY <1>1, <2>4 DEF Owned, Handler, WithAlert, Recorded
    <3>2. SameCall(Worker) /\ call'[Worker].pc \in again
      BY <2>1, <2>4, <3>1 DEF Found, Missing, Marked, Denied, Collided, Created, Moves
    <3> QED
      BY <2>4, <3>2 DEF SameCall
  <2> QED
    BY <1>1, <2>2, <2>3, <2>4
<1>3. CASE WorkerAct
  <2>1. CASE Begun(Worker, "breach", "upsert_select") \/ Selected \/ Ended(Worker, "notify")
    BY <1>1, <2>1 DEF Begun, Selected, Ended, Moves
  <2>2. CASE Inserted
    BY <1>1, <2>2 DEF Inserted, Moves, RowPut
  <2>3. CASE Saved
    BY <1>1, <2>3 DEF Saved, Moves, RowPut
  <2>4. CASE Concluded
    <3>1. FlagsSet({call[Worker].alert}, TRUE)
      BY <1>0, <2>4 DEF Concluded, Moves, Succeeding
    <3> QED
      BY <1>1, <3>1 DEF FlagsSet
  <2> QED
    BY <1>3, <2>1, <2>2, <2>3, <2>4 DEF WorkerAct
<1>4. ASSUME NEW th \in WebThreads, WebAct(th)
      PROVE  \/ alerts'[id].blocked
             \/ call'[Worker].alert = id /\ call'[Worker].pc \in again
  <2>1. call'[Worker] = call[Worker]
    BY <1>0, <1>4 DEF WebAct, Frame
  <2>2. alerts[id].blocked => alerts'[id].blocked
    <3>1. CASE Marks(th)
      BY <1>1, <1>4, <3>1 DEF Marks, Roles, FlagsSet
    <3>2. CASE ~Marks(th)
      BY <1>1, <1>4, <3>2 DEF WebAct, Begun, Adds, Ended, RowPut
    <3> QED
      BY <3>1, <3>2
  <2> QED
    BY <1>1, <2>1, <2>2
<1>5. CASE UNCHANGED vars
  BY <1>1, <1>5 DEF vars
<1> QED
  BY <1>2, <1>3, <1>4, <1>5, SoundCases

\* The alerts are finitely many; a /status holds ids.
LEMMA VNextKeepsStatusType ==
  ASSUME TypeInv, StatusType, [VNext]_<<vars, status>>
  PROVE  StatusType'
<1>0. IsFiniteSet(DOMAIN alerts) /\ DOMAIN alerts \subseteq Nat
  BY DEF StatusType, TypeInv, AlertsInv
<1>1. IsFiniteSet(DOMAIN alerts')
  <2>1. [Next]_vars
    BY DEF VNext
  <2>2. ASSUME NEW id, RowPut(id) PROVE IsFiniteSet(DOMAIN alerts')
    BY <1>0, <2>2, FS_AddElement DEF RowPut
  <2>3. ASSUME NEW ids, NEW flag, FlagsSet(ids, flag) PROVE IsFiniteSet(DOMAIN alerts')
    BY <1>0, <2>3 DEF FlagsSet
  <2>4. ASSUME UNCHANGED alerts PROVE IsFiniteSet(DOMAIN alerts')
    BY <1>0, <2>4
  <2>5. ASSUME NEW th \in Threads, ServiceStep(th) PROVE IsFiniteSet(DOMAIN alerts')
    BY <2>4, <2>5, ServiceEffect
  <2>6. ASSUME WorkerAct PROVE IsFiniteSet(DOMAIN alerts')
    BY <2>2, <2>3, <2>4, <2>6 DEF WorkerAct, Begun, Selected, Inserted, Saved, Concluded, Ended
  <2>7. ASSUME NEW th \in WebThreads, WebAct(th) PROVE IsFiniteSet(DOMAIN alerts')
    BY <2>2, <2>3, <2>4, <2>7 DEF WebAct, Begun, Marks, Adds, Ended
  <2>8. CASE DeleteAll
    <3>1. DOMAIN alerts' = {}
      BY <2>8 DEF DeleteAll
    <3> QED
      BY <3>1, FS_EmptySet
  <2>9. CASE BrokenOff \/ UNCHANGED vars
    BY <2>4, <2>9 DEF BrokenOff, vars
  <2> QED
    BY <2>1, <2>5, <2>6, <2>7, <2>8, <2>9, AlertCases
<1> DEFINE Statuses == [pc : {"none", "asked", "answered"}, listed : SUBSET Nat,
                        blocked : SUBSET Nat, shown : SUBSET Nat]
<1>2. status \in Statuses /\ NoStatus \in Statuses
  BY DEF StatusType, NoStatus
<1>3. \A limit : \A ids \in GetRecent(limit) : ids \subseteq Nat /\ BlockedAmong(ids) \subseteq Nat
  BY <1>0 DEF GetRecent, BlockedAmong
<1>4. status' \in Statuses
  <2>1. CASE StatusAlerts
    <3>1. PICK ids \in GetRecent(ListLimit) :
            status' = [NoStatus EXCEPT !.pc = "asked", !.listed = ids, !.blocked = BlockedAmong(ids)]
      BY <2>1 DEF StatusAlerts
    <3> QED
      BY <1>2, <1>3, <3>1
  <2>2. CASE StatusBlocked
    <3>1. PICK ids \in GetRecent(BlockedLimit) :
            status' = [status EXCEPT !.pc = "answered", !.shown = BlockedAmong(ids)]
      BY <2>2 DEF StatusBlocked
    <3> QED
      BY <1>2, <1>3, <3>1
  <2>3. CASE StatusReply \/ UNCHANGED status
    BY <1>2, <2>3 DEF StatusReply
  <2> QED
    BY <2>1, <2>2, <2>3 DEF VNext, StatusStep
<1> QED
  BY <1>1, <1>4 DEF StatusType

\* Where a /status is after each of its steps.
LEMMA StatusLabels ==
  ASSUME StatusType
  PROVE  /\ StatusAlerts => status'.pc = "asked"
         /\ StatusBlocked => status'.pc = "answered"
         /\ StatusReply => status'.pc = "none"
<1>1. ASSUME StatusAlerts PROVE status'.pc = "asked"
  <2>1. PICK ids \in GetRecent(ListLimit) :
          status' = [NoStatus EXCEPT !.pc = "asked", !.listed = ids, !.blocked = BlockedAmong(ids)]
    BY <1>1 DEF StatusAlerts
  <2> QED
    BY <2>1 DEF NoStatus
<1>2. ASSUME StatusBlocked PROVE status'.pc = "answered"
  <2>1. PICK ids \in GetRecent(BlockedLimit) :
          status' = [status EXCEPT !.pc = "answered", !.shown = BlockedAmong(ids)]
    BY <1>2 DEF StatusBlocked
  <2> QED
    BY <2>1 DEF StatusType
<1>3. ASSUME StatusReply PROVE status'.pc = "none"
  BY <1>3 DEF StatusReply, NoStatus
<1> QED
  BY <1>1, <1>2, <1>3

\* What the second request of a /status rests on.
LEMMA VNextKeepsAsked ==
  ASSUME "unblock" \notin WebOps, AdminDeletes = FALSE, Faults = {}
  PROVE  TypeInv /\ Enforced /\ Agreeing /\ StatusType /\ OnRecord /\ Asked
           /\ [VNext]_<<vars, status>> => OnRecord' /\ Asked'
<1> SUFFICES ASSUME TypeInv, Enforced, Agreeing, StatusType, OnRecord, Asked,
                    [VNext]_<<vars, status>>
             PROVE  OnRecord' /\ Asked'
  OBVIOUS
<1>1. [Next]_vars
  BY DEF VNext
<1>2. OnRecord'
  BY <1>1, NextKeepsOnRecord DEF Agreeing
<1>3. CASE UNCHANGED status
  BY <1>1, <1>2, <1>3, NextKeepsAsked DEF Agreeing
<1>4. CASE StatusAlerts /\ UNCHANGED vars
  <2>1. PICK ids \in GetRecent(ListLimit) :
          status' = [NoStatus EXCEPT !.pc = "asked", !.listed = ids, !.blocked = BlockedAmong(ids)]
    BY <1>4 DEF StatusAlerts
  <2>2. status'.blocked = BlockedAmong(ids) /\ ids \subseteq DOMAIN alerts
    BY <2>1 DEF NoStatus, GetRecent
  <2>3. \A id \in status'.blocked :
          id \in DOMAIN alerts /\ alerts[id].blocked /\ alerts[id].ip \in DOMAIN records
    BY <2>2 DEF BlockedAmong, OnRecord
  <2> QED
    BY <1>2, <1>4, <2>3 DEF Asked, vars
<1>5. CASE StatusBlocked \/ StatusReply
  <2>1. status'.pc # "asked"
    BY <1>5, StatusLabels
  <2> QED
    BY <1>2, <2>1 DEF Asked
<1> QED
  BY <1>2, <1>3, <1>4, <1>5 DEF VNext, StatusStep

\* The second request sees the whole table; what it does not show as blocked is being handled.
LEMMA SecondRequestSeesAll ==
  ASSUME TypeInv, Agreeing, StatusType, Asked, [VNext]_<<vars, status>>,
         status.pc = "asked", status'.pc = "answered",
         Cardinality(DOMAIN alerts) <= BlockedLimit,
         NEW id \in status'.blocked \ status'.shown
  PROVE  call[Worker].op = "breach" /\ call[Worker].ip = alerts[id].ip
<1>1. StatusBlocked
  BY StatusLabels DEF VNext, StatusStep, vars
<1>2. PICK ids \in GetRecent(BlockedLimit) :
        status' = [status EXCEPT !.pc = "answered", !.shown = BlockedAmong(ids)]
  BY <1>1 DEF StatusBlocked
<1>3. status'.blocked = status.blocked /\ status'.shown = BlockedAmong(ids)
  BY <1>2 DEF StatusType
<1>4. ids = DOMAIN alerts
  <2> DEFINE n == Cardinality(DOMAIN alerts)
  <2>1. IsFiniteSet(DOMAIN alerts) /\ n \in Nat
    BY FS_CardinalityType DEF StatusType
  <2>2. ids \in SUBSET DOMAIN alerts /\ Cardinality(ids) = Min({BlockedLimit, n})
    BY <1>2 DEF GetRecent
  <2>3. Min({BlockedLimit, n}) = n
    <3> HIDE DEF n
    <3>1. BlockedLimit \in Nat /\ n \in Nat /\ n <= BlockedLimit
      BY <2>1, ViewsAssumption DEF n
    <3> DEFINE IsLeast(x) == \A y \in {BlockedLimit, n} : x =< y
    <3>2. IsLeast(n) /\ n \in {BlockedLimit, n}
      BY <3>1
    <3>3. \A x \in {BlockedLimit, n} : IsLeast(x) => x = n
      BY <3>1
    <3>4. Min({BlockedLimit, n}) = CHOOSE x \in {BlockedLimit, n} : IsLeast(x)
      BY DEF Min
    <3> HIDE DEF IsLeast
    <3> QED
      BY <3>2, <3>3, <3>4
  <2> QED
    BY <2>1, <2>2, <2>3, FS_Subset
<1>5. id \in DOMAIN alerts /\ ~alerts[id].blocked
  BY <1>3, <1>4 DEF Asked, BlockedAmong
<1>6. call[Worker].alert = id /\ call[Worker].pc \in {"event_lookup", "event_remark", "returned"}
  BY <1>3, <1>5 DEF Asked, Handler
<1> QED
  BY <1>6 DEF Agreeing, Roles, Owned, Handler, WithAlert

(* As long as nobody unblocks, nothing fails and the tables are not        *)
(* deleted, /api/blocked leaves out an alert that /api/alerts has just     *)
(* shown as blocked only while the worker handles a breach of its address. *)
THEOREM StatusMissesBreachesOnly ==
  ASSUME "unblock" \notin WebOps, AdminDeletes = FALSE, Faults = {}
  PROVE  VSpec => StatusMissesOnlyBreaches
<1>1. VInit => Enforced /\ Known /\ Agreeing /\ StatusType /\ OnRecord /\ Asked
  <2> SUFFICES ASSUME VInit PROVE Enforced /\ Known /\ Agreeing /\ StatusType /\ OnRecord /\ Asked
    OBVIOUS
  <2>1. Init /\ status = NoStatus
    BY DEF VInit
  <2>2. Enforced /\ Known /\ Agreeing
    BY <2>1, InitAgrees DEF Init, Enforced, Known, Threads, Idle, PastRule
  <2>3. DOMAIN alerts = {} /\ \A th \in Threads : call[th].pc = "idle"
    BY <2>1, IdleAt DEF Init
  <2>4. StatusType
    BY <2>1, <2>3, FS_EmptySet DEF StatusType, NoStatus
  <2>5. OnRecord /\ Asked
    BY <2>1, <2>3 DEF OnRecord, Asked, Handler, NoStatus, Threads
  <2> QED
    BY <2>2, <2>4, <2>5
<1>2. [VNext]_<<vars, status>> => [Next]_vars
  BY DEF VNext
<1>3. TypeInv /\ Enforced /\ Known /\ Agreeing /\ StatusType /\ OnRecord /\ Asked
        /\ [VNext]_<<vars, status>> =>
        /\ Enforced' /\ Known' /\ Agreeing' /\ StatusType' /\ OnRecord' /\ Asked'
  BY <1>2, NextKeepsEnforced, NextKeepsKnown, NextKeepsAgreeing, VNextKeepsStatusType,
     VNextKeepsAsked
<1>4. TypeInv /\ Agreeing /\ StatusType /\ Asked /\ [VNext]_<<vars, status>> =>
        [status.pc = "asked" /\ status'.pc = "answered"
         /\ Cardinality(DOMAIN alerts) <= BlockedLimit =>
           \A id \in status'.blocked \ status'.shown :
             call[Worker].op = "breach" /\ call[Worker].ip = alerts[id].ip]_<<vars, status>>
  BY SecondRequestSeesAll
<1>5. VSpec => []TypeInv
  BY ViewsOnlyLook, TypeInvariant, PTL
<1> QED
  BY <1>1, <1>3, <1>4, <1>5, PTL DEF VSpec, StatusMissesOnlyBreaches

----------------------------------------------------------------------------
(* Sums.                                                                   *)

(* g maps every subset of S to the sum of f over it, as FiniteSetsExt adds *)
(* up: one chosen element and the sum over the rest.                       *)
Pick(s) == CHOOSE x \in s : TRUE
Rest(s) == s \ {Pick(s)}
SumFrom(f, g, s) == IF s = {} THEN 0 ELSE f[Pick(s)] + g[Rest(s)]
IntegerOn(f, S) == \A x \in S : f[x] \in Int
IsSum(f, S, g) == g = [s \in SUBSET S |-> SumFrom(f, g, s)]

\* A set of natural numbers has a least element.
LEMMA Least ==
  ASSUME NEW T \in SUBSET Nat, NEW n \in T
  PROVE  \E m \in T : \A k \in 0 .. m - 1 : k \notin T
<1>1. PICK m \in T : \A y \in T : <<y, m>> \notin OpToRel(<, Nat)
  BY NatLessThanWellFounded, WFMin
<1>2. \A k \in 0 .. m - 1 : k \in Nat /\ k < m /\ <<k, m>> \in Nat \X Nat
  OBVIOUS
<1>3. \A k \in 0 .. m - 1 : <<k, m>> \in OpToRel(<, Nat)
  BY <1>2 DEF OpToRel
<1> QED
  BY <1>1, <1>3

\* Of some subsets of a finite set, one has no other one below it.
LEMMA Smallest ==
  ASSUME NEW S, IsFiniteSet(S), NEW Bad \in SUBSET SUBSET S, Bad # {}
  PROVE  \E T \in Bad : \A x \in T : T \ {x} \notin Bad
<1> DEFINE Sizes == {Cardinality(T) : T \in Bad}
<1>1. \A T \in Bad : IsFiniteSet(T) /\ Cardinality(T) \in Nat
  BY FS_Subset, FS_CardinalityType
<1>2. Sizes \in SUBSET Nat /\ \E n : n \in Sizes
  BY <1>1
<1> HIDE DEF Sizes
<1>3. PICK m \in Sizes : \A k \in 0 .. m - 1 : k \notin Sizes
  BY <1>2, Least
<1>4. PICK T \in Bad : Cardinality(T) = m
  BY <1>3 DEF Sizes
<1>5. ASSUME NEW x \in T PROVE T \ {x} \notin Bad
  <2>1. Cardinality(T \ {x}) = m - 1 /\ m \in Nat
    BY <1>1, <1>4, FS_RemoveElement
  <2>2. Cardinality(T \ {x}) \in Nat
    BY <1>1, FS_RemoveElement, FS_CardinalityType
  <2>3. m - 1 \in 0 .. m - 1
    BY <2>1, <2>2
  <2>4. m - 1 \notin Sizes
    BY <1>3, <2>3
  <2> QED
    BY <2>1, <2>4 DEF Sizes
<1> QED
  BY <1>5

\* A set that is not empty has the element that is picked.
LEMMA Picked ==
  ASSUME NEW s, s # {}
  PROVE  Pick(s) \in s
BY DEF Pick

\* There is such a g.
LEMMA SumExists ==
  ASSUME NEW S, IsFiniteSet(S), NEW f, IntegerOn(f, S)
  PROVE  \E g : IsSum(f, S, g)
<1> DEFINE Upto(n, g) == \A s \in SUBSET S : Cardinality(s) <= n => g[s] = SumFrom(f, g, s)
           Bad == {n \in Nat : ~ \E g \in [SUBSET S -> Int] : Upto(n, g)}
<1>1. \A s \in SUBSET S : IsFiniteSet(s) /\ Cardinality(s) \in Nat
                          /\ Cardinality(s) <= Cardinality(S)
                          /\ (Cardinality(s) = 0 <=> s = {})
  BY FS_Subset, FS_CardinalityType, FS_EmptySet
<1>2. \A s \in SUBSET S : s # {} =>
        /\ Rest(s) \in SUBSET S /\ Cardinality(Rest(s)) = Cardinality(s) - 1
        /\ f[Pick(s)] \in Int
  BY <1>1, Picked, FS_RemoveElement DEF Rest, IntegerOn
<1>3. 0 \notin Bad
  <2> DEFINE g == [s \in SUBSET S |-> 0]
  <2>1. g \in [SUBSET S -> Int] /\ \A s \in SUBSET S : g[s] = 0
    OBVIOUS
  <2> HIDE DEF g
  <2>2. Upto(0, g)
    BY <1>1, <2>1 DEF SumFrom
  <2> QED
    BY <2>1, <2>2
<1>4. ASSUME NEW n \in Nat, NEW g \in [SUBSET S -> Int], Upto(n, g)
      PROVE  \E h \in [SUBSET S -> Int] : Upto(n + 1, h)
  <2> DEFINE h == [s \in SUBSET S |-> IF Cardinality(s) <= n THEN g[s] ELSE SumFrom(f, g, s)]
  <2>1. \A s \in SUBSET S : SumFrom(f, g, s) \in Int
    BY <1>2 DEF SumFrom
  <2>2. h \in [SUBSET S -> Int]
    BY <2>1
  <2>3. ASSUME NEW s \in SUBSET S, Cardinality(s) <= n + 1
        PROVE  h[s] = SumFrom(f, g, s)
    BY <1>1, <1>4, <2>3
  <2>4. \A s \in SUBSET S : Cardinality(s) <= n => h[s] = g[s]
    OBVIOUS
  <2> HIDE DEF h
  <2>5. ASSUME NEW s \in SUBSET S, Cardinality(s) <= n + 1
        PROVE  SumFrom(f, g, s) = SumFrom(f, h, s)
    <3>1. CASE s = {}
      BY <3>1 DEF SumFrom
    <3>2. CASE s # {}
      <4>1. Rest(s) \in SUBSET S /\ Cardinality(Rest(s)) <= n
        BY <1>1, <1>2, <2>5, <3>2
      <4>2. h[Rest(s)] = g[Rest(s)]
        BY <2>4, <4>1
      <4> QED
        BY <3>2, <4>2 DEF SumFrom
    <3> QED
      BY <3>1, <3>2
  <2> QED
    BY <2>2, <2>3, <2>5
<1>5. Bad = {}
  <2> SUFFICES ASSUME NEW n \in Bad PROVE FALSE
    OBVIOUS
  <2>1. PICK m \in Bad : \A k \in 0 .. m - 1 : k \notin Bad
    BY Least
  <2>2. m \in Nat /\ m # 0
    BY <1>3, <2>1
  <2> HIDE DEF Bad
  <2>5. m - 1 \in Nat /\ m - 1 \in 0 .. m - 1 /\ (m - 1) + 1 = m
    BY <2>2
  <2>6. m - 1 \notin Bad
    BY <2>1, <2>5
  <2> USE DEF Bad
  <2>3. \E g \in [SUBSET S -> Int] : Upto(m - 1, g)
    BY <2>5, <2>6
  <2>4. \E g \in [SUBSET S -> Int] : Upto(m, g)
    BY <1>4, <2>3, <2>5
  <2> QED
    BY <2>1, <2>4
<1>6. PICK g \in [SUBSET S -> Int] : Upto(Cardinality(S), g)
  BY <1>1, <1>5
<1>7. \A s \in SUBSET S : g[s] = SumFrom(f, g, s)
  BY <1>1, <1>6
<1> QED
  BY <1>7 DEF IsSum

Unfolds(f, g, T) ==
  /\ T = {} => g[T] = 0
  /\ T # {} => Pick(T) \in T /\ g[T] = f[Pick(T)] + g[T \ {Pick(T)}]

\* The sum over a subset, one element picked.
LEMMA SumUnfold ==
  ASSUME NEW S, NEW f, NEW g, IsSum(f, S, g)
  PROVE  \A T \in SUBSET S : Unfolds(f, g, T)
<1> SUFFICES ASSUME NEW T \in SUBSET S PROVE Unfolds(f, g, T)
  OBVIOUS
<1>1. g[T] = SumFrom(f, g, T)
  BY DEF IsSum
<1> QED
  BY <1>1, Picked DEF SumFrom, Rest, Unfolds

\* Sums of integers are integers.
LEMMA SumType ==
  ASSUME NEW S, IsFiniteSet(S), NEW f, IntegerOn(f, S), NEW g, IsSum(f, S, g)
  PROVE  \A T \in SUBSET S : g[T] \in Int
<1> DEFINE Bad == {T \in SUBSET S : g[T] \notin Int}
<1> SUFFICES ASSUME Bad # {} PROVE FALSE
  OBVIOUS
<1>1. PICK T \in Bad : \A x \in T : T \ {x} \notin Bad
  BY Smallest
<1>2. T # {} /\ Pick(T) \in T /\ T \ {Pick(T)} \in SUBSET S
      /\ g[T] = f[Pick(T)] + g[T \ {Pick(T)}]
  <2>1. \A s \in SUBSET S : Unfolds(f, g, s)
    BY SumUnfold
  <2> QED
    BY <1>1, <2>1 DEF Unfolds
<1>3. g[T \ {Pick(T)}] \in Int /\ f[Pick(T)] \in Int
  BY <1>1, <1>2 DEF IntegerOn
<1>4. g[T] \in Int
  BY <1>2, <1>3
<1> QED
  BY <1>1, <1>4

\* The sum over a set depends on the values on that set only.
LEMMA SumCongruent ==
  ASSUME NEW S, IsFiniteSet(S), NEW f, NEW g, IsSum(f, S, g),
         NEW R, NEW e, NEW h, IsSum(e, R, h),
         NEW U, U \subseteq S, U \subseteq R, \A x \in U : f[x] = e[x]
  PROVE  g[U] = h[U]
<1> DEFINE Bad == {T \in SUBSET U : g[T] # h[T]}
<1> SUFFICES ASSUME Bad # {} PROVE FALSE
  OBVIOUS
<1>1. IsFiniteSet(U)
  BY FS_Subset
<1>2. PICK T \in Bad : \A x \in T : T \ {x} \notin Bad
  BY <1>1, Smallest
<1>3. T \in SUBSET S /\ T \in SUBSET R /\ T \in SUBSET U
  BY <1>2
<1>4. T # {} /\ Pick(T) \in T
      /\ g[T] = f[Pick(T)] + g[T \ {Pick(T)}] /\ h[T] = e[Pick(T)] + h[T \ {Pick(T)}]
  <2>1. \A s \in SUBSET S : Unfolds(f, g, s)
    BY SumUnfold
  <2>2. \A s \in SUBSET R : Unfolds(e, h, s)
    BY SumUnfold
  <2> QED
    BY <1>2, <1>3, <2>1, <2>2 DEF Unfolds
<1>5. g[T \ {Pick(T)}] = h[T \ {Pick(T)}] /\ f[Pick(T)] = e[Pick(T)]
  BY <1>2, <1>3, <1>4
<1> QED
  BY <1>2, <1>4, <1>5

TakesOut(f, S, g) == \A T \in SUBSET S : \A x \in T : g[T] = f[x] + g[T \ {x}]

\* Any element may be taken out first.
LEMMA SumTakeOut ==
  ASSUME NEW S, IsFiniteSet(S), NEW f, IntegerOn(f, S), NEW g, IsSum(f, S, g)
  PROVE  TakesOut(f, S, g)
<1> DEFINE Bad == {T \in SUBSET S : \E x \in T : g[T] # f[x] + g[T \ {x}]}
<1> SUFFICES ASSUME Bad # {} PROVE FALSE
  BY DEF TakesOut
<1>1. PICK T \in Bad : \A y \in T : T \ {y} \notin Bad
  BY Smallest
<1>2. PICK x \in T : g[T] # f[x] + g[T \ {x}]
  BY <1>1
<1> DEFINE y == Pick(T)
<1>3. y \in T /\ g[T] = f[y] + g[T \ {y}] /\ T \in SUBSET S
  <2>1. T \in SUBSET S /\ T # {}
    BY <1>1, <1>2
  <2>2. \A s \in SUBSET S : Unfolds(f, g, s)
    BY SumUnfold
  <2> QED
    BY <2>1, <2>2 DEF Unfolds
<1> HIDE DEF y
<1>4. x # y
  BY <1>2, <1>3
<1>5. g[T \ {y}] = f[x] + g[(T \ {y}) \ {x}]
  BY <1>1, <1>3, <1>4
<1>6. g[T \ {x}] = f[y] + g[(T \ {x}) \ {y}]
  BY <1>1, <1>3, <1>4
<1>7. (T \ {y}) \ {x} = (T \ {x}) \ {y}
  OBVIOUS
<1> DEFINE r == g[(T \ {x}) \ {y}]
<1>8. r \in Int /\ f[x] \in Int /\ f[y] \in Int
  <2>1. \A s \in SUBSET S : g[s] \in Int
    BY SumType
  <2> QED
    BY <1>3, <2>1 DEF IntegerOn
<1>9. g[T] = f[y] + (f[x] + r) /\ g[T \ {x}] = f[y] + r
  BY <1>3, <1>5, <1>6, <1>7
<1> HIDE DEF r
<1>10. g[T] = f[x] + g[T \ {x}]
  BY <1>8, <1>9
<1> QED
  BY <1>2, <1>10

(* The attempts of the rows of a table, added up.                          *)
AttemptsIn(rows) == MapThenSumSet(LAMBDA id : rows[id].attempts, DOMAIN rows)

AttemptsOf(rows) == [id \in DOMAIN rows |-> rows[id].attempts]

\* What FiniteSetsExt computes is the sum.
LEMMA AttemptsSum ==
  ASSUME NEW rows, IsFiniteSet(DOMAIN rows), \A id \in DOMAIN rows : rows[id].attempts \in Int
  PROVE  \E g : IsSum(AttemptsOf(rows), DOMAIN rows, g) /\ AttemptsIn(rows) = g[DOMAIN rows]
<1> DEFINE D == DOMAIN rows
           f == AttemptsOf(rows)
           Folds(g) == g = [s \in SUBSET D |->
                              IF s = {} THEN 0
                              ELSE rows[CHOOSE x \in s : TRUE].attempts
                                     + g[s \ {CHOOSE x \in s : TRUE}]]
<1>1. AttemptsIn(rows) = (CHOOSE g : Folds(g))[D]
  BY DEF AttemptsIn, MapThenSumSet, MapThenFoldSet
<1>2. ASSUME NEW g PROVE Folds(g) <=> IsSum(f, D, g)
  <2>1. \A s \in SUBSET D : s # {} => f[Pick(s)] = rows[Pick(s)].attempts
    BY Picked DEF AttemptsOf
  <2>2. \A s \in SUBSET D :
          SumFrom(f, g, s) = IF s = {} THEN 0 ELSE rows[Pick(s)].attempts + g[s \ {Pick(s)}]
    BY <2>1 DEF SumFrom, Rest
  <2>3. [s \in SUBSET D |-> SumFrom(f, g, s)] =
        [s \in SUBSET D |-> IF s = {} THEN 0 ELSE rows[Pick(s)].attempts + g[s \ {Pick(s)}]]
    BY <2>2
  <2> QED
    BY <2>3 DEF IsSum, Pick
<1> HIDE DEF Folds
<1>3. IntegerOn(f, D)
  BY DEF AttemptsOf, IntegerOn
<1> HIDE DEF f
<1>4. \E g : Folds(g)
  BY <1>2, <1>3, SumExists
<1>5. Folds(CHOOSE g : Folds(g))
  BY <1>4
<1>6. IsSum(f, D, CHOOSE g : Folds(g))
  BY <1>2, <1>5
<1> QED
  BY <1>1, <1>6 DEF f

\* Putting a row changes the sum by its attempts, less those of the row it replaces.
LEMMA AttemptsPut ==
  ASSUME NEW rows, IsFiniteSet(DOMAIN rows), NEW after, NEW id,
         DOMAIN after = DOMAIN rows \cup {id},
         \A i \in DOMAIN rows : rows[i].attempts \in Int,
         after[id].attempts \in Int,
         \A i \in DOMAIN rows \ {id} : after[i].attempts = rows[i].attempts
  PROVE  /\ AttemptsIn(rows) \in Int
         /\ id \notin DOMAIN rows => AttemptsIn(after) = AttemptsIn(rows) + after[id].attempts
         /\ id \in DOMAIN rows =>
              AttemptsIn(after) = (AttemptsIn(rows) - rows[id].attempts) + after[id].attempts
<1> DEFINE R == DOMAIN rows
           D == DOMAIN after
           f == AttemptsOf(rows)
           e == AttemptsOf(after)
<1>1. IsFiniteSet(D)
  BY FS_AddElement
<1>2. \A i \in D : after[i].attempts \in Int
  OBVIOUS
<1>3. PICK g : IsSum(f, R, g) /\ AttemptsIn(rows) = g[R]
  BY AttemptsSum
<1>4. PICK h : IsSum(e, D, h) /\ AttemptsIn(after) = h[D]
  BY <1>1, <1>2, AttemptsSum
<1>5. /\ \A x \in R : f[x] = rows[x].attempts
      /\ \A x \in D : e[x] = after[x].attempts
  BY DEF AttemptsOf
<1> HIDE DEF f, e
<1>6. /\ IntegerOn(f, R) /\ IntegerOn(e, D)
      /\ \A x \in R \ {id} : f[x] = e[x]
      /\ id \in D
  BY <1>2, <1>5 DEF IntegerOn
<1>7. h[D] = e[id] + h[D \ {id}]
  <2>1. IsFiniteSet(D) /\ IntegerOn(e, D) /\ IsSum(e, D, h) /\ id \in D
    BY <1>1, <1>4, <1>6
  <2> HIDE DEF D
  <2>2. TakesOut(e, D, h)
    BY <2>1, SumTakeOut
  <2> QED
    BY <2>1, <2>2 DEF TakesOut
<1>8. g[R \ {id}] = h[R \ {id}]
  <2> DEFINE U == R \ {id}
  <2>1. U \subseteq R /\ U \subseteq D /\ \A x \in U : f[x] = e[x]
    BY <1>6
  <2> HIDE DEF U
  <2>2. g[U] = h[U]
    BY <1>3, <1>4, <2>1, SumCongruent
  <2> QED
    BY <2>2 DEF U
<1>9. D \ {id} = R \ {id}
  OBVIOUS
<1>10. g[R] \in Int /\ g[R \ {id}] \in Int
  BY <1>3, <1>6, SumType
<1>11. id \in R => g[R] = f[id] + g[R \ {id}]
  <2>1. IsFiniteSet(R) /\ IntegerOn(f, R) /\ IsSum(f, R, g)
    BY <1>3, <1>6
  <2> HIDE DEF R
  <2>2. TakesOut(f, R, g)
    BY <2>1, SumTakeOut
  <2> QED
    BY <2>2 DEF TakesOut
<1>12. id \notin R => R \ {id} = R
  OBVIOUS
<1> DEFINE r == g[R \ {id}]
           a == after[id].attempts
           b == rows[id].attempts
<1>13. /\ AttemptsIn(after) = a + r /\ a \in Int /\ r \in Int
       /\ id \notin R => AttemptsIn(rows) = r
       /\ id \in R => AttemptsIn(rows) = b + r /\ b \in Int
  BY <1>3, <1>4, <1>5, <1>6, <1>7, <1>8, <1>9, <1>10, <1>11, <1>12
<1>14. AttemptsIn(rows) \in Int
  BY <1>3, <1>10
<1> HIDE DEF r, a, b
<1>15. /\ id \notin R => AttemptsIn(after) = AttemptsIn(rows) + a
       /\ id \in R => AttemptsIn(after) = (AttemptsIn(rows) - b) + a
  BY <1>13
<1> QED
  BY <1>14, <1>15 DEF a, b

\* Only attempts count.
LEMMA AttemptsSame ==
  ASSUME NEW rows, IsFiniteSet(DOMAIN rows), NEW after, DOMAIN after = DOMAIN rows,
         \A i \in DOMAIN rows : rows[i].attempts \in Int /\ after[i].attempts = rows[i].attempts
  PROVE  AttemptsIn(after) = AttemptsIn(rows)
<1> DEFINE D == DOMAIN rows
           f == AttemptsOf(rows)
<1>1. AttemptsOf(after) = f
  BY DEF AttemptsOf
<1>2. \A i \in DOMAIN after : after[i].attempts \in Int
  OBVIOUS
<1>3. PICK g : IsSum(f, D, g) /\ AttemptsIn(rows) = g[D]
  BY AttemptsSum
<1>4. PICK h : IsSum(f, D, h) /\ AttemptsIn(after) = h[D]
  BY <1>1, <1>2, AttemptsSum
<1>5. g[D] = h[D]
  BY <1>3, <1>4, SumCongruent
<1> QED
  BY <1>3, <1>4, <1>5

----------------------------------------------------------------------------
(* AttemptsAccounted.  The row the worker has read is still as it was read *)
(* when it is written back, as far as attempts go: only the worker changes *)
(* them, and only a deletion would take the row away.                      *)
Upserting == {"upsert_select", "upsert_insert", "upsert_save"}

Accounted ==
  /\ IsFiniteSet(DOMAIN alerts)
  /\ AttemptsIn(alerts) = breaches - IF Handler.pc \in Upserting THEN 1 ELSE 0
  /\ Handler.pc = "upsert_save" =>
       /\ Handler.alert \in DOMAIN alerts
       /\ Handler.row.attempts = alerts[Handler.alert].attempts

\* A step that leaves attempts alone, and the worker where it is, keeps the account.
LEMMA SameAttempts ==
  ASSUME TypeInv, Accounted, UNCHANGED breaches,
         \/ UNCHANGED alerts
         \/ \E ids : \E flag \in BOOLEAN : FlagsSet(ids, flag)
         \/ \E id : id \notin DOMAIN alerts /\ RowPut(id) /\ alerts'[id].attempts = 0,
         \/ call'[Worker] = call[Worker]
         \/ call[Worker].pc \notin Upserting /\ call'[Worker].pc \notin Upserting
  PROVE  Accounted'
<1>1. /\ IsFiniteSet(DOMAIN alerts) /\ \A id \in DOMAIN alerts : alerts[id].attempts \in Int
  BY DEF Accounted, TypeInv, AlertsInv, Row
<1>2. /\ IsFiniteSet(DOMAIN alerts') /\ AttemptsIn(alerts') = AttemptsIn(alerts)
      /\ \A id \in DOMAIN alerts :
           id \in DOMAIN alerts' /\ alerts'[id].attempts = alerts[id].attempts
  <2>1. CASE UNCHANGED alerts
    BY <1>1, <2>1
  <2>2. ASSUME NEW ids, NEW flag \in BOOLEAN, FlagsSet(ids, flag)
        PROVE  /\ IsFiniteSet(DOMAIN alerts') /\ AttemptsIn(alerts') = AttemptsIn(alerts)
               /\ \A id \in DOMAIN alerts :
                    id \in DOMAIN alerts' /\ alerts'[id].attempts = alerts[id].attempts
    <3>1. /\ DOMAIN alerts' = DOMAIN alerts
          /\ \A id \in DOMAIN alerts : alerts'[id].attempts = alerts[id].attempts
      BY <2>2 DEF FlagsSet
    <3> QED
      BY <1>1, <3>1, AttemptsSame
  <2>3. ASSUME NEW id, id \notin DOMAIN alerts, RowPut(id), alerts'[id].attempts = 0
        PROVE  /\ IsFiniteSet(DOMAIN alerts') /\ AttemptsIn(alerts') = AttemptsIn(alerts)
               /\ \A i \in DOMAIN alerts :
                    i \in DOMAIN alerts' /\ alerts'[i].attempts = alerts[i].attempts
    <3>1. /\ DOMAIN alerts' = DOMAIN alerts \cup {id}
          /\ \A i \in DOMAIN alerts \ {id} : alerts'[i].attempts = alerts[i].attempts
          /\ alerts'[id].attempts \in Int
      BY <2>3 DEF RowPut
    <3>2. AttemptsIn(alerts) \in Int /\ AttemptsIn(alerts') = AttemptsIn(alerts) + alerts'[id].attempts
      BY <1>1, <2>3, <3>1, AttemptsPut
    <3>3. AttemptsIn(alerts') = AttemptsIn(alerts)
      BY <2>3, <3>2
    <3> QED
      BY <1>1, <2>3, <3>1, <3>3, FS_AddElement
  <2> QED
    BY <2>1, <2>2, <2>3
<1>3. call'[Worker].pc \in Upserting => call'[Worker] = call[Worker]
  OBVIOUS
<1>4. call'[Worker].pc \in Upserting <=> call[Worker].pc \in Upserting
  OBVIOUS
<1>5. call'[Worker].pc = "upsert_save" => call'[Worker] = call[Worker]
  BY <1>3 DEF Upserting
<1> QED
  BY <1>2, <1>4, <1>5 DEF Accounted, Handler

\* The worker's own steps: a breach to account for, and the row that accounts for it.
LEMMA WorkerAccounts ==
  ASSUME TypeInv, Accounted, WorkerAct
  PROVE  Accounted'
<1>1. /\ IsFiniteSet(DOMAIN alerts) /\ \A id \in DOMAIN alerts : alerts[id].attempts \in Int
      /\ breaches \in Int
      /\ AttemptsIn(alerts) = breaches - IF call[Worker].pc \in Upserting THEN 1 ELSE 0
  BY DEF Accounted, Handler, TypeInv, AlertsInv, CountInv, Row
<1>2. CASE Begun(Worker, "breach", "upsert_select") /\ breaches' = breaches + 1
  <2>1. call[Worker].pc = "idle" /\ call'[Worker].pc = "upsert_select" /\ UNCHANGED alerts
    BY <1>2 DEF Begun, Moves
  <2>2. AttemptsIn(alerts) = breaches' - 1
    BY <1>1, <1>2, <2>1 DEF Upserting
  <2> QED
    BY <1>1, <2>1, <2>2 DEF Accounted, Handler, Upserting
<1>3. CASE Selected /\ UNCHANGED breaches
  <2>1. /\ call[Worker].pc = "upsert_select" /\ UNCHANGED alerts
        /\ call'[Worker].pc \in {"upsert_insert", "upsert_save"}
        /\ call'[Worker].pc = "upsert_save" =>
             /\ call'[Worker].alert \in DOMAIN alerts
             /\ call'[Worker].row.attempts = alerts[call'[Worker].alert].attempts
    BY <1>3 DEF Selected, RowsOf
  <2> QED
    BY <1>1, <1>3, <2>1 DEF Accounted, Handler, Upserting
<1>4. ASSUME NEW id, RowPut(id), UNCHANGED breaches, call[Worker].pc \in Upserting,
             call'[Worker].pc = "event_lookup",
             alerts'[id].attempts = IF id \in DOMAIN alerts THEN alerts[id].attempts + 1 ELSE 1
      PROVE  Accounted'
  <2>1. /\ DOMAIN alerts' = DOMAIN alerts \cup {id} /\ alerts'[id].attempts \in Int
        /\ \A i \in DOMAIN alerts \ {id} : alerts'[i].attempts = alerts[i].attempts
    BY <1>1, <1>4 DEF RowPut
  <2> DEFINE total == AttemptsIn(alerts)
             after == AttemptsIn(alerts')
             old == alerts[id].attempts
             new == alerts'[id].attempts
  <2>2. /\ total \in Int
        /\ id \notin DOMAIN alerts => after = total + new
        /\ id \in DOMAIN alerts => after = (total - old) + new
    BY <1>1, <2>1, AttemptsPut
  <2>3. /\ id \notin DOMAIN alerts => new = 1
        /\ id \in DOMAIN alerts => new = old + 1 /\ old \in Int
    BY <1>1, <1>4
  <2>4. total = breaches - 1
    BY <1>1, <1>4
  <2>5. IsFiniteSet(DOMAIN alerts')
    BY <1>1, <2>1, FS_AddElement
  <2> HIDE DEF total, after, old, new
  <2>6. after = breaches
    BY <1>1, <2>2, <2>3, <2>4
  <2>7. AttemptsIn(alerts') = breaches'
    BY <1>4, <2>6 DEF after
  <2>8. call'[Worker].pc \notin Upserting /\ call'[Worker].pc # "upsert_save"
    BY <1>1, <1>4 DEF Upserting
  <2>9. breaches' = breaches' - IF call'[Worker].pc \in Upserting THEN 1 ELSE 0
    <3>1. (IF call'[Worker].pc \in Upserting THEN 1 ELSE 0) = 0
      BY <2>8, Zenon
    <3>2. breaches' = breaches' - 0
      <4>1. breaches' \in Int
        BY <1>1, <1>4
      <4>2. \A n \in Int : n = n - 0
        OBVIOUS
      <4> QED
        BY <4>1, <4>2, Zenon
    <3> QED
      BY <3>1, <3>2, Zenon
  <2>10. AttemptsIn(alerts') = breaches' - IF call'[Worker].pc \in Upserting THEN 1 ELSE 0
    BY <2>7, <2>9
  <2> QED
    BY <2>5, <2>8, <2>10 DEF Accounted, Handler
<1>5. CASE Inserted /\ UNCHANGED breaches
  BY <1>4, <1>5 DEF Inserted, Moves, Upserting
<1>6. CASE Saved /\ UNCHANGED breaches
  <2>1. /\ call[Worker].alert \in DOMAIN alerts
        /\ call[Worker].row.attempts = alerts[call[Worker].alert].attempts
    BY <1>6 DEF Saved, Moves, Accounted, Handler
  <2> QED
    BY <1>4, <1>6, <2>1 DEF Saved, Moves, Upserting
<1>7. CASE Concluded /\ UNCHANGED breaches
  <2>1. \/ UNCHANGED alerts
        \/ FlagsSet({call[Worker].alert}, TRUE)
    BY <1>7 DEF Concluded
  <2>2. call[Worker].pc \notin Upserting /\ call'[Worker].pc \notin Upserting
    BY <1>7 DEF Concluded, Moves, Upserting
  <2> QED
    BY <1>7, <2>1, <2>2, SameAttempts
<1>8. CASE Ended(Worker, "notify") /\ UNCHANGED breaches
  <2>1. call[Worker].pc \notin Upserting /\ call'[Worker].pc \notin Upserting /\ UNCHANGED alerts
    BY <1>8, IdleAt DEF Ended, Upserting
  <2> QED
    BY <1>8, <2>1, SameAttempts
<1> QED
  BY <1>2, <1>3, <1>5, <1>6, <1>7, <1>8 DEF WorkerAct

\* No step loses or doubles attempts, if nothing breaks off and the tables are not deleted.
LEMMA NextKeepsAccounted ==
  ASSUME AdminDeletes = FALSE, "raise" \notin Faults, "crash" \notin Faults
  PROVE  TypeInv /\ Accounted /\ [Next]_vars => Accounted'
<1> SUFFICES ASSUME TypeInv, Accounted, [Next]_vars PROVE Accounted'
  OBVIOUS
<1>0. Worker \notin WebThreads /\ Worker \in Threads
  BY SharedStateAssumption DEF Threads
<1>1. ASSUME NEW th \in Threads, ServiceStep(th) PROVE Accounted'
  <2>1. UNCHANGED <<alerts, breaches>> /\ Effect(th) /\ \A o \in Threads \ {th} : call'[o] = call[o]
    BY <1>1, ServiceEffect
  <2>2. th = Worker => call[Worker].pc \notin Upserting /\ call'[Worker].pc \notin Upserting
    BY <2>1, IdleAt DEF Effect, Found, Missing, Marked, Denied, WasRefused, Collided, Created,
                        Lifted, Moves, Upserting
  <2>3. th # Worker => call'[Worker] = call[Worker]
    BY <1>0, <2>1
  <2> QED
    BY <2>1, <2>2, <2>3, SameAttempts
<1>2. CASE WorkerAct
  BY <1>2, WorkerAccounts
<1>3. ASSUME NEW th \in WebThreads, WebAct(th) PROVE Accounted'
  <2>1. call'[Worker] = call[Worker] /\ UNCHANGED breaches
    BY <1>0, <1>3 DEF WebAct, Frame
  <2>2. \/ UNCHANGED alerts
        \/ \E ids : \E flag \in BOOLEAN : FlagsSet(ids, flag)
        \/ \E id : id \notin DOMAIN alerts /\ RowPut(id) /\ alerts'[id].attempts = 0
    BY <1>3 DEF WebAct, Begun, Marks, Adds, Ended
  <2> QED
    BY <2>1, <2>2, SameAttempts
<1>4. ~BrokenOff
  BY DEF BrokenOff, BreaksOff
<1>5. CASE UNCHANGED vars
  BY <1>5, SameAttempts DEF vars
<1> QED
  BY <1>1, <1>2, <1>3, <1>4, <1>5, AlertCases

(* The read-add-write of upsert_breach is not atomic, but no interleaving  *)
(* with the updates of the web server loses or doubles the attempts of a   *)
(* breach, whatever the firewall refuses and whoever unblocks: the table   *)
(* adds up to one for every breach the worker has written, for any number  *)
(* of addresses and requests (repositories.py 110-137).                    *)
THEOREM AttemptsAllAccounted ==
  ASSUME AdminDeletes = FALSE, "raise" \notin Faults, "crash" \notin Faults
  PROVE  Spec => []AttemptsAccounted
<1>1. Init => Accounted
  <2> SUFFICES ASSUME Init PROVE Accounted
    OBVIOUS
  <2>1. DOMAIN alerts = {} /\ breaches = 0 /\ call[Worker].pc = "idle"
    BY IdleAt DEF Init, Threads
  <2>2. PICK g : IsSum(AttemptsOf(alerts), {}, g) /\ AttemptsIn(alerts) = g[{}]
    BY <2>1, FS_EmptySet, AttemptsSum
  <2>3. g[{}] = 0
    <3>1. \A s \in SUBSET {} : Unfolds(AttemptsOf(alerts), g, s)
      BY <2>2, SumUnfold
    <3> QED
      BY <3>1 DEF Unfolds
  <2>4. call[Worker].pc \notin Upserting /\ call[Worker].pc # "upsert_save"
    BY <2>1 DEF Upserting
  <2>5. 0 = breaches - IF call[Worker].pc \in Upserting THEN 1 ELSE 0
    <3>1. (IF call[Worker].pc \in Upserting THEN 1 ELSE 0) = 0
      BY <2>4, Zenon
    <3>2. 0 = breaches - 0
      BY <2>1
    <3> QED
      BY <3>1, <3>2, Zenon
  <2>6. AttemptsIn(alerts) = breaches - IF call[Worker].pc \in Upserting THEN 1 ELSE 0
    BY <2>2, <2>3, <2>5
  <2>7. IsFiniteSet(DOMAIN alerts)
    BY <2>1, FS_EmptySet
  <2> QED
    BY <2>4, <2>6, <2>7 DEF Accounted, Handler
<1>2. Accounted => AttemptsAccounted
  BY DEF Accounted, AttemptsAccounted, AttemptsIn, Handler, Upserting
<1> QED
  BY <1>1, <1>2, NextKeepsAccounted, TypeInvariant, PTL DEF Spec

\* So under the eyes of /status too.
THEOREM AttemptsAllAccountedWithViews ==
  ASSUME AdminDeletes = FALSE, "raise" \notin Faults, "crash" \notin Faults
  PROVE  VSpec => []AttemptsAccounted
BY ViewsOnlyLook, AttemptsAllAccounted, PTL
=============================================================================
