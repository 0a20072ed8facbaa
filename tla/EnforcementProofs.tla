-------------------------- MODULE EnforcementProofs --------------------------
(***************************************************************************)
(* Proofs about Enforcement, for every set of addresses, web threads and   *)
(* faults and every bound on the breaches.                                 *)
(*                                                                         *)
(* First the type invariant (TypeInv), then the safety properties.  For    *)
(* those a step is one of BlockService (ServiceEffect says what each can   *)
(* do to the firewall, the records and its call), the deletion of the      *)
(* tables, or quiet: it leaves rules and records alone and puts its call   *)
(* outside the service (StepCases).                                        *)
(***************************************************************************)
EXTENDS Enforcement, TLAPS

(* ids has a largest element, 0 counting as one: what makes NextId(ids)    *)
(* larger than every id in use.                                            *)
HasTop(ids) == \E m \in ids \cup {0} : \A n \in ids \cup {0} : m >= n

(* A call past its start has an address; one that is about to save a row   *)
(* holds a row.                                                            *)
GoodCall == {c \in Call : /\ c.pc # "idle" => c.ip \in IPs
                          /\ c.pc = "upsert_save" => c.row \in Row}

RecordsInv ==
  /\ DOMAIN records \subseteq IPs
  /\ \A ip \in DOMAIN records : records[ip] \in Record
  /\ HasTop(RecordIds)

AlertsInv ==
  /\ DOMAIN alerts \subseteq Nat
  /\ \A id \in DOMAIN alerts : alerts[id] \in Row
  /\ HasTop(DOMAIN alerts)

(* The worker has counted at most one block for each breach it has handled *)
(* as far as "notify".                                                     *)
CountInv ==
  /\ breaches \in 0 .. MaxBreaches
  /\ blocks \in Nat
  /\ blocks <= breaches
  /\ call[Worker].pc \notin {"idle", "notify"} => blocks < breaches

TypeInv ==
  /\ rules \subseteq IPs
  /\ RecordsInv
  /\ AlertsInv
  /\ call \in [Threads -> GoodCall]
  /\ CountInv

----------------------------------------------------------------------------
(* The helpers of SharedState.                                             *)

(* A new id is larger than those in use, and is the new top.               *)
LEMMA NextIdIsNew ==
  ASSUME NEW ids \in SUBSET Nat, HasTop(ids)
  PROVE  /\ NextId(ids) \in Nat \ {0}
         /\ \A i \in ids : i < NextId(ids)
         /\ HasTop(ids \cup {NextId(ids)})
<1> DEFINE top == Max(ids \cup {0})
<1>1. top \in ids \cup {0} /\ \A n \in ids \cup {0} : top >= n
  BY DEF HasTop, Max
<1>2. NextId(ids) = top + 1
  BY DEF NextId
<1> HIDE DEF top
<1>3. top \in Nat
  BY <1>1
<1>4. NextId(ids) \in Nat \ {0} /\ \A i \in ids : i < NextId(ids)
  BY <1>1, <1>2, <1>3
<1>5. \A n \in (ids \cup {NextId(ids)}) \cup {0} : NextId(ids) >= n
  BY <1>4
<1>6. HasTop(ids \cup {NextId(ids)})
  BY <1>5 DEF HasTop
<1> QED
  BY <1>4, <1>6

(* Putting a row keeps the table well formed: a row over an old one, or    *)
(* one under the next id.                                                  *)
LEMMA PutRowKeepsAlerts ==
  ASSUME AlertsInv, NEW row \in Row,
         NEW id, id \in DOMAIN alerts \/ id = NextId(DOMAIN alerts),
         alerts' = PutRow(id, row)
  PROVE  AlertsInv'
<1>1. DOMAIN alerts' = DOMAIN alerts \cup {id}
  BY DEF PutRow
<1>2. DOMAIN alerts' \subseteq Nat /\ HasTop(DOMAIN alerts')
  <2>1. CASE id \in DOMAIN alerts
    <3>1. DOMAIN alerts \cup {id} = DOMAIN alerts
      BY <2>1
    <3> QED
      BY <1>1, <3>1 DEF AlertsInv
  <2>2. CASE id = NextId(DOMAIN alerts)
    BY <1>1, <2>2, NextIdIsNew DEF AlertsInv
  <2> QED
    BY <2>1, <2>2
<1>3. \A i \in DOMAIN alerts' : alerts'[i] \in Row
  BY <1>1 DEF PutRow, AlertsInv
<1> QED
  BY <1>2, <1>3 DEF AlertsInv, HasTop

(* So does setting a flag.                                                 *)
LEMMA MarkRowsKeepsAlerts ==
  ASSUME AlertsInv, NEW ids, NEW flag \in BOOLEAN,
         alerts' = MarkRows(ids, flag)
  PROVE  AlertsInv'
<1>1. DOMAIN alerts' = DOMAIN alerts
  BY DEF MarkRows
<1>2. ASSUME NEW i \in DOMAIN alerts PROVE alerts'[i] \in Row
  <2>1. alerts[i] \in Row
    BY DEF AlertsInv
  <2>2. [alerts[i] EXCEPT !.blocked = flag] \in Row
    BY <2>1 DEF Row
  <2> QED
    BY <2>1, <2>2 DEF MarkRows
<1> QED
  BY <1>1, <1>2 DEF AlertsInv, HasTop

(* The same for blocked_ips: inserting a record for an address without one *)
(* and marking the records of an id.                                       *)
LEMMA InsertRecordKeepsRecords ==
  ASSUME RecordsInv, NEW ip \in IPs, ip \notin DOMAIN records,
         records' = InsertRecord(ip)
  PROVE  RecordsInv' /\ DOMAIN records' = DOMAIN records \cup {ip}
<1>1. DOMAIN records' = DOMAIN records \cup {ip}
  BY DEF InsertRecord
<1>2. RecordIds \in SUBSET Nat
  BY DEF RecordsInv, RecordIds, Record
<1>3. NextId(RecordIds) \in Nat /\ HasTop(RecordIds \cup {NextId(RecordIds)})
  BY <1>2, NextIdIsNew DEF RecordsInv
<1>4. \A i \in DOMAIN records' : records'[i] \in Record
  BY <1>1, <1>3 DEF InsertRecord, RecordsInv, Record
<1>5. RecordIds' = RecordIds \cup {NextId(RecordIds)}
  <2>1. \A i \in DOMAIN records : records'[i] = records[i]
    BY <1>1 DEF InsertRecord
  <2>2. records'[ip].id = NextId(RecordIds)
    BY <1>1 DEF InsertRecord
  <2> DEFINE n == NextId(RecordIds)
  <2>3. RecordIds' = {records'[i].id : i \in DOMAIN records \cup {ip}}
    BY <1>1 DEF RecordIds
  <2>4. records'[ip].id = n
    BY <2>2
  <2> HIDE DEF n
  <2>5. {records'[i].id : i \in DOMAIN records \cup {ip}}
          = {records[i].id : i \in DOMAIN records} \cup {n}
    BY <2>1, <2>4
  <2> QED
    BY <2>3, <2>5 DEF RecordIds, n
<1> QED
  BY <1>1, <1>3, <1>4, <1>5 DEF RecordsInv, HasTop

\* Marking the record of an id leaves one record per address under its id.
LEMMA MarkRecordKeepsRecords ==
  ASSUME RecordsInv, NEW id, NEW flag \in BOOLEAN,
         records' = MarkRecord(id, flag)
  PROVE  RecordsInv' /\ DOMAIN records' = DOMAIN records
<1>1. DOMAIN records' = DOMAIN records
  BY DEF MarkRecord
<1>2. ASSUME NEW i \in DOMAIN records
      PROVE  records'[i] \in Record /\ records'[i].id = records[i].id
  <2>1. records[i] \in Record
    BY DEF RecordsInv
  <2>2. /\ [records[i] EXCEPT !.is_blocked = flag] \in Record
        /\ [records[i] EXCEPT !.is_blocked = flag].id = records[i].id
    BY <2>1 DEF Record
  <2> QED
    BY <2>1, <2>2 DEF MarkRecord
<1>3. RecordIds' = RecordIds
  BY <1>1, <1>2 DEF RecordIds
<1> QED
  BY <1>1, <1>2, <1>3 DEF RecordsInv, HasTop

(* The updates of a call: each keeps the calls well formed, changes one    *)
(* thread only, and leaves its address alone unless the call ends.         *)
LEMMA GotoKeepsCalls ==
  ASSUME call \in [Threads -> GoodCall], NEW th \in Threads,
         NEW label \in Labels \ {"upsert_save"}, call[th].pc # "idle",
         Goto(th, label)
  PROVE  /\ call' \in [Threads -> GoodCall]
         /\ call'[th] = [call[th] EXCEPT !.pc = label]
         /\ \A o \in Threads \ {th} : call'[o] = call[o]
<1>1. call[th] \in GoodCall
  OBVIOUS
<1>2. [call[th] EXCEPT !.pc = label] \in GoodCall
  BY <1>1 DEF GoodCall, Call
<1> QED
  BY <1>2 DEF Goto

\* A service call that returns to its caller leaves every call well formed.
LEMMA ReturnKeepsCalls ==
  ASSUME call \in [Threads -> GoodCall], NEW th \in Threads,
         NEW result \in BOOLEAN, call[th].pc # "idle",
         Return(th, result)
  PROVE  /\ call' \in [Threads -> GoodCall]
         /\ call'[th] = [call[th] EXCEPT !.pc = "returned", !.ok = result, !.rec = 0]
         /\ \A o \in Threads \ {th} : call'[o] = call[o]
<1>1. call[th] \in GoodCall
  OBVIOUS
<1>2. [call[th] EXCEPT !.pc = "returned", !.ok = result, !.rec = 0] \in GoodCall
  BY <1>1 DEF GoodCall, Call, Labels
<1>3. call' = [call EXCEPT ![th] = [call[th] EXCEPT !.pc = "returned", !.ok = result, !.rec = 0]]
  BY DEF Return
<1> QED
  BY <1>2, <1>3

\* So does a get_by_ip that finds a row, or none.
LEMMA FetchKeepsCalls ==
  ASSUME RecordsInv, call \in [Threads -> GoodCall], NEW th \in Threads,
         NEW label \in Labels \ {"upsert_save"}, call[th].pc # "idle",
         Recorded(th), Fetch(th, label)
  PROVE  /\ call' \in [Threads -> GoodCall]
         /\ call'[th] = [call[th] EXCEPT !.pc = label, !.rec = records[call[th].ip].id]
         /\ \A o \in Threads \ {th} : call'[o] = call[o]
<1> DEFINE r == records[call[th].ip].id
<1>1. call[th] \in GoodCall /\ r \in Nat
  BY DEF Recorded, RecordsInv, Record
<1>3. call' = [call EXCEPT ![th] = [call[th] EXCEPT !.pc = label, !.rec = r]]
  BY DEF Fetch
<1> HIDE DEF r
<1>2. [call[th] EXCEPT !.pc = label, !.rec = r] \in GoodCall
  BY <1>1 DEF GoodCall, Call
<1> QED
  BY <1>2, <1>3 DEF r

\* So does the end of a handler, which frees the thread.
LEMMA FinishKeepsCalls ==
  ASSUME call \in [Threads -> GoodCall], NEW th \in Threads, Finish(th)
  PROVE  /\ call' \in [Threads -> GoodCall]
         /\ call'[th] = Idle
         /\ \A o \in Threads \ {th} : call'[o] = call[o]
<1>1. Idle \in GoodCall
  BY DEF Idle, GoodCall, Call, Labels
<1> QED
  BY <1>1 DEF Finish

----------------------------------------------------------------------------
(* Type correctness.  A step of th keeps the tables, the firewall and all  *)
(* calls well formed and leaves the other threads alone.                   *)

Framed(th) ==
  /\ rules' \subseteq IPs
  /\ RecordsInv'
  /\ AlertsInv'
  /\ call' \in [Threads -> GoodCall]
  /\ \A o \in Threads \ {th} : call'[o] = call[o]

(* A thread in the middle of a call that leaves both counters alone keeps  *)
(* CountInv: only the worker's own progress could break it.                *)
LEMMA FramedKeepsTypes ==
  ASSUME TypeInv, NEW th \in Threads, Framed(th),
         call[th].pc \notin {"idle", "notify"}, UNCHANGED <<breaches, blocks>>
  PROVE  TypeInv'
<1>1. call'[Worker].pc \notin {"idle", "notify"} => blocks < breaches
  <2>1. CASE th = Worker
    BY <2>1 DEF TypeInv, CountInv
  <2>2. CASE th # Worker
    <3>1. call'[Worker] = call[Worker]
      BY <2>2 DEF Framed, Threads
    <3> QED
      BY <3>1 DEF TypeInv, CountInv
  <2> QED
    BY <2>1, <2>2
<1>2. CountInv'
  BY <1>1 DEF TypeInv, CountInv
<1> QED
  BY <1>2 DEF TypeInv, Framed

(* The tables that a step leaves alone stay well formed.                   *)
LEMMA UnchangedTables ==
  ASSUME TypeInv
  PROVE  /\ UNCHANGED records => RecordsInv'
         /\ UNCHANGED alerts => AlertsInv'
<1>1. ASSUME UNCHANGED records PROVE RecordsInv'
  BY <1>1 DEF TypeInv, RecordsInv, RecordIds, HasTop
<1>2. ASSUME UNCHANGED alerts PROVE AlertsInv'
  BY <1>2 DEF TypeInv, AlertsInv, HasTop
<1> QED
  BY <1>1, <1>2

(* BlockService: every operation frames its thread.                        *)
LEMMA RefusedFramed ==
  ASSUME TypeInv, NEW th \in Threads, call[th].pc # "idle", Refused(th)
  PROVE  Framed(th)
<1>1. call \in [Threads -> GoodCall] /\ rules \subseteq IPs
  BY DEF TypeInv
<1>2. Return(th, FALSE) /\ UNCHANGED <<rules, records, alerts>>
  BY DEF Refused
<1> QED
  BY <1>1, <1>2, ReturnKeepsCalls, UnchangedTables DEF Framed

\* The call of the firewall moves its own thread only.
LEMMA DenyFramed ==
  ASSUME TypeInv, NEW th \in Threads, call[th].pc # "idle",
         NEW label \in Labels \ {"upsert_save"}, Deny(th, label)
  PROVE  Framed(th)
<1>1. call \in [Threads -> GoodCall] /\ rules \subseteq IPs
  BY DEF TypeInv
<1>2. call[th].ip \in IPs
  BY <1>1 DEF GoodCall
<1>3. CASE /\ rules' = rules \cup {call[th].ip}
           /\ Goto(th, label)
           /\ UNCHANGED <<records, alerts>>
  BY <1>1, <1>2, <1>3, GotoKeepsCalls, UnchangedTables DEF Framed
<1>4. CASE Refused(th)
  BY <1>4, RefusedFramed
<1> QED
  BY <1>3, <1>4 DEF Deny

\* create moves its own thread only, and inserts under a new id.
LEMMA CreateFramed ==
  ASSUME TypeInv, NEW th \in Threads, call[th].pc # "idle", Create(th)
  PROVE  Framed(th)
<1>1. call \in [Threads -> GoodCall] /\ rules \subseteq IPs
  BY DEF TypeInv
<1>2. call[th].ip \in IPs
  BY <1>1 DEF GoodCall
<1>3. UNCHANGED <<rules, alerts>>
  BY DEF Create
<1>4. CASE Recorded(th)
  <2>1. Finish(th) /\ UNCHANGED records
    BY <1>4 DEF Create
  <2> QED
    BY <1>1, <1>3, <2>1, FinishKeepsCalls, UnchangedTables DEF Framed
<1>5. CASE ~Recorded(th)
  <2>1. Return(th, TRUE) /\ records' = InsertRecord(call[th].ip)
    BY <1>5 DEF Create
  <2>2. RecordsInv'
    BY <1>2, <1>5, <2>1, InsertRecordKeepsRecords DEF Recorded, TypeInv
  <2> QED
    BY <1>1, <1>3, <2>1, <2>2, ReturnKeepsCalls, UnchangedTables DEF Framed
<1> QED
  BY <1>4, <1>5

\* mark_blocked and mark_unblocked move their own thread only.
LEMMA MarkFramed ==
  ASSUME TypeInv, NEW th \in Threads, call[th].pc # "idle",
         NEW flag \in BOOLEAN, Mark(th, flag)
  PROVE  Framed(th) /\ DOMAIN records' = DOMAIN records
<1>1. call \in [Threads -> GoodCall] /\ rules \subseteq IPs
  BY DEF TypeInv
<1>2. /\ records' = MarkRecord(call[th].rec, flag)
      /\ Return(th, call[th].rec \in RecordIds)
      /\ UNCHANGED <<rules, alerts>>
  BY DEF Mark
<1>3. RecordsInv' /\ DOMAIN records' = DOMAIN records
  BY <1>2, MarkRecordKeepsRecords DEF TypeInv
<1>4. /\ call' \in [Threads -> GoodCall]
      /\ \A o \in Threads \ {th} : call'[o] = call[o]
  <2> DEFINE found == call[th].rec \in RecordIds
  <2>1. found \in BOOLEAN /\ Return(th, found)
    BY <1>2
  <2> HIDE DEF found
  <2> QED
    BY <1>1, <2>1, ReturnKeepsCalls
<1> QED
  BY <1>1, <1>2, <1>3, <1>4, UnchangedTables DEF Framed

\* get_by_ip moves its own thread only.
LEMMA LookupFramed ==
  ASSUME TypeInv, NEW th \in Threads, call[th].pc # "idle",
         NEW found \in Labels \ {"upsert_save"}, NEW missing \in Labels \ {"upsert_save"},
         IF Recorded(th) THEN Fetch(th, found)
                         ELSE Goto(th, missing) \/ Return(th, FALSE),
         UNCHANGED <<rules, records, alerts>>
  PROVE  Framed(th)
<1>1. call \in [Threads -> GoodCall] /\ rules \subseteq IPs
  BY DEF TypeInv
<1>2. RecordsInv' /\ AlertsInv' /\ RecordsInv
  BY UnchangedTables DEF TypeInv
<1>3. CASE Recorded(th) /\ Fetch(th, found)
  BY <1>1, <1>2, <1>3, FetchKeepsCalls DEF Framed
<1>4. CASE Goto(th, missing)
  BY <1>1, <1>2, <1>4, GotoKeepsCalls DEF Framed
<1>5. CASE Return(th, FALSE)
  BY <1>1, <1>2, <1>5, ReturnKeepsCalls DEF Framed
<1> QED
  BY <1>3, <1>4, <1>5

\* Every step of BlockService is framed: it moves its thread, and writes rules or records.
LEMMA ServiceFramed ==
  ASSUME TypeInv, NEW th \in Threads, ServiceStep(th)
  PROVE  Framed(th) /\ call[th].pc \notin {"idle", "notify"}
<1>1. BlockServiceStep(th)
  BY DEF ServiceStep
<1>2. Framed(th) /\ call[th].pc \notin {"idle", "notify"}
  <2>1. CASE EventLookup(th)
    BY <2>1, LookupFramed DEF EventLookup, At, Labels
  <2>2. CASE EventRemark(th)
    BY <2>2, MarkFramed DEF EventRemark, At
  <2>3. CASE EventDeny(th)
    BY <2>3, DenyFramed DEF EventDeny, At, Labels
  <2>4. CASE EventCreate(th)
    BY <2>4, CreateFramed DEF EventCreate, At
  <2>5. CASE BlockDeny(th)
    BY <2>5, DenyFramed DEF BlockDeny, At, Labels
  <2>6. CASE BlockLookup(th)
    BY <2>6, LookupFramed DEF BlockLookup, At, Labels
  <2>7. CASE BlockRemark(th)
    BY <2>7, MarkFramed DEF BlockRemark, At
  <2>8. CASE BlockCreate(th)
    BY <2>8, CreateFramed DEF BlockCreate, At
  <2>9. CASE UnblockLookup(th)
    BY <2>9, LookupFramed DEF UnblockLookup, At, Labels
  <2>10. CASE UnblockAllow(th)
    <3>1. CASE Refused(th)
      BY <2>10, <3>1, RefusedFramed DEF UnblockAllow, At
    <3>2. CASE /\ rules' = rules \ {call[th].ip}
               /\ Goto(th, "unblock_mark")
               /\ UNCHANGED <<records, alerts>>
      <4>1. call \in [Threads -> GoodCall] /\ rules' \subseteq IPs
        BY <3>2 DEF TypeInv
      <4>2. call[th].pc = "unblock_allow"
        BY <2>10 DEF UnblockAllow, At
      <4> QED
        BY <3>2, <4>1, <4>2, GotoKeepsCalls, UnchangedTables DEF Framed, Labels
    <3> QED
      BY <2>10, <3>1, <3>2 DEF UnblockAllow
  <2>11. CASE UnblockMark(th)
    BY <2>11, MarkFramed DEF UnblockMark, At
  <2> QED
    BY <1>1, <2>1, <2>2, <2>3, <2>4, <2>5, <2>6, <2>7, <2>8, <2>9, <2>10, <2>11
       DEF BlockServiceStep
<1> QED
  BY <1>2

\* Hence every step of BlockService keeps the type invariant.
LEMMA ServiceKeepsTypes ==
  ASSUME TypeInv, NEW th \in Threads, ServiceStep(th)
  PROVE  TypeInv'
BY ServiceFramed, FramedKeepsTypes DEF ServiceStep

(* AlertRepository, as the worker and the web endpoints call it.           *)
LEMMA UpsertKeepsTypes ==
  ASSUME TypeInv, PersistBreach
  PROVE  TypeInv'
<1> DEFINE w == call[Worker]
<1>1. /\ Worker \in Threads /\ call \in [Threads -> GoodCall] /\ w \in GoodCall
      /\ rules \subseteq IPs
  BY DEF TypeInv, Threads
<1>2. CASE UpsertSelect(Worker)
  <2>1. w.pc = "upsert_select" /\ UNCHANGED <<rules, records, alerts>>
    BY <1>2 DEF UpsertSelect, At
  <2>2. ASSUME Goto(Worker, "upsert_insert") PROVE Framed(Worker)
    BY <1>1, <2>1, <2>2, GotoKeepsCalls, UnchangedTables DEF Framed, Labels
  <2>3. ASSUME NEW id \in RowsOf(w.ip),
               call' = [call EXCEPT ![Worker].pc = "upsert_save",
                                    ![Worker].alert = id, ![Worker].row = alerts[id]]
        PROVE  Framed(Worker)
    <3> DEFINE row == alerts[id]
               c == [w EXCEPT !.pc = "upsert_save", !.alert = id, !.row = row]
    <3>1. id \in Nat /\ row \in Row
      BY <2>3 DEF RowsOf, TypeInv, AlertsInv
    <3>2. call' = [call EXCEPT ![Worker] = c]
      BY <2>3
    <3> HIDE DEF row
    <3>3. c \in GoodCall
      BY <1>1, <2>1, <3>1 DEF GoodCall, Call, Labels
    <3> HIDE DEF c
    <3>4. call' \in [Threads -> GoodCall]
      BY <1>1, <3>2, <3>3
    <3> QED
      BY <1>1, <2>1, <3>2, <3>4, UnchangedTables DEF Framed
  <2>4. Framed(Worker)
    BY <1>2, <2>2, <2>3 DEF UpsertSelect
  <2> QED
    BY <1>1, <2>1, <2>4, FramedKeepsTypes DEF PersistBreach
<1>3. CASE UpsertInsert(Worker, "event_lookup")
  <2> DEFINE id == NextId(DOMAIN alerts)
             row == [ip |-> w.ip, attempts |-> 1, blocked |-> FALSE]
             c == [w EXCEPT !.pc = "event_lookup", !.alert = id]
  <2>1. /\ w.pc = "upsert_insert" /\ UNCHANGED <<rules, records>>
        /\ alerts' = PutRow(id, row)
        /\ call' = [call EXCEPT ![Worker] = c]
    BY <1>3 DEF UpsertInsert, At
  <2>2. row \in Row
    BY <1>1, <2>1 DEF GoodCall, Row
  <2>3. id \in Nat
    BY NextIdIsNew DEF TypeInv, AlertsInv
  <2>4. AlertsInv'
    <3> HIDE DEF row
    <3> QED
      BY <2>1, <2>2, PutRowKeepsAlerts DEF TypeInv
  <2>5. c \in GoodCall
    <3> HIDE DEF id
    <3> QED
      BY <1>1, <2>1, <2>3 DEF GoodCall, Call, Labels
  <2>6. Framed(Worker)
    <3> HIDE DEF c
    <3>1. call' \in [Threads -> GoodCall]
      BY <1>1, <2>1, <2>5
    <3> QED
      BY <1>1, <2>1, <2>4, <3>1, UnchangedTables DEF Framed
  <2> QED
    BY <1>1, <2>1, <2>6, FramedKeepsTypes DEF PersistBreach
<1>4. CASE UpsertSave(Worker, "event_lookup")
  <2> DEFINE row == [w.row EXCEPT !.attempts = @ + 1]
             c == [w EXCEPT !.pc = "event_lookup", !.row = NoRow]
  <2>1. /\ w.pc = "upsert_save" /\ UNCHANGED <<rules, records>>
        /\ alerts' = IF w.alert \in DOMAIN alerts THEN PutRow(w.alert, row) ELSE alerts
        /\ call' = [call EXCEPT ![Worker] = c]
    BY <1>4 DEF UpsertSave, At
  <2>2. row \in Row
    <3>1. w.row \in Row
      BY <1>1, <2>1 DEF GoodCall
    <3> QED
      BY <3>1 DEF Row
  <2>4. AlertsInv'
    <3> HIDE DEF row
    <3> QED
      BY <2>1, <2>2, PutRowKeepsAlerts, UnchangedTables DEF TypeInv
  <2>5. c \in GoodCall
    BY <1>1, <2>1 DEF GoodCall, Call, Labels
  <2>6. Framed(Worker)
    <3> HIDE DEF c
    <3>1. call' \in [Threads -> GoodCall]
      BY <1>1, <2>1, <2>5
    <3> QED
      BY <1>1, <2>1, <2>4, <3>1, UnchangedTables DEF Framed
  <2> QED
    BY <1>1, <2>1, <2>6, FramedKeepsTypes DEF PersistBreach
<1> QED
  BY <1>2, <1>3, <1>4 DEF PersistBreach

(* The endpoints after the service has returned.                           *)
LEMMA ApiMarkKeepsTypes ==
  ASSUME TypeInv, NEW th \in WebThreads, ApiMark(th)
  PROVE  TypeInv'
<1>1. /\ th \in Threads /\ call \in [Threads -> GoodCall] /\ call[th] \in GoodCall
      /\ rules \subseteq IPs
  BY DEF TypeInv, Threads
<1>2. ASSUME call[th].pc = "returned" /\ MarkIpBlocked(th, "answer")
      PROVE  Framed(th)
  <2>1. AlertsInv' /\ UNCHANGED <<rules, records>>
    BY <1>2, MarkRowsKeepsAlerts DEF MarkIpBlocked, TypeInv
  <2>2. Goto(th, "mark_insert") \/ Goto(th, "answer")
    BY <1>2 DEF MarkIpBlocked
  <2> QED
    BY <1>1, <1>2, <2>1, <2>2, GotoKeepsCalls, UnchangedTables DEF Framed, Labels
<1>3. ASSUME MarkIpInsert(th, "answer")
      PROVE  Framed(th)
  <2> DEFINE row == [ip |-> call[th].ip, attempts |-> 0, blocked |-> TRUE]
  <2>1. /\ call[th].pc = "mark_insert" /\ UNCHANGED <<rules, records>>
        /\ alerts' = PutRow(NextId(DOMAIN alerts), row) /\ Goto(th, "answer")
    BY <1>3 DEF MarkIpInsert, At
  <2>2. row \in Row
    BY <1>1, <2>1 DEF GoodCall, Row
  <2> HIDE DEF row
  <2>3. AlertsInv'
    BY <2>1, <2>2, PutRowKeepsAlerts DEF TypeInv
  <2> QED
    BY <1>1, <2>1, <2>3, GotoKeepsCalls, UnchangedTables DEF Framed, Labels
<1>4. ASSUME call[th].pc = "returned" /\ MarkIpUnblocked(th, "answer")
      PROVE  Framed(th)
  <2>1. AlertsInv' /\ UNCHANGED <<rules, records>> /\ Goto(th, "answer")
    BY <1>4, MarkRowsKeepsAlerts DEF MarkIpUnblocked, TypeInv
  <2> QED
    BY <1>1, <1>4, <2>1, GotoKeepsCalls, UnchangedTables DEF Framed, Labels
<1>5. Framed(th) /\ call[th].pc \notin {"idle", "notify"}
  BY <1>2, <1>3, <1>4 DEF ApiMark, At, MarkIpInsert
<1> QED
  BY <1>1, <1>5, FramedKeepsTypes DEF ApiMark

(* A call that begins.                                                     *)
LEMMA BeginKeepsCalls ==
  ASSUME TypeInv, NEW th \in Threads, NEW op \in {"breach", "block", "unblock"},
         NEW ip \in IPs, NEW label \in Labels \ {"upsert_save"}, Begin(th, op, ip, label)
  PROVE  /\ Framed(th) /\ call[th].pc = "idle"
         /\ call'[th].op = op /\ call'[th].ip = ip /\ call'[th].pc = label
         /\ UNCHANGED <<rules, records, alerts, blocks>>
<1> DEFINE c == [Idle EXCEPT !.op = op, !.ip = ip, !.pc = label]
<1>1. /\ call \in [Threads -> GoodCall] /\ rules \subseteq IPs
      /\ call[th].pc = "idle" /\ UNCHANGED <<rules, records, alerts, blocks>>
      /\ call' = [call EXCEPT ![th] = c]
  BY DEF TypeInv, Begin, MayStart, At
<1>2. c \in GoodCall /\ c.op = op /\ c.ip = ip /\ c.pc = label
  BY DEF Idle, GoodCall, Call, Labels
<1> HIDE DEF c
<1>3. call' \in [Threads -> GoodCall] /\ call'[th] = c
      /\ \A o \in Threads \ {th} : call'[o] = call[o]
  BY <1>1, <1>2
<1>4. Framed(th)
  BY <1>1, <1>3, UnchangedTables DEF Framed
<1> QED
  BY <1>1, <1>2, <1>3, <1>4

\* The worker's handler before and after its service call keeps the type invariant.
LEMMA WorkerKeepsTypes ==
  ASSUME TypeInv, OnBlocked \/ OnNotBlocked \/ Notify
  PROVE  TypeInv'
<1>1. /\ Worker \in Threads /\ call \in [Threads -> GoodCall]
      /\ rules \subseteq IPs
  BY DEF TypeInv, Threads
<1>2. CASE OnBlocked
  <2>1. /\ call[Worker].pc = "returned"
        /\ alerts' = MarkRows({call[Worker].alert}, TRUE) /\ Goto(Worker, "notify")
        /\ UNCHANGED <<rules, records, breaches>> /\ blocks' = blocks + 1
    BY <1>2 DEF OnBlocked, MarkBlocked, At
  <2>2. AlertsInv'
    BY <2>1, MarkRowsKeepsAlerts DEF TypeInv
  <2>3. /\ call' \in [Threads -> GoodCall]
        /\ call'[Worker] = [call[Worker] EXCEPT !.pc = "notify"]
    BY <1>1, <2>1, GotoKeepsCalls DEF Labels
  <2>4. call'[Worker].pc = "notify"
    BY <1>1, <2>3 DEF GoodCall, Call
  <2>5. CountInv'
    BY <2>1, <2>4 DEF TypeInv, CountInv
  <2> QED
    BY <1>1, <2>1, <2>2, <2>3, <2>5, UnchangedTables DEF TypeInv
<1>3. CASE OnNotBlocked
  <2>1. /\ call[Worker].pc = "returned" /\ Goto(Worker, "notify")
        /\ UNCHANGED <<rules, records, alerts, breaches, blocks>>
    BY <1>3 DEF OnNotBlocked, At
  <2>2. Framed(Worker)
    BY <1>1, <2>1, GotoKeepsCalls, UnchangedTables DEF Framed, Labels
  <2> QED
    BY <1>1, <2>1, <2>2, FramedKeepsTypes
<1>4. CASE Notify
  <2>1. Finish(Worker) /\ UNCHANGED <<rules, records, alerts, breaches, blocks>>
    BY <1>4 DEF Notify
  <2>2. call' \in [Threads -> GoodCall] /\ call'[Worker].pc = "idle"
    BY <1>1, <2>1, FinishKeepsCalls DEF Idle
  <2>3. CountInv'
    BY <2>1, <2>2 DEF TypeInv, CountInv
  <2> QED
    BY <1>1, <2>1, <2>2, <2>3, UnchangedTables DEF TypeInv
<1> QED
  BY <1>2, <1>3, <1>4

\* Empty tables and idle threads are well formed.
LEMMA InitTypes == Init => TypeInv
<1> SUFFICES ASSUME Init PROVE TypeInv
  OBVIOUS
<1>1. DOMAIN records = {} /\ RecordIds = {} /\ DOMAIN alerts = {} /\ rules = {}
  BY DEF Init, RecordIds
<1>2. HasTop({})
  BY DEF HasTop
<1>3. RecordsInv /\ AlertsInv
  BY <1>1, <1>2 DEF RecordsInv, AlertsInv
<1>4. Idle \in GoodCall /\ Idle.pc = "idle"
  BY DEF Idle, GoodCall, Call, Labels
<1>5. call \in [Threads -> GoodCall] /\ call[Worker].pc = "idle"
  BY <1>4 DEF Init, Threads
<1>6. CountInv
  BY <1>5, EnforcementAssumption DEF Init, CountInv
<1> QED
  BY <1>1, <1>3, <1>5, <1>6 DEF TypeInv

\* The type invariant is inductive: one case per action of Next.
LEMMA NextKeepsTypes == TypeInv /\ [Next]_vars => TypeInv'
<1> SUFFICES ASSUME TypeInv, [Next]_vars PROVE TypeInv'
  OBVIOUS
<1>0. /\ Worker \in Threads /\ WebThreads \subseteq Threads
      /\ call \in [Threads -> GoodCall] /\ rules \subseteq IPs /\ CountInv
  BY DEF TypeInv, Threads
<1>1. ASSUME NEW ip \in IPs, Breach(ip) PROVE TypeInv'
  <2>1. Begin(Worker, "breach", ip, "upsert_select")
        /\ breaches < MaxBreaches /\ breaches' = breaches + 1
    BY <1>1 DEF Breach
  <2>2. Framed(Worker) /\ blocks' = blocks
    BY <1>0, <2>1, BeginKeepsCalls DEF Labels
  <2>3. CountInv'
    BY <1>0, <2>1, <2>2, EnforcementAssumption DEF CountInv
  <2> QED
    BY <2>2, <2>3 DEF TypeInv, Framed
<1>2. CASE PersistBreach
  BY <1>2, UpsertKeepsTypes
<1>3. ASSUME NEW th \in Threads, ServiceStep(th) PROVE TypeInv'
  BY <1>3, ServiceKeepsTypes
<1>4. CASE OnBlocked \/ OnNotBlocked \/ Notify
  BY <1>4, WorkerKeepsTypes
<1>5. ASSUME NEW th \in WebThreads, NEW ip \in IPs, ApiBlock(th, ip) \/ ApiUnblock(th, ip)
      PROVE  TypeInv'
  <2>1. Framed(th) /\ UNCHANGED <<breaches, blocks>>
    BY <1>0, <1>5, BeginKeepsCalls DEF ApiBlock, ApiUnblock, Labels
  <2>2. call'[Worker] = call[Worker]
    BY <1>0, <2>1, SharedStateAssumption DEF Framed
  <2> QED
    BY <1>0, <2>1, <2>2 DEF TypeInv, Framed, CountInv
<1>6. ASSUME NEW th \in WebThreads, ApiMark(th) PROVE TypeInv'
  BY <1>6, ApiMarkKeepsTypes
<1>7. ASSUME NEW th \in Threads, Finish(th),
             UNCHANGED <<rules, records, alerts, breaches>>,
             blocks' = blocks \/ (th = Worker /\ blocks' = 0)
      PROVE  TypeInv'
  <2>1. /\ call' \in [Threads -> GoodCall]
        /\ call'[Worker] = call[Worker] \/ call'[Worker].pc = "idle"
    BY <1>0, <1>7, FinishKeepsCalls DEF Idle
  <2>2. CountInv'
    <3>1. CASE blocks' = blocks
      BY <1>0, <1>7, <2>1, <3>1 DEF CountInv
    <3>2. CASE th = Worker /\ blocks' = 0
      <4>1. call'[Worker].pc = "idle"
        BY <1>0, <1>7, <3>2, FinishKeepsCalls DEF Idle
      <4> QED
        BY <1>0, <1>7, <3>2, <4>1 DEF CountInv
    <3> QED
      BY <1>7, <3>1, <3>2
  <2> QED
    BY <1>0, <1>7, <2>1, <2>2, UnchangedTables DEF TypeInv
<1>8. ASSUME NEW th \in WebThreads, ApiAnswer(th) PROVE TypeInv'
  BY <1>0, <1>7, <1>8 DEF ApiAnswer
<1>9. ASSUME NEW th \in Threads, Raise(th) PROVE TypeInv'
  BY <1>7, <1>9 DEF Raise
<1>10. CASE WorkerCrash
  BY <1>0, <1>7, <1>10 DEF WorkerCrash
<1>11. CASE WebCrash
  <2>1. Idle \in GoodCall
    BY DEF Idle, GoodCall, Call, Labels
  <2>2. call' \in [Threads -> GoodCall] /\ call'[Worker] = call[Worker]
    BY <1>0, <1>11, <2>1, SharedStateAssumption DEF WebCrash
  <2> QED
    BY <1>0, <1>11, <2>2, UnchangedTables DEF TypeInv, CountInv, WebCrash
<1>12. CASE DeleteAll
  <2>1. DOMAIN records' = {} /\ DOMAIN alerts' = {} /\ UNCHANGED <<rules, call, breaches, blocks>>
    BY <1>12 DEF DeleteAll
  <2>2. RecordIds' = {} /\ HasTop({})
    BY <2>1 DEF RecordIds, HasTop
  <2>3. RecordsInv' /\ AlertsInv'
    BY <2>1, <2>2 DEF RecordsInv, AlertsInv, HasTop
  <2> QED
    BY <1>0, <2>1, <2>3 DEF TypeInv, CountInv
<1>13. CASE UNCHANGED vars
  BY <1>0, <1>13, UnchangedTables DEF TypeInv, CountInv, vars
<1> QED
  BY <1>0, <1>1, <1>2, <1>3, <1>4, <1>5, <1>6, <1>8, <1>9, <1>10, <1>11, <1>12, <1>13
     DEF Next, WorkerStep, WebStep

\* The strengthened type invariant holds in every reachable state.
LEMMA TypeInvariant == Spec => []TypeInv
BY InitTypes, NextKeepsTypes, PTL DEF Spec

(* The two tables, the firewall and the calls are well formed in every     *)
(* reachable state, and the worker never counts more blocks than breaches. *)
THEOREM EnforcementTypeCorrect == Spec => []TypeOK
<1>1. TypeInv => TypeOK
  <2> SUFFICES ASSUME TypeInv PROVE TypeOK
    OBVIOUS
  <2>1. call \in [Threads -> Call]
    BY DEF TypeInv, GoodCall
  <2>2. blocks \in 0 .. MaxBreaches
    BY EnforcementAssumption DEF TypeInv, CountInv
  <2> QED
    BY <2>1, <2>2 DEF TypeInv, RecordsInv, AlertsInv, CountInv, TypeOK
<1> QED
  BY <1>1, TypeInvariant, PTL

----------------------------------------------------------------------------
(* What a step does to the firewall, the records and its call.             *)

Moves(th, from, to) == call[th].pc = from /\ call'[th].pc = to

(* The call goes on with the same purpose, address and alert.              *)
SameCall(th) ==
  /\ call'[th].op = call[th].op
  /\ call'[th].ip = call[th].ip
  /\ call'[th].alert = call[th].alert
  /\ call'[th].row = call[th].row

(* What a step of the service does: a lookup finds a record or none, a     *)
(* record is marked, created or found created already, the firewall denies *)
(* or allows the address or refuses to.                                    *)
Found(th) ==
  /\ Recorded(th) /\ SameCall(th) /\ UNCHANGED <<rules, records>>
  /\ \/ Moves(th, "event_lookup", "event_remark")
     \/ Moves(th, "block_lookup", "block_remark")
     \/ Moves(th, "unblock_lookup", "unblock_allow")

Missing(th) ==
  /\ ~Recorded(th) /\ SameCall(th) /\ UNCHANGED <<rules, records>>
  /\ \/ Moves(th, "event_lookup", "event_deny")
     \/ Moves(th, "block_lookup", "block_create")
     \/ Moves(th, "unblock_lookup", "returned") /\ ~call'[th].ok

Marked(th) ==
  /\ SameCall(th) /\ UNCHANGED rules /\ DOMAIN records' = DOMAIN records
  /\ \/ Moves(th, "event_remark", "returned")
     \/ Moves(th, "block_remark", "returned")
     \/ Moves(th, "unblock_mark", "returned")

Denied(th) ==
  /\ SameCall(th) /\ UNCHANGED records /\ rules' = rules \cup {call[th].ip}
  /\ \/ Moves(th, "event_deny", "event_create")
     \/ Moves(th, "block_deny", "block_lookup")

WasRefused(th) ==
  /\ "refuse" \in Faults
  /\ SameCall(th) /\ UNCHANGED <<rules, records>> /\ ~call'[th].ok
  /\ \/ Moves(th, "event_deny", "returned")
     \/ Moves(th, "block_deny", "returned")
     \/ Moves(th, "unblock_allow", "returned")

Collided(th) ==
  /\ Recorded(th) /\ UNCHANGED <<rules, records>>
  /\ call[th].pc \in {"event_create", "block_create"}
  /\ call'[th] = Idle

Created(th) ==
  /\ ~Recorded(th) /\ SameCall(th) /\ UNCHANGED rules
  /\ DOMAIN records' = DOMAIN records \cup {call[th].ip}
  /\ \/ Moves(th, "event_create", "returned")
     \/ Moves(th, "block_create", "returned")

Lifted(th) ==
  /\ SameCall(th) /\ UNCHANGED records /\ rules' = rules \ {call[th].ip}
  /\ Moves(th, "unblock_allow", "unblock_mark")

Effect(th) ==
  \/ Found(th) \/ Missing(th) \/ Marked(th) \/ Denied(th)
  \/ WasRefused(th) \/ Collided(th) \/ Created(th) \/ Lifted(th)

----------------------------------------------------------------------------

(* How the pieces of the service change the call of their thread.          *)
LEMMA GotoEffect ==
  ASSUME TypeInv, NEW th \in Threads, NEW label \in Labels \ {"upsert_save"},
         call[th].pc # "idle", Goto(th, label)
  PROVE  SameCall(th) /\ call'[th].pc = label /\ call'[th].rec = call[th].rec
<1>1. call \in [Threads -> GoodCall] /\ call[th] \in Call
  BY DEF TypeInv, GoodCall
<1>2. call'[th] = [call[th] EXCEPT !.pc = label]
  BY <1>1, GotoKeepsCalls
<1> QED
  BY <1>1, <1>2 DEF SameCall, Call

\* A return changes no table, and hands its caller the result.
LEMMA ReturnEffect ==
  ASSUME TypeInv, NEW th \in Threads, NEW result \in BOOLEAN,
         call[th].pc # "idle", Return(th, result)
  PROVE  SameCall(th) /\ call'[th].pc = "returned" /\ call'[th].ok = result
<1>1. call \in [Threads -> GoodCall] /\ call[th] \in Call
  BY DEF TypeInv, GoodCall
<1>2. call'[th] = [call[th] EXCEPT !.pc = "returned", !.ok = result, !.rec = 0]
  BY <1>1, ReturnKeepsCalls
<1> QED
  BY <1>1, <1>2 DEF SameCall, Call

\* A lookup changes no table; it remembers the id of the row it read.
LEMMA FetchEffect ==
  ASSUME TypeInv, NEW th \in Threads, NEW label \in Labels \ {"upsert_save"},
         call[th].pc # "idle", Recorded(th), Fetch(th, label)
  PROVE  SameCall(th) /\ call'[th].pc = label /\ call'[th].rec = records[call[th].ip].id
<1>1. call \in [Threads -> GoodCall] /\ call[th] \in Call
  BY DEF TypeInv, GoodCall
<1> DEFINE r == records[call[th].ip].id
<1>2. call'[th] = [call[th] EXCEPT !.pc = label, !.rec = r]
  BY <1>1, FetchKeepsCalls DEF TypeInv
<1> HIDE DEF r
<1>3. SameCall(th) /\ call'[th].pc = label /\ call'[th].rec = r
  BY <1>1, <1>2 DEF SameCall, Call
<1> QED
  BY <1>3 DEF r

\* A mark changes the records of one id, and returns.
LEMMA MarkEffect ==
  ASSUME TypeInv, NEW th \in Threads, call[th].pc # "idle",
         NEW flag \in BOOLEAN, Mark(th, flag)
  PROVE  /\ SameCall(th) /\ call'[th].pc = "returned"
         /\ UNCHANGED rules /\ DOMAIN records' = DOMAIN records
         /\ records' = MarkRecord(call[th].rec, flag)
         /\ call[th].rec \in RecordIds => call'[th].ok
<1> DEFINE found == call[th].rec \in RecordIds
<1>1. /\ found \in BOOLEAN /\ Return(th, found) /\ UNCHANGED rules
      /\ records' = MarkRecord(call[th].rec, flag)
  BY DEF Mark
<1>2. DOMAIN records' = DOMAIN records
  BY MarkFramed
<1> HIDE DEF found
<1>3. SameCall(th) /\ call'[th].pc = "returned" /\ call'[th].ok = found
  BY <1>1, ReturnEffect
<1> QED
  BY <1>1, <1>2, <1>3 DEF found

\* A create adds one record, or raises on an address that has one.
LEMMA CreateEffect ==
  ASSUME TypeInv, NEW th \in Threads, NEW from \in {"event_create", "block_create"},
         call[th].pc = from, Create(th)
  PROVE  Collided(th) \/ Created(th)
<1>1. CASE Recorded(th)
  <2>1. Finish(th) /\ UNCHANGED <<rules, records>>
    BY <1>1 DEF Create
  <2>2. call'[th] = Idle
    BY <2>1, FinishKeepsCalls DEF TypeInv
  <2> QED
    BY <1>1, <2>1, <2>2 DEF Collided
<1>2. CASE ~Recorded(th)
  <2>1. /\ Return(th, TRUE) /\ UNCHANGED rules
        /\ records' = InsertRecord(call[th].ip)
    BY <1>2 DEF Create
  <2>2. SameCall(th) /\ call'[th].pc = "returned" /\ call'[th].ok = TRUE
    BY <2>1, ReturnEffect
  <2>3. DOMAIN records' = DOMAIN records \cup {call[th].ip}
    BY <2>1 DEF InsertRecord
  <2> QED
    BY <1>2, <2>1, <2>2, <2>3 DEF Created, Moves
<1> QED
  BY <1>1, <1>2

(* Every step of the service has one of the effects above.                 *)
LEMMA ServiceEffect ==
  ASSUME TypeInv, NEW th \in Threads, ServiceStep(th)
  PROVE  /\ Effect(th)
         /\ \A o \in Threads \ {th} : call'[o] = call[o]
         /\ UNCHANGED <<alerts, breaches, blocks>>
<1>1. BlockServiceStep(th) /\ UNCHANGED <<breaches, blocks>>
  BY DEF ServiceStep
<1>2. ASSUME Refused(th), call[th].pc \in {"event_deny", "block_deny", "unblock_allow"}
      PROVE  WasRefused(th) /\ UNCHANGED alerts
  BY <1>2, ReturnEffect DEF Refused, WasRefused, Moves
<1>3. Effect(th) /\ UNCHANGED alerts
  <2>1. CASE EventLookup(th)
    BY <2>1, FetchEffect, GotoEffect DEF EventLookup, At, Effect, Found, Missing, Moves, Labels
  <2>2. CASE EventRemark(th)
    BY <2>2, MarkEffect DEF EventRemark, At, Effect, Marked, Moves, Mark
  <2>3. CASE EventDeny(th)
    BY <1>2, <2>3, GotoEffect DEF EventDeny, Deny, At, Effect, Denied, Moves, Labels
  <2>4. CASE EventCreate(th)
    BY <2>4, CreateEffect DEF EventCreate, At, Effect, Create
  <2>5. CASE BlockDeny(th)
    BY <1>2, <2>5, GotoEffect DEF BlockDeny, Deny, At, Effect, Denied, Moves, Labels
  <2>6. CASE BlockLookup(th)
    BY <2>6, FetchEffect, GotoEffect DEF BlockLookup, At, Effect, Found, Missing, Moves, Labels
  <2>7. CASE BlockRemark(th)
    BY <2>7, MarkEffect DEF BlockRemark, At, Effect, Marked, Moves, Mark
  <2>8. CASE BlockCreate(th)
    BY <2>8, CreateEffect DEF BlockCreate, At, Effect, Create
  <2>9. CASE UnblockLookup(th)
    BY <2>9, FetchEffect, ReturnEffect DEF UnblockLookup, At, Effect, Found, Missing, Moves, Labels
  <2>10. CASE UnblockAllow(th)
    BY <1>2, <2>10, GotoEffect DEF UnblockAllow, At, Effect, Lifted, Moves, Labels
  <2>11. CASE UnblockMark(th)
    BY <2>11, MarkEffect DEF UnblockMark, At, Effect, Marked, Moves, Mark
  <2> QED
    BY <1>1, <2>1, <2>2, <2>3, <2>4, <2>5, <2>6, <2>7, <2>8, <2>9, <2>10, <2>11
       DEF BlockServiceStep
<1>4. Framed(th)
  BY ServiceFramed
<1> QED
  BY <1>1, <1>3, <1>4 DEF Framed

(* What else it does: the id it reads is the one it marks, a mark under an *)
(* id in use and a create succeed, and both write one record.              *)
Results(th) ==
  /\ call'[th].pc \in {"event_remark", "block_remark", "unblock_allow"} =>
       Recorded(th) /\ call'[th].rec = records[call[th].ip].id
  /\ call'[th].pc = "unblock_mark" => call'[th].rec = call[th].rec
  /\ call[th].pc \in {"event_remark", "block_remark"} =>
       /\ records' = MarkRecord(call[th].rec, TRUE)
       /\ call[th].rec \in RecordIds => call'[th].ok
  /\ call[th].pc = "unblock_mark" =>
       /\ records' = MarkRecord(call[th].rec, FALSE)
       /\ call[th].rec \in RecordIds => call'[th].ok
  /\ call[th].pc \in {"event_create", "block_create"} /\ ~Recorded(th) =>
       records' = InsertRecord(call[th].ip) /\ call'[th].ok
  /\ call[th].pc \notin {"event_remark", "block_remark", "unblock_mark",
                         "event_create", "block_create"} => UNCHANGED records

\* A step of the service marks the record it has looked up, or inserts the one it missed.
LEMMA ServiceResults ==
  ASSUME TypeInv, NEW th \in Threads, ServiceStep(th)
  PROVE  Results(th)
<1>1. BlockServiceStep(th)
  BY DEF ServiceStep
<1>2. ASSUME Refused(th), call[th].pc \in {"event_deny", "block_deny", "unblock_allow"}
      PROVE  Results(th)
  BY <1>2, ReturnEffect DEF Refused, Results
<1>3. ASSUME NEW from \in {"event_create", "block_create"}, call[th].pc = from, Create(th)
      PROVE  Results(th)
  <2>1. CASE Recorded(th)
    <3>1. call'[th] = Idle
      BY <1>3, <2>1, FinishKeepsCalls DEF Create, TypeInv
    <3>2. call'[th].pc = "idle"
      BY <3>1 DEF Idle
    <3> QED
      BY <1>3, <2>1, <3>2 DEF Results
  <2>2. CASE ~Recorded(th)
    <3>1. /\ call'[th].pc = "returned" /\ call'[th].ok = TRUE
          /\ records' = InsertRecord(call[th].ip)
      BY <1>3, <2>2, ReturnEffect DEF Create
    <3> QED
      BY <1>3, <2>2, <3>1 DEF Results
  <2> QED
    BY <2>1, <2>2
<1>4. CASE EventLookup(th)
  BY <1>4, FetchEffect, GotoEffect DEF EventLookup, At, Results, Labels
<1>5. CASE EventRemark(th)
  BY <1>5, MarkEffect DEF EventRemark, At, Results
<1>6. CASE EventDeny(th)
  BY <1>2, <1>6, GotoEffect DEF EventDeny, Deny, At, Results, Labels
<1>7. CASE EventCreate(th)
  BY <1>3, <1>7 DEF EventCreate, At
<1>8. CASE BlockDeny(th)
  BY <1>2, <1>8, GotoEffect DEF BlockDeny, Deny, At, Results, Labels
<1>9. CASE BlockLookup(th)
  BY <1>9, FetchEffect, GotoEffect DEF BlockLookup, At, Results, Labels
<1>10. CASE BlockRemark(th)
  BY <1>10, MarkEffect DEF BlockRemark, At, Results
<1>11. CASE BlockCreate(th)
  BY <1>3, <1>11 DEF BlockCreate, At
<1>12. CASE UnblockLookup(th)
  <2>1. call[th].pc = "unblock_lookup" /\ UNCHANGED records
    BY <1>12 DEF UnblockLookup, At
  <2>2. CASE Recorded(th)
    <3>1. call'[th].pc = "unblock_allow" /\ call'[th].rec = records[call[th].ip].id
      BY <1>12, <2>1, <2>2, FetchEffect DEF UnblockLookup, Labels
    <3> QED
      BY <2>1, <2>2, <3>1 DEF Results
  <2>3. CASE ~Recorded(th)
    <3>1. call'[th].pc = "returned"
      BY <1>12, <2>1, <2>3, ReturnEffect DEF UnblockLookup
    <3> QED
      BY <2>1, <3>1 DEF Results
  <2> QED
    BY <2>2, <2>3
<1>13. CASE UnblockAllow(th)
  BY <1>2, <1>13, GotoEffect DEF UnblockAllow, At, Results, Labels
<1>14. CASE UnblockMark(th)
  BY <1>14, MarkEffect DEF UnblockMark, At, Results
<1> QED
  BY <1>1, <1>4, <1>5, <1>6, <1>7, <1>8, <1>9, <1>10, <1>11, <1>12, <1>13, <1>14
     DEF BlockServiceStep

(* Where a call is when it is not inside the service.                      *)
Outside == {"idle", "upsert_select", "upsert_insert", "upsert_save", "event_lookup",
            "block_deny", "unblock_lookup", "mark_insert", "notify", "answer"}

BreaksOff == Faults \cap {"raise", "crash"} # {}

(* A step of neither the service nor the administrator: a call stays       *)
(* outside the service, leaves it with its result, or breaks off.          *)
Quiet ==
  /\ UNCHANGED <<rules, records>>
  /\ \A th \in Threads :
       \/ call'[th] = call[th]
       \/ /\ call'[th].pc \in Outside
          /\ call'[th].pc = "unblock_lookup" => "unblock" \in WebOps
          /\ call[th].pc \in Outside \cup {"returned"} \/ BreaksOff

\* Every step of Next is a step of the service or touches none of what the service writes.
LEMMA StepCases ==
  ASSUME TypeInv, [Next]_vars
  PROVE  \/ \E th \in Threads : ServiceStep(th)
         \/ AdminDeletes /\ DeleteAll
         \/ Quiet
<1>0. /\ Worker \in Threads /\ WebThreads \subseteq Threads
      /\ call \in [Threads -> GoodCall]
  BY DEF TypeInv, Threads
<1>99. ASSUME NEW th \in Threads, UNCHANGED <<rules, records>>,
             \A o \in Threads \ {th} : call'[o] = call[o],
             call'[th].pc \in Outside \ {"unblock_lookup"},
             call[th].pc \in Outside \cup {"returned"} \/ BreaksOff
      PROVE  Quiet
  BY <1>99 DEF Quiet
<1>1. ASSUME NEW ip \in IPs, Breach(ip) PROVE Quiet
  <2>1. Begin(Worker, "breach", ip, "upsert_select")
    BY <1>1 DEF Breach
  <2>2. /\ Framed(Worker) /\ call[Worker].pc = "idle" /\ UNCHANGED <<rules, records>>
        /\ call'[Worker].pc = "upsert_select"
    BY <1>0, <2>1, BeginKeepsCalls DEF Labels
  <2> QED
    BY <1>0, <1>99, <2>2 DEF Framed, Outside
<1>2. CASE PersistBreach
  <2>1. CASE UpsertSelect(Worker)
    <3>1. /\ call[Worker].pc = "upsert_select" /\ UNCHANGED <<rules, records>>
          /\ \A o \in Threads \ {Worker} : call'[o] = call[o]
      BY <1>0, <2>1 DEF UpsertSelect, At, Goto
    <3>2. call'[Worker].pc \in {"upsert_insert", "upsert_save"}
      <4>1. CASE Goto(Worker, "upsert_insert")
        BY <1>0, <4>1 DEF Goto, GoodCall, Call
      <4>2. ASSUME NEW id \in RowsOf(call[Worker].ip),
                   call' = [call EXCEPT ![Worker].pc = "upsert_save",
                                        ![Worker].alert = id,
                                        ![Worker].row = alerts[id]]
            PROVE  call'[Worker].pc = "upsert_save"
        BY <1>0, <4>2 DEF GoodCall, Call
      <4> QED
        BY <2>1, <4>1, <4>2 DEF UpsertSelect
    <3> QED
      BY <1>0, <1>99, <3>1, <3>2 DEF Outside
  <2>2. CASE UpsertInsert(Worker, "event_lookup") \/ UpsertSave(Worker, "event_lookup")
    <3>1. /\ call[Worker].pc \in {"upsert_insert", "upsert_save"}
          /\ UNCHANGED <<rules, records>>
      BY <2>2 DEF UpsertInsert, UpsertSave, At
    <3>2. /\ \A o \in Threads \ {Worker} : call'[o] = call[o]
          /\ call'[Worker].pc = "event_lookup"
      BY <1>0, <2>2 DEF UpsertInsert, UpsertSave, GoodCall, Call
    <3> QED
      BY <1>0, <1>99, <3>1, <3>2 DEF Outside
  <2> QED
    BY <1>2, <2>1, <2>2 DEF PersistBreach
<1>3. CASE OnBlocked \/ OnNotBlocked
  <2>1. /\ call[Worker].pc = "returned" /\ Goto(Worker, "notify")
        /\ UNCHANGED <<rules, records>>
    BY <1>3 DEF OnBlocked, OnNotBlocked, MarkBlocked, At
  <2>2. call'[Worker].pc = "notify" /\ \A o \in Threads \ {Worker} : call'[o] = call[o]
    BY <1>0, <2>1, GotoEffect DEF Labels, Goto
  <2> QED
    BY <1>0, <1>99, <2>1, <2>2 DEF Outside
<1>4. ASSUME NEW th \in Threads, Finish(th), UNCHANGED <<rules, records>>,
             call[th].pc \in Outside \cup {"returned"} \/ BreaksOff
      PROVE  Quiet
  <2>1. call'[th].pc = "idle" /\ \A o \in Threads \ {th} : call'[o] = call[o]
    BY <1>0, <1>4, FinishKeepsCalls DEF Idle
  <2> QED
    BY <1>99, <1>4, <2>1 DEF Outside
<1>5. CASE Notify
  BY <1>0, <1>4, <1>5 DEF Notify, At, Outside
<1>6. ASSUME NEW th \in WebThreads, NEW ip \in IPs, ApiBlock(th, ip) PROVE Quiet
  <2>1. Begin(th, "block", ip, "block_deny")
    BY <1>6 DEF ApiBlock
  <2>2. /\ Framed(th) /\ call[th].pc = "idle" /\ UNCHANGED <<rules, records>>
        /\ call'[th].pc = "block_deny"
    BY <1>0, <2>1, BeginKeepsCalls DEF Labels
  <2> QED
    BY <1>0, <1>99, <2>2 DEF Framed, Outside
<1>7. ASSUME NEW th \in WebThreads, NEW ip \in IPs, ApiUnblock(th, ip) PROVE Quiet
  <2>1. Begin(th, "unblock", ip, "unblock_lookup") /\ "unblock" \in WebOps
    BY <1>7 DEF ApiUnblock
  <2>2. /\ Framed(th) /\ call[th].pc = "idle" /\ UNCHANGED <<rules, records>>
        /\ call'[th].pc = "unblock_lookup"
    BY <1>0, <2>1, BeginKeepsCalls DEF Labels
  <2> QED
    BY <1>0, <2>1, <2>2 DEF Framed, Outside, Quiet
<1>8. ASSUME NEW th \in WebThreads, ApiMark(th) PROVE Quiet
  <2>1. /\ call[th].pc \in {"returned", "mark_insert"} /\ UNCHANGED <<rules, records>>
        /\ Goto(th, "mark_insert") \/ Goto(th, "answer")
    BY <1>8 DEF ApiMark, MarkIpBlocked, MarkIpInsert, MarkIpUnblocked, At
  <2>2. /\ call'[th].pc \in {"mark_insert", "answer"}
        /\ \A o \in Threads \ {th} : call'[o] = call[o]
    BY <1>0, <2>1, GotoEffect DEF Labels, Goto
  <2> QED
    BY <1>0, <1>99, <2>1, <2>2 DEF Outside
<1>9. ASSUME NEW th \in WebThreads, ApiAnswer(th) PROVE Quiet
  BY <1>0, <1>4, <1>9 DEF ApiAnswer, At, Outside
<1>10. ASSUME NEW th \in Threads, Raise(th) PROVE Quiet
  BY <1>4, <1>10 DEF Raise, BreaksOff
<1>11. CASE WorkerCrash
  BY <1>0, <1>4, <1>11 DEF WorkerCrash, BreaksOff
<1>12. CASE WebCrash
  <2>1. \A th \in Threads : call'[th] = call[th] \/ call'[th].pc = "idle"
    BY <1>12 DEF WebCrash, Idle
  <2>2. UNCHANGED <<rules, records>> /\ BreaksOff
    BY <1>12 DEF WebCrash, BreaksOff
  <2> QED
    BY <2>1, <2>2 DEF Quiet, Outside
<1>13. CASE UNCHANGED vars
  BY <1>13 DEF vars, Quiet
<1>14. DeleteAll => AdminDeletes
  BY DEF DeleteAll
<1> QED
  BY <1>0, <1>1, <1>2, <1>3, <1>5, <1>6, <1>7, <1>8, <1>9, <1>10, <1>11, <1>12, <1>13, <1>14
     DEF Next, WorkerStep, WebStep

----------------------------------------------------------------------------
(* RecordsCreatedUnderRule.  A call that is on its way from the rule to    *)
(* the record is protected: either the rule stands, or a record exists and *)
(* the call will create none.  A rule is only taken away under a record.   *)
BetweenRuleAndRecord == {"event_create", "block_lookup", "block_create"}

UnderRule ==
  \A th \in Threads :
    /\ call[th].pc \in BetweenRuleAndRecord => call[th].ip \in rules \cup DOMAIN records
    /\ call[th].pc = "unblock_allow" => Recorded(th)

\* The service creates a record only behind a deny that was accepted.
LEMMA ServiceKeepsUnderRule ==
  ASSUME TypeInv, UnderRule, NEW th \in Threads, ServiceStep(th)
  PROVE  /\ UnderRule'
         /\ \A ip \in DOMAIN records' \ DOMAIN records : ip \in rules
<1>1. Effect(th) /\ \A o \in Threads \ {th} : call'[o] = call[o]
  BY ServiceEffect
<1>2. /\ DOMAIN records \subseteq DOMAIN records'
      /\ rules \ DOMAIN records \subseteq rules'
      /\ \A ip \in DOMAIN records' \ DOMAIN records : ip \in rules
  BY <1>1 DEF Effect, Found, Missing, Marked, Denied, WasRefused, Collided, Created,
              Lifted, Moves, UnderRule, BetweenRuleAndRecord, Recorded
<1>3. ASSUME NEW o \in Threads \ {th}
      PROVE  /\ call'[o].pc \in BetweenRuleAndRecord =>
                  call'[o].ip \in rules' \cup DOMAIN records'
             /\ call'[o].pc = "unblock_allow" => call'[o].ip \in DOMAIN records'
  BY <1>1, <1>2 DEF UnderRule, Recorded
<1>4. /\ call'[th].pc \in BetweenRuleAndRecord =>
           call'[th].ip \in rules' \cup DOMAIN records'
      /\ call'[th].pc = "unblock_allow" => call'[th].ip \in DOMAIN records'
  BY <1>1 DEF Effect, Found, Missing, Marked, Denied, WasRefused, Collided, Created,
              Lifted, Moves, SameCall, UnderRule, BetweenRuleAndRecord, Recorded, Idle
<1> QED
  BY <1>2, <1>3, <1>4 DEF UnderRule, Recorded

\* Between the deny and the create of a call nobody lifts the rule.
LEMMA NextKeepsUnderRule ==
  ASSUME AdminDeletes = FALSE
  PROVE  TypeInv /\ UnderRule /\ [Next]_vars =>
           /\ UnderRule'
           /\ \A ip \in DOMAIN records' \ DOMAIN records : ip \in rules
<1> SUFFICES ASSUME TypeInv, UnderRule, [Next]_vars
             PROVE  /\ UnderRule'
                    /\ \A ip \in DOMAIN records' \ DOMAIN records : ip \in rules
  OBVIOUS
<1>1. ASSUME NEW th \in Threads, ServiceStep(th)
      PROVE  /\ UnderRule'
             /\ \A ip \in DOMAIN records' \ DOMAIN records : ip \in rules
  BY <1>1, ServiceKeepsUnderRule
<1>2. CASE Quiet
  BY <1>2 DEF Quiet, Outside, UnderRule, BetweenRuleAndRecord, Recorded
<1> QED
  BY <1>1, <1>2, StepCases

(* Whatever is asked of the web server and whatever fails, a record is     *)
(* created only while the firewall denies its address, as long as nobody   *)
(* deletes the tables: block_service.py persists after the strategy.       *)
THEOREM RecordsUnderRule ==
  ASSUME AdminDeletes = FALSE
  PROVE  Spec => RecordsCreatedUnderRule
<1>1. Init => UnderRule
  BY DEF Init, UnderRule, Idle, BetweenRuleAndRecord
<1>2. TypeInv /\ UnderRule /\ [Next]_vars =>
        UnderRule' /\ [\A ip \in DOMAIN records' \ DOMAIN records : ip \in rules]_vars
  BY NextKeepsUnderRule
<1> QED
  BY <1>1, <1>2, TypeInvariant, PTL DEF Spec, RecordsCreatedUnderRule

----------------------------------------------------------------------------
(* DenialsAreUndoable.  A rule has a record, or a call that is about to    *)
(* create it.                                                              *)
Undoable ==
  \A ip \in rules :
    \/ ip \in DOMAIN records
    \/ \E th \in Threads : call[th].ip = ip /\ call[th].pc \in BetweenRuleAndRecord

\* The service denies only addresses on record, or about to be.
LEMMA ServiceKeepsUndoable ==
  ASSUME TypeInv, Undoable, NEW th \in Threads, ServiceStep(th)
  PROVE  Undoable'
<1>1. Effect(th) /\ \A o \in Threads \ {th} : call'[o] = call[o]
  BY ServiceEffect
<1>2. DOMAIN records \subseteq DOMAIN records' /\ rules' \subseteq rules \cup {call[th].ip}
  BY <1>1 DEF Effect, Found, Missing, Marked, Denied, WasRefused, Collided, Created, Lifted
<1>3. call[th].ip \in rules' \ rules =>
        call'[th].ip = call[th].ip /\ call'[th].pc \in BetweenRuleAndRecord
  BY <1>1 DEF Effect, Found, Missing, Marked, Denied, WasRefused, Collided, Created,
              Lifted, Moves, SameCall, BetweenRuleAndRecord
<1>4. call[th].pc \in BetweenRuleAndRecord =>
        \/ call[th].ip \in DOMAIN records'
        \/ call'[th].ip = call[th].ip /\ call'[th].pc \in BetweenRuleAndRecord
  BY <1>1 DEF Effect, Found, Missing, Marked, Denied, WasRefused, Collided, Created,
              Lifted, Moves, SameCall, BetweenRuleAndRecord, Recorded
<1>5. ASSUME NEW ip \in rules'
      PROVE  \/ ip \in DOMAIN records'
             \/ \E o \in Threads : call'[o].ip = ip /\ call'[o].pc \in BetweenRuleAndRecord
  <2>1. CASE ip \notin rules
    BY <1>2, <1>3, <2>1
  <2>2. CASE ip \in DOMAIN records
    BY <1>2, <2>2
  <2>3. CASE \E o \in Threads : call[o].ip = ip /\ call[o].pc \in BetweenRuleAndRecord
    BY <1>1, <1>4, <2>3
  <2> QED
    BY <2>1, <2>2, <2>3 DEF Undoable
<1> QED
  BY <1>5 DEF Undoable

\* So does every step, if no call breaks off between the rule and the record.
LEMMA NextKeepsUndoable ==
  ASSUME AdminDeletes = FALSE, "raise" \notin Faults, "crash" \notin Faults
  PROVE  TypeInv /\ Undoable /\ [Next]_vars => Undoable'
<1> SUFFICES ASSUME TypeInv, Undoable, [Next]_vars PROVE Undoable'
  OBVIOUS
<1>1. ASSUME NEW th \in Threads, ServiceStep(th) PROVE Undoable'
  BY <1>1, ServiceKeepsUndoable
<1>2. CASE Quiet
  <2>1. \A th \in Threads : call[th].pc \in BetweenRuleAndRecord => call'[th] = call[th]
    BY <1>2 DEF Quiet, Outside, BetweenRuleAndRecord, BreaksOff
  <2> QED
    BY <1>2, <2>1 DEF Quiet, Undoable
<1> QED
  BY <1>1, <1>2, StepCases

(* Every denied address can be unblocked once the calls have ended, if no  *)
(* call breaks off and nobody deletes the tables: unblock_ip (block_       *)
(* service.py 140-143) asks the firewall only for an address on record.    *)
THEOREM DenialsUndoable ==
  ASSUME AdminDeletes = FALSE, "raise" \notin Faults, "crash" \notin Faults
  PROVE  Spec => []DenialsAreUndoable
<1>1. Init => Undoable
  BY DEF Init, Undoable
<1>2. Undoable => DenialsAreUndoable
  BY DEF Undoable, DenialsAreUndoable, AllIdle, At, BetweenRuleAndRecord
<1> QED
  BY <1>1, <1>2, NextKeepsUndoable, TypeInvariant, PTL DEF Spec

----------------------------------------------------------------------------
(* Without unblocking, rules only grow.  A call past the rule, or with a   *)
(* success to return, stands on a denied address.                          *)
PastRule == {"event_remark", "event_create", "block_lookup", "block_remark", "block_create"}

Enforced ==
  /\ DOMAIN records \subseteq rules
  /\ \A th \in Threads :
       /\ call[th].pc \in PastRule => call[th].ip \in rules
       /\ call[th].pc \notin {"unblock_lookup", "unblock_allow", "unblock_mark"}
       /\ call[th].pc = "returned" /\ call[th].ok => call[th].ip \in rules

\* With no unblock, the service keeps a rule under every record.
LEMMA ServiceKeepsEnforced ==
  ASSUME TypeInv, Enforced, NEW th \in Threads, ServiceStep(th)
  PROVE  Enforced' /\ rules \subseteq rules'
<1>1. /\ Effect(th) /\ Worker \in Threads
      /\ \A o \in Threads \ {th} : call'[o] = call[o]
  BY ServiceEffect DEF Threads
<1>2. rules \subseteq rules' /\ DOMAIN records' \subseteq rules'
  BY <1>1 DEF Effect, Found, Missing, Marked, Denied, WasRefused, Collided, Created,
              Lifted, Moves, Enforced, PastRule
<1>3. /\ call'[th].pc \in PastRule => call'[th].ip \in rules'
      /\ call'[th].pc \notin {"unblock_lookup", "unblock_allow", "unblock_mark"}
      /\ call'[th].pc = "returned" /\ call'[th].ok => call'[th].ip \in rules'
  BY <1>1 DEF Effect, Found, Missing, Marked, Denied, WasRefused, Collided, Created,
              Lifted, Moves, SameCall, Enforced, PastRule, Recorded, Idle
<1> QED
  BY <1>1, <1>2, <1>3 DEF Enforced

\* So does every step of the system.
LEMMA NextKeepsEnforced ==
  ASSUME "unblock" \notin WebOps
  PROVE  TypeInv /\ Enforced /\ [Next]_vars => Enforced' /\ rules \subseteq rules'
<1> SUFFICES ASSUME TypeInv, Enforced, [Next]_vars
             PROVE  Enforced' /\ rules \subseteq rules'
  OBVIOUS
<1>1. ASSUME NEW th \in Threads, ServiceStep(th) PROVE Enforced' /\ rules \subseteq rules'
  BY <1>1, ServiceKeepsEnforced
<1>2. CASE Quiet
  BY <1>2 DEF Quiet, Outside, Enforced, PastRule, Threads
<1>3. CASE DeleteAll
  BY <1>3 DEF DeleteAll, Enforced
<1> QED
  BY <1>1, <1>2, <1>3, StepCases

\* With no unblock, every record has its rule in every reachable state.
LEMMA EnforcedInvariant ==
  ASSUME "unblock" \notin WebOps
  PROVE  Spec => []Enforced
<1>1. Init => Enforced
  BY DEF Init, Enforced, Threads, Idle, PastRule
<1> QED
  BY <1>1, NextKeepsEnforced, TypeInvariant, PTL DEF Spec

(* Without unblocking every record of blocked_ips is of a denied address,  *)
(* whichever calls are refused, break off or die, and even if the tables   *)
(* are deleted under them: the strategy comes first, the record second.    *)
THEOREM RecordsEnforced ==
  ASSUME "unblock" \notin WebOps
  PROVE  Spec => []RecordsAreEnforced
<1>1. Enforced => RecordsAreEnforced
  BY DEF Enforced, RecordsAreEnforced
<1> QED
  BY <1>1, EnforcedInvariant, PTL

\* Only OnBlocked makes the counter grow, with a success in its hands.
LEMMA CountStands ==
  ASSUME TypeInv, Enforced, [Next]_vars, blocks' > blocks
  PROVE  call[Worker].ip \in rules
<1>1. blocks \in Nat
  BY DEF TypeInv, CountInv
<1>2. blocks' # blocks /\ blocks' # 0
  BY <1>1
<1>3. OnBlocked
  BY <1>2 DEF Next, vars, WorkerStep, WebStep, ServiceStep, Breach, Begin, PersistBreach,
              OnNotBlocked, Notify, ApiBlock, ApiUnblock, ApiMark, ApiAnswer, Raise, WorkerCrash,
              WebCrash, DeleteAll
<1> QED
  BY <1>3 DEF OnBlocked, At, Enforced, Threads

(* Nor does the worker count a block of an address that is not denied.     *)
THEOREM CountedBlocksEnforced ==
  ASSUME "unblock" \notin WebOps
  PROVE  Spec => CountedBlocksAreEnforced
<1>1. TypeInv /\ Enforced /\ [Next]_vars => [blocks' > blocks => call[Worker].ip \in rules]_vars
  BY CountStands
<1> QED
  BY <1>1, TypeInvariant, EnforcedInvariant, PTL DEF Spec, CountedBlocksAreEnforced

----------------------------------------------------------------------------
(* FlagsAreEnforced.  The worker carries a row, or the id of a row, from   *)
(* one statement to another.  The row is of its own address; the id may    *)
(* have been given, after a deletion, to a row that the web server has     *)
(* inserted, but such a row is already marked blocked.                     *)
BeforeAlert == {"idle", "upsert_select", "upsert_insert", "upsert_save", "notify"}

Flagged ==
  /\ FlagsAreEnforced
  /\ \A th \in Threads :
       /\ call[th].pc \in {"returned", "mark_insert"} => call[th].ip \in rules
       /\ call[th].op # "unblock"
  /\ call[Worker].pc = "upsert_save" =>
       /\ call[Worker].row.ip = call[Worker].ip
       /\ call[Worker].row.blocked => call[Worker].ip \in rules
  /\ call[Worker].pc \notin BeforeAlert /\ call[Worker].alert \in DOMAIN alerts =>
       \/ alerts[call[Worker].alert].ip = call[Worker].ip
       \/ alerts[call[Worker].alert].blocked

\* The service keeps what the flags of the alerts rest on.
LEMMA ServiceKeepsFlagged ==
  ASSUME "refuse" \notin Faults, TypeInv, Enforced, Flagged,
         NEW th \in Threads, ServiceStep(th)
  PROVE  Flagged'
<1>1. /\ Effect(th) /\ Worker \in Threads /\ UNCHANGED alerts
      /\ \A o \in Threads \ {th} : call'[o] = call[o]
  BY ServiceEffect DEF Threads
<1>2. rules \subseteq rules'
  BY ServiceKeepsEnforced
<1>3. FlagsAreEnforced'
  BY <1>1, <1>2 DEF Flagged, FlagsAreEnforced
<1>4. \/ call'[th] = Idle
      \/ SameCall(th) /\ call[th].pc \notin BeforeAlert /\ call'[th].pc \notin BeforeAlert
  BY <1>1 DEF Effect, Found, Missing, Marked, Denied, WasRefused, Collided, Created,
              Lifted, Moves, BeforeAlert
<1>5. call'[th].pc \in {"returned", "mark_insert"} => call'[th].ip \in rules'
  BY <1>1, <1>2 DEF Effect, Found, Missing, Marked, Denied, WasRefused, Collided, Created,
              Lifted, Moves, SameCall, Enforced, PastRule, Idle
<1>6. call'[th].op # "unblock"
  BY <1>4 DEF SameCall, Flagged, Idle
<1>7. /\ call'[Worker].pc = "upsert_save" =>
           /\ call'[Worker].row.ip = call'[Worker].ip
           /\ call'[Worker].row.blocked => call'[Worker].ip \in rules'
      /\ call'[Worker].pc \notin BeforeAlert /\ call'[Worker].alert \in DOMAIN alerts' =>
           \/ alerts'[call'[Worker].alert].ip = call'[Worker].ip
           \/ alerts'[call'[Worker].alert].blocked
  <2>1. CASE th = Worker
    BY <1>1, <1>4, <2>1 DEF SameCall, Flagged, Idle, BeforeAlert
  <2>2. CASE th # Worker
    BY <1>1, <1>2, <2>2 DEF Flagged
  <2> QED
    BY <2>1, <2>2
<1> QED
  BY <1>1, <1>2, <1>3, <1>5, <1>6, <1>7 DEF Flagged

\* upsert_breach writes back a flag that was set when its row was read.
LEMMA PersistKeepsFlagged ==
  ASSUME TypeInv, Flagged, PersistBreach
  PROVE  Flagged'
<1> DEFINE w == call[Worker]
<1>1. /\ Worker \in Threads /\ call \in [Threads -> GoodCall] /\ w \in Call
      /\ w.pc # "idle" => w.ip \in IPs
  BY DEF TypeInv, GoodCall, Threads
<1>2. CASE UpsertSelect(Worker)
  <2>1. w.pc = "upsert_select" /\ UNCHANGED <<rules, records, alerts>>
    BY <1>2 DEF UpsertSelect, At
  <2>2. /\ \A o \in Threads \ {Worker} : call'[o] = call[o]
        /\ call'[Worker].op = w.op /\ call'[Worker].ip = w.ip
        /\ \/ call'[Worker].pc = "upsert_insert"
           \/ /\ call'[Worker].pc = "upsert_save"
              /\ \E id \in RowsOf(w.ip) : call'[Worker].row = alerts[id]
    <3>1. ASSUME Goto(Worker, "upsert_insert")
          PROVE  /\ SameCall(Worker) /\ call'[Worker].pc = "upsert_insert"
                 /\ \A o \in Threads \ {Worker} : call'[o] = call[o]
      BY <1>1, <2>1, <3>1, GotoEffect DEF Goto, Labels
    <3>2. ASSUME NEW id \in RowsOf(w.ip),
                 call' = [call EXCEPT ![Worker].pc = "upsert_save",
                                      ![Worker].alert = id, ![Worker].row = alerts[id]]
          PROVE  /\ call'[Worker].op = w.op /\ call'[Worker].ip = w.ip
                 /\ call'[Worker].pc = "upsert_save" /\ call'[Worker].row = alerts[id]
                 /\ \A o \in Threads \ {Worker} : call'[o] = call[o]
      <4> DEFINE row == alerts[id]
                 c == [w EXCEPT !.pc = "upsert_save", !.alert = id, !.row = row]
      <4>1. call' = [call EXCEPT ![Worker] = c]
        BY <3>2
      <4> HIDE DEF row
      <4>2. c.op = w.op /\ c.ip = w.ip /\ c.pc = "upsert_save" /\ c.row = row
        BY <1>1 DEF Call
      <4> HIDE DEF c
      <4> QED
        BY <1>1, <4>1, <4>2 DEF row
    <3> QED
      BY <1>2, <3>1, <3>2 DEF UpsertSelect, SameCall
  <2>3. call'[Worker].pc = "upsert_save" =>
          /\ call'[Worker].row.ip = w.ip
          /\ call'[Worker].row.blocked => w.ip \in rules
    BY <2>2 DEF RowsOf, Flagged, FlagsAreEnforced
  <2> QED
    BY <1>1, <2>1, <2>2, <2>3 DEF Flagged, FlagsAreEnforced, BeforeAlert
<1>3. ASSUME NEW row, row.ip = w.ip, row.blocked => w.ip \in rules,
             NEW id, call'[Worker].alert = id,
             alerts' = PutRow(id, row) \/ (id \notin DOMAIN alerts /\ UNCHANGED alerts),
             call'[Worker].op = w.op, call'[Worker].ip = w.ip,
             call'[Worker].pc = "event_lookup",
             \A o \in Threads \ {Worker} : call'[o] = call[o],
             UNCHANGED <<rules, records>>
      PROVE  Flagged'
  <2>1. \/ DOMAIN alerts' = DOMAIN alerts \cup {id} /\ alerts'[id] = row
        \/ id \notin DOMAIN alerts'
    BY <1>3 DEF PutRow
  <2>2. \A i \in DOMAIN alerts' \ {id} : i \in DOMAIN alerts /\ alerts'[i] = alerts[i]
    BY <1>3 DEF PutRow
  <2>3. FlagsAreEnforced'
    <3>1. ASSUME NEW i \in DOMAIN alerts', alerts'[i].blocked PROVE alerts'[i].ip \in rules
      <4>1. CASE i = id
        BY <1>3, <2>1, <3>1, <4>1
      <4>2. CASE i # id
        BY <2>2, <3>1, <4>2 DEF Flagged, FlagsAreEnforced
      <4> QED
        BY <4>1, <4>2
    <3> QED
      BY <1>3, <3>1 DEF FlagsAreEnforced
  <2>4. id \in DOMAIN alerts' => alerts'[id].ip = w.ip
    BY <1>3, <2>1
  <2> QED
    BY <1>1, <1>3, <2>3, <2>4 DEF Flagged
<1>4. CASE UpsertInsert(Worker, "event_lookup")
  <2> DEFINE id == NextId(DOMAIN alerts)
             row == [ip |-> w.ip, attempts |-> 1, blocked |-> FALSE]
  <2>1. /\ alerts' = PutRow(id, row) /\ UNCHANGED <<rules, records>>
        /\ call' = [call EXCEPT ![Worker] = [w EXCEPT !.pc = "event_lookup", !.alert = id]]
    BY <1>4 DEF UpsertInsert
  <2>2. row.ip = w.ip /\ ~row.blocked
    OBVIOUS
  <2> HIDE DEF id, row
  <2>3. /\ \A o \in Threads \ {Worker} : call'[o] = call[o]
        /\ call'[Worker].op = w.op /\ call'[Worker].ip = w.ip
        /\ call'[Worker].pc = "event_lookup" /\ call'[Worker].alert = id
    BY <1>1, <2>1 DEF Call
  <2> QED
    BY <1>3, <2>1, <2>2, <2>3
<1>5. CASE UpsertSave(Worker, "event_lookup")
  <2> DEFINE row == [w.row EXCEPT !.attempts = @ + 1]
  <2>1. /\ w.pc = "upsert_save" /\ UNCHANGED <<rules, records>>
        /\ alerts' = IF w.alert \in DOMAIN alerts THEN PutRow(w.alert, row) ELSE alerts
        /\ call' = [call EXCEPT ![Worker] = [w EXCEPT !.pc = "event_lookup", !.row = NoRow]]
    BY <1>5 DEF UpsertSave, At
  <2>2. row.ip = w.ip /\ (row.blocked => w.ip \in rules)
    <3>1. w.row \in Row
      BY <1>1, <2>1 DEF TypeInv, GoodCall
    <3>2. row.ip = w.row.ip /\ row.blocked = w.row.blocked
      BY <3>1 DEF Row
    <3> QED
      BY <2>1, <3>2 DEF Flagged
  <2> HIDE DEF row
  <2>3. /\ \A o \in Threads \ {Worker} : call'[o] = call[o]
        /\ call'[Worker].op = w.op /\ call'[Worker].ip = w.ip
        /\ call'[Worker].pc = "event_lookup" /\ call'[Worker].alert = w.alert
    BY <1>1, <2>1 DEF Call
  <2> QED
    BY <1>3, <2>1, <2>2, <2>3
<1> QED
  BY <1>2, <1>4, <1>5 DEF PersistBreach

\* The web endpoint sets flags only behind the service call it awaited.
LEMMA ApiMarkKeepsFlagged ==
  ASSUME TypeInv, Flagged, NEW th \in WebThreads, ApiMark(th)
  PROVE  Flagged'
<1>1. /\ th \in Threads /\ Worker \in Threads /\ th # Worker
      /\ call \in [Threads -> GoodCall]
  BY SharedStateAssumption DEF TypeInv, Threads
<1>2. /\ call[th].pc \in {"returned", "mark_insert"} /\ UNCHANGED <<rules, records>>
      /\ Goto(th, "mark_insert") \/ Goto(th, "answer")
  BY DEF ApiMark, MarkIpBlocked, MarkIpInsert, MarkIpUnblocked, At
<1>3. /\ SameCall(th) /\ \A o \in Threads \ {th} : call'[o] = call[o]
      /\ call[th].ip \in rules /\ call[th].op # "unblock"
  BY <1>1, <1>2, GotoEffect DEF Goto, Labels, Flagged
<1>4. ASSUME NEW i \in DOMAIN alerts'
      PROVE  \/ alerts'[i].blocked /\ alerts'[i].ip \in rules
             \/ i \in DOMAIN alerts /\ alerts'[i] = alerts[i]
  <2>1. CASE MarkIpBlocked(th, "answer")
    <3>1. alerts' = MarkRows(RowsOf(call[th].ip), TRUE) /\ i \in DOMAIN alerts
      BY <1>4, <2>1 DEF MarkIpBlocked, MarkRows
    <3>2. alerts[i] \in Row
      BY <3>1 DEF TypeInv, AlertsInv
    <3>3. [alerts[i] EXCEPT !.blocked = TRUE].blocked
          /\ [alerts[i] EXCEPT !.blocked = TRUE].ip = alerts[i].ip
      BY <3>2 DEF Row
    <3>4. i \in RowsOf(call[th].ip) => alerts[i].ip = call[th].ip
      BY DEF RowsOf
    <3>5. alerts'[i] = IF i \in RowsOf(call[th].ip)
                       THEN [alerts[i] EXCEPT !.blocked = TRUE] ELSE alerts[i]
      BY <3>1 DEF MarkRows
    <3> QED
      BY <1>3, <3>1, <3>3, <3>4, <3>5
  <2>2. CASE MarkIpInsert(th, "answer")
    <3> DEFINE id == NextId(DOMAIN alerts)
               row == [ip |-> call[th].ip, attempts |-> 0, blocked |-> TRUE]
    <3>1. alerts' = PutRow(id, row)
      BY <2>2 DEF MarkIpInsert
    <3>2. row.ip = call[th].ip /\ row.blocked
      OBVIOUS
    <3> HIDE DEF id, row
    <3> QED
      BY <1>3, <1>4, <3>1, <3>2 DEF PutRow
  <2> QED
    BY <1>3, <2>1, <2>2 DEF ApiMark
<1>5. FlagsAreEnforced'
  BY <1>2, <1>4 DEF Flagged, FlagsAreEnforced
<1>6. call'[Worker] = call[Worker]
  BY <1>1, <1>3
<1>7. call[Worker].pc \notin BeforeAlert /\ call[Worker].alert \in DOMAIN alerts' =>
       \/ alerts'[call[Worker].alert].ip = call[Worker].ip
       \/ alerts'[call[Worker].alert].blocked
  BY <1>4 DEF Flagged
<1> QED
  BY <1>1, <1>2, <1>3, <1>5, <1>6, <1>7 DEF Flagged, SameCall

\* The worker sets flags only when handle_event answered that it blocked.
LEMMA OnBlockedKeepsFlagged ==
  ASSUME TypeInv, Enforced, Flagged, OnBlocked
  PROVE  Flagged'
<1> DEFINE w == call[Worker]
<1>1. /\ Worker \in Threads /\ w.pc = "returned" /\ w.ip \in rules
      /\ alerts' = MarkRows({w.alert}, TRUE) /\ Goto(Worker, "notify")
      /\ UNCHANGED <<rules, records>> /\ call \in [Threads -> GoodCall]
  BY DEF OnBlocked, MarkBlocked, At, Enforced, Threads, TypeInv
<1>2. /\ SameCall(Worker) /\ call'[Worker].pc = "notify"
      /\ \A o \in Threads \ {Worker} : call'[o] = call[o]
  BY <1>1, GotoEffect DEF Goto, Labels
<1>3. ASSUME NEW i \in DOMAIN alerts', alerts'[i].blocked PROVE alerts'[i].ip \in rules
  <2>1. i \in DOMAIN alerts
    BY <1>1, <1>3 DEF MarkRows
  <2>2. alerts[i] \in Row
    BY <2>1 DEF TypeInv, AlertsInv
  <2>3. [alerts[i] EXCEPT !.blocked = TRUE].ip = alerts[i].ip
    BY <2>2 DEF Row
  <2>4. alerts'[i] = IF i = w.alert THEN [alerts[i] EXCEPT !.blocked = TRUE] ELSE alerts[i]
    BY <1>1, <2>1 DEF MarkRows
  <2>5. i = w.alert => alerts[i].ip \in rules
    BY <1>1, <2>1 DEF Flagged, BeforeAlert, FlagsAreEnforced
  <2> QED
    BY <1>3, <2>1, <2>3, <2>4, <2>5 DEF Flagged, FlagsAreEnforced
<1>4. FlagsAreEnforced'
  BY <1>1, <1>3 DEF FlagsAreEnforced
<1> QED
  BY <1>1, <1>2, <1>4 DEF Flagged, SameCall, BeforeAlert

\* With no unblock and no refusal every step keeps flagged addresses denied.
LEMMA NextKeepsFlagged ==
  ASSUME "unblock" \notin WebOps, "refuse" \notin Faults
  PROVE  TypeInv /\ Enforced /\ Flagged /\ [Next]_vars => Flagged'
<1> SUFFICES ASSUME TypeInv, Enforced, Flagged, [Next]_vars PROVE Flagged'
  OBVIOUS
<1>0. /\ Worker \in Threads /\ WebThreads \subseteq Threads /\ Worker \notin WebThreads
      /\ call \in [Threads -> GoodCall]
  BY SharedStateAssumption DEF TypeInv, Threads
<1>1. ASSUME UNCHANGED <<rules, alerts>>, NEW th \in Threads,
             \A o \in Threads \ {th} : call'[o] = call[o],
             call'[th].pc \notin {"returned", "mark_insert"}, call'[th].op # "unblock",
             th = Worker => call'[th].pc \in BeforeAlert \ {"upsert_save"}
      PROVE  Flagged'
  BY <1>0, <1>1 DEF Flagged, FlagsAreEnforced
<1>2. ASSUME NEW ip \in IPs, Breach(ip) PROVE Flagged'
  <2>1. Begin(Worker, "breach", ip, "upsert_select")
    BY <1>2 DEF Breach
  <2>2. /\ Framed(Worker) /\ UNCHANGED <<rules, alerts>>
        /\ call'[Worker].op = "breach" /\ call'[Worker].pc = "upsert_select"
    BY <1>0, <2>1, BeginKeepsCalls DEF Labels
  <2> QED
    BY <1>0, <1>1, <2>2 DEF Framed, BeforeAlert
<1>3. CASE PersistBreach
  BY <1>3, PersistKeepsFlagged
<1>4. ASSUME NEW th \in Threads, ServiceStep(th) PROVE Flagged'
  BY <1>4, ServiceKeepsFlagged
<1>5. CASE OnBlocked
  BY <1>5, OnBlockedKeepsFlagged
<1>6. CASE OnNotBlocked
  <2>1. /\ call[Worker].pc = "returned" /\ Goto(Worker, "notify") /\ UNCHANGED <<rules, alerts>>
    BY <1>6 DEF OnNotBlocked, At
  <2>2. /\ SameCall(Worker) /\ call'[Worker].pc = "notify"
        /\ \A o \in Threads \ {Worker} : call'[o] = call[o]
    BY <1>0, <2>1, GotoEffect DEF Goto, Labels
  <2> QED
    BY <1>0, <1>1, <2>1, <2>2 DEF Flagged, SameCall, BeforeAlert
<1>7. ASSUME NEW th \in Threads, Finish(th), UNCHANGED <<rules, alerts>> PROVE Flagged'
  <2>1. /\ call'[th].pc = "idle" /\ call'[th].op = "none"
        /\ \A o \in Threads \ {th} : call'[o] = call[o]
    BY <1>0, <1>7, FinishKeepsCalls DEF Idle
  <2> QED
    BY <1>1, <1>7, <2>1 DEF BeforeAlert
<1>8. CASE Notify
  BY <1>0, <1>7, <1>8 DEF Notify
<1>9. ASSUME NEW th \in WebThreads, NEW ip \in IPs, ApiBlock(th, ip) PROVE Flagged'
  <2>1. Begin(th, "block", ip, "block_deny")
    BY <1>9 DEF ApiBlock
  <2>2. /\ Framed(th) /\ UNCHANGED <<rules, alerts>>
        /\ call'[th].op = "block" /\ call'[th].pc = "block_deny"
    BY <1>0, <2>1, BeginKeepsCalls DEF Labels
  <2> QED
    BY <1>0, <1>1, <2>2 DEF Framed
<1>10. ASSUME NEW th \in WebThreads, NEW ip \in IPs, ApiUnblock(th, ip) PROVE FALSE
  BY <1>10 DEF ApiUnblock
<1>11. ASSUME NEW th \in WebThreads, ApiMark(th) PROVE Flagged'
  BY <1>11, ApiMarkKeepsFlagged
<1>12. ASSUME NEW th \in WebThreads, ApiAnswer(th) PROVE Flagged'
  BY <1>0, <1>7, <1>12 DEF ApiAnswer
<1>13. ASSUME NEW th \in Threads, Raise(th) PROVE Flagged'
  BY <1>7, <1>13 DEF Raise
<1>14. CASE WorkerCrash
  BY <1>0, <1>7, <1>14 DEF WorkerCrash
<1>15. CASE WebCrash
  <2>1. /\ UNCHANGED <<rules, alerts>> /\ call'[Worker] = call[Worker]
        /\ \A th \in Threads : call'[th] = call[th] \/ call'[th] = Idle
    BY <1>0, <1>15 DEF WebCrash
  <2> QED
    BY <2>1 DEF Flagged, FlagsAreEnforced, Idle
<1>16. CASE DeleteAll
  <2>1. DOMAIN alerts' = {} /\ UNCHANGED <<rules, call>>
    BY <1>16 DEF DeleteAll
  <2> QED
    BY <2>1 DEF Flagged, FlagsAreEnforced
<1>17. CASE UNCHANGED vars
  BY <1>17 DEF vars, Flagged, FlagsAreEnforced
<1> QED
  BY <1>0, <1>2, <1>3, <1>4, <1>5, <1>6, <1>8, <1>9, <1>10, <1>11, <1>12, <1>13, <1>14,
     <1>15, <1>16, <1>17
     DEF Next, WorkerStep, WebStep

(* Without unblocking, and with a firewall that does not refuse, an alert  *)
(* is marked blocked only when its address is denied, however the whole-   *)
(* row save of upsert_breach, the updates of the web server and a deletion *)
(* that starts the ids over interleave.                                    *)
THEOREM FlagsEnforced ==
  ASSUME "unblock" \notin WebOps, "refuse" \notin Faults
  PROVE  Spec => []FlagsAreEnforced
<1>1. Init => Flagged
  BY DEF Init, Flagged, FlagsAreEnforced, Threads, Idle, BeforeAlert
<1>2. Flagged => FlagsAreEnforced
  BY DEF Flagged
<1> QED
  BY <1>1, <1>2, NextKeepsFlagged, TypeInvariant, EnforcedInvariant, PTL DEF Spec

----------------------------------------------------------------------------
(* The id a call has looked up stays in use until it is marked: only the   *)
(* deletion of the tables takes records away.                              *)
Known ==
  \A th \in Threads :
    call[th].pc \in {"event_remark", "block_remark", "unblock_allow", "unblock_mark"} =>
      call[th].rec \in RecordIds

\* The service keeps every id in use, and looks up ids in use.
LEMMA ServiceKeepsKnown ==
  ASSUME TypeInv, Known, NEW th \in Threads, ServiceStep(th)
  PROVE  Known' /\ RecordIds \subseteq RecordIds'
<1>1. Effect(th) /\ Results(th) /\ \A o \in Threads \ {th} : call'[o] = call[o]
  BY ServiceEffect, ServiceResults
<1>2. ASSUME NEW id, NEW flag \in BOOLEAN, records' = MarkRecord(id, flag)
      PROVE  RecordIds \subseteq RecordIds'
  <2>1. DOMAIN records' = DOMAIN records
    BY <1>2 DEF MarkRecord
  <2>2. ASSUME NEW ip \in DOMAIN records PROVE records'[ip].id = records[ip].id
    <3>1. records[ip] \in Record
      BY DEF TypeInv, RecordsInv
    <3>2. [records[ip] EXCEPT !.is_blocked = flag].id = records[ip].id
      BY <3>1 DEF Record
    <3> QED
      BY <1>2, <3>2 DEF MarkRecord
  <2> QED
    BY <2>1, <2>2 DEF RecordIds
<1>3. ASSUME records' = InsertRecord(call[th].ip), ~Recorded(th)
      PROVE  RecordIds \subseteq RecordIds'
  <2>1. /\ DOMAIN records \subseteq DOMAIN records'
        /\ \A ip \in DOMAIN records : records'[ip] = records[ip]
    BY <1>3 DEF InsertRecord, Recorded
  <2> QED
    BY <2>1 DEF RecordIds
<1>4. ASSUME UNCHANGED records PROVE RecordIds \subseteq RecordIds'
  BY <1>4 DEF RecordIds
<1>5. RecordIds \subseteq RecordIds'
  <2>1. CASE call[th].pc \in {"event_create", "block_create"}
    BY <1>1, <1>3, <1>4, <2>1 DEF Results, Effect, Found, Missing, Marked, Denied, WasRefused,
                                  Collided, Created, Lifted, Moves
  <2>2. CASE call[th].pc \notin {"event_create", "block_create"}
    BY <1>1, <1>2, <1>4, <2>2 DEF Results
  <2> QED
    BY <2>1, <2>2
<1>6. call'[th].pc \in {"event_remark", "block_remark", "unblock_allow"} =>
        call'[th].rec \in RecordIds
  BY <1>1 DEF Results, RecordIds, Recorded
<1>7. call'[th].pc = "unblock_mark" => call'[th].rec \in RecordIds
  BY <1>1 DEF Results, Known, Effect, Found, Missing, Marked, Denied, WasRefused,
              Collided, Created, Lifted, Moves, Idle
<1> QED
  BY <1>1, <1>5, <1>6, <1>7 DEF Known

\* So does every step but the deletion of the tables.
LEMMA NextKeepsKnown ==
  ASSUME AdminDeletes = FALSE
  PROVE  TypeInv /\ Known /\ [Next]_vars => Known'
<1> SUFFICES ASSUME TypeInv, Known, [Next]_vars PROVE Known'
  OBVIOUS
<1>1. ASSUME NEW th \in Threads, ServiceStep(th) PROVE Known'
  BY <1>1, ServiceKeepsKnown
<1>2. CASE Quiet
  BY <1>2 DEF Quiet, Outside, Known, RecordIds
<1> QED
  BY <1>1, <1>2, StepCases
=============================================================================
