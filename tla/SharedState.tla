----------------------------- MODULE SharedState -----------------------------
(***************************************************************************)
(* What the worker and the threads of the web server share: the firewall   *)
(* of the host and the two tables of the SQLite file (infrastructure/      *)
(* models.py).  Each thread runs at most one call at a time; call[th] says *)
(* how far it is and what it has read so far.  A step is one SQL statement *)
(* (each runs in its own transaction) or one firewall command.             *)
(*                                                                         *)
(* A row of alerts counts its attempts in breaches: every event adds the   *)
(* same number of attempts (BreachAtThreshold of ThresholdDetector).       *)
(***************************************************************************)
EXTENDS Integers, FiniteSets, FiniteSetsExt

CONSTANTS
  IPs,          \* valid addresses
  Worker,       \* the worker's only thread
  WebThreads,   \* the threads that serve web requests
  NoIP,         \* "no address"
  NoRow,        \* "no row read"
  Faults        \* which faults happen: "refuse", "raise", "crash"

ASSUME SharedStateAssumption ==
  /\ Worker \notin WebThreads
  /\ NoIP \notin IPs
  /\ Faults \subseteq {"refuse", "raise", "crash"}

VARIABLES
  rules,      \* addresses the firewall denies
  records,    \* table blocked_ips, by its unique key ip
  alerts,     \* table alerts, by id
  call        \* per thread, the call it is executing

Threads == WebThreads \cup {Worker}

Row == [ip : IPs, attempts : Nat, blocked : BOOLEAN]
Record == [id : Nat, is_blocked : BOOLEAN]

(* The id SQLite gives to a new row of a table whose key is a Peewee       *)
(* AutoField (INTEGER PRIMARY KEY, no AUTOINCREMENT): one more than the    *)
(* largest id in use, so ids start over when the table is emptied.         *)
NextId(ids) == Max(ids \cup {0}) + 1

RecordIds == {records[ip].id : ip \in DOMAIN records}
RowsOf(ip) == {id \in DOMAIN alerts : alerts[id].ip = ip}

InsertRecord(ip) ==
  [i \in DOMAIN records \cup {ip} |->
     IF i = ip THEN [id |-> NextId(RecordIds), is_blocked |-> TRUE]
               ELSE records[i]]

(* UPDATE blocked_ips SET is_blocked = flag WHERE id = id                  *)
MarkRecord(id, flag) ==
  [i \in DOMAIN records |->
     IF records[i].id = id THEN [records[i] EXCEPT !.is_blocked = flag]
                           ELSE records[i]]

PutRow(id, row) ==
  [i \in DOMAIN alerts \cup {id} |-> IF i = id THEN row ELSE alerts[i]]

(* UPDATE alerts SET blocked = flag WHERE id IN ids                        *)
MarkRows(ids, flag) ==
  [i \in DOMAIN alerts |->
     IF i \in ids THEN [alerts[i] EXCEPT !.blocked = flag] ELSE alerts[i]]

Idle == [op |-> "none", pc |-> "idle", ip |-> NoIP,
         rec |-> 0, ok |-> FALSE, alert |-> 0, row |-> NoRow]

At(th, label) == call[th].pc = label
Goto(th, label) == call' = [call EXCEPT ![th].pc = label]
Finish(th) == call' = [call EXCEPT ![th] = Idle]
=============================================================================
