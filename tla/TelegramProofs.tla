---------------------------- MODULE TelegramProofs ----------------------------
(***************************************************************************)
(* The poller of the bot for any chats and any number of alerts: its mark  *)
(* stays within the table, and no alert is ticked off before every chat    *)
(* was tried, however commands and the loop interleave.                    *)
(***************************************************************************)
EXTENDS TelegramBot, FiniteSetTheorems, TLAPS

(* Ids run from one without a gap, and the mark is among them unless the   *)
(* table has been emptied.                                                 *)
Table ==
  /\ inserted \in 0 .. MaxAlerts
  /\ Seed \in 0 .. inserted
  /\ alerts \in [1 .. Seed -> 1 .. inserted]
  /\ last \in 0 .. MaxAlerts
  /\ emptied \in BOOLEAN
  /\ ~emptied => last <= Seed

ChatsInv ==
  /\ testChat \in TestChats
  /\ authorized \subseteq (IF testChat = NoChat THEN Chats ELSE {testChat})
  /\ IsFiniteSet(authorized)
  /\ attempts \subseteq Chats \X (1 .. inserted)
  /\ errors \in 0 .. MaxErrors
  /\ command \in {"none", "list", "blocked", "post", "reply", "answer"}

(* The rows a poll has left run from the mark on.                          *)
RowsLeft(rows, hi) ==
  /\ hi \in last .. MaxAlerts
  /\ rows \in [last + 1 .. hi -> 1 .. inserted]
  /\ ~emptied => hi <= Seed

(* Unless the set of chats has grown, all of it that is neither being sent *)
(* to nor left has been tried.                                             *)
Broadcast ==
  /\ poller.chat \in Chats /\ poller.left \subseteq Chats
  /\ poller.live \in BOOLEAN /\ poller.size \in Nat
  /\ poller.live =>
       /\ poller.size <= Cardinality(authorized)
       /\ poller.size = Cardinality(authorized) =>
            \A c \in authorized \ (poller.left \cup {poller.chat}) :
              <<c, poller.rows[last + 1]>> \in attempts
  /\ ~poller.live => poller.left = {} /\ poller.chat = testChat

PollerInv ==
  \/ poller = Sleeping
  \/ /\ poller.pc = "await"
     /\ \E hi \in Nat : hi > last /\ RowsLeft(poller.rows, hi)
     /\ Broadcast

Inv == Table /\ ChatsInv /\ PollerInv

----------------------------------------------------------------------------
(* Lemmas about the operators of the bot.                                  *)

\* The largest and the smallest number of an interval.
LEMMA IntervalEnds ==
  ASSUME NEW m \in Int, NEW n \in Int, m <= n
  PROVE  Max(m .. n) = n /\ Min(m .. n) = m
<1>1. \A x \in m .. n : (\A y \in m .. n : x >= y) <=> x = n
  OBVIOUS
<1>2. \A x \in m .. n : (\A y \in m .. n : x =< y) <=> x = m
  OBVIOUS
<1>3. n \in m .. n /\ m \in m .. n
  OBVIOUS
<1> QED
  BY <1>1, <1>2, <1>3, Zenon DEF Max, Min

\* The largest id of a table without gaps, the empty one included.
LEMMA TopOfTable == ASSUME NEW n \in Nat PROVE Max((1 .. n) \cup {0}) = n
<1>1. (1 .. n) \cup {0} = 0 .. n
  OBVIOUS
<1>2. 0 \in Int /\ n \in Int /\ 0 <= n
  OBVIOUS
<1>3. Max(0 .. n) = n
  BY <1>2, IntervalEnds, Zenon
<1> QED
  BY <1>1, <1>3, Zenon

\* The mark after all rows are ticked off at once.
LEMMA TopOfRows ==
  ASSUME NEW m \in Nat, NEW n \in Nat, m <= n
  PROVE  Max((m + 1 .. n) \cup {m}) = n
<1>1. (m + 1 .. n) \cup {m} = m .. n
  OBVIOUS
<1>2. m \in Int /\ n \in Int
  OBVIOUS
<1>3. Max(m .. n) = n
  BY <1>2, IntervalEnds, Zenon
<1> QED
  BY <1>1, <1>3, Zenon

\* The first of the rows beyond the mark.
LEMMA FirstOfRows ==
  ASSUME NEW m \in Nat, NEW n \in Nat, m < n PROVE Min(m + 1 .. n) = m + 1
<1>1. m + 1 \in Int /\ n \in Int /\ m + 1 <= n
  OBVIOUS
<1> QED
  BY <1>1, IntervalEnds, Zenon

\* A table with ids 1 to n is seeded with n.
LEMMA SeedOfTable ==
  ASSUME NEW n \in Nat, DOMAIN alerts = 1 .. n PROVE Seed = n
  BY TopOfTable, Zenon DEF Seed

\* A table that keeps its rows keeps its seed.
LEMMA SameTable ==
  ASSUME Table, UNCHANGED <<alerts, inserted>>,
         last' \in 0 .. MaxAlerts, emptied' \in BOOLEAN, ~emptied' => last' <= Seed
  PROVE  Table' /\ Seed' = Seed
<1>1. Seed' = Seed
  BY DEF Seed
<1>2. [1 .. Seed -> 1 .. inserted]' = [1 .. Seed -> 1 .. inserted]
  BY <1>1
<1> QED
  BY <1>1, <1>2 DEF Table

\* Messages go to known chats only.
LEMMA RecipientsAreChats ==
  ASSUME ChatsInv
  PROVE  /\ Recipients \subseteq Chats /\ IsFiniteSet(Recipients)
         /\ Cardinality(Recipients) \in Nat
         /\ authorized # {} => Recipients = authorized
         /\ authorized = {} => Recipients \subseteq {testChat}
<1>1. testChat # NoChat => testChat \in Chats
  BY TelegramAssumption DEF ChatsInv
<1>2. /\ Recipients \subseteq Chats
      /\ authorized # {} => Recipients = authorized
      /\ authorized = {} => Recipients \subseteq {testChat}
  BY <1>1 DEF ChatsInv, Recipients
<1>3. IsFiniteSet(Recipients)
  BY FS_EmptySet, FS_Singleton DEF ChatsInv, Recipients
<1> QED
  BY <1>2, <1>3, FS_CardinalityType

\* What goes on after a row leaves a poll whose rows run from the mark on.
LEMMA ProceedInv ==
  ASSUME Table, ChatsInv, ChatsInv',
         NEW done \in Nat, NEW hi \in done .. MaxAlerts, ~emptied => hi <= Seed,
         NEW rows \in [done + 1 .. hi -> 1 .. inserted],
         Proceed(rows, done),
         UNCHANGED <<alerts, inserted, authorized, testChat, emptied>>
  PROVE  Table' /\ PollerInv'
<1>0. Seed' = Seed
  BY DEF Seed
<1>1. /\ DOMAIN rows = done + 1 .. hi /\ (rows # NoRows => done < hi)
      /\ hi \in Nat /\ hi <= MaxAlerts
  <2>1. done = hi => rows = NoRows
    BY DEF NoRows
  <2> QED
    BY <2>1, TelegramAssumption
<1>2. CASE /\ rows # NoRows /\ Recipients # {}
           /\ SendTo(rows, Recipients, authorized # {}, Cardinality(Recipients))
           /\ last' = done
  <2>1. PICK chat \in Recipients :
          poller' = [pc |-> "await", rows |-> rows, chat |-> chat,
                     left |-> Recipients \ {chat}, live |-> authorized # {},
                     size |-> Cardinality(Recipients)]
    BY <1>2 DEF SendTo
  <2>2. Broadcast'
    <3>1. CASE authorized = {}
      <4>1. poller'.live = FALSE /\ poller'.chat = testChat /\ poller'.left = {}
        BY <2>1, <3>1, RecipientsAreChats
      <4> QED
        BY <2>1, <4>1, RecipientsAreChats DEF Broadcast
    <3>2. CASE authorized # {}
      <4>1. /\ poller'.live = TRUE /\ poller'.size = Cardinality(authorized)
            /\ authorized' \ (poller'.left \cup {poller'.chat}) = {}
        BY <2>1, <3>2, RecipientsAreChats
      <4>2. /\ poller'.chat \in Chats /\ poller'.left \subseteq Chats
            /\ poller'.size \in Nat
        BY <2>1, RecipientsAreChats
      <4>3. poller'.size = Cardinality(authorized')
        BY <4>1
      <4>4. \A c \in authorized' \ (poller'.left \cup {poller'.chat}) :
              <<c, poller'.rows[last' + 1]>> \in attempts'
        BY <4>1
      <4>5. poller'.size <= Cardinality(authorized')
        BY <4>2, <4>3
      <4> QED
        BY <4>1, <4>2, <4>4, <4>5, Zenon DEF Broadcast
    <3> QED
      BY <3>1, <3>2
  <2>3. hi > last' /\ RowsLeft(poller.rows, hi)'
    BY <1>0, <1>1, <1>2, <2>1 DEF RowsLeft
  <2>4. last' \in 0 .. MaxAlerts /\ emptied' \in BOOLEAN /\ (~emptied' => last' <= Seed)
    BY <1>1, <1>2, TelegramAssumption DEF Table
  <2>5. Table'
    BY <2>4, SameTable
  <2> QED
    BY <2>1, <2>2, <2>3, <2>5 DEF PollerInv
<1>3. CASE poller' = Sleeping /\ last' \in {done, hi}
  <2>1. last' \in 0 .. MaxAlerts /\ emptied' \in BOOLEAN /\ (~emptied' => last' <= Seed)
    BY <1>1, <1>3, TelegramAssumption DEF Table
  <2>2. Table'
    BY <2>1, SameTable
  <2> QED
    BY <1>3, <2>2 DEF PollerInv, Sleeping
<1>4. Max(DOMAIN rows \cup {done}) = hi
  BY <1>1, TopOfRows
<1> QED
  BY <1>2, <1>3, <1>4 DEF Proceed

----------------------------------------------------------------------------
(* Each action preserves the invariant.                                    *)

\* The bot starts with the largest id of a table without gaps.
LEMMA InitInv == Init => Inv
<1> SUFFICES ASSUME Init PROVE Inv
  OBVIOUS
<1>1. inserted \in Nat /\ DOMAIN alerts = 1 .. inserted
  BY TelegramAssumption DEF Init
<1>2. Seed = inserted
  BY <1>1, SeedOfTable
<1>3. Table
  <2>1. alerts \in [1 .. inserted -> 1 .. inserted]
    BY DEF Init
  <2>2. alerts \in [1 .. Seed -> 1 .. inserted]
    BY <1>2, <2>1, Zenon
  <2>3. /\ inserted \in 0 .. MaxAlerts /\ last = inserted /\ emptied = FALSE
        /\ inserted \in 0 .. inserted /\ inserted <= inserted
    BY <1>1 DEF Init
  <2> QED
    BY <1>2, <2>2, <2>3, Zenon DEF Table
<1>4. ChatsInv /\ PollerInv
  BY FS_EmptySet, TelegramAssumption DEF Init, ChatsInv, PollerInv
<1> QED
  BY <1>3, <1>4 DEF Inv

\* A poll takes the rows beyond the mark.
LEMMA PollInv == Inv /\ Poll => Inv'
<1> SUFFICES ASSUME Inv, Poll PROVE Inv'
  OBVIOUS
<1>1. ChatsInv'
  BY TelegramAssumption DEF Inv, ChatsInv, Poll, Proceed
<1> DEFINE rows == [id \in {i \in DOMAIN alerts : i > last} |-> alerts[id]]
           hi == IF Seed > last THEN Seed ELSE last
<1>2. {i \in DOMAIN alerts : i > last} = last + 1 .. hi
  BY DEF Inv, Table
<1>3. rows \in [last + 1 .. hi -> 1 .. inserted]
  BY <1>2 DEF Inv, Table
<1>4. last \in Nat /\ hi \in last .. MaxAlerts /\ (~emptied => hi <= Seed)
  BY TelegramAssumption DEF Inv, Table
<1>5. Proceed(rows, last) /\ UNCHANGED <<alerts, inserted, authorized, testChat, emptied>>
  BY DEF Poll
<1> HIDE DEF rows, hi
<1> QED
  BY <1>1, <1>3, <1>4, <1>5, ProceedInv DEF Inv

\* After a message: the next chat, the next row, or the end of the poll.
LEMMA SentInv == ASSUME NEW outcome, Inv, Sent(outcome) PROVE Inv'
<1>1. /\ poller.pc = "await" /\ Broadcast
      /\ UNCHANGED <<alerts, inserted, authorized, testChat, command, emptied>>
      /\ attempts' = attempts \cup {<<poller.chat, poller.rows[Current]>>}
  BY DEF Inv, PollerInv, Sleeping, Sent
<1>2. PICK hi \in Nat : hi > last /\ RowsLeft(poller.rows, hi)
  BY <1>1 DEF Inv, PollerInv, Sleeping
<1>3. /\ last \in Nat /\ DOMAIN poller.rows = last + 1 .. hi
      /\ poller.rows \in [last + 1 .. hi -> 1 .. inserted]
      /\ hi \in last + 1 .. MaxAlerts /\ (~emptied => hi <= Seed)
  BY <1>2 DEF RowsLeft, Inv, Table
<1>4. Current = last + 1
  BY <1>3, FirstOfRows DEF Current
<1>5. ChatsInv'
  <2>1. <<poller.chat, poller.rows[Current]>> \in Chats \X (1 .. inserted)
    BY <1>1, <1>3, <1>4 DEF Broadcast
  <2>2. errors' \in 0 .. MaxErrors
    BY TelegramAssumption DEF Inv, ChatsInv, Sent, Proceed
  <2> QED
    BY <1>1, <2>1, <2>2 DEF Inv, ChatsInv
<1>6. Seed' = Seed
  BY <1>1 DEF Seed
<1>7. CASE poller' = Sleeping /\ last' = last
  BY <1>1, <1>5, <1>6, <1>7 DEF Inv, Table, PollerInv
<1>8. CASE /\ poller.left # {} /\ last' = last
           /\ SendTo(poller.rows, poller.left, poller.live, poller.size)
  <2>1. PICK chat \in poller.left :
          poller' = [pc |-> "await", rows |-> poller.rows, chat |-> chat,
                     left |-> poller.left \ {chat}, live |-> poller.live,
                     size |-> poller.size]
    BY <1>8 DEF SendTo
  <2>2. Broadcast'
    BY <1>1, <1>4, <1>8, <2>1 DEF Broadcast
  <2>3. RowsLeft(poller.rows, hi)' /\ Table'
    BY <1>1, <1>2, <1>6, <1>8, <2>1 DEF RowsLeft, Inv, Table
  <2> QED
    BY <1>2, <1>5, <1>8, <2>1, <2>2, <2>3 DEF Inv, PollerInv
<1>9. ASSUME Proceed([id \in DOMAIN poller.rows \ {Current} |-> poller.rows[id]], Current)
      PROVE  Inv'
  <2> DEFINE rows == [id \in DOMAIN poller.rows \ {Current} |-> poller.rows[id]]
  <2>1. DOMAIN poller.rows \ {Current} = Current + 1 .. hi
    BY <1>3, <1>4
  <2>2. rows \in [Current + 1 .. hi -> 1 .. inserted]
    BY <1>3, <1>4, <2>1
  <2>3. Current \in Nat /\ hi \in Current .. MaxAlerts
    BY <1>3, <1>4
  <2>4. Proceed(rows, Current)
    BY <1>9
  <2> HIDE DEF rows
  <2> QED
    BY <1>1, <1>3, <1>5, <2>2, <2>3, <2>4, ProceedInv DEF Inv
<1> QED
  BY <1>7, <1>8, <1>9 DEF Sent

\* A command adds a chat to a set that is finite and only grows.
LEMMA CommandInv == ASSUME NEW chat \in Chats, Inv, Command(chat) PROVE Inv'
<1>1. /\ authorized' = authorized \cup {chat} /\ (testChat # NoChat => chat = testChat)
      /\ UNCHANGED <<Loop, errors>>
  BY DEF Command, Authorize
<1>2. /\ IsFiniteSet(authorized') /\ Cardinality(authorized) \in Nat
      /\ Cardinality(authorized') =
           IF chat \in authorized THEN Cardinality(authorized) ELSE Cardinality(authorized) + 1
  BY <1>1, FS_AddElement, FS_CardinalityType DEF Inv, ChatsInv
<1>3. Table' /\ Seed' = Seed
  BY <1>1 DEF Inv, Table, Loop, Seed
<1>4. ChatsInv'
  BY <1>1, <1>2 DEF Inv, ChatsInv, Loop, Command
<1>5. Broadcast => Broadcast'
  <2>1. CASE chat \in authorized
    <3>1. authorized' = authorized
      BY <1>1, <2>1
    <3> QED
      BY <1>1, <3>1 DEF Broadcast, Loop
  <2>2. CASE chat \notin authorized
    BY <1>1, <1>2, <2>2 DEF Broadcast, Loop
  <2> QED
    BY <2>1, <2>2
<1>6. PollerInv'
  BY <1>1, <1>3, <1>5 DEF Inv, PollerInv, RowsLeft, Loop, Sleeping
<1> QED
  BY <1>3, <1>4, <1>6 DEF Inv

\* A request and its reply concern nobody but the command.
LEMMA CommandStepInv == Inv /\ CommandStep => Inv'
<1> SUFFICES ASSUME Inv, CommandStep PROVE Inv'
  OBVIOUS
<1>1. /\ UNCHANGED <<Loop, authorized, errors>>
      /\ command' \in {"none", "blocked", "reply", "answer"}
  BY DEF CommandStep, Response, Reply
<1> QED
  BY <1>1 DEF Loop, Inv, Table, Seed, ChatsInv, PollerInv, RowsLeft, Broadcast, Sleeping

\* A new row gets the id after the last.
LEMMA InsertInv == Inv /\ InsertAlert => Inv'
<1> SUFFICES ASSUME Inv, InsertAlert PROVE Inv'
  OBVIOUS
<1>1. /\ Seed \in Nat /\ DOMAIN alerts = 1 .. Seed /\ NextId(DOMAIN alerts) = Seed + 1
      /\ UNCHANGED <<last, authorized, poller, attempts, testChat, errors, command, emptied>>
      /\ inserted' = inserted + 1 /\ inserted' \in 0 .. MaxAlerts
  BY TelegramAssumption DEF Inv, Table, InsertAlert, NextId, Seed
<1>2. alerts' = [id \in 1 .. Seed + 1 |-> IF id \in 1 .. Seed THEN alerts[id] ELSE inserted']
  <2>1. (1 .. Seed) \cup {Seed + 1} = 1 .. Seed + 1
    BY <1>1
  <2> QED
    BY <1>1, <2>1 DEF InsertAlert
<1>3. Seed' = Seed + 1
  <2>1. DOMAIN alerts' = 1 .. Seed + 1
    BY <1>2
  <2>2. Max((1 .. Seed + 1) \cup {0}) = Seed + 1
    BY <1>1, TopOfTable
  <2> QED
    BY <2>1, <2>2, Zenon DEF Seed
<1>4. Table'
  BY <1>1, <1>2, <1>3 DEF Inv, Table
<1>5. ChatsInv'
  BY <1>1 DEF Inv, ChatsInv, Table
<1>6. PollerInv'
  <2>1. ASSUME NEW hi \in Nat, RowsLeft(poller.rows, hi) PROVE RowsLeft(poller.rows, hi)'
    BY <1>1, <1>3, <2>1 DEF RowsLeft, Inv, Table
  <2>2. Broadcast => Broadcast'
    BY <1>1 DEF Broadcast
  <2> QED
    BY <1>1, <2>1, <2>2 DEF Inv, PollerInv, Sleeping
<1> QED
  BY <1>4, <1>5, <1>6 DEF Inv

\* An empty table has no gaps; the rows under way are the poller's own.
LEMMA DeleteInv == Inv /\ DeleteAll => Inv'
<1> SUFFICES ASSUME Inv, DeleteAll PROVE Inv'
  OBVIOUS
<1>1. /\ alerts' = NoRows /\ emptied' = TRUE
      /\ UNCHANGED <<inserted, last, authorized, poller, attempts, testChat, errors, command>>
  BY DEF DeleteAll
<1>2. alerts' \in [1 .. 0 -> 1 .. inserted] /\ DOMAIN alerts' = 1 .. 0
  BY <1>1 DEF NoRows
<1>3. Seed' = 0
  BY <1>2, TopOfTable DEF Seed
<1>4. Table' /\ ChatsInv'
  BY <1>1, <1>2, <1>3 DEF Inv, Table, ChatsInv
<1>5. PollerInv'
  BY <1>1 DEF Inv, PollerInv, RowsLeft, Broadcast, Sleeping
<1> QED
  BY <1>4, <1>5 DEF Inv

\* A new bot starts with the largest id, or with none.
LEMMA RestartInv == Inv /\ Restart => Inv'
<1> SUFFICES ASSUME Inv, Restart PROVE Inv'
  OBVIOUS
<1>1. Seed' = Seed /\ last' \in {Seed, 0}
  BY DEF Restart, Seed
<1>2. Table'
  <2>1. Table /\ UNCHANGED <<alerts, inserted>> /\ emptied' = FALSE
    BY DEF Inv, Restart
  <2>2. last' \in 0 .. MaxAlerts /\ last' <= Seed
    BY <1>1, TelegramAssumption DEF Inv, Table
  <2> QED
    BY <2>1, <2>2, SameTable
<1>3. ChatsInv' /\ PollerInv'
  BY FS_EmptySet, TelegramAssumption DEF Inv, ChatsInv, PollerInv, Restart, Sleeping
<1> QED
  BY <1>2, <1>3 DEF Inv

\* Nothing happens.
LEMMA StutterInv == Inv /\ UNCHANGED vars => Inv'
<1> SUFFICES ASSUME Inv, UNCHANGED vars PROVE Inv'
  OBVIOUS
<1>1. Table' /\ Seed' = Seed
  BY SameTable DEF Inv, Table, vars
<1>2. ChatsInv'
  BY DEF Inv, ChatsInv, vars
<1>3. PollerInv'
  BY <1>1 DEF Inv, PollerInv, RowsLeft, Broadcast, Sleeping, vars
<1> QED
  BY <1>1, <1>2, <1>3 DEF Inv

\* The invariant of the poller.
LEMMA Invariant == Spec => []Inv
<1>1. Inv /\ [Next]_vars => Inv'
  BY PollInv, SentInv, CommandInv, CommandStepInv, InsertInv, DeleteInv, RestartInv, StutterInv
  DEF Next, PollerStep
<1> QED
  BY InitInv, <1>1, PTL DEF Spec

----------------------------------------------------------------------------

(* Table, chats and poller of the bot keep their types, for any chats and  *)
(* any number of alerts, errors and restarts (telegram_worker.py 55-157).  *)
THEOREM TelegramTypeCorrect == Spec => []TypeOK
<1>1. Inv => TypeOK
  <2> SUFFICES ASSUME Inv PROVE TypeOK
    OBVIOUS
  <2>1. /\ DOMAIN alerts \subseteq 1 .. MaxAlerts
        /\ \A id \in DOMAIN alerts : alerts[id] \in 1 .. inserted
    BY TelegramAssumption DEF Inv, Table
  <2>2. CASE poller = Sleeping
    BY <2>1, <2>2 DEF Inv, Table, ChatsInv, Sleeping, TypeOK
  <2>3. CASE poller # Sleeping
    <3>1. /\ poller.pc = "await" /\ Broadcast
          /\ \E hi \in Nat : hi > last /\ RowsLeft(poller.rows, hi)
      BY <2>3 DEF Inv, PollerInv
    <3>2. DOMAIN poller.rows # {}
      <4>1. PICK hi \in Nat : hi > last /\ RowsLeft(poller.rows, hi)
        BY <3>1
      <4>2. DOMAIN poller.rows = last + 1 .. hi /\ last \in Nat
        BY <4>1, TelegramAssumption DEF Inv, Table, RowsLeft
      <4>3. last + 1 \in last + 1 .. hi
        BY <4>1, <4>2
      <4> QED
        BY <4>2, <4>3
    <3>3. poller.rows # NoRows
      BY <3>2 DEF NoRows
    <3> QED
      BY <2>1, <3>1, <3>3 DEF Inv, Table, ChatsInv, Broadcast, TypeOK
  <2> QED
    BY <2>2, <2>3
<1> QED
  BY <1>1, Invariant, PTL

(* Unless the table was emptied under the bot, every new alert gets an id  *)
(* the poller has yet to come to (telegram_worker.py 79-86 and 117-142).   *)
THEOREM NewAlertsLieAhead == Spec => []NewAlertsAreAhead
<1>1. Inv => NewAlertsAreAhead
  <2>1. NextId(DOMAIN alerts) = Seed + 1
    BY DEF NextId, Seed
  <2> QED
    BY <2>1 DEF Inv, Table, NewAlertsAreAhead
<1> QED
  BY <1>1, Invariant, PTL

(* No alert is ticked off before every authorized chat was sent a message  *)
(* for it, chats authorized meanwhile included (telegram_worker.py         *)
(* 144-157): a set that only grows and has its old size is the old set.    *)
THEOREM AlertsTickedOffAfterAll == Spec => TickedOffAfterAll
<1>1. ASSUME Inv, [Next]_vars,
             poller.pc = "await", last' # last, authorized' = authorized,
             NEW chat \in authorized
      PROVE  <<chat, poller.rows[Current]>> \in attempts'
  <2>1. CASE Restart
    BY <1>1, <2>1 DEF Restart
  <2>2. ASSUME NEW outcome, Sent(outcome) PROVE <<chat, poller.rows[Current]>> \in attempts'
    <3>1. ~Grown /\ poller.left = {}
          /\ attempts' = attempts \cup {<<poller.chat, poller.rows[Current]>>}
      BY <1>1, <2>2 DEF Sent
    <3>2. PICK hi \in Nat : hi > last /\ RowsLeft(poller.rows, hi)
      BY <1>1 DEF Inv, PollerInv, Sleeping
    <3>3. DOMAIN poller.rows = last + 1 .. hi /\ last \in Nat
      BY <1>1, <3>2 DEF RowsLeft, Inv, Table
    <3>4. Current = last + 1
      BY <3>2, <3>3, FirstOfRows DEF Current
    <3>5. Broadcast /\ authorized \subseteq (IF testChat = NoChat THEN Chats ELSE {testChat})
      BY <1>1 DEF Inv, PollerInv, Sleeping, ChatsInv
    <3>6. poller.chat \in Chats /\ NoChat \notin Chats
      BY <3>5, TelegramAssumption DEF Broadcast
    <3> QED
      BY <1>1, <3>1, <3>4, <3>5, <3>6 DEF Broadcast, Grown
  <2>3. CASE \/ Poll \/ (\E c \in Chats : Command(c)) \/ CommandStep \/ InsertAlert
             \/ DeleteAll \/ UNCHANGED vars
    <3>1. Poll => poller.pc = "sleep"
      BY DEF Poll
    <3>2. ~Poll => last' = last
      BY <2>3 DEF Command, CommandStep, Response, Reply, InsertAlert, DeleteAll, vars, Loop
    <3> QED
      BY <1>1, <3>1, <3>2
  <2> QED
    BY <1>1, <2>1, <2>2, <2>3 DEF Next, PollerStep
<1>2. Inv /\ [Next]_vars =>
        [poller.pc = "await" /\ last' # last /\ authorized' = authorized
           => \A chat \in authorized : <<chat, poller.rows[Current]>> \in attempts']_vars
  BY <1>1
<1> QED
  BY <1>2, Invariant, PTL DEF Spec, TickedOffAfterAll
=============================================================================
