---------------------------- MODULE TelegramBot ----------------------------
(***************************************************************************)
(* adapters/telegram_worker.py: the poller that broadcasts new rows of the *)
(* alerts table, and the chats that commands authorize meanwhile.          *)
(*                                                                         *)
(* Everything runs on one asyncio loop: control changes hands only where   *)
(* the code awaits, that is while a message is being sent and between two  *)
(* polls.  One step of the poller goes from one await to the next.  The    *)
(* rows of a poll are those of the snapshot its SELECT reads.              *)
(*                                                                         *)
(* _broadcast iterates over the set of authorized chats itself; a chat     *)
(* that is added during an await makes the iteration raise RuntimeError,   *)
(* which ends the poll before the alert is ticked off.                     *)
(*                                                                         *)
(* The library takes one update after another; the handler of a command    *)
(* asks the web server over HTTP and replies, awaiting each, while the     *)
(* poller goes on.                                                         *)
(***************************************************************************)
EXTENDS Integers, FiniteSets, FiniteSetsExt

CONSTANTS
  Chats,        \* chat ids
  TestChats,    \* values that TELEGRAM_TEST_CHAT_ID may have
  NoChat,       \* "not set"
  MaxAlerts,    \* bound: the alerts ever inserted
  MaxErrors     \* bound: restarts of the bot and errors of the database

ASSUME TelegramAssumption ==
  /\ NoChat \notin Chats /\ TestChats \subseteq Chats \cup {NoChat}
  /\ MaxAlerts \in Nat /\ MaxErrors \in Nat

VARIABLES
  alerts,      \* table alerts: the rows by id; a row is its insertion number
  inserted,    \* alerts inserted so far
  last,        \* _last_alert_id
  authorized,  \* _authorized_chats
  poller,      \* where _poll_alerts is
  attempts,    \* the pairs <<chat, alert>> a message was sent for
  testChat,    \* TEST_CHAT_ID
  errors,      \* restarts and errors so far
  command,     \* what the command under way awaits
  emptied      \* the table has been emptied while the bot was running

vars == <<alerts, inserted, last, authorized, poller, attempts, testChat, errors,
          command, emptied>>

NextId(ids) == Max(ids \cup {0}) + 1
NoRows == [id \in {} |-> 0]
Sleeping == [pc |-> "sleep", rows |-> NoRows, chat |-> NoChat, left |-> {},
             live |-> FALSE, size |-> 0]

(* chats = self._authorized_chats or ({TEST_CHAT_ID} if TEST_CHAT_ID ...)  *)
Recipients ==
  IF authorized # {} THEN authorized
  ELSE IF testChat # NoChat THEN {testChat} ELSE {}

(* Mutant of Seed: the next id to come.                                    *)
SeedPastNext == NextId(DOMAIN alerts)

(* start: the id to go on from is the largest one in the table.            *)
Seed == Max(DOMAIN alerts \cup {0})

Init ==
  /\ inserted \in 0 .. MaxAlerts
  /\ alerts = [id \in 1 .. inserted |-> id]
  /\ last = inserted
  /\ authorized = {}
  /\ poller = Sleeping
  /\ attempts = {}
  /\ testChat \in TestChats
  /\ errors = 0
  /\ command = "none"
  /\ emptied = FALSE

----------------------------------------------------------------------------
(* The loop of _poll_alerts.                                               *)

Current == Min(DOMAIN poller.rows)

(* The message to one of the chats is under way.                           *)
SendTo(rows, chats, live, size) ==
  \E chat \in chats :
    poller' = [pc |-> "await", rows |-> rows, chat |-> chat,
               left |-> chats \ {chat}, live |-> live, size |-> size]

(* The rows that are left: broadcast the first; without anybody to tell,   *)
(* tick them all off; or the fetch of the next row raises.                 *)
Proceed(rows, done) ==
  \/ /\ rows # NoRows /\ Recipients # {}
     /\ SendTo(rows, Recipients, authorized # {}, Cardinality(Recipients))
     /\ last' = done /\ UNCHANGED errors
  \/ /\ rows = NoRows \/ Recipients = {}
     /\ poller' = Sleeping
     /\ last' = Max(DOMAIN rows \cup {done}) /\ UNCHANGED errors
  \/ /\ errors < MaxErrors /\ errors' = errors + 1
     /\ poller' = Sleeping
     /\ last' = done

Poll ==
  /\ poller.pc = "sleep"
  /\ Proceed([id \in {i \in DOMAIN alerts : i > last} |-> alerts[id]], last)
  /\ UNCHANGED <<alerts, inserted, authorized, attempts, testChat, command, emptied>>

Grown == poller.live /\ Cardinality(authorized) # poller.size

(* Mutant of Sent: the iteration runs over a copy of the chats.            *)
SentOverCopy(outcome) ==
  /\ poller.pc = "await"
  /\ attempts' = attempts \cup {<<poller.chat, poller.rows[Current]>>}
  /\ \/ /\ poller.left # {}
        /\ SendTo(poller.rows, poller.left, poller.live, poller.size)
        /\ UNCHANGED <<last, errors>>
     \/ /\ poller.left = {}
        /\ Proceed([id \in DOMAIN poller.rows \ {Current} |-> poller.rows[id]], Current)
  /\ UNCHANGED <<alerts, inserted, authorized, testChat, command, emptied>>

(* Mutant of Sent: a message that fails ends the poll.                     *)
SentUnlessFailed(outcome) ==
  /\ poller.pc = "await"
  /\ attempts' = attempts \cup {<<poller.chat, poller.rows[Current]>>}
  /\ \/ /\ Grown \/ outcome = "fails"
        /\ poller' = Sleeping /\ UNCHANGED <<last, errors>>
     \/ /\ ~Grown /\ outcome = "sent" /\ poller.left # {}
        /\ SendTo(poller.rows, poller.left, poller.live, poller.size)
        /\ UNCHANGED <<last, errors>>
     \/ /\ ~Grown /\ outcome = "sent" /\ poller.left = {}
        /\ Proceed([id \in DOMAIN poller.rows \ {Current} |-> poller.rows[id]], Current)
  /\ UNCHANGED <<alerts, inserted, authorized, testChat, command, emptied>>

(* send_message has returned or raised, which is logged: if the set has    *)
(* grown meanwhile the iteration raises; else the next chat, and after the *)
(* last one the alert is ticked off.                                       *)
Sent(outcome) ==
  /\ poller.pc = "await"
  /\ attempts' = attempts \cup {<<poller.chat, poller.rows[Current]>>}
  /\ \/ /\ Grown
        /\ poller' = Sleeping /\ UNCHANGED <<last, errors>>
     \/ /\ ~Grown /\ poller.left # {}
        /\ SendTo(poller.rows, poller.left, poller.live, poller.size)
        /\ UNCHANGED <<last, errors>>
     \/ /\ ~Grown /\ poller.left = {}
        /\ Proceed([id \in DOMAIN poller.rows \ {Current} |-> poller.rows[id]], Current)
  /\ UNCHANGED <<alerts, inserted, authorized, testChat, command, emptied>>

PollerStep == Poll \/ \E outcome \in {"sent", "fails"} : Sent(outcome)

----------------------------------------------------------------------------

(* Mutant of Authorize: the test chat is not asked for.                    *)
AuthorizeAnyone(chat) == authorized' = authorized \cup {chat}

(* _check_auth; the message of any other chat is dropped.                  *)
Authorize(chat) ==
  /\ testChat # NoChat => chat = testChat
  /\ authorized' = authorized \cup {chat}

Loop == <<alerts, inserted, last, poller, attempts, testChat, emptied>>

(* A command: /block and /unblock post to the web server, /status asks it  *)
(* for two lists; a welcome, a usage line or the lack of API_TOKEN is      *)
(* answered at once.                                                       *)
Command(chat) ==
  /\ command = "none"
  /\ Authorize(chat)
  /\ command' \in {"post", "list", "answer"}
  /\ UNCHANGED <<Loop, errors>>

(* Mutant of Response: a status that fails half-way is asked for again.    *)
ResponseRetried(outcome) ==
  /\ command \in {"list", "blocked", "post"}
  /\ command' = CASE command = "list" /\ outcome = "arrives" -> "blocked"
                  [] command = "blocked" /\ outcome = "fails" -> "list"
                  [] outcome = "fails"                       -> "answer"
                  [] OTHER                                   -> "reply"
  /\ UNCHANGED <<Loop, authorized, errors>>

(* The web server has answered, whatever its status for a post, or it has  *)
(* not (no connection, a timeout, no JSON, an error status of a list).     *)
Response(outcome) ==
  /\ command \in {"list", "blocked", "post"}
  /\ command' = CASE outcome = "fails" -> "answer"
                  [] command = "list"  -> "blocked"
                  [] OTHER             -> "reply"
  /\ UNCHANGED <<Loop, authorized, errors>>

(* reply_text returns or raises.  The reply to a response is sent within   *)
(* the try, so when it fails another one says that the call failed; the    *)
(* exception of any other reply goes to the library, which logs it.        *)
Reply(outcome) ==
  /\ command \in {"reply", "answer"}
  /\ command' = IF command = "reply" /\ outcome = "fails" THEN "answer" ELSE "none"
  /\ UNCHANGED <<Loop, authorized, errors>>

CommandStep ==
  \E outcome \in {"arrives", "fails"} : Response(outcome) \/ Reply(outcome)

(* The worker or the web server inserts a row.                             *)
InsertAlert ==
  /\ inserted < MaxAlerts
  /\ inserted' = inserted + 1
  /\ alerts' = [id \in DOMAIN alerts \cup {NextId(DOMAIN alerts)} |->
                  IF id \in DOMAIN alerts THEN alerts[id] ELSE inserted']
  /\ UNCHANGED <<last, authorized, poller, attempts, testChat, errors, command, emptied>>

(* delete_alerts.py                                                        *)
DeleteAll ==
  /\ DOMAIN alerts # {}
  /\ alerts' = NoRows
  /\ emptied' = TRUE
  /\ UNCHANGED <<inserted, last, authorized, poller, attempts, testChat, errors, command>>

(* The bot dies and start runs again; if the query for the seed raises,    *)
(* the bot goes on from id 0.                                              *)
Restart ==
  /\ errors < MaxErrors /\ errors' = errors + 1
  /\ authorized' = {}
  /\ poller' = Sleeping
  /\ last' \in {Seed, 0}
  /\ command' = "none"
  /\ emptied' = FALSE
  /\ UNCHANGED <<alerts, inserted, attempts, testChat>>

Next ==
  \/ PollerStep
  \/ \E chat \in Chats : Command(chat)
  \/ CommandStep
  \/ InsertAlert \/ DeleteAll \/ Restart

Spec == Init /\ [][Next]_vars

(* asyncio wakes the poller up again; a send, a request and a reply end    *)
(* one way or another (httpx and the library give up after five seconds).  *)
FairSpec == Spec /\ WF_vars(PollerStep) /\ WF_vars(CommandStep)

----------------------------------------------------------------------------

(* Type invariant of the table and the poller.                             *)
TypeOK ==
  /\ inserted \in 0 .. MaxAlerts
  /\ DOMAIN alerts \subseteq 1 .. MaxAlerts
  /\ \A id \in DOMAIN alerts : alerts[id] \in 1 .. inserted
  /\ last \in 0 .. MaxAlerts
  /\ authorized \subseteq (IF testChat = NoChat THEN Chats ELSE {testChat})
  /\ poller.pc \in {"sleep", "await"}
  /\ poller.pc = "await" => poller.rows # NoRows /\ poller.chat \in Chats
  /\ poller.left \subseteq Chats
  /\ attempts \subseteq Chats \X (1 .. inserted)
  /\ testChat \in TestChats
  /\ errors \in 0 .. MaxErrors
  /\ command \in {"none", "list", "blocked", "post", "reply", "answer"}
  /\ emptied \in BOOLEAN

(* A new alert gets an id the poller has yet to come to, unless the tables *)
(* have been emptied under the bot (delete_alerts.py): then ids start over *)
(* below its mark.  Neither a seed, a poll nor an interrupted broadcast    *)
(* puts the mark beyond the table.                                         *)
NewAlertsAreAhead == ~emptied => last < NextId(DOMAIN alerts)

(* A command never keeps the bot from the next one for good, whatever the  *)
(* web server does with its requests: it ends in a reply, or in one that   *)
(* failed after the other.                                                 *)
CommandsEnd == command # "none" ~> command = "none"

(* An alert is ticked off only when every chat that is authorized by then  *)
(* has been sent a message for it, a chat that has been authorized in the  *)
(* middle of the broadcast included.                                       *)
TickedOffAfterAll ==
  [][poller.pc = "await" /\ last' # last /\ authorized' = authorized
       => \A chat \in authorized : <<chat, poller.rows[Current]>> \in attempts']_vars

(* The poller gets past every alert that is there for it to see, whatever  *)
(* sends fail and however often new chats interrupt a broadcast.           *)
PollerCatchesUp ==
  \A id \in 1 .. MaxAlerts :
    (id \in DOMAIN alerts /\ id > last) ~> (id <= last \/ id \notin DOMAIN alerts)
=============================================================================
