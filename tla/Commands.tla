------------------------------ MODULE Commands ------------------------------
(***************************************************************************)
(* The command interfaces as further callers of the block service: the     *)
(* command line (interfaces/commands/cli.py) and the first Telegram bot    *)
(* (adapters/telegram.py) parse a line and hand it to the CommandHandler   *)
(* (interfaces/commands/handler.py), which calls BlockService and leaves   *)
(* the alerts alone.                                                       *)
(*                                                                         *)
(* A thread of WebThreads runs a web request or a command: command says    *)
(* which.  Each interface handles one line at a time: the loop of the      *)
(* command line waits for handle, the bot takes one update after another.  *)
(***************************************************************************)
EXTENDS Enforcement

CONSTANTS
  Interfaces,   \* the interfaces in use: "cli", "bot"
  Slashes,      \* how lines begin: with "none", "one" or "many" slashes
  Garbage       \* an argument that is no address

ASSUME CommandsAssumption ==
  /\ Interfaces \subseteq {"cli", "bot"}
  /\ Slashes \subseteq {"none", "one", "many"}
  /\ Garbage \notin IPs \cup {NoIP}

VARIABLES
  command,    \* per web thread: the command it runs, and whether the
              \* firewall has said yes to it
  cliOpen,    \* the loop of the command line runs
  testMode    \* the bot was built with test_mode

cvars == <<command, cliOpen, testMode>>

(* A line: its slashes, its first word and the argument after it.  The     *)
(* commands asked for are those that are asked of the web server (WebOps). *)
Lines ==
  [slashes : Slashes, word : WebOps, arg : IPs \cup {NoIP, Garbage}]
    \cup [slashes : Slashes, word : {"", "status", "other"}, arg : {NoIP}]

(* The thread runs a web request or nothing.                               *)
NoCommand == [who |-> "none", told |-> FALSE]

CInit ==
  /\ Init
  /\ command = [th \in WebThreads |-> NoCommand]
  /\ cliOpen = ("cli" \in Interfaces)
  /\ testMode \in (IF "bot" \in Interfaces THEN BOOLEAN ELSE {FALSE})

----------------------------------------------------------------------------
(* From a line to what handle is called with.                              *)

(* Exactly one slash is removed; a second one becomes part of the word, no *)
(* slash or no word is no command.                                         *)
CliWord(line) ==
  IF line.slashes = "many" THEN "other"
  ELSE IF line.slashes = "none" THEN "" ELSE line.word

(* The library has handlers for three commands and for text that is none.  *)
Routed(line) == ~(line.slashes = "one" /\ line.word = "other")

(* Every leading slash is removed, and plain text is a command as well.    *)
BotWord(line) == IF Routed(line) THEN line.word ELSE ""

Word(who, line) == IF who = "cli" THEN CliWord(line) ELSE BotWord(line)

Allowed(who) ==
  IF who = "bot" /\ testMode THEN {"status"} ELSE {"status", "block", "unblock"}

(* parts[0] of a text without a word: an IndexError.                       *)
HasNoWord(who, line) == who = "bot" /\ line.word = "" /\ line.slashes # "none"

Asks(who, line, op) == Word(who, line) = op /\ op \in Allowed(who)

(* ufw refuses to run for what is no address (validate_ip).                *)
Breaks(who, line) ==
  HasNoWord(who, line) \/ (Asks(who, line, "block") /\ line.arg = Garbage)

Listening(who) ==
  /\ who \in Interfaces
  /\ who = "cli" => cliOpen
  /\ \A th \in WebThreads : command[th].who # who

Enter(th, who) ==
  /\ command' = [command EXCEPT ![th] = [who |-> who, told |-> FALSE]]
  /\ UNCHANGED <<breaches, cliOpen, testMode>>

CommandBlock(th, who, line) ==
  /\ Listening(who) /\ Asks(who, line, "block") /\ line.arg \in IPs
  /\ Begin(th, "block", line.arg, "block_deny")
  /\ Enter(th, who)

CommandUnblock(th, who, line) ==
  /\ Listening(who) /\ Asks(who, line, "unblock") /\ line.arg \in IPs
  /\ Begin(th, "unblock", line.arg, "unblock_lookup")
  /\ Enter(th, who)

(* An exception ends the loop of the command line, which only catches EOF  *)
(* and interrupts; the bot's library logs it.                              *)
Escapes(who) == cliOpen' = (cliOpen /\ who # "cli")

CommandBreaks(who) ==
  /\ Listening(who) /\ \E line \in Lines : Breaks(who, line)
  /\ Escapes(who)
  /\ UNCHANGED <<vars, command, testMode>>

(* Every other line is ignored or answered at once: the counts of /status, *)
(* an unknown command, a missing argument or permission, nothing to        *)
(* unblock.                                                                *)
CommandAnswered(who) ==
  /\ Listening(who)
  /\ \E line \in Lines :
       /\ ~Breaks(who, line)
       /\ ~\E op \in WebOps : Asks(who, line, op) /\ line.arg \in IPs
  /\ UNCHANGED <<vars, cvars>>

(* quit, exit, end of file or an interrupt at the prompt.                  *)
CliQuit ==
  /\ Listening("cli")
  /\ cliOpen' = FALSE
  /\ UNCHANGED <<vars, command, testMode>>

----------------------------------------------------------------------------
(* A command under way.                                                    *)

Abandon(th) ==
  /\ Escapes(command[th].who)
  /\ command' = [command EXCEPT ![th] = NoCommand]

(* A step of the service; an IntegrityError of repo.create escapes handle. *)
CommandStep(th) ==
  /\ command[th] # NoCommand
  /\ ServiceStep(th)
  /\ \/ /\ call'[th] = Idle
        /\ Abandon(th)
     \/ /\ call'[th] # Idle
        /\ command' = [command EXCEPT ![th].told =
             @ \/ (call[th].pc \in {"block_deny", "unblock_allow"}
                     /\ call'[th].pc # "returned")]
        /\ UNCHANGED cliOpen
  /\ UNCHANGED testMode

(* handle has returned: Blocked, Unblocked or Failed.                      *)
CommandReply(th) ==
  /\ command[th] # NoCommand /\ At(th, "returned")
  /\ Finish(th)
  /\ command' = [command EXCEPT ![th] = NoCommand]
  /\ UNCHANGED <<rules, records, alerts, breaches, blocks, cliOpen, testMode>>

CommandRaises(th) ==
  /\ command[th] # NoCommand
  /\ Raise(th)
  /\ Abandon(th)
  /\ UNCHANGED testMode

(* The processes of all these threads die.                                 *)
Crash ==
  /\ WebCrash
  /\ command' = [th \in WebThreads |-> NoCommand]
  /\ cliOpen' = FALSE
  /\ UNCHANGED testMode

WebRequest(th) ==
  /\ command[th] = NoCommand
  /\ WebStep(th) \/ Raise(th) \/ \E ip \in IPs : ApiBlock(th, ip) \/ ApiUnblock(th, ip)
  /\ UNCHANGED cvars

CNext ==
  \/ /\ \/ \E ip \in IPs : Breach(ip)
        \/ WorkerStep \/ Raise(Worker) \/ WorkerCrash
        \/ DeleteAll
     /\ UNCHANGED cvars
  \/ \E th \in WebThreads : WebRequest(th)
  \/ \E th \in WebThreads, who \in Interfaces, line \in Lines :
       CommandBlock(th, who, line) \/ CommandUnblock(th, who, line)
  \/ \E who \in Interfaces : CommandBreaks(who) \/ CommandAnswered(who)
  \/ CliQuit
  \/ \E th \in WebThreads : CommandStep(th) \/ CommandReply(th) \/ CommandRaises(th)
  \/ Crash

CSpec == CInit /\ [][CNext]_<<vars, cvars>>

----------------------------------------------------------------------------

(* "Failed to block" and "Failed to unblock" are said only when the        *)
(* firewall has not done it: nobody is left to believe that an address is  *)
(* let through that is denied (handler.py 121-126, 143-149).  Holds unless *)
(* a table is emptied under the command.                                   *)
FailureMeansNoEffect ==
  \A th \in WebThreads :
    command[th] # NoCommand /\ At(th, "returned") /\ ~call[th].ok => ~command[th].told

(* "Blocked <ip>" is said only while the firewall denies the address, as   *)
(* long as nobody unblocks it, with crashes, exceptions and deletions of   *)
(* the tables in between (handler.py 143-146).                             *)
SuccessMeansDenied ==
  \A th \in WebThreads :
    command[th] # NoCommand /\ At(th, "returned") /\ call[th].ok
      => call[th].ip \in rules
=============================================================================
