---------------------------- MODULE CommandProofs ----------------------------
(***************************************************************************)
(* Proofs about the system that Commands makes of Enforcement.  What       *)
(* EnforcementProofs proves of the worker and the web server holds with    *)
(* the command interfaces as further callers (CommandCases: the only new   *)
(* step is a reply), and what a command tells is related to the firewall.  *)
(***************************************************************************)
EXTENDS Commands, EnforcementProofs

(* handle_event's caller, block_ip's or unblock_ip's, ends with the result *)
(* and touches no table.                                                   *)
Reply(th) ==
  /\ call[th].pc = "returned" /\ Finish(th)
  /\ UNCHANGED <<rules, records, alerts, breaches, blocks>>

\* A step of the system with commands is a step of Enforcement, or the reply of a command.
LEMMA CommandCases ==
  ASSUME [CNext]_<<vars, cvars>>
  PROVE  [Next]_vars \/ \E th \in WebThreads : Reply(th)
<1>1. ASSUME NEW th \in WebThreads, WebRequest(th) PROVE Next
  BY <1>1 DEF WebRequest, Next, Threads
<1>2. ASSUME NEW th \in WebThreads, NEW who \in Interfaces, NEW line \in Lines,
             CommandBlock(th, who, line)
      PROVE  Next
  <2>1. Asks(who, line, "block") /\ line.arg \in IPs
        /\ Begin(th, "block", line.arg, "block_deny") /\ breaches' = breaches
    BY <1>2 DEF CommandBlock, Enter
  <2>2. line.word = "block"
    BY <2>1 DEF Asks, Word, CliWord, BotWord
  <2>3. "block" \in WebOps
    BY <2>2 DEF Lines
  <2> QED
    BY <2>1, <2>3 DEF Next, ApiBlock
<1>3. ASSUME NEW th \in WebThreads, NEW who \in Interfaces, NEW line \in Lines,
             CommandUnblock(th, who, line)
      PROVE  Next
  <2>1. Asks(who, line, "unblock") /\ line.arg \in IPs
        /\ Begin(th, "unblock", line.arg, "unblock_lookup") /\ breaches' = breaches
    BY <1>3 DEF CommandUnblock, Enter
  <2>2. line.word = "unblock"
    BY <2>1 DEF Asks, Word, CliWord, BotWord
  <2>3. "unblock" \in WebOps
    BY <2>2 DEF Lines
  <2> QED
    BY <2>1, <2>3 DEF Next, ApiUnblock
<1>4. ASSUME NEW who \in Interfaces, CommandBreaks(who) \/ CommandAnswered(who) \/ CliQuit
      PROVE  UNCHANGED vars
  BY <1>4 DEF CommandBreaks, CommandAnswered, CliQuit
<1>5. ASSUME NEW th \in WebThreads, CommandStep(th) PROVE Next
  BY <1>5 DEF CommandStep, Next, WebStep
<1>6. ASSUME NEW th \in WebThreads, CommandReply(th) PROVE Reply(th)
  BY <1>6 DEF CommandReply, Reply, At
<1>7. ASSUME NEW th \in WebThreads, CommandRaises(th) PROVE Next
  BY <1>7 DEF CommandRaises, Next, Threads
<1>8. CASE Crash
  BY <1>8 DEF Crash, Next
<1>9. CASE \/ \E ip \in IPs : Breach(ip)
           \/ WorkerStep \/ Raise(Worker) \/ WorkerCrash
           \/ DeleteAll
  BY <1>9 DEF Next, Threads
<1>10. CASE CliQuit
  BY <1>10 DEF CliQuit
<1>11. CASE UNCHANGED <<vars, cvars>>
  BY <1>11
<1> QED
  BY <1>1, <1>2, <1>3, <1>4, <1>5, <1>6, <1>7, <1>8, <1>9, <1>10, <1>11 DEF CNext

\* A reply ends a call of a web thread and changes nothing else.
LEMMA ReplyEffect ==
  ASSUME TypeInv, NEW th \in WebThreads, Reply(th)
  PROVE  /\ TypeInv' /\ Quiet
         /\ call'[th] = Idle /\ \A o \in Threads \ {th} : call'[o] = call[o]
         /\ call'[Worker] = call[Worker]
         /\ UNCHANGED <<rules, records, alerts, breaches, blocks>>
<1>1. /\ th \in Threads /\ Worker \in Threads \ {th}
      /\ call \in [Threads -> GoodCall] /\ rules \subseteq IPs
      /\ call[th].pc = "returned" /\ Finish(th)
      /\ UNCHANGED <<rules, records, alerts, breaches, blocks>>
  BY SharedStateAssumption DEF TypeInv, Threads, Reply
<1>2. /\ call' \in [Threads -> GoodCall] /\ call'[th] = Idle
      /\ \A o \in Threads \ {th} : call'[o] = call[o]
  BY <1>1, FinishKeepsCalls
<1>3. Framed(th)
  BY <1>1, <1>2, UnchangedTables DEF Framed
<1>4. TypeInv'
  BY <1>1, <1>3, FramedKeepsTypes
<1>5. Quiet
  BY <1>1, <1>2 DEF Quiet, Outside, Idle
<1> QED
  BY <1>1, <1>2, <1>4, <1>5

----------------------------------------------------------------------------
(* The safety of the tables and the firewall, with commands.               *)

\* The type invariant of Enforcement holds with commands.
LEMMA CommandTypes == CSpec => []TypeInv
<1>1. CInit => TypeInv
  BY InitTypes DEF CInit
<1>2. TypeInv /\ [CNext]_<<vars, cvars>> => TypeInv'
  BY CommandCases, NextKeepsTypes, ReplyEffect
<1> QED
  BY <1>1, <1>2, PTL DEF CSpec

\* Without unblocking, rules under records: a reply takes none away.
LEMMA CommandsEnforced ==
  ASSUME "unblock" \notin WebOps
  PROVE  CSpec => []Enforced
<1>1. CInit => Enforced
  BY DEF CInit, Init, Enforced, Threads, Idle, PastRule
<1>2. ASSUME TypeInv, Enforced, NEW th \in WebThreads, Reply(th) PROVE Enforced'
  BY <1>2, ReplyEffect DEF Enforced, Idle, PastRule, Threads
<1>3. TypeInv /\ Enforced /\ [CNext]_<<vars, cvars>> => Enforced'
  BY <1>2, CommandCases, NextKeepsEnforced
<1> QED
  BY <1>1, <1>3, CommandTypes, PTL DEF CSpec

(* With the command line and the bot as further callers, every record is   *)
(* of a denied address as long as nobody unblocks: handler.py 143 goes     *)
(* through the same block_ip, strategy first and record second.            *)
THEOREM RecordsEnforcedWithCommands ==
  ASSUME "unblock" \notin WebOps
  PROVE  CSpec => []RecordsAreEnforced
<1>1. Enforced => RecordsAreEnforced
  BY DEF Enforced, RecordsAreEnforced
<1> QED
  BY <1>1, CommandsEnforced, PTL

(* Nor does the worker count a block of an address that is not denied,     *)
(* whatever the commands do meanwhile.                                     *)
THEOREM CountedBlocksEnforcedWithCommands ==
  ASSUME "unblock" \notin WebOps
  PROVE  CSpec => CountedBlocksAreEnforced
<1>1. ASSUME TypeInv, NEW th \in WebThreads, Reply(th) PROVE ~(blocks' > blocks)
  BY <1>1, ReplyEffect DEF TypeInv, CountInv
<1>2. TypeInv /\ Enforced /\ [CNext]_<<vars, cvars>>
        => [blocks' > blocks => call[Worker].ip \in rules]_vars
  BY <1>1, CommandCases, CountStands
<1> QED
  BY <1>2, CommandTypes, CommandsEnforced, PTL DEF CSpec, CountedBlocksAreEnforced

(* Without unblocking and refusals an alert is marked blocked only when    *)
(* its address is denied, commands or not.                                 *)
THEOREM FlagsEnforcedWithCommands ==
  ASSUME "unblock" \notin WebOps, "refuse" \notin Faults
  PROVE  CSpec => []FlagsAreEnforced
<1>1. CInit => Flagged
  BY DEF CInit, Init, Flagged, FlagsAreEnforced, Threads, Idle, BeforeAlert
<1>2. ASSUME TypeInv, Flagged, NEW th \in WebThreads, Reply(th) PROVE Flagged'
  BY <1>2, ReplyEffect DEF Flagged, FlagsAreEnforced, Idle
<1>3. TypeInv /\ Enforced /\ Flagged /\ [CNext]_<<vars, cvars>> => Flagged'
  BY <1>2, CommandCases, NextKeepsFlagged
<1>4. Flagged => FlagsAreEnforced
  BY DEF Flagged
<1> QED
  BY <1>1, <1>3, <1>4, CommandTypes, CommandsEnforced, PTL DEF CSpec

(* Unblocking included, a record is created only while the firewall denies *)
(* its address, whether a breach, a web request or a command creates it.   *)
THEOREM RecordsUnderRuleWithCommands ==
  ASSUME AdminDeletes = FALSE
  PROVE  CSpec => RecordsCreatedUnderRule
<1>1. CInit => UnderRule
  BY DEF CInit, Init, UnderRule, Idle, BetweenRuleAndRecord
<1>2. ASSUME TypeInv, UnderRule, NEW th \in WebThreads, Reply(th)
      PROVE  UnderRule' /\ records' = records
  BY <1>2, ReplyEffect DEF UnderRule, Idle, BetweenRuleAndRecord, Recorded
<1>3. TypeInv /\ UnderRule /\ [CNext]_<<vars, cvars>> =>
        UnderRule' /\ [\A ip \in DOMAIN records' \ DOMAIN records : ip \in rules]_vars
  BY <1>2, CommandCases, NextKeepsUnderRule
<1> QED
  BY <1>1, <1>3, CommandTypes, PTL DEF CSpec, RecordsCreatedUnderRule

(* No call breaks off and nobody deletes the tables: then a denied address *)
(* can be unblocked again through any of the interfaces.                   *)
THEOREM DenialsUndoableWithCommands ==
  ASSUME AdminDeletes = FALSE, "raise" \notin Faults, "crash" \notin Faults
  PROVE  CSpec => []DenialsAreUndoable
<1>1. CInit => Undoable
  BY DEF CInit, Init, Undoable
<1>2. ASSUME TypeInv, Undoable, NEW th \in WebThreads, Reply(th) PROVE Undoable'
  <2>1. /\ UNCHANGED <<rules, records>> /\ \A o \in Threads \ {th} : call'[o] = call[o]
        /\ call[th].pc \notin BetweenRuleAndRecord
    BY <1>2, ReplyEffect DEF Reply, BetweenRuleAndRecord
  <2> QED
    BY <1>2, <2>1 DEF Undoable
<1>3. TypeInv /\ Undoable /\ [CNext]_<<vars, cvars>> => Undoable'
  BY <1>2, CommandCases, NextKeepsUndoable
<1>4. Undoable => DenialsAreUndoable
  BY DEF Undoable, DenialsAreUndoable, AllIdle, At, BetweenRuleAndRecord
<1> QED
  BY <1>1, <1>3, <1>4, CommandTypes, PTL DEF CSpec

----------------------------------------------------------------------------
(* What a command tells.                                                   *)

(* "Blocked <ip>" is said only while the firewall denies the address, as   *)
(* long as nobody unblocks, whatever fails, crashes or is deleted before   *)
(* the reply (handler.py 143-146).                                         *)
THEOREM SuccessesAreDenied ==
  ASSUME "unblock" \notin WebOps
  PROVE  CSpec => []SuccessMeansDenied
<1>1. Enforced => SuccessMeansDenied
  BY DEF Enforced, SuccessMeansDenied, At, Threads
<1> QED
  BY <1>1, CommandsEnforced, PTL

(* A command is in the service or about to reply.  Until it has asked the  *)
(* firewall it has been told nothing; and if it has been told yes, it will *)
(* reply yes.                                                              *)
CommandLabels ==
  {"block_deny", "block_lookup", "block_remark", "block_create",
   "unblock_lookup", "unblock_allow", "unblock_mark", "returned"}

Telling ==
  /\ command \in [WebThreads -> [who : Interfaces \cup {"none"}, told : BOOLEAN]]
  /\ \A th \in WebThreads : command[th] # NoCommand =>
       /\ call[th].pc \in CommandLabels
       /\ command[th].told =>
            /\ call[th].pc \notin {"block_deny", "unblock_lookup", "unblock_allow"}
            /\ call[th].pc = "returned" => call[th].ok

\* A step of the worker or the administrator moves no web thread.
LEMMA WorkerMovesAlone ==
  ASSUME TypeInv,
         \/ \E ip \in IPs : Breach(ip)
         \/ WorkerStep \/ Raise(Worker) \/ WorkerCrash
         \/ DeleteAll
  PROVE  \A o \in WebThreads : call'[o] = call[o]
<1>1. /\ call \in [Threads -> GoodCall] /\ Worker \in Threads
      /\ WebThreads \subseteq Threads \ {Worker}
  BY SharedStateAssumption DEF TypeInv, Threads
<1>2. ASSUME ServiceStep(Worker) PROVE \A o \in WebThreads : call'[o] = call[o]
  BY <1>1, <1>2, ServiceEffect
<1>3. ASSUME PersistBreach PROVE \A o \in WebThreads : call'[o] = call[o]
  BY <1>1, <1>3 DEF PersistBreach, UpsertSelect, UpsertInsert, UpsertSave, Goto
<1>4. ASSUME OnBlocked \/ OnNotBlocked \/ Notify PROVE \A o \in WebThreads : call'[o] = call[o]
  BY <1>1, <1>4 DEF OnBlocked, OnNotBlocked, Notify, MarkBlocked, Goto, Finish
<1>5. ASSUME NEW ip \in IPs, Breach(ip) PROVE \A o \in WebThreads : call'[o] = call[o]
  BY <1>1, <1>5 DEF Breach, Begin
<1>6. ASSUME Raise(Worker) \/ WorkerCrash \/ DeleteAll
      PROVE  \A o \in WebThreads : call'[o] = call[o]
  BY <1>1, <1>6 DEF Raise, WorkerCrash, DeleteAll, Finish
<1> QED
  BY <1>2, <1>3, <1>4, <1>5, <1>6 DEF WorkerStep

\* A step of a web request moves its own thread only.
LEMMA WebMovesAlone ==
  ASSUME TypeInv, NEW th \in WebThreads, WebRequest(th)
  PROVE  \A o \in Threads \ {th} : call'[o] = call[o]
<1>1. call \in [Threads -> GoodCall] /\ th \in Threads
  BY DEF TypeInv, Threads
<1>2. ASSUME ServiceStep(th) PROVE \A o \in Threads \ {th} : call'[o] = call[o]
  BY <1>1, <1>2, ServiceEffect
<1>3. ASSUME ApiMark(th) \/ ApiAnswer(th) PROVE \A o \in Threads \ {th} : call'[o] = call[o]
  BY <1>1, <1>3 DEF ApiMark, ApiAnswer, MarkIpBlocked, MarkIpInsert, MarkIpUnblocked, Goto, Finish
<1>4. ASSUME NEW ip \in IPs, ApiBlock(th, ip) \/ ApiUnblock(th, ip)
      PROVE  \A o \in Threads \ {th} : call'[o] = call[o]
  BY <1>1, <1>4 DEF ApiBlock, ApiUnblock, Begin
<1>5. ASSUME Raise(th) PROVE \A o \in Threads \ {th} : call'[o] = call[o]
  BY <1>1, <1>5 DEF Raise, Finish
<1> QED
  BY <1>2, <1>3, <1>4, <1>5 DEF WebRequest, WebStep

\* A step of a command: what it is told, and that a told command will succeed.
LEMMA CommandStepTells ==
  ASSUME TypeInv, Known, Telling, NEW th \in WebThreads, CommandStep(th)
  PROVE  Telling'
<1>1. /\ th \in Threads /\ command[th] # NoCommand /\ ServiceStep(th)
      /\ command[th] \in [who : Interfaces \cup {"none"}, told : BOOLEAN]
  BY DEF CommandStep, Threads, Telling
<1>2. /\ Effect(th) /\ Results(th)
      /\ \A o \in WebThreads \ {th} : call'[o] = call[o]
  BY <1>1, ServiceEffect, ServiceResults DEF Threads
<1>3. ASSUME NEW c \in [who : Interfaces \cup {"none"}, told : BOOLEAN],
             command' = [command EXCEPT ![th] = c],
             c # NoCommand =>
               /\ call'[th].pc \in CommandLabels
               /\ c.told =>
                    /\ call'[th].pc \notin {"block_deny", "unblock_lookup", "unblock_allow"}
                    /\ call'[th].pc = "returned" => call'[th].ok
      PROVE  Telling'
  BY <1>2, <1>3 DEF Telling
<1>4. CASE call'[th] = Idle
  <2>1. command' = [command EXCEPT ![th] = NoCommand]
    BY <1>4 DEF CommandStep, Abandon
  <2>2. NoCommand \in [who : Interfaces \cup {"none"}, told : BOOLEAN]
    BY DEF NoCommand
  <2> QED
    BY <1>3, <2>1, <2>2
<1>5. CASE call'[th] # Idle
  <2> DEFINE asked == call[th].pc \in {"block_deny", "unblock_allow"} /\ call'[th].pc # "returned"
             c == [command[th] EXCEPT !.told = @ \/ asked]
  <2>1. command' = [command EXCEPT ![th] = c]
    BY <1>5 DEF CommandStep
  <2>2. c \in [who : Interfaces \cup {"none"}, told : BOOLEAN]
    BY <1>1
  <2>3. c.told => command[th].told \/ asked
    BY <1>1
  <2>4. /\ call'[th].pc \in CommandLabels \ {"block_deny", "unblock_lookup"}
        /\ call'[th].pc = "unblock_allow" => call[th].pc = "unblock_lookup"
    BY <1>1, <1>2, <1>5 DEF Effect, Found, Missing, Marked, Denied, WasRefused, Collided, Created,
                            Lifted, Moves, Telling, CommandLabels
  <2>5. asked => call'[th].pc \in {"block_lookup", "unblock_mark"}
    BY <1>2, <1>5 DEF Effect, Found, Missing, Marked, Denied, WasRefused, Collided, Created,
                      Lifted, Moves
  <2>6. command[th].told =>
          /\ call[th].pc \in {"block_lookup", "block_remark", "block_create", "unblock_mark"}
          /\ call'[th].pc # "returned" => call'[th].pc \in {"block_remark", "block_create"}
          /\ call'[th].pc = "returned" => call'[th].ok
    <3> SUFFICES ASSUME command[th].told
                 PROVE  /\ call[th].pc \in {"block_lookup", "block_remark", "block_create", "unblock_mark"}
                        /\ call'[th].pc # "returned" => call'[th].pc \in {"block_remark", "block_create"}
                        /\ call'[th].pc = "returned" => call'[th].ok
      OBVIOUS
    <3>1. call[th].pc \in {"block_lookup", "block_remark", "block_create", "unblock_mark", "returned"}
      BY <1>1 DEF Telling, CommandLabels
    <3>2. /\ call[th].pc \in {"block_lookup", "block_remark", "block_create", "unblock_mark"}
          /\ call'[th].pc # "returned" => call'[th].pc \in {"block_remark", "block_create"}
          /\ call'[th].pc = "returned" => call[th].pc # "block_lookup"
          /\ call'[th].pc = "returned" /\ call[th].pc = "block_create" => ~Recorded(th)
      BY <1>2, <1>5, <3>1 DEF Effect, Found, Missing, Marked, Denied, WasRefused, Collided,
                              Created, Lifted, Moves
    <3>3. call'[th].pc = "returned" => call'[th].ok
      BY <1>1, <1>2, <3>2 DEF Results, Known
    <3> QED
      BY <3>2, <3>3
  <2> HIDE DEF c, asked
  <2> QED
    BY <1>3, <2>1, <2>2, <2>3, <2>4, <2>5, <2>6
<1> QED
  BY <1>4, <1>5

\* Every step of the system keeps what the replies rest on.
LEMMA CNextTells == TypeInv /\ Known /\ Telling /\ [CNext]_<<vars, cvars>> => Telling'
<1> SUFFICES ASSUME TypeInv, Known, Telling, [CNext]_<<vars, cvars>> PROVE Telling'
  OBVIOUS
<1>0. /\ WebThreads \subseteq Threads /\ call \in [Threads -> GoodCall]
      /\ command \in [WebThreads -> [who : Interfaces \cup {"none"}, told : BOOLEAN]]
  BY DEF Threads, TypeInv, Telling
<1>1. ASSUME UNCHANGED command, \A o \in WebThreads : call'[o] = call[o] PROVE Telling'
  BY <1>1 DEF Telling
<1>2. CASE /\ \/ \E ip \in IPs : Breach(ip)
              \/ WorkerStep \/ Raise(Worker) \/ WorkerCrash
              \/ DeleteAll
           /\ UNCHANGED cvars
  BY <1>1, <1>2, WorkerMovesAlone DEF cvars
<1>3. ASSUME NEW th \in WebThreads, WebRequest(th) PROVE Telling'
  <2>1. command[th] = NoCommand /\ UNCHANGED command
    BY <1>3 DEF WebRequest, cvars
  <2> QED
    BY <1>0, <1>3, <2>1, WebMovesAlone DEF Telling
<1>4. ASSUME NEW th \in WebThreads, NEW who \in Interfaces, NEW op \in {"block", "unblock"},
             NEW ip \in IPs, NEW label \in {"block_deny", "unblock_lookup"},
             Begin(th, op, ip, label), Enter(th, who)
      PROVE  Telling'
  <2>1. /\ call'[th].pc = label /\ \A o \in WebThreads \ {th} : call'[o] = call[o]
    BY <1>0, <1>4, BeginKeepsCalls DEF Framed, Labels
  <2> DEFINE c == [who |-> who, told |-> FALSE]
  <2>2. c \in [who : Interfaces \cup {"none"}, told : BOOLEAN] /\ ~c.told
    OBVIOUS
  <2>3. command' = [command EXCEPT ![th] = c]
    BY <1>4 DEF Enter
  <2> HIDE DEF c
  <2> QED
    BY <1>0, <2>1, <2>2, <2>3 DEF Telling, CommandLabels
<1>5. ASSUME NEW th \in WebThreads, NEW who \in Interfaces, NEW line \in Lines,
             CommandBlock(th, who, line) \/ CommandUnblock(th, who, line)
      PROVE  Telling'
  BY <1>4, <1>5 DEF CommandBlock, CommandUnblock
<1>6. ASSUME NEW who \in Interfaces, CommandBreaks(who) \/ CommandAnswered(who) PROVE Telling'
  BY <1>1, <1>6 DEF CommandBreaks, CommandAnswered, vars, cvars
<1>7. CASE CliQuit
  BY <1>1, <1>7 DEF CliQuit, vars
<1>8. ASSUME NEW th \in WebThreads, CommandStep(th) PROVE Telling'
  BY <1>8, CommandStepTells
<1>9. ASSUME NEW th \in WebThreads, Finish(th), command' = [command EXCEPT ![th] = NoCommand]
      PROVE  Telling'
  <2>1. \A o \in WebThreads \ {th} : call'[o] = call[o]
    BY <1>0, <1>9 DEF Finish
  <2>2. NoCommand \in [who : Interfaces \cup {"none"}, told : BOOLEAN]
    BY DEF NoCommand
  <2> QED
    BY <1>0, <1>9, <2>1, <2>2 DEF Telling
<1>10. ASSUME NEW th \in WebThreads, CommandReply(th) \/ CommandRaises(th) PROVE Telling'
  BY <1>9, <1>10 DEF CommandReply, CommandRaises, Raise, Abandon
<1>11. CASE Crash
  <2>1. NoCommand \in [who : Interfaces \cup {"none"}, told : BOOLEAN]
    BY DEF NoCommand
  <2> QED
    BY <1>11, <2>1 DEF Crash, Telling
<1>12. CASE UNCHANGED <<vars, cvars>>
  BY <1>1, <1>12 DEF vars, cvars
<1> QED
  BY <1>2, <1>3, <1>5, <1>6, <1>7, <1>8, <1>10, <1>11, <1>12 DEF CNext

(* "Failed to block" and "Failed to unblock" are said only when the        *)
(* firewall has not said yes, unless the tables are deleted under the      *)
(* command: a record that was looked up is still there to be marked, and   *)
(* a create that meets another one raises instead of failing               *)
(* (handler.py 121-126, 143-149).                                          *)
THEOREM FailuresHaveNoEffect ==
  ASSUME AdminDeletes = FALSE
  PROVE  CSpec => []FailureMeansNoEffect
<1>1. CInit => Known /\ Telling
  <2> SUFFICES ASSUME CInit PROVE Known /\ Telling
    OBVIOUS
  <2>1. Known
    BY DEF CInit, Init, Known, Idle
  <2>2. NoCommand \in [who : Interfaces \cup {"none"}, told : BOOLEAN]
    BY DEF NoCommand
  <2>3. Telling
    BY <2>2 DEF CInit, Telling
  <2> QED
    BY <2>1, <2>3
<1>2. ASSUME TypeInv, Known, NEW th \in WebThreads, Reply(th) PROVE Known'
  <2>1. RecordIds' = RecordIds
    BY <1>2 DEF Reply, RecordIds
  <2> QED
    BY <1>2, <2>1, ReplyEffect DEF Known, Idle
<1>3. TypeInv /\ Known /\ [CNext]_<<vars, cvars>> => Known'
  BY <1>2, CommandCases, NextKeepsKnown
<1>4. Telling => FailureMeansNoEffect
  BY DEF Telling, FailureMeansNoEffect, At
<1> QED
  BY <1>1, <1>3, <1>4, CNextTells, CommandTypes, PTL DEF CSpec
=============================================================================
