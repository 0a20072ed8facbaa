----------------------------- MODULE Notification -----------------------------
(***************************************************************************)
(* The worker's handler with everything it calls (worker.py 219-282): the  *)
(* breach is written down, its address blocked and marked, the block       *)
(* counted; then the event is enriched with the place of its address       *)
(* (adapters/geoip/geo_ip.py), sent to the alert channel                   *)
(* (adapters/alerting/console.py) and counted.  Only the channel is called *)
(* within a try: what anything else raises ends the handler and is         *)
(* swallowed by the broker (events.py 67), and the alert is lost.          *)
(*                                                                         *)
(* The metrics go on around it (Metrics.tla), and so do restarts.  What    *)
(* the statements do to the tables is in Enforcement.  An IPv4 address is  *)
(* its last octet, which is all that the mock provider looks at.           *)
(***************************************************************************)
EXTENDS Metrics

CONSTANTS
  Octets,    \* last octets of the attackers' IPv4 addresses
  IPv6,      \* an attacker's IPv6 address
  Known,     \* places that a database knows
  NoPlace    \* the event has no geo

ASSUME NotificationAssumption ==
  Octets \subseteq 0 .. 255 /\ IPv6 \notin 0 .. 255 /\ NoPlace \notin Known \cup 0 .. 7

VARIABLES
  provider,     \* GEOIP_PROVIDER
  dbPath,       \* the enricher has been given a database (the worker gives none)
  stage,        \* what the handler is about to call
  event,        \* the EnrichedEvent
  taken,        \* breaches of this run that the handler was called for
  broken,       \* those it broke off, a statement having raised
  undelivered   \* alerts of this run that the channel failed to deliver

tallies == <<taken, broken, undelivered>>
nvars == <<provider, dbPath, stage, event, tallies>>

(* The calls up to the count of the block, and those that are left then.   *)
Deciding == {"persist", "block", "mark", "count"}
Announcing == {"enrich", "send", "record"}

(* No event is being announced.                                            *)
NoEvent == [octet |-> 0, place |-> NoPlace]

NInit ==
  /\ Init
  /\ provider \in {"mock", "maxmind", "other"} /\ dbPath \in BOOLEAN
  /\ stage = "none"
  /\ event = NoEvent
  /\ taken = 0 /\ broken = 0 /\ undelivered = 0

(* An IPv6 address is no IPv4Address: 127.0.0.1 stands in for it.          *)
ShownAs(ip) == IF ip = IPv6 THEN 1 ELSE ip

FromParsedEntry ==
  /\ \E ip \in Octets \cup {IPv6} : event' = [octet |-> ShownAs(ip), place |-> NoPlace]
  /\ stage' = "enrich"

----------------------------------------------------------------------------
(* What may raise.                                                         *)

(* publish calls the handler.                                              *)
Begin ==
  /\ stage = "none" /\ flusher # "down" /\ breaches < MaxBreaches
  /\ stage' = "persist"
  /\ taken' = taken + 1
  /\ UNCHANGED <<vars, provider, dbPath, event, broken, undelivered>>

(* upsert_breach returns.                                                  *)
Persist ==
  /\ stage = "persist" /\ stage' = "block"
  /\ UNCHANGED <<vars, provider, dbPath, event, tallies>>

(* handle_event returns: True, or False and the failure is logged.         *)
HandleEvent ==
  /\ stage = "block"
  /\ \/ stage' = "mark" /\ UNCHANGED <<vars, event>>
     \/ NotBlocked /\ FromParsedEntry
  /\ UNCHANGED <<provider, dbPath, tallies>>

(* mark_blocked returns.                                                   *)
MarkBlocked ==
  /\ stage = "mark" /\ stage' = "count"
  /\ UNCHANGED <<vars, provider, dbPath, event, tallies>>

(* record_block                                                            *)
CountBlock ==
  /\ stage = "count"
  /\ RecordBlock /\ FromParsedEntry
  /\ UNCHANGED <<provider, dbPath, tallies>>

(* One of the three raises (a locked database, the unique index), possibly *)
(* after the firewall has denied the address: nothing of the handler that  *)
(* comes after it is done.                                                 *)
BreaksOff ==
  /\ stage \in {"persist", "block", "mark"}
  /\ Abandon
  /\ stage' = "none"
  /\ broken' = broken + 1
  /\ UNCHANGED <<provider, dbPath, event, taken, undelivered>>

----------------------------------------------------------------------------
(* What may not, or not out of the handler.                                *)

(* One of eight cities, by the last octet.                                 *)
MockLookup(octet) == octet % 8

(* Without a path, a library, a file or an entry there is no place; every  *)
(* exception is caught.                                                    *)
MaxmindLookup == IF dbPath THEN Known \cup {NoPlace} ELSE {NoPlace}

Lookup(octet) ==
  CASE provider = "mock"    -> {MockLookup(octet)}
    [] provider = "maxmind" -> MaxmindLookup
    [] OTHER                -> {NoPlace}

(* Mutant of Enrich: a lookup without a place raises, out of the handler.  *)
EnrichOrRaise ==
  /\ stage = "enrich"
  /\ \E place \in Lookup(event.octet) :
       /\ event' = [event EXCEPT !.place = place]
       /\ \/ /\ place # NoPlace /\ stage' = "send" /\ UNCHANGED handler
          \/ /\ place = NoPlace /\ stage' = "none" /\ handler' = "waits"
  /\ UNCHANGED <<breaches, alerted, blocked, refused, flusher, section, draft, file,
                 answer, run, provider, dbPath, tallies>>

(* geoip.enrich                                                            *)
Enrich ==
  /\ stage = "enrich"
  /\ \E place \in Lookup(event.octet) : event' = [event EXCEPT !.place = place]
  /\ stage' = "send"
  /\ UNCHANGED <<vars, provider, dbPath, tallies>>

(* alert_channel.send: the message is printed.                             *)
Send ==
  /\ stage = "send" /\ stage' = "record"
  /\ UNCHANGED <<vars, provider, dbPath, event, tallies>>

(* Mutant of SendFails: a delivery that fails is tried again.              *)
SendFailsAndRetries ==
  /\ stage = "send" /\ stage' = "enrich"
  /\ event' = [event EXCEPT !.place = NoPlace]
  /\ UNCHANGED <<vars, provider, dbPath, tallies>>

(* It cannot be (a closed stdout, a character it cannot encode): logged.   *)
SendFails ==
  /\ stage = "send" /\ stage' = "none"
  /\ alerted' = alerted /\ RecordAlert
  /\ undelivered' = undelivered + 1
  /\ event' = NoEvent
  /\ UNCHANGED <<provider, dbPath, taken, broken>>

(* record_alert                                                            *)
Delivered ==
  /\ stage = "record" /\ stage' = "none"
  /\ alerted' = alerted + 1 /\ RecordAlert
  /\ event' = NoEvent
  /\ UNCHANGED <<provider, dbPath, tallies>>

Announce == Enrich \/ Send \/ SendFails \/ Delivered

----------------------------------------------------------------------------

(* The worker ends, wherever the handler is.                               *)
NExit ==
  /\ Exit
  /\ stage' = "none" /\ event' = NoEvent
  /\ taken' = 0 /\ broken' = 0 /\ undelivered' = 0
  /\ UNCHANGED <<provider, dbPath>>

NNext ==
  \/ Begin \/ Persist \/ HandleEvent \/ MarkBlocked \/ CountBlock \/ BreaksOff
  \/ Announce
  \/ (Flush \/ Scrape \/ Start) /\ UNCHANGED nvars
  \/ NExit

NSpec == NInit /\ [][NNext]_<<vars, nvars>>

(* Beyond the fairness of Metrics, the main thread goes on with an         *)
(* announcement: it looks up a place in memory or in a local file and      *)
(* prints a line.                                                          *)
NFairSpec == NSpec /\ Fairness /\ WF_<<vars, nvars>>(Announce)

----------------------------------------------------------------------------

(* The handler breaks off only before it has counted anything: a breach it *)
(* was called for in this run is counted as a block, was refused, or was   *)
(* abandoned because a statement raised, in which case the address may be  *)
(* denied with no count and no alert (worker.py 228-240).  Once that is    *)
(* decided, no address, provider or failing lookup keeps the alert from    *)
(* the channel: it is counted, or the channel itself has failed            *)
(* (worker.py 252-282).                                                    *)
AlertsLostOnlyBeforeTheCount ==
  /\ taken = blocked + refused + broken + IF stage \in Deciding THEN 1 ELSE 0
  /\ blocked + refused = alerted + undelivered + IF stage \in Announcing THEN 1 ELSE 0

(* A breach that is counted as a block or has been refused is eventually   *)
(* announced, or its channel has failed once and for all, unless the       *)
(* worker ends before: no failure of the lookup or of the channel holds up *)
(* the handler, in which the loop over the log waits (worker.py 267-282).  *)
DecidedBreachesAnnounced ==
  \A n \in 1 .. MaxBreaches, r \in 1 .. MaxRuns :
    (blocked + refused = n /\ run = r /\ flusher # "down") ~>
      (flusher = "down" \/ run > r \/ alerted + undelivered >= n)
=============================================================================
