------------------------------ MODULE AlertStream ------------------------------
(***************************************************************************)
(* The realtime alert feed of one site, from the table to the operator's   *)
(* screen:                                                                 *)
(*                                                                         *)
(*   realtime.Append        numbers the messages of a site without holes   *)
(*   realtime.Replay        floor check and row select, two statements     *)
(*   httpapi.streamAlerts   snapshot or resume, then a poll every second   *)
(*   AlertRealtimeClient    keeps the last sequence number, reconnects     *)
(*   useAlertFeed           the list on screen, refreshed over REST        *)
(*                                                                         *)
(* One browser tab follows the site while alerts are projected and         *)
(* acknowledged, messages expire, connections break and pages reload.      *)
(***************************************************************************)
EXTENDS Integers, Sequences, FiniteSets

CONSTANTS MaxAlerts,    \* bound: alerts 1 .. MaxAlerts, numbered in list order
          ListLimit,    \* LIMIT of the alert queue query (100)
          ReplayLimit,  \* messages per replay (100)
          MaxWindow,    \* MaxReplayWindow (8192)
          Slots,        \* bound: REST reads of the queue in flight together
          MaxFaults     \* bound: broken connections, reloads, failed requests

ASSUME StreamAssumption ==
  /\ {MaxAlerts, ListLimit, ReplayLimit, MaxWindow} \subseteq Nat \ {0}
  /\ MaxFaults \in Nat
  /\ IsFiniteSet(Slots)

VARIABLES alert,    \* status of each alert in alerts.alerts
          log,      \* syncam_realtime.messages of the site; sequence = index
          expired,  \* messages 1 .. expired have passed expires_at
          spc,      \* what the server does next on the connection
          last,     \* last sequence written to the connection
          seen,     \* CurrentSequence read by the statement before
          channel,  \* envelopes on their way to the browser
          conn,     \* the client: "off", "dialing" or "open"
          ticket,   \* the realtime ticket it holds
          stored,   \* sessionStorage last_seq, -1 where there is none
          list,     \* the queue on screen
          rest,     \* REST reads of the queue by slot
          missed,   \* history: positions up to stored the screen may lack
          ackKeys,  \* alerts this page acknowledged: key stored on the server
          faults

database == <<alert, log, expired, ackKeys>>
server == <<spc, last, seen>>
client == <<conn, ticket, stored, list, rest, missed>>
vars == <<database, server, channel, client, faults>>

Alerts == 1 .. MaxAlerts
Status == {"none", "new", "acked"}
Queue == [Alerts -> Status]
Rank == [none |-> 0, new |-> 1, acked |-> 2]
Current == Len(log)
Idle == [state |-> "idle"]
Envelope(t, n, p) == [type |-> t, seq |-> n, payload |-> p]
Fault == faults < MaxFaults /\ faults' = faults + 1

Init ==
  /\ alert = [a \in Alerts |-> "none"]
  /\ log = << >>
  /\ expired = 0
  /\ ackKeys = {}
  /\ spc = "none" /\ last = 0 /\ seen = 0
  /\ channel = << >>
  /\ conn = "off" /\ ticket = "none" /\ stored = -1
  /\ list = [a \in Alerts |-> "none"]
  /\ rest \in {[s \in Slots |-> IF s = first THEN [state |-> "asked"] ELSE Idle]
               : first \in Slots}
  /\ missed = {}
  /\ faults = 0

--------------------------------------------------------------------------------
(***************************************************************************)
(* The writers.  Append locks the site's sequence row until the            *)
(* transaction of Projector.Publish or Acknowledge ends, so numbers become *)
(* visible in order and without holes.                                     *)
(***************************************************************************)
Record(a, status) ==
  /\ alert' = [alert EXCEPT ![a] = status]
  /\ log' = Append(log, [alert |-> a, status |-> status])
  /\ UNCHANGED expired

Project(a) ==
  /\ alert[a] = "none"
  /\ Record(a, "new")
  /\ UNCHANGED <<ackKeys, server, channel, client, faults>>

\* Another operator acknowledges.
AcknowledgedElsewhere(a) ==
  /\ alert[a] = "new"
  /\ Record(a, "acked")
  /\ UNCHANGED <<ackKeys, server, channel, client, faults>>

\* Mutant: an alert that is listed already is left as it is.
Upsert_InsertOnly(queue, a, status) ==
  IF queue[a] = "none" THEN [queue EXCEPT ![a] = status] ELSE queue

\* upsertAlert
Upsert(queue, a, status) == [queue EXCEPT ![a] = status]

\* Mutant: a repeated acknowledgement is not recognised by its key.
Acknowledge_NoReplay(a, answered) ==
  /\ list[a] = "new"
  /\ alert[a] # "none"
  /\ Record(a, "acked")
  /\ ackKeys' = ackKeys \cup {a}
  /\ IF answered THEN list' = Upsert(list, a, "acked") /\ UNCHANGED faults
                 ELSE UNCHANGED list /\ Fault
  /\ UNCHANGED <<server, channel, conn, ticket, stored, rest, missed>>

\* This operator acknowledges what the screen shows as new.  A repetition with
\* the key of a committed request is answered from platform.idempotency_keys;
\* an alert somebody else acknowledged is a conflict, which changes nothing.
Acknowledge(a, answered) ==
  /\ list[a] = "new"
  /\ \/ alert[a] = "new" /\ Record(a, "acked") /\ ackKeys' = ackKeys \cup {a}
     \/ a \in ackKeys /\ UNCHANGED <<alert, log, expired, ackKeys>>
  /\ IF answered THEN list' = Upsert(list, a, "acked") /\ UNCHANGED faults
                 ELSE UNCHANGED list /\ Fault
  /\ UNCHANGED <<server, channel, conn, ticket, stored, rest, missed>>

\* Five minutes after its insertion a message is no longer served.
Expire ==
  /\ expired < Len(log)
  /\ expired' = expired + 1
  /\ UNCHANGED <<alert, log, ackKeys, server, channel, client, faults>>

--------------------------------------------------------------------------------
(***************************************************************************)
(* AlertRealtimeClient.connect: a ticket over REST, then the socket, then  *)
(* subscribe or, with a stored number, resume.                             *)
(***************************************************************************)
IssueTicket ==
  /\ conn = "off"
  /\ conn' = "dialing"
  /\ ticket' = "valid"
  /\ UNCHANGED <<database, server, channel, stored, list, rest, missed, faults>>

TicketExpires ==
  /\ ticket = "valid"
  /\ ticket' = "expired"
  /\ Fault
  /\ UNCHANGED <<database, server, channel, conn, stored, list, rest, missed>>

\* Consume removes the ticket whether or not it is still valid.
Refused ==
  /\ conn = "dialing" /\ ticket = "expired"
  /\ conn' = "off" /\ ticket' = "none"
  /\ UNCHANGED <<database, server, channel, stored, list, rest, missed, faults>>

Open ==
  /\ conn = "dialing" /\ ticket = "valid"
  /\ conn' = "open" /\ ticket' = "none"
  /\ IF stored = -1
     THEN spc' = "subscribe" /\ last' = 0
     ELSE spc' = "idle" /\ last' = stored      \* resume: a Replay at once
  /\ UNCHANGED <<database, seen, channel, stored, list, rest, missed, faults>>

\* The socket breaks: what is in the channel is lost.
Disconnect ==
  /\ conn = "open"
  /\ Fault
  /\ conn' = "off"
  /\ spc' = "none" /\ last' = 0 /\ seen' = 0
  /\ channel' = << >>
  /\ UNCHANGED <<database, ticket, stored, list, rest, missed>>

\* A new page: an empty screen, a REST read, and the number kept in
\* sessionStorage.
Reload ==
  /\ Fault
  /\ conn' = "off" /\ ticket' = "none"
  /\ spc' = "none" /\ last' = 0 /\ seen' = 0
  /\ channel' = << >>
  /\ list' = [a \in Alerts |-> "none"]
  /\ missed' = 1 .. stored
  /\ \E first \in Slots :
       rest' = [s \in Slots |-> IF s = first THEN [state |-> "asked"] ELSE Idle]
  /\ ackKeys' = {}
  /\ UNCHANGED <<alert, log, expired, stored>>

--------------------------------------------------------------------------------
(***************************************************************************)
(* streamAlerts.  A subscriber gets a snapshot: Current and ListSite are   *)
(* two transactions, in this order.                                        *)
(***************************************************************************)
\* ORDER BY priority DESC, occurred_at, alert_id LIMIT 100
ListSite ==
  [a \in Alerts |->
     IF Cardinality({b \in 1 .. a : alert[b] # "none"}) <= ListLimit
     THEN alert[a] ELSE "none"]

\* Messages about alerts that a full queue, read after message n, has no room for.
CutOff(queue, n) ==
  {k \in 1 .. n : /\ queue[log[k].alert] = "none"
                  /\ Cardinality({a \in Alerts : queue[a] # "none"}) = ListLimit}

SubscribeCurrent ==
  /\ spc = "subscribe"
  /\ seen' = Current
  /\ spc' = "list"
  /\ UNCHANGED <<database, last, channel, client, faults>>

SubscribeList ==
  /\ spc = "list"
  /\ channel' = Append(channel, Envelope("snapshot", seen, [queue |-> ListSite, at |-> Current]))
  /\ last' = seen
  /\ spc' = "idle"
  /\ UNCHANGED <<database, seen, client, faults>>

\* Mutant: a log whose messages have all expired counts as caught up.
Gap_NoneLeft ==
  \/ last < Current /\ expired < Len(log) /\ last < expired
  \/ Current - last > MaxWindow

\* With the oldest served message numbered expired + 1.
Gap ==
  \/ last < Current /\ (expired = Len(log) \/ last < expired)
  \/ Current - last > MaxWindow

\* Mutant: a gap names the number the next message will have.
ReplayFloor_GapNext ==
  /\ spc = "idle"
  /\ last < Current
  /\ IF Gap
     THEN /\ channel' = Append(channel, Envelope("gap", Current + 1, Idle))
          /\ last' = Current + 1
          /\ UNCHANGED spc
     ELSE spc' = "rows" /\ UNCHANGED <<channel, last>>
  /\ UNCHANGED <<database, seen, client, faults>>

\* A poll (or a resume): the first two statements of Replay.  A number ahead of
\* the log would be refused here and end the connection; ResumeAccepted says
\* that it does not happen.
ReplayFloor ==
  /\ spc = "idle"
  /\ last < Current
  /\ IF Gap
     THEN /\ channel' = Append(channel, Envelope("gap", Current, Idle))
          /\ last' = Current
          /\ UNCHANGED spc
     ELSE spc' = "rows" /\ UNCHANGED <<channel, last>>
  /\ UNCHANGED <<database, seen, client, faults>>

\* Mutant: the rows are selected from the last number on, not after it.
Rows_Inclusive ==
  LET first == IF expired >= last THEN expired + 1 ELSE last
      end   == IF first + ReplayLimit - 1 < Len(log) THEN first + ReplayLimit - 1 ELSE Len(log)
  IN  [k \in 1 .. (IF end < first THEN 0 ELSE end - first + 1) |->
         Envelope("event", first + k - 1, log[first + k - 1])]

\* The third statement: what is still served by now.
Rows ==
  LET first == IF expired > last THEN expired + 1 ELSE last + 1
      end   == IF first + ReplayLimit - 1 < Len(log) THEN first + ReplayLimit - 1 ELSE Len(log)
  IN  [k \in 1 .. (IF end < first THEN 0 ELSE end - first + 1) |->
         Envelope("event", first + k - 1, log[first + k - 1])]

ReplayRows ==
  /\ spc = "rows"
  /\ spc' = "idle"
  /\ channel' = channel \o Rows
  /\ last' = IF Rows = << >> THEN last ELSE Rows[Len(Rows)].seq
  /\ UNCHANGED <<database, seen, client, faults>>

--------------------------------------------------------------------------------
(***************************************************************************)
(* handleMessage stores the number and hands the payload to useAlertFeed:  *)
(* a snapshot replaces the list, an event is upserted, a gap starts a REST *)
(* read of the queue.                                                      *)
(***************************************************************************)
ReceiveSnapshot ==
  /\ channel # << >>
  /\ LET e == Head(channel) IN
     /\ e.type = "snapshot"
     /\ stored' = e.seq
     /\ list' = e.payload.queue
     /\ missed' = (missed \ (1 .. e.payload.at)) \cup CutOff(e.payload.queue, e.payload.at)
  /\ channel' = Tail(channel)
  /\ UNCHANGED <<database, server, conn, ticket, rest, faults>>

ReceiveEvent ==
  /\ channel # << >>
  /\ LET e == Head(channel) IN
     /\ e.type = "event"
     /\ stored' = e.seq
     /\ list' = Upsert(list, e.payload.alert, e.payload.status)
     /\ missed' = (missed \cup (stored + 1 .. e.seq)) \ {e.seq}
  /\ channel' = Tail(channel)
  /\ UNCHANGED <<database, server, conn, ticket, rest, faults>>

ReceiveGap ==
  /\ channel # << >>
  /\ LET e == Head(channel) IN
     /\ e.type = "gap"
     /\ stored' = e.seq
     /\ missed' = missed \cup (stored + 1 .. e.seq)
  /\ \E s \in Slots : rest[s] = Idle /\ rest' = [rest EXCEPT ![s] = [state |-> "asked"]]
  /\ channel' = Tail(channel)
  /\ UNCHANGED <<database, server, conn, ticket, list, faults>>

\* GET /v1/alerts reads the queue ...
RestRead(s) ==
  /\ rest[s].state = "asked"
  /\ rest' = [rest EXCEPT ![s] = [state |-> "read", queue |-> ListSite, at |-> Current]]
  /\ UNCHANGED <<database, server, channel, conn, ticket, stored, list, missed, faults>>

\* ... and its answer replaces the list, whatever the stream did meanwhile.
RestArrives(s) ==
  /\ rest[s].state = "read"
  /\ list' = rest[s].queue
  /\ missed' = (missed \ (1 .. rest[s].at)) \cup (rest[s].at + 1 .. stored)
               \cup CutOff(rest[s].queue, rest[s].at)
  /\ rest' = [rest EXCEPT ![s] = Idle]
  /\ UNCHANGED <<database, server, channel, conn, ticket, stored, faults>>

RestFails(s) ==
  /\ rest[s] # Idle
  /\ Fault
  /\ rest' = [rest EXCEPT ![s] = Idle]
  /\ UNCHANGED <<database, server, channel, conn, ticket, stored, list, missed>>

--------------------------------------------------------------------------------
Next ==
  \/ \E a \in Alerts : Project(a) \/ AcknowledgedElsewhere(a)
  \/ \E a \in Alerts, answered \in BOOLEAN : Acknowledge(a, answered)
  \/ Expire \/ IssueTicket \/ TicketExpires \/ Refused \/ Open \/ Disconnect \/ Reload
  \/ SubscribeCurrent \/ SubscribeList \/ ReplayFloor \/ ReplayRows
  \/ ReceiveSnapshot \/ ReceiveEvent \/ ReceiveGap
  \/ \E s \in Slots : RestRead(s) \/ RestArrives(s) \/ RestFails(s)

\* The client reconnects until it is stopped, the server polls every second, the
\* browser handles what arrives, and requests are answered: each in sequence.
Fairness ==
  /\ WF_vars(IssueTicket \/ Refused \/ Open)
  /\ WF_vars(SubscribeCurrent \/ SubscribeList \/ ReplayFloor \/ ReplayRows)
  /\ WF_vars(ReceiveSnapshot \/ ReceiveEvent \/ ReceiveGap)
  /\ \A s \in Slots : WF_vars(RestRead(s) \/ RestArrives(s))

Spec == Init /\ [][Next]_vars
FairSpec == Spec /\ Fairness

--------------------------------------------------------------------------------
Message == [alert : Alerts, status : Status]
Envelopes == [type : {"snapshot", "event", "gap"}, seq : Nat,
              payload : [queue : Queue, at : Nat] \cup {Idle} \cup Message]
Reads == {Idle, [state |-> "asked"]} \cup [state : {"read"}, queue : Queue, at : Nat]

TypeOK ==
  /\ alert \in Queue /\ list \in Queue
  /\ log \in Seq(Message)
  /\ expired \in 0 .. Len(log)
  /\ spc \in {"none", "subscribe", "list", "idle", "rows"}
  /\ last \in Nat /\ seen \in Nat
  /\ channel \in Seq(Envelopes)
  /\ conn \in {"off", "dialing", "open"}
  /\ ticket \in {"none", "valid", "expired"}
  /\ stored \in Nat \cup {-1}
  /\ rest \in [Slots -> Reads]
  /\ missed \subseteq Nat
  /\ ackKeys \subseteq Alerts
  /\ faults \in 0 .. MaxFaults

\* A client never holds a number the server would refuse as ahead of the
\* stream: it would reconnect with it for ever.
ResumeAccepted ==
  /\ stored <= Current
  /\ \A i \in DOMAIN channel : channel[i].seq <= last
  /\ last <= Current

\* handleMessage stores whatever number arrives and compares it with nothing: that
\* no message is handled twice, nor one after a later one, rests on the server
\* sending each connection only what lies beyond the number it resumed from, in
\* order, across gaps, reloads and messages that expire while they are selected.
HandledOnce ==
  \A i \in DOMAIN channel :
    /\ stored < channel[i].seq
    /\ \A j \in DOMAIN channel : i < j => channel[i].seq < channel[j].seq

\* What the stream has delivered is on the screen: the list is never older than
\* a message up to the stored number, except for the messages that fell into a
\* gap, expired between two statements, were overwritten by an older REST answer,
\* or are about an alert beyond the limit of the queue query.  In
\* particular nothing falls between snapshot and first event.
ScreenFollowsStream ==
  \A n \in 1 .. stored : n \notin missed => Rank[list[log[n].alert]] >= Rank[log[n].status]

\* However an acknowledgement is repeated, or raced by another operator, an
\* alert is announced once and acknowledged once, in this order.
AcknowledgedOnce ==
  \A m, n \in DOMAIN log :
    (m < n /\ log[m].alert = log[n].alert) => log[m].status = "new" /\ log[n].status = "acked"

\* When alerts and faults cease, the client reaches the end of the stream.
CatchesUp == <>[](stored = Current)
================================================================================
