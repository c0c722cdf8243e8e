--------------------------- MODULE AlertStreamProofs ---------------------------
(***************************************************************************)
(* Proofs about AlertStream, for any number of alerts, any limits of the   *)
(* queue query, the replay and its window, any number of REST reads in     *)
(* flight and any number of faults.                                        *)
(*                                                                         *)
(* The inductive invariant ties the four copies of the feed together: the  *)
(* alerts table and the log (Announced), the log and the numbers a         *)
(* connection holds (Connected), the log and what is on its way to the     *)
(* browser, over the socket (Messages) or over REST (Answers).  The last   *)
(* two say of every queue that is still to be shown what                   *)
(* ScreenFollowsStream says of the one on screen.                          *)
(***************************************************************************)
EXTENDS AlertStream, FiniteSetTheorems, SequenceTheorems, NaturalsInduction, WellFoundedInduction, TLAPS

\* The provers each leaf is tried with in turn, unless it names one.
USE ZenonT(5), SMTT(20), ZenonT(40)

--------------------------------------------------------------------------------
(* The inductive invariant *)

\* Every message is about an alert of the table, and the table is not behind it.
Announced ==
  \A n \in 1 .. Len(log) :
    /\ log[n].status \in {"new", "acked"}
    /\ alert[log[n].alert] # "none"
    /\ alert[log[n].alert] = "new" => log[n].status = "new"

\* The server's side of the connection against the client's.
Connected ==
  /\ spc = "none" <=> conn # "open"
  /\ spc \in {"none", "subscribe", "list"} => channel = << >>
  /\ spc \in {"subscribe", "list"} => stored = -1
  /\ spc \in {"idle", "rows"} => stored <= last
  /\ seen <= Current

Listed(queue) == {b \in Alerts : queue[b] # "none"}

\* A queue read when n messages of the log m were stored is not behind any of
\* them, unless the limit of the query cut the alert off.
Reflects(m, queue, n) ==
  /\ queue \in Queue /\ n \in 0 .. Len(m)
  /\ \A k \in 1 .. n :
       \/ Rank[queue[m[k].alert]] >= Rank[m[k].status]
       \/ queue[m[k].alert] = "none" /\ Cardinality(Listed(queue)) = ListLimit

Messages ==
  \A i \in 1 .. Len(channel) :
    /\ channel[i].type = "event" =>
         channel[i].seq \in 1 .. Len(log) /\ channel[i].payload = log[channel[i].seq]
    /\ channel[i].type = "snapshot" =>
         /\ channel[i].seq <= channel[i].payload.at
         /\ Reflects(log, channel[i].payload.queue, channel[i].payload.at)

Answers ==
  \A s \in Slots : rest[s].state = "read" => Reflects(log, rest[s].queue, rest[s].at)

IInv ==
  /\ TypeOK /\ Announced /\ AcknowledgedOnce
  /\ Connected /\ ResumeAccepted /\ HandledOnce
  /\ Messages /\ Answers /\ ScreenFollowsStream
--------------------------------------------------------------------------------
(* The limit of the queue query *)

Before(a) == {b \in 1 .. a : alert[b] # "none"}

\* A set of natural numbers that is not empty has a least member.
LEMMA Least ==
  ASSUME NEW S, S \subseteq Nat, S # {}
  PROVE  \E x \in S : \A y \in S : x <= y
  <1> DEFINE R == {p \in Nat \X Nat : p[1] < p[2]}
  <1>1. IsWellFoundedOn(R, Nat)
    BY NatLessThanWellFounded DEF OpToRel
  <1> HIDE DEF R
  <1>2. PICK x \in S : \A y \in S : ~ (<<y, x>> \in R)
    BY <1>1, WFMin
  <1>3. ASSUME NEW y \in S PROVE x <= y
    <2>1. x \in Nat /\ y \in Nat
      OBVIOUS
    <2>2. <<y, x>> \in R <=> y < x
      BY <2>1 DEF R
    <2> QED
      BY <1>2, <2>1, <2>2
  <1> QED
    BY <1>3

\* The alerts up to a position can be counted, and the count never falls.
LEMMA Counted ==
  ASSUME NEW a \in Nat
  PROVE  /\ IsFiniteSet(Before(a)) /\ Cardinality(Before(a)) \in Nat
         /\ \A b \in Nat : b <= a => Cardinality(Before(b)) <= Cardinality(Before(a))
  <1>1. IsFiniteSet(1 .. a) /\ Before(a) \subseteq 1 .. a
    BY FS_Interval DEF Before
  <1>2. IsFiniteSet(Before(a))
    BY <1>1, FS_Subset
  <1>3. Cardinality(Before(a)) \in Nat
    BY <1>2, FS_CardinalityType
  <1>4. ASSUME NEW b \in Nat, b <= a PROVE Before(b) \subseteq Before(a)
    BY <1>4 DEF Before
  <1> QED
    BY <1>2, <1>3, <1>4, FS_Subset

\* One position further, it counts one more at most.
LEMMA CountedNext ==
  ASSUME NEW a \in Nat \ {0}
  PROVE  Cardinality(Before(a)) <= Cardinality(Before(a - 1)) + 1
  <1>1. a - 1 \in Nat /\ Before(a) \subseteq Before(a - 1) \cup {a}
    BY DEF Before
  <1>2. IsFiniteSet(Before(a - 1)) /\ Cardinality(Before(a - 1)) \in Nat
    BY <1>1, Counted
  <1>3. /\ IsFiniteSet(Before(a - 1) \cup {a})
        /\ Cardinality(Before(a - 1) \cup {a}) \in
             {Cardinality(Before(a - 1)), Cardinality(Before(a - 1)) + 1}
    BY <1>2, FS_AddElement
  <1>4. Cardinality(Before(a)) <= Cardinality(Before(a - 1) \cup {a})
    BY <1>1, <1>3, FS_Subset
  <1>5. Cardinality(Before(a)) \in Nat
    BY Counted
  <1> QED
    BY <1>2, <1>3, <1>4, <1>5

\* The query leaves an alert out only when it returns as many as its limit.
LEMMA FullQueue ==
  ASSUME alert \in Queue, NEW a \in Alerts, alert[a] # "none", ListSite[a] = "none"
  PROVE  Cardinality(Listed(ListSite)) = ListLimit
  <1> DEFINE over == {x \in Alerts : Cardinality(Before(x)) > ListLimit}
  <1>1. ListLimit \in Nat \ {0} /\ MaxAlerts \in Nat /\ Alerts \subseteq Nat \ {0}
    BY StreamAssumption DEF Alerts
  <1>2. \A x \in Alerts : ListSite[x] = IF Cardinality(Before(x)) <= ListLimit THEN alert[x] ELSE "none"
    BY DEF ListSite, Before
  <1>3. \A x \in Alerts : Cardinality(Before(x)) \in Nat
    BY <1>1, Counted
  <1>4. a \in over
    BY <1>1, <1>2, <1>3
  <1>5. over \subseteq Nat /\ over # {}
    BY <1>1, <1>4
  <1>6. PICK m \in over : \A y \in over : m <= y
    BY <1>5, Least
  <1>7. m \in Nat \ {0} /\ m - 1 \in Nat /\ m \in Alerts /\ Cardinality(Before(m)) > ListLimit
    BY <1>1, <1>6
  <1>8. Cardinality(Before(m - 1)) <= ListLimit
    <2>1. CASE m = 1
      <3>1. Before(m - 1) = {}
        BY <2>1 DEF Before
      <3> QED
        BY <3>1, <1>1, FS_EmptySet
    <2>2. CASE m # 1
      <3>1. m - 1 \in Alerts /\ ~ (m <= m - 1)
        BY <2>2, <1>1, <1>7 DEF Alerts
      <3>2. m - 1 \notin over
        BY <3>1, <1>6
      <3> QED
        BY <3>1, <3>2, <1>1, <1>3
    <2> QED
      BY <2>1, <2>2
  <1>9. Cardinality(Before(m - 1)) = ListLimit
    <2>1. Cardinality(Before(m - 1)) \in Nat /\ Cardinality(Before(m)) \in Nat
      BY <1>7, Counted
    <2> QED
      BY <2>1, <1>1, <1>7, <1>8, CountedNext
  <1>10. ASSUME NEW x \in Alerts PROVE x \in Listed(ListSite) <=> x \in Before(m - 1)
    <2>1. x \in Listed(ListSite) <=> alert[x] # "none" /\ Cardinality(Before(x)) <= ListLimit
      BY <1>2 DEF Listed
    <2>2. x \in Before(m - 1) <=> alert[x] # "none" /\ x < m
      BY <1>1, <1>7 DEF Before
    <2>3. ASSUME x < m PROVE Cardinality(Before(x)) <= ListLimit
      <3>1. x \notin over
        BY <2>3, <1>1, <1>6, <1>7
      <3> QED
        BY <3>1, <1>1, <1>3
    <2>4. ASSUME ~ (x < m) PROVE Cardinality(Before(x)) > ListLimit
      <3>1. x \in Nat /\ m <= x
        BY <2>4, <1>1, <1>7
      <3>2. Cardinality(Before(m)) <= Cardinality(Before(x))
        BY <3>1, <1>7, Counted
      <3> QED
        BY <3>2, <1>1, <1>3, <1>7
    <2>5. Cardinality(Before(x)) \in Nat
      BY <1>3
    <2> QED
      BY <2>1, <2>2, <2>3, <2>4, <2>5, <1>1
  <1>11. Listed(ListSite) \subseteq Alerts /\ Before(m - 1) \subseteq Alerts
    BY <1>1, <1>7 DEF Listed, Before, Alerts
  <1>12. Listed(ListSite) = Before(m - 1)
    BY <1>10, <1>11
  <1> QED
    BY <1>9, <1>12

--------------------------------------------------------------------------------
(* Operators *)

\* The order in which an alert passes its statuses.
LEMMA Ranks ==
  /\ Rank["none"] = 0 /\ Rank["new"] = 1 /\ Rank["acked"] = 2
  /\ \A s \in Status : Rank[s] \in 0 .. 2
  BY DEF Rank, Status

\* What the messages of the log and the envelopes of a channel are made of.
LEMMA Parts ==
  ASSUME TypeOK
  PROVE  /\ Len(log) \in Nat /\ DOMAIN log = 1 .. Len(log)
         /\ \A n \in 1 .. Len(log) : log[n].alert \in Alerts /\ log[n].status \in Status
         /\ Len(channel) \in Nat /\ DOMAIN channel = 1 .. Len(channel)
         /\ \A i \in 1 .. Len(channel) :
              channel[i] \in Envelopes /\ channel[i].seq \in Nat
  <1>1. log \in Seq(Message) /\ channel \in Seq(Envelopes)
    BY DEF TypeOK
  <1>2. \A n \in 1 .. Len(log) : log[n] \in Message
    BY <1>1, ElementOfSeq
  <1>3. \A i \in 1 .. Len(channel) : channel[i] \in Envelopes
    BY <1>1, ElementOfSeq
  <1>4. \A m \in Message : m.alert \in Alerts /\ m.status \in Status
    BY DEF Message
  <1>5. \A e \in Envelopes : e.seq \in Nat
    BY DEF Envelopes
  <1>6. /\ Len(log) \in Nat /\ DOMAIN log = 1 .. Len(log)
        /\ Len(channel) \in Nat /\ DOMAIN channel = 1 .. Len(channel)
    BY <1>1, LenProperties
  <1> QED
    BY <1>2, <1>3, <1>4, <1>5, <1>6

\* A queue read now reflects the whole log.
LEMMA Fresh ==
  ASSUME TypeOK, Announced
  PROVE  Reflects(log, ListSite, Current)
  <1>1. ListSite \in Queue /\ \A a \in Alerts : ListSite[a] \in {alert[a], "none"}
    BY DEF ListSite, TypeOK, Queue, Status
  <1>2. Current \in 0 .. Len(log)
    BY Parts DEF Current
  <1>3. ASSUME NEW k \in 1 .. Current
        PROVE  \/ Rank[ListSite[log[k].alert]] >= Rank[log[k].status]
               \/ ListSite[log[k].alert] = "none" /\ Cardinality(Listed(ListSite)) = ListLimit
    <2>1. k \in 1 .. Len(log) /\ log[k].alert \in Alerts
      BY Parts DEF Current
    <2>2. /\ log[k].status \in {"new", "acked"} /\ alert[log[k].alert] # "none"
          /\ alert[log[k].alert] = "new" => log[k].status = "new"
      BY <2>1 DEF Announced
    <2>3. alert[log[k].alert] \in Status
      BY <2>1 DEF TypeOK, Queue
    <2>4. Rank[alert[log[k].alert]] >= Rank[log[k].status]
      BY <2>2, <2>3, Ranks DEF Status
    <2>5. CASE ListSite[log[k].alert] = "none"
      BY <2>1, <2>2, <2>5, FullQueue DEF TypeOK
    <2>6. CASE ListSite[log[k].alert] = alert[log[k].alert]
      BY <2>4, <2>6
    <2> QED
      BY <1>1, <2>1, <2>5, <2>6
  <1> QED
    BY <1>1, <1>2, <1>3 DEF Reflects

\* What reflects a log reflects the same log with more messages at its end.
LEMMA ReflectsMore ==
  ASSUME NEW m, NEW more, NEW queue, NEW n, Reflects(m, queue, n),
         Len(m) \in Nat, Len(more) \in Nat, Len(m) <= Len(more),
         \A k \in 1 .. Len(m) : more[k] = m[k]
  PROVE  Reflects(more, queue, n)
  <1>1. n \in 0 .. Len(m) /\ n \in 0 .. Len(more)
    BY DEF Reflects
  <1>2. \A k \in 1 .. n : more[k] = m[k]
    BY <1>1
  <1> QED
    BY <1>1, <1>2 DEF Reflects

--------------------------------------------------------------------------------
(* What a step that leaves something alone preserves *)

\* No message of the log is ever changed or removed.
Grown ==
  /\ Len(log') \in Nat /\ Len(log) <= Len(log')
  /\ \A n \in 1 .. Len(log) : log'[n] = log[n]

\* An unchanged log has grown by nothing.
LEMMA NotGrown ==
  ASSUME TypeOK, UNCHANGED log
  PROVE  Grown
  BY Parts DEF Grown

\* The table and the log stay as they are.
LEMMA DatabaseKept ==
  ASSUME IInv, UNCHANGED <<alert, log>>
  PROVE  Announced' /\ AcknowledgedOnce'
  <1>1. Announced'
    BY DEF IInv, Announced
  <1>2. AcknowledgedOnce'
    BY DEF IInv, AcknowledgedOnce
  <1> QED
    BY <1>1, <1>2

\* The numbers and envelopes of a connection stay as they are.
LEMMA StreamKept ==
  ASSUME IInv, Grown, UNCHANGED <<spc, last, seen, channel, stored>>,
         conn' = "open" <=> conn = "open"
  PROVE  Connected' /\ ResumeAccepted' /\ HandledOnce' /\ Messages'
  <1>1. /\ Len(log) \in Nat /\ Len(channel) \in Nat /\ DOMAIN channel = 1 .. Len(channel)
        /\ seen \in Nat /\ last \in Nat /\ stored \in Nat \cup {-1}
    BY Parts DEF IInv, TypeOK
  <1>2. Connected'
    BY <1>1 DEF IInv, Connected, Current, Grown
  <1>3. ResumeAccepted'
    BY <1>1 DEF IInv, ResumeAccepted, Current, Grown
  <1>4. HandledOnce'
    BY DEF IInv, HandledOnce
  <1>5. ASSUME NEW i \in 1 .. Len(channel), channel[i].type = "event"
        PROVE  channel[i].seq \in 1 .. Len(log') /\ channel[i].payload = log'[channel[i].seq]
    <2>1. channel[i].seq \in 1 .. Len(log) /\ channel[i].payload = log[channel[i].seq]
      BY <1>5 DEF IInv, Messages
    <2> QED
      BY <2>1, <1>1 DEF Grown
  <1>6. ASSUME NEW i \in 1 .. Len(channel), channel[i].type = "snapshot"
        PROVE  /\ channel[i].seq <= channel[i].payload.at
               /\ Reflects(log', channel[i].payload.queue, channel[i].payload.at)
    BY <1>1, <1>6, ReflectsMore DEF IInv, Messages, Grown
  <1>7. Messages'
    BY <1>5, <1>6 DEF Messages
  <1> QED
    BY <1>2, <1>3, <1>4, <1>7

\* The REST reads stay as they are.
LEMMA AnswersKept ==
  ASSUME IInv, Grown, UNCHANGED rest
  PROVE  Answers'
  <1>1. Len(log) \in Nat
    BY Parts DEF IInv
  <1> QED
    BY <1>1, ReflectsMore DEF IInv, Answers, Grown

\* The screen stays as it is, or shows an alert as acknowledged.
LEMMA ScreenKept ==
  ASSUME IInv, Grown, UNCHANGED stored, missed \subseteq missed',
         list' = list \/ \E a \in Alerts : list' = [list EXCEPT ![a] = "acked"]
  PROVE  ScreenFollowsStream'
  <1>1. /\ Len(log) \in Nat /\ stored \in Nat \cup {-1} /\ stored <= Len(log) /\ list \in Queue
        /\ \A n \in 1 .. Len(log) : log[n].alert \in Alerts /\ log[n].status \in Status
    BY Parts DEF IInv, TypeOK, ResumeAccepted, Current
  <1>2. ASSUME NEW n \in 1 .. stored, n \notin missed'
        PROVE  Rank[list'[log'[n].alert]] >= Rank[log'[n].status]
    <2>1. n \in 1 .. Len(log) /\ n \notin missed
      BY <1>1, <1>2
    <2>2. log'[n] = log[n] /\ log[n].alert \in Alerts /\ log[n].status \in Status
      BY <2>1, <1>1 DEF Grown
    <2>3. Rank[list[log[n].alert]] >= Rank[log[n].status]
      BY <2>1 DEF IInv, ScreenFollowsStream
    <2>4. list'[log[n].alert] \in {list[log[n].alert], "acked"}
      BY <1>1, <2>2 DEF Queue
    <2>5. Rank["acked"] >= Rank[log[n].status]
      BY <2>2, Ranks
    <2> QED
      BY <2>2, <2>3, <2>4, <2>5
  <1> QED
    BY <1>2 DEF ScreenFollowsStream

--------------------------------------------------------------------------------
(* The first state, and the writers *)

\* No alert, no message, nobody connected.
LEMMA InitIInv ==
  ASSUME Init
  PROVE  IInv
  <1>1. /\ log = << >> /\ channel = << >> /\ Len(log) = 0 /\ Len(channel) = 0
        /\ log \in Seq(Message) /\ channel \in Seq(Envelopes)
    BY EmptySeq DEF Init
  <1>2. /\ alert \in Queue /\ list \in Queue
        /\ rest \in [Slots -> {Idle, [state |-> "asked"]}]
    BY DEF Init, Queue, Status
  <1>3. rest \in [Slots -> Reads]
    BY <1>2 DEF Reads
  <1>4. TypeOK
    BY <1>1, <1>2, <1>3, StreamAssumption DEF Init, TypeOK
  <1>5. Announced /\ AcknowledgedOnce /\ Messages
    <2>1. DOMAIN log = {} /\ 1 .. Len(log) = {} /\ 1 .. Len(channel) = {}
      BY <1>1, <1>4, Parts
    <2> QED
      BY <2>1 DEF Announced, AcknowledgedOnce, Messages
  <1>6. Connected
    BY <1>1 DEF Init, Connected, Current
  <1>7. ResumeAccepted /\ HandledOnce
    <2>1. DOMAIN channel = {}
      BY <1>1, <1>4, Parts
    <2>2. stored <= Current /\ last <= Current
      BY <1>1 DEF Init, Current
    <2> QED
      BY <2>1, <2>2 DEF ResumeAccepted, HandledOnce
  <1>8. Answers
    <2>1. \A s \in Slots : rest[s].state # "read"
      BY <1>2 DEF Idle
    <2> QED
      BY <2>1 DEF Answers
  <1>9. ScreenFollowsStream
    <2>1. 1 .. stored = {}
      BY DEF Init
    <2> QED
      BY <2>1 DEF ScreenFollowsStream
  <1> QED
    BY <1>4, <1>5, <1>6, <1>7, <1>8, <1>9 DEF IInv

\* Append gives the change of an alert the next number.
LEMMA Recorded ==
  ASSUME IInv, NEW a \in Alerts, NEW status \in {"new", "acked"}, Record(a, status),
         \/ status = "new" /\ alert[a] = "none"
         \/ status = "acked" /\ alert[a] = "new"
  PROVE  /\ alert' \in Queue /\ log' \in Seq(Message) /\ expired' \in 0 .. Len(log')
         /\ Grown /\ Announced' /\ AcknowledgedOnce'
  <1> DEFINE new == [alert |-> a, status |-> status]
  <1>1. /\ Len(log) \in Nat /\ DOMAIN log = 1 .. Len(log) /\ log \in Seq(Message)
        /\ \A n \in 1 .. Len(log) : log[n].alert \in Alerts /\ log[n].status \in Status
        /\ alert \in Queue /\ expired \in 0 .. Len(log)
    BY Parts DEF IInv, TypeOK
  <1>2. status \in Status /\ new \in Message /\ new.alert = a /\ new.status = status
    BY DEF Message, Status
  <1>3. log' = Append(log, new) /\ alert' = [alert EXCEPT ![a] = status] /\ expired' = expired
    BY DEF Record
  <1> HIDE DEF new
  <1>4. /\ log' \in Seq(Message) /\ Len(log') = Len(log) + 1 /\ DOMAIN log' = 1 .. Len(log')
        /\ \A n \in 1 .. Len(log) : log'[n] = log[n]
        /\ log'[Len(log) + 1] = new
    BY <1>1, <1>2, <1>3
  <1>5. Grown /\ expired' \in 0 .. Len(log')
    BY <1>1, <1>3, <1>4 DEF Grown
  <1>6. alert' \in Queue /\ alert'[a] = status /\ \A b \in Alerts : b # a => alert'[b] = alert[b]
    BY <1>1, <1>2, <1>3 DEF Queue
  <1>7. ASSUME NEW n \in 1 .. Len(log)
        PROVE  /\ log'[n] = log[n] /\ log[n].status \in {"new", "acked"}
               /\ alert[log[n].alert] # "none"
               /\ alert[log[n].alert] = "new" => log[n].status = "new"
    BY <1>4 DEF IInv, Announced
  <1>8. \A n \in 1 .. Len(log') : n \in 1 .. Len(log) \/ n = Len(log) + 1
    BY <1>1, <1>4
  <1>9. ASSUME NEW n \in 1 .. Len(log')
        PROVE  /\ log'[n].status \in {"new", "acked"}
               /\ alert'[log'[n].alert] # "none"
               /\ alert'[log'[n].alert] = "new" => log'[n].status = "new"
    <2>1. CASE n \in 1 .. Len(log) /\ log[n].alert # a
      BY <2>1, <1>1, <1>6, <1>7
    <2>2. CASE n \in 1 .. Len(log) /\ log[n].alert = a
      BY <2>2, <1>6, <1>7
    <2>3. CASE n = Len(log) + 1
      BY <2>3, <1>2, <1>4, <1>6
    <2> QED
      BY <1>8, <2>1, <2>2, <2>3
  <1>10. Announced'
    BY <1>9 DEF Announced
  <1>11. ASSUME NEW m \in 1 .. Len(log'), NEW n \in 1 .. Len(log'), m < n, log'[m].alert = log'[n].alert
         PROVE  log'[m].status = "new" /\ log'[n].status = "acked"
    <2>1. m \in 1 .. Len(log)
      BY <1>1, <1>4, <1>11
    <2>2. CASE n \in 1 .. Len(log)
      BY <2>1, <2>2, <1>1, <1>4, <1>11 DEF IInv, AcknowledgedOnce
    <2>3. CASE n = Len(log) + 1
      <3>1. log[m].alert = a
        BY <2>1, <2>3, <1>2, <1>4, <1>11
      <3>2. alert[a] # "none" /\ (alert[a] = "new" => log[m].status = "new")
        BY <2>1, <3>1, <1>7
      <3> QED
        BY <2>1, <2>3, <3>2, <1>2, <1>4
    <2> QED
      BY <1>8, <2>2, <2>3
  <1>12. AcknowledgedOnce'
    BY <1>4, <1>11 DEF AcknowledgedOnce
  <1> QED
    BY <1>4, <1>5, <1>6, <1>10, <1>12

\* An alert is projected, or another operator acknowledges it.
LEMMA WriterStep ==
  ASSUME IInv, NEW a \in Alerts, Project(a) \/ AcknowledgedElsewhere(a)
  PROVE  IInv'
  <1>1. PICK status \in {"new", "acked"} :
          /\ Record(a, status)
          /\ \/ status = "new" /\ alert[a] = "none"
             \/ status = "acked" /\ alert[a] = "new"
    BY DEF Project, AcknowledgedElsewhere
  <1>2. UNCHANGED <<ackKeys, server, channel, client, faults>>
    BY DEF Project, AcknowledgedElsewhere
  <1>3. /\ alert' \in Queue /\ log' \in Seq(Message) /\ expired' \in 0 .. Len(log')
        /\ Grown /\ Announced' /\ AcknowledgedOnce'
    BY <1>1, Recorded
  <1>4. TypeOK'
    BY <1>2, <1>3 DEF IInv, TypeOK, server, client
  <1>5. Connected' /\ ResumeAccepted' /\ HandledOnce' /\ Messages' /\ Answers'
    BY <1>2, <1>3, StreamKept, AnswersKept DEF server, client
  <1>6. ScreenFollowsStream'
    BY <1>2, <1>3, ScreenKept DEF client
  <1> QED
    BY <1>3, <1>4, <1>5, <1>6 DEF IInv

\* This operator acknowledges, for the first time or again.
LEMMA AcknowledgeStep ==
  ASSUME IInv, NEW a \in Alerts, NEW answered \in BOOLEAN, Acknowledge(a, answered)
  PROVE  IInv'
  <1>1. UNCHANGED <<server, channel, conn, ticket, stored, rest, missed>>
    BY DEF Acknowledge
  <1>2. list' = list \/ list' = [list EXCEPT ![a] = "acked"]
    BY DEF Acknowledge, Upsert
  <1>3. list' \in Queue
    BY <1>2 DEF IInv, TypeOK, Queue, Status
  <1>4. faults' \in 0 .. MaxFaults
    BY StreamAssumption DEF Acknowledge, Fault, IInv, TypeOK
  <1>5. /\ alert' \in Queue /\ log' \in Seq(Message) /\ expired' \in 0 .. Len(log')
        /\ Grown /\ Announced' /\ AcknowledgedOnce' /\ ackKeys' \subseteq Alerts
    <2>1. CASE alert[a] = "new" /\ Record(a, "acked") /\ ackKeys' = ackKeys \cup {a}
      <3>1. ackKeys' \subseteq Alerts
        BY <2>1 DEF IInv, TypeOK
      <3> QED
        BY <2>1, <3>1, Recorded
    <2>2. CASE UNCHANGED <<alert, log, expired, ackKeys>>
      <3>1. Grown /\ Announced' /\ AcknowledgedOnce'
        BY <2>2, NotGrown, DatabaseKept DEF IInv
      <3> QED
        BY <2>2, <3>1 DEF IInv, TypeOK
    <2> QED
      BY <2>1, <2>2 DEF Acknowledge
  <1>6. TypeOK'
    BY <1>1, <1>3, <1>4, <1>5 DEF IInv, TypeOK, server
  <1>7. Connected' /\ ResumeAccepted' /\ HandledOnce' /\ Messages' /\ Answers'
    BY <1>1, <1>5, StreamKept, AnswersKept DEF server
  <1>8. ScreenFollowsStream'
    BY <1>1, <1>2, <1>5, ScreenKept
  <1> QED
    BY <1>5, <1>6, <1>7, <1>8 DEF IInv

--------------------------------------------------------------------------------
(* The connection *)

\* A message expires, or the client and its ticket change without a connection.
LEMMA QuietStep ==
  ASSUME IInv, Expire \/ IssueTicket \/ TicketExpires \/ Refused
  PROVE  IInv'
  <1>1. UNCHANGED <<alert, log, ackKeys, server, channel, stored, list, rest, missed>>
    BY DEF Expire, IssueTicket, TicketExpires, Refused, database, client
  <1>2. /\ conn' \in {"off", "dialing", "open"} /\ ticket' \in {"none", "valid", "expired"}
        /\ conn' = "open" <=> conn = "open"
    BY DEF Expire, IssueTicket, TicketExpires, Refused, client, IInv, TypeOK
  <1>3. expired' \in 0 .. Len(log') /\ faults' \in 0 .. MaxFaults
    <2>1. Len(log) \in Nat /\ expired \in 0 .. Len(log) /\ faults \in 0 .. MaxFaults
      BY Parts DEF IInv, TypeOK
    <2>2. expired' = expired \/ (expired < Len(log) /\ expired' = expired + 1)
      BY DEF Expire, IssueTicket, TicketExpires, Refused, database
    <2>3. faults' = faults \/ (faults < MaxFaults /\ faults' = faults + 1)
      BY DEF Expire, IssueTicket, TicketExpires, Refused, Fault
    <2> QED
      BY <1>1, <2>1, <2>2, <2>3, StreamAssumption
  <1>4. TypeOK'
    BY <1>1, <1>2, <1>3 DEF IInv, TypeOK, server
  <1>5. Grown /\ Announced' /\ AcknowledgedOnce'
    BY <1>1, NotGrown, DatabaseKept DEF IInv
  <1>6. Connected' /\ ResumeAccepted' /\ HandledOnce' /\ Messages' /\ Answers'
    BY <1>1, <1>2, <1>5, StreamKept, AnswersKept DEF server
  <1>7. ScreenFollowsStream'
    BY <1>1, <1>5, ScreenKept
  <1> QED
    BY <1>4, <1>5, <1>6, <1>7 DEF IInv

\* Nothing is on its way over the socket.
LEMMA NothingSent ==
  ASSUME channel' = << >>
  PROVE  /\ channel' \in Seq(Envelopes) /\ HandledOnce' /\ Messages'
         /\ \A i \in DOMAIN channel' : channel'[i].seq <= last'
  <1>1. Len(channel') = 0 /\ channel' \in Seq(Envelopes)
    BY EmptySeq
  <1>2. DOMAIN channel' = 1 .. 0
    BY <1>1, LenProperties
  <1>3. DOMAIN channel' = {} /\ 1 .. Len(channel') = {}
    BY <1>1, <1>2
  <1> QED
    BY <1>1, <1>3 DEF HandledOnce, Messages

\* The server accepts the number the client resumes from.
LEMMA OpenStep ==
  ASSUME IInv, Open
  PROVE  IInv'
  <1>1. /\ UNCHANGED <<database, seen, channel, stored, list, rest, missed, faults>>
        /\ conn' = "open" /\ ticket' = "none"
        /\ \/ stored = -1 /\ spc' = "subscribe" /\ last' = 0
           \/ stored # -1 /\ spc' = "idle" /\ last' = stored
    BY DEF Open
  <1>2. channel' = << >>
    BY <1>1 DEF Open, IInv, Connected
  <1>3. /\ Len(log) \in Nat /\ stored \in Nat \cup {-1} /\ stored <= Len(log) /\ seen <= Len(log)
    BY Parts DEF IInv, TypeOK, ResumeAccepted, Connected, Current
  <1>4. last' \in Nat /\ stored' <= last' /\ last' <= Len(log) /\ spc' \in {"subscribe", "idle"}
    BY <1>1, <1>3
  <1>5. TypeOK'
    BY <1>1, <1>4 DEF IInv, TypeOK, database
  <1>6. Grown /\ Announced' /\ AcknowledgedOnce' /\ log' = log
    BY <1>1, NotGrown, DatabaseKept DEF IInv, database
  <1>7. Connected'
    BY <1>1, <1>2, <1>3, <1>4, <1>6 DEF Connected, Current
  <1>8. ResumeAccepted' /\ HandledOnce' /\ Messages'
    BY <1>1, <1>2, <1>3, <1>4, <1>6, NothingSent DEF ResumeAccepted, Current
  <1>9. Answers' /\ ScreenFollowsStream'
    BY <1>1, <1>6, AnswersKept, ScreenKept
  <1> QED
    BY <1>5, <1>6, <1>7, <1>8, <1>9 DEF IInv

\* The connection ends, with its channel.
LEMMA ConnectionEnds ==
  ASSUME IInv, UNCHANGED <<alert, log, stored>>, channel' = << >>,
         conn' = "off", spc' = "none", last' = 0, seen' = 0
  PROVE  Connected' /\ ResumeAccepted' /\ HandledOnce' /\ Messages'
  <1>1. Len(log) \in Nat /\ stored <= Len(log)
    BY Parts DEF IInv, ResumeAccepted, Current
  <1>2. Connected'
    BY <1>1 DEF Connected, Current
  <1>3. ResumeAccepted'
    BY <1>1, NothingSent DEF ResumeAccepted, Current
  <1> QED
    BY <1>2, <1>3, NothingSent

\* The socket breaks.
LEMMA DisconnectStep ==
  ASSUME IInv, Disconnect
  PROVE  IInv'
  <1>1. /\ UNCHANGED <<database, ticket, stored, list, rest, missed>> /\ channel' = << >>
        /\ conn' = "off" /\ spc' = "none" /\ last' = 0 /\ seen' = 0
        /\ faults < MaxFaults /\ faults' = faults + 1
    BY DEF Disconnect, Fault
  <1>2. faults' \in 0 .. MaxFaults
    BY <1>1, StreamAssumption DEF IInv, TypeOK
  <1>3. TypeOK'
    BY <1>1, <1>2, NothingSent DEF IInv, TypeOK, database
  <1>4. Grown /\ Announced' /\ AcknowledgedOnce'
    BY <1>1, NotGrown, DatabaseKept DEF IInv, database
  <1>5. Connected' /\ ResumeAccepted' /\ HandledOnce' /\ Messages'
    BY <1>1, ConnectionEnds DEF database
  <1>6. Answers' /\ ScreenFollowsStream'
    BY <1>1, <1>4, AnswersKept, ScreenKept
  <1> QED
    BY <1>3, <1>4, <1>5, <1>6 DEF IInv

\* A new page starts with an empty screen, and owes it everything up to the
\* stored number.
LEMMA ReloadStep ==
  ASSUME IInv, Reload
  PROVE  IInv'
  <1>1. /\ UNCHANGED <<alert, log, expired, stored>> /\ channel' = << >>
        /\ conn' = "off" /\ ticket' = "none" /\ spc' = "none" /\ last' = 0 /\ seen' = 0
        /\ list' = [a \in Alerts |-> "none"] /\ missed' = 1 .. stored /\ ackKeys' = {}
        /\ faults < MaxFaults /\ faults' = faults + 1
    BY DEF Reload, Fault
  <1>2. rest' \in [Slots -> {Idle, [state |-> "asked"]}]
    BY DEF Reload
  <1>3. rest' \in [Slots -> Reads]
    BY <1>2 DEF Reads
  <1>4. list' \in Queue
    BY <1>1 DEF Queue, Status
  <1>5. faults' \in 0 .. MaxFaults /\ missed' \subseteq Nat
    BY <1>1, StreamAssumption DEF IInv, TypeOK
  <1>6. TypeOK'
    BY <1>1, <1>3, <1>4, <1>5, NothingSent DEF IInv, TypeOK
  <1>7. Announced' /\ AcknowledgedOnce'
    BY <1>1, DatabaseKept
  <1>8. Connected' /\ ResumeAccepted' /\ HandledOnce' /\ Messages'
    BY <1>1, ConnectionEnds
  <1>9. Answers'
    <2>1. \A s \in Slots : rest'[s].state # "read"
      BY <1>2 DEF Idle
    <2> QED
      BY <2>1 DEF Answers
  <1>10. ScreenFollowsStream'
    BY <1>1 DEF ScreenFollowsStream
  <1> QED
    BY <1>6, <1>7, <1>8, <1>9, <1>10 DEF IInv

--------------------------------------------------------------------------------
(* The server's side of the stream *)

\* Envelopes about the log, numbered in order beyond the last one written, are
\* added to the channel.
LEMMA Written ==
  ASSUME IInv, NEW sent \in Seq(Envelopes), channel' = channel \o sent,
         UNCHANGED <<log, stored>>, last \in Nat, last' \in Nat, last' <= Len(log),
         last <= last' \/ channel = << >>,
         \A i \in 1 .. Len(sent) :
           /\ stored < sent[i].seq /\ sent[i].seq <= last'
           /\ last < sent[i].seq \/ channel = << >>
           /\ \A j \in 1 .. Len(sent) : i < j => sent[i].seq < sent[j].seq
           /\ sent[i].type = "event" =>
                sent[i].seq \in 1 .. Len(log) /\ sent[i].payload = log[sent[i].seq]
           /\ sent[i].type = "snapshot" =>
                /\ sent[i].seq <= sent[i].payload.at
                /\ Reflects(log, sent[i].payload.queue, sent[i].payload.at)
  PROVE  channel' \in Seq(Envelopes) /\ ResumeAccepted' /\ HandledOnce' /\ Messages'
  <1>1. /\ channel \in Seq(Envelopes) /\ Len(channel) \in Nat /\ DOMAIN channel = 1 .. Len(channel)
        /\ \A i \in 1 .. Len(channel) : channel[i].seq \in Nat
        /\ stored \in Nat \cup {-1} /\ Len(log) \in Nat
    BY Parts DEF IInv, TypeOK
  <1>2. Len(sent) \in Nat /\ \A i \in 1 .. Len(sent) : sent[i].seq \in Nat
    <2>1. Len(sent) \in Nat /\ \A i \in 1 .. Len(sent) : sent[i] \in Envelopes
      BY ElementOfSeq, LenProperties
    <2> QED
      BY <2>1 DEF Envelopes
  <1>3. /\ channel' \in Seq(Envelopes) /\ Len(channel') = Len(channel) + Len(sent)
        /\ DOMAIN channel' = 1 .. Len(channel')
        /\ \A i \in 1 .. Len(channel') :
             channel'[i] = IF i <= Len(channel) THEN channel[i] ELSE sent[i - Len(channel)]
    BY <1>1, ConcatProperties, LenProperties
  <1>4. \A i \in 1 .. Len(channel') :
          \/ i \in 1 .. Len(channel) /\ channel'[i] = channel[i]
          \/ /\ i - Len(channel) \in 1 .. Len(sent) /\ i \notin 1 .. Len(channel)
             /\ channel'[i] = sent[i - Len(channel)]
    BY <1>1, <1>2, <1>3
  <1>5. \A i \in 1 .. Len(channel) :
          /\ channel # << >> /\ channel[i].seq <= last /\ stored < channel[i].seq
          /\ \A j \in 1 .. Len(channel) : i < j => channel[i].seq < channel[j].seq
    <2>1. \A i \in 1 .. Len(channel) : channel # << >>
      BY <1>1, EmptySeq
    <2> QED
      BY <1>1, <2>1 DEF IInv, ResumeAccepted, HandledOnce
  <1>6. ResumeAccepted'
    <2>1. ASSUME NEW i \in 1 .. Len(channel') PROVE channel'[i].seq <= last'
      <3>1. CASE i \in 1 .. Len(channel) /\ channel'[i] = channel[i]
        <4>1. channel[i].seq <= last /\ channel[i].seq \in Nat /\ last <= last'
          BY <3>1, <1>1, <1>5
        <4> QED
          BY <3>1, <4>1
      <3>2. CASE i - Len(channel) \in 1 .. Len(sent) /\ channel'[i] = sent[i - Len(channel)]
        BY <3>2
      <3> QED
        BY <1>4, <3>1, <3>2
    <2>2. stored' <= Current' /\ last' <= Current'
      BY DEF IInv, ResumeAccepted, Current
    <2> QED
      BY <1>3, <2>1, <2>2 DEF ResumeAccepted
  <1>7. HandledOnce'
    <2>1. ASSUME NEW i \in 1 .. Len(channel') PROVE stored' < channel'[i].seq
      BY <1>4, <1>5
    <2>2. ASSUME NEW i \in 1 .. Len(channel'), NEW j \in 1 .. Len(channel'), i < j
          PROVE  channel'[i].seq < channel'[j].seq
      <3>1. CASE i \in 1 .. Len(channel) /\ j \in 1 .. Len(channel)
        <4>1. channel'[i] = channel[i] /\ channel'[j] = channel[j]
          BY <3>1, <1>4
        <4> QED
          BY <2>2, <3>1, <4>1, <1>5
      <3>2. CASE i \in 1 .. Len(channel) /\ j \notin 1 .. Len(channel)
        <4>1. /\ channel'[i] = channel[i] /\ channel'[j] = sent[j - Len(channel)]
              /\ j - Len(channel) \in 1 .. Len(sent)
          BY <3>2, <1>4
        <4>2. /\ channel[i].seq <= last /\ channel[i].seq \in Nat /\ channel # << >>
              /\ last < sent[j - Len(channel)].seq /\ sent[j - Len(channel)].seq \in Nat
          BY <3>2, <4>1, <1>1, <1>2, <1>5
        <4> QED
          BY <4>1, <4>2
      <3>3. CASE i \notin 1 .. Len(channel)
        <4>1. j \notin 1 .. Len(channel)
          BY <2>2, <3>3, <1>1, <1>3
        <4>2. /\ channel'[i] = sent[i - Len(channel)] /\ i - Len(channel) \in 1 .. Len(sent)
              /\ channel'[j] = sent[j - Len(channel)] /\ j - Len(channel) \in 1 .. Len(sent)
          BY <3>3, <4>1, <1>4
        <4>3. i - Len(channel) < j - Len(channel)
          BY <2>2, <1>1
        <4> QED
          BY <4>2, <4>3
      <3> QED
        BY <3>1, <3>2, <3>3
    <2> QED
      BY <1>3, <2>1, <2>2 DEF HandledOnce
  <1>8. Messages'
    BY <1>4 DEF IInv, Messages
  <1> QED
    BY <1>3, <1>6, <1>7, <1>8

\* One envelope more is a sequence of one envelope more.
LEMMA OneSent ==
  ASSUME TypeOK, NEW e \in Envelopes
  PROVE  /\ <<e>> \in Seq(Envelopes) /\ Len(<<e>>) = 1 /\ <<e>>[1] = e
         /\ Append(channel, e) = channel \o <<e>>
  BY AppendProperties DEF TypeOK

\* The database and the client are left alone by the server.
LEMMA ServerFrame ==
  ASSUME IInv, UNCHANGED <<database, client, faults>>
  PROVE  Grown /\ log' = log /\ Announced' /\ AcknowledgedOnce' /\ Answers' /\ ScreenFollowsStream'
  <1>1. /\ log' = log /\ alert' = alert /\ rest' = rest /\ list' = list
        /\ missed' = missed /\ stored' = stored
    BY DEF database, client
  <1>2. Grown /\ Announced' /\ AcknowledgedOnce'
    BY <1>1, NotGrown, DatabaseKept DEF IInv
  <1> QED
    BY <1>1, <1>2, AnswersKept, ScreenKept

\* The base number of a snapshot is read, before its queue.
LEMMA SubscribeCurrentStep ==
  ASSUME IInv, SubscribeCurrent
  PROVE  IInv'
  <1>1. /\ UNCHANGED <<database, client, faults>> /\ UNCHANGED <<last, channel>>
        /\ spc = "subscribe" /\ spc' = "list" /\ seen' = Len(log)
    BY DEF SubscribeCurrent, Current
  <1>2. Grown /\ log' = log /\ Announced' /\ AcknowledgedOnce' /\ Answers' /\ ScreenFollowsStream'
    BY <1>1, ServerFrame
  <1>3. Len(log) \in Nat
    BY Parts DEF IInv
  <1>4. TypeOK'
    BY <1>1, <1>3 DEF IInv, TypeOK, database, client
  <1>5. Connected'
    BY <1>1, <1>2, <1>3 DEF IInv, Connected, Current, client
  <1>6. ResumeAccepted' /\ HandledOnce'
    BY <1>1, <1>2 DEF IInv, ResumeAccepted, HandledOnce, Current, client
  <1>7. Messages'
    BY <1>1, <1>2 DEF IInv, Messages
  <1> QED
    BY <1>2, <1>4, <1>5, <1>6, <1>7 DEF IInv

\* The queue of the snapshot reflects at least the messages up to its number.
LEMMA SubscribeListStep ==
  ASSUME IInv, SubscribeList
  PROVE  IInv'
  <1> DEFINE e == Envelope("snapshot", seen, [queue |-> ListSite, at |-> Current])
  <1>1. /\ UNCHANGED <<database, client, faults>> /\ seen' = seen
        /\ spc = "list" /\ spc' = "idle" /\ last' = seen /\ channel' = Append(channel, e)
    BY DEF SubscribeList
  <1>2. Grown /\ log' = log /\ Announced' /\ AcknowledgedOnce' /\ Answers' /\ ScreenFollowsStream'
    BY <1>1, ServerFrame
  <1>3. /\ seen \in Nat /\ last \in Nat /\ Len(log) \in Nat /\ seen <= Len(log)
        /\ channel = << >> /\ stored = -1 /\ conn = "open"
    BY <1>1, Parts DEF IInv, TypeOK, Connected, Current
  <1>4. Reflects(log, ListSite, Current) /\ ListSite \in Queue /\ Current = Len(log)
    BY Fresh DEF IInv, Reflects, Current
  <1>5. /\ e \in Envelopes /\ e.type = "snapshot" /\ e.seq = seen
        /\ e.payload.queue = ListSite /\ e.payload.at = Current
    BY <1>3, <1>4 DEF Envelope, Envelopes
  <1> HIDE DEF e
  <1>6. /\ channel' = channel \o <<e>> /\ <<e>> \in Seq(Envelopes)
        /\ \A i \in 1 .. Len(<<e>>) : i = 1 /\ <<e>>[i] = e
    BY <1>1, <1>5, OneSent DEF IInv
  <1>7. channel' \in Seq(Envelopes) /\ ResumeAccepted' /\ HandledOnce' /\ Messages'
    <2>1. \A i \in 1 .. Len(<<e>>) :
            /\ stored < <<e>>[i].seq /\ <<e>>[i].seq <= last'
            /\ \A j \in 1 .. Len(<<e>>) : ~ (i < j)
            /\ <<e>>[i].type # "event"
            /\ <<e>>[i].seq <= <<e>>[i].payload.at
            /\ Reflects(log, <<e>>[i].payload.queue, <<e>>[i].payload.at)
      BY <1>1, <1>3, <1>4, <1>5, <1>6
    <2> QED
      BY <2>1, <1>1, <1>2, <1>3, <1>6, Written DEF client
  <1>8. TypeOK'
    BY <1>1, <1>3, <1>7 DEF IInv, TypeOK, database, client
  <1>9. Connected'
    BY <1>1, <1>2, <1>3 DEF Connected, Current, client
  <1> QED
    BY <1>2, <1>7, <1>8, <1>9 DEF IInv

\* A poll finds that it cannot replay everything, or goes on to the rows.
LEMMA ReplayFloorStep ==
  ASSUME IInv, ReplayFloor
  PROVE  IInv'
  <1> DEFINE e == Envelope("gap", Len(log), Idle)
  <1>1. /\ UNCHANGED <<database, client, faults>> /\ seen' = seen
        /\ spc = "idle" /\ last < Len(log)
        /\ \/ channel' = Append(channel, e) /\ last' = Len(log) /\ spc' = "idle"
           \/ spc' = "rows" /\ channel' = channel /\ last' = last
    BY DEF ReplayFloor, Current
  <1>2. Grown /\ log' = log /\ Announced' /\ AcknowledgedOnce' /\ Answers' /\ ScreenFollowsStream'
    BY <1>1, ServerFrame
  <1>3. /\ seen \in Nat /\ last \in Nat /\ Len(log) \in Nat /\ seen <= Len(log)
        /\ stored \in Nat \cup {-1} /\ stored <= last /\ conn = "open"
    BY <1>1, Parts DEF IInv, TypeOK, Connected, Current
  <1>4. e \in Envelopes /\ e.type = "gap" /\ e.seq = Len(log)
    BY <1>3 DEF Envelope, Envelopes
  <1> HIDE DEF e
  <1>5. channel' \in Seq(Envelopes) /\ ResumeAccepted' /\ HandledOnce' /\ Messages'
    <2>1. CASE channel' = Append(channel, e) /\ last' = Len(log) /\ spc' = "idle"
      <3>1. /\ channel' = channel \o <<e>> /\ <<e>> \in Seq(Envelopes)
            /\ \A i \in 1 .. Len(<<e>>) : i = 1 /\ <<e>>[i] = e
        BY <2>1, <1>4, OneSent DEF IInv
      <3>2. \A i \in 1 .. Len(<<e>>) :
              /\ stored < <<e>>[i].seq /\ <<e>>[i].seq <= last' /\ last < <<e>>[i].seq
              /\ \A j \in 1 .. Len(<<e>>) : ~ (i < j)
              /\ <<e>>[i].type # "event" /\ <<e>>[i].type # "snapshot"
        BY <2>1, <3>1, <1>1, <1>3, <1>4
      <3>3. last' \in Nat /\ last <= last' /\ last' <= Len(log)
        BY <2>1, <1>1, <1>3
      <3> QED
        BY <3>1, <3>2, <3>3, <1>1, <1>2, <1>3, Written DEF client
    <2>2. CASE channel' = channel /\ last' = last
      <3>1. ResumeAccepted' /\ HandledOnce'
        BY <2>2, <1>1, <1>2 DEF IInv, ResumeAccepted, HandledOnce, Current, client
      <3>2. Messages'
        BY <2>2, <1>2 DEF IInv, Messages
      <3> QED
        BY <2>2, <3>1, <3>2 DEF IInv, TypeOK
    <2> QED
      BY <1>1, <2>1, <2>2
  <1>6. last' \in Nat /\ stored' <= last' /\ spc' \in {"idle", "rows"}
    BY <1>1, <1>3 DEF client
  <1>7. TypeOK'
    BY <1>1, <1>5, <1>6 DEF IInv, TypeOK, database, client
  <1>8. Connected'
    BY <1>1, <1>2, <1>3, <1>6 DEF Connected, Current, client
  <1> QED
    BY <1>2, <1>5, <1>7, <1>8 DEF IInv

\* The rows a replay reads: messages beyond the last number, in order.
LEMMA RowsRead ==
  ASSUME TypeOK
  PROVE  /\ Rows \in Seq(Envelopes) /\ Len(Rows) \in Nat
         /\ Rows # << >> => Len(Rows) \in 1 .. Len(Rows)
         /\ \A k \in 1 .. Len(Rows) :
              /\ Rows[k].type = "event" /\ last < Rows[k].seq
              /\ Rows[k].seq \in 1 .. Len(log) /\ Rows[k].payload = log[Rows[k].seq]
              /\ \A j \in 1 .. Len(Rows) : k < j => Rows[k].seq < Rows[j].seq
  <1> DEFINE first == IF expired > last THEN expired + 1 ELSE last + 1
             end   == IF first + ReplayLimit - 1 < Len(log) THEN first + ReplayLimit - 1 ELSE Len(log)
             count == IF end < first THEN 0 ELSE end - first + 1
  <1>1. /\ Len(log) \in Nat /\ last \in Nat /\ expired \in Nat /\ ReplayLimit \in Nat \ {0}
        /\ log \in Seq(Message)
    BY Parts, StreamAssumption DEF TypeOK
  <1>2. first \in Nat /\ last < first
    BY <1>1
  <1>3. Rows = [k \in 1 .. count |-> Envelope("event", first + k - 1, log[first + k - 1])]
    BY DEF Rows
  <1> HIDE DEF first
  <1>4. end \in Nat /\ end <= Len(log)
    BY <1>1, <1>2
  <1> HIDE DEF end
  <1>5. count \in Nat /\ \A k \in 1 .. count : first + k - 1 \in 1 .. Len(log)
    BY <1>1, <1>2, <1>4
  <1> HIDE DEF count
  <1>6. ASSUME NEW k \in 1 .. count
        PROVE  /\ Rows[k] \in Envelopes /\ Rows[k].type = "event" /\ Rows[k].seq = first + k - 1
               /\ Rows[k].payload = log[first + k - 1]
    <2>1. log[first + k - 1] \in Message
      BY <1>1, <1>5, ElementOfSeq
    <2>2. first + k - 1 \in Nat
      BY <1>5
    <2> QED
      BY <1>3, <2>1, <2>2 DEF Envelope, Envelopes
  <1>7. Rows \in [1 .. count -> Envelopes]
    BY <1>3, <1>6
  <1>8. Rows \in Seq(Envelopes)
    BY <1>5, <1>7, SeqDef
  <1>9. Len(Rows) \in Nat /\ 1 .. Len(Rows) = 1 .. count
    BY <1>7, <1>8, LenProperties
  <1>10. ASSUME NEW k \in 1 .. Len(Rows)
         PROVE  /\ Rows[k].type = "event" /\ last < Rows[k].seq
                /\ Rows[k].seq \in 1 .. Len(log) /\ Rows[k].payload = log[Rows[k].seq]
                /\ \A j \in 1 .. Len(Rows) : k < j => Rows[k].seq < Rows[j].seq
    <2>1. k \in 1 .. count /\ \A j \in 1 .. Len(Rows) : Rows[j].seq = first + j - 1
      BY <1>6, <1>9
    <2>2. last < Rows[k].seq /\ \A j \in 1 .. Len(Rows) : k < j => Rows[k].seq < Rows[j].seq
      BY <2>1, <1>1, <1>2
    <2> QED
      BY <2>1, <2>2, <1>5, <1>6
  <1>11. Rows # << >> => Len(Rows) \in 1 .. Len(Rows)
    BY <1>8, <1>9, EmptySeq
  <1> QED
    BY <1>8, <1>9, <1>10, <1>11

\* The rows are written to the connection, and the last of them is remembered.
LEMMA ReplayRowsStep ==
  ASSUME IInv, ReplayRows
  PROVE  IInv'
  <1>1. /\ UNCHANGED <<database, client, faults>> /\ seen' = seen
        /\ spc = "rows" /\ spc' = "idle" /\ channel' = channel \o Rows
        /\ last' = IF Rows = << >> THEN last ELSE Rows[Len(Rows)].seq
    BY DEF ReplayRows
  <1>2. Grown /\ log' = log /\ Announced' /\ AcknowledgedOnce' /\ Answers' /\ ScreenFollowsStream'
    BY <1>1, ServerFrame
  <1>3. /\ seen \in Nat /\ last \in Nat /\ Len(log) \in Nat /\ seen <= Len(log) /\ last <= Len(log)
        /\ stored \in Nat \cup {-1} /\ stored <= last /\ conn = "open"
    BY <1>1, Parts DEF IInv, TypeOK, Connected, ResumeAccepted, Current
  <1> DEFINE sent == Rows
  <1>4. /\ sent \in Seq(Envelopes) /\ Len(sent) \in Nat
        /\ sent # << >> => Len(sent) \in 1 .. Len(sent)
        /\ \A k \in 1 .. Len(sent) :
             /\ sent[k].type = "event" /\ last < sent[k].seq
             /\ sent[k].seq \in 1 .. Len(log) /\ sent[k].payload = log[sent[k].seq]
             /\ \A j \in 1 .. Len(sent) : k < j => sent[k].seq < sent[j].seq
    BY RowsRead DEF IInv
  <1>5. channel' = channel \o sent /\ last' = IF sent = << >> THEN last ELSE sent[Len(sent)].seq
    BY <1>1
  <1> HIDE DEF sent
  <1>6. last' \in Nat /\ last <= last' /\ last' <= Len(log)
    BY <1>3, <1>4, <1>5
  <1>7. ASSUME NEW k \in 1 .. Len(sent) PROVE stored < sent[k].seq /\ sent[k].seq <= last'
    <2>1. sent[k].seq \in Nat /\ last < sent[k].seq
      BY <1>4
    <2>2. sent # << >> /\ last' = sent[Len(sent)].seq
      BY <1>4, <1>5, EmptySeq
    <2>3. k = Len(sent) \/ sent[k].seq < sent[Len(sent)].seq
      BY <2>2, <1>4
    <2> QED
      BY <2>1, <2>2, <2>3, <1>3, <1>6
  <1>8. channel' \in Seq(Envelopes) /\ ResumeAccepted' /\ HandledOnce' /\ Messages'
    <2>1. \A k \in 1 .. Len(sent) : sent[k].type # "snapshot"
      BY <1>4
    <2> QED
      BY <2>1, <1>1, <1>2, <1>3, <1>4, <1>5, <1>6, <1>7, Written DEF client
  <1>9. TypeOK'
    BY <1>1, <1>6, <1>8 DEF IInv, TypeOK, database, client
  <1>10. stored' <= last'
    BY <1>1, <1>3, <1>6 DEF client
  <1>11. Connected'
    BY <1>1, <1>2, <1>3, <1>10 DEF Connected, Current, client
  <1> QED
    BY <1>2, <1>8, <1>9, <1>11 DEF IInv

--------------------------------------------------------------------------------
(* The browser *)

\* The first envelope leaves the channel and its number is stored.
LEMMA Received ==
  ASSUME IInv, channel # << >>, channel' = Tail(channel), stored' = channel[1].seq,
         UNCHANGED <<database, server, conn>>
  PROVE  /\ 1 \in 1 .. Len(channel) /\ channel[1] \in Envelopes /\ channel[1].seq <= Len(log)
         /\ channel' \in Seq(Envelopes) /\ stored' \in Nat
         /\ Connected' /\ ResumeAccepted' /\ HandledOnce' /\ Messages'
  <1>1. /\ channel \in Seq(Envelopes) /\ Len(channel) \in Nat /\ DOMAIN channel = 1 .. Len(channel)
        /\ \A i \in 1 .. Len(channel) : channel[i] \in Envelopes /\ channel[i].seq \in Nat
        /\ last \in Nat /\ Len(log) \in Nat
    BY Parts DEF IInv, TypeOK
  <1>2. log' = log /\ spc' = spc /\ last' = last /\ seen' = seen /\ conn' = conn
    BY DEF database, server
  <1>3. /\ 1 \in 1 .. Len(channel) /\ channel' \in Seq(Envelopes)
        /\ Len(channel') = Len(channel) - 1 /\ DOMAIN channel' = 1 .. Len(channel')
        /\ \A i \in 1 .. Len(channel') : channel'[i] = channel[i + 1]
    BY <1>1, EmptySeq, HeadTailProperties, LenProperties
  <1>4. \A i \in 1 .. Len(channel') : i + 1 \in 1 .. Len(channel) /\ 1 < i + 1
    BY <1>1, <1>3
  <1>5. \A i \in 1 .. Len(channel) :
          /\ channel[i].seq <= last
          /\ \A j \in 1 .. Len(channel) : i < j => channel[i].seq < channel[j].seq
    BY <1>1 DEF IInv, ResumeAccepted, HandledOnce
  <1>6. channel[1].seq <= last /\ last <= Len(log) /\ channel[1].seq \in Nat
    BY <1>1, <1>3, <1>5 DEF IInv, ResumeAccepted, Current
  <1>7. channel[1].seq <= Len(log)
    BY <1>1, <1>6
  <1>8. Connected'
    <2>1. spc \in {"idle", "rows"}
      BY DEF IInv, TypeOK, Connected
    <2> QED
      BY <2>1, <1>2, <1>6 DEF IInv, Connected, Current
  <1>9. ResumeAccepted'
    BY <1>2, <1>3, <1>4, <1>5, <1>6, <1>7 DEF ResumeAccepted, Current
  <1>10. HandledOnce'
    <2>1. \A i, j \in 1 .. Len(channel') : i < j => i + 1 < j + 1
      BY <1>3, <1>1
    <2> QED
      BY <2>1, <1>3, <1>4, <1>5 DEF HandledOnce
  <1>11. Messages'
    BY <1>2, <1>3, <1>4 DEF IInv, Messages
  <1> QED
    BY <1>1, <1>3, <1>6, <1>7, <1>8, <1>9, <1>10, <1>11

\* A queue replaces the screen: it lacks what the limit cut off, and no more.
LEMMA Shown ==
  ASSUME IInv, NEW queue, NEW n, Reflects(log, queue, n),
         log' = log, list' = queue, CutOff(queue, n) \subseteq missed',
         \A k \in 1 .. stored' : k <= n \/ k \in missed', stored' \in Nat \cup {-1}
  PROVE  list' \in Queue /\ n \in Nat /\ CutOff(queue, n) \subseteq Nat /\ ScreenFollowsStream'
  <1>1. Len(log) \in Nat /\ queue \in Queue /\ n \in 0 .. Len(log)
    BY Parts DEF IInv, Reflects
  <1>2. n \in Nat /\ CutOff(queue, n) \subseteq Nat
    BY <1>1 DEF CutOff
  <1>3. ASSUME NEW k \in 1 .. stored', k \notin missed'
        PROVE  Rank[queue[log[k].alert]] >= Rank[log[k].status]
    <2>1. k \in 1 .. n
      BY <1>2, <1>3
    <2>2. ~ (queue[log[k].alert] = "none" /\ Cardinality(Listed(queue)) = ListLimit)
      BY <2>1, <1>3 DEF CutOff, Listed
    <2> QED
      BY <2>1, <2>2 DEF Reflects
  <1>4. ScreenFollowsStream'
    BY <1>3 DEF ScreenFollowsStream
  <1> QED
    BY <1>1, <1>2, <1>4

\* A snapshot replaces the list.
LEMMA ReceiveSnapshotStep ==
  ASSUME IInv, ReceiveSnapshot
  PROVE  IInv'
  <1> DEFINE e == channel[1]
  <1>1. /\ channel # << >> /\ channel' = Tail(channel) /\ Head(channel) = e
        /\ UNCHANGED <<database, server, conn, ticket, rest, faults>>
    BY Parts, HeadTailProperties DEF ReceiveSnapshot, IInv, TypeOK
  <1>2. /\ e.type = "snapshot" /\ stored' = e.seq /\ list' = e.payload.queue
        /\ missed' = (missed \ (1 .. e.payload.at)) \cup CutOff(e.payload.queue, e.payload.at)
    BY <1>1 DEF ReceiveSnapshot
  <1>3. /\ 1 \in 1 .. Len(channel) /\ e \in Envelopes /\ channel' \in Seq(Envelopes)
        /\ stored' \in Nat /\ Connected' /\ ResumeAccepted' /\ HandledOnce' /\ Messages'
    BY <1>1, <1>2, Received
  <1>4. e.seq <= e.payload.at /\ Reflects(log, e.payload.queue, e.payload.at)
    BY <1>2, <1>3 DEF IInv, Messages
  <1> HIDE DEF e
  <1>5. /\ alert' = alert /\ log' = log /\ expired' = expired /\ ackKeys' = ackKeys
        /\ spc' = spc /\ last' = last /\ seen' = seen
        /\ conn' = conn /\ ticket' = ticket /\ rest' = rest /\ faults' = faults
    BY <1>1 DEF database, server
  <1>6. e.payload.at \in Nat /\ missed \subseteq Nat
    BY <1>4, Parts DEF Reflects, IInv, TypeOK
  <1>7. /\ \A k \in 1 .. stored' : k <= e.payload.at \/ k \in missed'
        /\ CutOff(e.payload.queue, e.payload.at) \subseteq missed'
    BY <1>2, <1>3, <1>4, <1>6
  <1>8. list' \in Queue /\ CutOff(e.payload.queue, e.payload.at) \subseteq Nat /\ ScreenFollowsStream'
    BY <1>2, <1>3, <1>4, <1>5, <1>7, Shown
  <1>9. missed' \subseteq Nat
    BY <1>2, <1>6, <1>8
  <1>10. TypeOK'
    BY <1>3, <1>5, <1>8, <1>9 DEF IInv, TypeOK
  <1>11. Announced' /\ AcknowledgedOnce' /\ Answers'
    BY <1>5, NotGrown, DatabaseKept, AnswersKept DEF IInv
  <1> QED
    BY <1>3, <1>8, <1>10, <1>11 DEF IInv

\* An event is upserted.  No message before it says more about its alert.
LEMMA ReceiveEventStep ==
  ASSUME IInv, ReceiveEvent
  PROVE  IInv'
  <1> DEFINE e == channel[1]
  <1>1. /\ channel # << >> /\ channel' = Tail(channel) /\ Head(channel) = e
        /\ UNCHANGED <<database, server, conn, ticket, rest, faults>>
    BY Parts, HeadTailProperties DEF ReceiveEvent, IInv, TypeOK
  <1>2. /\ e.type = "event" /\ stored' = e.seq
        /\ list' = Upsert(list, e.payload.alert, e.payload.status)
        /\ missed' = (missed \cup (stored + 1 .. e.seq)) \ {e.seq}
    BY <1>1 DEF ReceiveEvent
  <1>3. /\ 1 \in 1 .. Len(channel) /\ e \in Envelopes /\ channel' \in Seq(Envelopes)
        /\ stored' \in Nat /\ Connected' /\ ResumeAccepted' /\ HandledOnce' /\ Messages'
    BY <1>1, <1>2, Received
  <1>4. e.seq \in 1 .. Len(log) /\ e.payload = log[e.seq]
    BY <1>2, <1>3 DEF IInv, Messages
  <1> HIDE DEF e
  <1>5. /\ alert' = alert /\ log' = log /\ expired' = expired /\ ackKeys' = ackKeys
        /\ spc' = spc /\ last' = last /\ seen' = seen
        /\ conn' = conn /\ ticket' = ticket /\ rest' = rest /\ faults' = faults
    BY <1>1 DEF database, server
  <1>6. /\ Len(log) \in Nat /\ DOMAIN log = 1 .. Len(log)
        /\ \A n \in 1 .. Len(log) : log[n].alert \in Alerts /\ log[n].status \in Status
        /\ list \in Queue /\ missed \subseteq Nat /\ stored \in Nat \cup {-1}
    BY Parts DEF IInv, TypeOK
  <1>7. /\ list' \in Queue /\ list'[log[e.seq].alert] = log[e.seq].status
        /\ \A a \in Alerts : a # log[e.seq].alert => list'[a] = list[a]
    BY <1>2, <1>4, <1>6 DEF Upsert, Queue
  <1>8. missed' \subseteq Nat
    <2>1. stored + 1 \in Nat /\ \A n \in stored + 1 .. e.seq : n \in Nat
      BY <1>4, <1>6
    <2> QED
      BY <2>1, <1>2, <1>6
  <1>9. ASSUME NEW n \in 1 .. e.seq, n \notin missed'
        PROVE  Rank[list'[log[n].alert]] >= Rank[log[n].status]
    <2>1. n \in 1 .. Len(log) /\ log[n].alert \in Alerts /\ log[n].status \in Status
      BY <1>4, <1>6
    <2>2. CASE n = e.seq
      <3>1. Rank[log[n].status] \in 0 .. 2
        BY <2>1, Ranks
      <3> QED
        BY <2>2, <3>1, <1>7
    <2>3. CASE n # e.seq /\ log[n].alert = log[e.seq].alert
      <3>1. n < e.seq
        BY <2>3, <1>4
      <3>2. log[n].status = "new" /\ log[e.seq].status = "acked"
        BY <3>1, <2>1, <2>3, <1>4, <1>6 DEF IInv, AcknowledgedOnce
      <3> QED
        BY <3>2, <2>3, <1>7, Ranks
    <2>4. CASE n # e.seq /\ log[n].alert # log[e.seq].alert
      <3>1. n \notin missed /\ n \in 1 .. stored
        BY <2>4, <1>2, <1>4, <1>6, <1>9
      <3>2. Rank[list[log[n].alert]] >= Rank[log[n].status]
        BY <3>1 DEF IInv, ScreenFollowsStream
      <3> QED
        BY <3>2, <2>1, <2>4, <1>7
    <2> QED
      BY <2>2, <2>3, <2>4
  <1>10. ScreenFollowsStream'
    BY <1>2, <1>5, <1>9 DEF ScreenFollowsStream
  <1>11. TypeOK'
    BY <1>3, <1>5, <1>7, <1>8 DEF IInv, TypeOK
  <1>12. Announced' /\ AcknowledgedOnce' /\ Answers'
    BY <1>5, NotGrown, DatabaseKept, AnswersKept DEF IInv
  <1> QED
    BY <1>3, <1>10, <1>11, <1>12 DEF IInv

\* A gap leaves the list as it is and starts a REST read.
LEMMA ReceiveGapStep ==
  ASSUME IInv, ReceiveGap
  PROVE  IInv'
  <1> DEFINE e == channel[1]
  <1>1. /\ channel # << >> /\ channel' = Tail(channel) /\ Head(channel) = e
        /\ UNCHANGED <<database, server, conn, ticket, list, faults>>
    BY Parts, HeadTailProperties DEF ReceiveGap, IInv, TypeOK
  <1>2. stored' = e.seq /\ missed' = missed \cup (stored + 1 .. e.seq)
    BY <1>1 DEF ReceiveGap
  <1>3. /\ channel' \in Seq(Envelopes) /\ stored' \in Nat
        /\ Connected' /\ ResumeAccepted' /\ HandledOnce' /\ Messages'
    BY <1>1, <1>2, Received
  <1> HIDE DEF e
  <1>4. PICK s \in Slots : rest' = [rest EXCEPT ![s] = [state |-> "asked"]]
    BY DEF ReceiveGap
  <1>5. /\ alert' = alert /\ log' = log /\ expired' = expired /\ ackKeys' = ackKeys
        /\ spc' = spc /\ last' = last /\ seen' = seen
        /\ conn' = conn /\ ticket' = ticket /\ list' = list /\ faults' = faults
    BY <1>1 DEF database, server
  <1>6. missed \subseteq Nat /\ stored \in Nat \cup {-1} /\ rest \in [Slots -> Reads]
    BY DEF IInv, TypeOK
  <1>7. missed' \subseteq Nat /\ rest' \in [Slots -> Reads]
    <2>1. stored + 1 \in Nat /\ \A n \in stored + 1 .. e.seq : n \in Nat
      BY <1>2, <1>3, <1>6
    <2>2. [state |-> "asked"] \in Reads
      BY DEF Reads
    <2>3. missed' \subseteq Nat
      BY <2>1, <1>2, <1>6
    <2>4. rest' \in [Slots -> Reads]
      BY <2>2, <1>4, <1>6
    <2> QED
      BY <2>3, <2>4
  <1>8. TypeOK'
    BY <1>3, <1>5, <1>7 DEF IInv, TypeOK
  <1>9. \A n \in 1 .. stored' : n \notin missed' => n \in 1 .. stored /\ n \notin missed
    BY <1>2, <1>3, <1>6
  <1>10. ScreenFollowsStream'
    BY <1>5, <1>9 DEF IInv, ScreenFollowsStream
  <1>11. \A t \in Slots : rest'[t].state = "read" => rest'[t] = rest[t]
    BY <1>4, <1>6
  <1>12. Answers'
    BY <1>5, <1>11 DEF IInv, Answers
  <1>13. Announced' /\ AcknowledgedOnce'
    BY <1>5, DatabaseKept
  <1> QED
    BY <1>3, <1>8, <1>10, <1>12, <1>13 DEF IInv

\* A REST read of the queue, which reflects the log of this moment.
LEMMA RestReadStep ==
  ASSUME IInv, NEW s \in Slots, RestRead(s)
  PROVE  IInv'
  <1> DEFINE answer == [state |-> "read", queue |-> ListSite, at |-> Current]
  <1>1. /\ rest' = [rest EXCEPT ![s] = answer]
        /\ UNCHANGED <<database, server, channel, conn, ticket, stored, list, missed, faults>>
    BY DEF RestRead
  <1>2. /\ alert' = alert /\ log' = log /\ expired' = expired /\ ackKeys' = ackKeys
        /\ UNCHANGED <<spc, last, seen, channel, conn, ticket, stored, list, missed, faults>>
    BY <1>1 DEF database, server
  <1>3. Reflects(log, ListSite, Current)
    BY Fresh DEF IInv
  <1>4. ListSite \in Queue /\ Current \in Nat /\ Len(log) \in Nat
    BY <1>3, Parts DEF Reflects, Current, IInv
  <1>5. /\ answer \in Reads /\ answer.queue = ListSite /\ answer.at = Current
    BY <1>4 DEF Reads
  <1> HIDE DEF answer
  <1>6. rest \in [Slots -> Reads]
    BY DEF IInv, TypeOK
  <1>7. rest' \in [Slots -> Reads] /\ \A t \in Slots : rest'[t] = IF t = s THEN answer ELSE rest[t]
    BY <1>1, <1>5, <1>6
  <1>8. TypeOK'
    BY <1>2, <1>7 DEF IInv, TypeOK
  <1>9. Answers'
    BY <1>2, <1>3, <1>5, <1>7 DEF IInv, Answers
  <1>10. Grown
    BY <1>2, NotGrown DEF IInv
  <1>11. Announced' /\ AcknowledgedOnce'
    BY <1>2, DatabaseKept
  <1>12. Connected' /\ ResumeAccepted' /\ HandledOnce' /\ Messages'
    BY <1>2, <1>10, StreamKept
  <1>13. ScreenFollowsStream'
    BY <1>2, <1>10, ScreenKept
  <1> QED
    BY <1>8, <1>9, <1>11, <1>12, <1>13 DEF IInv

\* A REST read is over: no other read changes, and neither does the stream.
LEMMA ReadOver ==
  ASSUME IInv, NEW s \in Slots, rest' = [rest EXCEPT ![s] = Idle],
         UNCHANGED <<database, server, channel, conn, stored>>
  PROVE  /\ rest' \in [Slots -> Reads] /\ Grown /\ Announced' /\ AcknowledgedOnce'
         /\ Connected' /\ ResumeAccepted' /\ HandledOnce' /\ Messages' /\ Answers'
  <1>1. UNCHANGED <<alert, log, spc, last, seen, channel, stored, conn>>
    BY DEF database, server
  <1>2. rest \in [Slots -> Reads] /\ Idle \in Reads /\ Idle.state # "read"
    BY DEF IInv, TypeOK, Reads, Idle
  <1>3. rest' \in [Slots -> Reads] /\ \A t \in Slots : rest'[t].state = "read" => rest'[t] = rest[t]
    BY <1>2
  <1>4. Answers'
    BY <1>1, <1>3 DEF IInv, Answers
  <1>5. Grown
    BY <1>1, NotGrown DEF IInv
  <1> QED
    BY <1>1, <1>3, <1>4, <1>5, DatabaseKept, StreamKept

\* Its answer replaces the list.
LEMMA RestArrivesStep ==
  ASSUME IInv, NEW s \in Slots, RestArrives(s)
  PROVE  IInv'
  <1> DEFINE queue == rest[s].queue
             at    == rest[s].at
  <1>1. /\ rest[s].state = "read" /\ list' = queue /\ rest' = [rest EXCEPT ![s] = Idle]
        /\ missed' = (missed \ (1 .. at)) \cup (at + 1 .. stored) \cup CutOff(queue, at)
        /\ UNCHANGED <<database, server, channel, conn, ticket, stored, faults>>
    BY DEF RestArrives
  <1>2. Reflects(log, queue, at)
    BY <1>1 DEF IInv, Answers
  <1> HIDE DEF queue, at
  <1>3. /\ rest' \in [Slots -> Reads] /\ Announced' /\ AcknowledgedOnce'
        /\ Connected' /\ ResumeAccepted' /\ HandledOnce' /\ Messages' /\ Answers'
    BY <1>1, ReadOver
  <1>4. /\ alert' = alert /\ log' = log /\ expired' = expired /\ ackKeys' = ackKeys
        /\ UNCHANGED <<spc, last, seen, channel, conn, ticket, stored, faults>>
    BY <1>1 DEF database, server
  <1>5. at \in Nat /\ missed \subseteq Nat /\ stored \in Nat \cup {-1} /\ stored' = stored
    BY <1>2, <1>4, Parts DEF Reflects, IInv, TypeOK
  <1>6. \A k \in 1 .. stored' : k <= at \/ k \in at + 1 .. stored
    BY <1>5
  <1>7. CutOff(queue, at) \subseteq missed' /\ \A k \in 1 .. stored' : k <= at \/ k \in missed'
    BY <1>1, <1>6
  <1>8. list' \in Queue /\ CutOff(queue, at) \subseteq Nat /\ ScreenFollowsStream'
    BY <1>1, <1>2, <1>4, <1>5, <1>7, Shown
  <1>9. missed' \subseteq Nat
    <2>1. \A n \in at + 1 .. stored : n \in Nat
      BY <1>5
    <2> QED
      BY <2>1, <1>1, <1>5, <1>8
  <1>10. TypeOK'
    BY <1>3, <1>4, <1>8, <1>9 DEF IInv, TypeOK
  <1> QED
    BY <1>3, <1>8, <1>10 DEF IInv

\* It fails, and the screen stays as it is.
LEMMA RestFailsStep ==
  ASSUME IInv, NEW s \in Slots, RestFails(s)
  PROVE  IInv'
  <1>1. /\ rest' = [rest EXCEPT ![s] = Idle] /\ Fault
        /\ UNCHANGED <<database, server, channel, conn, ticket, stored, list, missed>>
    BY DEF RestFails
  <1>2. /\ rest' \in [Slots -> Reads] /\ Grown /\ Announced' /\ AcknowledgedOnce'
        /\ Connected' /\ ResumeAccepted' /\ HandledOnce' /\ Messages' /\ Answers'
    BY <1>1, ReadOver
  <1>3. faults' \in 0 .. MaxFaults
    BY <1>1, StreamAssumption DEF Fault, IInv, TypeOK
  <1>4. /\ alert' = alert /\ log' = log /\ expired' = expired /\ ackKeys' = ackKeys
        /\ UNCHANGED <<spc, last, seen, channel, conn, ticket, stored, list, missed>>
    BY <1>1 DEF database, server
  <1>5. TypeOK'
    BY <1>2, <1>3, <1>4 DEF IInv, TypeOK
  <1>6. ScreenFollowsStream'
    BY <1>2, <1>4, ScreenKept
  <1> QED
    BY <1>2, <1>5, <1>6 DEF IInv

--------------------------------------------------------------------------------
(* The theorems *)

\* Every step of the writers, the server and the browser preserves the invariant.
LEMMA NextStep ==
  ASSUME IInv, [Next]_vars
  PROVE  IInv'
  <1>1. ASSUME NEW a \in Alerts, Project(a) \/ AcknowledgedElsewhere(a) PROVE IInv'
    BY <1>1, WriterStep
  <1>2. ASSUME NEW a \in Alerts, NEW answered \in BOOLEAN, Acknowledge(a, answered) PROVE IInv'
    BY <1>2, AcknowledgeStep
  <1>3. CASE Expire \/ IssueTicket \/ TicketExpires \/ Refused
    BY <1>3, QuietStep
  <1>4. CASE Open
    BY <1>4, OpenStep
  <1>5. CASE Disconnect
    BY <1>5, DisconnectStep
  <1>6. CASE Reload
    BY <1>6, ReloadStep
  <1>7. CASE SubscribeCurrent
    BY <1>7, SubscribeCurrentStep
  <1>8. CASE SubscribeList
    BY <1>8, SubscribeListStep
  <1>9. CASE ReplayFloor
    BY <1>9, ReplayFloorStep
  <1>10. CASE ReplayRows
    BY <1>10, ReplayRowsStep
  <1>11. CASE ReceiveSnapshot
    BY <1>11, ReceiveSnapshotStep
  <1>12. CASE ReceiveEvent
    BY <1>12, ReceiveEventStep
  <1>13. CASE ReceiveGap
    BY <1>13, ReceiveGapStep
  <1>14. ASSUME NEW s \in Slots, RestRead(s) PROVE IInv'
    BY <1>14, RestReadStep
  <1>15. ASSUME NEW s \in Slots, RestArrives(s) PROVE IInv'
    BY <1>15, RestArrivesStep
  <1>16. ASSUME NEW s \in Slots, RestFails(s) PROVE IInv'
    BY <1>16, RestFailsStep
  <1>17. CASE UNCHANGED vars
    <2>1. /\ UNCHANGED <<alert, log, expired, ackKeys, spc, last, seen, channel>>
          /\ UNCHANGED <<conn, ticket, stored, list, rest, missed, faults>>
      BY <1>17 DEF vars, database, server, client
    <2>2. Grown
      BY <2>1, NotGrown DEF IInv
    <2>3. TypeOK'
      BY <2>1 DEF IInv, TypeOK
    <2>4. Announced' /\ AcknowledgedOnce'
      BY <2>1, DatabaseKept
    <2>5. Connected' /\ ResumeAccepted' /\ HandledOnce' /\ Messages'
      BY <2>1, <2>2, StreamKept
    <2>6. Answers' /\ ScreenFollowsStream'
      BY <2>1, <2>2, AnswersKept, ScreenKept
    <2> QED
      BY <2>3, <2>4, <2>5, <2>6 DEF IInv
  <1> QED
    BY <1>1, <1>2, <1>3, <1>4, <1>5, <1>6, <1>7, <1>8, <1>9, <1>10, <1>11, <1>12, <1>13,
       <1>14, <1>15, <1>16, <1>17 DEF Next

\* Whatever the writers, the server, the network and the page do, table, log,
\* connection, REST reads and screen fit together.
THEOREM Invariance == Spec => []IInv
  <1>1. Init => IInv
    BY InitIInv
  <1>2. IInv /\ [Next]_vars => IInv'
    BY NextStep
  <1> QED
    BY <1>1, <1>2, PTL DEF Spec

\* Every variable has its type.
THEOREM TypeCorrect == Spec => []TypeOK
  <1>1. IInv => TypeOK
    BY DEF IInv
  <1> QED
    BY <1>1, Invariance, PTL

\* The number a page keeps in sessionStorage is never ahead of the stream, so
\* that Replay never refuses the resume with it.
THEOREM ResumeIsAccepted == Spec => []ResumeAccepted
  <1>1. IInv => ResumeAccepted
    BY DEF IInv
  <1> QED
    BY <1>1, Invariance, PTL

\* handleMessage, which compares numbers with nothing, is given every message of
\* a connection once and in order.
THEOREM EachHandledOnce == Spec => []HandledOnce
  <1>1. IInv => HandledOnce
    BY DEF IInv
  <1> QED
    BY <1>1, Invariance, PTL

\* The queue on screen is not behind any message the page has stored the number
\* of, apart from those it may lack by design.
THEOREM ScreenIsCurrent == Spec => []ScreenFollowsStream
  <1>1. IInv => ScreenFollowsStream
    BY DEF IInv
  <1> QED
    BY <1>1, Invariance, PTL

\* The log of a site announces an alert once and acknowledges it once, in this
\* order, however often Acknowledge is repeated and by whom.
THEOREM AcknowledgedJustOnce == Spec => []AcknowledgedOnce
  <1>1. IInv => AcknowledgedOnce
    BY DEF IInv
  <1> QED
    BY <1>1, Invariance, PTL

\* The number in sessionStorage never goes back, over reconnections and reloads
\* and gaps, although handleMessage and the page's REST reads check nothing.
THEOREM NumberNeverFalls == Spec => [][stored' # stored => stored < stored']_vars
  <1>1. ASSUME IInv, channel # << >> PROVE stored < channel[1].seq /\ Head(channel) = channel[1]
    <2>1. channel \in Seq(Envelopes) /\ DOMAIN channel = 1 .. Len(channel) /\ 1 \in 1 .. Len(channel)
      BY <1>1, Parts, EmptySeq, LenProperties DEF IInv, TypeOK
    <2> QED
      BY <1>1, <2>1, HeadTailProperties DEF IInv, HandledOnce
  <1>2. ASSUME IInv, Next, stored' # stored
        PROVE  stored < stored'
    <2>1. ReceiveSnapshot \/ ReceiveEvent \/ ReceiveGap
      BY <1>2 DEF Next, Project, AcknowledgedElsewhere, Acknowledge, Expire, IssueTicket, TicketExpires,
                  Refused, Open, Disconnect, Reload, SubscribeCurrent, SubscribeList, ReplayFloor,
                  ReplayRows, RestRead, RestArrives, RestFails, client
    <2>2. channel # << >> /\ stored' = Head(channel).seq
      BY <2>1 DEF ReceiveSnapshot, ReceiveEvent, ReceiveGap
    <2> QED
      BY <1>1, <1>2, <2>2
  <1>3. IInv /\ [Next]_vars => [stored' # stored => stored < stored']_vars
    BY <1>2
  <1> QED
    BY <1>3, Invariance, PTL DEF Spec
================================================================================
