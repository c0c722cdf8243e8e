# SyncamAI: TLA+ models and proofs

SyncamAI is a video-analytics platform: edge agents watch cameras and queue
events for human review, a control plane in Go over Postgres turns events into
alerts and distributes configuration and privacy masks, and a web client shows
the alerts.  This directory models the parts in which several actors share
state, checks the models with TLC and proves the most important properties with
TLAPS.  `PROJECT.json` lists components, runs, theorems, hazards and findings,
and maps every definition to the source lines it stands for.

## The parts of the system and their modules

| part | source | module |
| --- | --- | --- |
| event ingestion, transactional outbox, alert projection | `backend/internal/{eventing,outbox,alerting}`, `cmd/outbox-worker` | `AlertPipeline`; abstract: `AlertDelivery` |
| user lifecycle requests and their delivery to the identity provider | `backend/internal/usermanagement`, `cmd/lifecycle-delivery-worker` | `LifecycleDelivery` |
| realtime log, tickets, WebSocket stream, acknowledgement, web client | `backend/internal/{realtime,alerting}`, `httpapi/realtime.go`, `frontend/apps/web/src/{alert-client,use-alert-feed,alert-contracts}.ts` | `AlertStream` |
| durable spool and review-event delivery of the edge agent | `edge/internal/agent/{spool,event_delivery}.go` | `EdgeSpool` |
| registries of sites, cameras, zones and edge devices, idempotency keys, audit chain | `backend/internal/{tenant,device,zones,audit}`, `httpapi/{server,cameras,zones,device_enrollment}.go` | `RegistryStore`; abstract: `Registry` |
| zones, configuration revisions, device enrolment, configuration synchronizer | `backend/internal/{zones,configdelivery,device}`, `edge/internal/agent/{configuration,heartbeat,runtime}.go` | `ConfigurationDelivery` |
| two-person approval, release and activation of privacy masks | `backend/internal/privacymasks`, `edge/internal/agent/privacy_mask_*.go` | `PrivacyMaskRelease`; abstract: `MaskLedger` |
| supervision of a camera's FFmpeg process, mask boundary, frame sampling | `edge/internal/agent/{rtsp,privacy_mask_frame,frame_sampling,runtime}.go` | `CameraIngest` |

Conventions common to all modules:

* A Postgres transaction is one step.  It is several where it reads without a
  lock what it later relies on (a push and its listing, `Replay`, the pulls and
  the reports of a device, `Approve` between lock and commit, `Disable`), and
  where its locks are what the properties are about (every transaction of
  `RegistryStore`).
* A call across processes may be answered, fail, or take effect without its
  answer arriving.  A client that stops waiting leaves its request in `late`,
  where the server may still run it, in any order, or never does.
* Expiry of leases, tickets, claims and messages needs no clock: it may happen
  at any time.  This allows more behaviours than the code's durations do.
* Faults (crashes, restarts, timeouts, failing transactions) are counted in
  `faults` and bounded by `MaxFaults`; "when faults cease" in a liveness
  property is this bound.
* Payloads, hashes, signatures and geometry are abstract: an event is its id,
  a snapshot of zones is its version, evidence is what the device makes of it.
* `X_Y` before a definition `X` is a faulty variant of `X`, used to see that
  the properties can fail.

### AlertPipeline and AlertDelivery

`events`, `outbox`, `receipts`, `alerts`, `feed` and `audit` are the tables;
`pc`, `batch`, `cur` and `ok` the state of each dispatcher.  `Ingest` stores an
event and its outbox row in one step, which the lock and the unique constraint
of its dedupe key and the primary key of its id justify; `Claim` leases the
oldest rows, skipping the ones another transaction has locked; `Publish`
projects the alert; `Mark` retires or releases the row if the lease is still
its own.  `AlertDelivery` is the promise: an accepted event is announced, once,
to its own site.  `DeliverySafe` and `DeliveryFair` say that the pipeline
implements it.

### LifecycleDelivery

`Invite` and `Disable` queue requests; `Disable` counts the active super admins
under an advisory lock and suspends in the same transaction.  The workers claim
under a lease, call the provider, which may answer, refuse or stay unclear, and
record the outcome; a status longer than its column is refused by the database,
as in the source.  `ambiguous` holds the requests to which an answer was
unclear: for them delivery is not promised.

### AlertStream

One site, one browser.  `log` is the realtime log, of which a prefix has
expired; `alert` the projected queue; `channel` the frames under way; `stored`
and `list` what the client has persisted and shows.  The snapshot's number
and its rows, and the two statements of `Replay`, are separate steps: a message
that expires between them is in neither, so the client passes over it without a
gap.  `missed` collects such positions, and those an older REST answer hides.
Lists and replays are cut off at their limit, so a client may need several
replays to reach the end of the stream.

### EdgeSpool

`disk` is the directory; `entries` and `bytes` are the process's memory of it.
A crash keeps only the directory; `Recover` rebuilds the rest and brings the
directory back within the quota.  `unremoved` tells whether the last
`enforceQuota` could not remove its victim: only then may the directory exceed
the quota between two operations.
`DeliverNext` is split around the send and around `Ack`.

### ConfigurationDelivery

The version of the site's zones, the pushes under way, the log of revisions,
one device's claim and certificate, its stored status, and the agent: its file,
the revision it remembers and its two synchronizing loops.  `cert` changes by
the certificate authority, which is external; it is the only definition that is.
A pull, and the hint in the answer to a heartbeat, are two statements each: the
certificate is looked at in the first and the revision read in the second.
`slipped` counts the revisions applied after the revocation of the certificate.

### RegistryStore and Registry

The requests of one tenant, served concurrently: `createSite`, `createCamera`,
`createZone`, `issueDeviceClaim`, `updateCamera`, `updateZone`, `retireCamera`
and `activateDevice`.  `rows`, `keys` and `chain` are the committed tables;
`pc`, `locks` and `work` what each transaction has reached, holds and has read
or written.  A creation takes the advisory lock of its key (`LookUp`), inserts
(and waits for a concurrent insert of the same name), appends to the audit chain
under the lock of the chain, and commits; an edit reads its row `FOR UPDATE`.
Advisory locks are named by tenant and text, so a key spelled like the date is
also the lock of that day's chain, and two creations can wait for each other:
`Deadlocked` is the case that Postgres then breaks.  A zone may name a camera:
its insert waits for a transaction that holds the camera's row, keeps others
from that row until it ends, and fails if there is no such camera (`Dangling`),
which the handler answers like an unavailable database.  A transaction may be
broken off at any point, and the answer to a commit may be lost.

`Registry` is what the memory repositories do under a mutex: one call, one step.
`KeepsPromise` says that `RegistryStore` implements it, with the same rows,
calls and answers.

### PrivacyMaskRelease and MaskLedger

The ledger (`requester`, `approvals`, `approved`, `open` for approval
transactions that hold the row lock), the manifests, and one device: the
version its gate has accepted, the adapter's, and the hardware's.  A restart
empties the first two.  Evidence that the authorizer lets through and the gate
does not (another harness key, another device) is "untrusted".  `MaskLedger` is the memory repository of the ledger, in
which an approval is one step; `LedgerIsAtomic` says that the transactions
implement it.

### CameraIngest

`pc`, `attempt` and `status` are `RTSPIngest.Run`; `seq` and `observed` number
and time the frames; `sampler` is what `AnalyticsFrameSampler` remembers;
`active` the release in the hardware adapter, changed by the release worker.
The check of the release and the sampling of the frame are two steps.  The
sink is either: `cmd/edge-agent` configures none at present, and the chain is
what `NewRTSPIngest` accepts instead.  Times are ticks, so that the rate limit
and the nanosecond by which a frame is pushed past its predecessor can be told
apart; the clock may move either way at any time.  The attempt count saturates
at its bound, which lets retries go on for ever in a finite state space.

## Runs

| run | module | shows |
| --- | --- | --- |
| `pipeline` | AlertPipeline | no alert is lost or announced twice, leases fence, the abstract delivery is implemented, also its liveness |
| `lifecycle` | LifecycleDelivery | a super admin remains, revocations are queued, an invitation is delivered unless an answer to it was unclear, and sent twice only after a fault |
| `lifecycle_hold` | LifecycleDelivery | *violated*: an unclear answer is not held (see findings) |
| `stream` | AlertStream | the screen follows the stream, a stored number can always be resumed from, messages are handled once and in order, one announcement per acknowledgement, a reconnecting client reaches the end of the stream |
| `spool` | EdgeSpool | queued events survive until accepted; index and directory agree, and the quota holds across crashes; restarts succeed |
| `spool_review` | EdgeSpool | *violated*: evidence displaces a queued review event |
| `configuration` | ConfigurationDelivery | the file never goes back, the status never overstates, only authorized devices receive and a revoked one at most what a pull under way brings, revisions arrive |
| `configuration_order` | ConfigurationDelivery | *violated*: a later revision can carry older zones |
| `registry` | MCRegistryStore | concurrent transactions behave like one call after another, a key creates once while it is remembered, the audit chain tells the history of every row, nothing fails without a fault, a deadlock or a camera that is not there, every request is answered |
| `mask` | PrivacyMaskRelease | two-person rule, exact approvals, the ledger is atomic, truthful acceptance, releases take effect |
| `mask_unreported` | PrivacyMaskRelease | *violated*: a failed verification is never reported |
| `camera` | CameraIngest | frames stay in order, a replaced mask lets nothing more through, the ingest retries until cancelled and then returns |

The runs that are expected to be violated state what a document or a comment of
the repository says; `findings` in `PROJECT.json` quotes the line and names the
code that behaves otherwise.

### Bounds

Two workers, two events, two sites are enough for every race of the pipeline:
each of its steps touches one row and at most one other worker.  A batch of two
lets a worker fail or lose its lease in the middle of a batch.  Two faults
allow a crash followed by another failure of the recovery.  The spool has two
events of each kind, one of them big, so that an eviction may need one victim
or several.  The stream keeps two messages, and lists and replays one at a time,
so that a prefix expires while a client holds the middle and a replay leaves
something for the next.  The registry serves two requests at a time and four in
all: two that race, after one that made the site and one that made the row, or
a repetition of each; three keys, one of them spelled like the date; one fault,
and one row whose key is forgotten.  The configuration has two pushes, and
two revisions, so that one overtakes the other; one edit distinguishes them.
Four administrators are the requester, two approvers and a third approver who
must be refused.  Two release versions give an order, and one may block the
other.  Four frames, four ticks and an interval of two let a frame be sampled,
suppressed by rate, suppressed as a duplicate and sampled again, with the clock
set back anywhere between.  Runs without a deadlock check are those whose system comes to rest:
the bounds on events, puts or faults are used up and nothing is under way.

### Fairness

Weak fairness of the steps a process takes by itself: the loops of
`cmd/outbox-worker` and `cmd/lifecycle-delivery-worker` poll for ever, the
synchronizer's poll loop and the mask supervisor retry for ever, the web client
reconnects with a capped delay, and each database or file operation ends.  The
camera's goroutine runs, and a cancelled context kills its FFmpeg process; a
process that is not cancelled need not end.
Postgres runs some statement of the registry's transactions as long as not all
of them wait, and breaks a deadlock.
Leases expire by the clock.  Faults, users, administrators and the certificate
authority are never assumed to act.

## Proofs

Each theorem holds for every value of the constants that satisfies the
module's named assumptions, and the number of faults is arbitrary.  Type
correctness is a theorem of each of the eight detailed modules.  Every safety
property a passing run checks, invariant, action property or refinement, is
also a theorem.

`AlertPipelineProofs`.  The inductive invariant joins: ids and dedupe keys name
one event; a row is retired only if the event has its receipt; receipt, alert
and audit entry exist together and the feed has one entry per receipt, at the
event's site; a worker about to mark a row as published has seen its receipt.
The last part is what the safety property lacks: between `Publish` and `Mark`
the row is in the worker's hands only.  From it follow `PublishedIsProjected`,
`AnnouncedOnce`, `LeaseFencing` and, with the mapping of announced events to
the feed, that every step is a step of `AlertDelivery` or a stutter.

`LifecycleDeliveryProofs`.  `Reading` says that what the one open disablement
has read still holds when it writes, so a super admin remains and suspension and
intent go together.  `ResendNeedsFault` is not inductive: nothing in it says how
many invitations may still go out.  `Budget` does.  It charges a request with
the invitations sent, the workers that hold it without a success yet, and one
more while its row can be claimed without a further fault, and bounds the sum by
one plus the faults.  A claim trades the last for a holder, a success a holder
for an invitation, a failed outcome a holder for an open row; whatever else
opens a row is a fault.  The number of workers and the batch size are arbitrary.

`AlertStreamProofs`.  `ScreenFollowsStream` speaks of the list on screen only,
and is not inductive: a snapshot or a REST answer may replace that list long
after it was read.  `Messages` and `Answers` therefore say the same of every
queue under way: read when the log had `at` messages, it is not behind any of
them, unless the query had no room for the alert (`Reflects`).  A queue read now
has this property (`Fresh`), because the table is never behind the log
(`Announced`) and the query leaves an alert out only when it returns exactly as
many as its limit; this is a count over all alerts (`FullQueue`), made
without induction from the least position past the limit.  The log
only grows, so the property stays.  An event is upserted without looking at what
is there; that it takes nothing back rests on `AcknowledgedOnce`, since no
earlier message says more about the alert.  `HandledOnce` and `ResumeAccepted`
need `Connected`: the number the server works from is at least the one the page
has stored, and nothing is under way before the subscription's snapshot.  From
`HandledOnce` follows that the stored number never goes back.  The numbers
of alerts, REST reads in flight and faults, the limits and the window are
arbitrary.

`EdgeSpoolProofs`.  The index equals the directory while the agent runs, and a
record is written only under an id the index lacks, so no id has two files.  The
byte counter follows the directory file by file.  Every record fits the quota by
itself, so `enforceQuota` always finds a victim other than the record it
protects (`EvictionProceeds`): it ends within the quota unless a removal fails,
and a restart ends with it.  An acknowledged id has been accepted.

`ConfigurationDeliveryProofs`.  `FileNeverRegresses` needs to know that nobody
replaces the file between a pull and its apply (`Mutex`) and that what was
pulled is at least the file's revision (`Advancing`), which holds after a
restart too, since the newest revision is pulled.  A status that says "applied"
was true when it was made; the file only advances, so it stays true in the
agent's hand, in a late request and in the row (`AllTruthful`).  A pull past its
check was made by an enrolled device whose certificate had been activated, and
nothing has slipped yet (`AllEntitled`); since `Mutex` leaves one pull under
way, at most one revision slips.

`RegistryStoreProofs`.  The invariant says what each
transaction knows by where it stands: a creation past `LookUp`, that no row
remembers its key; one that has inserted, that the name is free; an edit, that
its row is as it was read; one about to commit, that the head of the chain it
read is still the head.  It rests on `Exclusive`: no two transactions hold one
lock.  With it every answer without a change is a refusal or a replay of
`Registry`, every commit its creation or edit, and every other step silent.

`PrivacyMaskReleaseProofs`.  `Locking` says that what an approval transaction
has read is what is stored, as its lock excludes the others; so the second
approval, and only it, approves (`Ledger`), and a commit is an approval of
`MaskLedger`.  `Provenance` follows a version from approved request to manifest
to device.  `AllTruthful` is as above.

`CameraIngestProofs`.  `Ordering` says that the frame in hand is newer than what
the sampler remembers, whatever the clock did; `Superseding` that what passed
the release check was read before the release was replaced.

Only model-checked: the liveness properties, since the prover does not treat
fairness and ENABLED.  They are `AckedIsPublished` and `DeliveryFair` of the
pipeline, `InvitationDelivered`, `CatchesUp` of the stream, `EventuallyAccepted`
of the spool, `ReachesDevice`, `ReleaseTakesEffect`, `Supervised` of the camera
and `Answered` of the registry.

## Not modelled

`components` in `PROJECT.json` gives the reason for each part.  In short: pure
decisions on one value (authorization, geometry, signatures, model and dataset
registries), presentation, one-off administration, and numerical inference.
Within the modelled parts: field validation, listings, logging and metrics, and
tenants (each module is one tenant).  Of the heartbeat only the synchronization
it triggers is modelled; what it records is one upsert of one device's sample.

Behaviours met while modelling that no document settles, and that no property
therefore states: a REST answer can replace a list to which newer events were
applied, until the next one (`use-alert-feed.ts`); a message that expires
between the two statements of `Replay` is passed over in silence; a lost report
of an applied revision is not repeated until the next revision or restart
(`configuration.go`); an expired claim leaves its serial number taken
(`postgres_enrollment.go`); the sampler remembers a picture the analytics then
fail on (`frame_sampling.go`); a pull whose check passed before a revocation
can bring the device a revision published after it, and a late report can
overwrite a newer one (`000010_configuration_delivery.sql`, and the report of
`000015_privacy_mask_release_transport.sql`); both report functions name, as the
target of `ON CONFLICT`, columns that are also their output parameters, which
Postgres may refuse as ambiguous, so that a status may never be stored; a zone
for an unknown camera is answered 503 (`zones.go`); the lifecycle worker does not
look at its lease again before it calls the provider, so that a slow batch sends
what another worker has claimed (`delivery.go`); an item of another site at the head of the spool
is never removed (`event_delivery.go`).

## Further work

1. Track ingestion and the zone rules of the AI services (entry, dwell,
   cooldown, lost tracks), with the review rules as instances.
2. The edge runtime as a whole: several cameras, its loops and its shutdown.
3. Composition of `EdgeSpool` with `AlertPipeline`, once the agent has a sender
   for its review events; today the sender is injected by tests only.
