# Verification of the IF backend

TLA+ modules, TLC configurations and TLAPS proofs for the backend in `src/` (NestJS
over MongoDB). All paths below are relative to `src/src/` unless they start with
`test/`.

| Module | Models | Run | Proofs |
|---|---|---|---|
| `OutboxRelay` | `platform/events`: the transactional outbox and the drains that deliver it | `outbox_overlap`, `outbox_served`, `outbox_solo`, `outbox_once`, `outbox_all_published` | `OutboxRelayProofs` |
| `MissionLifecycle` | `modules/flight-ops` with `platform/idempotency` and `platform/database` | `mission_flight`, `mission_locked` | `MissionLifecycleProofs` |
| `EventDelivery` | what the outbox promises: the abstract specification that `OutboxRelay` implements | `outbox_solo` | `OutboxRelayProofs` |
| `SessionRotation` | `platform/sessions`, the user of `platform/identity`, the active organization of `modules/organizations` | `session_rotation` | `SessionRotationProofs` |
| `RoleGrants` | `platform/access-control`, the access roles of projects, the superadmin script | `access_tokens` | `AccessTokensProofs` |
| `AccessTokens` | service accounts of `modules/integrations`, technical sessions and fingerprints of `platform/sessions`, over `RoleGrants` | `access_tokens` | `AccessTokensProofs` |
| `SprintBoard` | `modules/projects`: sprints, their boards, the backlog | `sprint_board` | `SprintBoardProofs` |
| `DocumentImport`, `DocumentPages` | `modules/projects`: pages, their history, imports, context snapshots | `project_plan` | `DocumentPagesProofs` |
| `RoadmapImport`, `RoadmapVersions` | `modules/projects`: roadmap, its versions, the import of the backlog | `project_plan`, `plan_importable` | `RoadmapVersionsProofs` |
| `ProjectTeam` | `modules/projects`: memberships | `project_plan` | `ProjectPlanProofs` |
| `ProjectPlan` | composes documents, roadmap and team with the readiness of the project | `project_plan`, `plan_importable` | `ProjectPlanProofs` |

`MC<module>.tla` instantiates a module for TLC. To repeat the checks, in this directory:

    tlc -workers 2 -config outbox_overlap.cfg MCOutboxRelay
    tlapm OutboxRelayProofs.tla

## 1. Inventory

The backend is one NestJS process, run in several copies over one MongoDB replica set.
Every use case is an HTTP request; the only thing the process does by itself is draining
the outbox (`setInterval`, each second). Components interact in four ways: direct calls
in one transaction (`TransactionManagerService.runInTransaction`, snapshot isolation,
retried by the driver on a write conflict), reads made outside the transaction, events
appended to the outbox inside a transaction and handled later by a drain, and
database indices (unique event ids, unique idempotency keys, expiry).

| Component | State | Operations | What is hard | What makes it correct |
|---|---|---|---|---|
| `platform/events` | event documents with a `deliveries` array per consumer | append; `drainOnce`: find, reconcile, claim, handle, mark, refresh | drains overlap (in a process and between processes); each database call is a step of its own; leases, crashes, releases that add and remove handlers | nothing is reported PUBLISHED that was not handled; attempts and leases are honoured; every consumer is served or given up |
| `modules/flight-ops` | mission, media assets | create, assign, accept, reject, start, upload, complete, review-close, cancel, fail | commands race in their snapshots; media files live in a store that no transaction covers; compensation | one ending per mission, told once; the mission is flown by the pilot who accepted it; media by that pilot, one asset per file, no asset without its file |
| `platform/idempotency` | records keyed by operation, actor, organization and client key; removed after 24 h | begin, complete | a resend before, during and after the first attempt, and after the record is gone | an operation is applied once |
| `platform/database` | none | `runInTransaction` | snapshots, write conflicts, retries | modelled in each component |
| `platform/sessions` | session documents | register, login, refresh, logout, logout-all, revoke, validate; technical sessions | checks read before the transaction; user and session read in two calls; refresh against refresh, logout-all, activation | one live session per login; nothing survives a logout-all; nothing unusable is accepted |
| `platform/identity` | users: `sessionVersion`, `authorizationVersion` | register, authenticate, bump versions | versions read outside the transactions that use them | see sessions and access control |
| `platform/access-control` | roles, grants, memberships, authorization versions | assign permissions and roles, reconcile at start, compute a fingerprint | a token carries a fingerprint of what was granted; two processes reconcile at once without a transaction | a change of grants outdates every token it concerns |
| `modules/integrations` | service accounts and credentials; mirrors of the connectors of another service | create, rotate, exchange a credential for a token; list and act on connectors | credential checked and account read in two calls; calls to the connectors service fail or time out | a rotated credential gives no token; a mirror agrees with the last answer |
| `modules/image-ops` | media batches, samples | ingest, create and approve samples; handler of completed missions | event delivered more than once; approvals race; event ids that do not depend on the request | a completed mission has one batch; an approval is decided once |
| `modules/deliverables`, `modules/finance`, `modules/sales` | deliverables, invoice requests, opportunities | create, approve, convert | repeated and concurrent approvals and conversions | an approval or conversion happens once, by one actor |
| `modules/projects`: sprints, backlog | sprints, items with status, column and order | plan, start, move, finish, cancel, release, update | start against start (a unique index decides); moves against completion (write skew); positions in columns; an item released twice | one active sprint; an item is in one open sprint; columns are numbered without gaps |
| `modules/projects`: roadmaps | versions of a roadmap | import, activate, archive | two activations in their snapshots | one active version |
| `modules/projects`: documents | pages, revisions, imports, context snapshots | create, update, reorder, import | an import replaces pages that are being edited | the tree of pages stays a tree |
| `modules/projects`: team, updates, foundation, activity | plain documents and read models | create, update, list | little | - |
| `modules/crm`, `modules/organizations` | plain documents | create, list, activate | the switch of the active organization (in sessions) | - |
| `platform/notifications` | notifications | `createOnce` by the event handler | event delivered more than once | one notification per event and user |
| `platform/audit`, `platform/realtime`, `platform/auth-http`, `config`, `health`, `http`, scripts | append-only log, in-memory stream, none | - | - | - |

The hazards of this code, each at its line, are listed in `PROJECT.json` with the
properties that cover them, or the reason why none does.

## 2. Plan

In the order of importance. Built: the outbox and its relay, missions, sessions, sprints,
documents, roadmaps, teams and their composition, access control with the tokens that
depend on it, and the abstract specification of event delivery. What is left:

1. Proofs. Every safety property the runs check is proved, and so is the step simulation
   of `EventDelivery`. Worth proving besides: that a promise of the outbox survives the
   overlap of drains in a weaker form (an event is settled as delivered only after its
   consumers, though it may be reopened), abstract specifications of a mission and of a
   login as the commands and requests see them, and what the validations of imported
   documents and plans guarantee to the operations that rely on them.
2. Handlers per process in `OutboxRelay`, for releases that overlap.
3. The chain behind a completed mission (`modules/image-ops`, notifications) as consumers
   of `EventDelivery`: their effects are single though they run more than once.

Liveness stays with TLC. Modules are written to be proved about: sizes and tables are
CONSTANTS with named, weak assumptions; one action per operation; invariants are
conjunctions of named parts; no module of this project declares a RECURSIVE operator.

## 3. The modules and the code

### OutboxRelay

State: `status` and `deliveries` are the event documents; `registered` the handlers of
the running release; `pc` and `local` are what a running `drainOnce` has reached and
holds in memory (the event it found, its `now`, the handlers it found missing, the
delivery it selected, the attempts it knows, the aggregate it computed); `effects`
counts completed runs of a handler.

Every database call of a drain is an action, because other drains run between any two:
`Find` (findDueOutboxEvent and the decisions up to the next call), `DeadLetterEvent`,
`Reconcile` and `Reread` (the `$push` of missing deliveries and the read that follows),
`Claim`, `HandlerCompletes` / `HandlerThrows`, `MarkPublished` and its failure,
`MarkFailed`, `MarkRemoved`, `RefreshRead` and `RefreshWrite`. Around them `AppendEvent`,
`Deploy` (a release with other handlers), `Tick`, `Crash`. The handler's own work is
external; what matters of it is that it completes, perhaps more than once, or throws.

`Deploy` replaces all processes: the drains of the former release have ended or crashed.
A rolling deployment, in which drains of two releases overlap, is outside the model;
`PublishedMeansHandled` is not claimed for it, because the drain of the former release
does not know the consumers the new one adds.

A `$` update acts on the first array entry that its filter matches, which matters because
two drains may have pushed a consumer twice: `Claimed`, `Published` and `Failed` are
written so. Dates are ages that grow in `Tick` and saturate where no comparison of the
code tells them apart, so that time needs no bound. Whether `$set: {f: undefined}` clears
a field or leaves it depends on the options of the driver; `ClearsUndefined` covers both
(the runs take the driver's default, the proofs are for either).

`EventDelivery` says what an appended event may expect: it stays open until it is settled,
it is settled once, its handlers run while it is open and never after, and it is settled
as delivered only when each expected consumer has handled it. The mapping is `OutcomeOf`
(the status of the document, closed statuses apart) and the consumers with an effect. It
holds for one drain at a time, with crashes, stalls and deployments between drains:
overlapping drains write over a closed status, as `outbox_all_published` shows, and may
run a handler after the event was published.

### MissionLifecycle

State: `mission`, `media` (file -> asset), `records` (idempotency), `events` (ids of the
events appended), `storage` (the external store), `txn` (what each running transaction
saw, whether the mission was committed meanwhile, which file it stored).

`Begin` takes the snapshot and claims the idempotency key; one action per command decides
on the snapshot and commits; it is disabled if the mission it writes was committed
meanwhile. A write conflict, a refused permission, a failed precondition and the death of
the process are `Abort`; the driver's retry is `Abort` followed by `Begin`. An upload has
two steps, `StoreMedia` (the file is put into the store, inside the transaction's life)
and `PersistMedia` (inserts, commit), or `PersistFails` (the compensation, which deletes
the file and may itself fail). `ExpireRecord` is the 24 h expiry.
Eligibility of a pilot is read outside the transaction and is an external verdict.

### SessionRotation

State: `sessions` and `version` (the user's `sessionVersion`), `expired`, and `req`, what
each request in progress has read. Two parts are history: a session's `line` is itself and
the sessions it replaces, back to the login; `ended` is what existed when a completed
logout-all began.

A login reads the user outside its transaction (`Login`) and inserts (`CreateSession`).
A refresh reads the session (`Refresh`) and the user (`CheckUser`) outside its
transaction; in it, a conditional update marks the session ROTATED (`Rotate`), the user
is read again outside (`ReadUser`), and the commit links and inserts the replacement
(`Replace`). Between `Rotate` and `Replace` the document is `Locked`: any other
transaction that writes it conflicts. A logout-all opens its snapshot with the bump of the
user's version (`BeginLogoutAll`), which excludes a second one, and revokes what its
snapshot holds unless one of those sessions was committed meanwhile (`CommitLogoutAll`).
A validation reads the session, then the user (`Validate`, `Accept`).

A token names its session and carries its version for life, so tokens are not modelled
apart. Nothing in the code suspends a user, so the checks of ACTIVE are constant. The
fields for authorization (version, fingerprint), the operation that rewrites only them
(`reissueAccessTokenForSession`) and technical sessions are in `AccessTokens`.

A login that commits while a logout-all runs is not in its snapshot and holds the old
version: refreshing it before the logout-all commits can give a replacement with the new
version. It is as if the login had come after; `LogoutAllEnds` speaks of the sessions that
existed when the logout-all began.

### RoleGrants and AccessTokens

State of `RoleGrants`: `catalog` (active permissions), `role` (version and permissions),
`assigned` (per principal, pairs of role and scope), `principal` (session and
authorization versions), `project` (access roles), `policy` (version of the GLOBAL
policy) and `start` (what a starting process has reached).

A command of an administrator is one transaction and one action: `CreateRole`,
`AssignPermissions`, `AssignRole`, `CreateProject`, `UpdateAccessRoles`,
`BootstrapSuperadmin` (the operator's script). Two that write one document conflict, and
what one reads of documents it does not write is only compared with what exists, so it
could have been changed right after it as well. The reconciliation of roles at the start
of a process has no transaction: `SeedPermissions`, `ReadRoles` (versions are read once,
for all roles), `CompareRole`, `DeletePermissions`, `InsertPermission` (in the order of
the list, one call, but not one write), `SaveRole`, `ComeUp`, and `Die` at any point.

`Can` and `Listed` are the two decisions: `can` accepts a permission from one matching
role and the project's access from another; a listing (`getProjectCollectionAccess`)
wants one role for both. So a project that can be opened need not be listed, and a legacy
project, which has no access roles, can be opened and is never listed.

`AccessTokens` adds `credential` (per service account) and `request`, what each request
for a token has read. A service account's request verifies its secret (`Verify`), reads
the account (`ReadAccount`), its assignments and the policies (`ReadAssignments`,
`ReadPolicies`, in either order), and writes the session (`Issue`); a user's token is
issued anew for a session that exists (`ReissueForUser`). `RotateCredential` is a
transaction and one action. `Accepted` is the validator, whose own reads are shown at one
instant (`SessionRotation` models them apart). `history` is what a token allowed when it
was made, and what was rotated or rewritten since.

### SprintBoard

State: `backlog` and `status` (of items and sprints), `board` (the card of an item on a
sprint's board), `txn` (the transactions that take two steps); `crossed` and `loosened`
are history.

Commands that write every document they decide on are one action (`CreateBacklogItem`,
`UpdateBacklogItem`, `ArchiveBacklogItem`, `CreateSprint`, `AddItems`, `RemoveItem`,
`CompleteSprint`, `CancelSprint`). Two decide on documents they do not write, and take two
steps: a start (`BeginStart`, `CommitStart`) looks for another active sprint, and the
unique partial index decides again at the commit; a move (`BeginMove`, `CommitMove`) reads
the sprint and the column and writes only cards. `stale` is the write conflict;
`NormalizeColumn` and `CompactColumn` give every arrangement that keeps the order of the
cards, ties either way, as the database sorts them.

### DocumentImport, DocumentPages

`DocumentImport` is the validation of what an external AI answers: the shape, the
references (a page may refer to what the document and the pages before it state), the
normalised pages and the preview token, which covers the pages and not their references.
`DocumentPages` has the pages, their version rows, tokens, imports, and context
snapshots. A client names the version it read (`Expected`), or is refused. Every
operation writes the page and one row of its history (`Save`); a snapshot reads approved
pages and their rows (`BeginSnapshot`) and commits without writing them
(`CommitSnapshot`).

### RoadmapImport, RoadmapVersions

`RoadmapImport` is the validation of a generated plan (`Acceptable`), what the schemas add
to it (`Storable`), and what the backlog asks of its candidates (`Importable`).
`RoadmapVersions` has the roadmap document, its versions, and the backlog items made of
candidates. Every operation on the roadmap writes the roadmap document and is one action;
the import of the backlog decides in its snapshot and commits later, and the unique index
of the candidates decides again.

### ProjectTeam, ProjectPlan

`ProjectTeam` has the memberships and the changes in progress: an activation looks for
another active membership of the user or address, writes its own, and the two partial
unique indexes decide. `ProjectPlan` composes documents, roadmap and team and adds
`ReadinessLevel`, which the code computes from all three. They share no document, so a
behaviour works on one area; the areas "plan" and "team" start from a page that was
approved and a snapshot of it, a state the area "documents" reaches.

## 4. What the runs check

| Run | Instance | Distinct states | Shows |
|---|---|---|---|
| `outbox_overlap` | two drains, one event, two consumers, both expected, two attempts | 1 009 k | `TypeOK`, `PublishedMeansHandled`: no silent loss whatever the drains overlap, fail or regress |
| `outbox_served` | two drains, one consumer, stalls past the lease, one crash; fairness | 131 k | a delivery is given up only after its attempts (`DeadLetterEarned`), a lease is not taken early (`LeaseRespected`), attempts are never forgotten (`AttemptsGrow`), each consumer is eventually served or given up (`EventuallyServed`) |
| `outbox_solo` | one drain, two events, a window of one, two releases, one crash; fairness | 19 k | a closed status is the truth (`ClosedAgrees`); every event closes for good, but for two named obstacles (`EventuallyClosed`); the relay implements `EventDelivery` (`ImplementsDelivery`) |
| `mission_flight` | 14 requests of three users, two transactions, two files, one expiry | 288 k | `FlownByItsPilot`, `MediaByPilot`: pilot and media stay with the one who accepted; `OneEventPerOutcome`, `OneAssetPerUpload`: retries and races apply once; `AssetsStored`: no compensation removes the file of an asset; `CompletedWithMedia`, `MediaSettles`: what a completion locks, and what may still be attached |
| `session_rotation` | three sessions, two requests at a time, two organizations, one logout-all | 392 k | `OneLivePerLogin`, `LogoutAllEnds`, `AcceptedWasUsable`, `OrganizationKept`, `RevocationStands` |
| `access_tokens` | one user, one service account, two permissions, one of them new in this release, one project, one start, three commands, one request, two rotations | 2 735 k | `GrantsAsIssued`: an accepted token means what it meant when it was made, but for the roles a start works on; `RotationEndsTokens`: no token survives the rotation of its credential, but for the one named overlap |
| `sprint_board` | two sprints, two items, two columns, two transactions, one edit, three moves | 891 k | `OneActiveSprint`, `SelectedIsHeld`, `OneOpenSprint`: selections and sprints agree; `ColumnPlaces`: when two cards may share a position; `BoardSettles`: what may still change a finished board |
| `project_plan` | two pages, five version rows, eight payloads; eight plans for each page, two roadmap versions, two imports; two memberships, two changes | 275 k | `PageHistory`, `SnapshotApproved`, `ImportClosed`, `RoadmapAgrees`, `BacklogOnce`, `OneMembership`, `ReadinessKept` |

Four runs find a disagreement between the code and what the repository says of it:

- `outbox_once` (`HandledOnce`): two drains that overlap on a new event both find its
  `deliveries` empty and both push one per handler
  (`platform/events/outbox-relay.service.ts:153`), so a handler runs twice with nothing
  going wrong; `test/concurrency.e2e-spec.ts:64` says an event is processed only once
  across two workers. The handlers are idempotent, so the effects stay single.
- `outbox_all_published` (`PublishedWhenAllAre`): the refresh of the aggregate reads and
  writes in two calls (`:275`); with two drains the older read may be written last, and
  the event stays open with all deliveries PUBLISHED, which no later drain corrects.
  `test/concurrency.e2e-spec.ts:119` expects PUBLISHED.
- `mission_locked` (`MediaLockedAfterCompletion`): an upload writes only inserts, so a
  completion does not conflict with it; a completed mission can gain an unlocked asset,
  against the message of `modules/flight-ops/flight-ops-base.operations.ts:166`.
- `plan_importable` (`ActiveRoadmapFound`): the roadmap that a read creates
  (`modules/projects/projects-legacy-defaults-access-helpers.ts:82`) names no organization;
  imported and activated it stays so, and the import of its backlog, which looks it up by
  organization, answers that an active roadmap is required
  (`modules/projects/projects-legacy-roadmap-helpers.ts:105`).

`GrantsAsIssued` and `RotationEndsTokens` name what the code leaves open, and TLC finds
each of it when it is not named. A start of a process writes the permissions of a role
before its version, and the version it writes is the one it read plus one: a change of
the role meanwhile loses its increment, and a token of the version in between is accepted
with other permissions (`platform/access-control/access-control-role-bootstrap.ts:86`). A
request whose secret was verified before a rotation and whose account was read after it
gets a token of the new version (`modules/integrations/service-account-token-issuer.ts:53`).

What modelling met besides, without a statement of the repository to hold against it:

- a reassigned READY mission keeps its status, and its new pilot can neither accept nor
  start it;
- an import of documents whose first page refers to what the second states is refused, the
  other order is accepted (`modules/projects/document-import/reference-validation.ts`);
- a roadmap may be imported and activated with candidates that lack a key, title or type,
  and its backlog can then never be imported;
- an imported plan that is sent again for a roadmap a read created is answered with a
  missing roadmap (`modules/projects/projects-legacy-roadmap-imports.ts:54`);
- the readiness speaks of an active version of the roadmap
  (`modules/projects/project-foundation.policy.ts:204`), and looks at the status only, which a client may
  set;
- an invoice that is approved can be approved again, by someone else
  (`modules/finance/finance.service.ts:197`);
- the event id of an ingestion is that of its batch: a second ingestion of a batch aborts
  on the unique event id, for ever (`modules/image-ops/image-ops.service.ts:145`).

`EventuallyClosed` names two obstacles that the code really has: `Lacking` (the release
lacks a handler the event waits for) and `Stranded` (a drain died between the last
outcome and the refresh; nothing of the event is due any more).

Each property has a mutant in `PROJECT.json`: an operator in the module, marked
"Faulty", that changes one mapped definition as a plausible mistake would (a dropped
guard, a wrong version, an early read used late); the property is violated under it.

### Bounds

- Two drains and one event with two consumers are the smallest instance in which two
  pushes, two claims and a late write meet; events do not interact except through the
  query's window, which `outbox_solo` covers with two events and a window of one.
- `MaxAttempts = 2`, `Lease = 2`, one backoff of one tick: first, retried and last
  attempt occur, and a stall shorter and longer than the lease. `MaxAge` bounds how old a
  drain's `now` is when it still decides (an older drain is indistinguishable from one
  that died), `MaxCrashes` the drains that die, `Many` the handler runs told apart.
- The mission run has two pilots who may both be assigned and, for each ending, at least
  one request; completion and review have a second one under another key. Two concurrent
  transactions are enough for every pairwise conflict, which is all that snapshot
  isolation decides on. Two files; one expired record, after which its request is resent.
- One account with two rotations has a token of each generation; tokens do not act on one
  another, so one request, at each place among the others' steps, is enough. Three
  commands are enough to change a role, the assignments and the project around one token,
  or to make a change of a role fall into a start twice. One start, because two differ
  from one and a change of a role only in the duplicate key, which ends one of them.
- Two sprints and two items: two starts, an item that both hold, a column of two cards.
  Two moves overlap and a third repairs. One edit frees an item while it is held.
- Five version rows take one page through its whole life and an edit after its archival,
  or two through creation, approval of one and its move. The payloads and plans have at least one that each check refuses, and pairs that
  differ only in what one check sees. Two importers and two managers are each other's
  only rival.
- Three sessions make a login with two refreshes, or two logins with one; two requests
  make every pair of operations overlap; one logout-all gives old and new versions.

Symmetry: drains, workers, files, sessions, sprints, items, pages and managers are interchangeable, and no run with a
liveness property uses symmetry. `CHECK_DEADLOCK FALSE` is set where the instance really
stops: the mission runs when all requests are answered and no record is left to expire,
and the session run when the session ids and the versions are used up; the access,
sprint and plan runs when commands, starts, edits, moves, rows or versions are.

## 5. Fairness

Only the relay makes promises about the future. `Fairness` is weak fairness of each
drain's step and of the clock: `setInterval` starts a drain each second and the event loop
of a live process runs it on; a drain that crashed is replaced by the next interval.
`TransientFailures` is strong fairness of `HandlerCompletes`: a handler that is run again
and again completes some time; a delivery that reaches its last attempt before that is
given up, which the property allows. Nothing obliges a use case
to append or a process to die. All else progresses by requests of
clients alone, so no liveness is claimed of it.

## 6. What is proved

TLAPS proves every safety property the runs check, and the step simulation of the
abstract specification, for every value of the constants that satisfies the modules'
assumptions: positive limits, tables over the right sets, backoffs shorter than the
lease, finite sets of consumers and items, null values outside the sets they complete
(`SizesAssumption`, `TablesAssumption`, `ConsumersAssumption`, `RequestsAssumption`,
`SessionsAssumption`, `BoardAssumption`, `GrantAssumption`, `RotationAssumption`,
`DocumentAssumption`, `RoadmapAssumption`); payloads of an import are documents with
sequences of pages (`PayloadAssumption`), and the page and the row from which the areas
"plan" and "team" start exist (`AreaAssumption`). TLC evaluates them in each run.

None of the properties is inductive. Each proof module has one invariant that is, with
the same shape of proof: the initial states satisfy it; each action preserves it, by
lemmas about what a document or a request may rely on while others move; the properties
follow from it, and a theorem of the form `Spec => []Property` combines the three.

`OutboxRelayProofs`
- `TypeCorrect`: `TypeOK`. Most of it is that rewriting a deliveries array entry by entry,
  or appending to it, gives a sequence of deliveries.
- `NoSilentLoss`: `PublishedMeansHandled`. The invariant is not inductive: a drain writes
  in one step what it concluded in an earlier one. `HandledInv` adds what each drain may
  rely on (`DrainOK`): past reconciliation the event has a delivery for every handler of
  the release; a drain about to mark a delivery ran its handler; a drain about to write
  PUBLISHED computed it from deliveries that were handled, and neither can `effects`
  shrink nor the consumers grow (`Growth`) before it writes. `Mover` and `Bystander`
  prove the two sides of a step.
- `GivenUpEarned`, `LeasesHold`, `AttemptsKept`: `DeadLetterEarned`, `LeaseRespected` and
  `AttemptsGrow`, for any number of overlapping drains. `Advances` says what one update may
  do to a deliveries array; every step of the relay does at most that (`StepAdvances`).
  `EarnedInv` adds what the attempts a drain holds stand for (`Earned`): before the claim
  one entry of the consumer has as many, after it that entry has one more, or that entry
  and the one claimed have them together (`ClaimEarns`). That the deliveries of a consumer
  may be two is why the property counts over two entries, and why it is not less.
- `PromiseKept`: with one drain at a time (`Solo`), `Spec => ImplementsDelivery`.
  `SoloInv` says that the drain works on an open event and that the aggregate it is about
  to write is still what the deliveries say; then each step maps to a step of
  `EventDelivery` or changes neither outcome nor effects (`StepRefines`).
- `ClosedIsTrue`: `ClosedAgrees`, with one drain at a time, and if no release drops the
  last handler of an event type (`HandlersStay`). The second hypothesis came from the
  proof: a release without a handler for an event an earlier release had reconciled has
  `markEventDeadLetter` (`platform/events/outbox-relay.service.ts:79`) close the event
  while its deliveries are open; TLC confirms it in eight steps. The run's releases keep a
  handler for each supported type.

`MissionLifecycleProofs`: `FlightInv` adds to the properties what a running transaction
knows of the mission (`Snapshot`: a snapshot not marked stale is the mission; a mission
seen in progress has ended or still has that pilot), which file it holds (`Holding`),
where an attached asset comes from (`Provenance`) and how events agree with the outcome
(`Told`). From it: `TypeCorrect`, `FlownByOnePilot`, `OutcomeToldOnce`, `MediaByThePilot`,
`UploadOnce`, `CompensationSafe`, `CompletionHasMedia` and the action property
`MediaSettled`.

`SessionRotationProofs`: `SessionInv` says that lines which meet are prefixes of one
another and a live session is the end of each line it is on (`Families`, `Tips`); that a
refresh which has rotated its session is alone to hold it and knows its organization
(`Holding`); that a logout-all without a conflict has in its snapshot every live session
that descends from one it found (`Ending`); that nothing live descends from what a
completed logout-all found (`Ended`); and that versions only lag (`Versions`,
`Validating`). From it: `TypeCorrect`, `OneLive`, `LogoutAllComplete`,
`AcceptanceJustified`, and the action properties `OrganizationSurvives` and
`RevocationPermanent`.

`SprintBoardProofs`: `SprintInv` adds that a sprint in planning has its cards in TO_DO
and one that does not exist has none (`Drafts`); that a start whose snapshot is not stale
found a sprint in planning with cards (`Starts`), and a move writes cards its sprint has,
which has left planning (`Moves`); that what a move writes leaves no two cards of its
column in one place unless another move was laid over it (`Fitting`); and that an item an
open sprint holds cannot be selected unless it was freed behind its back (`Engaged`). From
it: `TypeCorrect`, with the bound on positions, `OneActive`, `SelectedHeld`, `OneOpen`,
`PlacesKept`, and the action property `BoardsSettle`.

`AccessTokensProofs`: `TokenInv` says of the documents that roles draw on the catalogue, a
start works on roles and permissions that exist (`StartsSound`) and an account that exists
has one active key (`AccountsSound`). A request or a token that predates a rotation has a
session version its account has left behind, or the key it was verified with was
overtaken (`Followed`). And what a request has read is what there is as long as
the versions it read are current (`ReadsSound`): so the fingerprint it computes at the end,
if it is current, stands for the decisions of that moment, and `TokensSound` keeps it so
through every command and through every start that does not write a role of the bearer.
`Announced` is what each step grants the others: versions never go back, and what changes
without one is a role a start has in work. From it: `TypeCorrect`, `GrantsKept`,
`RotationEnds`.

`DocumentPagesProofs` and `RoadmapVersionsProofs` prove invariants of their modules, and
`ProjectPlanProofs` composes them. `DocInv` adds to `PageHistory` that an approved page
holds what its approver read (`ApprovedRead`) and that each snapshot, the one being taken
included, quotes rows which are there and approved (`Quoted`): rows are never rewritten.
`RoadmapInv` adds that the active version is among those that have been active
(`Remembered`) and that an import of the backlog in progress holds candidates which stand
under an epic and a milestone of such a version (`JobSound`), though it may have been
superseded since. `TeamInv` needs no strengthening: the two unique indexes decide at the
write. From them, for a project: `TypeCorrect`, `HistoryKept`, `SnapshotKept`,
`ImportKept`, `RoadmapKept`, `BacklogMadeOnce`, `MembershipsUnique`, and the action property
`ReadinessStays`, for which `ApprovedStays` follows one approved page through every
operation on documents.

Only model-checked: `EventuallyServed` and `EventuallyClosed` (liveness under fairness is
beyond the provers), and the four violations, which are counterexamples. What the
validations of imports compute is proved only as far as the invariants rely on it.

## 7. What is not modelled

- `modules/image-ops`, `modules/deliverables`, `modules/finance`, `modules/sales`: their
  commands each decide on the one document they write, in one transaction, so that a race
  of two is a write conflict; what repeats of them do is listed in section 4.
- The mirrors of connectors in `modules/integrations`: a cache of another service's
  answers.
- Content: texts, DTOs, formatting, password hashing, token signing, prompts, the protocol
  of the media store. No property is about them. Of imported documents and plans, lengths,
  enumerations and unknown fields are one flag (`formed`).
- `platform/notifications` (one insert per event under a unique index), `platform/audit`,
  `platform/realtime`, `platform/auth-http`, configuration and health: no state another
  component decides on.
- `modules/crm` and most of `modules/organizations`: plain documents.
- Several organizations: no operation of access control or of a project reaches from one
  organization into another.
- The composition of `AccessTokens` with `SessionRotation`: the validator needs both, and
  neither writes what the other decides on, but for the session version of a user, which
  both treat as a number that grows.
- MongoDB's isolation is assumed as documented (snapshot, first committer wins); its
  failures are seen as aborts. An expiry index is an action that may happen at any time.
