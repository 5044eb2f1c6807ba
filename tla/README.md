# Tesseract: a verification of the gateway's stateful parts

This directory holds TLA+ specifications of the Tesseract platform
(`src/`), the TLC configurations that check them on small instances, and the
theorems TLAPS proves about them for every instance. Source lines below are
those of the commit beside this directory; `G/` stands for
`src/apps/gateway/src/`.

## 1. Inventory

Tesseract runs AI workflows for organisations. Customers write on WhatsApp or
Messenger; the gateway (NestJS) collects the messages of a conversation, asks
the agents service (Python, gRPC) for an answer, charges credits for the
execution and sends the answer back. Stripe pays for the credits, a PAC stamps
the Mexican invoices. The gateway runs as several stateless instances on Cloud
Run: everything shared lives in PostgreSQL (Prisma), Redis and Cloud Tasks, so
every pair of awaits is an interleaving point.

| Component | State it keeps | Operations | Talks to | Hard behaviour | What makes it correct |
|---|---|---|---|---|---|
| Channel intake (`G/messaging/channels`, `G/platform/{webhooks,tasks}`) | Redis: inbox list, processing list per window, turn mark with a TTL; claims of webhook events; Cloud Tasks by name | webhook: claim, ignore, push, schedule; worker: defer while typing, take the turn, drain, execute, send, commit, release, retry | workflow execution, provider, Cloud Tasks | at-least-once webhooks and tasks, a lease that expires, crash between answer and commit, names used once | no message lost, none answered twice, one turn of a conversation at a time, every message settled |
| Credit ledger (`G/billing/credits`) | `credit_balances`, `credit_transactions`, the credit fields of `executions`, top-up `invoices` | canExecuteWorkflow, deductCredits, addCredits, grantPurchasedCredits | executions, Stripe webhook, admin panel, notifications | read, then an absolute write; commit whose reply is lost; check and charge far apart | the log explains the balance, one charge per execution, one credit per purchase, overage limit respected |
| Subscription billing (`G/billing/subscriptions`) | `subscriptions`, `organizations.plan`, `invoicedOverageCredits`, Stripe objects | checkout, change/cancel/resume plan, invoice and subscription webhooks, enforceLimits | Stripe, ledger, CFDI | webhook retried after a partial run, events out of order | overage billed once, credits granted once per paid invoice |
| CFDI stamping (`G/billing/invoice`) | `invoices.cfdiStatus`, error kind, attempts | stampInvoice (claim by compare-and-set), resume, nightly retry | PAC, storage | stalled attempts, late answers, nullable filter | an invoice is stamped once and in the end |
| Fiscal profile (`G/billing/fiscal-profile`) | one row per organisation | save, validate | PAC | - | CRUD |
| Analytics (`G/billing/analytics`) | none (queries) | reports | database | - | pure reads |
| Workflow execution (`G/automation/{workflows,executions,agents}`) | `executions` (status), workflow statistics, totals of the conversation | execute, executeStream, cancel, updateStatus, retries and deadline of the agents call | agents service, ledger, conversations | updates in flight together, late status writes, cancel against completion, charge after completion, a call that hangs | status, charge and statistics of a run agree in the end, and what was called ends |
| Compaction (`G/messaging/conversations`, `G/automation/workflows/compaction-window.ts`) | compaction lock with a TTL, versions of summaries | acquire, select the window, summarise, activate, release | agents service | lock released by a late owner, versions racing | every message is in a summary or in the tail |
| Conversations and human take-over (`G/messaging/conversations`) | `conversations` with one JSON `metadata`, `messages`, the human-intervention flag | find or create, take over, give back, mark, close, reopen, remove | intake, execution, the WhatsApp Business app | flag set between check and send; double creation; three writers of one JSON value | one active conversation of a customer; the bot is silent under human control |
| Post-turn actions, notifications (`G/messaging/post-turn-actions.ts`, `G/messaging/notifications`) | once-per-conversation flags in `metadata`, user notifications | run the actions of a turn, notify | intake, conversations | read then write of the flag | once means once |
| Cron triggers and jobs (`G/automation/cron-triggers`, `G/platform/scheduling`) | `workflow_cron_triggers`, and in the memory of each instance a job per active trigger | create, update, setActive, delete, onModuleInit, executeTrigger; nightly sweeps | execution | row and job change in two steps; the other instances are not told; a rejection nobody handles | the registry follows the rows, an active trigger keeps firing |
| Authentication (`G/identity/auth`, `G/identity/two-factor`) | refresh tokens, verification codes, TOTP counters, backup codes | login, Google, refresh, logoutAll, sign-up steps, verify, consume | users, mail | read-then-write of one-time data | one use per token, bounded guesses per code, who left is signed out |
| Organisations, users, API keys (`G/identity/{organizations,users,api-keys,end-users}`) | members, roles, invitations, keys, plan limits | change role, (de)activate, remove, transfer, leave, invite, resend, accept, enforceLimits, create key | billing limits | count-then-create, roles checked on rows read before | exactly one owner, limits respected |
| Datasets, LLM models, tools, media (`G/automation/{datasets,llm-models,tools,media-processing,agents}`) | rows, schemas, catalogues, tool credentials | CRUD, queries, token refresh, transcription | storage, providers, agents | - | CRUD and pure conversions |
| Booking, announcements (`G/platform/{booking,announcements}`) | bookings, read marks | book a slot, publish, read | calendar provider | slot taken twice | one booking per slot |
| Platform glue (`G/platform/{common,config,database,cloud,logging,health,utility,super-admin,api_docs}`) | none of its own | guards, filters, clients | all | - | - |
| Agents service (`src/apps/agents`) | none between requests (checkpoints are the gateway's messages) | run a graph, call tools | LLM providers, tools | - | external to the gateway's state |
| Web client (`src/apps/web-client`) | browser state | pages | gateway | - | presentation |
| Shared packages (`src/packages`, `src/scripts`) | the schema, types, plan tables, Stripe set-up | - | - | - | constants of the models |

## 2. Modules

| Module | Models | Lines of the code |
|---|---|---|
| `ChannelTurn` | one WhatsApp conversation: webhook, Redis buffer, Cloud Tasks, worker | `whatsapp-config.controller.ts`, `whatsapp-worker.controller.ts`, `channel-message-queue.service.ts`, `webhook-dedup.service.ts`, `cloud-tasks.service.ts` |
| `MessageIntake` | what the buffer promises a conversation; no code of its own | - |
| `CreditLedger` | the credits of one organisation | `credits.service.ts`, the parts of `workflows.service.ts` and `billing.service.ts` that call it |
| `CreditAccount` | what the ledger promises: each operation applied once, as a whole, to a balance it has read | - |
| `CfdiStamping` | the fiscal stamp of one invoice | `cfdi.service.ts`, `cfdi-retry.service.ts`, `recordInvoiceAndStamp` |
| `Compaction` | the running summary of one conversation | `compaction-window.ts`, `conversations.service.ts`, the compaction of `workflows.service.ts` |
| `StripeBilling` | the renewals of one subscription | `billing.service.ts`, `billing.controller.ts`, `toggleOverages` |
| `CronTriggers` | the rows of cron triggers and the job registries of several instances | `cron-triggers.service.ts` |
| `Execution` | the row of one execution from its creation to its charge | `workflows.service.ts` (`execute`, `executeStream`), `executions.service.ts` (`updateStatus`, `cancel`), `agents.service.ts` |
| `Conversation` | the conversations of one customer: turns, echoes, members, the night | `conversations.service.ts`, `post-turn-actions.ts`, the hand-over and the variables of `workflows.service.ts`, the echoes of `whatsapp-config.controller.ts` |
| `Accounts` | members, invitations and refresh tokens of one organisation | `users.service.ts`, `organizations.service.ts`, `auth.service.ts`, `verification-code.util.ts` |
| `*Proofs` | theorems about the module of that name; `ConversationProofs` also about `Compaction`, which therefore has names of its own (`CompactionInit`, `CompactionNext`, ...) | - |
| `MCChannelTurn`, `MCConversation`, `MCAccounts`, `MCStripeBilling`, `MCCreditLedger` | symmetry sets; amounts of the operations; the view of `billing` | - |

How they fit together. `ChannelTurn` refines `MessageIntake`; `CreditLedger`
refines `CreditAccount`, however operations overlap. A turn of `ChannelTurn`
runs one execution of `CreditLedger` and one turn of `Compaction`, and both see
the other modules only through a result (`Execute`, the model's answer). Inside,
that execution is `Execution` (status, charge, statistics) and `Conversation`
(whose hands, what is sent); `ChannelTurn` gives `Conversation` its one turn at a
time, and `CronTriggers` starts executions without a conversation of a customer. A
renewal of `StripeBilling` is one `addCredits` of `CreditLedger` (there taken
apart into read and commit, here one step) and ends in `CfdiStamping!Record`.
`StripeBilling!Drop` and a downgrade end in `Accounts!EnforceLimits`.
The modules are not multiplied into one state space: what crosses a boundary is
a value and never shared mutable state, with one exception,
`creditBalance.balance`, whose races are the subject of `CreditLedger`.

### Conventions

* One action is the code between two awaits that another request could
  observe: what a handler has read travels in its record until it is used.
* `Faults` names the failures an environment has and `MaxFaults` bounds how
  many happen in a behaviour. A failure named there strikes wherever its action
  allows. Kinds marked "uncounted" (of timing) may strike any number of times.
* A timestamp that the code compares with "now" is an age, saturated where the
  comparison stops to tell values apart (`ChannelTurn`), or one bit: older than
  the limit or not (`fresh`, `settled`).
* Variables marked `history` exist for the properties only.
* A definition named `X_Something` is `X` with a defect, against which the
  properties are tried; nothing refers to it.

### ChannelTurn

| Code | Model |
|---|---|
| delivery of a webhook: `claim`, ignore, push, schedule, release on failure | `Claim`, `SkipDuplicate`, `Ignore`, `Stamp`, `Buffer`, `Schedule`, and `HookFails`, `HookCrashes`; the provider repeats a delivery that is at work (`DismissRepeat`, `told`) or was answered (`Redeliver`) |
| `...:inbox:...`, `...:proc:<windowId>` | `inbox`, `proc` |
| `...:busy:...` with its TTL | `owner`, `ttl` |
| a task named `<window>-<extension>`, created at most once per name | `tasks[<<window, extension>>]` |
| worker: defer while the customer types, take the turn or wait, RENAME, execute, send, commit, release | the disjuncts of `TurnStep`, one program counter `pc` per task |
| `Date.now()` | `bucket`, `phase` and ages, moved by `Tick` |

### CreditLedger

| Code | Model |
|---|---|
| `canExecuteWorkflow` | `Check` |
| `updateStatus(COMPLETED)`, `deductCredits`: read, transaction, statistics and notification | `Complete`, `ReadForCharge`, `Charge`, `Account` |
| `addCredits` | `ReadForAdd`, `Add` |
| `handleWebhook` for a top-up, `grantPurchasedCredits` | `Claim`, `ReadForGrant`, `Grant` |
| `credit_transactions` | `log`, with the balance each row says it found and left |

### CfdiStamping

`status`, `kind`, `settled` and `fresh` are the columns of the invoice; `call[c]`
is what a webhook handler, a button or an instance's sweep is doing. `Stamp` is
the compare-and-set that claims the row, `Resume` that of a stalled claim;
`Create` is the call of the PAC, whose answer `Save` stores.

### Compaction

`locked`, `fresh` are `isCompacting`, `compactingLockedAt`; `active` is the
compaction row in force, reduced to the last message it claims to reach (`to`,
`sourceMessageToId`) and, for the properties, the messages whose text went into
it (`cov`) and those it claims to reach that were cut off because their batch was
longer than what the model is shown (`cut`). Messages are numbers in the order of
creation.

### StripeBilling

| Code | Model |
|---|---|
| `handleWebhook`: claim, run, release on an exception | `Claim`, `Handle`, `Throws` |
| `handleInvoiceCreated` | `ReadDebt`, `BillDebt`, `Snapshot` |
| `handleInvoicePaymentSucceeded` | `Reconcile`, `BillGap`, `Activate`, `Grant`, `Reset` |
| `handleInvoicePaymentFailed` | `Revoke`, `ReadSubscription`, `MarkPastDue` |
| `handleSubscriptionUpdated`, `...Deleted`: the transaction; overages in `enforceLimits`; the rest of it and the duplicates at Stripe, which may throw | `Sync`, `Drop`; `Disallow`; `CleanUp` |
| `cancelSubscription`, `resumeSubscription`, `toggleOverages` | `Cancel...`, `Resume...`, `CheckToggle`, `AllowOverages` of each of `Requests`, which overlap; `ForbidOverages` |
| Stripe | `Renew`, `Collect`, `Decline`, `End` (external) |

Of Stripe it assumes: one invoice per cycle, which stays a draft until
`invoice.created` was answered; a month between two cycles, in which the events
of the first were delivered; without `"carry"`, no new invoice over an unpaid
one. The period of grace is not timed: a run during the grace is possible and
never obligatory.

### CronTriggers

| Code | Model |
|---|---|
| `create`, `update`, `setActive`, `delete`: find the row, write it, then change the job of this instance | `Begin`; `Save` or `SaveFails`; `Apply`; for `delete` `Unschedule`, then `Delete` or `DeleteFails` |
| `SchedulerRegistry`, one per process | `jobs[i]`, as the request that wrote the expression the job runs by |
| `onModuleInit` | `StartUp` (read), `Loaded` (register) |
| the moment of a job; `executeTrigger`: read the row, stamp it, execute | `Fire`; `Reread`, `Stamp`, `Execute` |

The expression of a trigger is named by the request that wrote it (`rev`).
`Reread` and `Stamp` are outside the `try` of the code: a rejection there is handled
by nobody and ends the process (`NobodyHandles`, `Dies`). `fresh` and `unsure` record who knows the last
change and whether it was disturbed.

### Execution

| Code | Model |
|---|---|
| `execute` up to the `try` | `Start`, `Refuse`, `Hush` with `HushEnds` (blocked contact, human hands, a member), `Try` |
| the agents call: `withRetry`, deadline of a sync call, none of a stream | `Unavailable`, `Deadline`, `FallsSilent`, `Retry`, `TryFails` |
| a stream's `'error'`, after which `'end'` may come or not | `StreamErrs`, `StreamStops` |
| `Promise.all` of the status and the totals of the conversation; `'end'` of a stream | `Answer`, `Join`, `JoinFails`; `StreamEnds`, `Close`, `CloseFails` |
| `updateStatus`: row, then statistics; three calls of it may be under way (COMPLETED, FAILED, and `ERROR`, the FAILED of a stream that broke) | `upd[r][call]`, `Outcome`, `WriteRow`, `CountStats`, `UpdateFails` |
| `deductCredits`; the `catch` | `Charge`, `ChargeFails`; `Fails`, `Throw` |
| `cancel`, `remove` of the conversation | `CancelCheck`, `CancelWrite`, `DeleteConversation` |

### Conversation

`metadata` is a set of entries: the variables `ask` for an action, its flag is
`done`, a person left a `mark`. A writer replaces the whole set by what it made
of the copy it had read (`Replace`), as the code does. A turn is `Look`,
`Create`, `Ask`, `Reread` (`isConversationIntervened`), `Save`, `Persist`,
`Finish` (`requestHumanIntervention`, totals), `Send`, `Review`, `Act`, `Flag`, with
`ActFails` (nothing or a part was sent), `FlagFails` (all was, and the flag is not
written) and `TurnFails`; `Save` may find no message to save. An
echo is `EchoLook`, `EchoSeek`, `EchoCreate`, `EchoRecord`, `EchoMark`, `EchoTake`.

### Accounts

A request is a record that carries what it read (`read`, `row`, `token`), and
every await is a step:

| Code | Model |
|---|---|
| `updateRole`, `activate`, `deactivate`, `remove` | `ReadTarget`, `ReadActor`, `Write` |
| `transferOwnership`; `leaveOrganization` with `logoutAll` | `ReadOwner`, `ReadSuccessor`, `Transfer`; `AskToLeave`, `Leave`, `SignOut` |
| a smaller plan takes seats away | `EnforceLimits`, `Deactivate` |
| `inviteUser`, `resendInvitation`, `cancelInvitation` | `Count`, `Look`, `Create`, `Resend`, `CancelInvitation` |
| `checkVerificationCode`, `createUserFromInvitation` | `FindRow`, `Reserve`, `Compare`, `Accept`, `Join`, `Joined`, `Return` |
| password, Google, `refreshTokens`, `generateTokens` | `Login`, `Google`, `Found`, `FindToken`, `Rotate`, `GenerateTokens` |

A token or a row is named by the request that made it, so that the properties
can say which of two was meant.

## 3. Runs

All of them finish in less than five minutes with two workers.

| Run | Shows | Bounds, and why they are enough |
|---|---|---|
| `turn_buffer` | with hooks that fail or die, repeated deliveries, slow handlers, and failures of the turn mark, its release, the claim's release or the commit: `OneTurnAtATime`, `NoMessageLost`, `AnsweredOnce` | two messages (two windows, two concurrent turns, a message that arrives during a turn), windows of one tick extended at most to two, a lease of two ticks (shorter and longer than a turn), any two failures |
| `turn_late` | turns of any length, no other failure: `EveryMessageSettled`, and `ChannelTurn` implements `MessageIntake` | as above; without counted failures |
| `turn_crash` | an instance dies at any point of a request, scheduling, RENAME, LRANGE, workflow or provider fail: `TasksEnd` (so also: the mark of a dead turn blocks nobody for good) | one failure, since the retry already meets all the others' effects |
| `ledger_overlap` | two executions, a purchase and a renewal interleave at every await: what survives (`BalanceIsLastRow`, `ExactUnlessStale`, `AppliedOnce`, `AloneWithinLimit`, `PaidIsCredited`, `CompletedIsCharged`) | one failure of the kinds whose recovery is at stake, three deliveries |
| `ledger_account` | an execution, a purchase with its deliveries and a change by the panel overlap freely: `CreditLedger` implements `CreditAccount` | any two failures of all kinds; three operations, one of each kind, so that each may commit over what another has read |
| `cfdi` | webhook, button and two sweeps: `OneCfdi`, `OneAttempt`, `InternalIsRetried`, `StalledIsResumed` | any two failures; two sweeps, as two instances run the job |
| `compaction` | two turns, stale locks: `NothingSkipped`, `SummaryAdvances` | seven messages: up to two batches over two kept, of two (the least) to five messages, of which the model is shown three; one failure |
| `billing` | two cycles, spending at any moment, events in any order, two members whose requests overlap: `Reconciled`, `MirrorsStripe`, `GraceRunsOut` | four events: two whole renewals, or one that is declined twice, or members who cancel and resume in turn; any number of declines within them, any two failures of the database or an instance; states which no property will ever tell apart are explored once (`Relevant`). A subscription that recovers from past due takes five events and is left to the theorems, which hold for any number |
| `cron` | instances start and stop, three requests overlap, the job runs, the database may fail in it too: `JobMatchesRow`, `SchedulerSurvives`, `ActiveFires` | two instances (one that serves, one that does not know), one trigger, three requests (create, and two changes that overlap), one run at a time (`Fires`), one failure |
| `execution` | a run, sync or stream (which may break and still end), with everything that may strike it: `ChargedIsCompleted`, `CompletedIsPaid`, `CountedOnce`, `TriedRunsEnd` | one run, since runs share no row here; one retry, three failures (a failed update, a failed `catch`, and one more), a cancellation and a deletion at any moment |
| `conversation` | turns, an echo and members over one customer's conversations: `OneActive`, `HumanNotTalkedOver`, `EchoTakesOver`, `ActionOnce` | two turns (the second of which meets what the first left, or a stale flag), one echo, two acts of members or of the night (`MaxStaff`: take over and give back, close and reopen), two conversations, one failure of a turn, of an action or of its flag |
| `accounts` | an owner, an admin and a guest: `OneOwner`, `SeatsBounded`, `LeftIsSignedOut`, `RotatedOnce`, `AttemptsBounded` | three requests, two of them under way at once (`Overlap`): what one changes between two awaits of another, and a third that shows the effect; the tokens of two users (`Signing`); limits from 1 to 3; one attempt per code, so that the row goes while another compares |

Two runs leave kinds of failure out on purpose. `ledger_overlap` has no `stats`,
`chargeReply` and `crash`, under which `CompletedIsCharged` does not hold
(`ledger_account` has them); `billing` no `partial` and `carry`. Section 5 says what
happens with them.

### Fairness

* `ChannelTurn`: a webhook handler and a worker that started go on, Cloud Tasks
  calls a task that is due and repeats a failed one, time passes. Nobody has to
  write a message. Task queues retry without being asked, and a request that
  stops for good is the explicit failure `crash`.
* `CreditLedger`: a started operation goes on and Stripe repeats an unanswered
  event. Nobody has to start an execution.
* `CfdiStamping`: an attempt goes on, the sweep of each instance runs every
  night, time passes and the provider is turned on. Nobody has to press the
  button or correct the fiscal data.
* `Compaction`: a turn that took the lock goes on; a lock's age grows. Nobody
  has to start a turn.
* `CronTriggers`: the moments of a schedule recur, so a job that stays in the
  registry of a living instance comes due again and again (`WF` of `Fire` for an
  instance and a trigger), and its callback goes on (`Reread`, `Stamp`,
  `Execute`). Requests, starts and stops are nobody's duty.
* `Execution`: what was started goes on (`WF` of `Continue(r)`): Node continues a
  promise whose query answers, the agents service answers unless it hangs
  (`FallsSilent`), and the deadline the client sets on a sync call passes. Failures
  and cancellations are free.
* `StripeBilling`, `Conversation` and `Accounts` state safety only.

`CHECK_DEADLOCK FALSE` in `billing`, `cron`, `execution`, `conversation` and
`accounts`: within the bounds the cycles, requests, turns or runs are used up, and
then the system rightly stops.

## 4. What is proved

TLAPS checks these for every value of the constants that satisfies the
`ASSUME` of the module (sizes are naturals, lengths positive, users finitely many,
kinds of actors disjoint, costs negative; `WindowLen <= MaxWindow`, `MaxFaults < Attempts`).

| Module | Theorems | Inductive invariant, and why it is needed |
|---|---|---|
| `ChannelTurnProofs` | `TypeCorrect`, `MarkIsKept`, `TurnsExclude` | `TurnInv`: `HolderOwnsLock`, and a turn that runs without a mark waited the whole cap, outlived its mark or met a Redis that failed (`MarklessTurns`). Exclusion is not inductive: that two marks cannot both be unexpired follows from one key bearing one name |
| | `NobodyAnsweredTwice` | `WindowInv`: one task of a window is at work at a time (`OneOpen`), and what it read is the processing list (`ReadsList`). `IntakeInv`: a message is on offer, in the inbox or on one list, and a list with a message already answered or committed is looked at by no turn (`SpentLists`). Under `NoCrash` and `HooksClean` (no `"schedule"`): a death while a task is served leaves two tasks of its window at work, a webhook that fails after its push buffers the message again (one that dies there keeps its claim and does not) |
| | `NothingLost` | `DrainInv`: the RENAME, which replaces what it finds, finds an empty list (`Drained`). Under `NoCrash` and `TurnsFinish` (none of `"read"`, `"execute"`, `"send"`): a turn that threw is repeated, and its RENAME replaces the list of before |
| | `IntakeImplemented` | the safety half of `ImplementsIntake`, from the three above: a push is `Accept`, a RENAME takes the whole inbox as a batch, a commit settles it, the rest stutters. Under `IntakeFaults`: none of the failures above and no `"commit"`, which leaves a settled batch on its list |
| `CreditLedgerProofs` | `TypeCorrect`, `LogShowsBalance`, `ExactBalance`, `OncePerOperation` | `LedgerInv`: the three, and `Traced`: an operation is in the log exactly if its progress or its invoice number says so. Without it a step could not know that its row is the first |
| | `ChargedWithinLimit` | `AloneInv`: an execution that nobody crowded is the only operation open, what its check found still holds and what its charge read is the balance (`Alone`). The property speaks of the row in the log only, after all this is over |
| | `LedgerImplementsAccount` | no hypothesis. Refinement maps `applied` to the operations of the log (`LogOps`) and `read` to the balances the open attempts of an operation have read (`Held`, `Seen`), empty once it is in the log. With `LedgerInv`: only because an operation in the log cannot commit again is a commit an `Apply` |
| `CfdiStampingProofs` | `TypeCorrect`, `AtMostOneCfdi`, `ClaimExcludes`, `StampedStays` | `CfdiInv`: an attempt holds the claim while nothing was usurped (`ClaimHeld`), and whoever saves or is shown as stamped is backed by a CFDI (`Backed`) |
| `StripeBillingProofs` | `TypeCorrect`, `GraceIsNotExtended` | `GraceInv`: while no event overtook an older one, all events before one that is taken up are done (`InOrder`), so handlers exclude each other and the clock a handler has read is the row's (`SeenIsSince`). `GraceRunsOut` is about the write; that the value written is still the row's is what it needs |
| | `CreditsReconcile` | `BooksInv`: invoices come due one at a time (`OneDue`), at most one event that moves credits is in progress (`OnePending`), it is about the draft that is due or nothing is due (`PendingOfDue`), and the difference between credits granted or billed and those spent or on the account is what that event still owes at its program counter (`PendingOwes`), or, without one, what is noted as invoiced (`NothingOwed`). `Reconciled` speaks of the last case only and is not inductive. Claimed while no event was lost in a crash (`Alive`), and under `Careful`: neither `"partial"` nor `"carry"`, with each of which TLC finds `Reconciled` violated |
| | `RowMirrorsStripe` | what Stripe's events tell is what Stripe knows (`StripeTells`): the last about the status, the last update about the ending, and while it is past due there is a failure nothing cleared since. The row says what the last event that wrote it told (`RowInv`, with `InOrder`), whoever put it where overages are off turns them off or has still to (`OffInv`), and, until two requests cross, a request that told Stripe and not yet the row is the only one and says what Stripe knows. `MirrorsStripe` speaks of quiet states only. Under `OneAtATime`, without `"carry"`: with it a paid invoice makes the row ACTIVE while an older one is unpaid |
| `CronTriggersProofs` | `TypeCorrect`, `CronInvariant`, `RegistryFollows`, `SchedulerLives` | `CronInv`, one `TriggerInv` per trigger: what an instance that knows the last change has read or loads is the row (`ReadsRow`), a request that is alone excludes every other (`Exclusive`), with nothing open job and row agree (`Calm`), and a request that is alone in the middle says how far they disagree (`Midway`). `JobMatchesRow` is `Calm`; the others carry it over the two steps of a request |
| `ExecutionProofs` | `TypeCorrect`, `ExecInvariant`, `ChargedCompletes`, `CompletedPays`, `CountsOnce` | `ExecInv`, one `RunInv` per run: the program counter says which updates were launched and how far they are (`Stage`), the row shows the last of them (`RowShows`), without a lost query each launched update, of the three there may be, is counted or under way (`Unhit`), and a charge stands only behind a COMPLETED or an errored stream (`Paid`). The properties speak of settled runs only and say nothing of the steps before |
| `ConversationProofs` | `TypeCorrect` | `RowsInv`: with the types, the conversations made are those counted so far, and whoever works on one has it |
| | `OneConversation` | `OneInv`: until two raced or a member reopened one, a turn or an echo about to create found none active and is alone in it. `OneActive` does not know who is about to create |
| | `NotTalkedOver` | `HeardInv`, with `OneInv`: an answer that is not withheld had heard of nobody when it was weighed, or its own conversation was closed by then (`shut`), and then nothing the code reads can tell |
| | `EchoTakes` | `TakenInv`: an echo that saw human hands, or put the conversation into them, sees them stay until a member gives it back |
| | `ActsOnce` | `ActsInv`: the turns of a customer go one at a time, and an action that was sent more often than it went unflagged (`Counts`) is on its way into the metadata or in it, unless a stale copy wiped it out. `ActionOnce` counts what was sent and does not know of the flag |
| `ConversationProofs`, on `Compaction` | `CompactionTypeCorrect`, `CompactInvariant`, `CompactsAlone`, `RecentStays`, `Advances` | `CompactInv`: while no lock was outlived the one turn at work holds it (`Sole`) and builds on the summary in force (`OnTopOfActive`); what a turn has read is a prefix of what exists (`ReadSoFar`) |
| | `NothingIsSkipped` | `AllCover`: every summary, also one not stored yet, covers all it claims to reach but what was cut off, for batches of any length; section 5 says what a longer one loses |
| `AccountsProofs` | `TypeCorrect` | `Typed`: a request under way knows whom it is about, what it took has a name |
| | `LeaversAreSignedOut` | `LeftInv`, with `Settled` (who leaves has an account): who left and was not raced has neither a live token nor a request that would make him one. The property is about tokens only, and a request under way would make one |
| | `TokensRotateOnce` | `Alone`: a token not found twice has at most one holder, and a live one was never exchanged; `Unborn`: the token a request will make does not exist before |
| | `AttemptsAreBounded` | `Counted`: codes compared with a row and codes about to be are no more than the attempts the row counts. The property alone does not know of those about to be |
| | `OrganisationHasOneOwner` | `Justified`: what a request has read lets it write what it will write; so a write on rows that are still as read leaves the owner alone or moves the ownership |
| | `MembersFitThePlan` | `Seats`: an invitation that was alone when seats were counted still has a seat |

The order in which to read them is that of the table; each file states its lemmas
before the theorem they serve, one step per action of `Next`.

Only model-checked:

* liveness (`EveryMessageSettled`, `TasksEnd`, `PaidIsCredited`,
  `CompletedIsCharged`, `InternalIsRetried`, `StalledIsResumed`, `ActiveFires`,
  `TriedRunsEnd`), since TLAPS does not reason about `ENABLED`; so also
  `ImplementsIntake` as a whole, which includes the fairness of `MessageIntake`.

Every other property of the runs is proved, under the hypotheses the table names.
Such a hypothesis leaves out kinds of failure after which the property fails; the run
of the property leaves them out too (`turn_buffer` has no `"read"`, `"execute"`,
`"send"`, `"schedule"` and `"crash"`, `billing` neither `"partial"` nor `"carry"`), and section 5
says what happens with them.

The proofs also state invariants that no run repeats (`MarkIsKept`,
`StampedStays`, `CompactsAlone`, `RecentStays` and the types): what is proved for
all instances needs no small one.

## 5. Where the code gives no more

The properties of section 3 say what the code does keep. Each of them stops
where the code stops, at a history variable (`stale`, `raced`, `dropped`, ...), at
an exception the property names, or at a kind of failure a run leaves out. What
happens beyond, with the place to look at:

Channel intake
* A retry of a window whose turn failed after the RENAME renames again
  (`channel-message-queue.service.ts:137`): if another message arrived meanwhile,
  the new list replaces the old one and the first messages are gone. The comment at
  `:120-123` reasons that the RENAME of a retry fails because there is no inbox any
  more; a message that came in between makes it again. `turn_buffer` has no failure
  between the RENAME and the answer; with `"execute"` TLC finds `NoMessageLost`
  violated.
* The claim of a delivery stays when the instance dies after it
  (`webhook-dedup.service.ts:34`, `hookCrash`) or when the release fails, which
  `release` only logs (`:64`): the repetition is dismissed as a duplicate of a
  message nobody took. So is one that comes while a first delivery is at work
  that then fails.
* With `schedule`, a hook that failed after it had pushed is repeated and the
  message is answered twice; with a crash between answer and commit as well.
* With `slowHook`, a message pushed after the last task of its window looked
  waits until the next message.
* Since when a window found the conversation busy is forgotten when the worker
  is deferred for silence in between: the cap on waiting starts again.

Credits
* A balance is read and then written as an absolute value
  (`credits.service.ts:94`, `:354`): an operation that committed in between is
  overwritten. `ExactUnlessStale` says that nothing else loses credits,
  `ImplementsAccount` that what is written stems from a balance the operation has
  read.
* Overlapping executions all pass the check of the overage limit and together
  exceed it (`AloneWithinLimit` is about one that had the ledger to itself from its
  check to its charge).
* With `stats`, a failure after the charge marks the charged execution FAILED;
  with a crash between COMPLETED and the charge the execution is free; with
  `slow` and `purchase` together a repetition is acknowledged while the first
  delivery, which then fails, is at work: nobody repeats the purchase.

Invoices and subscriptions
* The nightly sweep selects with `not: CLIENT_DATA`, which excludes NULL: a row
  that is PENDING and never failed is not swept (`cfdi-retry.service.ts:64`).
* With `"partial"`, a handler that fails after it had added an invoice item or
  credits releases its claim, and the repetition adds them again
  (`billing.controller.ts:528-529` says that this duplicates money); with
  `"carry"`, an invoice issued over an unpaid one bills the same debt again.
* Events out of order: `customer.subscription.updated` with `past_due` before
  `invoice.payment_failed` leaves a subscription PAST_DUE without `pastDueSince`
  and so, until the latter arrives, without grace (`subscription-access.ts:71`);
  a failure handled after the payment that settled it leaves the organisation
  past due. A crash leaves the claim, and the event is lost.
* Owner and admins cancel and resume at once, each at Stripe first and in the row
  later (`billing.service.ts:892`): requests that cross in between may leave the
  row the other way round than Stripe (`crossed`), and events that were handled
  before the later write do not mend it.

Compaction
* A batch may be longer than the tail the model is shown, the first one above all:
  its beginning is in no summary and is never archived again
  (`workflows.service.ts:2626`). `NothingSkipped` says that exactly these messages
  (`cut`) are missing.
* Once there is a summary, a turn sends it with the last few messages only
  (`workflows.service.ts:2557-2559`): messages newer than the summary and older than
  those are in neither until the next compaction.

Cron triggers
* An instance that did not serve a change keeps its old job until it starts again
  (`cron-triggers.service.ts:25`): it runs a trigger by the schedule of before, and
  one that is active runs once in each instance that holds it.
* Two changes of one trigger that overlap may leave the job of the one and the
  row of the other; a `delete` whose second query fails leaves a row without a job.
* A row deleted between the two queries of `executeTrigger` (`:191`, `:208`) makes
  the second reject outside the `try`, and the process ends; so does a database
  that fails in either.

Execution
* `cancel` writes CANCELLED over whatever the status has become and does not tell
  the run; a run that is cancelled goes on, may be charged, and may be COMPLETED
  after it (`executions.service.ts:1203`).
* A stream whose agent reported an error is FAILED and charged all the same
  (`workflows.service.ts:1963`); if its charge fails it is COMPLETED and free.
* A stream that breaks (`'error'`, `:1818`) is FAILED by an update nobody waits for,
  and nothing keeps its `'end'` (`:1828`) from coming: then the run is also
  completed, charged and counted twice, and shows the status written last.
* When the update of the conversation fails, the catch writes FAILED while
  COMPLETED may be under way, and the later of the two stays (`late`).
* A stream has no deadline: one that hangs holds its row PENDING.

Conversations
* Two first messages that find no conversation create two (`raced`;
  `conversations.service.ts:378` looks and creates in two queries).
* `metadata` is replaced whole by copies of different age: a flag or a mark set
  in between is wiped out, and an action goes out again (`dropped`).
* The actions of a turn are flagged after they were sent. When one fails after its
  introduction or some files (`whatsapp-config.service.ts:782`, `:867-891`), or the
  flag is not written (`:811`), the next turn sends it from the start (`unnoted`).
* A take-over after the fresh read of the flag does not stop the answer that is
  being sent (`workflows.service.ts:2417`).
* That read asks for the conversation the turn began with. If a member or the night
  closed it, an echo that comes meanwhile opens another one in human hands, and the
  answer goes out beside the person (`shut`). The comment at
  `whatsapp-config.controller.ts:441-443` says that `execute()` reads the flag again
  and discards the answer.

Accounts
* Roles are checked on rows read before the write: two requests that overlap can
  make two owners or none (`stale`).
* Seats are counted when an invitation is sent, and pending invitations are not
  counted; `resendInvitation` renews an expired one without counting again
  (`overlapped`).
* `leaveOrganization` revokes the refresh tokens, `remove` does not.
* Two refreshes that find one token before either revokes it both get a new one
  (`shared`); a login or a refresh under way when its user leaves survives the
  sign-out (`raced`).

## 6. What is not modelled, and why

* `ChannelTurn`: the expiry of the buffer itself (900 s), media, read receipts,
  actions after the turn (no effect on the buffer); Messenger, which shares the
  queue service.
* `CreditLedger`: monthly counters, cost in USD, the low-credit alert, the
  cooldown of notifications (derived from the same commits).
* `CfdiStamping`: the counter of attempts, the cap of 50 rows of a sweep, the
  mail; the PAC's idempotency key is assumed not to expire.
* `Compaction`: token thresholds (whether to compact is free); a lost reply of
  the activating transaction.
* `StripeBilling`: changes of plan and their schedules, checkout of a plan,
  plans without a price, what `enforceLimits` deactivates; a failure of the
  members' requests half-way; a slow first delivery (see `CreditLedger`);
  `updateOverageSettings` (`organizations.service.ts:513-555`), which would also
  write the permission to overspend but which nothing in `src/` calls.
* `CronTriggers`: the arithmetic of cron expressions and time zones (a schedule is
  the name of the request that wrote it), the ownership check against the
  organisation.
* `Execution`: cost and token counts, usage per model, the webhook of a provider,
  internal workflows (no charge), credits refused before the row exists.
* `Conversation`: the text and the attachments of messages, tags, read marks,
  the idle hint of a person (texts only); several customers (rows are disjoint).
* `Accounts`: sign-up, recovery of passwords, the second factor, the logout of one
  device, profiles, the creation and deletion of an organisation. Access tokens are
  stateless and live a few minutes (`JWT_EXPIRES_IN`); refresh tokens here do not expire by time.
* Components without a module, and why: Messenger repeats the WhatsApp intake on
  the same services; API keys, end users, datasets, models, tools, media, booking,
  announcements and the profile are CRUD on single rows or calls to outside
  services; analytics and most of `executions`, `conversations` and
  `organizations` are queries; the platform glue, the agents service (stateless
  between requests) and the web client keep no shared state. They are most of the
  repository's lines: the modules cover what changes shared state in more than one
  step, and about a third of the files in which that happens.

## 7. Plan

Done: `ChannelTurn` over `MessageIntake`, `CreditLedger` over `CreditAccount`,
`CfdiStamping`, `Compaction`, `StripeBilling`, `CronTriggers`, `Execution`,
`Conversation` and `Accounts`, with every safety property of the runs proved.

What is left, in this order:

1. `PlanChange`: `changePlan` and its schedules, over `StripeBilling`.
2. The second factor and the sign-up steps, in `Accounts`.
3. The Messenger intake, on the queue `ChannelTurn` models.
