# A verification project for carriers

carriers is a mailing-list server: a front MTA hands it messages over LMTP or
SMTP, it decides per list what becomes of each (distribute, hold, drop,
refuse), relays one signed copy per subscriber to a smarthost, and keeps its
membership, its moderation queue and the set of Message-IDs it has seen in
SQLite. Operators work on the same database with separate `carriers`
commands. This directory holds TLA+ models of that program, the TLC
configurations that check them on small instances, and TLAPS proofs of the
results that hold for every instance. File and line references are to the
repository (`src/`).

## Inventory

| Component | Code | State | Operations | Talks to |
| --- | --- | --- | --- | --- |
| SMTP/LMTP ingress | `carriers/src/smtp.rs` | per connection: `helo`, `mail_from`, `recipients` | EHLO/HELO/LHLO, MAIL, RCPT, DATA, RSET, NOOP, QUIT | front MTA; `process` calls the pipeline or the bounce handler per recipient, one after the other |
| Address routing | `pipeline.rs` (`verp`, `decode_verp`), `smtp.rs` (`classify_recipient`), `state.rs` (`list_for_address`) | the map of loaded lists | encode and decode a VERP return path, find a list | ingress, delivery |
| Intake pipeline | `carriers-core/src/pipeline.rs` | none of its own | `intake`, `finalize`, `hold`, `archive_message` | store, policy engine, signing |
| Policy chain | `carriers-core/src/policy.rs`, `sieve_engine.rs`, `builtin_policies/*.sieve` | compiled scripts (static) | `check_loop`, `check_duplicate`, `evaluate_before`, `evaluate_after`, header edits | pipeline; `record_message` through `DuplicateStore` |
| Authentication and signing | `carriers-core/src/sign.rs`, `crypto.rs` | none | `evaluate_dmarc`, `sign_and_seal`, `should_sign_dkim2`, `sign_dkim2_for_delivery` | DNS |
| Delivery | `carriers/src/deliver.rs` | the recipients still to reach | `deliver`, `send_all` | smarthost |
| Store | `carriers-core/src/store.rs`, `migrations/*.sql` | tables `members`, `seen_messages`, `moderation_queue` | one SQL statement per operation | everything |
| Membership and bounces | `store.rs`, `member.rs`, `bounce.rs`, `smtp.rs` (`handle_bounce`) | roles, bounce score, disabled flag per member | add, remove, enable, `record_bounce`, `subscribers` | ingress (DSNs), delivery (recipients), CLI |
| Moderation CLI | `carriers/src/main.rs` (`moderate`) | the held message it read | list, show, approve, reject | store, pipeline, smarthost |
| Membership CLI | `main.rs` (`member`, `sync`) | position in the members file | add, remove, enable, sync | store |
| Start-up | `state.rs`, `config.rs`, `list.rs` | configuration and lists, loaded once | `AppState::load`, `load_lists`, `validate_policies` | all |
| Header transforms | `transform.rs`, `*.sieve` | none | list headers, munge-from, subject prefix | pipeline |
| Setup | `keygen.rs`, `crypto.rs`, `main.rs` (`setup`) | files | key generation, zone file | operator |
| Test kit | `carriers-testkit` | a test harness | scenarios | everything |

How the parts meet: a front MTA opens a connection, `handle_connection` collects
a transaction and calls `process`, which takes the recipients one after the
other. A VERP address goes to `handle_bounce` and the members table; a list
address goes through `intake`, which records the Message-ID, evaluates the
first half of the policy chain, and either ends there, holds the message in
the queue, or calls `finalize`, which evaluates the second half, reads the
subscribers, transforms and signs; `deliver` then sends one copy per
subscriber. `carriers moderate approve` is another process on the same
database and runs `finalize` and `deliver` on a held message. There is no lock
and no transaction that spans two statements: all coordination is by single
SQL statements, which is where most of the hard behaviour comes from.

What is hard about each part, and what makes it correct:

| Component | Hard behaviour | Correct when |
| --- | --- | --- |
| Intake, delivery | overlapping attempts for one post, errors and crashes between any two steps, lost replies | one copy at most per subscriber; an accepted post has an explanation; direct and held exclude each other |
| Moderation | two commands on one id, a command that dies between distribution and delete | no held message is lost; only overlap or a broken command sends twice; ids name one message for ever |
| Ingress session | pipelining, abandoned transactions, a client that disappears | a message reaches exactly the recipients its sender counts on; replies match recipients; the task ends |
| Policy chain | six tiers of open-ended scripts, DMARC facts that change while a message is held | the gates cannot be got around; the last explicit word decides; nobody approves past the list policy |
| Members, bounces | recipients read long before they are used, DSNs late, twice or after a re-enable, sync in between | flag and score agree; disabling holds for every later post; failures count once, on their list |
| Routing | two encodings of @, addresses that look like bounce addresses, DSNs that outlive a restart | a bounce is attributed to the copy that failed; a post reaches its list |
| Start-up, setup | files that change while they are read, a setup that dies half way or runs twice | a start over one disk has one outcome; what the daemon signs with is what the zone publishes |
| Header transforms, signing | copies that pass several lists, circles of subscriptions, threads that cross lists, domains whose DMARC policy edits can break | no copy passes a list twice; tags do not pile up; seals and links tell what each hop received and sent; answers reach the author; DMARC passes at the end of the path for what it should pass for |

## Modules

| Module | Role |
| --- | --- |
| `Distribution` | intake, moderation queue and delivery, with the front MTA and moderators around them |
| `PostFate` | the abstract promise of the intake: one pass over a post |
| `DistributionProofs`, `IntakeProofs`, `ModerationProofs` | theorems about `Distribution`: shapes and the one pass; replies, attempts and the refinement; the moderation queue |
| `SmtpSession`, `SessionProofs` | one ingress connection, and theorems |
| `PolicyChain`, `PolicyChainProofs` | both halves of the policy chain around the queue, and theorems |
| `Membership`, `MembershipProofs` | the members table, bounces, member commands, sync, restarts, and theorems |
| `Routing` | operators: VERP, finding a list, classification of addresses |
| `Setup` | `carriers setup`: key files, zone file, DNS |
| `Deployment` | a daemon on its disk: start-up, edits, restarts, setups and the mail that comes for the table it read; extends `Setup` and `Routing` |
| `DeploymentProofs` | theorems about `Deployment` and the operators of `Setup` and `Routing` |
| `Circulation`, `CirculationProofs` | posts that travel between lists: loop guard, header edits, signatures, seals, links, DMARC verdicts, answers; and theorems |
| `MCDistribution`, `MCSmtpSession`, `MCPolicyChain`, `MCMembership`, `MCDeployment`, `MCCirculation` | values of the constants for TLC |

In every module one action is one step of the program between two awaits: an SQL
statement, a script, a DNS evaluation, one message to the smarthost, one line
on the wire. Definitions with the comment "Broken variant" belong to no
behaviour of the specification: each is a plausible bug in the definition next
to it, and putting it in the place of that definition makes TLC find one of
the properties violated. They document what each property is sensitive to.

**Distribution.** `pc[x]` is where a connection task or a moderate command is:
`record` (before `check_duplicate`), `before` (`evaluate_before`), `hold`
(`enqueue_held`), `after` (`finalize` up to its decision), `send` (`send_all`),
`delete` (`delete_held`, commands only), `reply`. The tables are `seen` and
`queue` with `nextId` for AUTOINCREMENT. `Submit`, `LoseConnection`, `GiveUp`
and the effect of `Reply` on `upstream` are the front MTA, which retries on
451 and when it got no reply. `Fail` is any `?` on the way, `Crash` the end of
the daemon, `Abort` the end of a command. What a policy decides is any element
of `Before[p]` and `After[p]`, which `PolicyChain` justifies: every
disposition of its chain is one of the four. The membership of a list is
constant here; `Membership` has its changes.

**PostFate.** Each post is `new`, `pending` in its one pass, and then
`distributed`, `held`, `dropped` or `lost`. `Distribution` maps the table
`seen` and the history of outcomes to it (`FateOf`), and `ImplementsPostFate`
is the refinement (copies per subscriber map to `sent`). Loops never begin a pass; a held or dropped post has sent
nothing.

**SmtpSession.** `toServer` and `toClient` are the two directions of the TCP
stream, one element per line or per message text. `phase` is the place in
`handle_connection`; `mailFrom`, `recipients` are its locals; `got` says how
much of the message `read_data` has. `HangUp` is the front MTA closing the
connection, and the daemon reads on to the end of the stream;
`ConnectionFails` is an `io::Error` of a read or a write, a reset in the
middle of the message included, which ends the task at once and processes
nothing. `asked`, `accepted`, `told` are what a front MTA that follows RFC
2920 and RFC 2033 has to keep. The codes `process` finds are open (`Results`):
`Distribution` and `Membership` are where they come from.

**PolicyChain.** `stage` and `pos` say which script of which half is next,
`acc` is the `Accumulator`. A configured script is any sequence of actions of
`Scripts`; `EngineOutcome` and `OutcomeFromRun` turn it into an outcome as
`SieveEngine::run` and `outcome_from_run` do. `GateBefore` and `GateAfter` are
the two built-in DMARC scripts. The verdict is chosen anew for each half, since
`finalize` evaluates DMARC again. `BeforeCount` and `AfterCount` are the
drop-in scripts of the global and domain tiers together: `run_scripts` treats
them alike and passes one accumulator through.

**Membership.** A row of `members` is a role record, score and flag. `Start`
reads the recipients, `Send` sends one copy and decides whether a DSN of some
class will come back, `HandleBounce` is the whole of `handle_bounce`, with the
front MTA offering the same DSN again when the reply is lost. `Add`, `Remove`,
`Enable`, `SyncStart`, `SyncLine`, `SyncEnd` are the commands. `Restart` ends the
deliveries of the daemon, keeps the table and goes on with the threshold the
configuration has by then; the scores and flags were computed with earlier ones
(`used`). A delivery of an approve command survives it. Scores are
natural numbers; the code has floating point, and the defaults and their sums
are exact in it.

**Routing.** An address is a sequence of symbols; `"+bounce"` is one symbol
since nothing looks inside it. `Verp`, `DecodeVerp` and `Classify` are
`pipeline.rs` `verp` and `decode_verp` and `smtp.rs` `classify_recipient`, over
a table from lowercased posting address to list.

**Setup.** Every write truncates a file and then fills it: two steps. `running[r]`
is how far a process is through its three key files and the zone file. A key
is known by the setup that made it and its label, a zone file by the setup
whose public keys it lists. `Die` covers a kill and a failed write.

**Deployment.** `stage` is how far `AppState::load` has come: `engine`
(`PolicyEngine::load`), `lists` (`load_lists`, one file at a time in any
order, as `read_dir` gives them, each with the keys it loads), then
`validate_policies`, then `up`. Only `files`, `scripts` and what `Setup` writes
are on disk; everything else is the process, and `Gone` forgets it. `SendCopy`
and `ReturnCopy` are a copy under its VERP return path and its DSN, which may
come after a restart over an edited disk. A DSN is the values of its
`Status:` lines in order, those of the returned message included;
`BounceKind` takes the first that counts, as `bounce::classify` does.

**Circulation.** `transit` holds copies addressed to lists, `mailboxes` what
people received. A message is the parts later hops look at: From, Reply-To and
Subject, what the author's signature covered of them and whether there is one
and the post came from a host of the author's domain, the lists' own
signatures and what each covered, the List-Id headers, which of the optional
signed List-* headers there are, the ARC seals (each one records whether the
author's signature was good when the list received the message), the
recipients named by the DKIM2 chain. The `route` is history. `Distribute`
applies `Munged`, `Prefixed`, `WithListHeaders`, `Sealed`, `Signed` and
`Linked` in the order of `finalize` and `send_all`, where the gates let it:
nothing goes on in the name of an enforcing domain that fails, and what does
not pass goes on unsigned. `Passes` is the verdict of a recipient on a copy,
as the test kit's sink computes it from DKIM, SPF and alignment; `Loops` is
the `:contains` of `loop.sieve` on ids that are sequences of symbols.
`Publishes` says which optional List-* headers a list has a value for, and a
list's signature `Stands` while what it covers is unchanged and no header has
come that was not there when it was made: `SIGNED_HEADERS` names them all, and
mail-auth, which is not part of the repository, is taken to sign an absent
header as absent, as RFC 6376 has it (if it left absent headers out,
signatures would survive more than here). One list handles one copy in one
step: errors and overlapping attempts are the business of `Distribution`.

## Runs

| Run | Checks | Instance |
| --- | --- | --- |
| `intake` | `TypeOK`, `AtMostOnce`, `AcceptedAccounted`, `DirectXorHeld`, `ImplementsPostFate`, `EveryTransactionEnds`, `EveryApprovalEnds` | a message cross-posted to two lists, two tasks, one command, two attempts per post, two faults |
| `queue` | `OneCopyPerAttempt`, `HeldLeavesSettled`, `DuplicatesNeedDisturbance`, `ImplementsPostFate`, `IdsNeverReused` | three posts (may be held; no Message-ID; a loop), one task, two commands at a time, two ids, one fault |
| `session` | `TypeOK`, `RecipientsAgree`, `RepliesBelong`, `InStep`, `TaskEnds`, `MessageAnswered` | LMTP and SMTP, a list, a bounce and an unknown address, six commands, three in flight |
| `policy_chain` | `TypeOK`, `ReputationProtected`, `LastWordDecides`, `NoForcedApproval`, `ArchivedAsAsked` | two drop-ins in each half, the list policy, eight scripts, two approvals |
| `bounces` | `TypeOK`, `DisabledIffThreshold`, `LateCopiesBounded`, `ScoreIsEarned`, `OnlyEnableResumes` | one address on two lists, two deliveries at a time, of which one is the daemon's, two repeated DSNs, restarts with thresholds 2 and 3, weights 2 and 1 |
| `routes` | `BounceComesHome`, `PostsReachTheirList`, `SameStart`, `SignaturesVerify` | three list files with two contents each, four scripts, two edits or setups, two setups at a time, every recipient of up to five symbols out of a letter, `@`, `=`, `+bounce` |
| `circulation` | `TypeOK`, `NeverThroughAgain`, `TagsNeverPileUp`, `SealsTellIngress`, `LinksFollowPath`, `AnswersFindTheAuthor`, `DmarcTravels`, `CirculationEnds` | three lists subscribed to one another in circles, one post and one answer, posts with and without Message-ID, From, Subject, chain, signature and SPF, one domain that enforces DMARC |
| `lost_retry` | `AcceptedMeansProcessed` (violated) | one post, two attempts, one fault |
| `smtp_reject` | `RejectedNeverAccepted` (violated) | one post over SMTP, two attempts |
| `reject_race` | `RejectDiscards` (violated) | one held post, two commands, no fault |
| `half_message` | `OnlyCompleteMessages` (violated) | one connection |
| `false_loop` | `OnlyLoopsDiscarded` (violated) | two lists, the id of one the end of the id of the other |

The bounds and why they are enough:

- Two tasks and two attempts give every overlap of a retry with the attempt it
  replaces; a third attempt finds the same row in `seen_messages` as the
  second. Two faults give an error of one attempt and a crash or lost reply of
  another. Two lists are needed to tell suppression per list from suppression
  per message, two subscribers for a delivery that is half way.
- Two commands overlap on an id, or one dies and the other repeats it; two ids
  let the after chain hold a message again.
- Six commands reach an abandoned transaction followed by a complete one
  (MAIL, RCPT, MAIL, RCPT, DATA), with one to spare; a window of three fills
  the pipeline across a transaction boundary.
- Two drop-ins per half give a script before and a script after any other; the
  eight scripts differ in everything `outcome_from_run` looks at, contradictory
  and repeated actions included. Two approvals let a message be held again by
  the second half and approved once more.
- With weights 2 and 1, threshold 3 has the proportions of the defaults: no
  single failure disables, two permanent ones do. Two deliveries let one be
  under way while the failures of the other disable the member, or the second
  start after that; the two repeats stand for further failures. With threshold
  2 a score of 2 disables and with 3 it does not, so a restart in either
  direction leaves a flag that the threshold in force would not give.
- Five symbols give a recipient with a quoted `@` or two `=` around the `@`.
  Three recipients (a usual one, one with `=`, one without `@`) have copies
  that outlive an edit or a restart. Mail flows only while no setup ran, and
  edits wait while other mail is under way: what becomes of an address does
  not depend on a key, and what the table is depends on no mail. Two moves
  put an edit before and one after a step of the start, or let two setups
  overlap; a third list file makes the order of reading matter for a twin
  and a bad file at once.
- Three lists give circles of two and of three and two ways to the same list;
  two of them have tags and may munge, the third withholds signatures and
  links and refuses. One list shares the domain of a person; one person's
  domain enforces DMARC and the other's does not. Of the two optional headers
  one munging list publishes both and the other one only, and the list in
  between publishes the one that is missing there, so it spoils the signature
  of the second and not of the first.
  One post and one answer suffice for a thread that crosses lists, because
  one form of the post is a late answer whose Subject already carries the tags
  of two lists in the wrong order.

Deadlock is not checked: a system whose front MTA has nothing more to deliver
and whose operators have gone home rests, and so does a closed connection.

**Fairness.** `intake` and `session` assume weak fairness of the steps of a task
or command that is in the middle of its work (`TaskStep` in `SmtpSession`): tokio polls every task that is
ready, the operating system runs a command that was started, and the waits
inside a step (the store's busy timeout, a DNS answer, the smarthost) end with an
answer or an error. Nothing is assumed of the front MTA, of moderators or of
the network: a connection need never be reset, messages need not be offered, commands need not be given, a
client may stay silent. `TaskEnds` is therefore about connections that end; a
client that stays connected and silent keeps its task for ever, since
`read_until` has no timeout. `circulation` assumes that the front MTA goes on
delivering what it took for a list. For `CirculationEnds` that is the bad case:
a circle of lists can keep it busy only if it does deliver.

## What the violated runs show

- `lost_retry`: `check_duplicate` commits the Message-ID before anything else
  of the intake. When a later step fails the front MTA hears 451, and the retry
  is dropped as a duplicate and answered 250. `AcceptedAccounted` gives the exact
  extent: an accepted post without a disposition was hit by an error or a crash
  after its row was inserted.
- `smtp_reject`: with `protocol = "smtp"` a policy reject becomes 451, and its
  retry is accepted in the same way.
- `reject_race`: `moderate reject` deletes the row of a message whose approval
  is being distributed, and reports it as rejected.
- `half_message`: `read_data` returns what it has at the end of the stream, and
  it is processed as the message.
- `false_loop`: `loop.sieve` looks for the id of the list anywhere inside a
  List-Id header. With `dev.lists.example.org` subscribed to
  `webdev.lists.example.org` every post of the latter is discarded by the
  former as a loop, and answered 250.

Also seen while modelling, without a run:

- `run_scripts` stops at a discard or reject only, so after a `before` drop-in
  files a message into `moderate` the other drop-ins still run and may discard
  or reject it, and no moderator sees it. The README has it that moderation "skips
  straight to holding the message"; only the list policy is skipped.
  `LastWordDecides` leaves the case out (`RefusedAfterHold`).
- A second list that munges takes the posting address of the first for the
  author and puts it into Reply-To, so answers go to that list and not to the
  author; `munge-from.sieve` says that Reply-To is pointed "back at the original
  sender, so replies still reach the human". `AnswersFindTheAuthor` is about
  copies that were munged once at most.
- Of two list files with one posting address the one read last silently
  replaces the other in `load_lists`. `SameStart` states the exception.
- Domain drop-ins are found under the domain as `posting_address` spells it,
  mail is routed without regard to case (`policy.rs` and `state.rs`): a list at
  `lists.Example.org` runs without the scripts of `lists.example.org`.
- `member add` takes a subscriber without an `@`. Its return path decodes to
  nothing, which `BounceComesHome` states, or to another address when it has an
  `=`, which it leaves out (`WellFormed`), like an `=` behind a quoted `@`.
- The return path of a copy takes the local part of the posting address up to its
  first `@` (`finalize`), the domain of the list is what follows the last one
  (`List::from_config`): a quoted posting address with two `@` gets back
  none of its bounces. `Plain` leaves such addresses out of `BounceComesHome`.
- Two lists with the same `subject_prefix` may both add it to one copy, when a
  list with another tag is between them: `subject-prefix.sieve` looks at the
  start and behind markers only. `Limit` of `TagsNeverPileUp` counts the lists
  that share a tag.
- A post that its author's domain does not vouch for passes DMARC once a list
  munged it, and also after a list in the author's own domain, whose smarthost
  gives it an aligned SPF; the next list then signs it. `DmarcTravels` names
  both as its exceptions.
- A list that tags but does not munge spoils the author's signature; unless
  its smarthost is in the author's domain the copy fails DMARC at the
  recipient, which is why the `DmarcTravels` promise asks for munging.
- A list signs the headers of `SIGNED_HEADERS` that a message lacks as well as
  those it has. When a later list of another domain publishes a List-Help,
  List-Archive, ... that the munging list before it did not, the copy has no
  valid signature aligned with its From left and fails DMARC at the recipient,
  unless SPF aligns. `DmarcTravels` leaves such paths out (`NothingNew`). That a
  signature names absent headers is how mail-auth is taken to sign, see below.
- A threshold that is lowered does not disable anybody: a member over the new
  one goes on getting mail until the next bounce, and a raised one leaves the
  disabled members disabled. `DisabledIffThreshold` is stated for this.
- `carriers sync` writes every line as subscribed, neither poster nor
  moderator, and re-adding a member updates all three roles: a moderator or a
  `--no-subscribe` poster who is in the file loses the role and gets the mail.
- `list-headers.sieve` adds its headers on top of those of an earlier list and
  removes none: a copy that passed two lists carries two List-Unsubscribe
  headers.

## What is proved

Every theorem is about the specification the runs check, for all values of the
constants that satisfy the named assumptions of its module (which TLC evaluates
in each run): any sets of lists, members, tasks and commands, any policies, any
bounds. Names in parentheses are the invariants the proofs rest on.

- **Distribution** (`DistributionProofs`). `TypeCorrect` needs `Busy`: a task
  that is not idle works on a post of the constants, so what it sends, holds and
  answers has the right shape. `SentAtMostOnce`: `AtMostOnce` says nothing of
  the tasks in the middle of their work, so `OnePass` adds that an identified
  message without a row in `seen` was never sent, that a message in a pass has
  its row and is in the pass of no other task, that nothing of it is sent before
  `send_all`, and that the recipients still to reach got no copy yet. A retry or a second attempt finds the row
  and cannot begin a pass; an error or crash ends the one there is.
  `TasksOnlyAdvance` orders the stages of a task (`Ahead`): every step of its own
  takes it to a later stage or, in `send_all`, leaves a smaller set of
  recipients, and what others do, faults included, leaves it where it is or ends
  it.
- **Intake** (`IntakeProofs`). `AcceptedIsAccounted` rests on `Answered`:
  whatever a 250 can rest on, a reply still to be written or a row in `seen`
  that makes the next attempt a duplicate, is accounted for, because a pass
  never ends without a disposition or a failure (`PassesEnd`).
  `CopiesPaidByAttempts` rests on `Paid`: the attempts on a post pay for the
  copies a subscriber got and for the tasks that may still send
  one (`Pending`, a finite set whose cardinality a step changes by at most one).
- **Refinement** (`IntakeProofs`). `KeepsThePromise` adds `Tracking` to
  `OnePass`: a post has no fate before or during its pass, a loop never gets
  one, and a pass sends to subscribers of its list only. Each action of
  `Distribution` is then one action of `PostFate` or a stutter, and a crash is
  `Lose` of all the posts whose tasks it ends. `DispositionsStand` draws from it
  what the abstract promise is for: the fate of a post, once it has one, is
  never revised, not by a retry and not for a post that was lost.
- **SmtpSession** (`SessionProofs`). The inductive invariant `Dialogue` lists
  the states in which the two ends of a connection agree: commands in flight
  (`Talking`), the 354 on its way (`Opening`), the message on its way
  (`Sending`, `Sent`), being answered (`Answering`, `Answered`), and the two
  ways in which a connection ends (`Orphaned`, `Closed`). In `Talking` the
  daemon is ahead of the front MTA by the replies in flight, so the invariant
  says what the front MTA will know once it has read them (`Foretells`: there
  is a list of recipients for every reply, each one what `Learns` makes of the
  one before). From `Dialogue` follow `SameRecipients`, `RepliesInStep` and,
  with what the replies in flight say (`Truthful`), `RepliesTellTheTruth`.
  `SessionTypeCorrect` needs `AtWork`, what the locals of `handle_connection`
  hold at each place in it. `NeverSpins` is about three things that grow less
  one after the other: lines to read, phases to come (`Stage`), and recipients
  or replies still to do in a phase (`Left`).
- **Moderation** (`ModerationProofs`). `Ordered` is the common invariant: ids in
  the queue are below `nextId` and name one message each (`OneName`), a row is
  deleted only after its approval was settled (`Kept`), and an entry none of
  whose approvals overlapped or broke is in the hands of one command at most,
  which has not sent what it has still to send (`OneApproval`). From it follow `NoHeldMessageLost`, `UndisturbedOnce` and the
  action property `IdsNameOneMessage`. `NeverBothWays` adds `HeldApart`: an
  identified message that was held has its row in `seen`, was never sent by an
  intake, and is in no pass.
- **PolicyChain** (`PolicyChainProofs`). `SignedOnlyIfPassing` rests on
  `GateHeld`: once a DMARC gate has run, the decision is reject for a failing
  message and the accumulator keeps no-dkim for one that does not pass, whatever
  scripts follow, since a reject ends the chain and `Merge` never takes back a
  flag; so what intake holds passed the gate as well. `NothingForced` rests on
  `InOrder`: as many scripts have run as the position says, and a decision to
  approve means that all of them kept; `Through` keeps for the wait in the queue
  and the second half what had run in the first (it needs `LastWord`, the rule of
  `LastWordDecides` for what the code does). `LastWordStands` needs it for the gate,
  which runs whatever the decision and is first; `ArchivesWhatIsAsked` needs
  `ArchiveKept`: the accumulator asks for the archive exactly if a script of
  the half did.
- **Membership** (`MembershipProofs`). `FlagAgreesWithScore` and
  `OnlyEnableResumesDelivery` come from lemmas about one row (what a step may do
  to its flag and score together), lifted to the table.
  `DisabledForLaterPosts` needs `Covered`: the deliveries that still hold a
  disabled member are no more than the copies that were on their way when the
  member was disabled and are not yet sent. `ScoresAreEarned` needs `Earned`: what
  the copies of a member have failed with pays for the score and for the DSNs
  still on their way. The thresholds are any natural numbers, 0 included.
- **Circulation** (`CirculationProofs`). The invariant is about one copy
  (`Good`) and is carried over a hop by `Effect`, which says what a hop does to
  each part of a message. `NoListTwice` needs `Stamped`: every list on the
  route has its id among the List-Ids, so a list on the route sees a loop
  (an id is part of itself, whatever else it is part of). `SealsTruthful` needs
  `Sealing`: an edit never restores what was signed, because munging always
  sets a Reply-To, which the signature does not have, and a Subject only grows.
  `LinksTruthful` extends path and chain together, and `AuthorsReachable`
  follows where the author is after no munging list and after one.
  `DmarcAlongAnyPath` needs `Travelling`: what the author signed is intact or
  the last list that munged signed what is there now, in its own name, with the
  optional headers of all lists up to it (`OfTheLastMunger`, `Headed`), so that a
  path on which later lists bring nothing new leaves that signature standing; and
  what nobody vouches for keeps its author and no signature, so that every
  gate on the way sees it fail (`NobodyVouches`). `TagsBounded` needs `Tagged`
  and `InBounds`. No list adds a tag that an answer already put behind its
  marker, and none adds its own twice on one journey. So a journey that adds
  a tag leaves in front one that was not answered before, and the next answer puts
  it behind the marker for good: every journey that adds anything uses up one
  of the finitely many tags, which is where the bound comes from.
  `OneCopyFromEachList` needs `Recorded`: the list that sent a copy of an
  identified post on has its row in `seen_messages`, so a copy that comes to it
  on another way is not sent on as well. `WaysAreShort` counts the lists of a
  route, which `NoListTwice` keeps apart.
- **Setup and start-up** (`DeploymentProofs`). `SignaturesCanBeVerified` rests on
  `Undisturbed`: while the last setup runs alone, the key files it has passed
  hold its keys, and when it is through the zone is its own; and on
  `KeysAsRead`: over an unchanged disk every list in the table has the keys that
  are there. `StartsEndAlike` needs to know how a start must end: `DiskOutcome`
  says it of the disk alone, and `StartsAlike` that a process which reads it
  has in its table exactly the files it has taken. Where two files
  have one posting address there is no such outcome, and the property says so.
- **Routing** (`DeploymentProofs`). `VerpRoundTrip` is about addresses of any
  length. It does not go by induction but by positions: in
  `<local>+bounce=<encoded>@<domain>` the last `@` is the one before the domain,
  the first `+bounce=` is the one `verp` put in, because a plain posting
  address has none, and the last `=` is the encoded `@`, because a well-formed
  recipient has none after its first `@`. `ReturnPathsDiffer` follows: copies
  for two subscriptions never share a return path. `DSNsComeHome` carries this over
  restarts with `MailAsSent` (a copy has the return path of its posting
  address and its recipient) and `TableAsRead` (the table is keyed by the
  addresses of the files that were read, one entry for one file). `PostsAreFound`
  needs in addition that a list which claims an address as its bounce address
  has a shorter address, hence is another list.

Nothing is assumed beyond the constants' assumptions. Those that say more than
a type: the selectors of the keys differ, as the default ones do (`Setup`);
there are finitely many lists, no address is a list and a person, and no tag
looks like a reply marker
(`Circulation`). The proofs use Z3, Zenon
and, for the temporal steps, LS4.

## What is only model-checked

- Liveness: `EveryTransactionEnds`, `EveryApprovalEnds`, `TaskEnds`,
  `MessageAnswered`, `CirculationEnds`. The prover has no rule for fairness.
  What each of them rests on besides fairness is proved for any constants, as
  said above: every step makes progress that nothing undoes (`TasksOnlyAdvance`
  for the first two, `NeverSpins` for the next two, `WaysAreShort` for the last).
  That such a step can be taken at all, and that it then is, is left to TLC; so
  is that a strictly smaller finite measure cannot go on for ever, which is
  induction.

Every invariant and every action property that a passing run checks is also
proved. The other theorems state what no run has as a property: the three
about progress, `SetupTyped`, `VerpRoundTrip`, `ReturnPathsDiffer`,
`DispositionsStand` and `OneCopyFromEachList`.

## What is not modelled, and why

- The values of the List-* headers besides List-Id, and List-Post, which every
  list adds and every signature names: a header put on top of one that was signed
  does no harm. List-Unsubscribe-Post is not signed.
- Key material and the parsing of TOML: a key is a fresh name, a list file
  parses or does not. The rest of the test kit is a harness around the daemon.
- The lookup of a domain's drop-ins: `PolicyChain` has one domain. The opening
  and migration of the database: they succeed before anything else happens or
  end the process. The Sieve language is the library's; a script is what it
  does to the decision and the flags, and the membership tests of the built-in
  posting policies are among the scripts `PolicyChain` quantifies over.
- The text of a DSN: its `Status:` lines are all `bounce::classify` looks at.
- DNS: keys are published at once, and a domain's policy does not change
  while a copy travels.
- A failed write of the archive is only logged; `ArchivedAsAsked` is about what
  `finalize` and `hold` attempt.
- A DNS lookup that fails counts as a verdict that does not pass, as in
  `evaluate_dmarc`; the model does not tell the two apart.
- Negative bounce weights, and weights that change over a restart: the code
  accepts both, the constants are fixed natural numbers.

## Plan

1. Done: the life of a post with its abstract specification, the session, both
   halves of the policy chain, members and bounces, routing, setup and
   deployment, circulation with DMARC, and the theorems above, with the progress
   arguments behind all liveness properties.
2. Left in the model: the session composed with the intake, so that the codes
   `SmtpSession` leaves open are those of `Distribution` and a lost connection
   of the one is the lost reply of the other; the roles a posting policy looks
   up, read at intake while `Membership` changes them.
3. Left in the proofs: the composition of 2 once it is there, with the
   invariants of `SmtpSession` and `Distribution` carried over, and what one
   half may assume of the other.
