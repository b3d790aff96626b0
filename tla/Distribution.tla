---------------------------- MODULE Distribution ----------------------------
(***************************************************************************)
(* The life of a post in carriers: the front MTA hands a message for one   *)
(* list to the daemon (smtp.rs), the daemon takes it through the intake    *)
(* pipeline (pipeline.rs) against the SQLite store (store.rs) and relays   *)
(* one copy per recipient to the smarthost (deliver.rs), while             *)
(* `carriers moderate` commands, separate processes sharing the database,  *)
(* approve and reject the posts that were held (main.rs).                  *)
(*                                                                         *)
(* Every step below is one await point of the code: a statement on the     *)
(* store, a DNS or Sieve evaluation, one message to the smarthost or one   *)
(* reply, so the tasks of the daemon and the commands interleave as they   *)
(* do in the program.                                                      *)
(***************************************************************************)
EXTENDS Naturals

CONSTANTS
    Lists,        \* the configured mailing lists
    Messages,     \* messages, named by their Message-ID
    Members,      \* addresses that may receive mail
    Workers,      \* connection tasks of the daemon, one transaction each
    Moderators,   \* `carriers moderate` processes
    Posts,        \* <<list, message>> pairs the front MTA has to deliver
    Unidentified, \* messages that carry no Message-ID header
    Looped,       \* posts that carry the List-Id of their own list (or do
                  \* not parse at all)
    Subscribers,  \* [Lists -> SUBSET Members], the deliverable subscribers
    Before,       \* [Posts -> SUBSET Decisions], what evaluate_before may say
    After,        \* [Posts -> SUBSET Decisions], what evaluate_after may say
    Protocol,     \* "lmtp" or "smtp", the ingress protocol
    NoPost,       \* the absence of a post
    MaxHeld,      \* bound: ids the moderation queue hands out
    MaxTries,     \* bound: attempts of the front MTA per post
    MaxCommands,  \* bound: moderate commands issued
    MaxFaults     \* bound: errors, crashes and lost connections

Decisions == {"approve", "moderate", "discard", "reject"}
Runners == Workers \cup Moderators
HeldIds == 1..MaxHeld

ASSUME PostsAssumption ==
    /\ Posts \subseteq Lists \X Messages
    /\ Unidentified \subseteq Messages
    /\ Looped \subseteq Posts
    /\ NoPost \notin Posts
ASSUME ActorsAssumption == Workers \cap Moderators = {}
ASSUME PolicyAssumption ==
    /\ Subscribers \in [Lists -> SUBSET Members]
    /\ Before \in [Posts -> SUBSET Decisions]
    /\ After \in [Posts -> SUBSET Decisions]
    /\ \A p \in Posts : Before[p] # {} /\ After[p] # {}
    /\ Protocol \in {"lmtp", "smtp"}
ASSUME BoundsAssumption ==
    /\ MaxHeld \in Nat /\ MaxTries \in Nat
    /\ MaxCommands \in Nat /\ MaxFaults \in Nat

VARIABLES
    upstream,   \* what the front MTA knows of each post
    tries,      \* attempts it made
    pc,         \* where each task or command is
    post,       \* the post it is working on
    entry,      \* the queue id an approve command works on, 0 for a worker
    todo,       \* the recipients send_all has still to reach
    reply,      \* the SMTP reply a task has decided on
    listening,  \* the front MTA is still on the task's connection
    seen,       \* table seen_messages
    queue,      \* table moderation_queue, NoPost where there is no row
    nextId,     \* its AUTOINCREMENT sequence
    copies,     \* copies the smarthost took from an intake, per recipient
    heldCopies, \* copies it took from approvals of a queue id
    \* History: what happened, read by the properties only.
    outcome,    \* dispositions the intake of a post ended with
    failed,     \* posts whose intake ended early after they were recorded
    issued,     \* the post each queue id was given to
    rejected,   \* ids a reject command removed and reported as rejected
    settled,    \* ids of which an approval got to its disposition
    disturbed,  \* ids whose approvals overlapped or ended early
    commands, faults

mtaVars == <<upstream, tries>>
runVars == <<pc, post, entry, todo, reply, listening>>
dbVars == <<seen, queue, nextId>>
mailVars == <<copies, heldCopies>>
history == <<outcome, failed, issued, rejected, settled, disturbed>>
vars == <<mtaVars, runVars, dbVars, mailVars, history, commands, faults>>

-----------------------------------------------------------------------------
(* The post is past duplicate suppression and its intake has not ended. *)
Processing(x) == pc[x] \in {"before", "hold", "after", "send"}

ListOf(p) == p[1]
Identified(p) == p[2] \notin Unidentified

NoCopies == [r \in Members |-> 0]

Init ==
    /\ upstream = [p \in Posts |-> "queued"]
    /\ tries = [p \in Posts |-> 0]
    /\ pc = [x \in Runners |-> "idle"]
    /\ post = [x \in Runners |-> NoPost]
    /\ entry = [x \in Runners |-> 0]
    /\ todo = [x \in Runners |-> {}]
    /\ reply = [x \in Runners |-> "none"]
    /\ listening = [x \in Runners |-> FALSE]
    /\ seen = {}
    /\ queue = [i \in HeldIds |-> NoPost]
    /\ nextId = 1
    /\ copies = [p \in Posts |-> NoCopies]
    /\ heldCopies = [i \in HeldIds |-> NoCopies]
    /\ outcome = [p \in Posts |-> {}]
    /\ failed = {}
    /\ issued = [i \in HeldIds |-> NoPost]
    /\ rejected = {}
    /\ settled = {}
    /\ disturbed = {}
    /\ commands = 0
    /\ faults = 0

-----------------------------------------------------------------------------
(* Control of a task or command. *)

Goto(x, label) ==
    /\ pc' = [pc EXCEPT ![x] = label]
    /\ UNCHANGED <<post, entry, todo, reply, listening>>

(* The task has the reply line for its recipient. *)
Answer(w, code) ==
    /\ pc' = [pc EXCEPT ![w] = "reply"]
    /\ reply' = [reply EXCEPT ![w] = code]
    /\ todo' = [todo EXCEPT ![w] = {}]
    /\ UNCHANGED <<post, entry, listening>>

(* Every runner in S forgets what it was doing. *)
Stop(S) ==
    /\ pc' = [x \in Runners |-> IF x \in S THEN "idle" ELSE pc[x]]
    /\ post' = [x \in Runners |-> IF x \in S THEN NoPost ELSE post[x]]
    /\ entry' = [x \in Runners |-> IF x \in S THEN 0 ELSE entry[x]]
    /\ todo' = [x \in Runners |-> IF x \in S THEN {} ELSE todo[x]]
    /\ reply' = [x \in Runners |-> IF x \in S THEN "none" ELSE reply[x]]
    /\ listening' = [x \in Runners |-> x \notin S /\ listening[x]]

(* The intake of w's post ends with a disposition, answered with code. *)
Dispose(w, disposition, code) ==
    /\ Answer(w, code)
    /\ outcome' = [outcome EXCEPT ![post[w]] = @ \cup {disposition}]
    /\ UNCHANGED <<failed, issued, rejected, settled, disturbed>>

(* The approval by m got its disposition; the row is deleted next. *)
Settle(m) ==
    /\ pc' = [pc EXCEPT ![m] = "delete"]
    /\ settled' = settled \cup {entry[m]}
    /\ UNCHANGED <<post, entry, todo, reply, listening>>
    /\ UNCHANGED <<outcome, failed, issued, rejected, disturbed>>

-----------------------------------------------------------------------------
(* The front MTA (external): it offers a post to an idle task, may give up *)
(* waiting for the reply and retry, and returns the message to its sender  *)
(* when it runs out of attempts.                                           *)

Submit(w, p) ==
    /\ pc[w] = "idle"
    /\ upstream[p] = "queued"
    /\ tries[p] < MaxTries
    /\ upstream' = [upstream EXCEPT ![p] = "inflight"]
    /\ tries' = [tries EXCEPT ![p] = @ + 1]
    /\ pc' = [pc EXCEPT ![w] = "record"]
    /\ post' = [post EXCEPT ![w] = p]
    /\ listening' = [listening EXCEPT ![w] = TRUE]
    /\ UNCHANGED <<entry, todo, reply, dbVars, mailVars, history, commands, faults>>

LoseConnection(w) ==
    /\ pc[w] # "idle"
    /\ listening[w]
    /\ faults < MaxFaults
    /\ faults' = faults + 1
    /\ listening' = [listening EXCEPT ![w] = FALSE]
    /\ upstream' = [upstream EXCEPT ![post[w]] = "queued"]
    /\ UNCHANGED <<tries, pc, post, entry, todo, reply, dbVars, mailVars, history, commands>>

GiveUp(p) ==
    /\ upstream[p] = "queued"
    /\ tries[p] = MaxTries
    /\ upstream' = [upstream EXCEPT ![p] = "bounced"]
    /\ UNCHANGED <<tries, runVars, dbVars, mailVars, history, commands, faults>>

(* The reply on the wire: over SMTP, where a post to one list is the whole *)
(* transaction, anything but a 2xx becomes 451.                            *)
OnTheWire(code) ==
    IF Protocol = "smtp" /\ code # "250" THEN "451" ELSE code

(* What the front MTA makes of a reply. *)
Verdict(code) ==
    CASE code = "250" -> "accepted"
      [] code = "550" -> "bounced"
      [] OTHER -> "queued"

(* Broken variant: the reply is passed on unread. *)
ReplyUnread(w) ==
    /\ pc[w] = "reply"
    /\ upstream' = IF listening[w]
                   THEN [upstream EXCEPT ![post[w]] = OnTheWire(reply[w])]
                   ELSE upstream
    /\ Stop({w})
    /\ UNCHANGED <<tries, dbVars, mailVars, history, commands, faults>>

Reply(w) ==
    /\ pc[w] = "reply"
    /\ upstream' = IF listening[w]
                   THEN [upstream EXCEPT ![post[w]] = Verdict(OnTheWire(reply[w]))]
                   ELSE upstream
    /\ Stop({w})
    /\ UNCHANGED <<tries, dbVars, mailVars, history, commands, faults>>

-----------------------------------------------------------------------------
(* pipeline::intake, run by a task of the daemon. *)

(* The loop guard: the post carries our List-Id and is dropped unrecorded,  *)
(* as one that does not parse is in handle_one.                             *)
DropLoop(w) ==
    /\ pc[w] = "record"
    /\ post[w] \in Looped
    /\ Dispose(w, "discarded", "250")
    /\ UNCHANGED <<mtaVars, dbVars, mailVars, commands, faults>>

(* Broken variant: a row only counts once its post was processed. *)
SeenAndDone(p) == Identified(p) /\ p \in seen /\ outcome[p] # {}

(* Broken variant: seen_messages keyed by the Message-ID alone. *)
SeenOnAnyList(p) == Identified(p) /\ \E q \in seen : q[2] = p[2]

(* record_message finds the row already there. *)
SeenBefore(p) == Identified(p) /\ p \in seen

DropDuplicate(w) ==
    /\ pc[w] = "record"
    /\ post[w] \notin Looped
    /\ SeenBefore(post[w])
    /\ Answer(w, "250")
    /\ UNCHANGED <<mtaVars, dbVars, mailVars, history, commands, faults>>

(* Broken variant: the row is looked for but never inserted. *)
RecordNothing(w) ==
    /\ pc[w] = "record"
    /\ post[w] \notin Looped
    /\ ~SeenBefore(post[w])
    /\ Goto(w, "before")
    /\ UNCHANGED <<dbVars, mtaVars, mailVars, history, commands, faults>>

(* Broken variant: the loop guard no longer comes first. *)
RecordLoops(w) ==
    /\ pc[w] = "record"
    /\ ~SeenBefore(post[w])
    /\ seen' = IF Identified(post[w]) THEN seen \cup {post[w]} ELSE seen
    /\ Goto(w, "before")
    /\ UNCHANGED <<queue, nextId, mtaVars, mailVars, history, commands, faults>>

(* record_message inserts the row; without a Message-ID there is none. *)
Record(w) ==
    /\ pc[w] = "record"
    /\ post[w] \notin Looped
    /\ ~SeenBefore(post[w])
    /\ seen' = IF Identified(post[w]) THEN seen \cup {post[w]} ELSE seen
    /\ Goto(w, "before")
    /\ UNCHANGED <<queue, nextId, mtaVars, mailVars, history, commands, faults>>

(* The "before" half of the policy chain, DMARC gate included. *)
EvaluateBefore(w) ==
    /\ pc[w] = "before"
    /\ \E decision \in Before[post[w]] :
          \/ decision = "approve" /\ Goto(w, "after") /\ UNCHANGED history
          \/ decision = "moderate" /\ Goto(w, "hold") /\ UNCHANGED history
          \/ decision = "discard" /\ Dispose(w, "discarded", "250")
          \/ decision = "reject" /\ Dispose(w, "rejected", "550")
    /\ UNCHANGED <<mtaVars, dbVars, mailVars, commands, faults>>

(* Broken variant: ids as SQLite gives them without AUTOINCREMENT. *)
EnqueueReusing(p) ==
    LET live == {i \in HeldIds : queue[i] # NoPost}
        id == IF live = {} THEN 1 ELSE 1 + CHOOSE i \in live : \A j \in live : j <= i
    IN  /\ id <= MaxHeld
        /\ queue' = [queue EXCEPT ![id] = p]
        /\ issued' = [issued EXCEPT ![id] = p]
        /\ nextId' = id + 1
        /\ UNCHANGED seen

(* INSERT INTO moderation_queue ... RETURNING id. *)
Enqueue(p) ==
    /\ nextId <= MaxHeld
    /\ queue' = [queue EXCEPT ![nextId] = p]
    /\ issued' = [issued EXCEPT ![nextId] = p]
    /\ nextId' = nextId + 1
    /\ UNCHANGED seen

Hold(w) ==
    /\ pc[w] = "hold"
    /\ Enqueue(post[w])
    /\ Answer(w, "250")
    /\ outcome' = [outcome EXCEPT ![post[w]] = @ \cup {"held"}]
    /\ UNCHANGED <<failed, rejected, settled, disturbed>>
    /\ UNCHANGED <<mtaVars, mailVars, commands, faults>>

-----------------------------------------------------------------------------
(* pipeline::finalize and deliver, run by a task or an approve command. *)

(* finalize approves: the recipients are read here, once. *)
Distribute(x) ==
    /\ "approve" \in After[post[x]]
    /\ pc' = [pc EXCEPT ![x] = "send"]
    /\ todo' = [todo EXCEPT ![x] = Subscribers[ListOf(post[x])]]
    /\ UNCHANGED <<post, entry, reply, listening, history>>

(* The "after" half of the policy chain for an intake ... *)
EvaluateAfter(w) ==
    /\ pc[w] = "after"
    /\ \/ Distribute(w)
       \/ "moderate" \in After[post[w]] /\ Goto(w, "hold") /\ UNCHANGED history
       \/ "discard" \in After[post[w]] /\ Dispose(w, "discarded", "250")
       \/ "reject" \in After[post[w]] /\ Dispose(w, "rejected", "550")
    /\ UNCHANGED <<mtaVars, dbVars, mailVars, commands, faults>>

(* ... and for an approval, where a refusal only drops the post. *)
ReevaluateAfter(m) ==
    /\ pc[m] = "after"
    /\ \/ Distribute(m)
       \/ "moderate" \in After[post[m]] /\ Goto(m, "hold") /\ UNCHANGED history
       \/ After[post[m]] \cap {"discard", "reject"} # {} /\ Settle(m)
    /\ UNCHANGED <<mtaVars, dbVars, mailVars, commands, faults>>

(* Broken variant: the recipient is not taken off the list. *)
PassAgain(x, r) ==
    /\ pc[x] = "send"
    /\ r \in todo[x]
    /\ UNCHANGED runVars
    /\ UNCHANGED <<mtaVars, dbVars, history, commands, faults>>

(* send_all passes r: the copy counts as taken unless the smarthost refused *)
(* it, which the code logs and goes on from.                                *)
Pass(x, r) ==
    /\ pc[x] = "send"
    /\ r \in todo[x]
    /\ todo' = [todo EXCEPT ![x] = @ \ {r}]
    /\ UNCHANGED <<pc, post, entry, reply, listening>>
    /\ UNCHANGED <<mtaVars, dbVars, history, commands, faults>>

Send(w, r) ==
    /\ Pass(w, r)
    /\ copies' = [copies EXCEPT ![post[w]][r] = @ + 1]
    /\ UNCHANGED heldCopies

SendHeld(m, r) ==
    /\ Pass(m, r)
    /\ heldCopies' = [heldCopies EXCEPT ![entry[m]][r] = @ + 1]
    /\ UNCHANGED copies

Refuse(x, r) ==
    /\ Pass(x, r)
    /\ UNCHANGED mailVars

(* Broken variant: waits for a recipient that took its copy. *)
FinishIfSent(w) ==
    /\ pc[w] = "send"
    /\ todo[w] = {}
    /\ copies[post[w]] # NoCopies
    /\ Dispose(w, "distributed", "250")
    /\ UNCHANGED <<mtaVars, dbVars, mailVars, commands, faults>>

FinishSending(w) ==
    /\ pc[w] = "send"
    /\ todo[w] = {}
    /\ Dispose(w, "distributed", "250")
    /\ UNCHANGED <<mtaVars, dbVars, mailVars, commands, faults>>

(* A store, DNS, Sieve, signing or connection error propagates with `?`. A *)
(* delivery to nobody connects to nothing and cannot fail.                 *)
Fail(w) ==
    /\ pc[w] = "record" \/ Processing(w)
    /\ pc[w] = "send" => todo[w] # {}
    /\ faults < MaxFaults
    /\ faults' = faults + 1
    /\ Answer(w, "451")
    /\ failed' = IF Processing(w) THEN failed \cup {post[w]} ELSE failed
    /\ UNCHANGED <<outcome, issued, rejected, settled, disturbed>>
    /\ UNCHANGED <<mtaVars, dbVars, mailVars, commands>>

(* The daemon dies: its tasks and connections are gone, the store stays. *)
Crash ==
    /\ \E w \in Workers : pc[w] # "idle"
    /\ faults < MaxFaults
    /\ faults' = faults + 1
    /\ Stop(Workers)
    /\ upstream' = [p \in Posts |->
                       IF upstream[p] = "inflight" THEN "queued" ELSE upstream[p]]
    /\ failed' = failed \cup {post[w] : w \in {v \in Workers : Processing(v)}}
    /\ UNCHANGED <<outcome, issued, rejected, settled, disturbed>>
    /\ UNCHANGED <<tries, dbVars, mailVars, commands>>

-----------------------------------------------------------------------------
(* `carriers moderate`, each command a process of its own. *)

Approving(i) == {m \in Moderators : entry[m] = i}

(* Broken variant: the row is taken out of the queue as it is read. *)
ApproveTaking(m, i) ==
    /\ pc[m] = "idle"
    /\ queue[i] # NoPost
    /\ commands < MaxCommands
    /\ commands' = commands + 1
    /\ pc' = [pc EXCEPT ![m] = "after"]
    /\ post' = [post EXCEPT ![m] = queue[i]]
    /\ entry' = [entry EXCEPT ![m] = i]
    /\ queue' = [queue EXCEPT ![i] = NoPost]
    /\ UNCHANGED <<todo, reply, listening, seen, nextId, history>>
    /\ UNCHANGED <<mtaVars, mailVars, faults>>

(* approve <id>: get_held finds the row and reads it. *)
Approve(m, i) ==
    /\ pc[m] = "idle"
    /\ queue[i] # NoPost
    /\ commands < MaxCommands
    /\ commands' = commands + 1
    /\ pc' = [pc EXCEPT ![m] = "after"]
    /\ post' = [post EXCEPT ![m] = queue[i]]
    /\ entry' = [entry EXCEPT ![m] = i]
    /\ disturbed' = IF Approving(i) # {} THEN disturbed \cup {i} ELSE disturbed
    /\ UNCHANGED <<todo, reply, listening>>
    /\ UNCHANGED <<outcome, failed, issued, rejected, settled>>
    /\ UNCHANGED <<mtaVars, dbVars, mailVars, faults>>

(* Broken variant: waits for a recipient that took its copy. *)
FinishHeldIfSent(m) ==
    /\ pc[m] = "send"
    /\ todo[m] = {}
    /\ heldCopies[entry[m]] # NoCopies
    /\ Settle(m)
    /\ UNCHANGED <<mtaVars, dbVars, mailVars, commands, faults>>

FinishHeldSending(m) ==
    /\ pc[m] = "send"
    /\ todo[m] = {}
    /\ Settle(m)
    /\ UNCHANGED <<mtaVars, dbVars, mailVars, commands, faults>>

(* The "after" chain held the post again, as a new entry. *)
Rehold(m) ==
    /\ pc[m] = "hold"
    /\ Enqueue(post[m])
    /\ pc' = [pc EXCEPT ![m] = "delete"]
    /\ settled' = settled \cup {entry[m]}
    /\ UNCHANGED <<post, entry, todo, reply, listening>>
    /\ UNCHANGED <<outcome, failed, rejected, disturbed>>
    /\ UNCHANGED <<mtaVars, mailVars, commands, faults>>

(* Broken variant: the row is left in the queue. *)
DeleteNothing(m) ==
    /\ pc[m] = "delete"
    /\ Stop({m})
    /\ UNCHANGED <<dbVars, mtaVars, mailVars, history, commands, faults>>

(* delete_held: whether a row was there is not looked at. *)
Delete(m) ==
    /\ pc[m] = "delete"
    /\ queue' = [queue EXCEPT ![entry[m]] = NoPost]
    /\ Stop({m})
    /\ UNCHANGED <<seen, nextId, mtaVars, mailVars, history, commands, faults>>

(* The command ends with an error, or is killed; the row stays. *)
Abort(m) ==
    /\ pc[m] # "idle"
    /\ faults < MaxFaults
    /\ faults' = faults + 1
    /\ Stop({m})
    /\ disturbed' = disturbed \cup {entry[m]}
    /\ UNCHANGED <<outcome, failed, issued, rejected, settled>>
    /\ UNCHANGED <<mtaVars, dbVars, mailVars, commands>>

(* reject <id>: one DELETE, reported as a rejection if it removed a row. *)
Reject(m, i) ==
    /\ pc[m] = "idle"
    /\ queue[i] # NoPost
    /\ commands < MaxCommands
    /\ commands' = commands + 1
    /\ queue' = [queue EXCEPT ![i] = NoPost]
    /\ rejected' = rejected \cup {i}
    /\ UNCHANGED <<outcome, failed, issued, settled, disturbed>>
    /\ UNCHANGED <<seen, nextId, runVars, mtaVars, mailVars, faults>>

-----------------------------------------------------------------------------
WorkerStep(w) ==
    \/ DropLoop(w) \/ DropDuplicate(w) \/ Record(w)
    \/ EvaluateBefore(w) \/ Hold(w) \/ EvaluateAfter(w)
    \/ \E r \in Members : Send(w, r) \/ Refuse(w, r)
    \/ FinishSending(w) \/ Reply(w)

CommandStep(m) ==
    \/ ReevaluateAfter(m)
    \/ \E r \in Members : SendHeld(m, r) \/ Refuse(m, r)
    \/ FinishHeldSending(m) \/ Rehold(m) \/ Delete(m)

Next ==
    \/ \E w \in Workers, p \in Posts : Submit(w, p)
    \/ \E p \in Posts : GiveUp(p)
    \/ \E w \in Workers : WorkerStep(w) \/ Fail(w) \/ LoseConnection(w)
    \/ Crash
    \/ \E m \in Moderators, i \in HeldIds : Approve(m, i) \/ Reject(m, i)
    \/ \E m \in Moderators : CommandStep(m) \/ Abort(m)

Spec == Init /\ [][Next]_vars

(* tokio polls every task that can run, and the operating system runs every *)
(* command; each wait inside a step ends with an answer or an error.        *)
Fairness ==
    /\ \A w \in Workers : WF_vars(WorkerStep(w))
    /\ \A m \in Moderators : WF_vars(CommandStep(m))

FairSpec == Spec /\ Fairness

-----------------------------------------------------------------------------
(* Properties. *)

Code == {"none", "250", "451", "550"}
Label == {"idle", "record", "before", "hold", "after", "send", "delete", "reply"}

(* Every variable has the shape the code gives it. *)
TypeOK ==
    /\ upstream \in [Posts -> {"queued", "inflight", "accepted", "bounced"}]
    /\ tries \in [Posts -> Nat]
    /\ pc \in [Runners -> Label]
    /\ post \in [Runners -> Posts \cup {NoPost}]
    /\ entry \in [Runners -> HeldIds \cup {0}]
    /\ todo \in [Runners -> SUBSET Members]
    /\ reply \in [Runners -> Code]
    /\ listening \in [Runners -> BOOLEAN]
    /\ seen \in SUBSET Posts
    /\ queue \in [HeldIds -> Posts \cup {NoPost}]
    /\ nextId \in Nat \ {0}
    /\ copies \in [Posts -> [Members -> Nat]]
    /\ heldCopies \in [HeldIds -> [Members -> Nat]]
    /\ outcome \in [Posts -> SUBSET {"distributed", "held", "discarded", "rejected"}]
    /\ failed \in SUBSET Posts
    /\ issued \in [HeldIds -> Posts \cup {NoPost}]
    /\ rejected \in SUBSET HeldIds
    /\ settled \in SUBSET HeldIds
    /\ disturbed \in SUBSET HeldIds
    /\ commands \in Nat
    /\ faults \in Nat

(* However often the front MTA retries, and whatever crashes or overlaps in  *)
(* between, intake sends a message that has a Message-ID at most once to a   *)
(* subscriber (record_message before everything else in pipeline::intake).   *)
AtMostOnce ==
    \A p \in Posts, r \in Members : Identified(p) => copies[p][r] <= 1

(* A message without a Message-ID is outside duplicate suppression, but one  *)
(* attempt of the front MTA still yields one copy per subscriber at most     *)
(* (the snapshot of recipients send_all walks).                              *)
OneCopyPerAttempt ==
    \A p \in Posts, r \in Members : copies[p][r] <= tries[p]

(* A post the front MTA was told is accepted was a loop, got a disposition,  *)
(* is being worked on, or was hit by an error or crash after record_message: *)
(* duplicate suppression of one list never swallows the post to another, and *)
(* no reply of 2xx stands for an unfinished intake.                          *)
AcceptedAccounted ==
    \A p \in Posts :
        upstream[p] = "accepted" =>
            \/ p \in Looped
            \/ outcome[p] # {}
            \/ p \in failed
            \/ \E w \in Workers : post[w] = p /\ Processing(w)

(* An identified post is either distributed by its intake or handed to the   *)
(* moderators, never both, even when attempts for it overlap.                *)
DirectXorHeld ==
    \A p \in Posts : Identified(p) =>
        \/ copies[p] = NoCopies
        \/ \A i \in HeldIds : issued[i] # p

(* A held message leaves the queue only by a reject command or after an      *)
(* approval of it got to its disposition: a crash or error in the middle of  *)
(* moderate approve cannot lose it (delete_held after distribute_approved).  *)
HeldLeavesSettled ==
    \A i \in HeldIds :
        issued[i] # NoPost /\ queue[i] = NoPost => i \in rejected \cup settled

(* A subscriber gets a held message twice only when two approvals of it      *)
(* overlapped or one ended early: an undisturbed approval sends it once.     *)
DuplicatesNeedDisturbance ==
    \A i \in HeldIds, r \in Members : heldCopies[i][r] > 1 => i \in disturbed

(* An id a moderator has seen in `moderate list` never comes to name another *)
(* message: once its row is gone it stays gone (AUTOINCREMENT).              *)
IdsNeverReused ==
    [][\A i \in HeldIds :
         issued[i] # NoPost => queue'[i] \in {queue[i], NoPost} /\ issued'[i] = issued[i]]_vars

(* Every transaction the daemon takes is answered or dies with the daemon:   *)
(* no recipient, refusal or retry keeps handle_connection in process().      *)
EveryTransactionEnds ==
    \A w \in Workers : pc[w] # "idle" ~> pc[w] = "idle"

(* Every approve command ends, a post re-held by the after chain included:   *)
(* the new entry waits for a command of its own.                             *)
EveryApprovalEnds ==
    \A m \in Moderators : pc[m] # "idle" ~> pc[m] = "idle"

(* What the code is said to do and does not. *)

(* store.rs says a known Message-ID is one "we have already processed", and  *)
(* a 451 asks the front MTA to try again; so a post that ends up accepted    *)
(* should have had a disposition (or be about to have one).                  *)
AcceptedMeansProcessed ==
    \A p \in Posts :
        upstream[p] = "accepted" =>
            \/ p \in Looped
            \/ outcome[p] # {}
            \/ \E w \in Workers : post[w] = p /\ Processing(w)

(* The README says a Sieve reject fails the SMTP transaction with a 550: the *)
(* sender of a rejected post is never told that it was accepted.             *)
RejectedNeverAccepted ==
    \A p \in Posts : "rejected" \in outcome[p] => upstream[p] # "accepted"

(* The README says moderate approve distributes a held message and moderate  *)
(* reject discards it: one reported as rejected has been sent to nobody,     *)
(* even without any error or crash.                                          *)
RejectDiscards ==
    \A i \in rejected, r \in Members : heldCopies[i][r] = 0

-----------------------------------------------------------------------------
(* Refinement: the intake of identified posts implements PostFate. *)

TrackedPosts == {p \in Posts : Identified(p)}

FateOf(p) ==
    CASE p \notin seen -> "new"
      [] p \in seen /\ "distributed" \in outcome[p] -> "distributed"
      [] p \in seen /\ "held" \in outcome[p] -> "held"
      [] p \in seen /\ outcome[p] \cap {"discarded", "rejected"} # {} -> "dropped"
      [] p \in seen /\ outcome[p] = {} /\ p \in failed -> "lost"
      [] OTHER -> "pending"

(* Copies go to the subscribers of the post's list and to nobody else. *)
Fate == INSTANCE PostFate WITH
    Tracked <- TrackedPosts,
    Everyone <- Members,
    Barred <- Looped,
    Recipients <- [p \in TrackedPosts |-> Subscribers[ListOf(p)]],
    fate <- [p \in TrackedPosts |-> FateOf(p)],
    sent <- [p \in TrackedPosts |-> copies[p]]

(* Every behaviour of the daemon is one the abstract promise allows: a post  *)
(* gets one pass, a loop none, and a held or dropped post sends no copy.     *)
ImplementsPostFate == Fate!Spec
=============================================================================
