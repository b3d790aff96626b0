----------------------------- MODULE Membership -----------------------------
(***************************************************************************)
(* The members table and everything that works on it at the same time:     *)
(* deliveries that go by the recipients they read when they started, DSNs  *)
(* that come back late, twice or not at all, the operator's member         *)
(* commands, a sync that imports a file line by line, and restarts of the  *)
(* daemon with another bounce threshold (store.rs, member.rs, bounce.rs,   *)
(* deliver.rs, smtp.rs handle_bounce, main.rs run, member and sync).       *)
(* Each SQL statement is one step; nothing holds the table for longer.     *)
(***************************************************************************)
EXTENDS Integers, FiniteSets

CONSTANTS
    Lists, Addresses,
    Deliveries,       \* deliveries of the daemon and of approve commands
    Daemon,           \* those of the daemon
    Roles,            \* roles `member add` is called with
    MembersFile,      \* MembersFile[l]: the addresses of the list's file
    Thresholds,       \* what the [bounce] section may say, now or later
    HardWeight, SoftWeight,
    MaxPosts,         \* bound: deliveries started
    MaxRepeats        \* bound: DSNs offered again after they were counted

Flags == [subscribed : BOOLEAN, poster : BOOLEAN, moderator : BOOLEAN]

ASSUME MembershipAssumption ==
    /\ Roles \subseteq Flags
    /\ MembersFile \in [Lists -> SUBSET Addresses]
    /\ Daemon \subseteq Deliveries
    /\ Thresholds \subseteq Nat /\ HardWeight \in Nat /\ SoftWeight \in Nat
    /\ MaxPosts \in Nat /\ MaxRepeats \in Nat
    /\ IsFiniteSet(Deliveries)

VARIABLES
    threshold,  \* the one the daemon runs with
    members,    \* the table: a row, or none, per list and address
    delivery,   \* the list and the recipients each delivery still has to reach
    dsns,       \* DSNs on their way, counted by list, address and class
    sync,       \* the list and the lines a running sync still has to import
    posts,      \* deliveries started so far
    repeats,    \* DSNs counted and yet offered again so far
    owed,       \* history: weight of the failures of copies, and of the repeats
    grace,      \* history: copies that may still reach a disabled member
    used        \* history: every threshold the daemon ran with

settings == <<threshold, used>>
vars == <<settings, members, delivery, dsns, sync, posts, repeats, owed, grace>>

NoRow == [present |-> FALSE]
Idle == [running |-> FALSE]
Classes == {"hard", "soft", "unknown"}

Weight(class) ==
    CASE class = "hard" -> HardWeight
      [] class = "soft" -> SoftWeight
      [] class = "unknown" -> 0

Row(flags, score, disabled) ==
    [present |-> TRUE, flags |-> flags, score |-> score, disabled |-> disabled]

Rows == [present : {TRUE}, flags : Flags, score : Nat, disabled : BOOLEAN]

Disabled(l, a) == members[l][a].present /\ members[l][a].disabled

(* The deliveries that have a copy for this subscriber still to send. *)
Holding(l, a) ==
    {d \in Deliveries : delivery[d].running /\ delivery[d].list = l /\ a \in delivery[d].todo}

Init ==
    /\ threshold \in Thresholds /\ used = {threshold}
    /\ members = [l \in Lists |-> [a \in Addresses |-> NoRow]]
    /\ delivery = [d \in Deliveries |-> Idle]
    /\ dsns = [l \in Lists |-> [a \in Addresses |-> [class \in Classes |-> 0]]]
    /\ sync = Idle
    /\ posts = 0 /\ repeats = 0
    /\ owed = [l \in Lists |-> [a \in Addresses |-> 0]]
    /\ grace = [l \in Lists |-> [a \in Addresses |-> 0]]

-----------------------------------------------------------------------------
(* The store. *)

(* Broken variant: INSERT OR REPLACE. *)
UpsertReplacing(l, a, flags) ==
    members' = [members EXCEPT ![l][a] = Row(flags, 0, FALSE)]

(* add_member: re-adding updates the roles and nothing else. *)
Upsert(l, a, flags) ==
    members' = [members EXCEPT ![l][a] =
        IF @.present THEN [@ EXCEPT !.flags = flags] ELSE Row(flags, 0, FALSE)]

(* Broken variant: everyone subscribed. *)
SubscribersAll(l) ==
    {a \in Addresses : members[l][a].present /\ members[l][a].flags.subscribed}

(* subscribers: deliverable addresses. *)
Subscribers(l) ==
    {a \in Addresses :
        members[l][a].present /\ members[l][a].flags.subscribed /\ ~members[l][a].disabled}

(* The UPDATE of record_bounce. *)
Bounced(row, weight) ==
    [row EXCEPT !.score = @ + weight, !.disabled = @ \/ row.score + weight >= threshold]

-----------------------------------------------------------------------------
(* The daemon. *)

(* finalize reads the recipients, and deliver goes by them. *)
Start(d, l) ==
    /\ ~delivery[d].running
    /\ posts < MaxPosts
    /\ delivery' = [delivery EXCEPT ![d] = [running |-> TRUE, list |-> l, todo |-> Subscribers(l)]]
    /\ posts' = posts + 1
    /\ UNCHANGED <<settings, members, dsns, sync, repeats, owed, grace>>

(* One copy to the smarthost. What becomes of it later is the network's:    *)
(* it arrives, or a DSN of some class comes back to its VERP address.       *)
Send(d, a) ==
    /\ delivery[d].running /\ a \in delivery[d].todo
    /\ LET l == delivery[d].list IN
       /\ delivery' = [delivery EXCEPT ![d].todo = @ \ {a}]
       /\ grace' = IF Disabled(l, a) THEN [grace EXCEPT ![l][a] = @ - 1] ELSE grace
       /\ \/ UNCHANGED <<dsns, owed>>
          \/ \E class \in Classes :
                /\ dsns' = [dsns EXCEPT ![l][a][class] = @ + 1]
                /\ owed' = [owed EXCEPT ![l][a] = @ + Weight(class)]
    /\ UNCHANGED <<settings, members, sync, posts, repeats>>

(* The delivery is through, or its process or connection is gone. *)
Leave(d) ==
    /\ delivery[d].running
    /\ delivery' = [delivery EXCEPT ![d] = Idle]
    /\ UNCHANGED <<settings, members, dsns, sync, posts, repeats, owed, grace>>

(* Broken variant: the bounce counts for the address on every list. *)
RecordBounceEverywhere(l, a, weight) ==
    /\ members' = [k \in Lists |-> IF members[k][a].present
                                   THEN [members[k] EXCEPT ![a] = Bounced(@, weight)] ELSE members[k]]
    /\ UNCHANGED grace

(* record_bounce; a non-member is ignored. grace: who has a copy on the way *)
(* at the moment delivery is disabled.                                      *)
RecordBounce(l, a, weight) ==
    IF members[l][a].present
    THEN /\ members' = [members EXCEPT ![l][a] = Bounced(@, weight)]
         /\ grace' = IF members'[l][a].disabled /\ ~members[l][a].disabled
                     THEN [grace EXCEPT ![l][a] = Cardinality(Holding(l, a))] ELSE grace
    ELSE UNCHANGED <<members, grace>>

(* handle_bounce of one DSN. Either the front MTA hears the reply, or it    *)
(* offers the same DSN again.                                               *)
HandleBounce(l, a, class) ==
    /\ dsns[l][a][class] > 0
    /\ IF class = "unknown" THEN UNCHANGED <<members, grace>> ELSE RecordBounce(l, a, Weight(class))
    /\ \/ dsns' = [dsns EXCEPT ![l][a][class] = @ - 1] /\ UNCHANGED <<repeats, owed>>
       \/ /\ repeats < MaxRepeats
          /\ repeats' = repeats + 1
          /\ owed' = [owed EXCEPT ![l][a] = @ + Weight(class)]
          /\ UNCHANGED dsns
    /\ UNCHANGED <<settings, delivery, sync, posts>>

(* The daemon stops with its deliveries and starts with what the file says   *)
(* now; the table is as it was, and approve commands go on.                  *)
Restart(t) ==
    /\ threshold' = t /\ used' = used \cup {t}
    /\ delivery' = [d \in Deliveries |-> IF d \in Daemon THEN Idle ELSE delivery[d]]
    /\ UNCHANGED <<members, dsns, sync, posts, repeats, owed, grace>>

-----------------------------------------------------------------------------
(* The operator. *)

Add(l, a, flags) ==
    /\ Upsert(l, a, flags)
    /\ UNCHANGED <<settings, delivery, dsns, sync, posts, repeats, owed, grace>>

Remove(l, a) ==
    /\ members' = [members EXCEPT ![l][a] = NoRow]
    /\ UNCHANGED <<settings, delivery, dsns, sync, posts, repeats, owed, grace>>

(* Broken variant: the score is kept. *)
EnableOnly(l, a) ==
    /\ members[l][a].present
    /\ members' = [members EXCEPT ![l][a].disabled = FALSE]
    /\ UNCHANGED <<settings, delivery, dsns, sync, posts, repeats, owed, grace>>

(* Broken variant: one failure is forgiven instead of all. *)
EnableForgiving(l, a) ==
    /\ members[l][a].present
    /\ members' = [members EXCEPT ![l][a] = [@ EXCEPT !.score = @ - HardWeight, !.disabled = FALSE]]
    /\ UNCHANGED <<settings, delivery, dsns, sync, posts, repeats, owed, grace>>

Enable(l, a) ==
    /\ members[l][a].present
    /\ members' = [members EXCEPT ![l][a] = [@ EXCEPT !.score = 0, !.disabled = FALSE]]
    /\ UNCHANGED <<settings, delivery, dsns, sync, posts, repeats, owed, grace>>

SyncStart(l) ==
    /\ ~sync.running
    /\ sync' = [running |-> TRUE, list |-> l, todo |-> MembersFile[l]]
    /\ UNCHANGED <<settings, members, delivery, dsns, posts, repeats, owed, grace>>

(* One line of the file: subscribed, and neither poster nor moderator. *)
SyncLine(a) ==
    /\ sync.running /\ a \in sync.todo
    /\ Upsert(sync.list, a, [subscribed |-> TRUE, poster |-> FALSE, moderator |-> FALSE])
    /\ sync' = [sync EXCEPT !.todo = @ \ {a}]
    /\ UNCHANGED <<settings, delivery, dsns, posts, repeats, owed, grace>>

(* The list is through, or the command ends early: an error, a signal. *)
SyncEnd ==
    /\ sync.running
    /\ sync' = Idle
    /\ UNCHANGED <<settings, members, delivery, dsns, posts, repeats, owed, grace>>

Next ==
    \/ \E d \in Deliveries, l \in Lists : Start(d, l)
    \/ \E d \in Deliveries, a \in Addresses : Send(d, a)
    \/ \E d \in Deliveries : Leave(d)
    \/ \E l \in Lists, a \in Addresses :
          \/ \E class \in Classes : HandleBounce(l, a, class)
          \/ \E flags \in Roles : Add(l, a, flags)
          \/ Remove(l, a)
          \/ Enable(l, a)
    \/ \E l \in Lists : SyncStart(l)
    \/ \E a \in Addresses : SyncLine(a)
    \/ SyncEnd
    \/ \E t \in Thresholds : Restart(t)

Spec == Init /\ [][Next]_vars

-----------------------------------------------------------------------------
(* Properties. *)

Jobs == {Idle} \cup [running : {TRUE}, list : Lists, todo : SUBSET Addresses]

(* Every variable keeps its shape. *)
TypeOK ==
    /\ threshold \in used /\ used \subseteq Thresholds
    /\ members \in [Lists -> [Addresses -> Rows \cup {NoRow}]]
    /\ delivery \in [Deliveries -> Jobs]
    /\ dsns \in [Lists -> [Addresses -> [Classes -> Nat]]]
    /\ sync \in Jobs
    /\ posts \in 0..MaxPosts /\ repeats \in 0..MaxRepeats
    /\ owed \in [Lists -> [Addresses -> Nat]]
    /\ grace \in [Lists -> [Addresses -> Int]]

(* A member is disabled only with a score that reached a threshold the       *)
(* daemon ran with, and goes on getting mail only with no score, or one that *)
(* stayed below such a threshold, whatever bounces, commands, imports and    *)
(* restarts came in which order. With one threshold: disabled exactly while  *)
(* the score is at it or above.                                              *)
DisabledIffThreshold ==
    \A l \in Lists, a \in Addresses : members[l][a].present =>
        IF members[l][a].disabled
        THEN \E t \in used : members[l][a].score >= t
        ELSE members[l][a].score = 0 \/ \E t \in used : members[l][a].score < t

(* After delivery to a member is disabled, the only copies still sent are    *)
(* those of deliveries that had already read their recipients by then, one   *)
(* each: later posts leave the member out, re-added or imported or not.      *)
LateCopiesBounded ==
    \A l \in Lists, a \in Addresses : Disabled(l, a) => grace[l][a] >= 0

(* A score never exceeds what the member's own copies on that list have      *)
(* failed with: failures on one list never disable delivery on another.      *)
ScoreIsEarned ==
    \A l \in Lists, a \in Addresses :
        members[l][a].present => members[l][a].score <= owed[l][a]

(* Delivery to a disabled member is not resumed by anything but `member      *)
(* enable` (or by removing the member altogether): adding a role again and   *)
(* importing the file both keep the bounce state.                            *)
OnlyEnableResumes ==
    [][\A l \in Lists, a \in Addresses :
          Disabled(l, a) /\ members'[l][a].present /\ ~Disabled(l, a)' => Enable(l, a)]_vars
=============================================================================
