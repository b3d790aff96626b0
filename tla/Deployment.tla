----------------------------- MODULE Deployment -----------------------------
(***************************************************************************)
(* A carriers daemon on its disk: AppState::load reads scripts, list files *)
(* and keys one after the other while an operator edits them, runs setup   *)
(* or restarts the daemon; then mail comes in for the table that was read, *)
(* DSNs of copies sent before the restart included.                        *)
(*                                                                         *)
(* The disk changes at any time; the running process only knows what it    *)
(* read when it started. All lists here are of the domain whose keys setup *)
(* writes.                                                                 *)
(***************************************************************************)
EXTENDS Setup, Routing, FiniteSets

CONSTANTS
    Confs,        \* list file -> the [posting, policy] it may hold
    FirstFiles,   \* the list files at first
    BuiltIn,      \* names of the built-in policies
    ScriptFiles,  \* moderation policies and drop-ins: [folder, name, compiles]
    FirstScripts, \* the scripts on disk at first
    Recipients,   \* subscribers a copy may be for, while nobody touches the disk
    Lasting,      \* those whose copy may be under way while somebody does
    Reports,      \* DSNs: the values of their Status lines, from first to last
    MaxMoves      \* bound: edits and setups

ListFiles == DOMAIN Confs

(* An address is a sequence of symbols, and so is what a DSN has to say.     *)
ASSUME DeploymentAssumption ==
    /\ MaxMoves \in Nat
    /\ Lasting \subseteq Recipients /\ Recipients \subseteq Seq(STRING)
    /\ Reports \subseteq Seq(STRING)
    /\ \A f \in ListFiles : \A conf \in Confs[f] : conf.posting \in Seq(STRING)
    /\ \A f \in DOMAIN FirstFiles : f \in ListFiles /\ FirstFiles[f] \in Confs[f]

VARIABLES
    files,      \* list file -> its content
    scripts,    \* script files on disk
    stage,      \* "down", "engine", "lists", "up": how far the process has come
    engine,     \* scripts the process has compiled
    todo,       \* list files its directory listing still holds
    lists,      \* lowercased posting address -> [file, posting, policy, keys]
    read,       \* history: list file -> what the process read in it
    changed,    \* history: the disk has changed since the process started
    starts,     \* history: how starts ended since the disk last changed
    mail,       \* the copy or the message under way
    moves       \* history: edits and setups, for the bound

disk == <<files, scripts, keys, zone, dns, setups, running, disturbed>>
process == <<stage, engine, todo, lists, read>>
vars == <<disk, process, changed, starts, mail, moves>>

NoMail == [kind |-> "none"]
Failed == [up |-> FALSE, lists |-> <<>>]

Init ==
    /\ SetupInit
    /\ files = FirstFiles /\ scripts = FirstScripts
    /\ stage = "down" /\ engine = {} /\ todo = {} /\ lists = <<>> /\ read = <<>>
    /\ changed = FALSE /\ starts = {} /\ mail = NoMail /\ moves = 0

-----------------------------------------------------------------------------
(* Start-up: AppState::load. *)

Start ==
    /\ stage = "down"
    /\ stage' = "engine" /\ changed' = FALSE
    /\ UNCHANGED <<disk, engine, todo, lists, read, starts, mail, moves>>

(* The process ends; nothing but the disk outlives it. *)
Gone == stage' = "down" /\ engine' = {} /\ todo' = {} /\ lists' = <<>> /\ read' = <<>>

(* A start over a disk nobody touched meanwhile came out like this. *)
Outcome(end) == starts' = IF changed THEN starts ELSE starts \cup {end}

Fail == Gone /\ Outcome(Failed) /\ UNCHANGED <<disk, changed, mail, moves>>

(* load_root: every script compiles, and no moderation policy takes a        *)
(* built-in name.                                                            *)
Loadable(s) == s.compiles /\ ~(s.folder = "moderation_policies" /\ s.name \in BuiltIn)
Known(policy) ==
    \/ policy \in BuiltIn
    \/ \E s \in engine : s.folder = "moderation_policies" /\ s.name = policy

(* The engine is compiled, and the lists directory opened. *)
LoadEngine ==
    /\ stage = "engine"
    /\ \/ /\ \A s \in scripts : Loadable(s)
          /\ engine' = scripts /\ todo' = DOMAIN files /\ stage' = "lists"
          /\ UNCHANGED <<disk, lists, read, changed, starts, mail, moves>>
       \/ (\E s \in scripts : ~Loadable(s)) /\ Fail

(* List::load: the file is there and names a posting address, and its three  *)
(* keys parse.                                                               *)
GoodFile(f) ==
    /\ f \in DOMAIN files /\ ValidPosting(files[f].posting)
    /\ \A path \in Paths : keys[path] \notin {Nothing, Torn}

(* A map or a directory with an entry put in, over the one of that name. *)
With(map, name, value) == [x \in DOMAIN map \cup {name} |-> IF x = name THEN value ELSE map[x]]

Entry(f) == [file |-> f, posting |-> files[f].posting, policy |-> files[f].policy, keys |-> keys]

(* List::load reads the list file and then the keys one by one, which is one *)
(* step here; what is stated of a start is stated of a disk that stays as it *)
(* was while it lasted.                                                      *)
Insert(f) ==
    /\ lists' = With(lists, Lower(files[f].posting), Entry(f))
    /\ read' = With(read, f, files[f])
    /\ todo' = todo \ {f}
    /\ UNCHANGED <<disk, stage, engine, changed, starts, mail, moves>>

(* Broken variant: a bad file ends the listing, and the start goes on. *)
LoadFileOrStop(f) ==
    /\ stage = "lists" /\ f \in todo
    /\ IF GoodFile(f) THEN Insert(f)
       ELSE todo' = {} /\ UNCHANGED <<disk, stage, engine, lists, read, changed, starts, mail, moves>>

(* load_lists takes the files as the directory hands them out; the table is  *)
(* keyed by address, so that a later file replaces an earlier one.           *)
LoadFile(f) ==
    /\ stage = "lists" /\ f \in todo
    /\ IF GoodFile(f) THEN Insert(f) ELSE Fail

(* validate_policies, over the lists that are in the table. *)
Validate ==
    /\ stage = "lists" /\ todo = {}
    /\ IF \A a \in DOMAIN lists : Known(lists[a].policy)
       THEN /\ stage' = "up" /\ Outcome([up |-> TRUE, lists |-> lists])
            /\ UNCHANGED <<disk, engine, todo, lists, read, changed, mail, moves>>
       ELSE Fail

(* Only copies to Lasting recipients are under way while anything else goes on. *)
Settled == mail.kind = "none" \/ (mail.kind = "copy" /\ mail.recipient \in Lasting)

(* Stopped or killed, at any point. *)
Stop ==
    /\ stage # "down" /\ Settled
    /\ Gone /\ changed' = FALSE
    /\ UNCHANGED <<disk, starts, mail, moves>>

-----------------------------------------------------------------------------
(* The operator. *)

Move == moves < MaxMoves /\ Settled /\ moves' = moves + 1
Touched == changed' = (stage # "down") /\ starts' = {}

(* A list file is written, renamed over or removed. *)
EditList(f) ==
    /\ Move /\ Touched
    /\ \/ \E conf \in Confs[f] : files' = With(files, f, conf)
       \/ files' = [g \in DOMAIN files \ {f} |-> files[g]]
    /\ files' # files
    /\ UNCHANGED <<scripts, setupVars, process, mail>>

EditScript(s) ==
    /\ Move /\ Touched
    /\ scripts' = IF s \in scripts THEN scripts \ {s} ELSE scripts \cup {s}
    /\ UNCHANGED <<files, setupVars, process, mail>>

(* A step of carriers setup, or the zone being published. *)
RunSetup ==
    /\ mail = NoMail
    /\ SetupStep \/ Publish
    /\ IF setups' # setups THEN Move ELSE UNCHANGED moves
    /\ IF keys' # keys THEN Touched ELSE UNCHANGED <<changed, starts>>
    /\ UNCHANGED <<files, scripts, process, mail>>

-----------------------------------------------------------------------------
(* Mail. *)

(* Bound: what becomes of an address depends on no key, so mail only comes   *)
(* and goes where no setup has run.                                          *)
MailFlows == stage = "up" /\ mail = NoMail /\ setups = 0

(* send_all hands over a copy under its VERP return path. *)
SendCopy(a, recipient) ==
    /\ MailFlows /\ a \in DOMAIN lists
    /\ recipient \in Lasting \/ moves = 0
    /\ mail' = [kind |-> "copy", posting |-> lists[a].posting, recipient |-> recipient,
                path |-> Verp(LocalPart(lists[a].posting), Domain(lists[a].posting), recipient)]
    /\ UNCHANGED <<disk, process, changed, starts, moves>>

(* bounce::classify takes the first line that looks like Status: 4.x or 5.x. *)
BounceKind(report) ==
    LET failures == {i \in DOMAIN report : report[i] \in {"4", "5"}}
    IN  IF failures = {} THEN "unknown" ELSE IF report[FirstOf(failures)] = "5" THEN "hard" ELSE "soft"

(* It fails, and its DSN comes to that path, now or after a restart. *)
ReturnCopy(report) ==
    /\ stage = "up" /\ mail.kind = "copy"
    /\ mail' = [kind |-> "returned", posting |-> mail.posting, recipient |-> mail.recipient,
                report |-> report, penalty |-> BounceKind(report), answer |-> Classify(lists, mail.path)]
    /\ UNCHANGED <<disk, process, changed, starts, moves>>

(* Somebody writes to an address. *)
Write(address) ==
    /\ MailFlows
    /\ mail' = [kind |-> "post", address |-> address, answer |-> Classify(lists, address)]
    /\ UNCHANGED <<disk, process, changed, starts, moves>>

Done ==
    /\ mail.kind \in {"returned", "post"}
    /\ mail' = NoMail
    /\ UNCHANGED <<disk, process, changed, starts, moves>>

Addresses == UNION {{conf.posting, Lower(conf.posting)} : conf \in UNION {Confs[f] : f \in ListFiles}}

Next ==
    \/ Start \/ LoadEngine \/ Validate \/ Stop \/ RunSetup \/ Done
    \/ \E f \in ListFiles : LoadFile(f) \/ EditList(f)
    \/ \E s \in ScriptFiles : EditScript(s)
    \/ \E a \in DOMAIN lists, recipient \in Recipients : SendCopy(a, recipient)
    \/ \E report \in Reports : ReturnCopy(report)
    \/ \E address \in Addresses : Write(address)

Spec == Init /\ [][Next]_vars

-----------------------------------------------------------------------------
(* Properties. *)

(* The files the running process read that name this address. *)
Owners(address) == {f \in DOMAIN read : Lower(read[f].posting) = Lower(address)}

(* What a mail address looks like: something before an @, and a domain       *)
(* without = after the first one (quoted local parts may hold more of both). *)
WellFormed(address) ==
    /\ Positions(address, "@") # {}
    /\ LET at == FirstOf(Positions(address, "@")) IN
       at > 1 /\ at < Len(address) /\ \A i \in Positions(address, "=") : i < at

(* What is before the domain. *)
Mailbox(address) == UpTo(address, LastOf(Positions(address, "@")) - 1)

(* A posting address with one @ that is no bounce address of another list.   *)
Plain(address) ==
    /\ Markers(Mailbox(address)) = {}
    /\ Positions(Mailbox(address), "@") = {}

(* A failed copy is attributed to exactly the subscriber it was sent for and *)
(* the list that has its posting address when the DSN comes, whatever        *)
(* restarts and edits lie between and also when a local part looks like a    *)
(* part of a return path; to nobody when that address is gone or the         *)
(* subscriber has neither an @ nor an =. Nothing is said of a subscriber     *)
(* with an = and no @ before it (WellFormed), who shares a return path with  *)
(* another, or with an = behind a quoted @, nor of a posting address with    *)
(* two @ or with +bounce= in it (Plain).                                     *)
(* A report whose first status is a failure weighs by that one, whatever the *)
(* returned message says behind it; one without a failure anywhere weighs    *)
(* nothing (pipeline.rs verp, decode_verp; smtp.rs handle_bounce; bounce.rs).*)
BounceComesHome ==
    mail.kind = "returned" /\ stage = "up" /\ Plain(mail.posting) =>
        /\ WellFormed(mail.recipient) =>
              IF Owners(mail.posting) = {} THEN mail.answer.kind # "bounce"
              ELSE /\ mail.answer.kind = "bounce" /\ mail.answer.recipient = mail.recipient
                   /\ mail.answer.list \in Owners(mail.posting)
        /\ Positions(mail.recipient, "@") \cup Positions(mail.recipient, "=") = {} =>
              ~(mail.answer.kind = "bounce" /\ mail.answer.list \in Owners(mail.posting))
        /\ mail.report # <<>> /\ mail.report[1] = "5" => mail.penalty = "hard"
        /\ mail.report # <<>> /\ mail.report[1] = "4" => mail.penalty = "soft"
        /\ {"4", "5"} \cap {mail.report[i] : i \in DOMAIN mail.report} = {} => mail.penalty = "unknown"

(* What is written to an address that a list file named when the daemon      *)
(* started is a post to the list of such a file, under a policy that is      *)
(* loaded, however the disk changed since; also when the address looks like  *)
(* a bounce address, unless it is one of a list that exists (state.rs        *)
(* load_lists, validate_policies; smtp.rs classify_recipient).               *)
PostsReachTheirList ==
    mail.kind = "post" /\ stage = "up" =>
        \/ /\ mail.answer.kind = "post" /\ mail.answer.list \in Owners(mail.address)
           /\ Known(lists[Lower(mail.address)].policy)
        \/ /\ mail.answer.kind = "bounce"
           /\ mail.answer.list \notin Owners(mail.address)
           /\ Markers(Mailbox(mail.address)) # {}
        \/ mail.answer = Nobody /\ Owners(mail.address) = {}

(* The order in which a directory hands out its entries decides nothing:     *)
(* over an unchanged disk every start ends alike, unless two list files      *)
(* have one posting address (state.rs load_lists, which fails on the first   *)
(* bad file and replaces silently).                                          *)
SameStart ==
    Cardinality(starts) > 1 =>
        \E f, g \in DOMAIN files : f # g /\ Lower(files[f].posting) = Lower(files[g].posting)

(* What the daemon signs, a recipient can verify: the zone file describes    *)
(* the key files beside it once a setup has run alone and to its end, and    *)
(* when that zone is published and the disk is as the daemon read it, every  *)
(* list signs with the published keys (main.rs setup, crypto.rs              *)
(* load_dkim_key).                                                           *)
SignaturesVerify ==
    /\ ZoneMatchesKeys
    /\ stage = "up" /\ ~changed /\ ~disturbed /\ dns = zone /\ (\A r \in Runs : ~UnderWay(r)) =>
          \A a \in DOMAIN lists : lists[a].keys = WrittenBy(dns)
=============================================================================
