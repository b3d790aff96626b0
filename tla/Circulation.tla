----------------------------- MODULE Circulation -----------------------------
(***************************************************************************)
(* Posts that travel between lists: lists are subscribed to one another,   *)
(* people answer what they receive, and every list that a copy passes      *)
(* edits and signs it before it goes on (transform.rs, sign.rs, loop.sieve,*)
(* munge-from.sieve, subject-prefix.sieve, list-headers.sieve, deliver.rs).*)
(*                                                                         *)
(* A list handles a copy in one step here; Distribution has the steps, the *)
(* errors and the queue, PolicyChain the decision.                         *)
(***************************************************************************)
EXTENDS Naturals, Sequences, SequencesExt, FiniteSets

CONSTANTS
    Lists,
    People,
    Members,      \* subscribers of each list, which may be lists
    Symbols,
    ListId,       \* the list_id of each list, a sequence of symbols
    Tags,
    Tag,          \* the subject_prefix of each list in brackets, or NoTag
    NoTag,
    NoAddress,    \* a From nobody can parse, or no Reply-To
    OptionalHeaders, \* signed List-* headers that not every list publishes
    Publishes,    \* which of them each list has a value for
    MayMunge,     \* lists with an "after" script that files into munge-from
    MayWithhold,  \* lists with an "after" script that files into no-dkim
    MayRefuse,    \* lists whose policy may turn a post away
    Domain,       \* the organizational domain of each list and person
    Enforcing,    \* domains that ask to refuse what fails DMARC in their name
    Starts,       \* who starts threads, and on which list
    Forms,        \* what a new post may look like
    MaxPosts,     \* bound: new posts
    MaxWritten    \* bound: posts and answers together

(* A Subject is a sequence of tags, markers that end in ": " and other text. *)
Marker == "re"
Text == "text"
Subjects == Seq(Tags \cup {Marker, Text})
Addresses == Lists \cup People \cup {NoAddress}

ASSUME CirculationAssumption ==
    /\ IsFiniteSet(Lists)
    /\ Lists \cap People = {} /\ NoAddress \notin Lists \cup People
    /\ Members \in [Lists -> SUBSET (Lists \cup People)]
    /\ ListId \in [Lists -> Seq(Symbols)]
    /\ Tag \in [Lists -> Tags \cup {NoTag}] /\ Marker \notin Tags
    /\ Publishes \in [Lists -> SUBSET OptionalHeaders]
    /\ Lists \cup People \subseteq DOMAIN Domain
    /\ MayMunge \subseteq Lists /\ MayWithhold \subseteq Lists /\ MayRefuse \subseteq Lists
    /\ Starts \subseteq People \X Lists
    /\ \A f \in Forms : /\ f.identified \in BOOLEAN /\ f.named \in BOOLEAN
                       /\ f.subject \in Subjects /\ f.chained \in BOOLEAN
                       /\ f.dkim \in BOOLEAN /\ f.spf \in BOOLEAN
    /\ MaxPosts \in Nat /\ MaxWritten \in Nat

VARIABLES
    transit,    \* copies on their way to a list
    mailboxes,  \* copies that reached a person
    posts,      \* posts written so far
    seen,       \* [Lists -> posts whose Message-ID is in seen_messages]
    looped      \* history: the copies discarded as loops

vars == <<transit, mailboxes, posts, seen, looped>>

(* A message: what it says, what the author wrote of it, whether a signature *)
(* of the author's domain covers that and whether it came from a host of     *)
(* that domain, the List-Id headers and ARC seals from first to last or last *)
(* to first as the code has them, the optional List-* headers there are one  *)
(* or more of, the signatures of lists, the recipients its DKIM2 chain names,*)
(* and the way it took.                                                      *)
Contents == [from : Addresses, replyTo : Addresses, subject : Subjects]
Signatures == [list : Lists, over : Contents, heads : SUBSET OptionalHeaders]
Messages ==
    [post : Nat, identified : BOOLEAN,
     from : Addresses, replyTo : Addresses, subject : Subjects,
     signed : Contents, dkim : BOOLEAN, spf : BOOLEAN,
     ids : Seq(Seq(Symbols)), heads : SUBSET OptionalHeaders, seals : Seq(BOOLEAN),
     own : Seq(Signatures), links : Seq(Lists \cup People),
     route : Seq([list : Lists, munged : BOOLEAN, withheld : BOOLEAN])]

(* What a mail client writes. *)
Written(post, identified, dkim, spf, from, subject, chain) ==
    [post |-> post, identified |-> identified,
     from |-> from, replyTo |-> NoAddress, subject |-> subject,
     signed |-> [from |-> from, replyTo |-> NoAddress, subject |-> subject],
     dkim |-> dkim, spf |-> spf,
     ids |-> <<>>, heads |-> {}, seals |-> <<>>, own |-> <<>>, links |-> chain, route |-> <<>>]

Init ==
    /\ transit = {} /\ mailboxes = {} /\ looped = {}
    /\ posts = 0
    /\ seen = [l \in Lists |-> {}]

-----------------------------------------------------------------------------
(* The front MTA and the people. *)

Post(p, l) ==
    /\ posts < MaxPosts
    /\ \E f \in Forms :
          transit' = transit \cup
              {[to |-> l, msg |-> Written(posts + 1, f.identified, f.dkim, f.spf,
                                          IF f.named THEN p ELSE NoAddress, f.subject,
                                          IF f.chained THEN <<l>> ELSE <<>>)]}
    /\ posts' = posts + 1
    /\ UNCHANGED <<mailboxes, seen, looped>>

(* An answer goes to a list the copy came through. *)
Answer(d, l) ==
    /\ posts < MaxWritten
    /\ d \in mailboxes
    /\ \E i \in DOMAIN d.msg.route : d.msg.route[i].list = l
    /\ transit' = transit \cup
           {[to |-> l, msg |-> Written(posts + 1, TRUE, TRUE, TRUE, d.to, <<Marker>> \o d.msg.subject, <<>>)]}
    /\ posts' = posts + 1
    /\ UNCHANGED <<mailboxes, seen, looped>>

-----------------------------------------------------------------------------
(* What a list looks at. *)

(* Broken variant: only the List-Id on top counts. *)
LoopsOnTop(l, msg) == msg.ids # <<>> /\ ListId[l] \in SubSeqs(Head(msg.ids))

(* loop.sieve: ":contains" looks for the id anywhere inside any List-Id. *)
Loops(l, msg) == \E i \in DOMAIN msg.ids : ListId[l] \in SubSeqs(msg.ids[i])

Duplicate(l, msg) == msg.identified /\ msg.post \in seen[l]

(* Whether the author's signature verifies, or would if there was one. *)
Content(msg) == [from |-> msg.from, replyTo |-> msg.replyTo, subject |-> msg.subject]
Intact(msg) == msg.signed = Content(msg)
Verified(msg) == msg.dkim /\ Intact(msg)

(* Whether a list's signature still verifies. It names every header of       *)
(* SIGNED_HEADERS, and one that was missing may not be added later; one more *)
(* on top of those it covers, as every list adds a List-Id, does no harm.    *)
Stands(signature, msg) ==
    signature.over = Content(msg) /\ msg.heads \subseteq signature.heads

(* verify_dmarc: a signature that verifies, of the domain in From ...        *)
DkimAligned(msg) ==
    \/ Verified(msg)
    \/ \E k \in DOMAIN msg.own : /\ Stands(msg.own[k], msg)
                                 /\ Domain[msg.own[k].list] = Domain[msg.from]

(* ... or a host of that domain: a copy comes from the smarthost of the list *)
(* that its VERP return path names.                                          *)
SpfAligned(msg) ==
    IF msg.route = <<>> THEN msg.spf ELSE Domain[Last(msg.route).list] = Domain[msg.from]

(* The verdict of a recipient, who does not look at DKIM2. *)
Passes(msg) == msg.from # NoAddress /\ (DkimAligned(msg) \/ SpfAligned(msg))

(* evaluate_dmarc also takes an aligned DKIM2 chain; whether one that began  *)
(* at the author's verifies here is left open.                               *)
MayPass(msg) == Passes(msg) \/ (msg.links # <<>> /\ msg.dkim)

(* The policy of the domain in From. *)
Enforces(msg) == msg.from # NoAddress /\ Domain[msg.from] \in Enforcing

-----------------------------------------------------------------------------
(* What finalize does to a message that goes out, in this order. *)

(* Broken variant: the address to answer to is left alone. *)
MungedFromOnly(l, msg) == [msg EXCEPT !.from = l]

(* munge_from_env: the sender the From names, or the list for want of one. *)
OriginalAddress(l, msg) == IF msg.from = NoAddress THEN l ELSE msg.from

(* munge-from.sieve: both headers are replaced. *)
Munged(l, msg) == [msg EXCEPT !.from = l, !.replyTo = OriginalAddress(l, msg)]

(* Broken variant: the tag is looked for at the very start only. *)
AtStart(tag, subject) == subject # <<>> /\ Head(subject) = tag

(* The two patterns of subject-prefix.sieve. *)
AtFront(tag, subject) ==
    \/ subject # <<>> /\ Head(subject) = tag
    \/ \E i \in 2..Len(subject) : subject[i - 1] = Marker /\ subject[i] = tag

(* subject_prefix_env: None for a list without a tag. *)
HasTag(l) == Tag[l] # NoTag

(* The rest of subject-prefix.sieve; no Subject and an empty one end alike. *)
Prefixed(l, msg) ==
    IF HasTag(l) /\ ~AtFront(Tag[l], msg.subject)
    THEN [msg EXCEPT !.subject = <<Tag[l]>> \o @]
    ELSE msg

(* Broken variant: the header of another list is replaced. *)
WithListHeadersReplacing(l, msg) ==
    [msg EXCEPT !.ids = <<ListId[l]>>, !.heads = @ \cup Publishes[l]]

(* list-headers.sieve adds, and never removes: a List-Id and a List-Post     *)
(* always, the others as far as the list has a value for them.               *)
WithListHeaders(l, msg) ==
    [msg EXCEPT !.ids = <<ListId[l]>> \o @, !.heads = @ \cup Publishes[l]]

(* Broken variant: the seal records what is left of the message. *)
SealedOutbound(original, msg) ==
    [msg EXCEPT !.seals = Append(@, Verified(msg))]

(* sign_and_seal: the ARC seal records the message as it came in. *)
Sealed(original, msg) ==
    [msg EXCEPT !.seals = Append(@, Verified(original))]

(* Broken variant: the signature covers the message as it came in. *)
SignedInbound(l, original, msg, withheld) ==
    IF withheld THEN msg
    ELSE [msg EXCEPT !.own =
             Append(@, [list |-> l, over |-> Content(original), heads |-> msg.heads])]

(* The rest of it: the list's own signature, over what goes out. *)
Signed(l, original, msg, withheld) ==
    IF withheld THEN msg
    ELSE [msg EXCEPT !.own =
             Append(@, [list |-> l, over |-> Content(msg), heads |-> msg.heads])]

(* Broken variant: one signature for all recipients. *)
LinkedOnce(l, msg, withheld, r) ==
    IF withheld \/ msg.links = <<>> THEN msg
    ELSE [msg EXCEPT !.links = Append(@, CHOOSE m \in Members[l] : TRUE)]

(* should_sign_dkim2 and sign_dkim2_for_delivery, for one recipient. *)
Linked(l, msg, withheld, r) ==
    IF withheld \/ msg.links = <<>> THEN msg
    ELSE [msg EXCEPT !.links = Append(@, r)]

(* finalize up to the message all recipients share. The route is history:    *)
(* who passed the copy on, and whether it was munged or left unsigned.       *)
Prepared(l, msg, munge, withheld) ==
    LET authored == IF munge THEN Munged(l, msg) ELSE msg
        augmented == WithListHeaders(l, Prefixed(l, authored))
    IN [Signed(l, msg, Sealed(msg, augmented), withheld) EXCEPT
            !.route = Append(@, [list |-> l, munged |-> munge, withheld |-> withheld])]

-----------------------------------------------------------------------------
(* A list takes one copy. *)

DropLoop(d) ==
    /\ d \in transit
    /\ Loops(d.to, d.msg)
    /\ transit' = transit \ {d}
    /\ looped' = looped \cup {d}
    /\ UNCHANGED <<mailboxes, posts, seen>>

DropDuplicate(d) ==
    /\ d \in transit
    /\ ~Loops(d.to, d.msg) /\ Duplicate(d.to, d.msg)
    /\ transit' = transit \ {d}
    /\ UNCHANGED <<mailboxes, posts, seen, looped>>

Record(d) ==
    seen' = IF d.msg.identified THEN [seen EXCEPT ![d.to] = @ \cup {d.msg.post}] ELSE seen

(* Discarded or refused by the policy, or held and never approved; or        *)
(* refused by a DMARC gate.                                                  *)
Refuse(d) ==
    /\ d \in transit
    /\ d.to \in MayRefuse \/ (~Passes(d.msg) /\ Enforces(d.msg))
    /\ ~Loops(d.to, d.msg) /\ ~Duplicate(d.to, d.msg)
    /\ Record(d)
    /\ transit' = transit \ {d}
    /\ UNCHANGED <<mailboxes, posts, looped>>

(* Broken variant: the copy is offered again although it was distributed. *)
DistributeAgain(d) ==
    /\ d \in transit
    /\ ~Loops(d.to, d.msg) /\ ~Duplicate(d.to, d.msg)
    /\ MayPass(d.msg)
    /\ Record(d)
    /\ LET msg == Prepared(d.to, d.msg, FALSE, FALSE)
           copies == {[to |-> r, msg |-> Linked(d.to, msg, FALSE, r)] : r \in Members[d.to]}
       IN /\ transit' = transit \cup {c \in copies : c.to \in Lists}
          /\ mailboxes' = mailboxes \cup {c \in copies : c.to \in People}
    /\ UNCHANGED <<posts, looped>>

(* Distributed, at once or after an approval: one copy for each subscriber.  *)
(* The gates let nothing through that fails in the name of an enforcing      *)
(* domain, and file what does not pass into no-dkim.                         *)
Distribute(d) ==
    /\ d \in transit
    /\ ~Loops(d.to, d.msg) /\ ~Duplicate(d.to, d.msg)
    /\ Record(d)
    /\ \E munge, withheld \in BOOLEAN :
          LET msg == Prepared(d.to, d.msg, munge, withheld)
              copies == {[to |-> r, msg |-> Linked(d.to, msg, withheld, r)] : r \in Members[d.to]}
          IN /\ munge => d.to \in MayMunge
             /\ MayPass(d.msg) \/ (withheld /\ ~Enforces(d.msg))
             /\ withheld => ~Passes(d.msg) \/ d.to \in MayWithhold
             /\ transit' = (transit \ {d}) \cup {c \in copies : c.to \in Lists}
             /\ mailboxes' = mailboxes \cup {c \in copies : c.to \in People}
    /\ UNCHANGED <<posts, looped>>

Handle(d) == DropLoop(d) \/ DropDuplicate(d) \/ Refuse(d) \/ Distribute(d)

Next ==
    \/ \E s \in Starts : Post(s[1], s[2])
    \/ \E d \in mailboxes, l \in Lists : Answer(d, l)
    \/ \E d \in transit : Handle(d)

Spec == Init /\ [][Next]_vars

(* The front MTA delivers what it took for a list. *)
FairSpec == Spec /\ WF_vars(\E d \in transit : Handle(d))

-----------------------------------------------------------------------------
(* Properties. *)

Copies == transit \cup mailboxes
Passed(msg) == {msg.route[i].list : i \in DOMAIN msg.route}
Munges(msg) == Cardinality({i \in DOMAIN msg.route : msg.route[i].munged})
Path(d) == [i \in 1..(Len(d.msg.route) + 1) |->
               IF i <= Len(d.msg.route) THEN d.msg.route[i].list ELSE d.to]
AnswerTo(msg) == IF msg.replyTo # NoAddress THEN msg.replyTo ELSE msg.from

(* Copies are on their way to lists or with people, and every list that a    *)
(* copy passed left exactly one List-Id and one seal on it.                  *)
TypeOK ==
    /\ transit \subseteq [to : Lists, msg : Messages]
    /\ mailboxes \subseteq [to : People, msg : Messages]
    /\ looped \subseteq [to : Lists, msg : Messages]
    /\ \A d \in Copies :
          /\ Len(d.msg.ids) = Len(d.msg.route)
          /\ Len(d.msg.seals) = Len(d.msg.route)
    /\ posts \in Nat
    /\ seen \in [Lists -> SUBSET Nat]

(* No copy passes a list twice, with or without a Message-ID, whichever way  *)
(* the lists are subscribed to one another: loop.sieve needs to see the      *)
(* List-Id of every list the copy passed, not only of the last.              *)
NeverThroughAgain ==
    \A d \in Copies : \A i, j \in DOMAIN d.msg.route :
        d.msg.route[i].list = d.msg.route[j].list => i = j

(* The tags of all lists, how many lists have this one, how often it occurs, *)
(* and the tags an answer has behind its marker, where they are found again. *)
TagNames == {Tag[l] : l \in {m \in Lists : HasTag(m)}}
Sharing(tag) == Cardinality({l \in Lists : Tag[l] = tag})
Occurrences(tag, subject) == Cardinality({i \in DOMAIN subject : subject[i] = tag})
Answered(subject) == {subject[i] : i \in {j \in 2..Len(subject) : subject[j - 1] = Marker}}

(* How often a tag may come to occur in a thread that starts like this.      *)
Limit(tag, subject) ==
    Occurrences(tag, subject) + Sharing(tag) * Cardinality(TagNames \ Answered(subject))

(* However long a thread gets and however often it crosses from one list to  *)
(* another, a tag is not added more than once for every tag there is and     *)
(* every list that has it, counted from the Subject that allows most (which  *)
(* thread a copy belongs to is not told apart), and what a list with a tag   *)
(* sends has it at the front ("never stacked").                              *)
TagsNeverPileUp ==
    \A d \in Copies :
        LET subject == d.msg.subject IN
        /\ \A tag \in TagNames :
              \E f \in Forms : Occurrences(tag, subject) <= Limit(tag, f.subject)
        /\ d.msg.route # <<>> /\ HasTag(Last(d.msg.route).list)
              => AtFront(Tag[Last(d.msg.route).list], subject)

(* The seals tell what every hop received: the first one of a signed post    *)
(* always says that the author's signature was good, later ones say so until *)
(* a list edited what the author signed, it stays good unless some list on   *)
(* the way was asked to edit it, and no seal claims a signature nobody made. *)
SealsTellIngress ==
    \A d \in Copies :
        LET seals == d.msg.seals IN
        /\ seals # <<>> /\ d.msg.dkim => Head(seals)
        /\ \A i, j \in DOMAIN seals : i < j /\ seals[j] => seals[i]
        /\ Verified(d.msg) => \A i \in DOMAIN seals : seals[i]
        /\ ~d.msg.dkim => \A i \in DOMAIN seals : ~seals[i]
        /\ ~Intact(d.msg) => \E l \in Passed(d.msg) : l \in MayMunge \/ HasTag(l)

(* The DKIM2 chain names the recipient of every hop: where every list on the *)
(* way extended it, it is the path of the copy, whoever got it and however   *)
(* many copies of it were made on the way.                                   *)
LinksFollowPath ==
    \A d \in Copies :
        /\ d.msg.links # <<>> /\ (\A i \in DOMAIN d.msg.route : ~d.msg.route[i].withheld)
              => d.msg.links = Path(d)
        /\ \A i \in DOMAIN d.msg.links : Contains(Path(d), d.msg.links[i])

(* An answer to a post that was munged at most once goes to its author,      *)
(* though From and Reply-To are replaced and other lists edit the copy too,  *)
(* as munge-from.sieve says ("so replies still reach the human"). It says so *)
(* of every munged copy, but a second list that munges takes the address of  *)
(* the first for the sender's; nothing is stated of such copies.             *)
AnswersFindTheAuthor ==
    \A d \in Copies :
        d.msg.signed.from # NoAddress /\ Munges(d.msg) <= 1 => AnswerTo(d.msg) = d.msg.signed.from

(* Every list on the way that edits also munges, and signs what it munges    *)
(* ("so the message still goes out under the list's own aligned identity").  *)
Upright(msg) ==
    \A i \in DOMAIN msg.route :
        /\ HasTag(msg.route[i].list) => msg.route[i].munged
        /\ msg.route[i].munged => ~msg.route[i].withheld

(* The optional headers of the first n lists on the way, and the list that   *)
(* munged last; whether a later one published what that one could not sign.  *)
Published(msg, n) == UNION {Publishes[msg.route[i].list] : i \in 1..n}
MungedLast(msg, i) ==
    msg.route[i].munged /\ \A k \in DOMAIN msg.route : msg.route[k].munged => k <= i
NothingNew(msg) ==
    \A i \in DOMAIN msg.route :
        MungedLast(msg, i) => Published(msg, Len(msg.route)) \subseteq Published(msg, i)

(* DMARC at the end of any path: what the author's domain signed passes      *)
(* there, along upright lists, unless a list after the last munging one      *)
(* brings a signed header that was not there and so spoils its signature. A  *)
(* post nobody vouches for gets no signature from any list on its way,       *)
(* unless one of them munges it or shares the domain of its author, whose    *)
(* SPF then passes for the author's name; and in the name of an enforcing    *)
(* domain it gets past no list at all.                                       *)
DmarcTravels ==
    \A d \in Copies :
        LET msg == d.msg
            Vouched == msg.dkim \/ msg.spf
            author == msg.signed.from
        IN author # NoAddress =>
             /\ msg.dkim /\ Upright(msg) /\ NothingNew(msg) => Passes(msg)
             /\ ~Vouched /\ msg.own # <<>> =>
                   \E i \in DOMAIN msg.route :
                       msg.route[i].munged \/ Domain[msg.route[i].list] = Domain[author]
             /\ ~Vouched /\ msg.route # <<>> => Domain[author] \notin Enforcing

(* A post comes to rest whatever circles the subscriptions have: the front   *)
(* MTA is not kept busy by two lists that send each other one post.          *)
CirculationEnds == []<>(transit = {})

(* What loop.sieve says of the messages it discards: "has already been       *)
(* distributed through this list and is looping back". A copy of another     *)
(* list whose List-Id merely contains this one's is discarded as well.       *)
OnlyLoopsDiscarded == \A d \in looped : d.to \in Passed(d.msg)
=============================================================================
