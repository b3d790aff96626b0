-------------------------- MODULE CirculationProofs --------------------------
(***************************************************************************)
(* Proofs about Circulation, for any lists and people, any subscriptions   *)
(* between them, any list ids and tags, and any number of posts.           *)
(***************************************************************************)
EXTENDS Circulation, SequenceTheorems, FiniteSetTheorems, TLAPS

USE CirculationAssumption

Hops == [list : Lists, munged : BOOLEAN, withheld : BOOLEAN]
Everybody == Lists \cup People

(* A copy that a mail client just wrote, and one that a list sent on.        *)
Fresh(c) ==
    \E post \in Nat, from \in Addresses, subject \in Subjects, l \in Lists :
        \E identified, dkim, spf \in BOOLEAN, chain \in {<<>>, <<l>>} :
            c = [to |-> l, msg |-> Written(post, identified, dkim, spf, from, subject, chain)]

Sent(l, msg, munge, withheld, r) == Linked(l, Prepared(l, msg, munge, withheld), withheld, r)

Onward(d, c) ==
    /\ d.to \in Lists /\ d.msg \in Messages /\ ~Loops(d.to, d.msg)
    /\ \E munge, withheld \in BOOLEAN, r \in Everybody :
          /\ munge => d.to \in MayMunge
          /\ MayPass(d.msg) \/ (withheld /\ ~Enforces(d.msg))
          /\ c = [to |-> r, msg |-> Sent(d.to, d.msg, munge, withheld, r)]

-----------------------------------------------------------------------------
(* What a hop does to each part of a message.                                *)
Effect(l, msg, munge, withheld, r, new) ==
    /\ new \in Messages
    /\ new.signed = msg.signed
    /\ new.from = IF munge THEN l ELSE msg.from
    /\ new.replyTo = IF munge THEN OriginalAddress(l, msg) ELSE msg.replyTo
    /\ new.subject = IF HasTag(l) /\ ~AtFront(Tag[l], msg.subject)
                     THEN <<Tag[l]>> \o msg.subject ELSE msg.subject
    /\ new.ids = <<ListId[l]>> \o msg.ids
    /\ new.seals = Append(msg.seals, Verified(msg))
    /\ new.dkim = msg.dkim /\ new.spf = msg.spf
    /\ new.post = msg.post /\ new.identified = msg.identified
    /\ new.heads = msg.heads \cup Publishes[l]
    /\ new.own = IF withheld THEN msg.own
                 ELSE Append(msg.own, [list |-> l, over |-> Content(new), heads |-> new.heads])
    /\ new.links = IF withheld \/ msg.links = <<>> THEN msg.links ELSE Append(msg.links, r)
    /\ new.route = Append(msg.route, [list |-> l, munged |-> munge, withheld |-> withheld])

(* Prepared and Linked together do what Effect says.                         *)
LEMMA HopEffect ==
    ASSUME NEW l \in Lists, NEW msg \in Messages, NEW munge \in BOOLEAN,
           NEW withheld \in BOOLEAN, NEW r \in Everybody
    PROVE  Effect(l, msg, munge, withheld, r, Sent(l, msg, munge, withheld, r))
<1> DEFINE authored == IF munge THEN Munged(l, msg) ELSE msg
           prefixed == Prefixed(l, authored)
           augmented == WithListHeaders(l, prefixed)
           sealed == Sealed(msg, augmented)
           signed == Signed(l, msg, sealed, withheld)
           hop == [list |-> l, munged |-> munge, withheld |-> withheld]
           prepared == [signed EXCEPT !.route = Append(@, hop)]
           linked == Linked(l, prepared, withheld, r)
           Same(a, b) == /\ a.signed = b.signed /\ a.dkim = b.dkim /\ a.spf = b.spf
                         /\ a.post = b.post /\ a.identified = b.identified
           Alike(a, b) == Same(a, b) /\ a.from = b.from /\ a.replyTo = b.replyTo
<1> HIDE DEF authored, prefixed, augmented, sealed, signed, hop, prepared, linked
<1>1. /\ authored \in Messages
      /\ authored.from = IF munge THEN l ELSE msg.from
      /\ authored.replyTo = IF munge THEN OriginalAddress(l, msg) ELSE msg.replyTo
      /\ Same(authored, msg) /\ authored.subject = msg.subject
      /\ authored.ids = msg.ids /\ authored.heads = msg.heads /\ authored.seals = msg.seals /\ authored.own = msg.own
      /\ authored.links = msg.links /\ authored.route = msg.route
  <2>1. OriginalAddress(l, msg) \in Addresses
    BY DEF OriginalAddress, Messages, Addresses
  <2>2. l \in Addresses
    BY DEF Addresses
  <2> QED BY <2>1, <2>2 DEF Munged, Messages, authored
<1>2. /\ prefixed \in Messages
      /\ prefixed.subject = IF HasTag(l) /\ ~AtFront(Tag[l], msg.subject)
                            THEN <<Tag[l]>> \o msg.subject ELSE msg.subject
      /\ Alike(prefixed, authored)
      /\ prefixed.ids = msg.ids /\ prefixed.heads = msg.heads /\ prefixed.seals = msg.seals /\ prefixed.own = msg.own
      /\ prefixed.links = msg.links /\ prefixed.route = msg.route
  <2>1. msg.subject \in Subjects
    BY DEF Messages
  <2>2. HasTag(l) => <<Tag[l]>> \o msg.subject \in Subjects
    BY <2>1 DEF HasTag, Subjects
  <2> QED BY <1>1, <2>1, <2>2 DEF Prefixed, Messages, prefixed
<1>3. /\ augmented \in Messages
      /\ augmented.ids = <<ListId[l]>> \o msg.ids /\ augmented.heads = msg.heads \cup Publishes[l]
      /\ Alike(augmented, authored) /\ augmented.subject = prefixed.subject
      /\ augmented.seals = msg.seals /\ augmented.own = msg.own
      /\ augmented.links = msg.links /\ augmented.route = msg.route
  <2>1. <<ListId[l]>> \o msg.ids \in Seq(Seq(Symbols))
    <3>1. msg.ids \in Seq(Seq(Symbols))
      BY DEF Messages
    <3>2. <<ListId[l]>> \in Seq(Seq(Symbols))
      OBVIOUS
    <3> QED BY <3>1, <3>2, ConcatProperties
  <2>2. msg.heads \cup Publishes[l] \in SUBSET OptionalHeaders
    BY DEF Messages
  <2> QED BY <1>2, <2>1, <2>2 DEF WithListHeaders, Messages, augmented
<1>4. /\ sealed \in Messages
      /\ sealed.seals = Append(msg.seals, Verified(msg))
      /\ Alike(sealed, authored) /\ sealed.subject = prefixed.subject
      /\ sealed.ids = <<ListId[l]>> \o msg.ids /\ sealed.heads = msg.heads \cup Publishes[l]
      /\ sealed.own = msg.own
      /\ sealed.links = msg.links /\ sealed.route = msg.route
  <2>1. msg.seals \in Seq(BOOLEAN) /\ Verified(msg) \in BOOLEAN
    BY DEF Verified, Intact, Messages
  <2>2. Append(msg.seals, Verified(msg)) \in Seq(BOOLEAN)
    BY <2>1, AppendProperties
  <2> QED BY <1>3, <2>2 DEF Sealed, Messages, sealed
<1>5. /\ signed \in Messages
      /\ signed.own = IF withheld THEN msg.own
                      ELSE Append(msg.own, [list |-> l, over |-> Content(sealed), heads |-> sealed.heads])
      /\ signed.heads = msg.heads \cup Publishes[l]
      /\ Alike(signed, authored) /\ signed.subject = prefixed.subject
      /\ signed.ids = <<ListId[l]>> \o msg.ids /\ signed.seals = Append(msg.seals, Verified(msg))
      /\ signed.links = msg.links /\ signed.route = msg.route
  <2> DEFINE signature == [list |-> l, over |-> Content(sealed), heads |-> sealed.heads]
  <2>1. msg.own \in Seq(Signatures) /\ Content(sealed) \in Contents /\ sealed.heads \in SUBSET OptionalHeaders
    BY <1>4 DEF Messages, Content, Contents
  <2>2. signature \in Signatures
    BY <2>1 DEF Signatures
  <2>3. Append(msg.own, signature) \in Seq(Signatures)
    BY <2>1, <2>2, AppendProperties
  <2> QED BY <1>4, <2>3 DEF Signed, Messages, signed
<1>6. /\ prepared \in Messages
      /\ prepared.route = Append(msg.route, hop)
      /\ Alike(prepared, authored) /\ prepared.subject = prefixed.subject
      /\ prepared.ids = <<ListId[l]>> \o msg.ids /\ prepared.own = signed.own
      /\ prepared.heads = msg.heads \cup Publishes[l]
      /\ prepared.seals = Append(msg.seals, Verified(msg)) /\ prepared.links = msg.links
  <2>1. msg.route \in Seq(Hops) /\ hop \in Hops
    BY DEF Messages, Hops, hop
  <2>2. Append(msg.route, hop) \in Seq(Hops)
    BY <2>1, AppendProperties
  <2> QED BY <1>5, <2>2 DEF Messages, Hops, prepared
<1>7. /\ linked \in Messages
      /\ linked.links = IF withheld \/ msg.links = <<>> THEN msg.links ELSE Append(msg.links, r)
      /\ Alike(linked, authored) /\ linked.subject = prefixed.subject
      /\ linked.ids = <<ListId[l]>> \o msg.ids /\ linked.own = signed.own
      /\ linked.heads = msg.heads \cup Publishes[l]
      /\ linked.seals = Append(msg.seals, Verified(msg)) /\ linked.route = Append(msg.route, hop)
  <2>1. msg.links \in Seq(Everybody)
    BY DEF Messages, Everybody
  <2>2. Append(msg.links, r) \in Seq(Everybody)
    BY <2>1, AppendProperties
  <2> QED BY <1>6, <2>2 DEF Linked, Messages, Everybody, linked
<1>8. Sent(l, msg, munge, withheld, r) = linked
  BY DEF Sent, Prepared, linked, prepared, signed, sealed, hop, augmented, prefixed, authored
<1>9. Content(linked) = Content(sealed) /\ linked.heads = sealed.heads
  BY <1>4, <1>7 DEF Content
<1> QED BY <1>1, <1>2, <1>5, <1>7, <1>8, <1>9 DEF hop, Effect

-----------------------------------------------------------------------------
(* What is put together of the right parts is fresh.                         *)
LEMMA FreshWritten ==
    ASSUME NEW post \in Nat, NEW identified, NEW dkim, NEW spf,
           identified \in BOOLEAN, dkim \in BOOLEAN, spf \in BOOLEAN,
           NEW from \in Addresses, NEW subject \in Subjects, NEW l \in Lists,
           NEW chain \in {<<>>, <<l>>}
    PROVE  Fresh([to |-> l, msg |-> Written(post, identified, dkim, spf, from, subject, chain)])
BY DEF Fresh

(* What mail clients write and what lists send on are messages.              *)
LEMMA FreshShape ==
    ASSUME NEW c, Fresh(c) PROVE c \in [to : Lists, msg : Messages]
<1>1. PICK post \in Nat, from \in Addresses, subject \in Subjects, l \in Lists :
          \E identified, dkim, spf \in BOOLEAN, chain \in {<<>>, <<l>>} :
              c = [to |-> l, msg |-> Written(post, identified, dkim, spf, from, subject, chain)]
  BY DEF Fresh
<1>2. PICK identified, dkim, spf \in BOOLEAN, chain \in {<<>>, <<l>>} :
          c = [to |-> l, msg |-> Written(post, identified, dkim, spf, from, subject, chain)]
  BY <1>1
<1>3. chain \in Seq(Lists \cup People)
  <2>1. CASE chain = <<>>
    BY <2>1, EmptySeq
  <2>2. CASE chain = <<l>>
    <3>1. <<l>> \in Seq(Lists \cup People)
      OBVIOUS
    <3> QED BY <2>2, <3>1
  <2> QED BY <2>1, <2>2
<1>4. NoAddress \in Addresses
  BY DEF Addresses
<1>5. Written(post, identified, dkim, spf, from, subject, chain) \in Messages
  BY <1>3, <1>4 DEF Written, Messages, Contents
<1> QED BY <1>2, <1>5

(* What a list sends on is a message that went through no loop and one hop.   *)
LEMMA OnwardEffect ==
    ASSUME NEW d, NEW c, Onward(d, c)
    PROVE  /\ d.to \in Lists /\ d.msg \in Messages /\ ~Loops(d.to, d.msg)
           /\ c \in [to : Everybody, msg : Messages]
           /\ \E munge, withheld \in BOOLEAN :
                 /\ munge => d.to \in MayMunge
                 /\ MayPass(d.msg) \/ (withheld /\ ~Enforces(d.msg))
                 /\ Effect(d.to, d.msg, munge, withheld, c.to, c.msg)
<1>1. PICK munge \in BOOLEAN, withheld \in BOOLEAN, r \in Everybody :
          /\ munge => d.to \in MayMunge
          /\ MayPass(d.msg) \/ (withheld /\ ~Enforces(d.msg))
          /\ c = [to |-> r, msg |-> Sent(d.to, d.msg, munge, withheld, r)]
  BY DEF Onward
<1>2. d.to \in Lists /\ d.msg \in Messages /\ ~Loops(d.to, d.msg)
  BY DEF Onward
<1>3. c.to = r /\ c.msg = Sent(d.to, d.msg, munge, withheld, r)
  BY <1>1
<1>4. Effect(d.to, d.msg, munge, withheld, c.to, c.msg)
  BY <1>2, <1>3, HopEffect
<1>5. c.msg \in Messages
  BY <1>4 DEF Effect
<1> QED BY <1>1, <1>2, <1>3, <1>4, <1>5

(* Where the copies of the next state come from.                             *)
Placed ==
    /\ transit \subseteq [to : Lists, msg : Messages]
    /\ mailboxes \subseteq [to : People, msg : Messages]
    /\ posts \in Nat

(* The Subject of a new post, and that of an answer.                         *)
Begun(subject) ==
    \/ \E f \in Forms : subject = f.subject
    \/ \E e \in mailboxes : subject = <<Marker>> \o e.msg.subject

(* A list that distributes a copy takes it out of transit and sends others   *)
(* onward instead, one to an address.                                        *)
LEMMA SentOnward ==
    ASSUME Placed, NEW d \in transit, Distribute(d)
    PROVE  \E copies :
              /\ transit' = (transit \ {d}) \cup {c \in copies : c.to \in Lists}
              /\ mailboxes' = mailboxes \cup {c \in copies : c.to \in People}
              /\ \A c \in copies : Onward(d, c)
              /\ \A c, e \in copies : c.to = e.to => c = e
<1> DEFINE copies(munge, withheld) ==
      {[to |-> r, msg |-> Linked(d.to, Prepared(d.to, d.msg, munge, withheld), withheld, r)] : r \in Members[d.to]}
<1>1. d.to \in Lists /\ d.msg \in Messages /\ ~Loops(d.to, d.msg)
  BY DEF Placed, Distribute
<1>2. PICK munge, withheld \in BOOLEAN :
          /\ munge => d.to \in MayMunge
          /\ MayPass(d.msg) \/ (withheld /\ ~Enforces(d.msg))
          /\ transit' = (transit \ {d}) \cup {c \in copies(munge, withheld) : c.to \in Lists}
          /\ mailboxes' = mailboxes \cup {c \in copies(munge, withheld) : c.to \in People}
  BY DEF Distribute
<1>3. Members[d.to] \subseteq Everybody
  BY <1>1 DEF Everybody
<1>4. ASSUME NEW c \in copies(munge, withheld) PROVE Onward(d, c)
  <2>1. PICK r \in Members[d.to] : c = [to |-> r, msg |-> Sent(d.to, d.msg, munge, withheld, r)]
    BY DEF Sent
  <2> QED BY <1>1, <1>2, <1>3, <2>1 DEF Onward
<1>5. ASSUME NEW c \in copies(munge, withheld), NEW e \in copies(munge, withheld), c.to = e.to
      PROVE  c = e
  <2>1. PICK r \in Members[d.to] :
            c = [to |-> r, msg |-> Linked(d.to, Prepared(d.to, d.msg, munge, withheld), withheld, r)]
    OBVIOUS
  <2>2. PICK s \in Members[d.to] :
            e = [to |-> s, msg |-> Linked(d.to, Prepared(d.to, d.msg, munge, withheld), withheld, s)]
    OBVIOUS
  <2> QED BY <1>5, <2>1, <2>2
<1> HIDE DEF copies
<1> QED BY <1>2, <1>4, <1>5

(* Every step leaves copies alone, writes a fresh one or sends some onward.   *)
LEMMA NewCopies ==
    ASSUME Placed, [Next]_vars
    PROVE  /\ Placed'
           /\ \A c \in Copies' : \/ c \in Copies
                                 \/ Fresh(c) /\ Begun(c.msg.subject)
                                 \/ \E d \in transit : Onward(d, c)
<1> DEFINE Origin(c) == \/ c \in Copies
                        \/ Fresh(c) /\ Begun(c.msg.subject)
                        \/ \E d \in transit : Onward(d, c)
<1>1. CASE UNCHANGED vars
  BY <1>1 DEF vars, Copies, Placed
<1>2. ASSUME NEW s \in Starts, Post(s[1], s[2])
      PROVE  Placed' /\ \A c \in Copies' : Origin(c)
  <2> DEFINE copy(f) == [to |-> s[2], msg |-> Written(posts + 1, f.identified, f.dkim, f.spf,
                                             IF f.named THEN s[1] ELSE NoAddress, f.subject,
                                             IF f.chained THEN <<s[2]>> ELSE <<>>)]
  <2>1. s[1] \in People /\ s[2] \in Lists
    OBVIOUS
  <2>2. posts + 1 \in Nat /\ posts' = posts + 1 /\ mailboxes' = mailboxes
    BY <1>2 DEF Placed, Post
  <2>3. PICK f \in Forms : transit' = transit \cup {copy(f)}
    BY <1>2 DEF Post
  <2>4. (IF f.named THEN s[1] ELSE NoAddress) \in Addresses
    BY <2>1 DEF Addresses
  <2>5. (IF f.chained THEN <<s[2]>> ELSE <<>>) \in {<<>>, <<s[2]>>}
    OBVIOUS
  <2>6. f.identified \in BOOLEAN /\ f.dkim \in BOOLEAN /\ f.spf \in BOOLEAN /\ f.subject \in Subjects
    OBVIOUS
  <2>7. Fresh(copy(f))
    <3>1. PICK l, post, from, chain :
              /\ l = s[2] /\ post = posts + 1
              /\ from = IF f.named THEN s[1] ELSE NoAddress
              /\ chain = IF f.chained THEN <<s[2]>> ELSE <<>>
      OBVIOUS
    <3>2. l \in Lists /\ post \in Nat /\ from \in Addresses /\ chain \in {<<>>, <<l>>}
      BY <2>1, <2>2, <2>4, <2>5, <3>1
    <3>3. Fresh([to |-> l, msg |-> Written(post, f.identified, f.dkim, f.spf, from, f.subject, chain)])
      BY <2>6, <3>2, FreshWritten
    <3>4. copy(f) = [to |-> l, msg |-> Written(post, f.identified, f.dkim, f.spf, from, f.subject, chain)]
      BY <3>1
    <3> QED BY <3>3, <3>4
  <2>8. Begun(copy(f).msg.subject)
    BY DEF Begun, Written
  <2> HIDE DEF copy
  <2>9. copy(f) \in [to : Lists, msg : Messages]
    BY <2>7, FreshShape
  <2> QED BY <2>2, <2>3, <2>7, <2>8, <2>9 DEF Copies, Placed
<1>3. ASSUME NEW e \in mailboxes, NEW l \in Lists, Answer(e, l)
      PROVE  Placed' /\ \A c \in Copies' : Origin(c)
  <2> DEFINE copy == [to |-> l, msg |-> Written(posts + 1, TRUE, TRUE, TRUE, e.to,
                                             <<Marker>> \o e.msg.subject, <<>>)]
  <2>1. e.to \in Addresses /\ e.msg \in Messages
    BY DEF Placed, Addresses
  <2>2. posts + 1 \in Nat /\ posts' = posts + 1 /\ mailboxes' = mailboxes
    BY <1>3 DEF Placed, Answer
  <2>3. transit' = transit \cup {copy}
    BY <1>3 DEF Answer
  <2>4. <<Marker>> \o e.msg.subject \in Subjects
    <3>1. e.msg.subject \in Subjects
      BY <2>1 DEF Messages
    <3>2. <<Marker>> \in Subjects
      BY DEF Subjects
    <3> QED BY <3>1, <3>2, ConcatProperties DEF Subjects
  <2>5. Fresh(copy)
    BY <2>1, <2>2, <2>4 DEF Fresh
  <2>6. Begun(copy.msg.subject)
    BY DEF Begun, Written
  <2> HIDE DEF copy
  <2>7. copy \in [to : Lists, msg : Messages]
    BY <2>5, FreshShape
  <2> QED BY <2>2, <2>3, <2>5, <2>6, <2>7 DEF Copies, Placed
<1>4. ASSUME NEW d \in transit, DropLoop(d) \/ DropDuplicate(d) \/ Refuse(d)
      PROVE  Placed' /\ \A c \in Copies' : Origin(c)
  <2>1. transit' \subseteq transit /\ mailboxes' = mailboxes /\ posts' = posts
    BY <1>4 DEF DropLoop, DropDuplicate, Refuse
  <2> QED BY <2>1 DEF Copies, Placed
<1>5. ASSUME NEW d \in transit, Distribute(d)
      PROVE  Placed' /\ \A c \in Copies' : Origin(c)
  <2>1. PICK copies :
            /\ transit' = (transit \ {d}) \cup {c \in copies : c.to \in Lists}
            /\ mailboxes' = mailboxes \cup {c \in copies : c.to \in People}
            /\ \A c \in copies : Onward(d, c)
    BY <1>5, SentOnward
  <2>2. \A c \in copies : c \in [to : Everybody, msg : Messages]
    BY <2>1, OnwardEffect
  <2>3. posts' = posts
    BY <1>5 DEF Distribute
  <2>4. Placed'
    <3>1. \A c \in copies : c.to \in Lists => c \in [to : Lists, msg : Messages]
      BY <2>2
    <3>2. \A c \in copies : c.to \in People => c \in [to : People, msg : Messages]
      BY <2>2
    <3> QED BY <2>1, <2>3, <3>1, <3>2 DEF Placed
  <2>5. \A c \in Copies' : c \in Copies \/ c \in copies
    BY <2>1 DEF Copies
  <2> QED BY <2>1, <2>4, <2>5
<1> QED BY <1>1, <1>2, <1>3, <1>4, <1>5 DEF Next, Handle

-----------------------------------------------------------------------------
(* Loops. Every list on the route has left its List-Id, and the id of a list *)
(* is part of itself: a list that is on the route already sees a loop.       *)
Stamped(msg) ==
    \A i \in 1..Len(msg.route) : \E k \in 1..Len(msg.ids) :
        msg.ids[k] = ListId[msg.route[i].list]

Once(msg) ==
    \A i, j \in 1..Len(msg.route) : msg.route[i].list = msg.route[j].list => i = j

(* A sequence is one of its parts.                                           *)
LEMMA PartOfItself ==
    ASSUME NEW S, NEW s \in Seq(S) PROVE s \in SubSeqs(s)
<1>1. SubSeq(s, 0 + 1, Len(s)) = s
  BY SubSeqFull
<1>2. 0 \in 0..Len(s) /\ Len(s) \in 0..Len(s)
  BY LenProperties
<1> QED BY <1>1, <1>2 DEF SubSeqs

(* What was appended is last, and the rest is where it was.                  *)
LEMMA Appended ==
    ASSUME NEW S, NEW s \in Seq(S), NEW e \in S
    PROVE  /\ Len(Append(s, e)) = Len(s) + 1
           /\ Append(s, e)[Len(s) + 1] = e
           /\ \A i \in 1..Len(s) : Append(s, e)[i] = s[i]
BY AppendProperties

(* What was put in front is first, and the rest moved on by one.             *)
LEMMA PutInFront ==
    ASSUME NEW S, NEW s \in Seq(S), NEW e \in S
    PROVE  /\ Len(<<e>> \o s) = Len(s) + 1
           /\ (<<e>> \o s)[1] = e
           /\ \A i \in 1..Len(s) : (<<e>> \o s)[i + 1] = s[i]
<1>1. <<e>> \in Seq(S) /\ Len(<<e>>) = 1 /\ <<e>>[1] = e
  OBVIOUS
<1>2. Len(s) \in Nat
  BY LenProperties
<1> QED BY <1>1, <1>2, ConcatProperties

(* A new post has passed no list.                                            *)
LEMMA FreshOnce ==
    ASSUME NEW c, Fresh(c) PROVE Stamped(c.msg) /\ Once(c.msg)
<1>1. c.msg.route = <<>>
  BY DEF Fresh, Written
<1> QED BY <1>1 DEF Stamped, Once

(* A hop adds the id of its list, and a list on the route does not send on.   *)
LEMMA OnwardOnce ==
    ASSUME NEW d, NEW c, Onward(d, c), Stamped(d.msg), Once(d.msg)
    PROVE  Stamped(c.msg) /\ Once(c.msg)
<1>1. d.to \in Lists /\ d.msg \in Messages /\ ~Loops(d.to, d.msg)
  BY OnwardEffect
<1>2. PICK munge \in BOOLEAN, withheld \in BOOLEAN :
          Effect(d.to, d.msg, munge, withheld, c.to, c.msg)
  BY OnwardEffect
<1> DEFINE hop == [list |-> d.to, munged |-> munge, withheld |-> withheld]
           n == Len(d.msg.route)
<1>3. c.msg.ids = <<ListId[d.to]>> \o d.msg.ids /\ c.msg.route = Append(d.msg.route, hop)
  BY <1>2 DEF Effect
<1>4. /\ d.msg.route \in Seq(Hops) /\ d.msg.ids \in Seq(Seq(Symbols))
      /\ hop \in Hops /\ ListId[d.to] \in Seq(Symbols) /\ hop.list = d.to
      /\ n \in Nat /\ Len(d.msg.ids) \in Nat
  <2>1. d.msg.route \in Seq(Hops) /\ d.msg.ids \in Seq(Seq(Symbols))
    BY <1>1 DEF Messages, Hops
  <2>2. hop \in Hops /\ ListId[d.to] \in Seq(Symbols) /\ hop.list = d.to
    BY <1>1 DEF Hops
  <2>3. n \in Nat /\ Len(d.msg.ids) \in Nat
    BY <2>1, LenProperties
  <2> QED BY <2>1, <2>2, <2>3
<1> HIDE DEF hop
<1>5. /\ Len(c.msg.route) = n + 1
      /\ c.msg.route[n + 1].list = d.to
      /\ \A i \in 1..n : c.msg.route[i] = d.msg.route[i]
  BY <1>3, <1>4, Appended
<1>6. /\ Len(c.msg.ids) = Len(d.msg.ids) + 1
      /\ c.msg.ids[1] = ListId[d.to]
      /\ \A k \in 1..Len(d.msg.ids) : c.msg.ids[k + 1] = d.msg.ids[k]
  BY <1>3, <1>4, PutInFront
<1> HIDE DEF n
<1>7. Stamped(c.msg)
  <2> SUFFICES ASSUME NEW i \in 1..Len(c.msg.route)
               PROVE  \E k \in 1..Len(c.msg.ids) : c.msg.ids[k] = ListId[c.msg.route[i].list]
    BY DEF Stamped
  <2>1. CASE i = n + 1
    <3>1. 1 \in 1..Len(c.msg.ids)
      BY <1>4, <1>6
    <3>2. c.msg.ids[1] = ListId[c.msg.route[i].list]
      BY <1>5, <1>6, <2>1
    <3> QED BY <3>1, <3>2
  <2>2. CASE i # n + 1
    <3>1. i \in 1..n
      BY <1>4, <1>5, <2>2
    <3>2. PICK k \in 1..Len(d.msg.ids) : d.msg.ids[k] = ListId[d.msg.route[i].list]
      BY <3>1 DEF Stamped, n
    <3>3. c.msg.route[i] = d.msg.route[i]
      BY <1>5, <3>1
    <3>4. c.msg.ids[k + 1] = d.msg.ids[k] /\ k + 1 \in 1..Len(c.msg.ids)
      BY <1>4, <1>6
    <3> QED BY <3>2, <3>3, <3>4
  <2> QED BY <2>1, <2>2
<1>8. \A i \in 1..n : d.msg.route[i].list # d.to
  <2> SUFFICES ASSUME NEW i \in 1..n, d.msg.route[i].list = d.to PROVE FALSE
    OBVIOUS
  <2>1. PICK k \in 1..Len(d.msg.ids) : d.msg.ids[k] = ListId[d.to]
    BY DEF Stamped, n
  <2>2. ListId[d.to] \in SubSeqs(d.msg.ids[k])
    BY <1>4, <2>1, PartOfItself
  <2>3. k \in DOMAIN d.msg.ids
    BY <1>4
  <2> QED BY <1>1, <2>2, <2>3 DEF Loops
<1>9. Once(c.msg)
  <2> SUFFICES ASSUME NEW i \in 1..(n + 1), NEW j \in 1..(n + 1),
                      c.msg.route[i].list = c.msg.route[j].list
               PROVE  i = j
    BY <1>5 DEF Once
  <2>1. CASE i \in 1..n /\ j \in 1..n
    <3>1. d.msg.route[i].list = d.msg.route[j].list
      BY <1>5, <2>1
    <3> QED BY <2>1, <3>1 DEF Once, n
  <2>2. CASE i = n + 1 /\ j \in 1..n
    <3>1. c.msg.route[j] = d.msg.route[j] /\ c.msg.route[i].list = d.to
      BY <1>5, <2>2
    <3> QED BY <1>8, <2>2, <3>1
  <2>3. CASE j = n + 1 /\ i \in 1..n
    <3>1. c.msg.route[i] = d.msg.route[i] /\ c.msg.route[j].list = d.to
      BY <1>5, <2>3
    <3> QED BY <1>8, <2>3, <3>1
  <2> QED BY <1>4, <2>1, <2>2, <2>3
<1> QED BY <1>7, <1>9

-----------------------------------------------------------------------------
(* The lists a copy passed.                                                  *)
LEMMA PassedOn ==
    ASSUME NEW msg \in Messages, NEW new \in Messages, NEW hop \in Hops,
           new.route = Append(msg.route, hop)
    PROVE  /\ Len(msg.route) \in Nat /\ Len(new.route) = Len(msg.route) + 1
           /\ \A i \in 1..Len(msg.route) : new.route[i] = msg.route[i]
           /\ new.route[Len(msg.route) + 1] = hop
           /\ Passed(msg) \subseteq Passed(new) /\ hop.list \in Passed(new)
           /\ Passed(new) \subseteq Lists
<1> DEFINE n == Len(msg.route)
<1>1. /\ msg.route \in Seq(Hops) /\ new.route \in Seq(Hops)
  BY DEF Messages, Hops
<1>2. /\ n \in Nat /\ Len(new.route) = n + 1
      /\ new.route[n + 1] = hop
      /\ \A i \in 1..n : new.route[i] = msg.route[i]
  BY <1>1, Appended, LenProperties
<1>3. DOMAIN msg.route = 1..n /\ DOMAIN new.route = 1..(n + 1)
  BY <1>1, <1>2, LenProperties
<1>4. Passed(msg) \subseteq Passed(new)
  BY <1>2, <1>3 DEF Passed
<1>5. hop.list \in Passed(new)
  <2>1. n + 1 \in 1..(n + 1)
    BY <1>2
  <2> QED BY <1>2, <1>3, <2>1 DEF Passed
<1>6. Passed(new) \subseteq Lists
  <2>1. \A i \in DOMAIN new.route : new.route[i] \in Hops
    BY <1>1
  <2> QED BY <2>1 DEF Passed, Hops
<1> QED BY <1>2, <1>4, <1>5, <1>6

-----------------------------------------------------------------------------
(* Seals. Edits never give back what the author signed: the signature has no *)
(* Reply-To, munging always sets one, and a Subject only grows.              *)
Sealing(msg) ==
    /\ msg.signed.replyTo = NoAddress
    /\ Len(msg.signed.subject) <= Len(msg.subject)
    /\ msg.seals = <<>> => Intact(msg)
    /\ msg.seals # <<>> /\ msg.dkim => msg.seals[1]
    /\ \A i, j \in 1..Len(msg.seals) : i < j /\ msg.seals[j] => msg.seals[i]
    /\ Verified(msg) => \A i \in 1..Len(msg.seals) : msg.seals[i]
    /\ ~msg.dkim => \A i \in 1..Len(msg.seals) : ~msg.seals[i]
    /\ ~Intact(msg) => \E l \in Passed(msg) : l \in MayMunge \/ HasTag(l)

(* A signature verifies when each part it covers is unchanged.               *)
LEMMA IntactParts ==
    ASSUME NEW msg \in Messages
    PROVE  Intact(msg) <=> /\ msg.signed.from = msg.from
                           /\ msg.signed.replyTo = msg.replyTo
                           /\ msg.signed.subject = msg.subject
<1>1. msg.signed \in [from : Addresses, replyTo : Addresses, subject : Subjects]
  BY DEF Messages, Contents
<1> QED BY <1>1 DEF Intact, Content

(* A new post is as its author signed it and has no seals.                   *)
LEMMA FreshSealing ==
    ASSUME NEW c, Fresh(c) PROVE Sealing(c.msg)
<1>1. c.msg \in Messages
  BY FreshShape
<1>2. /\ c.msg.signed = [from |-> c.msg.from, replyTo |-> NoAddress, subject |-> c.msg.subject]
      /\ c.msg.replyTo = NoAddress /\ c.msg.seals = <<>>
  BY DEF Fresh, Written
<1>3. Intact(c.msg)
  BY <1>2 DEF Intact, Content
<1>4. c.msg.subject \in Subjects
  BY <1>1 DEF Messages
<1>5. Len(c.msg.subject) \in Nat
  BY <1>4, LenProperties DEF Subjects
<1>6. Len(c.msg.seals) = 0
  BY <1>2
<1> QED BY <1>2, <1>3, <1>5, <1>6 DEF Sealing

(* A hop seals what it received, and spoils a signature or leaves it alone.   *)
LEMMA HopSealing ==
    ASSUME NEW l \in Lists, NEW msg \in Messages, NEW new \in Messages, NEW r,
           NEW munge \in BOOLEAN, NEW withheld \in BOOLEAN, munge => l \in MayMunge,
           Effect(l, msg, munge, withheld, r, new), Sealing(msg)
    PROVE  Sealing(new)
<1> DEFINE tagged == HasTag(l) /\ ~AtFront(Tag[l], msg.subject)
           s == msg.seals
<1>3. /\ new.signed = msg.signed
      /\ new.from = IF munge THEN l ELSE msg.from
      /\ new.replyTo = IF munge THEN OriginalAddress(l, msg) ELSE msg.replyTo
      /\ new.seals = Append(s, Verified(msg)) /\ new.dkim = msg.dkim
  BY DEF Effect
<1>4. /\ msg.subject \in Subjects /\ msg.signed.subject \in Subjects
      /\ s \in Seq(BOOLEAN) /\ Verified(msg) \in BOOLEAN
  BY DEF Messages, Contents, Verified, Intact
<1>5. /\ Len(msg.subject) \in Nat /\ Len(msg.signed.subject) \in Nat /\ Len(s) \in Nat
  BY <1>4, LenProperties DEF Subjects
<1>6. IF tagged THEN Len(new.subject) = Len(msg.subject) + 1
                ELSE new.subject = msg.subject
  <2>1. new.subject = IF tagged THEN <<Tag[l]>> \o msg.subject ELSE msg.subject
    BY DEF Effect
  <2>2. CASE tagged
    <3>1. Tag[l] \in Tags \cup {Marker, Text}
      BY <2>2 DEF HasTag
    <3>2. Len(<<Tag[l]>> \o msg.subject) = Len(msg.subject) + 1
      BY <1>4, <3>1, PutInFront DEF Subjects
    <3> QED BY <2>1, <2>2, <3>2
  <2>3. CASE ~tagged
    BY <2>1, <2>3
  <2> QED BY <2>2, <2>3
<1> HIDE DEF tagged
<1>7. OriginalAddress(l, msg) # NoAddress
  BY DEF OriginalAddress
<1>8. Intact(new) <=> Intact(msg) /\ ~munge /\ ~tagged
  <2>1. CASE munge
    <3>1. new.signed.replyTo # new.replyTo
      BY <1>3, <1>7, <2>1 DEF Sealing
    <3> QED BY <2>1, <3>1, IntactParts
  <2>2. CASE tagged
    <3>1. Len(new.subject) > Len(new.signed.subject)
      BY <1>3, <1>5, <1>6, <2>2 DEF Sealing
    <3>2. new.signed.subject # new.subject
      BY <1>3, <1>5, <1>6, <2>2, <3>1
    <3> QED BY <2>2, <3>2, IntactParts
  <2>3. CASE ~munge /\ ~tagged
    BY <1>3, <1>6, <2>3, IntactParts
  <2> QED BY <2>1, <2>2, <2>3
<1>9. /\ Len(new.seals) = Len(s) + 1
      /\ new.seals[Len(s) + 1] = Verified(msg)
      /\ \A i \in 1..Len(s) : new.seals[i] = s[i]
  BY <1>3, <1>4, Appended
<1>10. Len(new.signed.subject) <= Len(new.subject) /\ new.signed.replyTo = NoAddress
  BY <1>3, <1>5, <1>6 DEF Sealing
<1>11. new.seals # <<>>
  <2>1. Len(new.seals) # 0
    BY <1>5, <1>9
  <2> QED BY <2>1, EmptySeq
<1>12. new.dkim => new.seals[1]
  <2> SUFFICES ASSUME msg.dkim PROVE new.seals[1]
    BY <1>3
  <2>1. CASE s = <<>>
    <3>1. Verified(msg)
      BY <2>1 DEF Sealing, Verified
    <3>2. Len(s) = 0
      <4>1. Len(<<>>) = 0
        OBVIOUS
      <4> QED BY <2>1, <4>1
    <3>3. new.seals[1] = Verified(msg)
      <4>1. Len(s) + 1 = 1
        BY <3>2
      <4> QED BY <1>9, <4>1, Zenon
    <3> QED BY <3>1, <3>3, Zenon
  <2>2. CASE s # <<>>
    <3>1. 1 \in 1..Len(s)
      BY <1>4, <2>2, EmptySeq
    <3> QED BY <1>9, <2>2, <3>1 DEF Sealing
  <2> QED BY <2>1, <2>2
<1>13. ASSUME NEW i \in 1..(Len(s) + 1), NEW j \in 1..(Len(s) + 1), i < j, new.seals[j]
       PROVE  new.seals[i]
  <2>1. i \in 1..Len(s) /\ new.seals[i] = s[i]
    BY <1>5, <1>9, <1>13
  <2>2. CASE j = Len(s) + 1
    <3>1. Verified(msg)
      BY <1>9, <1>13, <2>2, Zenon
    <3> QED BY <2>1, <3>1 DEF Sealing
  <2>3. CASE j # Len(s) + 1
    <3>1. j \in 1..Len(s) /\ new.seals[j] = s[j]
      BY <1>5, <1>9, <2>3
    <3> QED BY <1>13, <2>1, <3>1 DEF Sealing
  <2> QED BY <2>2, <2>3
<1>14. ASSUME Verified(new), NEW i \in 1..(Len(s) + 1) PROVE new.seals[i]
  <2>1. Verified(msg)
    BY <1>3, <1>8, <1>14 DEF Verified
  <2>2. CASE i = Len(s) + 1
    BY <1>9, <2>1, <2>2, Zenon
  <2>3. CASE i # Len(s) + 1
    <3>1. i \in 1..Len(s) /\ new.seals[i] = s[i]
      BY <1>5, <1>9, <2>3
    <3> QED BY <2>1, <3>1 DEF Sealing
  <2> QED BY <2>2, <2>3
<1>15. ASSUME ~new.dkim, NEW i \in 1..(Len(s) + 1) PROVE ~new.seals[i]
  <2>1. ~msg.dkim /\ ~Verified(msg)
    BY <1>3, <1>15 DEF Verified
  <2>2. CASE i = Len(s) + 1
    BY <1>9, <2>1, <2>2, Zenon
  <2>3. CASE i # Len(s) + 1
    <3>1. i \in 1..Len(s) /\ new.seals[i] = s[i]
      BY <1>5, <1>9, <2>3
    <3> QED BY <2>1, <3>1 DEF Sealing
  <2> QED BY <2>2, <2>3
<1>16. ASSUME ~Intact(new) PROVE \E m \in Passed(new) : m \in MayMunge \/ HasTag(m)
  <2>1. Passed(msg) \subseteq Passed(new) /\ l \in Passed(new)
    <3>1. PICK hop \in Hops : hop.list = l /\ new.route = Append(msg.route, hop)
      <4>1. [list |-> l, munged |-> munge, withheld |-> withheld] \in Hops
        BY DEF Hops
      <4> QED BY <4>1 DEF Effect
    <3> QED BY <3>1, PassedOn, SMT
  <2>2. CASE ~Intact(msg)
    BY <2>1, <2>2 DEF Sealing
  <2>3. CASE munge
    BY <2>1, <2>3
  <2>4. CASE tagged
    BY <2>1, <2>4 DEF tagged
  <2> QED BY <1>8, <1>16, <2>2, <2>3, <2>4
<1> QED BY <1>9, <1>10, <1>11, <1>12, <1>13, <1>14, <1>15, <1>16 DEF Sealing

-----------------------------------------------------------------------------
(* Links. The chain is the path as long as every list extended it, and names *)
(* nobody else in any case.                                                  *)
LinkPath(msg, to) ==
    [i \in 1..(Len(msg.route) + 1) |->
        IF i <= Len(msg.route) THEN msg.route[i].list ELSE to]

Linking(msg, to) ==
    /\ msg.links # <<>> /\ (\A i \in 1..Len(msg.route) : ~msg.route[i].withheld)
          => msg.links = LinkPath(msg, to)
    /\ \A i \in 1..Len(msg.links) : \E k \in 1..(Len(msg.route) + 1) :
          LinkPath(msg, to)[k] = msg.links[i]

(* A new post has no chain, or one that names the list it is sent to.        *)
LEMMA FreshLinking ==
    ASSUME NEW c, Fresh(c) PROVE Linking(c.msg, c.to)
<1>1. PICK post \in Nat, from \in Addresses, subject \in Subjects, l \in Lists :
          \E identified, dkim, spf \in BOOLEAN, chain \in {<<>>, <<l>>} :
              c = [to |-> l, msg |-> Written(post, identified, dkim, spf, from, subject, chain)]
  BY DEF Fresh
<1>2. PICK identified, dkim, spf \in BOOLEAN, chain \in {<<>>, <<l>>} :
          c = [to |-> l, msg |-> Written(post, identified, dkim, spf, from, subject, chain)]
  BY <1>1
<1>3. c.to = l /\ c.msg.route = <<>> /\ c.msg.links = chain
  BY <1>2 DEF Written
<1>4. LinkPath(c.msg, l) = <<l>>
  BY <1>3 DEF LinkPath
<1>5. Len(c.msg.route) = 0
  BY <1>3
<1>6. CASE chain = <<>>
  <2>1. Len(c.msg.links) = 0
    BY <1>3, <1>6
  <2> QED BY <1>3, <1>6, <2>1 DEF Linking
<1>7. CASE chain = <<l>>
  <2>1. Len(c.msg.links) = 1 /\ c.msg.links = LinkPath(c.msg, l)
    BY <1>3, <1>4, <1>7
  <2> QED BY <1>3, <1>5, <2>1 DEF Linking
<1> QED BY <1>6, <1>7

(* A hop extends path and chain by the recipient, or cuts the chain short.    *)
LEMMA HopLinking ==
    ASSUME NEW l \in Lists, NEW msg \in Messages, NEW new \in Messages, NEW r \in Everybody,
           NEW munge \in BOOLEAN, NEW withheld \in BOOLEAN,
           Effect(l, msg, munge, withheld, r, new), Linking(msg, l)
    PROVE  Linking(new, r)
<1> DEFINE n == Len(msg.route)
<1>1. PICK hop \in Hops : /\ hop.list = l /\ hop.withheld = withheld
                          /\ new.route = Append(msg.route, hop)
  <2>1. [list |-> l, munged |-> munge, withheld |-> withheld] \in Hops
    BY DEF Hops
  <2> QED BY <2>1 DEF Effect
<1>2. /\ n \in Nat /\ Len(new.route) = n + 1
      /\ \A i \in 1..n : new.route[i] = msg.route[i]
      /\ new.route[n + 1] = hop
  BY <1>1, PassedOn, SMT
<1>3. msg.links \in Seq(Everybody) /\ Len(msg.links) \in Nat
  <2>1. msg.links \in Seq(Everybody)
    BY DEF Messages, Everybody
  <2> QED BY <2>1, LenProperties
<1>4. new.links = IF withheld \/ msg.links = <<>> THEN msg.links ELSE Append(msg.links, r)
  BY DEF Effect
<1>5. LinkPath(msg, l) \in Seq(Everybody) /\ Len(LinkPath(msg, l)) = n + 1
  <2>1. \A i \in 1..n : msg.route[i].list \in Everybody
    <3>1. msg.route \in Seq(Hops)
      BY DEF Messages, Hops
    <3>2. \A i \in 1..n : msg.route[i] \in Hops
      BY <3>1, ElementOfSeq
    <3> QED BY <3>2 DEF Hops, Everybody
  <2>2. LinkPath(msg, l) \in [1..(n + 1) -> Everybody]
    BY <1>2, <2>1 DEF LinkPath, Everybody
  <2>3. LinkPath(msg, l) \in Seq(Everybody)
    <3>1. n + 1 \in Nat
      BY <1>2
    <3>2. LinkPath(msg, l) \in UNION {[1..k -> Everybody] : k \in Nat}
      BY <2>2, <3>1, Zenon
    <3> QED BY <3>2, SeqDef, Zenon
  <2>4. Len(LinkPath(msg, l)) \in Nat /\ 1..Len(LinkPath(msg, l)) = 1..(n + 1)
    BY <2>2, <2>3, LenProperties
  <2> QED BY <1>2, <2>3, <2>4
<1>6. /\ \A k \in 1..(n + 1) : LinkPath(new, r)[k] = LinkPath(msg, l)[k]
      /\ LinkPath(new, r)[n + 2] = r
  <2>1. \A k \in 1..n : LinkPath(new, r)[k] = LinkPath(msg, l)[k]
    BY <1>2 DEF LinkPath
  <2>2. LinkPath(new, r)[n + 1] = l /\ LinkPath(msg, l)[n + 1] = l
    BY <1>1, <1>2 DEF LinkPath
  <2>3. LinkPath(new, r)[n + 2] = r
    BY <1>2 DEF LinkPath
  <2>4. \A k \in 1..(n + 1) : k \in 1..n \/ k = n + 1
    BY <1>2
  <2>5. \A k \in 1..(n + 1) : LinkPath(new, r)[k] = LinkPath(msg, l)[k]
    BY <2>1, <2>2, <2>4, Zenon
  <2> QED BY <2>3, <2>5, Zenon
<1> HIDE DEF n
<1>7. ASSUME new.links # <<>>, \A i \in 1..(n + 1) : ~new.route[i].withheld
      PROVE  new.links = LinkPath(new, r)
  <2>1. ASSUME NEW i \in 1..n PROVE ~msg.route[i].withheld
    <3>1. i \in 1..(n + 1) /\ new.route[i] = msg.route[i]
      BY <1>2
    <3> QED BY <1>7, <3>1
  <2>2. ~hop.withheld
    BY <1>2, <1>7
  <2>3. msg.links # <<>> /\ ~withheld
    BY <1>1, <1>4, <1>7, <2>2
  <2>4. msg.links = LinkPath(msg, l)
    BY <2>1, <2>3 DEF Linking, n
  <2>5. new.links = Append(LinkPath(msg, l), r)
    BY <1>4, <2>3, <2>4
  <2>6. LinkPath(new, r) = Append(LinkPath(msg, l), r)
    <3>1. Append(LinkPath(msg, l), r) \in Seq(Everybody) /\ Len(Append(LinkPath(msg, l), r)) = n + 2
      BY <1>2, <1>5, AppendProperties
    <3>2. Len(new.route) + 1 = n + 2
      BY <1>2
    <3>3. LinkPath(new, r) = [i \in 1..(n + 2) |-> LinkPath(new, r)[i]]
      BY <3>2 DEF LinkPath
    <3>4. /\ \A i \in 1..(n + 1) : Append(LinkPath(msg, l), r)[i] = LinkPath(msg, l)[i]
          /\ Append(LinkPath(msg, l), r)[n + 2] = r
      BY <1>2, <1>5, Appended
    <3>5. \A i \in 1..(n + 2) : LinkPath(new, r)[i] = Append(LinkPath(msg, l), r)[i]
      <4> SUFFICES ASSUME NEW i \in 1..(n + 2)
                   PROVE  LinkPath(new, r)[i] = Append(LinkPath(msg, l), r)[i]
        OBVIOUS
      <4>1. CASE i = n + 2
        BY <1>6, <3>4, <4>1
      <4>2. CASE i # n + 2
        <5>1. i \in 1..(n + 1)
          BY <1>2, <4>2
        <5> QED BY <1>6, <3>4, <5>1
      <4> QED BY <4>1, <4>2
    <3>6. Append(LinkPath(msg, l), r) = [i \in 1..(n + 2) |-> Append(LinkPath(msg, l), r)[i]]
      BY <3>1, LenProperties
    <3> QED BY <3>3, <3>5, <3>6
  <2> QED BY <2>5, <2>6
<1>8. ASSUME NEW i \in 1..Len(new.links)
      PROVE  \E k \in 1..(n + 2) : LinkPath(new, r)[k] = new.links[i]
  <2>1. ASSUME i \in 1..Len(msg.links), new.links[i] = msg.links[i]
        PROVE  \E k \in 1..(n + 2) : LinkPath(new, r)[k] = new.links[i]
    <3>1. PICK k \in 1..(n + 1) : LinkPath(msg, l)[k] = msg.links[i]
      BY <2>1 DEF Linking, n
    <3>2. k \in 1..(n + 2) /\ LinkPath(new, r)[k] = new.links[i]
      BY <1>2, <1>6, <2>1, <3>1
    <3> QED BY <3>2
  <2>2. CASE withheld \/ msg.links = <<>>
    BY <1>4, <2>1, <2>2
  <2>3. CASE ~(withheld \/ msg.links = <<>>)
    <3>1. new.links = Append(msg.links, r)
      BY <1>4, <2>3
    <3>2. /\ Len(new.links) = Len(msg.links) + 1
          /\ new.links[Len(msg.links) + 1] = r
          /\ \A k \in 1..Len(msg.links) : new.links[k] = msg.links[k]
      BY <1>3, <3>1, Appended
    <3>3. CASE i = Len(msg.links) + 1
      BY <1>2, <1>6, <3>2, <3>3
    <3>4. CASE i # Len(msg.links) + 1
      BY <1>3, <2>1, <3>2, <3>4
    <3> QED BY <3>3, <3>4
  <2> QED BY <2>2, <2>3
<1>9. Len(new.route) + 1 = n + 2
  BY <1>2
<1> QED BY <1>2, <1>7, <1>8, <1>9 DEF Linking

-----------------------------------------------------------------------------
(* Answers. A copy that was never munged has the author in From; the first   *)
(* list that munges moves the author to Reply-To, and the next one moves a   *)
(* list there.                                                               *)
Munging(msg) == {i \in 1..Len(msg.route) : msg.route[i].munged}

Answering(msg) ==
    \/ msg.signed.from = NoAddress
    \/ Munges(msg) = 0 /\ msg.from = msg.signed.from /\ msg.replyTo = NoAddress
    \/ Munges(msg) = 1 /\ msg.from \in Passed(msg) /\ msg.replyTo = msg.signed.from
    \/ Munges(msg) > 1 /\ msg.from \in Passed(msg) /\ msg.replyTo \in Passed(msg)

(* The hops that munged are finitely many, and Munges counts them.            *)
LEMMA MungesCounted ==
    ASSUME NEW msg \in Messages
    PROVE  /\ Munges(msg) = Cardinality(Munging(msg))
           /\ IsFiniteSet(Munging(msg)) /\ Munges(msg) \in Nat
<1>1. msg.route \in Seq(Hops) /\ DOMAIN msg.route = 1..Len(msg.route) /\ Len(msg.route) \in Nat
  <2>1. msg.route \in Seq(Hops)
    BY DEF Messages, Hops
  <2> QED BY <2>1, LenProperties
<1>2. IsFiniteSet(1..Len(msg.route))
  BY <1>1, FS_Interval
<1>3. Munging(msg) \in SUBSET (1..Len(msg.route))
  BY DEF Munging
<1>4. IsFiniteSet(Munging(msg))
  BY <1>2, <1>3, FS_Subset
<1>5. Munges(msg) = Cardinality(Munging(msg))
  BY <1>1 DEF Munges, Munging
<1> QED BY <1>4, <1>5, FS_CardinalityType

(* A new post was never munged.                                              *)
LEMMA FreshAnswering ==
    ASSUME NEW c, Fresh(c) PROVE Answering(c.msg)
<1>1. c.msg.from = c.msg.signed.from /\ c.msg.replyTo = NoAddress /\ c.msg.route = <<>>
  BY DEF Fresh, Written
<1>2. DOMAIN c.msg.route = {}
  BY <1>1
<1>3. Munges(c.msg) = Cardinality({})
  BY <1>2 DEF Munges
<1>4. Munges(c.msg) = 0
  BY <1>3, FS_EmptySet
<1> QED BY <1>1, <1>4 DEF Answering

(* A hop that munges moves on what From names, and no other changes it.       *)
LEMMA HopAnswering ==
    ASSUME NEW l \in Lists, NEW msg \in Messages, NEW new \in Messages, NEW r,
           NEW munge \in BOOLEAN, NEW withheld \in BOOLEAN,
           Effect(l, msg, munge, withheld, r, new), Answering(msg), Passed(msg) \subseteq Lists
    PROVE  Answering(new) /\ Passed(new) \subseteq Lists
<1> DEFINE n == Len(msg.route)
<1>1. PICK hop \in Hops : /\ hop.list = l /\ hop.munged = munge
                          /\ new.route = Append(msg.route, hop)
  <2>1. [list |-> l, munged |-> munge, withheld |-> withheld] \in Hops
    BY DEF Hops
  <2> QED BY <2>1 DEF Effect
<1>2. /\ n \in Nat /\ Len(new.route) = n + 1
      /\ \A i \in 1..n : new.route[i] = msg.route[i]
      /\ new.route[n + 1] = hop
      /\ Passed(msg) \subseteq Passed(new) /\ l \in Passed(new) /\ Passed(new) \subseteq Lists
  BY <1>1, PassedOn, SMT
<1>3. /\ new.signed.from = msg.signed.from
      /\ new.from = IF munge THEN l ELSE msg.from
      /\ new.replyTo = IF munge THEN OriginalAddress(l, msg) ELSE msg.replyTo
  BY DEF Effect
<1>4. Munging(new) = IF munge THEN Munging(msg) \cup {n + 1} ELSE Munging(msg)
  <2>1. \A i \in 1..n : i \in Munging(new) <=> i \in Munging(msg)
    BY <1>2 DEF Munging
  <2>2. n + 1 \in Munging(new) <=> munge
    BY <1>1, <1>2 DEF Munging
  <2>3. Munging(new) \subseteq 1..(n + 1) /\ Munging(msg) \subseteq 1..n
    BY <1>2 DEF Munging
  <2>4. \A i \in 1..(n + 1) : i \in 1..n \/ i = n + 1
    BY <1>2
  <2>5. 1..n \subseteq 1..(n + 1)
    BY <1>2
  <2>6. CASE munge
    <3>1. \A i \in 1..(n + 1) : i \in Munging(new) <=> i \in Munging(msg) \cup {n + 1}
      BY <2>1, <2>2, <2>3, <2>4, <2>6
    <3>2. n + 1 \in 1..(n + 1)
      BY <1>2
    <3>3. Munging(new) = Munging(msg) \cup {n + 1}
      BY <2>3, <2>5, <3>1, <3>2, Zenon
    <3> QED BY <2>6, <3>3
  <2>7. CASE ~munge
    <3>1. \A i \in 1..(n + 1) : i \in Munging(new) <=> i \in Munging(msg)
      <4>1. n + 1 \notin Munging(msg)
        BY <1>2 DEF Munging
      <4> QED BY <2>1, <2>2, <2>4, <2>7, <4>1
    <3>2. Munging(new) = Munging(msg)
      BY <2>3, <2>5, <3>1, Zenon
    <3> QED BY <2>7, <3>2
  <2> QED BY <2>6, <2>7
<1>5. Munges(new) = IF munge THEN Munges(msg) + 1 ELSE Munges(msg)
  <2>1. n + 1 \notin Munging(msg)
    BY <1>2 DEF Munging
  <2>2. IsFiniteSet(Munging(msg)) /\ Munges(msg) = Cardinality(Munging(msg))
    BY MungesCounted
  <2>3. Cardinality(Munging(msg) \cup {n + 1}) = Cardinality(Munging(msg)) + 1
    BY <2>1, <2>2, FS_AddElement
  <2>4. Munges(new) = Cardinality(Munging(new))
    BY MungesCounted
  <2> QED BY <1>4, <2>2, <2>3, <2>4
<1>6. Munges(msg) \in Nat
  BY MungesCounted
<1>7. CASE ~munge
  BY <1>2, <1>3, <1>5, <1>7 DEF Answering
<1>8. CASE munge
  <2>1. new.from \in Passed(new) /\ new.replyTo = OriginalAddress(l, msg) /\ Munges(new) = Munges(msg) + 1
    BY <1>2, <1>3, <1>5, <1>8
  <2>2. CASE msg.signed.from = NoAddress
    BY <1>2, <1>3, <2>2 DEF Answering
  <2>3. CASE Munges(msg) = 0 /\ msg.from = msg.signed.from /\ msg.signed.from # NoAddress
    BY <1>2, <1>3, <2>1, <2>3 DEF Answering, OriginalAddress
  <2>4. CASE Munges(msg) > 0 /\ msg.from \in Passed(msg)
    <3>1. msg.from # NoAddress /\ msg.from \in Passed(new)
      BY <1>2, <2>4
    <3> QED BY <1>2, <1>6, <2>1, <2>4, <3>1 DEF Answering, OriginalAddress
  <2> QED BY <1>6, <2>2, <2>3, <2>4 DEF Answering
<1> QED BY <1>2, <1>7, <1>8

-----------------------------------------------------------------------------
(* DMARC. What the author's domain signed stays intact or carries a good     *)
(* signature of the list in From, as long as every list that edits munges    *)
(* and signs. A post nobody vouches for keeps its author and gets no         *)
(* signature, until a list munges it or lends it the domain of its author;   *)
(* and when that domain enforces its policy, the first list stops it. The    *)
(* signature of the list that munged last names the optional headers of the  *)
(* lists up to that one; the copy has those of all of them.                  *)
Headed(msg) == msg.heads = Published(msg, Len(msg.route))

OfTheLastMunger(signature, msg) ==
    /\ signature.list = msg.from /\ signature.over = Content(msg)
    /\ \E i \in 1..Len(msg.route) :
          MungedLast(msg, i) /\ signature.heads = Published(msg, i)

Vouching(msg) ==
    msg.dkim /\ msg.signed.from # NoAddress /\ Upright(msg) =>
        /\ msg.from # NoAddress
        /\ \/ Intact(msg)
           \/ \E k \in 1..Len(msg.own) : OfTheLastMunger(msg.own[k], msg)

Unvouched(msg) == ~msg.dkim /\ ~msg.spf /\ msg.signed.from # NoAddress

Foreign(msg) ==
    \A i \in 1..Len(msg.route) :
        /\ ~msg.route[i].munged
        /\ Domain[msg.route[i].list] # Domain[msg.signed.from]

AsWritten(msg) ==
    Unvouched(msg) /\ Foreign(msg) => msg.from = msg.signed.from /\ msg.own = <<>>

Stopped(msg) ==
    Unvouched(msg) /\ msg.route # <<>> => Domain[msg.signed.from] \notin Enforcing

Travelling(msg) == Headed(msg) /\ Vouching(msg) /\ AsWritten(msg) /\ Stopped(msg)

(* A new post is as its author wrote it.                                     *)
LEMMA FreshTravelling ==
    ASSUME NEW c, Fresh(c) PROVE Travelling(c.msg)
<1>1. /\ c.msg.signed = [from |-> c.msg.from, replyTo |-> NoAddress, subject |-> c.msg.subject]
      /\ c.msg.replyTo = NoAddress /\ c.msg.own = <<>> /\ c.msg.route = <<>> /\ c.msg.heads = {}
  BY DEF Fresh, Written
<1>2. Intact(c.msg) /\ c.msg.from = c.msg.signed.from
  BY <1>1 DEF Intact, Content
<1>3. Headed(c.msg)
  <2>1. 1..Len(c.msg.route) = {}
    BY <1>1
  <2> QED BY <1>1, <2>1 DEF Headed, Published
<1> QED BY <1>1, <1>2, <1>3 DEF Travelling, Vouching, AsWritten, Stopped

(* One more list on the way adds what it publishes.                          *)
LEMMA PublishedOn ==
    ASSUME NEW msg \in Messages, NEW new \in Messages, NEW hop \in Hops,
           new.route = Append(msg.route, hop)
    PROVE  /\ \A i \in 0..Len(msg.route) : Published(new, i) = Published(msg, i)
           /\ Published(new, Len(msg.route) + 1) =
                  Published(msg, Len(msg.route)) \cup Publishes[hop.list]
<1> DEFINE n == Len(msg.route)
           Heads(i) == Publishes[new.route[i].list]
<1>1. n \in Nat /\ new.route[n + 1] = hop /\ \A i \in 1..n : new.route[i] = msg.route[i]
  BY PassedOn
<1> HIDE DEF n
<1>2. ASSUME NEW i \in 0..n PROVE Published(new, i) = Published(msg, i)
  <2>1. \A k \in 1..i : k \in 1..n
    BY <1>1
  <2>2. \A k \in 1..i : new.route[k] = msg.route[k]
    BY <1>1, <2>1
  <2>3. \A k \in 1..i : Publishes[new.route[k].list] = Publishes[msg.route[k].list]
    BY <2>2
  <2>4. {Publishes[new.route[k].list] : k \in 1..i} = {Publishes[msg.route[k].list] : k \in 1..i}
    <3> DEFINE now == {Publishes[new.route[k].list] : k \in 1..i}
               before == {Publishes[msg.route[k].list] : k \in 1..i}
    <3>1. \A x : x \in now <=> \E k \in 1..i : x = Publishes[new.route[k].list]
      OBVIOUS
    <3>2. \A x : x \in before <=> \E k \in 1..i : x = Publishes[msg.route[k].list]
      OBVIOUS
    <3> HIDE DEF now, before
    <3>3. \A x : x \in now <=> x \in before
      <4> SUFFICES ASSUME NEW x PROVE x \in now <=> x \in before
        OBVIOUS
      <4>1. ASSUME x \in now PROVE x \in before
        <5>1. PICK k \in 1..i : x = Publishes[new.route[k].list]
          BY <3>1, <4>1
        <5>2. x = Publishes[msg.route[k].list]
          BY <2>3, <5>1
        <5> QED BY <3>2, <5>2
      <4>2. ASSUME x \in before PROVE x \in now
        <5>1. PICK k \in 1..i : x = Publishes[msg.route[k].list]
          BY <3>2, <4>2
        <5>2. x = Publishes[new.route[k].list]
          BY <2>3, <5>1
        <5> QED BY <3>1, <5>2
      <4> QED BY <4>1, <4>2
    <3>4. now = before
      BY <3>3, Zenon
    <3> QED BY <3>4 DEF now, before
  <2> QED BY <2>4 DEF Published
<1>3. Published(new, n + 1) = Published(new, n) \cup Heads(n + 1)
  <2>1. 1..(n + 1) = (1..n) \cup {n + 1}
    BY <1>1
  <2>2. {Heads(k) : k \in 1..(n + 1)} = {Heads(k) : k \in 1..n} \cup {Heads(n + 1)}
    BY <2>1
  <2> QED BY <2>2 DEF Published
<1>4. n \in 0..n
  BY <1>1
<1> QED BY <1>1, <1>2, <1>3, <1>4 DEF n

(* What nobody vouches for, and no list lent its name, passes no DMARC check. *)
LEMMA NobodyVouches ==
    ASSUME NEW msg \in Messages, AsWritten(msg), Unvouched(msg), Foreign(msg)
    PROVE  msg.from = msg.signed.from /\ msg.own = <<>> /\ ~MayPass(msg)
<1>1. msg.from = msg.signed.from /\ msg.own = <<>>
  BY DEF AsWritten
<1>2. ~DkimAligned(msg)
  BY <1>1 DEF DkimAligned, Verified, Unvouched
<1>3. ~SpfAligned(msg)
  <2>1. CASE msg.route = <<>>
    BY <2>1 DEF SpfAligned, Unvouched
  <2>2. CASE msg.route # <<>>
    <3>1. msg.route \in Seq(Hops)
      BY DEF Messages, Hops
    <3>2. Len(msg.route) \in 1..Len(msg.route)
      BY <2>2, <3>1, EmptySeq, LenProperties
    <3>3. Last(msg.route) = msg.route[Len(msg.route)]
      BY DEF Last
    <3> QED BY <1>1, <2>2, <3>2, <3>3 DEF SpfAligned, Foreign
  <2> QED BY <2>1, <2>2
<1> QED BY <1>1, <1>2, <1>3 DEF MayPass, Passes, Unvouched

(* A hop keeps all of it: the gates withhold the signature of the list from  *)
(* what passes nowhere.                                                      *)
LEMMA HopTravelling ==
    ASSUME NEW l \in Lists, NEW msg \in Messages, NEW new \in Messages, NEW r,
           NEW munge \in BOOLEAN, NEW withheld \in BOOLEAN,
           MayPass(msg) \/ (withheld /\ ~Enforces(msg)),
           Effect(l, msg, munge, withheld, r, new), Travelling(msg)
    PROVE  Travelling(new)
<1> DEFINE n == Len(msg.route)
           m == Len(msg.own)
           signature == [list |-> l, over |-> Content(new), heads |-> new.heads]
<1>1. PICK hop \in Hops : /\ hop.list = l /\ hop.munged = munge /\ hop.withheld = withheld
                          /\ new.route = Append(msg.route, hop)
  <2>1. [list |-> l, munged |-> munge, withheld |-> withheld] \in Hops
    BY DEF Hops
  <2> QED BY <2>1 DEF Effect
<1>2. /\ n \in Nat /\ Len(new.route) = n + 1
      /\ \A i \in 1..n : new.route[i] = msg.route[i]
      /\ new.route[n + 1] = hop
  BY <1>1, PassedOn, SMT
<1>3. /\ new.signed = msg.signed /\ new.dkim = msg.dkim /\ new.spf = msg.spf
      /\ new.from = IF munge THEN l ELSE msg.from
      /\ new.replyTo = IF munge THEN OriginalAddress(l, msg) ELSE msg.replyTo
      /\ ~HasTag(l) => new.subject = msg.subject
      /\ new.heads = msg.heads \cup Publishes[l]
      /\ new.own = IF withheld THEN msg.own ELSE Append(msg.own, signature)
  BY DEF Effect
<1>4. n + 1 \in 1..Len(new.route) /\ \A i \in 1..n : i \in 1..Len(new.route)
  BY <1>2
<1>5. msg.own \in Seq(Signatures) /\ signature \in Signatures /\ m \in Nat
  <2>1. msg.own \in Seq(Signatures)
    BY DEF Messages
  <2>2. signature \in Signatures
    BY DEF Messages, Content, Contents, Signatures
  <2> QED BY <2>1, <2>2, LenProperties
<1> HIDE DEF signature
<1>6. \A k \in 1..m : k \in 1..Len(new.own) /\ new.own[k] = msg.own[k]
  <2>1. CASE withheld
    BY <1>3, <1>5, <2>1
  <2>2. CASE ~withheld
    <3>1. Len(new.own) = m + 1 /\ \A k \in 1..m : new.own[k] = msg.own[k]
      BY <1>3, <1>5, <2>2, Appended
    <3> QED BY <1>5, <3>1
  <2> QED BY <2>1, <2>2
<1>7. /\ \A i \in 1..n : Published(new, i) = Published(msg, i)
      /\ Published(new, n + 1) = Published(msg, n) \cup Publishes[l]
  <2>1. \A i \in 1..n : i \in 0..n
    BY <1>2
  <2>2. /\ \A i \in 0..n : Published(new, i) = Published(msg, i)
        /\ Published(new, n + 1) = Published(msg, n) \cup Publishes[hop.list]
    BY <1>1, PublishedOn
  <2> HIDE DEF n
  <2>3. Publishes[hop.list] = Publishes[l]
    BY <1>1
  <2>4. \A i \in 1..n : Published(new, i) = Published(msg, i)
    BY <2>1, <2>2, Zenon
  <2> QED BY <2>2, <2>3, <2>4, Zenon
<1>8. Headed(new)
  BY <1>2, <1>3, <1>7 DEF Travelling, Headed
<1>9. Vouching(new)
  <2> SUFFICES ASSUME new.dkim, new.signed.from # NoAddress, Upright(new)
               PROVE  /\ new.from # NoAddress
                      /\ Intact(new) \/ \E k \in 1..Len(new.own) : OfTheLastMunger(new.own[k], new)
    BY DEF Vouching
  <2>0. DOMAIN msg.route = 1..n /\ DOMAIN new.route = 1..(n + 1)
    <3>1. msg.route \in Seq(Hops) /\ new.route \in Seq(Hops)
      BY DEF Messages, Hops
    <3> QED BY <1>2, <3>1, LenProperties
  <2>1. Upright(msg)
    BY <1>2, <1>4, <2>0 DEF Upright
  <2>2. (HasTag(l) => munge) /\ (munge => ~withheld)
    BY <1>1, <1>2, <1>4, <2>0 DEF Upright
  <2>3. CASE munge
    <3>1. new.own = Append(msg.own, signature) /\ new.from = l
      BY <1>3, <2>2, <2>3
    <3>2. Len(new.own) = m + 1 /\ new.own[m + 1] = signature
      BY <1>5, <3>1, Appended
    <3>3. m + 1 \in 1..Len(new.own) /\ l # NoAddress
      BY <1>5, <3>2
    <3>4. MungedLast(new, n + 1)
      <4>1. new.route[n + 1].munged
        BY <1>1, <1>2, <2>3
      <4>2. \A k \in DOMAIN new.route : k <= n + 1
        BY <1>2, <2>0
      <4> QED BY <4>1, <4>2 DEF MungedLast
    <3>5. signature.list = new.from /\ signature.over = Content(new)
          /\ signature.heads = Published(new, n + 1)
      BY <1>2, <1>8, <3>1 DEF Headed, signature
    <3>6. OfTheLastMunger(signature, new)
      BY <1>4, <3>4, <3>5 DEF OfTheLastMunger
    <3> QED BY <3>1, <3>2, <3>3, <3>6
  <2>4. CASE ~munge
    <3>1. Content(new) = Content(msg) /\ new.from = msg.from
      BY <1>3, <2>2, <2>4 DEF Content
    <3>2. Intact(msg) => Intact(new)
      BY <1>3, <3>1 DEF Intact
    <3>3. /\ msg.from # NoAddress
          /\ Intact(msg) \/ \E k \in 1..m : OfTheLastMunger(msg.own[k], msg)
      BY <1>3, <2>1 DEF Travelling, Vouching
    <3>4. ASSUME NEW k \in 1..m, OfTheLastMunger(msg.own[k], msg)
          PROVE  k \in 1..Len(new.own) /\ OfTheLastMunger(new.own[k], new)
      <4>1. PICK i \in 1..n : MungedLast(msg, i) /\ msg.own[k].heads = Published(msg, i)
        BY <3>4 DEF OfTheLastMunger
      <4>2. MungedLast(new, i)
        <5>1. new.route[i].munged
          BY <1>2, <4>1 DEF MungedLast
        <5>2. ASSUME NEW j \in 1..(n + 1), new.route[j].munged PROVE j <= i
          <6>1. j # n + 1
            BY <1>1, <1>2, <2>4, <5>2
          <6>2. j \in 1..n
            BY <1>2, <6>1
          <6> QED BY <1>2, <2>0, <4>1, <5>2, <6>2 DEF MungedLast
        <5> QED BY <2>0, <5>1, <5>2 DEF MungedLast
      <4>3. k \in 1..Len(new.own) /\ new.own[k] = msg.own[k]
        BY <1>6
      <4>4. msg.own[k].list = new.from /\ msg.own[k].over = Content(new)
        BY <3>1, <3>4 DEF OfTheLastMunger
      <4>5. i \in 1..Len(new.route) /\ Published(new, i) = Published(msg, i)
        BY <1>4, <1>7
      <4> QED BY <4>1, <4>2, <4>3, <4>4, <4>5 DEF OfTheLastMunger
    <3> QED BY <3>1, <3>2, <3>3, <3>4
  <2> QED BY <2>3, <2>4
<1>10. ASSUME Unvouched(new) PROVE Unvouched(msg)
  BY <1>3, <1>10 DEF Unvouched
<1>11. AsWritten(new)
  <2> SUFFICES ASSUME Unvouched(new), Foreign(new)
               PROVE  new.from = new.signed.from /\ new.own = <<>>
    BY DEF AsWritten
  <2>1. Foreign(msg)
    BY <1>2, <1>3, <1>4 DEF Foreign
  <2>2. msg.from = msg.signed.from /\ msg.own = <<>> /\ withheld
    BY <1>10, <2>1, NobodyVouches DEF Travelling
  <2>3. ~munge
    BY <1>1, <1>2, <1>4 DEF Foreign
  <2> QED BY <1>3, <2>2, <2>3
<1>12. Stopped(new)
  <2> SUFFICES ASSUME Unvouched(new) PROVE Domain[new.signed.from] \notin Enforcing
    BY DEF Stopped
  <2>1. CASE msg.route = <<>>
    <3>1. Foreign(msg)
      BY <2>1 DEF Foreign
    <3>2. msg.from = msg.signed.from /\ ~Enforces(msg)
      BY <1>10, <3>1, NobodyVouches DEF Travelling
    <3> QED BY <1>3, <1>10, <3>2 DEF Enforces, Unvouched
  <2>2. CASE msg.route # <<>>
    BY <1>3, <1>10, <2>2 DEF Travelling, Stopped
  <2> QED BY <2>1, <2>2
<1> QED BY <1>8, <1>9, <1>11, <1>12 DEF Travelling

-----------------------------------------------------------------------------
(* The inductive invariant: what every copy under way or delivered satisfies. *)
Good(c) ==
    /\ Stamped(c.msg) /\ Once(c.msg)
    /\ Sealing(c.msg)
    /\ Linking(c.msg, c.to)
    /\ Answering(c.msg) /\ Passed(c.msg) \subseteq Lists
    /\ Travelling(c.msg)
    /\ Len(c.msg.ids) = Len(c.msg.route) /\ Len(c.msg.seals) = Len(c.msg.route)

IInv == Placed /\ \A c \in Copies : Good(c)

(* New posts satisfy the invariant.                                           *)
LEMMA FreshGood ==
    ASSUME NEW c, Fresh(c) PROVE Good(c)
<1>1. c.msg.ids = <<>> /\ c.msg.seals = <<>> /\ c.msg.route = <<>>
  BY DEF Fresh, Written
<1>2. Passed(c.msg) \subseteq Lists
  BY <1>1 DEF Passed
<1> QED BY <1>1, <1>2, FreshOnce, FreshSealing, FreshLinking, FreshAnswering, FreshTravelling
   DEF Good

(* A hop preserves the invariant.                                            *)
LEMMA OnwardGood ==
    ASSUME NEW d, NEW c, Onward(d, c), Good(d) PROVE Good(c)
<1>1. PICK munge \in BOOLEAN, withheld \in BOOLEAN :
          /\ munge => d.to \in MayMunge
          /\ MayPass(d.msg) \/ (withheld /\ ~Enforces(d.msg))
          /\ Effect(d.to, d.msg, munge, withheld, c.to, c.msg)
  BY OnwardEffect
<1>2. PICK l \in Lists, msg \in Messages, new \in Messages, r \in Everybody :
          l = d.to /\ msg = d.msg /\ new = c.msg /\ r = c.to
  <2>1. c.to \in Everybody /\ c.msg \in Messages /\ d.to \in Lists /\ d.msg \in Messages
    BY OnwardEffect
  <2> QED BY <2>1
<1>3. /\ Effect(l, msg, munge, withheld, r, new) /\ (munge => l \in MayMunge)
      /\ MayPass(msg) \/ (withheld /\ ~Enforces(msg))
      /\ Sealing(msg) /\ Linking(msg, l) /\ Answering(msg) /\ Passed(msg) \subseteq Lists
      /\ Travelling(msg)
  BY <1>1, <1>2 DEF Good
<1>4. /\ Sealing(new) /\ Linking(new, r) /\ Answering(new) /\ Passed(new) \subseteq Lists
      /\ Travelling(new)
  <2>1. Sealing(new)
    BY <1>3, HopSealing
  <2>2. Linking(new, r)
    BY <1>3, HopLinking
  <2>3. Answering(new) /\ Passed(new) \subseteq Lists
    BY <1>3, HopAnswering
  <2>4. Travelling(new)
    BY <1>3, HopTravelling
  <2> QED BY <2>1, <2>2, <2>3, <2>4
<1>5. Stamped(c.msg) /\ Once(c.msg)
  BY OnwardOnce DEF Good
<1>6. Len(new.ids) = Len(new.route) /\ Len(new.seals) = Len(new.route)
  <2>1. /\ new.ids = <<ListId[l]>> \o msg.ids /\ new.seals = Append(msg.seals, Verified(msg))
        /\ \E hop \in Hops : new.route = Append(msg.route, hop)
    <3>1. [list |-> l, munged |-> munge, withheld |-> withheld] \in Hops
      BY DEF Hops
    <3> QED BY <1>3, <3>1 DEF Effect
  <2>2. /\ msg.ids \in Seq(Seq(Symbols)) /\ msg.seals \in Seq(BOOLEAN) /\ msg.route \in Seq(Hops)
        /\ Verified(msg) \in BOOLEAN /\ ListId[l] \in Seq(Symbols)
    BY DEF Messages, Hops, Verified, Intact
  <2>3. Len(new.ids) = Len(msg.ids) + 1
    BY <2>1, <2>2, PutInFront
  <2>4. Len(new.seals) = Len(msg.seals) + 1
    BY <2>1, <2>2, Appended
  <2>5. Len(new.route) = Len(msg.route) + 1
    BY <2>1, <2>2, Appended
  <2>6. Len(msg.ids) = Len(msg.route) /\ Len(msg.seals) = Len(msg.route)
    BY <1>2 DEF Good
  <2> QED BY <2>3, <2>4, <2>5, <2>6
<1> QED BY <1>2, <1>4, <1>5, <1>6 DEF Good

(* The invariant is inductive.                                                *)
THEOREM Invariance == Spec => []IInv
<1>1. Init => IInv
  BY DEF Init, IInv, Placed, Copies
<1>2. IInv /\ [Next]_vars => IInv'
  <2> SUFFICES ASSUME IInv, [Next]_vars PROVE IInv'
    OBVIOUS
  <2>1. /\ Placed'
        /\ \A c \in Copies' : \/ c \in Copies
                              \/ Fresh(c) /\ Begun(c.msg.subject)
                              \/ \E d \in transit : Onward(d, c)
    BY NewCopies DEF IInv
  <2>2. \A d \in transit : Good(d)
    BY DEF IInv, Copies
  <2>3. ASSUME NEW c \in Copies' PROVE Good(c)
    <3>1. CASE c \in Copies
      BY <3>1 DEF IInv
    <3>2. CASE Fresh(c)
      BY <3>2, FreshGood
    <3>3. ASSUME NEW d \in transit, Onward(d, c) PROVE Good(c)
      BY <2>2, <3>3, OnwardGood
    <3> QED BY <2>1, <3>1, <3>2, <3>3
  <2> QED BY <2>1, <2>3 DEF IInv
<1> QED BY <1>1, <1>2, PTL DEF Spec

(* What the invariant says of one copy, for the theorems below.               *)
LEMMA CopyShape ==
    ASSUME IInv, NEW d \in Copies
    PROVE  /\ d.msg \in Messages /\ d.to \in Everybody /\ Good(d)
           /\ DOMAIN d.msg.route = 1..Len(d.msg.route) /\ DOMAIN d.msg.seals = 1..Len(d.msg.seals)
           /\ DOMAIN d.msg.links = 1..Len(d.msg.links) /\ DOMAIN d.msg.own = 1..Len(d.msg.own)
<1>1. d.msg \in Messages /\ d.to \in Everybody /\ Good(d)
  BY DEF IInv, Placed, Copies, Everybody
<1>2. d.msg.route \in Seq(Hops) /\ d.msg.seals \in Seq(BOOLEAN) /\ d.msg.links \in Seq(Everybody)
  BY <1>1 DEF Messages, Hops, Everybody
<1>3. d.msg.own \in Seq(Signatures)
  BY <1>1 DEF Messages
<1> QED BY <1>1, <1>2, <1>3, LenProperties

(* Every variable keeps its shape, and every list a copy passed left one     *)
(* List-Id and one seal on it (finalize adds both and removes neither).      *)
THEOREM TypeCorrect == Spec => []TypeOK
<1>1. Init => TypeOK
  BY DEF Init, TypeOK, Copies
<1>2. TypeOK /\ IInv' /\ [Next]_vars => TypeOK'
  <2> SUFFICES ASSUME TypeOK, IInv', [Next]_vars PROVE TypeOK'
    OBVIOUS
  <2>1. /\ transit' \subseteq [to : Lists, msg : Messages]
        /\ mailboxes' \subseteq [to : People, msg : Messages] /\ posts' \in Nat
    BY DEF IInv, Placed
  <2>2. \A d \in Copies' : Len(d.msg.ids) = Len(d.msg.route) /\ Len(d.msg.seals) = Len(d.msg.route)
    BY DEF IInv, Good
  <2>3. looped' \subseteq [to : Lists, msg : Messages]
    BY DEF TypeOK, Next, Handle, Post, Answer, DropLoop, DropDuplicate, Refuse, Distribute, vars
  <2>4. seen' \in [Lists -> SUBSET Nat]
    <3>1. CASE UNCHANGED seen
      BY <3>1 DEF TypeOK
    <3>2. ASSUME NEW d \in transit, Record(d) PROVE seen' \in [Lists -> SUBSET Nat]
      <4>1. d.to \in Lists /\ d.msg.post \in Nat
        BY DEF TypeOK, Messages
      <4> QED BY <3>2, <4>1 DEF Record, TypeOK
    <3>3. UNCHANGED seen \/ \E d \in transit : Record(d)
      BY DEF Next, Handle, Post, Answer, DropLoop, DropDuplicate, Refuse, Distribute, vars
    <3> QED BY <3>1, <3>2, <3>3
  <2> QED BY <2>1, <2>2, <2>3, <2>4 DEF TypeOK
<1> QED BY <1>1, <1>2, Invariance, PTL DEF Spec

(* The loop guard works for any subscriptions between lists, with and        *)
(* without Message-IDs: the List-Id headers on a copy are those of the lists *)
(* it passed, and loop.sieve sees them all.                                  *)
THEOREM NoListTwice == Spec => []NeverThroughAgain
<1>1. IInv => NeverThroughAgain
  <2> SUFFICES ASSUME IInv, NEW d \in Copies
               PROVE  \A i, j \in DOMAIN d.msg.route :
                         d.msg.route[i].list = d.msg.route[j].list => i = j
    BY DEF NeverThroughAgain
  <2>1. Good(d) /\ DOMAIN d.msg.route = 1..Len(d.msg.route)
    BY CopyShape
  <2>2. Once(d.msg)
    BY <2>1 DEF Good
  <2> QED BY <2>1, <2>2 DEF Once
<1> QED BY <1>1, Invariance, PTL

-----------------------------------------------------------------------------
(* Why posts come to rest.                                                   *)

(* No way of a copy is longer than there are lists.                          *)
ShortRoutes == \A d \in Copies : Len(d.msg.route) <= Cardinality(Lists)

(* A list that handles a copy takes it out of transit for good, and puts     *)
(* copies in its place that are one list further on their way.               *)
OneFurther ==
    \A d \in transit : Handle(d) =>
        /\ d \notin transit'
        /\ \A c \in transit' : c \in transit \/ Len(c.msg.route) = Len(d.msg.route) + 1

(* What is mapped one to one is no larger than what it is mapped to.         *)
LEMMA OneToOne ==
    ASSUME NEW S, IsFiniteSet(S), NEW T, IsFiniteSet(T), NEW f \in [S -> T],
           \A x, y \in S : f[x] = f[y] => x = y
    PROVE  Cardinality(S) <= Cardinality(T)
<1>1. ~(Cardinality(T) < Cardinality(S))
  BY FS_PigeonHole
<1> QED BY <1>1, FS_CardinalityType

(* The route names every list once, so its hops are as many lists.           *)
LEMMA RouteBounded ==
    ASSUME IInv, NEW d \in Copies PROVE Len(d.msg.route) <= Cardinality(Lists)
<1>1. Good(d) /\ d.msg \in Messages
  BY CopyShape
<1>2. PICK n, passed : n = Len(d.msg.route) /\ passed = [i \in 1..n |-> d.msg.route[i].list]
  OBVIOUS
<1>3. n \in Nat /\ \A i \in 1..n : d.msg.route[i].list \in Lists
  <2>1. d.msg.route \in Seq(Hops)
    BY <1>1 DEF Messages, Hops
  <2>2. n \in Nat
    BY <1>2, <2>1, LenProperties
  <2>3. \A i \in 1..n : d.msg.route[i] \in Hops
    BY <1>2, <2>1, ElementOfSeq
  <2> QED BY <2>2, <2>3 DEF Hops
<1>4. passed \in [1..n -> Lists] /\ \A i, j \in 1..n : passed[i] = passed[j] => i = j
  <2>1. passed \in [1..n -> Lists]
    BY <1>2, <1>3
  <2>2. \A i, j \in 1..n : d.msg.route[i].list = d.msg.route[j].list => i = j
    BY <1>1, <1>2 DEF Good, Once
  <2>3. \A i \in 1..n : passed[i] = d.msg.route[i].list
    BY <1>2
  <2> QED BY <2>1, <2>2, <2>3
<1>5. IsFiniteSet(1..n) /\ Cardinality(1..n) = n
  BY <1>3, FS_Interval
<1>6. n <= Cardinality(Lists)
  <2>1. PICK hops : hops = 1..n
    OBVIOUS
  <2>2. /\ IsFiniteSet(hops) /\ Cardinality(hops) = n
        /\ passed \in [hops -> Lists] /\ \A i, j \in hops : passed[i] = passed[j] => i = j
    BY <1>4, <1>5, <2>1
  <2>3. IsFiniteSet(Lists)
    OBVIOUS
  <2>4. Cardinality(hops) <= Cardinality(Lists)
    BY <2>2, <2>3, OneToOne
  <2> QED BY <2>2, <2>4
<1> QED BY <1>2, <1>6

(* One more list on the route.                                               *)
LEMMA OnwardFurther ==
    ASSUME NEW d, NEW c, Onward(d, c)
    PROVE  Len(c.msg.route) = Len(d.msg.route) + 1 /\ Len(d.msg.route) \in Nat
<1>1. d.to \in Lists /\ d.msg \in Messages
  BY OnwardEffect
<1>2. PICK munge \in BOOLEAN, withheld \in BOOLEAN :
          Effect(d.to, d.msg, munge, withheld, c.to, c.msg)
  BY OnwardEffect
<1>3. PICK hop \in Hops : c.msg.route = Append(d.msg.route, hop)
  <2>1. c.msg.route = Append(d.msg.route, [list |-> d.to, munged |-> munge, withheld |-> withheld])
    BY <1>2 DEF Effect
  <2>2. [list |-> d.to, munged |-> munge, withheld |-> withheld] \in Hops
    BY <1>1 DEF Hops
  <2> QED BY <2>1, <2>2
<1>4. d.msg.route \in Seq(Hops)
  BY <1>1 DEF Messages, Hops
<1> QED BY <1>3, <1>4, Appended, LenProperties

(* The safety half of CirculationEnds: each step of a list replaces a copy   *)
(* by copies that are one list further, and no way is longer than there are  *)
(* lists, so that without new posts only finitely many steps are left        *)
(* (loop.sieve stops a copy at a list that it passed).                       *)
THEOREM WaysAreShort == Spec => []ShortRoutes /\ [][OneFurther]_vars
<1>1. IInv => ShortRoutes
  BY RouteBounded DEF ShortRoutes
<1>2. IInv => OneFurther
  <2> SUFFICES ASSUME IInv, NEW d \in transit, Handle(d)
               PROVE  /\ d \notin transit'
                      /\ \A c \in transit' : c \in transit \/ Len(c.msg.route) = Len(d.msg.route) + 1
    BY DEF OneFurther
  <2>1. CASE DropLoop(d) \/ DropDuplicate(d) \/ Refuse(d)
    <3>1. transit' = transit \ {d}
      BY <2>1 DEF DropLoop, DropDuplicate, Refuse
    <3> QED BY <3>1
  <2>2. CASE Distribute(d)
    <3>1. PICK copies :
              /\ transit' = (transit \ {d}) \cup {c \in copies : c.to \in Lists}
              /\ \A c \in copies : Onward(d, c)
      BY <2>2, SentOnward DEF IInv
    <3>2. \A c \in copies : Len(c.msg.route) = Len(d.msg.route) + 1 /\ Len(d.msg.route) \in Nat
      BY <3>1, OnwardFurther
    <3>3. d \notin copies
      BY <3>2
    <3> QED BY <3>1, <3>2, <3>3
  <2> QED BY <2>1, <2>2 DEF Handle
<1> QED BY <1>1, <1>2, Invariance, PTL

-----------------------------------------------------------------------------
(* Nobody gets a post from a list twice.                                     *)

(* Copies that a list sent on of a post it can recognize, and that list.     *)
Numbered(c) == c.msg.identified /\ c.msg.route # <<>>
SentBy(c) == Last(c.msg.route).list

Twins(c, e) == c.msg.post = e.msg.post /\ SentBy(c) = SentBy(e) /\ c.to = e.to

OncePerList == \A c, e \in Copies : Numbered(c) /\ Numbered(e) /\ Twins(c, e) => c = e

(* The list that sent a copy has its post in seen_messages.                  *)
Recorded == \A c \in Copies : Numbered(c) => c.msg.post \in seen[SentBy(c)]

(* What a hop leaves of the post and adds to its route.                      *)
LEMMA OnwardNumbered ==
    ASSUME NEW d, NEW c, Onward(d, c)
    PROVE  /\ SentBy(c) = d.to
           /\ c.msg.post = d.msg.post /\ c.msg.identified = d.msg.identified
<1>1. d.to \in Lists /\ d.msg \in Messages
  BY OnwardEffect
<1>2. PICK munge \in BOOLEAN, withheld \in BOOLEAN :
          Effect(d.to, d.msg, munge, withheld, c.to, c.msg)
  BY OnwardEffect
<1>3. c.msg.post = d.msg.post /\ c.msg.identified = d.msg.identified
  BY <1>2 DEF Effect
<1>4. PICK hop \in Hops : hop.list = d.to /\ c.msg.route = Append(d.msg.route, hop)
  <2>1. c.msg.route = Append(d.msg.route, [list |-> d.to, munged |-> munge, withheld |-> withheld])
    BY <1>2 DEF Effect
  <2>2. [list |-> d.to, munged |-> munge, withheld |-> withheld] \in Hops
    BY <1>1 DEF Hops
  <2> QED BY <2>1, <2>2
<1>5. PICK route \in Seq(Hops) : route = d.msg.route
  BY <1>1 DEF Messages, Hops
<1>6. Len(Append(route, hop)) = Len(route) + 1 /\ Append(route, hop)[Len(route) + 1] = hop
  BY Appended
<1>7. Last(c.msg.route) = hop
  BY <1>4, <1>5, <1>6 DEF Last
<1> QED BY <1>3, <1>4, <1>7 DEF SentBy

(* What a mail client writes was sent on by no list.                         *)
LEMMA NotNumbered ==
    ASSUME NEW to, NEW post, NEW identified, NEW dkim, NEW spf, NEW from, NEW subject, NEW chain
    PROVE  ~Numbered([to |-> to, msg |-> Written(post, identified, dkim, spf, from, subject, chain)])
BY DEF Numbered, Written

(* Where nothing is sent on, at most fresh copies come up.                   *)
LEMMA NothingSentOn ==
    ASSUME Recorded, OncePerList, \A l \in Lists : seen[l] \subseteq seen'[l],
           \A c \in Copies : Numbered(c) => SentBy(c) \in Lists,
           \A c \in Copies' : c \in Copies \/ ~Numbered(c)
    PROVE  Recorded' /\ OncePerList'
<1>1. \A c \in Copies' : Numbered(c) => c \in Copies
  OBVIOUS
<1>2. \A c \in Copies' : Numbered(c) => c.msg.post \in seen'[SentBy(c)]
  BY <1>1 DEF Recorded
<1>3. \A c, e \in Copies' : Numbered(c) /\ Numbered(e) /\ Twins(c, e) => c = e
  BY <1>1 DEF OncePerList
<1>4. Recorded'
  BY <1>2 DEF Recorded, Numbered, SentBy
<1>5. OncePerList'
  BY <1>3 DEF OncePerList, Numbered, SentBy, Twins
<1> QED BY <1>4, <1>5

(* A list that distributes a copy had no row for its post before, and has    *)
(* one now.                                                                  *)
LEMMA SentOnce ==
    ASSUME Placed, TypeOK, Recorded, OncePerList, NEW d \in transit, Distribute(d),
           \A c \in Copies : Numbered(c) => SentBy(c) \in Lists
    PROVE  Recorded' /\ OncePerList'
<1>1. PICK copies :
          /\ transit' = (transit \ {d}) \cup {c \in copies : c.to \in Lists}
          /\ mailboxes' = mailboxes \cup {c \in copies : c.to \in People}
          /\ \A c \in copies : Onward(d, c)
          /\ \A c, e \in copies : c.to = e.to => c = e
  BY SentOnward
<1>2. \A c \in Copies' : c \in Copies \/ c \in copies
  BY <1>1 DEF Copies
<1>3. \A c \in copies : /\ SentBy(c) = d.to
                        /\ c.msg.post = d.msg.post /\ c.msg.identified = d.msg.identified
  BY <1>1, OnwardNumbered
<1>4. d.to \in Lists /\ (d.msg.identified => d.msg.post \notin seen[d.to])
  BY DEF Placed, Distribute, Duplicate
<1>5. /\ d.msg.identified => d.msg.post \in seen'[d.to]
      /\ \A l \in Lists : seen[l] \subseteq seen'[l]
  <2>1. Record(d) /\ seen \in [Lists -> SUBSET Nat]
    BY DEF Distribute, TypeOK
  <2> QED BY <1>4, <2>1 DEF Record
<1>6. ASSUME NEW c \in Copies', Numbered(c) PROVE c.msg.post \in seen'[SentBy(c)]
  <2>1. CASE c \in Copies
    BY <1>5, <1>6, <2>1 DEF Recorded
  <2>2. CASE c \in copies
    BY <1>3, <1>5, <1>6, <2>2 DEF Numbered
  <2> QED BY <1>2, <2>1, <2>2
<1>7. ASSUME NEW c \in Copies, NEW e \in copies, Numbered(c), Numbered(e), Twins(c, e) PROVE FALSE
  <2>1. e.msg.identified
    BY <1>7 DEF Numbered
  <2>2. d.msg.identified /\ c.msg.post = d.msg.post /\ SentBy(c) = d.to
    BY <1>3, <1>7, <2>1 DEF Twins
  <2>3. c.msg.post \in seen[SentBy(c)]
    BY <1>7 DEF Recorded
  <2> QED BY <1>4, <2>2, <2>3
<1>8. ASSUME NEW c \in Copies', NEW e \in Copies', Numbered(c), Numbered(e), Twins(c, e) PROVE c = e
  <2>1. CASE c \in Copies /\ e \in Copies
    BY <1>8, <2>1 DEF OncePerList
  <2>2. CASE c \in copies /\ e \in copies
    BY <1>1, <1>8, <2>2 DEF Twins
  <2>3. Twins(e, c)
    BY <1>8 DEF Twins
  <2> QED BY <1>2, <1>7, <1>8, <2>1, <2>2, <2>3
<1>9. Recorded'
  BY <1>6 DEF Recorded, Numbered, SentBy
<1>10. OncePerList'
  BY <1>8 DEF OncePerList, Numbered, SentBy, Twins
<1> QED BY <1>9, <1>10

(* Every copy that was sent on names a list as its sender.                   *)
LEMMA SendersAreLists ==
    ASSUME IInv, NEW c \in Copies, Numbered(c) PROVE SentBy(c) \in Lists
<1>1. c.msg.route \in Seq(Hops) /\ c.msg.route # <<>>
  <2>1. c.msg \in Messages
    BY CopyShape
  <2> QED BY <2>1 DEF Messages, Hops, Numbered
<1>2. PICK route \in Seq(Hops) : route = c.msg.route /\ route # <<>>
  BY <1>1
<1>3. Len(route) \in 1..Len(route)
  BY <1>2, EmptySeq, LenProperties
<1>4. Last(route) \in Hops
  BY <1>3, ElementOfSeq DEF Last
<1> QED BY <1>2, <1>4 DEF SentBy, Hops

(* Whichever way lists are subscribed to one another, and on however many    *)
(* ways a post reaches a list, a subscriber of that list gets it from there  *)
(* once: unless it lacks a Message-ID, the list takes the first copy only    *)
(* (record_message), and send_all makes one copy for each subscriber of it.  *)
THEOREM OneCopyFromEachList == Spec => []OncePerList
<1>1. Init => Recorded /\ OncePerList
  BY DEF Init, Recorded, OncePerList, Copies
<1>2. IInv /\ TypeOK /\ Recorded /\ OncePerList /\ [Next]_vars => Recorded' /\ OncePerList'
  <2> SUFFICES ASSUME IInv, TypeOK, Recorded, OncePerList, [Next]_vars
               PROVE  Recorded' /\ OncePerList'
    OBVIOUS
  <2>1. \A c \in Copies : Numbered(c) => SentBy(c) \in Lists
    BY SendersAreLists
  <2>2. ASSUME NEW d \in transit, Distribute(d) PROVE Recorded' /\ OncePerList'
    BY <2>1, <2>2, SentOnce DEF IInv
  <2>3. ASSUME NEW c, ~Numbered(c), transit' = transit \cup {c}, UNCHANGED <<mailboxes, seen>>
        PROVE  Recorded' /\ OncePerList'
    <3>1. \A e \in Copies' : e \in Copies \/ ~Numbered(e)
      BY <2>3 DEF Copies
    <3>2. \A l \in Lists : seen[l] \subseteq seen'[l]
      BY <2>3
    <3> QED BY <2>1, <3>1, <3>2, NothingSentOn
  <2>4. ASSUME NEW s \in Starts, Post(s[1], s[2]) PROVE Recorded' /\ OncePerList'
    <3>1. PICK f \in Forms :
              transit' = transit \cup
                 {[to |-> s[2], msg |-> Written(posts + 1, f.identified, f.dkim, f.spf,
                                             IF f.named THEN s[1] ELSE NoAddress, f.subject,
                                             IF f.chained THEN <<s[2]>> ELSE <<>>)]}
      BY <2>4 DEF Post
    <3>2. UNCHANGED <<mailboxes, seen>>
      BY <2>4 DEF Post
    <3>3. PICK from, chain : /\ from = IF f.named THEN s[1] ELSE NoAddress
                             /\ chain = IF f.chained THEN <<s[2]>> ELSE <<>>
      OBVIOUS
    <3>4. PICK c : c = [to |-> s[2], msg |-> Written(posts + 1, f.identified, f.dkim, f.spf,
                                                     from, f.subject, chain)]
      OBVIOUS
    <3>5. ~Numbered(c)
      BY <3>4, NotNumbered
    <3>6. transit' = transit \cup {c}
      BY <3>1, <3>3, <3>4
    <3> QED BY <2>3, <3>2, <3>5, <3>6
  <2>5. ASSUME NEW d \in mailboxes, NEW l \in Lists, Answer(d, l) PROVE Recorded' /\ OncePerList'
    <3>1. transit' = transit \cup
             {[to |-> l, msg |-> Written(posts + 1, TRUE, TRUE, TRUE, d.to, <<Marker>> \o d.msg.subject, <<>>)]}
      BY <2>5 DEF Answer
    <3>2. UNCHANGED <<mailboxes, seen>>
      BY <2>5 DEF Answer
    <3>3. PICK subject : subject = <<Marker>> \o d.msg.subject
      OBVIOUS
    <3>4. PICK c : c = [to |-> l, msg |-> Written(posts + 1, TRUE, TRUE, TRUE, d.to, subject, <<>>)]
      OBVIOUS
    <3>5. ~Numbered(c)
      BY <3>4, NotNumbered
    <3>6. transit' = transit \cup {c}
      BY <3>1, <3>3, <3>4
    <3> QED BY <2>3, <3>2, <3>5, <3>6
  <2>6. ASSUME NEW d \in transit, DropLoop(d) \/ DropDuplicate(d) \/ Refuse(d)
        PROVE  Recorded' /\ OncePerList'
    <3>1. transit' \subseteq transit /\ mailboxes' = mailboxes
      BY <2>6 DEF DropLoop, DropDuplicate, Refuse
    <3>2. UNCHANGED seen \/ Record(d)
      BY <2>6 DEF DropLoop, DropDuplicate, Refuse
    <3>3. \A l \in Lists : seen[l] \subseteq seen'[l]
      <4>1. seen \in [Lists -> SUBSET Nat]
        BY DEF TypeOK
      <4>2. CASE UNCHANGED seen
        BY <4>2
      <4>3. CASE Record(d)
        BY <4>1, <4>3 DEF Record
      <4> QED BY <3>2, <4>2, <4>3
    <3>4. \A e \in Copies' : e \in Copies \/ ~Numbered(e)
      BY <3>1 DEF Copies
    <3> QED BY <2>1, <3>3, <3>4, NothingSentOn
  <2>7. CASE UNCHANGED vars
    <3>1. UNCHANGED <<transit, mailboxes, seen>>
      BY <2>7 DEF vars
    <3> QED BY <2>1, <3>1, NothingSentOn DEF Copies
  <2> QED BY <2>2, <2>4, <2>5, <2>6, <2>7 DEF Next, Handle
<1> QED BY <1>1, <1>2, Invariance, TypeCorrect, PTL DEF Spec

-----------------------------------------------------------------------------
(* ARC seals are truthful along any path: sign_and_seal seals the message as *)
(* it came in, and no edit of a list restores what the author signed.        *)
THEOREM SealsTruthful == Spec => []SealsTellIngress
<1>1. IInv => SealsTellIngress
  <2> SUFFICES ASSUME IInv, NEW d \in Copies
               PROVE  LET seals == d.msg.seals IN
                      /\ seals # <<>> /\ d.msg.dkim => Head(seals)
                      /\ \A i, j \in DOMAIN seals : i < j /\ seals[j] => seals[i]
                      /\ Verified(d.msg) => \A i \in DOMAIN seals : seals[i]
                      /\ ~d.msg.dkim => \A i \in DOMAIN seals : ~seals[i]
                      /\ ~Intact(d.msg) => \E l \in Passed(d.msg) : l \in MayMunge \/ HasTag(l)
    BY DEF SealsTellIngress
  <2>1. Sealing(d.msg) /\ DOMAIN d.msg.seals = 1..Len(d.msg.seals)
    BY CopyShape DEF Good
  <2>2. Head(d.msg.seals) = d.msg.seals[1]
    OBVIOUS
  <2> QED BY <2>1, <2>2 DEF Sealing
<1> QED BY <1>1, Invariance, PTL

(* The chain of DKIM2 links follows the path of every copy, however many     *)
(* copies were made on the way (one link for each recipient in send_all).    *)
THEOREM LinksTruthful == Spec => []LinksFollowPath
<1>1. IInv => LinksFollowPath
  <2> SUFFICES ASSUME IInv, NEW d \in Copies
               PROVE  /\ d.msg.links # <<>> /\ (\A i \in DOMAIN d.msg.route : ~d.msg.route[i].withheld)
                            => d.msg.links = Path(d)
                      /\ \A i \in DOMAIN d.msg.links : Contains(Path(d), d.msg.links[i])
    BY DEF LinksFollowPath
  <2>1. /\ Linking(d.msg, d.to) /\ DOMAIN d.msg.route = 1..Len(d.msg.route)
        /\ DOMAIN d.msg.links = 1..Len(d.msg.links) /\ d.msg \in Messages
    BY CopyShape DEF Good
  <2>2. Path(d) = LinkPath(d.msg, d.to)
    BY DEF Path, LinkPath
  <2>3. Len(d.msg.route) \in Nat
    BY <2>1, LenProperties DEF Messages
  <2>4. Len(Path(d)) = Len(d.msg.route) + 1
    <3>1. DOMAIN Path(d) = 1..(Len(d.msg.route) + 1)
      BY DEF Path
    <3> QED BY <2>3, <3>1
  <2> QED BY <2>1, <2>2, <2>4 DEF Linking, Contains
<1> QED BY <1>1, Invariance, PTL

(* One list on the way that munges keeps the author reachable, whatever the  *)
(* other lists do (munge_from_env and munge-from.sieve).                     *)
THEOREM AuthorsReachable == Spec => []AnswersFindTheAuthor
<1>1. IInv => AnswersFindTheAuthor
  <2> SUFFICES ASSUME IInv, NEW d \in Copies, d.msg.signed.from # NoAddress, Munges(d.msg) <= 1
               PROVE  AnswerTo(d.msg) = d.msg.signed.from
    BY DEF AnswersFindTheAuthor
  <2>1. Answering(d.msg)
    BY CopyShape DEF Good
  <2>2. Munges(d.msg) \in Nat
    BY CopyShape, MungesCounted
  <2> QED BY <2>1, <2>2 DEF Answering, AnswerTo
<1> QED BY <1>1, Invariance, PTL

(* DMARC along any path, for any domains, policies and published headers:    *)
(* munge-from and the signature of the list make up for what the edits spoil *)
(* as long as no later list adds a header it signed the absence of, and the  *)
(* gates of policy.rs keep the lists from vouching for a post that nobody    *)
(* vouched for before, but for the two ways the property names.              *)
THEOREM DmarcAlongAnyPath == Spec => []DmarcTravels
<1>1. IInv => DmarcTravels
  <2> SUFFICES ASSUME IInv, NEW d \in Copies PROVE
        LET msg == d.msg
            Vouched == msg.dkim \/ msg.spf
            author == msg.signed.from
        IN author # NoAddress =>
             /\ msg.dkim /\ Upright(msg) /\ NothingNew(msg) => Passes(msg)
             /\ ~Vouched /\ msg.own # <<>> =>
                   \E i \in DOMAIN msg.route :
                       msg.route[i].munged \/ Domain[msg.route[i].list] = Domain[author]
             /\ ~Vouched /\ msg.route # <<>> => Domain[author] \notin Enforcing
    BY DEF DmarcTravels
  <2> DEFINE msg == d.msg
  <2>1. /\ Travelling(msg)
        /\ DOMAIN msg.route = 1..Len(msg.route) /\ DOMAIN msg.own = 1..Len(msg.own)
    BY CopyShape DEF Good
  <2> HIDE DEF msg
  <2>2. ASSUME msg.signed.from # NoAddress, msg.dkim, Upright(msg), NothingNew(msg) PROVE Passes(msg)
    <3>1. msg.from # NoAddress
      BY <2>1, <2>2 DEF Travelling, Vouching
    <3>2. CASE Intact(msg)
      BY <2>2, <3>1, <3>2 DEF Passes, DkimAligned, Verified
    <3>3. ASSUME NEW k \in 1..Len(msg.own), OfTheLastMunger(msg.own[k], msg) PROVE Passes(msg)
      <4>1. PICK i \in 1..Len(msg.route) : MungedLast(msg, i) /\ msg.own[k].heads = Published(msg, i)
        BY <3>3 DEF OfTheLastMunger
      <4>2. msg.heads \subseteq msg.own[k].heads
        BY <2>1, <2>2, <4>1 DEF NothingNew, Travelling, Headed
      <4>3. Stands(msg.own[k], msg)
        BY <3>3, <4>2 DEF Stands, OfTheLastMunger
      <4> QED BY <2>1, <3>1, <3>3, <4>3 DEF Passes, DkimAligned, OfTheLastMunger
    <3> QED BY <2>1, <2>2, <3>2, <3>3 DEF Travelling, Vouching
  <2>3. ASSUME Unvouched(msg), msg.own # <<>> PROVE ~Foreign(msg)
    BY <2>1, <2>3 DEF Travelling, AsWritten
  <2>4. ASSUME Unvouched(msg), msg.route # <<>> PROVE Domain[msg.signed.from] \notin Enforcing
    BY <2>1, <2>4 DEF Travelling, Stopped
  <2> QED BY <2>1, <2>2, <2>3, <2>4 DEF Unvouched, Foreign, msg
<1> QED BY <1>1, Invariance, PTL

-----------------------------------------------------------------------------
(* Tags.                                                                     *)

LEMMA SubjectFacts ==
    ASSUME NEW s \in Subjects
    PROVE  Len(s) \in Nat /\ DOMAIN s = 1..Len(s) /\ (s # <<>> => Len(s) >= 1)
BY DEF Subjects

(* There are finitely many tags, and none is the marker of an answer.        *)
LEMMA TagsFinite ==
    /\ IsFiniteSet(TagNames) /\ TagNames \subseteq Tags /\ Marker \notin TagNames
    /\ \A l \in Lists : HasTag(l) => Tag[l] \in TagNames
<1> DEFINE tagging == {l \in Lists : HasTag(l)}
<1>1. tagging \in SUBSET Lists
  OBVIOUS
<1>2. IsFiniteSet(tagging)
  BY <1>1, FS_Subset
<1>3. [l \in tagging |-> Tag[l]] \in Surjection(tagging, TagNames)
  BY DEF Surjection, TagNames
<1>4. IsFiniteSet(TagNames)
  BY <1>2, <1>3, FS_Surjection
<1>5. TagNames \subseteq Tags
  BY DEF TagNames, HasTag
<1> QED BY <1>4, <1>5 DEF TagNames

LEMMA Counted ==
    ASSUME NEW s \in Subjects, NEW tag
    PROVE  /\ IsFiniteSet({i \in DOMAIN s : s[i] = tag}) /\ Occurrences(tag, s) \in Nat
           /\ IsFiniteSet(TagNames \ Answered(s)) /\ Cardinality(TagNames \ Answered(s)) \in Nat
           /\ IsFiniteSet({l \in Lists : Tag[l] = tag}) /\ Sharing(tag) \in Nat
           /\ Limit(tag, s) \in Nat /\ Occurrences(tag, s) <= Limit(tag, s)
<1>1. IsFiniteSet({i \in DOMAIN s : s[i] = tag})
  <2>1. {i \in DOMAIN s : s[i] = tag} \in SUBSET (1..Len(s)) /\ Len(s) \in Nat
    BY SubjectFacts
  <2>2. IsFiniteSet(1..Len(s))
    BY <2>1, FS_Interval
  <2> QED BY <2>1, <2>2, FS_Subset
<1>2. Occurrences(tag, s) \in Nat
  BY <1>1, FS_CardinalityType DEF Occurrences
<1>3. IsFiniteSet(TagNames \ Answered(s))
  <2>1. TagNames \ Answered(s) \in SUBSET TagNames
    OBVIOUS
  <2> QED BY <2>1, TagsFinite, FS_Subset
<1>4. IsFiniteSet({l \in Lists : Tag[l] = tag})
  <2>1. {l \in Lists : Tag[l] = tag} \in SUBSET Lists
    OBVIOUS
  <2> QED BY <2>1, FS_Subset
<1>5. Cardinality(TagNames \ Answered(s)) \in Nat /\ Sharing(tag) \in Nat
  BY <1>3, <1>4, FS_CardinalityType DEF Sharing
<1>6. Sharing(tag) * Cardinality(TagNames \ Answered(s)) \in Nat
  <2>1. \A m, n \in Nat : m * n \in Nat
    OBVIOUS
  <2> QED BY <1>5, <2>1
<1> QED BY <1>1, <1>2, <1>3, <1>4, <1>5, <1>6 DEF Limit

(* What a tag or a marker put in front changes.                              *)
IsPutOn(u, x, s) == s \in Subjects /\ x \in Tags \cup {Marker} /\ u = <<x>> \o s

FrontEffect(u, x, s) ==
    /\ u \in Subjects /\ u # <<>> /\ u[1] = x
    /\ \A tag : Occurrences(tag, u) <= Occurrences(tag, s) + 1
    /\ \A tag : x # tag => Occurrences(tag, u) <= Occurrences(tag, s)
    /\ Answered(u) = IF x = Marker /\ s # <<>> THEN Answered(s) \cup {s[1]} ELSE Answered(s)

(* Where a tag stands in a Subject.                                          *)
Places(tag, s) == {i \in DOMAIN s : s[i] = tag}

LEMMA PlacesCounted ==
    ASSUME NEW s \in Subjects, NEW tag
    PROVE  IsFiniteSet(Places(tag, s)) /\ Occurrences(tag, s) = Cardinality(Places(tag, s))
<1>1. IsFiniteSet({i \in DOMAIN s : s[i] = tag})
  BY Counted
<1> QED BY <1>1 DEF Occurrences, Places

LEMMA PutOn == ASSUME NEW u, NEW x, NEW s, IsPutOn(u, x, s) PROVE FrontEffect(u, x, s)
<1> USE DEF IsPutOn
<1>1. PICK n \in Nat : n = Len(s) /\ DOMAIN s = 1..n /\ (s # <<>> => n >= 1)
  BY SubjectFacts
<1>2. x \in Tags \cup {Marker, Text} /\ s \in Seq(Tags \cup {Marker, Text})
  BY DEF Subjects
<1>3. Len(u) = n + 1 /\ u[1] = x /\ \A i \in 1..n : u[i + 1] = s[i]
  BY <1>1, <1>2, PutInFront
<1>4. u \in Subjects
  <2>1. <<x>> \in Seq(Tags \cup {Marker, Text})
    BY <1>2
  <2> QED BY <1>2, <2>1, ConcatProperties DEF Subjects
<1>5. DOMAIN u = 1..(n + 1)
  BY <1>3, <1>4, SubjectFacts
<1>6. u # <<>>
  BY <1>1, <1>3
<1>7. ASSUME NEW tag
      PROVE  /\ Occurrences(tag, u) <= Occurrences(tag, s) + 1
             /\ x # tag => Occurrences(tag, u) <= Occurrences(tag, s)
  <2> DEFINE before == Places(tag, s)
             moved == {i + 1 : i \in before}
             after == Places(tag, u)
  <2>1. IsFiniteSet(before) /\ Occurrences(tag, s) = Cardinality(before)
    BY PlacesCounted
  <2>2. [i \in before |-> i + 1] \in Surjection(before, moved)
    BY DEF Surjection
  <2>3. after \in SUBSET (moved \cup {1}) /\ (x # tag => after \in SUBSET moved)
    <3> USE DEF Places
    <3> SUFFICES ASSUME NEW i \in after PROVE i \in moved \/ (i = 1 /\ x = tag)
      OBVIOUS
    <3>1. i \in 1..(n + 1) /\ u[i] = tag
      BY <1>5
    <3>2. CASE i = 1
      BY <1>3, <3>1, <3>2
    <3>3. CASE i # 1
      <4>1. PICK j \in 1..n : i = j + 1
        <5>1. i - 1 \in 1..n /\ i = (i - 1) + 1
          BY <1>1, <3>1, <3>3
        <5> QED BY <5>1
      <4>2. j \in before
        BY <1>1, <1>3, <3>1, <4>1
      <4> QED BY <4>1, <4>2
    <3> QED BY <3>2, <3>3
  <2>4. Occurrences(tag, u) = Cardinality(after)
    BY <1>4, PlacesCounted
  <2> HIDE DEF before, moved, after
  <2>5. IsFiniteSet(moved) /\ Cardinality(moved) <= Cardinality(before)
    BY <2>1, <2>2, FS_Surjection
  <2>6. IsFiniteSet(moved \cup {1}) /\ Cardinality(moved \cup {1}) <= Cardinality(moved) + 1
        /\ Cardinality(moved) \in Nat /\ Cardinality(before) \in Nat
    <3>1. Cardinality(moved) \in Nat /\ Cardinality(before) \in Nat
      BY <2>1, <2>5, FS_CardinalityType
    <3>2. /\ IsFiniteSet(moved \cup {1})
          /\ Cardinality(moved \cup {1}) = IF 1 \in moved THEN Cardinality(moved) ELSE Cardinality(moved) + 1
      BY <2>5, FS_AddElement
    <3> QED BY <3>1, <3>2
  <2>7. Cardinality(after) <= Cardinality(moved \cup {1}) /\ IsFiniteSet(after)
    BY <2>3, <2>6, FS_Subset
  <2>8. x # tag => Cardinality(after) <= Cardinality(moved)
    BY <2>3, <2>5, FS_Subset
  <2>9. Cardinality(after) \in Nat /\ Cardinality(moved \cup {1}) \in Nat
    BY <2>6, <2>7, FS_CardinalityType
  <2> QED BY <2>1, <2>4, <2>5, <2>6, <2>7, <2>8, <2>9
<1>8. ASSUME NEW tag
      PROVE  tag \in Answered(u) <=> tag \in Answered(s) \/ (x = Marker /\ s # <<>> /\ tag = s[1])
  <2>1. ASSUME NEW i \in 2..Len(u), u[i - 1] = Marker, u[i] = tag
        PROVE  tag \in Answered(s) \/ (x = Marker /\ s # <<>> /\ tag = s[1])
    <3>1. PICK j \in 1..n : i = j + 1 /\ i - 1 = j
      <4>1. i - 1 \in 1..n /\ i = (i - 1) + 1
        BY <1>1, <1>3
      <4> QED BY <4>1
    <3>2. s[j] = tag /\ u[j] = Marker
      BY <1>3, <2>1, <3>1
    <3>3. CASE j = 1
      <4>1. n >= 1 /\ s # <<>>
        BY <1>1, <3>1
      <4> QED BY <1>3, <3>2, <3>3, <4>1
    <3>4. CASE j # 1
      <4>1. PICK k \in 1..n : j = k + 1 /\ j - 1 = k /\ j \in 2..n
        <5>1. j - 1 \in 1..n /\ j = (j - 1) + 1 /\ j \in 2..n
          BY <1>1, <3>1, <3>4
        <5> QED BY <5>1
      <4>2. s[j - 1] = Marker
        BY <1>3, <3>2, <4>1
      <4> QED BY <1>1, <3>2, <4>1, <4>2 DEF Answered
    <3> QED BY <3>3, <3>4
  <2>2. ASSUME NEW j \in 2..n, s[j - 1] = Marker, s[j] = tag PROVE tag \in Answered(u)
    <3>1. PICK k \in 1..n : j = k + 1 /\ j - 1 = k
      <4>1. j - 1 \in 1..n /\ j = (j - 1) + 1
        BY <1>1
      <4> QED BY <4>1
    <3>2. PICK i \in 2..Len(u) : i = j + 1 /\ i - 1 = k + 1
      <4>1. j + 1 \in 2..Len(u) /\ (j + 1) - 1 = k + 1
        BY <1>1, <1>3, <3>1
      <4> QED BY <4>1
    <3>3. u[i] = s[j] /\ u[i - 1] = s[k]
      BY <1>1, <1>3, <3>1, <3>2
    <3>4. u[i - 1] = Marker /\ u[i] = tag
      BY <2>2, <3>1, <3>3
    <3> QED BY <3>4 DEF Answered
  <2>3. ASSUME x = Marker, s # <<>>, tag = s[1] PROVE tag \in Answered(u)
    <3>1. 2 \in 2..Len(u) /\ 2 - 1 = 1 /\ 1 \in 1..n /\ 1 + 1 = 2
      BY <1>1, <1>3, <2>3
    <3>2. u[2] = tag /\ u[2 - 1] = Marker
      BY <1>3, <2>3, <3>1
    <3> QED BY <3>1, <3>2 DEF Answered
  <2>4. tag \in Answered(s) => \E j \in 2..n : s[j - 1] = Marker /\ s[j] = tag
    BY <1>1 DEF Answered
  <2>5. tag \in Answered(u) => \E i \in 2..Len(u) : u[i - 1] = Marker /\ u[i] = tag
    BY DEF Answered
  <2> QED BY <2>1, <2>2, <2>3, <2>4, <2>5
<1>9. Answered(u) = IF x = Marker /\ s # <<>> THEN Answered(s) \cup {s[1]} ELSE Answered(s)
  BY <1>8
<1> QED BY <1>3, <1>4, <1>6, <1>7, <1>9 DEF FrontEffect

LEMMA TagBehindMarker ==
    ASSUME NEW s \in Subjects, NEW tag
    PROVE  AtFront(tag, s) <=> (s # <<>> /\ s[1] = tag) \/ tag \in Answered(s)
<1>1. s # <<>> => Head(s) = s[1]
  BY DEF Subjects
<1> QED BY <1>1 DEF AtFront, Answered

(* The lists with this tag that the copy passed.                             *)
Adders(tag, msg) == {l \in Passed(msg) : Tag[l] = tag}

(* A Subject that an author wrote: a tag that is not behind a marker yet may *)
(* be added by the lists that have it until one answer for each such tag has *)
(* put that tag behind its marker.                                           *)
InBounds(written) ==
    \A tag \in TagNames : \E f \in Forms :
        /\ Occurrences(tag, written) <= Limit(tag, f.subject)
        /\ tag \notin Answered(written) => Limit(tag, written) <= Limit(tag, f.subject)

(* What lists made of it: no list adds a tag that is behind a marker, none   *)
(* adds its own twice, and the one in front is none that was behind a marker.*)
Tagged(msg) ==
    /\ InBounds(msg.signed.subject)
    /\ \A tag \in TagNames :
          /\ Occurrences(tag, msg.subject)
                <= Occurrences(tag, msg.signed.subject) + Cardinality(Adders(tag, msg))
          /\ tag \in Answered(msg.signed.subject) =>
                Occurrences(tag, msg.subject) <= Occurrences(tag, msg.signed.subject)
    /\ Answered(msg.subject) = Answered(msg.signed.subject)
    /\ \/ msg.subject = msg.signed.subject
       \/ msg.subject # <<>> /\ msg.subject[1] \in TagNames \ Answered(msg.subject)
    /\ msg.route # <<>> /\ HasTag(Last(msg.route).list)
          => AtFront(Tag[Last(msg.route).list], msg.subject)

LEMMA AddersCounted ==
    ASSUME NEW msg \in Messages, NEW tag
    PROVE  /\ IsFiniteSet(Adders(tag, msg)) /\ Cardinality(Adders(tag, msg)) \in Nat
           /\ Cardinality(Adders(tag, msg)) <= Sharing(tag)
<1>1. Passed(msg) \subseteq Lists
  <2>1. msg.route \in Seq(Hops)
    BY DEF Messages, Hops
  <2>2. \A i \in DOMAIN msg.route : msg.route[i] \in Hops
    BY <2>1
  <2> QED BY <2>2 DEF Passed, Hops
<1>2. Adders(tag, msg) \in SUBSET {l \in Lists : Tag[l] = tag}
  BY <1>1 DEF Adders
<1>3. IsFiniteSet({l \in Lists : Tag[l] = tag})
  <2>1. {l \in Lists : Tag[l] = tag} \in SUBSET Lists
    OBVIOUS
  <2> QED BY <2>1, FS_Subset
<1>4. /\ IsFiniteSet(Adders(tag, msg))
      /\ Cardinality(Adders(tag, msg)) <= Cardinality({l \in Lists : Tag[l] = tag})
  BY <1>2, <1>3, FS_Subset
<1> QED BY <1>4, FS_CardinalityType DEF Sharing

LEMMA SubjectsOf ==
    ASSUME NEW msg \in Messages PROVE msg.subject \in Subjects /\ msg.signed.subject \in Subjects
BY DEF Messages, Contents

(* One hop adds a tag at most once, and only where it is not found.          *)
LEMMA HopTagged ==
    ASSUME NEW l \in Lists, NEW msg \in Messages, NEW new \in Messages, NEW r,
           NEW munge \in BOOLEAN, NEW withheld \in BOOLEAN,
           Effect(l, msg, munge, withheld, r, new), Tagged(msg), l \notin Passed(msg)
    PROVE  Tagged(new)
<1> DEFINE adds == HasTag(l) /\ ~AtFront(Tag[l], msg.subject)
<1>1. PICK s \in Subjects, u \in Subjects, w \in Subjects :
         s = msg.subject /\ u = new.subject /\ w = msg.signed.subject /\ w = new.signed.subject
  BY SubjectsOf DEF Effect
<1>2. u = IF adds THEN <<Tag[l]>> \o s ELSE s
  BY <1>1 DEF Effect
<1>3. PICK hop \in Hops : hop.list = l /\ new.route = Append(msg.route, hop)
  <2>1. [list |-> l, munged |-> munge, withheld |-> withheld] \in Hops
    BY DEF Hops
  <2> QED BY <2>1 DEF Effect
<1>4. /\ Len(msg.route) \in Nat /\ Len(new.route) = Len(msg.route) + 1
      /\ new.route[Len(msg.route) + 1] = hop
      /\ Passed(msg) \subseteq Passed(new) /\ l \in Passed(new)
  BY <1>3, PassedOn
<1>5. Last(new.route) = hop
  BY <1>4 DEF Last
<1>6. /\ adds => /\ Tag[l] \in TagNames /\ Tag[l] # Marker /\ Tag[l] \in Tags \cup {Marker}
                 /\ Tag[l] \notin Answered(s)
  BY <1>1, TagsFinite, TagBehindMarker
<1>7. ASSUME adds
      PROVE  /\ u # <<>> /\ u[1] = Tag[l]
             /\ \A tag : Occurrences(tag, u) <= Occurrences(tag, s) + 1
             /\ \A tag : Tag[l] # tag => Occurrences(tag, u) <= Occurrences(tag, s)
             /\ Answered(u) = Answered(s)
  <2>1. PICK x : x = Tag[l] /\ x # Marker /\ IsPutOn(u, x, s)
    BY <1>1, <1>2, <1>6, <1>7 DEF IsPutOn
  <2>2. FrontEffect(u, x, s)
    BY <2>1, PutOn
  <2> QED BY <2>1, <2>2 DEF FrontEffect
<1> HIDE DEF adds
<1>8. Answered(u) = Answered(s) /\ Answered(s) = Answered(w)
  BY <1>1, <1>2, <1>7 DEF Tagged
<1>9. u = w \/ (u # <<>> /\ u[1] \in TagNames \ Answered(u))
  <2>1. CASE adds
    BY <1>6, <1>7, <1>8, <2>1
  <2>2. CASE ~adds
    BY <1>1, <1>2, <2>2 DEF Tagged
  <2> QED BY <2>1, <2>2
<1>10. ASSUME HasTag(l) PROVE AtFront(Tag[l], u)
  <2>1. CASE adds
    BY <1>7, <2>1, TagBehindMarker
  <2>2. CASE ~adds
    BY <1>1, <1>2, <1>10, <2>2 DEF adds
  <2> QED BY <2>1, <2>2
<1>11. ASSUME NEW tag \in TagNames
       PROVE  /\ Occurrences(tag, u) <= Occurrences(tag, w) + Cardinality(Adders(tag, new))
              /\ tag \in Answered(w) => Occurrences(tag, u) <= Occurrences(tag, w)
  <2>1. PICK a \in Nat, b \in Nat, c \in Nat, before \in Nat, after \in Nat :
           /\ a = Occurrences(tag, s) /\ b = Occurrences(tag, u) /\ c = Occurrences(tag, w)
           /\ before = Cardinality(Adders(tag, msg)) /\ after = Cardinality(Adders(tag, new))
    BY Counted, AddersCounted
  <2>2. a <= c + before /\ (tag \in Answered(w) => a <= c)
    BY <1>1, <2>1 DEF Tagged
  <2>3. before <= after
    <3>1. Adders(tag, msg) \in SUBSET Adders(tag, new)
      BY <1>4 DEF Adders
    <3> QED BY <2>1, <3>1, AddersCounted, FS_Subset
  <2>4. CASE adds /\ Tag[l] = tag
    <3>1. Adders(tag, msg) \cup {l} \in SUBSET Adders(tag, new) /\ l \notin Adders(tag, msg)
      BY <1>4, <2>4 DEF Adders
    <3>2. Cardinality(Adders(tag, msg) \cup {l}) = before + 1
      BY <2>1, <3>1, AddersCounted, FS_AddElement
    <3>3. before + 1 <= after
      BY <2>1, <3>1, <3>2, AddersCounted, FS_Subset
    <3>4. b <= a + 1 /\ tag \notin Answered(w)
      BY <1>6, <1>7, <1>8, <2>1, <2>4
    <3> QED BY <2>1, <2>2, <3>3, <3>4
  <2>5. CASE ~(adds /\ Tag[l] = tag)
    <3>1. CASE adds
      <4>1. Tag[l] # tag
        BY <2>5, <3>1
      <4>2. Occurrences(tag, u) <= Occurrences(tag, s)
        BY <1>7, <3>1, <4>1
      <4>3. b <= a
        BY <2>1, <4>2
      <4> QED BY <2>1, <2>2, <2>3, <4>3
    <3>2. CASE ~adds
      <4>1. a = b
        BY <1>2, <2>1, <3>2
      <4> QED BY <2>1, <2>2, <2>3, <4>1
    <3> QED BY <3>1, <3>2
  <2> QED BY <2>4, <2>5
<1>12. InBounds(w)
  BY <1>1 DEF Tagged
<1> QED BY <1>1, <1>3, <1>5, <1>8, <1>9, <1>10, <1>11, <1>12 DEF Tagged

(* What is left of the limit when tags are added, and when one is answered.  *)
LEMMA Products ==
    ASSUME NEW k \in Nat, NEW n \in Nat, n >= 1
    PROVE  k * n \in Nat /\ k * (n - 1) \in Nat /\ k * n = k * (n - 1) + k
<1>1. PICK m \in Nat : n = m + 1 /\ n - 1 = m
  <2>1. n - 1 \in Nat /\ n = (n - 1) + 1
    OBVIOUS
  <2> QED BY <2>1
<1>2. k * m \in Nat
  OBVIOUS
<1>3. k * (m + 1) = k * m + k
  OBVIOUS
<1> QED BY <1>1, <1>2, <1>3

LEMMA Larger ==
    ASSUME NEW k \in Nat, NEW m \in Nat, NEW n \in Nat, m <= n PROVE k * m <= k * n
<1>1. PICK d \in Nat : n = m + d
  <2>1. n - m \in Nat /\ n = m + (n - m)
    OBVIOUS
  <2> QED BY <2>1
<1>2. k * d \in Nat /\ k * m \in Nat
  OBVIOUS
<1>3. k * (m + d) = k * m + k * d
  OBVIOUS
<1> QED BY <1>1, <1>2, <1>3

LEMMA TaggedLimits ==
    ASSUME NEW msg \in Messages, Tagged(msg), NEW tag \in TagNames
    PROVE  \E f \in Forms : Occurrences(tag, msg.subject) <= Limit(tag, f.subject)
<1>1. PICK s \in Subjects, w \in Subjects : s = msg.subject /\ w = msg.signed.subject
  BY SubjectsOf
<1>2. PICK f \in Forms : /\ Occurrences(tag, w) <= Limit(tag, f.subject)
                         /\ tag \notin Answered(w) => Limit(tag, w) <= Limit(tag, f.subject)
  BY <1>1 DEF Tagged, InBounds
<1>3. f.subject \in Subjects
  OBVIOUS
<1>4. PICK a \in Nat, b \in Nat, k \in Nat, n \in Nat, limit \in Nat, adders \in Nat :
         /\ a = Occurrences(tag, s) /\ b = Occurrences(tag, w) /\ limit = Limit(tag, f.subject)
         /\ k = Sharing(tag) /\ n = Cardinality(TagNames \ Answered(w))
         /\ adders = Cardinality(Adders(tag, msg)) /\ adders <= k
  BY <1>3, Counted, AddersCounted
<1>5. a <= b + adders /\ (tag \in Answered(w) => a <= b)
  BY <1>1, <1>4 DEF Tagged
<1>6. CASE tag \in Answered(w)
  BY <1>1, <1>2, <1>4, <1>5, <1>6
<1>7. CASE tag \notin Answered(w)
  <2>1. n >= 1
    <3>1. IsFiniteSet(TagNames \ Answered(w)) /\ TagNames \ Answered(w) # {}
      BY <1>7, Counted
    <3>2. n # 0
      BY <1>4, <3>1, FS_EmptySet
    <3> QED BY <1>4, <3>2
  <2>2. k * n \in Nat /\ k * (n - 1) \in Nat /\ k * n = k * (n - 1) + k
    BY <1>4, <2>1, Products
  <2>3. b + k * n <= limit
    BY <1>2, <1>4, <1>7 DEF Limit
  <2>4. PICK p \in Nat, q \in Nat : p = k * n /\ p = q + k
    BY <2>2
  <2>5. b + p <= limit
    BY <2>3, <2>4
  <2>6. a <= limit
    <3>1. a <= b + adders /\ adders <= k
      BY <1>4, <1>5
    <3>2. /\ a \in Nat /\ b \in Nat /\ k \in Nat /\ adders \in Nat /\ limit \in Nat
          /\ p \in Nat /\ q \in Nat /\ p = q + k
      BY <2>4
    <3> HIDE <1>1, <1>4
    <3> QED BY <2>5, <3>1, <3>2
  <2> QED BY <1>1, <1>4, <2>6
<1> QED BY <1>6, <1>7

(* An answer puts the tag in front behind its marker, for good.              *)
LEMMA AnswerInBounds ==
    ASSUME NEW msg \in Messages, Tagged(msg), NEW u, u = <<Marker>> \o msg.subject
    PROVE  InBounds(u)
<1>1. PICK s \in Subjects, w \in Subjects : s = msg.subject /\ w = msg.signed.subject
  BY SubjectsOf
<1>2. /\ u \in Subjects
      /\ \A tag : Marker # tag => Occurrences(tag, u) <= Occurrences(tag, s)
      /\ Answered(u) = IF s # <<>> THEN Answered(s) \cup {s[1]} ELSE Answered(s)
  <2>1. IsPutOn(u, Marker, s)
    BY <1>1 DEF IsPutOn
  <2>2. FrontEffect(u, Marker, s)
    BY <2>1, PutOn
  <2> QED BY <2>2 DEF FrontEffect
<1>3. Answered(s) = Answered(w) /\ (s = w \/ (s # <<>> /\ s[1] \in TagNames \ Answered(w)))
  BY <1>1 DEF Tagged
<1> SUFFICES ASSUME NEW tag \in TagNames
             PROVE  \E f \in Forms :
                       /\ Occurrences(tag, u) <= Limit(tag, f.subject)
                       /\ tag \notin Answered(u) => Limit(tag, u) <= Limit(tag, f.subject)
  BY DEF InBounds
<1>4. Occurrences(tag, u) <= Occurrences(tag, s) /\ Occurrences(tag, u) \in Nat /\ Occurrences(tag, s) \in Nat
  BY <1>2, TagsFinite, Counted
<1>5. CASE tag \in Answered(u)
  <2>1. PICK f \in Forms : Occurrences(tag, s) <= Limit(tag, f.subject)
    BY <1>1, TaggedLimits
  <2>2. Limit(tag, f.subject) \in Nat
    BY Counted
  <2> QED BY <1>4, <1>5, <2>1, <2>2
<1>6. CASE tag \notin Answered(u)
  <2>1. tag \notin Answered(w)
    BY <1>2, <1>3, <1>6
  <2>2. PICK f \in Forms : Limit(tag, w) <= Limit(tag, f.subject)
    BY <1>1, <2>1 DEF Tagged, InBounds
  <2>3. f.subject \in Subjects
    OBVIOUS
  <2>4. PICK a \in Nat, b \in Nat, c \in Nat, k \in Nat, m \in Nat, n \in Nat, adders \in Nat, limit \in Nat :
           /\ a = Occurrences(tag, s) /\ b = Occurrences(tag, w) /\ c = Occurrences(tag, u)
           /\ k = Sharing(tag) /\ limit = Limit(tag, f.subject)
           /\ m = Cardinality(TagNames \ Answered(u)) /\ n = Cardinality(TagNames \ Answered(w))
           /\ adders = Cardinality(Adders(tag, msg)) /\ adders <= k
    <3>1. Occurrences(tag, s) \in Nat /\ Occurrences(tag, w) \in Nat /\ Occurrences(tag, u) \in Nat
      BY <1>2, Counted
    <3>2. Sharing(tag) \in Nat /\ Limit(tag, f.subject) \in Nat
      BY <2>3, Counted
    <3>3. Cardinality(TagNames \ Answered(u)) \in Nat /\ Cardinality(TagNames \ Answered(w)) \in Nat
      BY <1>2, Counted
    <3>4. Cardinality(Adders(tag, msg)) \in Nat /\ Cardinality(Adders(tag, msg)) <= Sharing(tag)
      BY AddersCounted
    <3> QED BY <3>1, <3>2, <3>3, <3>4
  <2>5. c <= a /\ a <= b + adders /\ (s = w => a <= b)
    BY <1>1, <1>4, <2>4 DEF Tagged
  <2>6. b + k * n <= limit
    BY <2>2, <2>4 DEF Limit
  <2>7. c + k * m <= limit
    <3>1. CASE s = w
      <4>1. TagNames \ Answered(u) \in SUBSET (TagNames \ Answered(w)) /\ IsFiniteSet(TagNames \ Answered(w))
        BY <1>2, <1>3, Counted
      <4>2. m <= n
        BY <2>4, <4>1, FS_Subset
      <4>3. k * m <= k * n
        BY <2>4, <4>2, Larger
      <4>4. PICK p \in Nat, q \in Nat : p = k * n /\ q = k * m /\ q <= p
        <5>1. k * m \in Nat /\ k * n \in Nat
          OBVIOUS
        <5> QED BY <4>3, <5>1
      <4>5. c <= b /\ b + p <= limit
        BY <2>4, <2>5, <2>6, <3>1, <4>4
      <4>6. c \in Nat /\ b \in Nat /\ p \in Nat /\ q \in Nat /\ limit \in Nat /\ q <= p
        BY <2>4, <4>4
      <4>7. c + q <= limit
        BY <4>5, <4>6
      <4> QED BY <4>4, <4>7
    <3>2. CASE s # w
      <4>1. /\ TagNames \ Answered(u) = (TagNames \ Answered(w)) \ {s[1]}
            /\ s[1] \in TagNames \ Answered(w) /\ IsFiniteSet(TagNames \ Answered(w))
        BY <1>2, <1>3, <3>2, Counted
      <4>2. m = n - 1
        <5>1. PICK left, x : left = TagNames \ Answered(w) /\ x = s[1]
          OBVIOUS
        <5>2. IsFiniteSet(left) /\ x \in left /\ n = Cardinality(left) /\ m = Cardinality(left \ {x})
          BY <2>4, <4>1, <5>1
        <5> QED BY <5>2, FS_RemoveElement
      <4>3. n >= 1
        BY <2>4, <4>2
      <4>4. k * n \in Nat /\ k * m \in Nat /\ k * n = k * m + k
        <5>1. k * n \in Nat /\ k * (n - 1) \in Nat /\ k * n = k * (n - 1) + k
          BY <4>3, Products
        <5> QED BY <4>2, <5>1
      <4>5. PICK p \in Nat, q \in Nat : p = k * n /\ q = k * m /\ p = q + k
        BY <4>4
      <4>6. b + p <= limit
        BY <2>6, <4>5
      <4>7. c <= b + k
        <5>1. /\ a \in Nat /\ b \in Nat /\ c \in Nat /\ k \in Nat /\ adders \in Nat
              /\ adders <= k
          BY <2>4
        <5> HIDE <2>4
        <5> QED BY <2>5, <5>1
      <4>8. p \in Nat /\ q \in Nat /\ p = q + k
        BY <4>5
      <4>9. c + q <= limit
        BY <4>6, <4>7, <4>8
      <4> QED BY <4>5, <4>9
    <3> QED BY <3>1, <3>2
  <2>8. Limit(tag, u) <= Limit(tag, f.subject)
    BY <2>4, <2>7 DEF Limit
  <2>9. Limit(tag, u) \in Nat /\ Occurrences(tag, u) <= Limit(tag, u) /\ limit \in Nat
    BY <1>2, <2>4, Counted
  <2> QED BY <1>4, <2>4, <2>8, <2>9
<1> QED BY <1>5, <1>6

LEMMA FormInBounds == ASSUME NEW f \in Forms PROVE InBounds(f.subject)
<1>1. f.subject \in Subjects
  OBVIOUS
<1>2. ASSUME NEW tag \in TagNames
      PROVE  /\ Occurrences(tag, f.subject) <= Limit(tag, f.subject)
             /\ Limit(tag, f.subject) <= Limit(tag, f.subject)
  <2>1. Occurrences(tag, f.subject) <= Limit(tag, f.subject) /\ Limit(tag, f.subject) \in Nat
    BY <1>1, Counted
  <2> QED BY <2>1
<1> QED BY <1>2 DEF InBounds

LEMMA FreshTagged ==
    ASSUME NEW c, Fresh(c), InBounds(c.msg.subject) PROVE Tagged(c.msg)
<1>1. c.msg \in Messages /\ c.msg.route = <<>> /\ c.msg.signed.subject = c.msg.subject
  <2>1. c.msg \in Messages
    <3>1. c \in [to : Lists, msg : Messages]
      BY FreshShape
    <3> QED BY <3>1
  <2>2. c.msg.route = <<>> /\ c.msg.signed.subject = c.msg.subject
    BY DEF Fresh, Written
  <2> QED BY <2>1, <2>2
<1>2. ASSUME NEW tag \in TagNames
      PROVE  Occurrences(tag, c.msg.subject)
                <= Occurrences(tag, c.msg.signed.subject) + Cardinality(Adders(tag, c.msg))
  <2>1. Occurrences(tag, c.msg.subject) \in Nat /\ Cardinality(Adders(tag, c.msg)) \in Nat
    BY <1>1, SubjectsOf, Counted, AddersCounted
  <2> QED BY <1>1, <2>1
<1>3. ASSUME NEW tag \in TagNames
      PROVE  Occurrences(tag, c.msg.subject) <= Occurrences(tag, c.msg.signed.subject)
  <2>1. Occurrences(tag, c.msg.subject) \in Nat
    BY <1>1, SubjectsOf, Counted
  <2> QED BY <1>1, <2>1
<1> QED BY <1>1, <1>2, <1>3 DEF Tagged

(* On a copy that passed no list twice, the one it passed last is new.       *)
LEMMA OnceOnly ==
    ASSUME NEW l \in Lists, NEW msg \in Messages, NEW new \in Messages, NEW r,
           NEW munge \in BOOLEAN, NEW withheld \in BOOLEAN,
           Effect(l, msg, munge, withheld, r, new), Once(new)
    PROVE  l \notin Passed(msg)
<1>1. PICK hop \in Hops : hop.list = l /\ new.route = Append(msg.route, hop)
  <2>1. [list |-> l, munged |-> munge, withheld |-> withheld] \in Hops
    BY DEF Hops
  <2> QED BY <2>1 DEF Effect
<1>2. PICK n \in Nat : n = Len(msg.route) /\ DOMAIN msg.route = 1..n
  <2>1. msg.route \in Seq(Hops)
    BY DEF Messages, Hops
  <2> QED BY <2>1, LenProperties
<1>3. /\ Len(new.route) = n + 1 /\ new.route[n + 1] = hop
      /\ \A i \in 1..n : new.route[i] = msg.route[i]
  BY <1>1, <1>2, PassedOn
<1> SUFFICES ASSUME NEW i \in 1..n, msg.route[i].list = l PROVE FALSE
  BY <1>2 DEF Passed
<1>4. i \in 1..(n + 1) /\ n + 1 \in 1..(n + 1) /\ i # n + 1
  BY <1>2
<1> QED BY <1>1, <1>3, <1>4 DEF Once

TagsInv == \A c \in Copies : Tagged(c.msg)

LEMMA TagsStep ==
    ASSUME IInv, IInv', TagsInv, [Next]_vars PROVE TagsInv'
<1>1. \A c \in Copies' : \/ c \in Copies
                         \/ Fresh(c) /\ Begun(c.msg.subject)
                         \/ \E d \in transit : Onward(d, c)
  BY NewCopies DEF IInv
<1>2. ASSUME NEW c \in Copies', Fresh(c), Begun(c.msg.subject) PROVE Tagged(c.msg)
  <2>1. CASE \E f \in Forms : c.msg.subject = f.subject
    BY <1>2, <2>1, FormInBounds, FreshTagged
  <2>2. CASE \E e \in mailboxes : c.msg.subject = <<Marker>> \o e.msg.subject
    <3>1. PICK e \in mailboxes : c.msg.subject = <<Marker>> \o e.msg.subject
      BY <2>2
    <3>2. e.msg \in Messages /\ Tagged(e.msg)
      BY DEF IInv, Placed, TagsInv, Copies
    <3>3. InBounds(c.msg.subject)
      BY <3>1, <3>2, AnswerInBounds
    <3> QED BY <1>2, <3>3, FreshTagged
  <2> QED BY <1>2, <2>1, <2>2 DEF Begun
<1>3. ASSUME NEW c \in Copies', NEW d \in transit, Onward(d, c) PROVE Tagged(c.msg)
  <2>1. PICK munge \in BOOLEAN, withheld \in BOOLEAN :
            Effect(d.to, d.msg, munge, withheld, c.to, c.msg)
    BY <1>3, OnwardEffect
  <2>2. d.to \in Lists /\ d.msg \in Messages /\ c.msg \in Messages
    BY <1>3, OnwardEffect
  <2>3. Tagged(d.msg) /\ Good(d)
    BY DEF IInv, TagsInv, Copies
  <2>4. Once(c.msg)
    BY <1>3, <2>3, OnwardOnce DEF Good
  <2>5. d.to \notin Passed(d.msg)
    BY <2>1, <2>2, <2>4, OnceOnly
  <2> QED BY <2>1, <2>2, <2>3, <2>5, HopTagged
<1> QED BY <1>1, <1>2, <1>3 DEF TagsInv

(* Threads of any length between any lists, some of which may have one tag:  *)
(* subject-prefix.sieve finds a tag again behind the marker of an answer, so *)
(* that every tag can be added anew only until each has been answered once.  *)
THEOREM TagsBounded == Spec => []TagsNeverPileUp
<1>1. Init => TagsInv
  BY DEF Init, TagsInv, Copies
<1>2. IInv /\ IInv' /\ TagsInv /\ [Next]_vars => TagsInv'
  BY TagsStep
<1>3. IInv /\ TagsInv => TagsNeverPileUp
  <2> SUFFICES ASSUME IInv, TagsInv, NEW d \in Copies
               PROVE  /\ \A tag \in TagNames :
                           \E f \in Forms : Occurrences(tag, d.msg.subject) <= Limit(tag, f.subject)
                      /\ d.msg.route # <<>> /\ HasTag(Last(d.msg.route).list)
                           => AtFront(Tag[Last(d.msg.route).list], d.msg.subject)
    BY DEF TagsNeverPileUp
  <2>1. d.msg \in Messages /\ Tagged(d.msg)
    BY CopyShape DEF TagsInv
  <2>2. \A tag \in TagNames : \E f \in Forms : Occurrences(tag, d.msg.subject) <= Limit(tag, f.subject)
    BY <2>1, TaggedLimits
  <2> QED BY <2>1, <2>2 DEF Tagged
<1> QED BY <1>1, <1>2, <1>3, Invariance, PTL DEF Spec
=============================================================================
