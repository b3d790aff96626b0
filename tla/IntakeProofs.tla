---------------------------- MODULE IntakeProofs ----------------------------
(***************************************************************************)
(* Theorems about what becomes of a post that comes in: what the front MTA *)
(* is told and what it caused (an accepted post is accounted for, attempts *)
(* bound copies), and that the daemon keeps the promise of PostFate. For   *)
(* any number of tasks, commands, posts and members and any bounds.        *)
(***************************************************************************)
EXTENDS DistributionProofs, FiniteSetTheorems

-----------------------------------------------------------------------------
(* What the front MTA may take for the end of a post.                        *)
Accounted(p) ==
    \/ p \in Looped
    \/ outcome[p] # {}
    \/ p \in failed
    \/ \E w \in Workers : post[w] = p /\ Processing(w)

(* The inductive invariant behind AcceptedAccounted: whatever a 2xx rests    *)
(* on, a reply that is still to be written or a row in seen_messages that    *)
(* makes the next attempt a duplicate, is accounted for.                     *)
Answered ==
    /\ \A p \in seen : Accounted(p)
    /\ \A w \in Workers : pc[w] = "reply" /\ reply[w] = "250" => Accounted(post[w])
    /\ AcceptedAccounted

(* Dispositions and failures only accumulate, and a pass goes on or leaves   *)
(* one of them behind.                                                       *)
PassesEnd ==
    /\ \A p \in Posts : outcome[p] \subseteq outcome'[p]
    /\ failed \subseteq failed'
    /\ \A v \in Workers : Processing(v) =>
          \/ Processing(v)' /\ post'[v] = post[v]
          \/ outcome'[post[v]] # {}
          \/ post[v] \in failed'

(* Where rows, replies of success and acceptances come from.                 *)
Grounds ==
    /\ \A p \in seen' : p \in seen \/ \E v \in Workers : post'[v] = p /\ Processing(v)'
    /\ \A v \in Workers : pc'[v] = "reply" /\ reply'[v] = "250" =>
          /\ post'[v] = post[v] /\ post[v] \in Posts
          /\ \/ pc[v] = "reply" /\ reply[v] = "250"
             \/ outcome'[post[v]] # {}
             \/ post[v] \in seen
    /\ \A p \in Posts : upstream'[p] = "accepted" =>
          \/ upstream[p] = "accepted"
          \/ \E v \in Workers : post[v] = p /\ pc[v] = "reply" /\ reply[v] = "250"

(* Over either protocol only a 250 is taken for an acceptance.               *)
LEMMA OnlySuccessAccepts ==
    ASSUME NEW code, Verdict(OnTheWire(code)) = "accepted" PROVE code = "250"
BY DEF Verdict, OnTheWire

(* Ending with a disposition is a ground for whatever the reply is.          *)
LEMMA EndingGrounds ==
    ASSUME Shape, NEW w \in Workers, pc[w] # "idle", NEW disposition, NEW code, Answer(w, code),
           outcome' = [outcome EXCEPT ![post[w]] = @ \cup {disposition}],
           UNCHANGED <<failed, upstream, seen>>
    PROVE  PassesEnd /\ Grounds
<1> USE DEF Shape, TypeOK, Busy, Runners
<1>1. /\ w \in Runners /\ post[w] \in Posts
      /\ pc' = [pc EXCEPT ![w] = "reply"] /\ reply' = [reply EXCEPT ![w] = code]
      /\ outcome' = [outcome EXCEPT ![post[w]] = @ \cup {disposition}]
      /\ UNCHANGED <<post, failed>>
  BY DEF Answer
<1>2. /\ \A v \in Runners \ {w} : pc'[v] = pc[v] /\ reply'[v] = reply[v]
      /\ pc'[w] = "reply"
  BY <1>1
<1>3. /\ \A p \in Posts : outcome[p] \subseteq outcome'[p]
      /\ disposition \in outcome'[post[w]]
  BY <1>1
<1>4. PassesEnd
  BY <1>1, <1>2, <1>3 DEF PassesEnd, Processing
<1>5. Grounds
  BY <1>1, <1>2, <1>3 DEF Grounds, Processing
<1>6. QED
  BY <1>4, <1>5

LEMMA DisposeGrounds ==
    ASSUME Shape, NEW w \in Workers, pc[w] # "idle", NEW disposition, NEW code,
           Dispose(w, disposition, code), UNCHANGED <<upstream, seen>>
    PROVE  PassesEnd /\ Grounds
BY EndingGrounds DEF Dispose

LEMMA GroundsStep == ASSUME Shape, [Next]_vars PROVE PassesEnd /\ Grounds
<1> USE PostsAssumption, ActorsAssumption
<1> USE DEF Shape, TypeOK, Busy, PassesEnd, Grounds, Processing, Runners,
        mtaVars, dbVars, mailVars, history, runVars
<1>1. ASSUME NEW w \in Workers, NEW p \in Posts, Submit(w, p)
      PROVE  PassesEnd /\ Grounds
  BY <1>1 DEF Submit
<1>2. ASSUME NEW p \in Posts, GiveUp(p)
      PROVE  PassesEnd /\ Grounds
  BY <1>2 DEF GiveUp
<1>3. ASSUME NEW w \in Workers, DropLoop(w) \/ FinishSending(w)
      PROVE  PassesEnd /\ Grounds
  <2>1. \E disposition, code : Dispose(w, disposition, code)
    BY <1>3 DEF DropLoop, FinishSending
  <2>2. QED
    BY <1>3, <2>1, DisposeGrounds DEF DropLoop, FinishSending
<1>4. ASSUME NEW w \in Workers, DropDuplicate(w)
      PROVE  PassesEnd /\ Grounds
  BY <1>4 DEF DropDuplicate, Answer, SeenBefore
<1>5. ASSUME NEW w \in Workers, Record(w)
      PROVE  PassesEnd /\ Grounds
  BY <1>5 DEF Record, Goto
<1>6. ASSUME NEW w \in Workers, EvaluateBefore(w)
      PROVE  PassesEnd /\ Grounds
  <2>1. pc[w] = "before" /\ UNCHANGED <<upstream, seen>>
    BY <1>6 DEF EvaluateBefore
  <2>2. CASE (Goto(w, "after") \/ Goto(w, "hold")) /\ UNCHANGED history
    BY <2>1, <2>2 DEF Goto
  <2>3. CASE Dispose(w, "discarded", "250") \/ Dispose(w, "rejected", "550")
    BY <2>1, <2>3, DisposeGrounds
  <2>4. QED
    BY <1>6, <2>2, <2>3 DEF EvaluateBefore
<1>7. ASSUME NEW w \in Workers, Hold(w)
      PROVE  PassesEnd /\ Grounds
  <2>1. /\ pc[w] = "hold" /\ Answer(w, "250") /\ UNCHANGED <<failed, upstream, seen>>
        /\ outcome' = [outcome EXCEPT ![post[w]] = @ \cup {"held"}]
    BY <1>7 DEF Hold, Enqueue
  <2>2. QED
    BY <2>1, EndingGrounds
<1>8. ASSUME NEW w \in Workers, EvaluateAfter(w)
      PROVE  PassesEnd /\ Grounds
  <2>1. CASE Distribute(w)
    BY <1>8, <2>1 DEF EvaluateAfter, Distribute
  <2>2. CASE Goto(w, "hold") /\ UNCHANGED history
    BY <1>8, <2>2 DEF EvaluateAfter, Goto
  <2>3. CASE Dispose(w, "discarded", "250") \/ Dispose(w, "rejected", "550")
    <3>1. pc[w] = "after" /\ UNCHANGED <<upstream, seen>>
      BY <1>8 DEF EvaluateAfter
    <3>2. QED
      BY <2>3, <3>1, DisposeGrounds
  <2>4. QED
    BY <1>8, <2>1, <2>2, <2>3 DEF EvaluateAfter
<1>9. ASSUME NEW x \in Runners, NEW r \in Members,
             Refuse(x, r) \/ (x \in Workers /\ Send(x, r)) \/ SendHeld(x, r)
      PROVE  PassesEnd /\ Grounds
  BY <1>9 DEF Refuse, Send, SendHeld, Pass
<1>10. ASSUME NEW w \in Workers, Fail(w)
       PROVE  PassesEnd /\ Grounds
  BY <1>10 DEF Fail, Answer
<1>11. ASSUME NEW w \in Workers, Reply(w)
       PROVE  PassesEnd /\ Grounds
  BY <1>11, OnlySuccessAccepts DEF Reply, Stop
<1>12. ASSUME NEW w \in Workers, LoseConnection(w)
       PROVE  PassesEnd /\ Grounds
  BY <1>12 DEF LoseConnection
<1>13. ASSUME Crash
       PROVE  PassesEnd /\ Grounds
  BY <1>13 DEF Crash, Stop
<1>14. ASSUME NEW m \in Moderators, NEW i \in HeldIds, Approve(m, i) \/ Reject(m, i)
       PROVE  PassesEnd /\ Grounds
  BY <1>14 DEF Approve, Reject
<1>15. ASSUME NEW m \in Moderators, ReevaluateAfter(m)
       PROVE  PassesEnd /\ Grounds
  BY <1>15 DEF ReevaluateAfter, Distribute, Goto, Settle
<1>16. ASSUME NEW m \in Moderators, FinishHeldSending(m) \/ Rehold(m)
       PROVE  PassesEnd /\ Grounds
  BY <1>16 DEF FinishHeldSending, Rehold, Enqueue, Settle
<1>17. ASSUME NEW m \in Moderators, Delete(m) \/ Abort(m)
       PROVE  PassesEnd /\ Grounds
  BY <1>17 DEF Delete, Abort, Stop
<1>18. CASE UNCHANGED vars
  BY <1>18 DEF vars
<1>19. QED
  BY <1>1, <1>2, <1>3, <1>4, <1>5, <1>6, <1>7, <1>8, <1>9, <1>10, <1>11, <1>12,
     <1>13, <1>14, <1>15, <1>16, <1>17, <1>18 DEF Next, WorkerStep, CommandStep

LEMMA AnsweredStep == ASSUME Shape, Answered, [Next]_vars PROVE Answered'
<1>1. PassesEnd /\ Grounds
  BY GroundsStep
<1>2. ASSUME NEW p \in Posts, Accounted(p) PROVE Accounted(p)'
  BY <1>1, <1>2 DEF Accounted, PassesEnd
<1>3. ASSUME NEW p \in Posts, outcome'[p] # {} PROVE Accounted(p)'
  BY <1>3 DEF Accounted
<1>4. seen \subseteq Posts
  BY DEF Shape, TypeOK
<1>5. ASSUME NEW p \in seen' PROVE Accounted(p)'
  <2>1. CASE p \in seen
    BY <1>2, <1>4, <2>1 DEF Answered
  <2>2. CASE \E v \in Workers : post'[v] = p /\ Processing(v)'
    BY <2>2 DEF Accounted
  <2>3. QED
    BY <1>1, <2>1, <2>2 DEF Grounds
<1>6. ASSUME NEW v \in Workers, pc'[v] = "reply", reply'[v] = "250" PROVE Accounted(post[v])'
  <2>1. /\ post'[v] = post[v] /\ post[v] \in Posts
        /\ \/ pc[v] = "reply" /\ reply[v] = "250"
           \/ outcome'[post[v]] # {}
           \/ post[v] \in seen
    BY <1>1, <1>6 DEF Grounds
  <2> DEFINE p == post[v]
  <2>2. p \in Posts /\ Accounted(p)'
    BY <1>2, <1>3, <2>1 DEF Answered
  <2>3. QED
    BY <2>1, <2>2 DEF Accounted
<1>7. ASSUME NEW p \in Posts, upstream'[p] = "accepted" PROVE Accounted(p)'
  <2>1. CASE upstream[p] = "accepted"
    <3>1. Accounted(p)
      BY <2>1 DEF Answered, AcceptedAccounted, Accounted
    <3>2. QED
      BY <1>2, <3>1
  <2>2. CASE \E v \in Workers : post[v] = p /\ pc[v] = "reply" /\ reply[v] = "250"
    BY <1>2, <2>2 DEF Answered
  <2>3. QED
    BY <1>1, <1>7, <2>1, <2>2 DEF Grounds
<1>8. AcceptedAccounted'
  BY <1>7 DEF AcceptedAccounted, Accounted
<1>9. QED
  BY <1>5, <1>6, <1>8 DEF Answered

(* AcceptedAccounted: no schedule of retries, overlapping attempts, errors,  *)
(* lost connections and crashes has a post accepted that intake neither      *)
(* ended, nor is working on, nor broke off (record_message, handle_one).     *)
THEOREM AcceptedIsAccounted == Spec => []AcceptedAccounted
<1>1. Init => Shape /\ Answered
  BY ShapeInit DEF Init, Answered, AcceptedAccounted, Runners
<1>2. Shape /\ Answered /\ [Next]_vars => (Shape /\ Answered)'
  BY ShapeStep, AnsweredStep
<1>3. Answered => AcceptedAccounted
  BY DEF Answered
<1>4. QED
  BY <1>1, <1>2, <1>3, PTL DEF Spec

-----------------------------------------------------------------------------
(* The tasks that may still send a copy of p to r.                           *)
Pending(p, r) ==
    {w \in Workers :
        /\ post[w] = p
        /\ pc[w] \in {"record"} \cup Early \/ (pc[w] = "send" /\ r \in todo[w])}

(* The inductive invariant behind OneCopyPerAttempt: the attempts pay for    *)
(* the copies and for the tasks that may still send one.                     *)
Paid ==
    \A p \in Posts, r \in Members :
        /\ IsFiniteSet(Pending(p, r))
        /\ copies[p][r] + Cardinality(Pending(p, r)) <= tries[p]

(* Only a submission makes an attempt, and brings a task to the intake.      *)
LEMMA OnlySubmitBegins ==
    ASSUME Shape, [Next]_vars, ~ \E w \in Workers, p \in Posts : Submit(w, p)
    PROVE  /\ tries' = tries
           /\ \A v \in Workers : pc'[v] = "record" => pc[v] = "record" /\ post'[v] = post[v]
<1> DEFINE Begun ==
        /\ tries' = tries
        /\ \A v \in Workers : pc'[v] = "record" => pc[v] = "record" /\ post'[v] = post[v]
<1> USE ActorsAssumption
<1> USE DEF Shape, TypeOK, Runners, mtaVars, dbVars, mailVars, history, runVars
<1>1. ASSUME NEW w \in Workers,
             DropLoop(w) \/ DropDuplicate(w) \/ Record(w) \/ Hold(w) \/ FinishSending(w) \/ Fail(w)
      PROVE  Begun
  BY <1>1 DEF DropLoop, DropDuplicate, Record, Hold, FinishSending, Fail, Dispose, Answer, Goto
<1>2. ASSUME NEW w \in Workers, EvaluateBefore(w) \/ EvaluateAfter(w)
      PROVE  Begun
  BY <1>2 DEF EvaluateBefore, EvaluateAfter, Distribute, Goto, Dispose, Answer
<1>3. ASSUME NEW x \in Runners, NEW r \in Members,
             Refuse(x, r) \/ Send(x, r) \/ SendHeld(x, r)
      PROVE  Begun
  BY <1>3 DEF Refuse, Send, SendHeld, Pass
<1>4. ASSUME NEW w \in Workers, Reply(w) \/ LoseConnection(w)
      PROVE  Begun
  BY <1>4 DEF Reply, Stop, LoseConnection
<1>5. CASE Crash
  BY <1>5 DEF Crash, Stop
<1>6. ASSUME NEW m \in Moderators, NEW i \in HeldIds, Approve(m, i) \/ Reject(m, i)
      PROVE  Begun
  BY <1>6 DEF Approve, Reject
<1>7. ASSUME NEW m \in Moderators,
             ReevaluateAfter(m) \/ FinishHeldSending(m) \/ Rehold(m)
      PROVE  Begun
  BY <1>7 DEF ReevaluateAfter, FinishHeldSending, Rehold, Distribute, Goto, Settle
<1>8. ASSUME NEW m \in Moderators, Delete(m) \/ Abort(m)
      PROVE  Begun
  BY <1>8 DEF Delete, Abort, Stop
<1>9. CASE UNCHANGED vars \/ \E p \in Posts : GiveUp(p)
  BY <1>9 DEF vars, GiveUp
<1>10. QED
  BY <1>1, <1>2, <1>3, <1>4, <1>5, <1>6, <1>7, <1>8, <1>9 DEF Next, WorkerStep, CommandStep

(* A pass that goes on may still send what it might have sent before.        *)
LEMMA PendingStep ==
    ASSUME Shape, Shape', [Next]_vars, NEW p \in Posts, NEW r \in Members
    PROVE  /\ \A w \in Workers, q \in Posts : Submit(w, q) =>
                  Pending(p, r)' = IF q = p THEN Pending(p, r) \cup {w} ELSE Pending(p, r)
           /\ \A w \in Workers, s \in Members : Send(w, s) =>
                  Pending(p, r)' = IF s = r THEN Pending(p, r) \ {w} ELSE Pending(p, r)
           /\ ~(\E w \in Workers, q \in Posts : Submit(w, q))
                  => Pending(p, r)' \subseteq Pending(p, r)
<1> USE DEF Pending, Early
<1>1. ASSUME NEW w \in Workers, NEW q \in Posts, Submit(w, q)
      PROVE  Pending(p, r)' = IF q = p THEN Pending(p, r) \cup {w} ELSE Pending(p, r)
  BY <1>1 DEF Submit, Shape, TypeOK, Runners
<1>2. ASSUME NEW w \in Workers, NEW s \in Members, Send(w, s)
      PROVE  Pending(p, r)' = IF s = r THEN Pending(p, r) \ {w} ELSE Pending(p, r)
  BY <1>2 DEF Send, Pass, Shape, TypeOK, Runners
<1>3. ASSUME NEW w \in Workers, Record(w) PROVE Pending(p, r)' = Pending(p, r)
  BY <1>3 DEF Record, Goto, Shape, TypeOK, Runners
<1>4. ASSUME ~(\E w \in Workers, q \in Posts : Submit(w, q)),
             ~(\E w \in Workers : Record(w) \/ \E s \in Members : Send(w, s))
      PROVE  Pending(p, r)' \subseteq Pending(p, r)
  <2>1. Quiet
    BY <1>4, QuietStep
  <2>2. \A v \in Workers : pc'[v] = "record" => pc[v] = "record" /\ post'[v] = post[v]
    BY <1>4, OnlySubmitBegins
  <2>3. QED
    BY <2>1, <2>2 DEF Quiet, Onward, Processing
<1>5. ~(\E w \in Workers, q \in Posts : Submit(w, q)) => Pending(p, r)' \subseteq Pending(p, r)
  BY <1>2, <1>3, <1>4
<1>6. QED
  BY <1>1, <1>2, <1>5

LEMMA PaidStep == ASSUME Shape, Shape', Paid, [Next]_vars PROVE Paid'
<1> SUFFICES ASSUME NEW p \in Posts, NEW r \in Members
             PROVE  /\ IsFiniteSet(Pending(p, r)')
                    /\ copies'[p][r] + Cardinality(Pending(p, r)') <= tries'[p]
  BY DEF Paid
<1> DEFINE P == Pending(p, r)
           Q == Pending(p, r)'
<1>0. /\ IsFiniteSet(P) /\ Cardinality(P) \in Nat
      /\ copies[p][r] \in Nat /\ tries[p] \in Nat
      /\ copies[p][r] + Cardinality(P) <= tries[p]
  BY FS_CardinalityType DEF Paid, Shape, TypeOK
<1>1. ASSUME NEW w \in Workers, NEW q \in Posts, Submit(w, q)
      PROVE  IsFiniteSet(Q) /\ copies'[p][r] + Cardinality(Q) <= tries'[p]
  <2>1. copies' = copies /\ tries'[p] = IF q = p THEN tries[p] + 1 ELSE tries[p]
    BY <1>1 DEF Submit, mailVars, Shape, TypeOK
  <2>2. Q = IF q = p THEN P \cup {w} ELSE P
    BY <1>1, PendingStep
  <2>3. w \notin P
    BY <1>1 DEF Submit, Pending, Early
  <2> HIDE DEF P, Q
  <2>4. IsFiniteSet(P \cup {w}) /\ Cardinality(P \cup {w}) = Cardinality(P) + 1
    BY <1>0, <2>3, FS_AddElement
  <2>5. QED
    BY <1>0, <2>1, <2>2, <2>4
<1>2. ASSUME NEW w \in Workers, NEW s \in Members, Send(w, s)
      PROVE  IsFiniteSet(Q) /\ copies'[p][r] + Cardinality(Q) <= tries'[p]
  <2>1. Q = IF s = r THEN P \ {w} ELSE P
    BY <1>2, PendingStep
  <2>2. tries' = tries /\ post[w] \in Posts /\ copies' = [copies EXCEPT ![post[w]][s] = @ + 1]
    BY <1>2 DEF Send, Pass, mtaVars, Shape, Busy, Runners
  <2>3. CASE post[w] = p /\ s = r
    <3>1. w \in P
      BY <1>2, <2>3 DEF Send, Pass, Pending
    <3>2. copies'[p][r] = copies[p][r] + 1
      BY <2>2, <2>3 DEF Shape, TypeOK
    <3> HIDE DEF P, Q
    <3>3. IsFiniteSet(P \ {w}) /\ Cardinality(P \ {w}) = Cardinality(P) - 1
      BY <1>0, <3>1, FS_RemoveElement
    <3>4. QED
      BY <1>0, <2>1, <2>2, <2>3, <3>2, <3>3
  <2>4. CASE ~(post[w] = p /\ s = r)
    <3>1. copies'[p][r] = copies[p][r]
      BY <2>2, <2>4 DEF Shape, TypeOK
    <3>2. Q = P
      BY <2>1, <2>4 DEF Pending
    <3>3. QED
      BY <1>0, <2>2, <3>1, <3>2
  <2>5. QED
    BY <2>3, <2>4
<1>3. ASSUME ~(\E w \in Workers, q \in Posts : Submit(w, q)),
             ~(\E w \in Workers, s \in Members : Send(w, s))
      PROVE  IsFiniteSet(Q) /\ copies'[p][r] + Cardinality(Q) <= tries'[p]
  <2>1. tries' = tries
    BY <1>3, OnlySubmitBegins
  <2>2. copies' = copies
    <3>1. ASSUME NEW w \in Workers, Record(w) PROVE copies' = copies
      BY <3>1 DEF Record, mailVars
    <3>2. QED
      BY <1>3, <3>1, QuietStep DEF Quiet
  <2>3. Q \subseteq P
    BY <1>3, PendingStep
  <2> HIDE DEF P, Q
  <2>4. IsFiniteSet(Q) /\ Cardinality(Q) <= Cardinality(P) /\ Cardinality(Q) \in Nat
    BY <1>0, <2>3, FS_Subset, FS_CardinalityType
  <2>5. QED
    BY <1>0, <2>1, <2>2, <2>4
<1>4. QED
  BY <1>1, <1>2, <1>3

(* OneCopyPerAttempt: with or without a Message-ID, a subscriber gets from   *)
(* intake no more copies of a post than the front MTA made attempts (the     *)
(* recipients finalize reads once, and send_all walks).                      *)
THEOREM CopiesPaidByAttempts == Spec => []OneCopyPerAttempt
<1>1. Init => Shape /\ Paid
  <2> SUFFICES ASSUME Init, NEW p \in Posts, NEW r \in Members
               PROVE  /\ IsFiniteSet(Pending(p, r))
                      /\ copies[p][r] + Cardinality(Pending(p, r)) <= tries[p]
    BY ShapeInit DEF Paid
  <2>1. Pending(p, r) = {}
    BY DEF Init, Pending, Early, Runners
  <2>2. copies[p][r] = 0 /\ tries[p] = 0
    BY DEF Init, NoCopies
  <2>3. QED
    BY <2>1, <2>2, FS_EmptySet
<1>2. Shape /\ Paid /\ [Next]_vars => (Shape /\ Paid)'
  BY ShapeStep, PaidStep
<1>3. Shape /\ Paid => OneCopyPerAttempt
  <2> SUFFICES ASSUME Shape, Paid, NEW p \in Posts, NEW r \in Members
               PROVE  copies[p][r] <= tries[p]
    BY DEF OneCopyPerAttempt
  <2>1. /\ Cardinality(Pending(p, r)) \in Nat
        /\ copies[p][r] + Cardinality(Pending(p, r)) <= tries[p]
    BY FS_CardinalityType DEF Paid
  <2>2. copies[p][r] \in Nat /\ tries[p] \in Nat
    BY DEF Shape, TypeOK
  <2>3. QED
    BY <2>1, <2>2
<1>4. QED
  BY <1>1, <1>2, <1>3, PTL DEF Spec

-----------------------------------------------------------------------------
(* The refinement: every step of Distribution is a step of PostFate or       *)
(* leaves what it speaks of alone.                                           *)

(* The inductive invariant behind the refinement, next to OnePass: before    *)
(* its pass a post has no fate, during its pass neither, a loop has none     *)
(* at all, and a pass sends to subscribers of its list.                      *)
Fateless(p) == outcome[p] = {} /\ p \notin failed

Tracking ==
    /\ \A p \in Posts : Identified(p) /\ p \notin seen => p \in Looped \/ Fateless(p)
    /\ \A w \in Workers : Processing(w) =>
          post[w] \notin Looped /\ (Identified(post[w]) => Fateless(post[w]))
    /\ seen \cap Looped = {}
    /\ \A w \in Workers : pc[w] = "send" => todo[w] \subseteq Subscribers[ListOf(post[w])]

(* How a step changes the fates: not at all, by the end of the pass of w, by *)
(* a loop that is dropped, or by an error or crash of the passes of some W.  *)
Same == UNCHANGED <<outcome, failed>>

Ends(w) ==
    /\ Processing(w) /\ ~Processing(w)'
    /\ failed' = failed
    /\ \E disposition \in {"distributed", "held", "discarded", "rejected"} :
          /\ disposition = "distributed" \/ pc[w] \in Early
          /\ outcome' = [outcome EXCEPT ![post[w]] = @ \cup {disposition}]

Drops == \E p \in Looped :
    /\ failed' = failed
    /\ \E disposition : outcome' = [outcome EXCEPT ![p] = @ \cup {disposition}]

Breaks == \E W \in SUBSET Workers :
    /\ outcome' = outcome
    /\ \A w \in W : Processing(w) /\ ~Processing(w)'
    /\ failed' = failed \cup {post[w] : w \in W}

(* What remains in todo is part of what was there, or was read just now.     *)
Reads ==
    \A v \in Workers : pc'[v] = "send" =>
        /\ post'[v] = post[v]
        /\ \/ pc[v] = "send" /\ todo'[v] \subseteq todo[v]
           \/ todo'[v] = Subscribers[ListOf(post[v])]

Changes == Same \/ (\E w \in Workers : Ends(w)) \/ Drops \/ Breaks

(* A pass that ends with a disposition.                                      *)
LEMMA EndsChanges ==
    ASSUME Shape, NEW w \in Workers, Processing(w), NEW code, Answer(w, code), failed' = failed,
           NEW disposition \in {"distributed", "held", "discarded", "rejected"},
           disposition = "distributed" \/ pc[w] \in Early,
           outcome' = [outcome EXCEPT ![post[w]] = @ \cup {disposition}]
    PROVE  Changes /\ Reads
<1> USE DEF Shape, TypeOK, Runners
<1>1. pc' = [pc EXCEPT ![w] = "reply"] /\ todo' = [todo EXCEPT ![w] = {}] /\ post' = post
  BY DEF Answer
<1>2. /\ pc'[w] = "reply"
      /\ \A v \in Workers \ {w} : pc'[v] = pc[v] /\ todo'[v] = todo[v]
  BY <1>1
<1>3. ~Processing(w)'
  BY <1>2 DEF Processing
<1>4. Ends(w)
  BY <1>3 DEF Ends
<1>5. Reads
  BY <1>1, <1>2 DEF Reads
<1>6. QED
  BY <1>4, <1>5 DEF Changes

LEMMA ChangesStep ==
    ASSUME Shape, [Next]_vars PROVE Changes /\ Reads
<1> USE PostsAssumption, ActorsAssumption
<1> USE DEF Shape, TypeOK, Busy, Changes, Same, Reads, Processing, Runners,
        mtaVars, dbVars, mailVars, history, runVars
<1>1. ASSUME NEW w \in Workers, NEW p \in Posts, Submit(w, p) PROVE Changes /\ Reads
  BY <1>1 DEF Submit
<1>2. ASSUME NEW p \in Posts, GiveUp(p) PROVE Changes /\ Reads
  BY <1>2 DEF GiveUp
<1>3. ASSUME NEW w \in Workers, DropLoop(w) PROVE Changes /\ Reads
  <2>1. Drops
    BY <1>3 DEF DropLoop, Dispose, Drops
  <2>2. Reads
    BY <1>3 DEF DropLoop, Dispose, Answer
  <2>3. QED
    BY <2>1, <2>2
<1>5. ASSUME NEW w \in Workers, DropDuplicate(w) \/ Record(w) PROVE Changes /\ Reads
  BY <1>5 DEF DropDuplicate, Record, Answer, Goto
<1>6. ASSUME NEW w \in Workers, EvaluateBefore(w) PROVE Changes /\ Reads
  <2>1. CASE (Goto(w, "after") \/ Goto(w, "hold")) /\ UNCHANGED history
    BY <2>1 DEF Goto
  <2>2. CASE Dispose(w, "discarded", "250") \/ Dispose(w, "rejected", "550")
    <3>1. Processing(w) /\ pc[w] \in Early
      BY <1>6 DEF EvaluateBefore, Early
    <3>2. QED
      BY <2>2, <3>1, EndsChanges DEF Dispose
  <2>3. QED
    BY <1>6, <2>1, <2>2 DEF EvaluateBefore
<1>7. ASSUME NEW w \in Workers, Hold(w) PROVE Changes /\ Reads
  <2>1. Processing(w) /\ pc[w] \in Early
    BY <1>7 DEF Hold, Early
  <2>2. /\ Answer(w, "250") /\ failed' = failed
        /\ outcome' = [outcome EXCEPT ![post[w]] = @ \cup {"held"}]
    BY <1>7 DEF Hold
  <2>3. QED
    BY <2>1, <2>2, EndsChanges
<1>8. ASSUME NEW w \in Workers, EvaluateAfter(w) PROVE Changes /\ Reads
  <2>1. CASE Distribute(w)
    BY <2>1 DEF Distribute
  <2>2. CASE Goto(w, "hold") /\ UNCHANGED history
    BY <2>2 DEF Goto
  <2>3. CASE Dispose(w, "discarded", "250") \/ Dispose(w, "rejected", "550")
    <3>1. Processing(w) /\ pc[w] \in Early
      BY <1>8 DEF EvaluateAfter, Early
    <3>2. QED
      BY <2>3, <3>1, EndsChanges DEF Dispose
  <2>4. QED
    BY <1>8, <2>1, <2>2, <2>3 DEF EvaluateAfter
<1>9. ASSUME NEW x \in Runners, NEW r \in Members, Refuse(x, r) \/ Send(x, r) \/ SendHeld(x, r)
      PROVE  Changes /\ Reads
  <2>1. todo' = [todo EXCEPT ![x] = @ \ {r}] /\ UNCHANGED <<pc, post, outcome, failed>>
    BY <1>9 DEF Refuse, Send, SendHeld, Pass
  <2>2. \A v \in Workers : todo'[v] \subseteq todo[v]
    BY <2>1
  <2>3. QED
    BY <2>1, <2>2
<1>10. ASSUME NEW w \in Workers, FinishSending(w) PROVE Changes /\ Reads
  <2>1. Processing(w) /\ Dispose(w, "distributed", "250")
    BY <1>10 DEF FinishSending
  <2>2. QED
    BY <2>1, EndsChanges DEF Dispose
<1>11. ASSUME NEW w \in Workers, Reply(w) \/ LoseConnection(w) PROVE Changes /\ Reads
  BY <1>11 DEF Reply, Stop, LoseConnection
<1>12. ASSUME NEW w \in Workers, Fail(w) PROVE Changes /\ Reads
  <2>1. pc'[w] = "reply"
    BY <1>12 DEF Fail, Answer
  <2>2. CASE Processing(w)
    <3>1. failed' = failed \cup {post[v] : v \in {w}} /\ outcome' = outcome
      BY <1>12, <2>2 DEF Fail
    <3>2. Breaks
      BY <2>1, <2>2, <3>1 DEF Breaks
    <3>3. QED
      BY <1>12, <3>2 DEF Fail, Answer
  <2>3. CASE ~Processing(w)
    BY <1>12, <2>3 DEF Fail, Answer
  <2>4. QED
    BY <2>2, <2>3
<1>13. ASSUME Crash PROVE Changes /\ Reads
  <2> DEFINE W == {v \in Workers : Processing(v)}
  <2>1. /\ failed' = failed \cup {post[w] : w \in W} /\ outcome' = outcome
        /\ \A w \in Workers : pc'[w] = "idle"
    BY <1>13 DEF Crash, Stop
  <2>2. Breaks
    BY <2>1 DEF Breaks
  <2>3. QED
    BY <2>1, <2>2
<1>14. ASSUME NEW m \in Moderators, NEW i \in HeldIds, Approve(m, i) \/ Reject(m, i)
       PROVE  Changes /\ Reads
  BY <1>14 DEF Approve, Reject
<1>15. ASSUME NEW m \in Moderators, ReevaluateAfter(m) \/ FinishHeldSending(m) \/ Rehold(m)
       PROVE  Changes /\ Reads
  <2>1. CASE ReevaluateAfter(m)
    <3>1. CASE Distribute(m)
      BY <2>1, <3>1 DEF ReevaluateAfter, Distribute
    <3>2. CASE Goto(m, "hold") /\ UNCHANGED history
      BY <2>1, <3>2 DEF ReevaluateAfter, Goto
    <3>3. CASE Settle(m)
      BY <2>1, <3>3 DEF ReevaluateAfter, Settle, Goto
    <3>4. QED
      BY <2>1, <3>1, <3>2, <3>3 DEF ReevaluateAfter
  <2>2. CASE FinishHeldSending(m)
    BY <2>2 DEF FinishHeldSending, Settle, Goto
  <2>3. CASE Rehold(m)
    BY <2>3 DEF Rehold, Enqueue, Settle, Goto
  <2>4. QED
    BY <1>15, <2>1, <2>2, <2>3
<1>16. ASSUME NEW m \in Moderators, Delete(m) \/ Abort(m) PROVE Changes /\ Reads
  BY <1>16 DEF Delete, Abort, Stop
<1>17. CASE UNCHANGED vars
  BY <1>17 DEF vars
<1>18. QED
  BY <1>1, <1>2, <1>3, <1>5, <1>6, <1>7, <1>8, <1>9, <1>10, <1>11, <1>12,
     <1>13, <1>14, <1>15, <1>16, <1>17 DEF Next, WorkerStep, CommandStep

-----------------------------------------------------------------------------
(* A pass comes from a pass over the same post, or has just been recorded.   *)
LEMMA PassSource ==
    ASSUME Shape, [Next]_vars
    PROVE  /\ \A v \in Workers : Processing(v)' => post'[v] = post[v] /\ (Processing(v) \/ Record(v))
           /\ seen' = seen \/ \E w \in Workers : Record(w)
<1> USE DEF Processing
<1>1. ASSUME NEW w \in Workers, Record(w)
      PROVE  \A v \in Workers : Processing(v)' => post'[v] = post[v] /\ (Processing(v) \/ Record(v))
  BY <1>1 DEF Record, Goto, Shape, TypeOK, Runners
<1>2. ASSUME NEW w \in Workers, NEW r \in Members, Send(w, r)
      PROVE  UNCHANGED <<pc, post, seen>>
  BY <1>2 DEF Send, Pass, dbVars
<1>3. ASSUME ~ \E w \in Workers : Record(w) \/ \E r \in Members : Send(w, r)
      PROVE  Quiet
  BY <1>3, QuietStep
<1>4. QED
  BY <1>1, <1>2, <1>3 DEF Quiet, Onward

LEMMA RecordFacts ==
    ASSUME Shape, NEW w \in Workers, Record(w)
    PROVE  /\ post[w] \in Posts /\ post[w] \notin Looped
           /\ Identified(post[w]) => post[w] \notin seen
           /\ seen' = IF Identified(post[w]) THEN seen \cup {post[w]} ELSE seen
           /\ UNCHANGED <<outcome, failed, copies>>
BY DEF Record, SeenBefore, Shape, Busy, Runners, history, mailVars

LEMMA TrackingStep ==
    ASSUME Shape, Shape', OnePass, Tracking, [Next]_vars PROVE Tracking'
<1> USE PostsAssumption
<1>1. Changes /\ Reads
  BY ChangesStep
<1>2. /\ \A v \in Workers : Processing(v)' => post'[v] = post[v] /\ (Processing(v) \/ Record(v))
      /\ seen' = seen \/ \E w \in Workers : Record(w)
  BY PassSource
<1>3. seen \subseteq seen' /\ \A w \in Workers : Processing(w) => post[w] \in Posts
  BY <1>2, RecordFacts DEF Shape, Busy, Processing, Runners
<1>4. ASSUME NEW p \in Posts, Fateless(p), p \notin Looped,
             \A w \in Workers : Processing(w) /\ ~Processing(w)' => post[w] # p
      PROVE  Fateless(p)'
  <2>1. CASE Same
    BY <1>4, <2>1 DEF Same, Fateless
  <2>2. CASE \E w \in Workers : Ends(w)
    BY <1>4, <2>2 DEF Ends, Fateless, Shape, TypeOK
  <2>3. CASE Drops
    BY <1>4, <2>3 DEF Drops, Fateless, Shape, TypeOK
  <2>4. CASE Breaks
    BY <1>4, <2>4 DEF Breaks, Fateless
  <2>5. QED
    BY <1>1, <2>1, <2>2, <2>3, <2>4 DEF Changes
<1>5. ASSUME NEW p \in Posts, Identified(p), p \notin seen', p \notin Looped
      PROVE  Fateless(p)'
  <2>1. p \notin seen /\ Fateless(p)
    BY <1>3, <1>5 DEF Tracking
  <2>2. \A w \in Workers : Processing(w) => post[w] # p
    BY <1>5, <2>1 DEF OnePass
  <2>3. QED
    BY <1>4, <1>5, <2>1, <2>2
<1>6. ASSUME NEW v \in Workers, Processing(v)'
      PROVE  post'[v] \notin Looped /\ (Identified(post'[v]) => Fateless(post[v])')
  <2>1. post'[v] = post[v] /\ (Processing(v) \/ Record(v))
    BY <1>2, <1>6
  <2>2. CASE Processing(v)
    <3>1. post[v] \in Posts /\ post[v] \notin Looped
      BY <1>3, <2>2 DEF Tracking
    <3>2. ASSUME Identified(post[v]) PROVE Fateless(post[v])'
      <4> DEFINE p == post[v]
      <4>1. Fateless(p)
        BY <2>2, <3>2 DEF Tracking
      <4>2. \A w \in Workers : Processing(w) /\ ~Processing(w)' => post[w] # p
        BY <1>6, <2>2, <3>2 DEF OnePass
      <4>3. outcome'[p] = {} /\ p \notin failed'
        BY <1>4, <3>1, <4>1, <4>2 DEF Fateless
      <4>4. QED
        BY <2>1, <4>3 DEF Fateless
    <3>3. QED
      BY <2>1, <3>1, <3>2
  <2>3. CASE Record(v)
    <3>1. /\ post[v] \in Posts /\ post[v] \notin Looped
          /\ Identified(post[v]) => post[v] \notin seen
          /\ UNCHANGED <<outcome, failed>>
      BY <2>3, RecordFacts
    <3>2. Identified(post[v]) => outcome'[post'[v]] = {} /\ post'[v] \notin failed'
      BY <2>1, <3>1 DEF Tracking, Fateless
    <3>3. QED
      BY <2>1, <3>1, <3>2 DEF Fateless
  <2>4. QED
    BY <2>1, <2>2, <2>3
<1>7. seen' \cap Looped = {}
  BY <1>2, RecordFacts DEF Tracking
<1>8. \A v \in Workers : pc'[v] = "send" => todo'[v] \subseteq Subscribers[ListOf(post'[v])]
  BY <1>1 DEF Reads, Tracking
<1>9. QED
  BY <1>5, <1>6, <1>7, <1>8 DEF Tracking

-----------------------------------------------------------------------------
(* The steps as steps of PostFate.                                           *)

LEMMA FateFacts ==
    ASSUME NEW p \in Posts
    PROVE  /\ p \notin seen => FateOf(p) = "new"
           /\ p \in seen /\ Fateless(p) => FateOf(p) = "pending"
BY DEF FateOf, Fateless

LEMMA FateUnchanged ==
    ASSUME NEW p \in Posts, seen' = seen, failed' = failed, outcome'[p] = outcome[p]
    PROVE  FateOf(p)' = FateOf(p)
BY DEF FateOf

(* What the pass of w works on, if it is tracked, is pending.                *)
LEMMA PassPending ==
    ASSUME Shape, OnePass, Tracking, NEW w \in Workers, Processing(w), Identified(post[w])
    PROVE  /\ post[w] \in TrackedPosts /\ post[w] \in seen /\ Fateless(post[w])
           /\ FateOf(post[w]) = "pending"
<1>1. post[w] \in Posts
  BY DEF Shape, Busy, Processing, Runners
<1>2. post[w] \in seen /\ Fateless(post[w])
  BY DEF OnePass, Tracking
<1>3. QED
  BY <1>1, <1>2, FateFacts DEF TrackedPosts

LEMMA RecordBegins ==
    ASSUME Shape, OnePass, Tracking, NEW w \in Workers, Record(w)
    PROVE  [Fate!Next]_(Fate!fateVars)
<1> USE DEF TrackedPosts
<1>0. PICK q \in Posts : q = post[w]
  BY RecordFacts
<1>1. /\ q \notin Looped
      /\ Identified(q) => q \notin seen
      /\ seen' = IF Identified(q) THEN seen \cup {q} ELSE seen
      /\ UNCHANGED <<outcome, failed, copies>>
  BY <1>0, RecordFacts
<1>2. \A p \in TrackedPosts \ {q} : FateOf(p)' = FateOf(p)
  BY <1>1 DEF FateOf
<1>3. CASE Identified(q)
  <2>1. FateOf(q) = "new" /\ FateOf(q)' = "pending"
    <3>1. q \notin seen /\ q \in seen' /\ Fateless(q)
      BY <1>1, <1>3 DEF Tracking
    <3>2. QED
      BY <1>1, <3>1 DEF FateOf, Fateless
  <2>2. Fate!Begin(q)
    BY <1>1, <1>2, <1>3, <2>1 DEF Fate!Begin
  <2>3. QED
    BY <1>1, <1>3, <2>2 DEF Fate!Next
<1>4. CASE ~Identified(q)
  BY <1>1, <1>2, <1>4 DEF Fate!fateVars
<1>5. QED
  BY <1>3, <1>4

LEMMA SendSends ==
    ASSUME Shape, OnePass, Tracking, NEW w \in Workers, NEW r \in Members, Send(w, r)
    PROVE  [Fate!Next]_(Fate!fateVars)
<1> USE DEF TrackedPosts
<1>0. PICK q \in Posts : q = post[w]
  BY DEF Send, Pass, Shape, Busy, Runners
<1>1. /\ Processing(w) /\ pc[w] = "send" /\ r \in todo[w]
      /\ copies' = [copies EXCEPT ![q][r] = @ + 1]
      /\ UNCHANGED <<seen, outcome, failed>>
  BY <1>0 DEF Send, Pass, Processing, dbVars, history
<1>2. \A p \in TrackedPosts : FateOf(p)' = FateOf(p)
  BY <1>1, FateUnchanged
<1>3. CASE Identified(q)
  <2>1. FateOf(q) = "pending"
    BY <1>0, <1>1, <1>3, PassPending
  <2>2. copies[q][r] = 0 /\ r \in Subscribers[ListOf(q)]
    BY <1>0, <1>1, <1>3 DEF OnePass, Tracking
  <2>3. copies \in [Posts -> [Members -> Nat]]
    BY DEF Shape, TypeOK
  <2>4. [p \in TrackedPosts |-> copies'[p]] = [[p \in TrackedPosts |-> copies[p]] EXCEPT ![q][r] = 1]
    <3>1. copies'[q] = [copies[q] EXCEPT ![r] = 1]
      <4>1. copies'[q] = [copies[q] EXCEPT ![r] = copies[q][r] + 1]
        BY <1>1, <2>3
      <4>2. QED
        BY <2>2, <4>1
    <3>2. \A p \in TrackedPosts \ {q} : copies'[p] = copies[p]
      BY <1>1, <2>3
    <3>3. QED
      BY <1>3, <3>1, <3>2
  <2>5. Fate!SendCopy(q, r)
    BY <1>2, <1>3, <2>1, <2>2, <2>4 DEF Fate!SendCopy
  <2>6. q \in TrackedPosts /\ r \in [p \in TrackedPosts |-> Subscribers[ListOf(p)]][q]
    BY <1>3, <2>2
  <2>7. QED
    BY <2>5, <2>6 DEF Fate!Next
<1>4. CASE ~Identified(q)
  <2>1. \A p \in TrackedPosts : copies'[p] = copies[p]
    BY <1>1, <1>4 DEF Shape, TypeOK
  <2>2. QED
    BY <1>2, <2>1 DEF Fate!fateVars
<1>5. QED
  BY <1>3, <1>4

LEMMA EndsDecides ==
    ASSUME Shape, OnePass, Tracking, NEW w \in Workers, Ends(w), UNCHANGED <<seen, copies>>
    PROVE  [Fate!Next]_(Fate!fateVars)
<1> USE DEF TrackedPosts
<1>0. PICK q \in Posts : q = post[w]
  BY DEF Ends, Processing, Shape, Busy, Runners
<1>1. PICK disposition \in {"distributed", "held", "discarded", "rejected"} :
        /\ disposition = "distributed" \/ pc[w] \in Early
        /\ outcome' = [outcome EXCEPT ![q] = @ \cup {disposition}]
  BY <1>0 DEF Ends
<1>2. Processing(w) /\ failed' = failed
  BY DEF Ends
<1>3. \A p \in Posts \ {q} : FateOf(p)' = FateOf(p)
  BY <1>1, <1>2, FateUnchanged DEF Shape, TypeOK
<1>4. CASE Identified(q)
  <2>1. q \in seen /\ outcome[q] = {} /\ FateOf(q) = "pending"
    BY <1>0, <1>2, <1>4, PassPending DEF Fateless
  <2>2. outcome'[q] = {disposition}
    BY <1>1, <2>1 DEF Shape, TypeOK
  <2>3. CASE disposition = "distributed"
    <3>1. FateOf(q)' = "distributed"
      BY <2>1, <2>2, <2>3 DEF FateOf
    <3>2. Fate!Distributed(q)
      BY <1>3, <1>4, <2>1, <3>1 DEF Fate!Distributed
    <3>3. QED
      BY <1>4, <3>2 DEF Fate!Next
  <2>4. CASE disposition # "distributed"
    <3>1. PICK f \in {"held", "dropped"} : FateOf(q)' = f
      BY <2>1, <2>2, <2>4 DEF FateOf
    <3>2. \A r \in Members : copies[q][r] = 0
      BY <1>0, <1>1, <1>4, <2>4 DEF OnePass, Unsent
    <3>3. Fate!Untouched(q)
      BY <1>4, <3>2 DEF Fate!Untouched
    <3>4. Fate!Withhold(q, f)
      BY <1>3, <1>4, <2>1, <3>1, <3>3 DEF Fate!Withhold
    <3>5. QED
      BY <1>4, <3>4 DEF Fate!Next
  <2>5. QED
    BY <2>3, <2>4
<1>5. CASE ~Identified(q)
  BY <1>3, <1>5 DEF Fate!fateVars
<1>6. QED
  BY <1>4, <1>5

LEMMA BreaksLoses ==
    ASSUME Shape, OnePass, Tracking, Breaks, UNCHANGED <<seen, copies>>
    PROVE  [Fate!Next]_(Fate!fateVars)
<1> USE DEF TrackedPosts
<1>1. PICK W \in SUBSET Workers :
        /\ outcome' = outcome
        /\ \A w \in W : Processing(w) /\ ~Processing(w)'
        /\ failed' = failed \cup {post[w] : w \in W}
  BY DEF Breaks
<1> DEFINE S == {p \in TrackedPosts : \E w \in W : post[w] = p}
<1>2. ASSUME NEW p \in S PROVE FateOf(p) = "pending" /\ FateOf(p)' = "lost"
  <2>1. PICK w \in W : post[w] = p
    OBVIOUS
  <2>2. p \in Posts /\ p \in seen /\ Fateless(p) /\ FateOf(p) = "pending"
    BY <1>1, <2>1, PassPending
  <2>3. outcome'[p] = {} /\ p \in failed' /\ p \in seen'
    BY <1>1, <2>1, <2>2 DEF Fateless
  <2>4. FateOf(p)' = "lost"
    BY <2>3 DEF FateOf
  <2>5. QED
    BY <2>2, <2>4
<1>3. ASSUME NEW p \in TrackedPosts \ S PROVE FateOf(p)' = FateOf(p)
  <2>1. p \in failed' <=> p \in failed
    BY <1>1
  <2>2. QED
    BY <1>1, <2>1 DEF FateOf
<1> HIDE DEF S
<1>4. S \subseteq TrackedPosts
  BY DEF S
<1>5. Fate!Lose(S)
  BY <1>2, <1>3, <1>4 DEF Fate!Lose
<1>6. QED
  BY <1>4, <1>5 DEF Fate!Next

(* A loop that is dropped never got a fate, and nobody knows of it.          *)
LEMMA DropsNothing ==
    ASSUME Shape, Tracking, Drops, UNCHANGED <<seen, copies>>
    PROVE  [Fate!Next]_(Fate!fateVars)
<1>1. PICK q \in Looped :
        failed' = failed /\ \E disposition : outcome' = [outcome EXCEPT ![q] = @ \cup {disposition}]
  BY DEF Drops
<1>2. ASSUME NEW p \in Posts PROVE FateOf(p)' = FateOf(p)
  <2>1. CASE p = q
    BY <2>1 DEF Tracking, FateOf
  <2>2. CASE p # q
    BY <1>1, <2>2, FateUnchanged DEF Shape, TypeOK
  <2>3. QED
    BY <2>1, <2>2
<1>3. QED
  BY <1>2 DEF Fate!fateVars, TrackedPosts

LEMMA FateStep ==
    ASSUME Shape, Shape', OnePass, Tracking, [Next]_vars
    PROVE  [Fate!Next]_(Fate!fateVars)
<1>1. CASE \E w \in Workers : Record(w)
  BY <1>1, RecordBegins
<1>2. CASE \E w \in Workers, r \in Members : Send(w, r)
  BY <1>2, SendSends
<1>3. CASE ~ \E w \in Workers : Record(w) \/ \E r \in Members : Send(w, r)
  <2>1. UNCHANGED <<seen, copies>>
    BY <1>3, QuietStep DEF Quiet
  <2>2. CASE Same
    <3>1. \A p \in TrackedPosts : FateOf(p)' = FateOf(p)
      BY <2>1, <2>2, FateUnchanged DEF Same, TrackedPosts
    <3>2. QED
      BY <2>1, <3>1 DEF Fate!fateVars
  <2>3. QED
    BY <2>1, <2>2, ChangesStep, EndsDecides, BreaksLoses, DropsNothing DEF Changes
<1>4. QED
  BY <1>1, <1>2, <1>3

(* ImplementsPostFate: whatever retries, overlaps, errors and crashes do, a  *)
(* post that can be identified gets one pass, a loop none; copies go to      *)
(* subscribers of its list, one each, and to nobody when the post is held or *)
(* dropped (pipeline::intake, finalize, send_all).                           *)
THEOREM KeepsThePromise == Spec => ImplementsPostFate
<1> DEFINE Inv == Shape /\ OnePass /\ Tracking
<1>1. Init => Inv /\ Fate!Init
  <2>1. Init => Tracking
    BY DEF Init, Tracking, Fateless, Processing, Runners
  <2>2. Init => Fate!Init
    BY DEF Init, Fate!Init, FateOf, NoCopies, TrackedPosts
  <2>3. QED
    BY <2>1, <2>2, ShapeInit, OnePassInit
<1>2. Inv /\ [Next]_vars => Inv' /\ [Fate!Next]_(Fate!fateVars)
  BY ShapeStep, OnePassStep, TrackingStep, FateStep
<1>3. QED
  BY <1>1, <1>2, PTL DEF Spec, ImplementsPostFate, Fate!Spec

(* What has become of a post that can be identified is never revised, and    *)
(* after that nobody gets a copy of it from its intake.                      *)
Final == {"distributed", "held", "dropped", "lost"}

FatesStand ==
    \A p \in TrackedPosts : FateOf(p) \in Final => FateOf(p)' = FateOf(p) /\ copies'[p] = copies[p]

(* PostFate promises it of any posts.                                        *)
LEMMA PromisedFinal ==
    ASSUME [Fate!Next]_(Fate!fateVars), NEW p \in TrackedPosts, FateOf(p) \in Final
    PROVE  FateOf(p)' = FateOf(p) /\ copies'[p] = copies[p]
<1> DEFINE fate == [q \in TrackedPosts |-> FateOf(q)]
           sent == [q \in TrackedPosts |-> copies[q]]
<1>1. SUFFICES fate'[p] = fate[p] /\ sent'[p] = sent[p]
  OBVIOUS
<1>2. fate[p] \in Final /\ fate[p] \notin {"new", "pending"}
  BY DEF Final
<1>3. fate \in [TrackedPosts -> {fate[q] : q \in TrackedPosts}]
      /\ sent \in [TrackedPosts -> {sent[q] : q \in TrackedPosts}]
  OBVIOUS
<1> HIDE DEF fate, sent
<1>4. CASE UNCHANGED <<fate, sent>>
  BY <1>4
<1>5. ASSUME NEW q \in TrackedPosts, Fate!Begin(q)
      PROVE  fate'[p] = fate[p] /\ sent'[p] = sent[p]
  BY <1>2, <1>3, <1>5 DEF Fate!Begin, fate, sent
<1>6. ASSUME NEW q \in TrackedPosts, NEW r, Fate!SendCopy(q, r)
      PROVE  fate'[p] = fate[p] /\ sent'[p] = sent[p]
  BY <1>2, <1>3, <1>6 DEF Fate!SendCopy, fate, sent
<1>7. ASSUME NEW q \in TrackedPosts, NEW f, Fate!Distributed(q) \/ Fate!Withhold(q, f)
      PROVE  fate'[p] = fate[p] /\ sent'[p] = sent[p]
  BY <1>2, <1>3, <1>7 DEF Fate!Distributed, Fate!Withhold, fate, sent
<1>8. ASSUME NEW S \in SUBSET TrackedPosts, Fate!Lose(S)
      PROVE  fate'[p] = fate[p] /\ sent'[p] = sent[p]
  BY <1>2, <1>3, <1>8 DEF Fate!Lose, fate, sent
<1>9. QED
  BY <1>4, <1>5, <1>6, <1>7, <1>8 DEF Fate!Next, Fate!fateVars, fate, sent

(* Whatever retries, overlaps, errors and crashes follow, the disposition of *)
(* an identified post stands: a distributed post is not held as well, a      *)
(* dropped one is not distributed by a retry, and one whose pass an error or *)
(* a crash cut short is lost for good, as record_message ran first and       *)
(* nothing takes its row out of seen_messages again.                         *)
THEOREM DispositionsStand == Spec => [][FatesStand]_vars
<1> DEFINE Inv == Shape /\ OnePass /\ Tracking
<1>1. Init => Inv
  <2>1. Init => Tracking
    BY DEF Init, Tracking, Fateless, Processing, Runners
  <2>2. QED
    BY <2>1, ShapeInit, OnePassInit
<1>2. Inv /\ [Next]_vars => Inv' /\ FatesStand
  <2> SUFFICES ASSUME Inv, [Next]_vars PROVE Inv' /\ FatesStand
    OBVIOUS
  <2>1. Inv'
    BY ShapeStep, OnePassStep, TrackingStep
  <2>2. [Fate!Next]_(Fate!fateVars)
    BY <2>1, FateStep
  <2>3. QED
    BY <2>1, <2>2, PromisedFinal DEF FatesStand
<1>3. QED
  BY <1>1, <1>2, PTL DEF Spec
=============================================================================
