------------------------- MODULE DistributionProofs -------------------------
(***************************************************************************)
(* Theorems about Distribution, for any number of lists, messages,         *)
(* members, tasks and commands and any value of the bounds.                *)
(***************************************************************************)
EXTENDS Distribution, TLAPS

-----------------------------------------------------------------------------
(* What a runner that is not idle works on. *)
Busy ==
    /\ \A x \in Runners : pc[x] # "idle" => post[x] \in Posts
    /\ \A w \in Workers : pc[w] # "delete"
    /\ \A m \in Moderators : pc[m] # "idle" => entry[m] \in HeldIds

Shape == TypeOK /\ Busy

LEMMA VerdictType ==
    ASSUME NEW code
    PROVE  Verdict(OnTheWire(code)) \in {"queued", "accepted", "bounced"}
BY DEF Verdict, OnTheWire

LEMMA ShapeInit == Init => Shape
BY PostsAssumption, BoundsAssumption
   DEF Init, Shape, TypeOK, Busy, Runners, HeldIds, NoCopies, Label, Code

(* A task that has its answer keeps its place.                               *)
RunShape ==
    /\ pc \in [Runners -> Label]
    /\ post \in [Runners -> Posts \cup {NoPost}]
    /\ entry \in [Runners -> HeldIds \cup {0}]
    /\ todo \in [Runners -> SUBSET Members]
    /\ reply \in [Runners -> Code]
    /\ listening \in [Runners -> BOOLEAN]
    /\ Busy

LEMMA AnswerShape ==
    ASSUME Shape, NEW w \in Workers, pc[w] # "idle", NEW code \in Code, Answer(w, code)
    PROVE  RunShape'
<1> USE ActorsAssumption
<1> USE DEF Shape, TypeOK, Busy, Label, Runners
<1>1. /\ w \in Runners /\ post[w] \in Posts
      /\ pc' = [pc EXCEPT ![w] = "reply"] /\ reply' = [reply EXCEPT ![w] = code]
      /\ todo' = [todo EXCEPT ![w] = {}] /\ UNCHANGED <<post, entry, listening>>
  BY DEF Answer
<1>2. pc' \in [Runners -> Label] /\ reply' \in [Runners -> Code] /\ todo' \in [Runners -> SUBSET Members]
  BY <1>1
<1>3. Busy'
  BY <1>1
<1>4. QED
  BY <1>1, <1>2, <1>3 DEF RunShape

LEMMA DisposeShape ==
    ASSUME Shape, NEW w \in Workers, pc[w] # "idle", NEW code \in Code,
           NEW disposition \in {"distributed", "held", "discarded", "rejected"},
           Dispose(w, disposition, code), UNCHANGED <<mtaVars, dbVars, mailVars, commands, faults>>
    PROVE  Shape'
<1>1. RunShape'
  BY AnswerShape DEF Dispose
<1>2. outcome' \in [Posts -> SUBSET {"distributed", "held", "discarded", "rejected"}]
  BY DEF Dispose, Shape, TypeOK
<1>3. QED
  BY <1>1, <1>2 DEF RunShape, Shape, TypeOK, Dispose, mtaVars, dbVars, mailVars

LEMMA ShapeStep == Shape /\ [Next]_vars => Shape'
<1> SUFFICES ASSUME Shape, [Next]_vars PROVE Shape'
  OBVIOUS
<1> USE PostsAssumption, ActorsAssumption, PolicyAssumption, BoundsAssumption
<1> USE DEF Shape, TypeOK, Busy, Label, Code, Runners,
        mtaVars, dbVars, mailVars, history, runVars
<1>1. ASSUME NEW w \in Workers, NEW p \in Posts, Submit(w, p)
      PROVE  Shape'
  BY <1>1 DEF Submit
<1>2. ASSUME NEW p \in Posts, GiveUp(p)
      PROVE  Shape'
  BY <1>2 DEF GiveUp
<1>3. ASSUME NEW w \in Workers, DropLoop(w)
      PROVE  Shape'
  BY <1>3 DEF DropLoop, Dispose, Answer
<1>4. ASSUME NEW w \in Workers, DropDuplicate(w)
      PROVE  Shape'
  BY <1>4 DEF DropDuplicate, Answer
<1>5. ASSUME NEW w \in Workers, Record(w)
      PROVE  Shape'
  BY <1>5 DEF Record, Goto
<1>6. ASSUME NEW w \in Workers, EvaluateBefore(w)
      PROVE  Shape'
  <2>1. UNCHANGED <<mtaVars, dbVars, mailVars, commands, faults>>
    BY <1>6 DEF EvaluateBefore
  <2>2. CASE Goto(w, "after") /\ UNCHANGED history
    BY <1>6, <2>1, <2>2 DEF EvaluateBefore, Goto
  <2>3. CASE Goto(w, "hold") /\ UNCHANGED history
    BY <1>6, <2>1, <2>3 DEF EvaluateBefore, Goto
  <2>4. CASE Dispose(w, "discarded", "250")
    BY <2>1, <2>4, <1>6, DisposeShape DEF EvaluateBefore
  <2>5. CASE Dispose(w, "rejected", "550")
    BY <2>1, <2>5, <1>6, DisposeShape DEF EvaluateBefore
  <2>6. QED
    BY <1>6, <2>2, <2>3, <2>4, <2>5 DEF EvaluateBefore
<1>7. ASSUME NEW w \in Workers, Hold(w)
      PROVE  Shape'
  <2>1. /\ pc[w] = "hold" /\ "250" \in Code /\ Answer(w, "250")
        /\ nextId <= MaxHeld /\ UNCHANGED seen
        /\ queue' = [queue EXCEPT ![nextId] = post[w]]
        /\ issued' = [issued EXCEPT ![nextId] = post[w]]
        /\ nextId' = nextId + 1
        /\ outcome' = [outcome EXCEPT ![post[w]] = @ \cup {"held"}]
        /\ UNCHANGED <<failed, rejected, settled, disturbed, upstream, tries,
                       copies, heldCopies, commands, faults>>
    BY <1>7 DEF Hold, Enqueue
  <2>2. RunShape'
    BY <2>1, AnswerShape
  <2>3. post[w] \in Posts
    BY <2>1
  <2>4. /\ queue' \in [HeldIds -> Posts \cup {NoPost}] /\ issued' \in [HeldIds -> Posts \cup {NoPost}]
        /\ outcome' \in [Posts -> SUBSET {"distributed", "held", "discarded", "rejected"}]
    BY <2>1, <2>3
  <2>5. nextId' \in Nat \ {0}
    BY <2>1
  <2>6. QED
    BY <2>1, <2>2, <2>4, <2>5 DEF RunShape
<1>8. ASSUME NEW w \in Workers, EvaluateAfter(w)
      PROVE  Shape'
  <2>1. CASE Distribute(w)
    BY <1>8, <2>1 DEF EvaluateAfter, Distribute, ListOf
  <2>2. UNCHANGED <<mtaVars, dbVars, mailVars, commands, faults>>
    BY <1>8 DEF EvaluateAfter
  <2>3. CASE Goto(w, "hold") /\ UNCHANGED history
    BY <1>8, <2>2, <2>3 DEF EvaluateAfter, Goto
  <2>4. CASE Dispose(w, "discarded", "250")
    BY <1>8, <2>2, <2>4, DisposeShape DEF EvaluateAfter
  <2>5. CASE Dispose(w, "rejected", "550")
    BY <1>8, <2>2, <2>5, DisposeShape DEF EvaluateAfter
  <2>6. QED
    BY <1>8, <2>1, <2>3, <2>4, <2>5 DEF EvaluateAfter
<1>9. ASSUME NEW w \in Workers, NEW r \in Members, Send(w, r)
      PROVE  Shape'
  BY <1>9 DEF Send, Pass
<1>10. ASSUME NEW x \in Runners, NEW r \in Members, Refuse(x, r)
       PROVE  Shape'
  BY <1>10 DEF Refuse, Pass
<1>11. ASSUME NEW w \in Workers, FinishSending(w)
       PROVE  Shape'
  BY <1>11 DEF FinishSending, Dispose, Answer
<1>12. ASSUME NEW w \in Workers, Reply(w)
       PROVE  Shape'
  BY <1>12, VerdictType DEF Reply, Stop
<1>13. ASSUME NEW w \in Workers, Fail(w)
       PROVE  Shape'
  BY <1>13 DEF Fail, Answer, Processing
<1>14. ASSUME NEW w \in Workers, LoseConnection(w)
       PROVE  Shape'
  BY <1>14 DEF LoseConnection
<1>15. ASSUME Crash
       PROVE  Shape'
  BY <1>15 DEF Crash, Stop, Processing
<1>16. ASSUME NEW m \in Moderators, NEW i \in HeldIds, Approve(m, i)
       PROVE  Shape'
  BY <1>16 DEF Approve
<1>17. ASSUME NEW m \in Moderators, NEW i \in HeldIds, Reject(m, i)
       PROVE  Shape'
  BY <1>17 DEF Reject
<1>18. ASSUME NEW m \in Moderators, ReevaluateAfter(m)
       PROVE  Shape'
  <2>1. CASE Distribute(m)
    BY <1>18, <2>1 DEF ReevaluateAfter, Distribute, ListOf
  <2>2. UNCHANGED <<mtaVars, dbVars, mailVars, commands, faults>>
    BY <1>18 DEF ReevaluateAfter
  <2>3. CASE Goto(m, "hold") /\ UNCHANGED history
    BY <1>18, <2>2, <2>3 DEF ReevaluateAfter, Goto
  <2>4. CASE Settle(m)
    BY <1>18, <2>2, <2>4 DEF ReevaluateAfter, Settle
  <2>5. QED
    BY <1>18, <2>1, <2>3, <2>4 DEF ReevaluateAfter
<1>19. ASSUME NEW m \in Moderators, NEW r \in Members, SendHeld(m, r)
       PROVE  Shape'
  BY <1>19 DEF SendHeld, Pass
<1>20. ASSUME NEW m \in Moderators, FinishHeldSending(m)
       PROVE  Shape'
  BY <1>20 DEF FinishHeldSending, Settle
<1>21. ASSUME NEW m \in Moderators, Rehold(m)
       PROVE  Shape'
  <2>1. /\ m \in Runners /\ post[m] \in Posts /\ entry[m] \in HeldIds
        /\ nextId \in HeldIds
    BY <1>21 DEF Rehold, Enqueue, HeldIds
  <2>2. /\ queue' = [queue EXCEPT ![nextId] = post[m]]
        /\ issued' = [issued EXCEPT ![nextId] = post[m]]
        /\ nextId' = nextId + 1
        /\ seen' = seen
        /\ pc' = [pc EXCEPT ![m] = "delete"]
        /\ settled' = settled \cup {entry[m]}
        /\ UNCHANGED <<post, entry, todo, reply, listening>>
        /\ UNCHANGED <<outcome, failed, rejected, disturbed>>
        /\ UNCHANGED <<upstream, tries, copies, heldCopies, commands, faults>>
    BY <1>21 DEF Rehold, Enqueue
  <2>3. TypeOK'
    <3>1. /\ queue' \in [HeldIds -> Posts \cup {NoPost}]
          /\ issued' \in [HeldIds -> Posts \cup {NoPost}]
      BY <2>1, <2>2
    <3>2. nextId' \in Nat \ {0}
      BY <2>1, <2>2 DEF HeldIds
    <3>3. settled' \in SUBSET HeldIds
      BY <2>1, <2>2
    <3>4. pc' \in [Runners -> Label]
      BY <2>1, <2>2
    <3>5. QED
      BY <2>2, <3>1, <3>2, <3>3, <3>4
  <2>4. Busy'
    BY <2>1, <2>2
  <2>5. QED
    BY <2>3, <2>4
<1>22. ASSUME NEW m \in Moderators, Delete(m)
       PROVE  Shape'
  BY <1>22 DEF Delete, Stop
<1>23. ASSUME NEW m \in Moderators, Abort(m)
       PROVE  Shape'
  BY <1>23 DEF Abort, Stop
<1>24. CASE UNCHANGED vars
  BY <1>24 DEF vars
<1>25. QED
  BY <1>1, <1>2, <1>3, <1>4, <1>5, <1>6, <1>7, <1>8, <1>9, <1>10, <1>11, <1>12,
     <1>13, <1>14, <1>15, <1>16, <1>17, <1>18, <1>19, <1>20, <1>21, <1>22, <1>23,
     <1>24 DEF Next, WorkerStep, CommandStep

(* Every variable keeps the shape the code gives it, whatever interleaving *)
(* of transactions, commands, errors and crashes the program goes through. *)
THEOREM TypeCorrect == Spec => []TypeOK
<1>1. Shape => TypeOK
  BY DEF Shape
<1>2. QED
  BY ShapeInit, ShapeStep, <1>1, PTL DEF Spec

-----------------------------------------------------------------------------
(* At most one pass over an identified post, and at most one copy from it. *)

Early == {"before", "hold", "after"}
Unsent(p) == \A r \in Members : copies[p][r] = 0

(* The inductive invariant behind AtMostOnce: a pass has its row in          *)
(* seen_messages, two passes are over different posts, and what a pass has   *)
(* still to send has not been sent.                                          *)
OnePass ==
    /\ \A p \in Posts : Identified(p) /\ p \notin seen => Unsent(p)
    /\ \A w \in Workers :
          Processing(w) /\ Identified(post[w]) => post[w] \in seen
    /\ \A v, w \in Workers :
          v # w /\ Processing(v) /\ Processing(w) /\ Identified(post[v])
            => post[v] # post[w]
    /\ \A w \in Workers :
          Identified(post[w]) /\ pc[w] \in Early => Unsent(post[w])
    /\ \A w \in Workers :
          Identified(post[w]) /\ pc[w] = "send"
            => \A r \in todo[w] : copies[post[w]][r] = 0
    /\ AtMostOnce

(* A pass of v that goes on without sending: it does not go back. *)
Onward(v) ==
    Processing(v)' =>
        /\ Processing(v)
        /\ post'[v] = post[v]
        /\ pc'[v] \in Early => pc[v] \in Early
        /\ pc'[v] = "send" =>
             pc[v] \in Early \/ (pc[v] = "send" /\ todo'[v] \subseteq todo[v])

(* Every step but the one that records and the one that sends leaves the   *)
(* table and the copies alone and only takes passes onward.                *)
Quiet ==
    /\ seen' = seen
    /\ copies' = copies
    /\ \A v \in Workers : Onward(v)

LEMMA QuietStep ==
    ASSUME Shape, [Next]_vars,
           ~ \E w \in Workers : Record(w) \/ \E r \in Members : Send(w, r)
    PROVE  Quiet
<1> USE PostsAssumption, ActorsAssumption
<1> USE DEF Shape, TypeOK, Quiet, Onward, Early, Processing, Runners,
        mtaVars, dbVars, mailVars, history, runVars
<1>1. ASSUME NEW w \in Workers, NEW p \in Posts, Submit(w, p)
      PROVE  Quiet
  BY <1>1 DEF Submit
<1>2. ASSUME NEW p \in Posts, GiveUp(p)
      PROVE  Quiet
  BY <1>2 DEF GiveUp
<1>3. ASSUME NEW w \in Workers,
             DropLoop(w) \/ DropDuplicate(w) \/ FinishSending(w) \/ Fail(w)
      PROVE  Quiet
  BY <1>3 DEF DropLoop, DropDuplicate, FinishSending, Fail, Dispose, Answer
<1>4. ASSUME NEW w \in Workers, EvaluateBefore(w)
      PROVE  Quiet
  BY <1>4 DEF EvaluateBefore, Goto, Dispose, Answer
<1>5. ASSUME NEW w \in Workers, Hold(w)
      PROVE  Quiet
  BY <1>5 DEF Hold, Enqueue, Answer
<1>6. ASSUME NEW w \in Workers, EvaluateAfter(w)
      PROVE  Quiet
  <2>1. CASE Distribute(w)
    BY <1>6, <2>1 DEF EvaluateAfter, Distribute
  <2>2. CASE Goto(w, "hold")
    BY <1>6, <2>2 DEF EvaluateAfter, Goto
  <2>3. CASE \E d \in {"discarded", "rejected"}, code \in Code : Dispose(w, d, code)
    BY <1>6, <2>3 DEF EvaluateAfter, Dispose, Answer
  <2>4. QED
    BY <1>6, <2>1, <2>2, <2>3 DEF EvaluateAfter, Code
<1>7. ASSUME NEW x \in Runners, NEW r \in Members, Refuse(x, r)
      PROVE  Quiet
  BY <1>7 DEF Refuse, Pass
<1>8. ASSUME NEW w \in Workers, Reply(w) \/ LoseConnection(w)
      PROVE  Quiet
  BY <1>8 DEF Reply, Stop, LoseConnection
<1>9. ASSUME Crash
      PROVE  Quiet
  BY <1>9 DEF Crash, Stop
<1>10. ASSUME NEW m \in Moderators, NEW i \in HeldIds, Approve(m, i) \/ Reject(m, i)
       PROVE  Quiet
  BY <1>10 DEF Approve, Reject
<1>11. ASSUME NEW m \in Moderators, ReevaluateAfter(m)
       PROVE  Quiet
  BY <1>11 DEF ReevaluateAfter, Distribute, Goto, Settle
<1>12. ASSUME NEW m \in Moderators, NEW r \in Members, SendHeld(m, r)
       PROVE  Quiet
  BY <1>12 DEF SendHeld, Pass
<1>13. ASSUME NEW m \in Moderators, FinishHeldSending(m) \/ Rehold(m)
       PROVE  Quiet
  BY <1>13 DEF FinishHeldSending, Rehold, Enqueue, Settle
<1>14. ASSUME NEW m \in Moderators, Delete(m) \/ Abort(m)
       PROVE  Quiet
  BY <1>14 DEF Delete, Abort, Stop
<1>15. CASE UNCHANGED vars
  BY <1>15 DEF vars
<1>16. QED
  BY <1>1, <1>2, <1>3, <1>4, <1>5, <1>6, <1>7, <1>8, <1>9, <1>10, <1>11, <1>12,
     <1>13, <1>14, <1>15 DEF Next, WorkerStep, CommandStep

LEMMA OnePassInit == Init => OnePass
BY DEF Init, OnePass, Unsent, NoCopies, Processing, Early, AtMostOnce, Runners

LEMMA OnePassQuiet ==
    ASSUME Shape', OnePass, Quiet
    PROVE  OnePass'
<1> USE DEF Quiet, Onward, Early, Processing, Unsent, Identified
<1>1. \A p \in Posts : Identified(p) /\ p \notin seen' => Unsent(p)'
  BY DEF OnePass
<1>2. \A w \in Workers :
        Processing(w)' /\ Identified(post'[w]) => post'[w] \in seen'
  BY DEF OnePass
<1>3. \A v, w \in Workers :
        v # w /\ Processing(v)' /\ Processing(w)' /\ Identified(post'[v])
          => post'[v] # post'[w]
  BY DEF OnePass
<1>4. \A w \in Workers :
        Identified(post'[w]) /\ pc'[w] \in Early => Unsent(post[w])' 
  BY DEF OnePass
<1>5. \A w \in Workers :
        Identified(post'[w]) /\ pc'[w] = "send"
          => \A r \in todo'[w] : copies'[post'[w]][r] = 0
  <2> SUFFICES ASSUME NEW w \in Workers, Identified(post'[w]), pc'[w] = "send",
                      NEW r \in todo'[w]
               PROVE  copies'[post'[w]][r] = 0
    OBVIOUS
  <2>1. CASE pc[w] \in Early
    <3>1. todo'[w] \subseteq Members
      BY DEF Shape, TypeOK, Runners
    <3>2. QED
      BY <2>1, <3>1 DEF OnePass
  <2>2. CASE pc[w] = "send" /\ todo'[w] \subseteq todo[w]
    BY <2>2 DEF OnePass
  <2>3. QED
    BY <2>1, <2>2
<1>6. AtMostOnce'
  BY DEF OnePass, AtMostOnce
<1>7. QED
  BY <1>1, <1>2, <1>3, <1>4, <1>5, <1>6 DEF OnePass

LEMMA OnePassRecord ==
    ASSUME Shape, Shape', OnePass, NEW w \in Workers, Record(w)
    PROVE  OnePass'
<1> USE PostsAssumption
<1> USE DEF Early, Processing, Unsent, Identified, SeenBefore
<1>1. /\ pc[w] = "record" /\ post[w] \in Posts /\ w \in Runners
      /\ pc' = [pc EXCEPT ![w] = "before"]
      /\ pc \in [Runners -> Label]
      /\ UNCHANGED <<post, todo, copies>>
      /\ seen' = IF Identified(post[w]) THEN seen \cup {post[w]} ELSE seen
      /\ Identified(post[w]) => post[w] \notin seen
  BY DEF Record, Goto, Shape, TypeOK, Busy, Runners, mailVars
<1>2. \A v \in Workers \ {w} : pc'[v] = pc[v]
  BY <1>1
<1>3. pc'[w] = "before"
  BY <1>1
<1>4. \A p \in Posts : Identified(p) /\ p \notin seen' => Unsent(p)'
  BY <1>1 DEF OnePass
<1>5. \A v \in Workers :
        Processing(v)' /\ Identified(post'[v]) => post'[v] \in seen'
  BY <1>1, <1>2, <1>3 DEF OnePass
<1>6. \A u, v \in Workers :
        u # v /\ Processing(u)' /\ Processing(v)' /\ Identified(post'[u])
          => post'[u] # post'[v]
  BY <1>1, <1>2, <1>3 DEF OnePass
<1>7. \A v \in Workers :
        Identified(post'[v]) /\ pc'[v] \in Early => Unsent(post[v])'
  BY <1>1, <1>2, <1>3 DEF OnePass
<1>8. \A v \in Workers :
        Identified(post'[v]) /\ pc'[v] = "send"
          => \A r \in todo'[v] : copies'[post'[v]][r] = 0
  BY <1>1, <1>2, <1>3 DEF OnePass
<1>9. AtMostOnce'
  BY <1>1 DEF OnePass, AtMostOnce
<1>10. QED
  BY <1>4, <1>5, <1>6, <1>7, <1>8, <1>9 DEF OnePass

LEMMA OnePassSend ==
    ASSUME Shape, OnePass, NEW w \in Workers, NEW r \in Members, Send(w, r)
    PROVE  OnePass'
<1> USE DEF Early, Processing, Unsent
<1> DEFINE p == post[w]
<1>1. /\ pc[w] = "send" /\ r \in todo[w] /\ p \in Posts /\ w \in Runners
      /\ todo' = [todo EXCEPT ![w] = @ \ {r}]
      /\ copies' = [copies EXCEPT ![p][r] = @ + 1]
      /\ UNCHANGED <<pc, post, seen>>
      /\ copies \in [Posts -> [Members -> Nat]]
      /\ todo \in [Runners -> SUBSET Members]
      /\ Workers \subseteq Runners
  BY DEF Send, Pass, Shape, TypeOK, Busy, Runners, dbVars
<1>2. /\ copies'[p][r] = copies[p][r] + 1
      /\ \A s \in Members \ {r} : copies'[p][s] = copies[p][s]
      /\ \A q \in Posts \ {p} : copies'[q] = copies[q]
  BY <1>1
<1>3. Identified(p) => p \in seen /\ copies[p][r] = 0
  BY <1>1 DEF OnePass
<1>4. \A v \in Workers \ {w} : Processing(v) /\ Identified(p) => post[v] # p
  BY <1>1 DEF OnePass
<1>5. \A v \in Workers : Processing(v) => post[v] \in Posts
  BY <1>1 DEF Shape, Busy
<1>6. \A q \in Posts : Identified(q) /\ q \notin seen' => Unsent(q)'
  BY <1>1, <1>2, <1>3 DEF OnePass
<1>7. \A v \in Workers :
        Identified(post[v]) /\ pc[v] \in Early => Unsent(post[v])'
  <2> SUFFICES ASSUME NEW v \in Workers, Identified(post[v]), pc[v] \in Early
               PROVE  \A s \in Members : copies'[post[v]][s] = 0
    BY <1>1
  <2>1. post[v] # p
    BY <1>1, <1>4
  <2>2. QED
    BY <2>1, <1>2, <1>5 DEF OnePass
<1>8. \A v \in Workers :
        Identified(post[v]) /\ pc[v] = "send"
          => \A s \in todo'[v] : copies'[post[v]][s] = 0
  <2> SUFFICES ASSUME NEW v \in Workers, Identified(post[v]), pc[v] = "send",
                      NEW s \in todo'[v]
               PROVE  copies'[post[v]][s] = 0
    OBVIOUS
  <2>1. CASE v = w
    BY <2>1, <1>1, <1>2 DEF OnePass
  <2>2. CASE v # w
    <3>1. post[v] # p /\ todo'[v] = todo[v]
      BY <2>2, <1>1, <1>4
    <3>2. QED
      BY <3>1, <1>2, <1>5 DEF OnePass
  <2>3. QED
    BY <2>1, <2>2
<1>9. AtMostOnce'
  BY <1>1, <1>2, <1>3 DEF OnePass, AtMostOnce
<1>10. QED
  BY <1>1, <1>6, <1>7, <1>8, <1>9 DEF OnePass

LEMMA OnePassStep == Shape /\ OnePass /\ [Next]_vars => OnePass'
<1> SUFFICES ASSUME Shape, OnePass, [Next]_vars PROVE OnePass'
  OBVIOUS
<1>1. Shape'
  BY ShapeStep
<1>2. CASE \E w \in Workers : Record(w)
  BY <1>1, <1>2, OnePassRecord
<1>3. CASE \E w \in Workers, r \in Members : Send(w, r)
  BY <1>3, OnePassSend
<1>4. CASE ~ \E w \in Workers : Record(w) \/ \E r \in Members : Send(w, r)
  BY <1>1, <1>4, QuietStep, OnePassQuiet
<1>5. QED
  BY <1>2, <1>3, <1>4

(* Intake sends an identified message at most once to any subscriber, for    *)
(* every schedule of retries, overlapping attempts, errors and crashes.      *)
THEOREM SentAtMostOnce == Spec => []AtMostOnce
<1>1. Init => Shape /\ OnePass
  BY ShapeInit, OnePassInit
<1>2. Shape /\ OnePass /\ [Next]_vars => (Shape /\ OnePass)'
  BY ShapeStep, OnePassStep
<1>3. OnePass => AtMostOnce
  BY DEF OnePass
<1>4. QED
  BY <1>1, <1>2, <1>3, PTL DEF Spec

-----------------------------------------------------------------------------
(* Why transactions and commands end.                                        *)

(* The stages of intake and of moderate approve, in the order they have in   *)
(* the code: a task that is further on has a smaller number.                 *)
Ahead == [record |-> 7, before |-> 6, after |-> 5, hold |-> 4, send |-> 3,
          delete |-> 2, reply |-> 2, idle |-> 1]

(* A runner gets to a later stage, or has fewer recipients to reach.         *)
Advances(x) ==
    \/ Ahead[pc'[x]] < Ahead[pc[x]]
    \/ pc[x] = "send" /\ pc'[x] = "send" /\ todo'[x] \subseteq todo[x] /\ todo'[x] # todo[x]

Stays(x) == UNCHANGED <<pc[x], todo[x]>>

(* Every step of a task or a command takes it forward, and nothing that      *)
(* anybody else does takes it back.                                          *)
OnlyForward ==
    /\ \A w \in Workers : WorkerStep(w) => Advances(w)
    /\ \A m \in Moderators : CommandStep(m) => Advances(m)
    /\ \A x \in Runners : pc[x] # "idle" => Advances(x) \/ Stays(x)

(* What the helpers for control do to the runner they are used for, and to   *)
(* the others.                                                               *)
LEMMA ControlMoves ==
    ASSUME Shape, NEW x \in Runners, NEW y \in Runners
    PROVE  /\ \A label \in Label : Goto(x, label) =>
                 pc'[x] = label /\ todo'[x] = todo[x] /\ (y # x => Stays(y))
           /\ \A code : Answer(x, code) => pc'[x] = "reply" /\ (y # x => Stays(y))
           /\ \A S \in SUBSET Runners : Stop(S) =>
                 (x \in S => pc'[x] = "idle") /\ (y \notin S => Stays(y))
           /\ Settle(x) => pc'[x] = "delete" /\ (y # x => Stays(y))
           /\ Distribute(x) => pc'[x] = "send" /\ (y # x => Stays(y))
           /\ \A r \in Members : Pass(x, r) =>
                 /\ pc' = pc /\ todo'[x] = todo[x] \ {r} /\ r \in todo[x]
                 /\ (y # x => Stays(y))
BY DEF Goto, Answer, Stop, Settle, Distribute, Pass, Shape, TypeOK, Stays

(* Steps of a task and of a command, one kind at a time.                     *)
LEMMA WorkerForward ==
    ASSUME Shape, NEW w \in Workers, WorkerStep(w), NEW y \in Runners
    PROVE  Advances(w) /\ (y # w => Stays(y))
<1> USE DEF Advances, Ahead
<1>1. w \in Runners
  BY DEF Runners
<1>2. CASE DropLoop(w) \/ DropDuplicate(w)
  <2>1. pc[w] = "record" /\ \E code : Answer(w, code)
    BY <1>2 DEF DropLoop, DropDuplicate, Dispose
  <2>2. QED
    BY <1>1, <2>1, ControlMoves
<1>3. CASE Record(w)
  <2>1. pc[w] = "record" /\ Goto(w, "before") /\ "before" \in Label
    BY <1>3 DEF Record, Label
  <2>2. QED
    BY <1>1, <2>1, ControlMoves
<1>4. CASE EvaluateBefore(w)
  <2>1. pc[w] = "before"
    BY <1>4 DEF EvaluateBefore
  <2>2. \/ Goto(w, "after") \/ Goto(w, "hold")
        \/ \E code : Answer(w, code)
    BY <1>4 DEF EvaluateBefore, Dispose
  <2>3. pc'[w] \in {"after", "hold", "reply"} /\ (y # w => Stays(y))
    BY <1>1, <2>2, ControlMoves DEF Label
  <2>4. QED
    BY <2>1, <2>3
<1>5. CASE Hold(w)
  <2>1. pc[w] = "hold" /\ Answer(w, "250")
    BY <1>5 DEF Hold
  <2>2. QED
    BY <1>1, <2>1, ControlMoves
<1>6. CASE EvaluateAfter(w)
  <2>1. pc[w] = "after"
    BY <1>6 DEF EvaluateAfter
  <2>2. Distribute(w) \/ Goto(w, "hold") \/ \E code : Answer(w, code)
    BY <1>6 DEF EvaluateAfter, Dispose
  <2>3. pc'[w] \in {"send", "hold", "reply"} /\ (y # w => Stays(y))
    BY <1>1, <2>2, ControlMoves DEF Label
  <2>4. QED
    BY <2>1, <2>3
<1>7. ASSUME NEW r \in Members, Send(w, r) \/ Refuse(w, r) PROVE Advances(w) /\ (y # w => Stays(y))
  <2>1. pc[w] = "send" /\ Pass(w, r)
    BY <1>7 DEF Send, Refuse, Pass
  <2>2. pc' = pc /\ todo'[w] = todo[w] \ {r} /\ r \in todo[w] /\ (y # w => Stays(y))
    BY <1>1, <2>1, ControlMoves
  <2>3. QED
    BY <2>1, <2>2
<1>8. CASE FinishSending(w)
  <2>1. pc[w] = "send" /\ Answer(w, "250")
    BY <1>8 DEF FinishSending, Dispose
  <2>2. QED
    BY <1>1, <2>1, ControlMoves
<1>9. CASE Reply(w)
  <2>1. pc[w] = "reply" /\ Stop({w}) /\ {w} \in SUBSET Runners
    BY <1>1, <1>9 DEF Reply
  <2>2. QED
    BY <1>1, <2>1, ControlMoves
<1>10. QED
  BY <1>2, <1>3, <1>4, <1>5, <1>6, <1>7, <1>8, <1>9 DEF WorkerStep

LEMMA CommandForward ==
    ASSUME Shape, NEW m \in Moderators, CommandStep(m), NEW y \in Runners
    PROVE  Advances(m) /\ (y # m => Stays(y))
<1> USE DEF Advances, Ahead
<1>1. m \in Runners
  BY DEF Runners
<1>2. CASE ReevaluateAfter(m)
  <2>1. pc[m] = "after"
    BY <1>2 DEF ReevaluateAfter
  <2>2. Distribute(m) \/ Goto(m, "hold") \/ Settle(m)
    BY <1>2 DEF ReevaluateAfter
  <2>3. pc'[m] \in {"send", "hold", "delete"} /\ (y # m => Stays(y))
    BY <1>1, <2>2, ControlMoves DEF Label
  <2>4. QED
    BY <2>1, <2>3
<1>3. ASSUME NEW r \in Members, SendHeld(m, r) \/ Refuse(m, r) PROVE Advances(m) /\ (y # m => Stays(y))
  <2>1. pc[m] = "send" /\ Pass(m, r)
    BY <1>3 DEF SendHeld, Refuse, Pass
  <2>2. pc' = pc /\ todo'[m] = todo[m] \ {r} /\ r \in todo[m] /\ (y # m => Stays(y))
    BY <1>1, <2>1, ControlMoves
  <2>3. QED
    BY <2>1, <2>2
<1>4. CASE FinishHeldSending(m)
  <2>1. pc[m] = "send" /\ Settle(m)
    BY <1>4 DEF FinishHeldSending
  <2>2. QED
    BY <1>1, <2>1, ControlMoves
<1>5. CASE Rehold(m)
  <2>1. pc[m] = "hold" /\ pc' = [pc EXCEPT ![m] = "delete"] /\ todo' = todo
    BY <1>5 DEF Rehold
  <2>2. pc'[m] = "delete" /\ (y # m => Stays(y))
    BY <1>1, <2>1 DEF Shape, TypeOK, Stays
  <2>3. QED
    BY <2>1, <2>2
<1>6. CASE Delete(m)
  <2>1. pc[m] = "delete" /\ Stop({m}) /\ {m} \in SUBSET Runners
    BY <1>1, <1>6 DEF Delete
  <2>2. QED
    BY <1>1, <2>1, ControlMoves
<1>7. QED
  BY <1>2, <1>3, <1>4, <1>5, <1>6 DEF CommandStep

(* Nobody is later than idle, and whoever is not idle can get there.         *)
LEMMA IdleIsLast ==
    ASSUME NEW label \in Label PROVE label # "idle" => Ahead["idle"] < Ahead[label]
BY DEF Label, Ahead

(* A runner that a step does not speak of, or stops, or answers.             *)
LEMMA NobodyFallsBack ==
    ASSUME Shape, [Next]_vars, NEW x \in Runners, pc[x] # "idle"
    PROVE  Advances(x) \/ Stays(x)
<1> USE ActorsAssumption
<1>1. /\ pc[x] \in Label /\ \A S \in SUBSET Runners : Stop(S) =>
            pc'[x] = "idle" \/ Stays(x)
  <2>1. pc[x] \in Label
    BY DEF Shape, TypeOK
  <2>2. QED
    BY <2>1, ControlMoves
<1>2. pc'[x] = "idle" => Advances(x)
  BY <1>1, IdleIsLast DEF Advances
<1>3. ASSUME NEW S \in SUBSET Runners, Stop(S) PROVE Advances(x) \/ Stays(x)
  BY <1>1, <1>2, <1>3
<1>4. CASE \E w \in Workers : WorkerStep(w)
  BY <1>4, WorkerForward
<1>5. CASE \E m \in Moderators : CommandStep(m)
  BY <1>5, CommandForward
<1>6. CASE Crash \/ \E m \in Moderators : Abort(m)
  <2>1. \E S \in SUBSET Runners : Stop(S)
    BY <1>6 DEF Crash, Abort, Runners
  <2>2. QED
    BY <1>3, <2>1
<1>7. ASSUME NEW w \in Workers, Fail(w) PROVE Advances(x) \/ Stays(x)
  <2>1. w \in Runners /\ Answer(w, "451") /\ pc[w] \in {"record", "before", "hold", "after", "send"}
    BY <1>7 DEF Fail, Processing, Runners
  <2>2. pc'[w] = "reply" /\ (x # w => Stays(x))
    BY <2>1, ControlMoves
  <2>3. Advances(w)
    BY <2>1, <2>2 DEF Advances, Ahead
  <2>4. QED
    BY <2>2, <2>3
<1>8. ASSUME NEW w \in Workers, NEW p \in Posts, Submit(w, p) PROVE Stays(x)
  BY <1>8 DEF Submit, Stays, Shape, TypeOK, Runners
<1>9. ASSUME NEW m \in Moderators, NEW i \in HeldIds, Approve(m, i) PROVE Stays(x)
  BY <1>9 DEF Approve, Stays, Shape, TypeOK, Runners
<1>10. CASE \/ \E p \in Posts : GiveUp(p)
            \/ \E w \in Workers : LoseConnection(w)
            \/ \E m \in Moderators, i \in HeldIds : Reject(m, i)
            \/ UNCHANGED vars
  BY <1>10 DEF GiveUp, LoseConnection, Reject, vars, runVars, Stays
<1>11. QED
  BY <1>4, <1>5, <1>6, <1>7, <1>8, <1>9, <1>10 DEF Next

(* The safety half of EveryTransactionEnds and EveryApprovalEnds: every step *)
(* of a task or a command takes it to a later stage or leaves it fewer       *)
(* recipients, and whatever the others, the front MTA, errors and crashes do *)
(* never sets it back (pipeline::intake has no loop but that of send_all).   *)
THEOREM TasksOnlyAdvance == Spec => [][OnlyForward]_vars
<1>1. Shape /\ [Next]_vars => [OnlyForward]_vars
  <2>1. ASSUME Shape, [Next]_vars PROVE OnlyForward
    <3>1. \A w \in Workers : WorkerStep(w) => Advances(w)
      BY <2>1, WorkerForward DEF Runners
    <3>2. \A m \in Moderators : CommandStep(m) => Advances(m)
      BY <2>1, CommandForward DEF Runners
    <3>3. \A x \in Runners : pc[x] # "idle" => Advances(x) \/ Stays(x)
      BY <2>1, NobodyFallsBack
    <3>4. QED
      BY <3>1, <3>2, <3>3 DEF OnlyForward
  <2>2. QED
    BY <2>1
<1>2. QED
  BY <1>1, ShapeInit, ShapeStep, PTL DEF Spec
=============================================================================
