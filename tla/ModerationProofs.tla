-------------------------- MODULE ModerationProofs --------------------------
(***************************************************************************)
(* Theorems about the moderation queue of Distribution, for any number of  *)
(* moderate commands that overlap, end early or repeat one another.        *)
(***************************************************************************)
EXTENDS DistributionProofs

Unposted(i) == \A r \in Members : heldCopies[i][r] = 0

(* An id names one message for ever. *)
OneName ==
    /\ \A i \in HeldIds : issued[i] # NoPost => i < nextId
    /\ \A i \in HeldIds : queue[i] # NoPost => queue[i] = issued[i]
    /\ \A i \in HeldIds : issued[i] = NoPost => Unposted(i)
    /\ \A m \in Moderators : pc[m] # "idle" => issued[entry[m]] # NoPost
    /\ \A m \in Moderators : pc[m] = "idle" => entry[m] = 0

(* The row is deleted only after the approval was settled. *)
Kept ==
    /\ \A m \in Moderators : pc[m] = "delete" => entry[m] \in settled
    /\ HeldLeavesSettled

(* Nothing overlapped on i and nothing ended early: one approval at a time  *)
(* works on it, and what it has still to send it has not sent.              *)
Orderly(i) ==
    /\ \A m, n \in Moderators : entry[m] = i /\ entry[n] = i => m = n
    /\ \A m \in Moderators : entry[m] = i /\ pc[m] \in {"after", "hold"} => Unposted(i)
    /\ \A m \in Moderators :
          entry[m] = i /\ pc[m] = "send" => \A r \in todo[m] : heldCopies[i][r] = 0
    /\ (\A m \in Moderators : entry[m] # i) /\ queue[i] # NoPost => Unposted(i)
    /\ \A r \in Members : heldCopies[i][r] <= 1

OneApproval == \A i \in HeldIds \ disturbed : Orderly(i)

(* No command works with the ids: the rest of the program. *)
Elsewhere ==
    /\ UNCHANGED <<queue, nextId, issued, rejected, settled, disturbed, heldCopies>>
    /\ \A m \in Moderators :
          pc'[m] = pc[m] /\ entry'[m] = entry[m] /\ post'[m] = post[m] /\ todo'[m] = todo[m]

Ordered == OneName /\ Kept /\ OneApproval

-----------------------------------------------------------------------------
LEMMA OrderedInit == Init => Ordered
<1> SUFFICES ASSUME Init PROVE Ordered
  OBVIOUS
<1>1. /\ \A i \in HeldIds : issued[i] = NoPost /\ queue[i] = NoPost /\ Unposted(i)
      /\ \A m \in Moderators : pc[m] = "idle" /\ entry[m] = 0
      /\ \A i \in HeldIds, r \in Members : heldCopies[i][r] = 0
  BY DEF Init, Unposted, NoCopies, Runners
<1>2. OneName /\ Kept
  BY <1>1 DEF OneName, Kept, HeldLeavesSettled
<1>3. OneApproval
  BY <1>1 DEF OneApproval, Orderly, HeldIds
<1>4. QED
  BY <1>2, <1>3 DEF Ordered

(* What the daemon and the front MTA do, holding a post excepted, leaves the *)
(* queue and the commands alone.                                             *)
LEMMA ElsewhereStep ==
    ASSUME Shape, NEW w \in Workers,
           \/ \E p \in Posts : Submit(w, p) \/ GiveUp(p)
           \/ DropLoop(w) \/ DropDuplicate(w) \/ Record(w) \/ EvaluateBefore(w)
           \/ EvaluateAfter(w) \/ FinishSending(w) \/ Reply(w) \/ Fail(w) \/ LoseConnection(w)
           \/ \E r \in Members : Send(w, r) \/ Refuse(w, r)
    PROVE  Elsewhere
<1> USE ActorsAssumption
<1> USE DEF Shape, TypeOK, Elsewhere, Runners, mtaVars, dbVars, mailVars, history, runVars
<1>1. ASSUME NEW p \in Posts, Submit(w, p) \/ GiveUp(p)
      PROVE  Elsewhere
  BY <1>1 DEF Submit, GiveUp
<1>2. CASE DropLoop(w) \/ DropDuplicate(w) \/ FinishSending(w) \/ Fail(w)
  BY <1>2 DEF DropLoop, DropDuplicate, FinishSending, Fail, Dispose, Answer
<1>3. CASE Record(w)
  BY <1>3 DEF Record, Goto
<1>4. CASE EvaluateBefore(w)
  BY <1>4 DEF EvaluateBefore, Goto, Dispose, Answer
<1>5. CASE EvaluateAfter(w)
  BY <1>5 DEF EvaluateAfter, Distribute, Goto, Dispose, Answer
<1>6. CASE Reply(w) \/ LoseConnection(w)
  BY <1>6 DEF Reply, Stop, LoseConnection
<1>7. ASSUME NEW r \in Members, Send(w, r) \/ Refuse(w, r)
      PROVE  Elsewhere
  BY <1>7 DEF Send, Refuse, Pass
<1>8. QED
  BY <1>1, <1>2, <1>3, <1>4, <1>5, <1>6, <1>7

LEMMA CrashElsewhere == Shape /\ (Crash \/ UNCHANGED vars) => Elsewhere
BY ActorsAssumption
   DEF Shape, TypeOK, Elsewhere, Runners, Crash, Stop, vars, mtaVars, dbVars, mailVars,
       history, runVars

LEMMA ElsewhereOrdered == Ordered /\ Elsewhere => Ordered'
<1> SUFFICES ASSUME Ordered, Elsewhere PROVE Ordered'
  OBVIOUS
<1>1. OneName'
  BY DEF Ordered, OneName, Elsewhere, Unposted
<1>2. Kept'
  BY DEF Ordered, Kept, Elsewhere, HeldLeavesSettled
<1>3. OneApproval'
  BY DEF Ordered, OneApproval, Orderly, Elsewhere, Unposted
<1>4. QED
  BY <1>1, <1>2, <1>3 DEF Ordered

-----------------------------------------------------------------------------
(* A new id: Hold for a task, Rehold for a command that was re-evaluated. *)
LEMMA EnqueueFacts ==
    ASSUME Shape, OneName, NEW p \in Posts, Enqueue(p)
    PROVE  /\ nextId \in HeldIds /\ issued[nextId] = NoPost /\ nextId' = nextId + 1
           /\ Unposted(nextId)
           /\ issued'[nextId] = p /\ queue'[nextId] = p
           /\ \A i \in HeldIds \ {nextId} : issued'[i] = issued[i] /\ queue'[i] = queue[i]
           /\ p # NoPost
BY PostsAssumption, BoundsAssumption
   DEF Shape, TypeOK, OneName, Enqueue, HeldIds, Unposted

LEMMA HoldOrdered ==
    ASSUME Shape, Ordered, NEW w \in Workers, Hold(w)
    PROVE  Ordered'
<1> USE DEF Ordered
<1>1. /\ Enqueue(post[w]) /\ post[w] \in Posts
      /\ UNCHANGED <<rejected, settled, disturbed, heldCopies, entry, post>>
      /\ \A m \in Moderators : pc'[m] = pc[m] /\ todo'[m] = todo[m]
  BY ActorsAssumption DEF Hold, Answer, Shape, TypeOK, Busy, Runners, mailVars
<1>2. /\ nextId \in HeldIds /\ issued[nextId] = NoPost /\ nextId' = nextId + 1
      /\ Unposted(nextId)
      /\ issued'[nextId] # NoPost /\ queue'[nextId] = issued'[nextId]
      /\ queue'[nextId] # NoPost
      /\ \A i \in HeldIds \ {nextId} : issued'[i] = issued[i] /\ queue'[i] = queue[i]
  BY <1>1, EnqueueFacts
<1>3. \A m \in Moderators : pc[m] # "idle" => entry[m] \in HeldIds /\ entry[m] # nextId
  BY <1>2 DEF OneName, Shape, Busy
<1>4. OneName'
  BY <1>1, <1>2, <1>3 DEF OneName, Unposted, HeldIds
<1>5. Kept'
  BY <1>1, <1>2 DEF Kept, HeldLeavesSettled
<1>6. OneApproval'
  BY <1>1, <1>2 DEF OneApproval, Orderly, Unposted
<1>7. QED
  BY <1>4, <1>5, <1>6

LEMMA ReholdOrdered ==
    ASSUME Shape, Ordered, NEW m \in Moderators, Rehold(m)
    PROVE  Ordered'
<1> USE DEF Ordered
<1>1. /\ Enqueue(post[m]) /\ post[m] \in Posts /\ entry[m] \in HeldIds
      /\ pc[m] = "hold" /\ m \in Runners
      /\ pc' = [pc EXCEPT ![m] = "delete"] /\ pc \in [Runners -> Label]
      /\ settled' = settled \cup {entry[m]}
      /\ UNCHANGED <<rejected, disturbed, heldCopies, entry, post, todo>>
      /\ Moderators \subseteq Runners
  BY DEF Rehold, Shape, TypeOK, Busy, Runners, mailVars
<1>2. /\ nextId \in HeldIds /\ issued[nextId] = NoPost /\ nextId' = nextId + 1
      /\ Unposted(nextId)
      /\ issued'[nextId] # NoPost /\ queue'[nextId] = issued'[nextId]
      /\ queue'[nextId] # NoPost
      /\ \A i \in HeldIds \ {nextId} : issued'[i] = issued[i] /\ queue'[i] = queue[i]
  BY <1>1, EnqueueFacts
<1>3. pc'[m] = "delete" /\ \A n \in Moderators \ {m} : pc'[n] = pc[n]
  BY <1>1
<1>4. \A n \in Moderators : pc[n] # "idle" => entry[n] \in HeldIds /\ entry[n] # nextId
  BY <1>2 DEF OneName, Shape, Busy
<1>5. OneName'
  BY <1>1, <1>2, <1>3, <1>4 DEF OneName, Unposted, HeldIds
<1>6. Kept'
  BY <1>1, <1>2, <1>3 DEF Kept, HeldLeavesSettled
<1>7. OneApproval'
  BY <1>1, <1>2, <1>3 DEF OneApproval, Orderly, Unposted
<1>8. QED
  BY <1>5, <1>6, <1>7

-----------------------------------------------------------------------------
(* The other steps of a command. *)
LEMMA ApproveOrdered ==
    ASSUME Shape, Ordered, NEW m \in Moderators, NEW i \in HeldIds, Approve(m, i)
    PROVE  Ordered'
<1> USE DEF Ordered
<1>1. /\ pc[m] = "idle" /\ queue[i] # NoPost /\ m \in Runners
      /\ pc' = [pc EXCEPT ![m] = "after"] /\ pc \in [Runners -> Label]
      /\ entry' = [entry EXCEPT ![m] = i] /\ entry \in [Runners -> HeldIds \cup {0}]
      /\ disturbed' = IF Approving(i) # {} THEN disturbed \cup {i} ELSE disturbed
      /\ UNCHANGED <<queue, nextId, issued, rejected, settled, heldCopies, todo>>
      /\ Moderators \subseteq Runners
  BY DEF Approve, Shape, TypeOK, Runners, mailVars, dbVars
<1>2. /\ pc'[m] = "after" /\ entry'[m] = i
      /\ \A n \in Moderators \ {m} : pc'[n] = pc[n] /\ entry'[n] = entry[n]
  BY <1>1
<1>3. issued[i] # NoPost
  BY <1>1 DEF OneName
<1>4. OneName'
  BY <1>1, <1>2, <1>3 DEF OneName, Unposted
<1>5. Kept'
  BY <1>1, <1>2 DEF Kept, HeldLeavesSettled
<1>6. ASSUME NEW j \in HeldIds, j \notin disturbed'
      PROVE  Orderly(j)'
  <2>1. j \notin disturbed /\ Orderly(j)
    BY <1>1, <1>6 DEF OneApproval
  <2>2. CASE j = i
    <3>1. \A n \in Moderators : entry[n] # i
      BY <1>1, <1>6, <2>2 DEF Approving
    <3>2. Unposted(i)
      BY <1>1, <2>1, <2>2, <3>1 DEF Orderly
    <3>3. QED
      BY <1>1, <1>2, <2>1, <2>2, <3>1, <3>2 DEF Orderly, Unposted
  <2>3. CASE j # i
    <3>1. entry[m] # j
      BY <1>1 DEF OneName, HeldIds
    <3>2. QED
      BY <1>1, <1>2, <2>1, <2>3, <3>1 DEF Orderly, Unposted
  <2>4. QED
    BY <2>2, <2>3
<1>7. QED
  BY <1>4, <1>5, <1>6 DEF OneApproval

LEMMA RejectOrdered ==
    ASSUME Shape, Ordered, NEW m \in Moderators, NEW i \in HeldIds, Reject(m, i)
    PROVE  Ordered'
<1> USE DEF Ordered
<1>1. /\ queue' = [queue EXCEPT ![i] = NoPost] /\ queue \in [HeldIds -> Posts \cup {NoPost}]
      /\ rejected' = rejected \cup {i}
      /\ UNCHANGED <<nextId, issued, settled, disturbed, heldCopies, pc, entry, post, todo>>
  BY DEF Reject, Shape, TypeOK, Runners, mailVars, runVars
<1>2. queue'[i] = NoPost /\ \A j \in HeldIds \ {i} : queue'[j] = queue[j]
  BY <1>1
<1>3. OneName'
  BY <1>1, <1>2 DEF OneName, Unposted
<1>4. Kept'
  BY <1>1, <1>2 DEF Kept, HeldLeavesSettled
<1>5. OneApproval'
  BY <1>1, <1>2 DEF OneApproval, Orderly, Unposted
<1>6. QED
  BY <1>3, <1>4, <1>5

(* A command that goes on: re-evaluated, or done with its copies. *)
LEMMA GoOnOrdered ==
    ASSUME Shape, Ordered, NEW m \in Moderators, ReevaluateAfter(m) \/ FinishHeldSending(m)
    PROVE  Ordered'
<1> USE DEF Ordered
<1>1. /\ UNCHANGED <<queue, nextId, issued, rejected, disturbed, heldCopies, entry, post>>
      /\ entry[m] \in HeldIds /\ m \in Runners /\ pc[m] \in {"after", "send"}
      /\ \/ /\ pc[m] = "after"
            /\ pc'[m] \in {"send", "hold"}
            /\ todo'[m] \subseteq Members
            /\ settled' = settled
         \/ /\ pc'[m] = "delete"
            /\ settled' = settled \cup {entry[m]}
      /\ \A n \in Moderators \ {m} : pc'[n] = pc[n] /\ todo'[n] = todo[n]
  <2>1. entry[m] \in HeldIds /\ m \in Runners /\ pc[m] \in {"after", "send"}
        /\ pc \in [Runners -> Label] /\ todo \in [Runners -> SUBSET Members]
        /\ Moderators \subseteq Runners /\ post[m] \in Posts
    BY DEF ReevaluateAfter, FinishHeldSending, Shape, TypeOK, Busy, Runners
  <2>2. /\ UNCHANGED <<queue, nextId, issued, rejected, disturbed, heldCopies, entry, post>>
    BY DEF ReevaluateAfter, FinishHeldSending, Distribute, Goto, Settle, dbVars, mailVars, history
  <2>3. CASE ReevaluateAfter(m) /\ Distribute(m)
    BY <2>1, <2>2, <2>3, PolicyAssumption, PostsAssumption
       DEF ReevaluateAfter, Distribute, history, ListOf
  <2>4. CASE ReevaluateAfter(m) /\ Goto(m, "hold") /\ UNCHANGED history
    BY <2>1, <2>2, <2>4 DEF ReevaluateAfter, Goto, history
  <2>5. CASE Settle(m)
    BY <2>1, <2>2, <2>5 DEF Settle
  <2>6. QED
    BY <2>3, <2>4, <2>5 DEF ReevaluateAfter, FinishHeldSending
<1>2. OneName'
  BY <1>1 DEF OneName, Unposted
<1>3. Kept'
  BY <1>1 DEF Kept, HeldLeavesSettled
<1>4. ASSUME NEW i \in HeldIds, i \notin disturbed'
      PROVE  Orderly(i)'
  <2>1. Orderly(i)
    BY <1>1, <1>4 DEF OneApproval
  <2>2. QED
    BY <1>1, <2>1 DEF Orderly, Unposted
<1>5. QED
  BY <1>2, <1>3, <1>4 DEF OneApproval

LEMMA PassOrdered ==
    ASSUME Shape, Ordered, NEW m \in Moderators, NEW r \in Members, SendHeld(m, r) \/ Refuse(m, r)
    PROVE  Ordered'
<1> USE DEF Ordered
<1>1. /\ UNCHANGED <<queue, nextId, issued, rejected, settled, disturbed, pc, entry, post>>
      /\ pc[m] = "send" /\ r \in todo[m] /\ entry[m] \in HeldIds /\ m \in Runners
      /\ todo' = [todo EXCEPT ![m] = @ \ {r}] /\ todo \in [Runners -> SUBSET Members]
      /\ heldCopies \in [HeldIds -> [Members -> Nat]]
      /\ \/ heldCopies' = [heldCopies EXCEPT ![entry[m]][r] = @ + 1]
         \/ heldCopies' = heldCopies
      /\ Moderators \subseteq Runners
  BY DEF SendHeld, Refuse, Pass, Shape, TypeOK, Busy, Runners, mailVars, dbVars, history
<1>2. /\ \A i \in HeldIds \ {entry[m]} : heldCopies'[i] = heldCopies[i]
      /\ \A s \in Members \ {r} : heldCopies'[entry[m]][s] = heldCopies[entry[m]][s]
      /\ heldCopies'[entry[m]][r] \in {heldCopies[entry[m]][r], heldCopies[entry[m]][r] + 1}
  BY <1>1
<1>3. todo'[m] = todo[m] \ {r} /\ \A n \in Moderators \ {m} : todo'[n] = todo[n]
  BY <1>1
<1>4. OneName'
  <2>1. issued[entry[m]] # NoPost
    BY <1>1 DEF OneName
  <2>2. QED
    BY <1>1, <1>2, <2>1 DEF OneName, Unposted
<1>5. Kept'
  BY <1>1 DEF Kept, HeldLeavesSettled
<1>6. ASSUME NEW i \in HeldIds, i \notin disturbed'
      PROVE  Orderly(i)'
  <2>1. Orderly(i)
    BY <1>1, <1>6 DEF OneApproval
  <2>2. CASE i = entry[m]
    <3>1. heldCopies[i][r] = 0
      BY <1>1, <2>1, <2>2 DEF Orderly
    <3>2. \A n \in Moderators : entry[n] = i => n = m
      BY <2>1, <2>2 DEF Orderly
    <3>3. \A s \in Members : heldCopies'[i][s] <= 1
      BY <1>2, <2>1, <2>2, <3>1 DEF Orderly
    <3>4. \A s \in todo'[m] : heldCopies'[i][s] = 0
      BY <1>1, <1>2, <1>3, <2>1, <2>2 DEF Orderly
    <3>5. QED
      BY <1>1, <2>2, <3>2, <3>3, <3>4 DEF Orderly
  <2>3. CASE i # entry[m]
    BY <1>1, <1>2, <1>3, <2>1, <2>3 DEF Orderly, Unposted
  <2>4. QED
    BY <2>2, <2>3
<1>7. QED
  BY <1>4, <1>5, <1>6 DEF OneApproval

(* A command that is over, its row deleted or not. *)
LEMMA StopOrdered ==
    ASSUME Shape, Ordered, NEW m \in Moderators, Delete(m) \/ Abort(m)
    PROVE  Ordered'
<1> USE DEF Ordered
<1>1. /\ UNCHANGED <<nextId, issued, rejected, settled, heldCopies>>
      /\ m \in Runners /\ entry[m] \in HeldIds
      /\ pc'[m] = "idle" /\ entry'[m] = 0
      /\ \A n \in Moderators \ {m} :
            pc'[n] = pc[n] /\ entry'[n] = entry[n] /\ todo'[n] = todo[n]
      /\ \/ pc[m] = "delete" /\ queue' = [queue EXCEPT ![entry[m]] = NoPost] /\ disturbed' = disturbed
         \/ queue' = queue /\ disturbed' = disturbed \cup {entry[m]}
      /\ queue \in [HeldIds -> Posts \cup {NoPost}]
  BY DEF Delete, Abort, Stop, Shape, TypeOK, Busy, Runners, mailVars, dbVars, history
<1>2. /\ \A i \in HeldIds \ {entry[m]} : queue'[i] = queue[i]
      /\ queue'[entry[m]] \in {NoPost, queue[entry[m]]}
  BY <1>1
<1>3. OneName'
  BY <1>1, <1>2 DEF OneName, Unposted
<1>4. Kept'
  BY <1>1, <1>2 DEF Kept, HeldLeavesSettled
<1>5. ASSUME NEW i \in HeldIds, i \notin disturbed'
      PROVE  Orderly(i)'
  <2>1. Orderly(i)
    BY <1>1, <1>5 DEF OneApproval
  <2>2. entry'[m] # i
    BY <1>1 DEF HeldIds
  <2>3. CASE i = entry[m]
    <3>1. queue'[i] = NoPost
      BY <1>1, <1>5, <2>3
    <3>2. QED
      BY <1>1, <2>1, <2>2, <3>1 DEF Orderly, Unposted
  <2>4. CASE i # entry[m]
    BY <1>1, <1>2, <2>1, <2>2, <2>4 DEF Orderly, Unposted
  <2>5. QED
    BY <2>3, <2>4
<1>6. QED
  BY <1>3, <1>4, <1>5 DEF OneApproval

LEMMA OrderedStep == Shape /\ Ordered /\ [Next]_vars => Ordered'
<1> SUFFICES ASSUME Shape, Ordered, [Next]_vars PROVE Ordered'
  OBVIOUS
<1>1. ASSUME NEW w \in Workers, NEW p \in Posts, Submit(w, p)
      PROVE  Ordered'
  BY <1>1, ElsewhereStep, ElsewhereOrdered
<1>2. ASSUME NEW p \in Posts, GiveUp(p)
      PROVE  Ordered'
  <2>1. Elsewhere
    BY <1>2 DEF GiveUp, Elsewhere, dbVars, mailVars, history, runVars
  <2>2. QED
    BY <2>1, ElsewhereOrdered
<1>3. ASSUME NEW w \in Workers, WorkerStep(w) \/ Fail(w) \/ LoseConnection(w)
      PROVE  Ordered'
  <2>1. CASE Hold(w)
    BY <2>1, HoldOrdered
  <2>2. CASE ~Hold(w)
    <3>1. Elsewhere
      BY <1>3, <2>2, ElsewhereStep DEF WorkerStep
    <3>2. QED
      BY <3>1, ElsewhereOrdered
  <2>3. QED
    BY <2>1, <2>2
<1>4. CASE Crash \/ UNCHANGED vars
  BY <1>4, CrashElsewhere, ElsewhereOrdered
<1>5. ASSUME NEW m \in Moderators, NEW i \in HeldIds, Approve(m, i) \/ Reject(m, i)
      PROVE  Ordered'
  BY <1>5, ApproveOrdered, RejectOrdered
<1>6. ASSUME NEW m \in Moderators, CommandStep(m) \/ Abort(m)
      PROVE  Ordered'
  BY <1>6, GoOnOrdered, PassOrdered, ReholdOrdered, StopOrdered DEF CommandStep
<1>7. QED
  BY <1>1, <1>2, <1>3, <1>4, <1>5, <1>6 DEF Next

LEMMA AlwaysOrdered == Spec => [](Shape /\ Ordered)
BY ShapeInit, ShapeStep, OrderedInit, OrderedStep, PTL DEF Spec

-----------------------------------------------------------------------------
(* A crash or error in the middle of moderate approve never loses a held   *)
(* message: its row goes only by a reject command or after a disposition.  *)
THEOREM NoHeldMessageLost == Spec => []HeldLeavesSettled
<1>1. Ordered => HeldLeavesSettled
  BY DEF Ordered, Kept
<1>2. QED
  BY AlwaysOrdered, <1>1, PTL

(* Whatever is approved, a subscriber gets a held message twice only when   *)
(* approvals of it overlapped or one of them ended early.                   *)
THEOREM UndisturbedOnce == Spec => []DuplicatesNeedDisturbance
<1>1. Shape /\ Ordered => DuplicatesNeedDisturbance
  <2> SUFFICES ASSUME Shape, Ordered, NEW i \in HeldIds, NEW r \in Members, i \notin disturbed
               PROVE  ~(heldCopies[i][r] > 1)
    BY DEF DuplicatesNeedDisturbance
  <2>1. heldCopies[i][r] \in Nat /\ heldCopies[i][r] <= 1
    BY DEF Ordered, OneApproval, Orderly, Shape, TypeOK
  <2>2. QED
    BY <2>1
<1>2. QED
  BY AlwaysOrdered, <1>1, PTL

(* Only an enqueue gives ids out, and it gives one that nothing had. *)
LEMMA NamesStep ==
    ASSUME Shape, OneName, [Next]_vars,
           NEW i \in HeldIds, issued[i] # NoPost
    PROVE  queue'[i] \in {queue[i], NoPost} /\ issued'[i] = issued[i]
<1> DEFINE Fixed == queue'[i] \in {queue[i], NoPost} /\ issued'[i] = issued[i]
<1> USE DEF mtaVars, dbVars, mailVars, history, runVars
<1>1. ASSUME NEW p \in Posts, Enqueue(p)
      PROVE  Fixed
  BY <1>1, EnqueueFacts
<1>2. CASE UNCHANGED <<queue, issued>>
  BY <1>2
<1>3. ASSUME NEW w \in Workers, WorkerStep(w) \/ Fail(w) \/ LoseConnection(w)
      PROVE  Fixed
  <2>1. CASE Hold(w)
    BY <1>1, <2>1 DEF Hold, Shape, Busy, Runners
  <2>2. CASE ~Hold(w)
    BY <1>3, <2>2, ElsewhereStep DEF WorkerStep, Elsewhere
  <2>3. QED
    BY <2>1, <2>2
<1>4. ASSUME NEW w \in Workers, NEW p \in Posts, Submit(w, p)
      PROVE  Fixed
  BY <1>4 DEF Submit
<1>5. ASSUME NEW p \in Posts, GiveUp(p)
      PROVE  Fixed
  BY <1>5 DEF GiveUp
<1>6. CASE Crash \/ UNCHANGED vars
  BY <1>6, CrashElsewhere DEF Elsewhere
<1>7. ASSUME NEW m \in Moderators, NEW j \in HeldIds, Approve(m, j) \/ Reject(m, j)
      PROVE  Fixed
  BY <1>7 DEF Approve, Reject, Shape, TypeOK
<1>8. ASSUME NEW m \in Moderators, CommandStep(m) \/ Abort(m)
      PROVE  Fixed
  <2>1. CASE Rehold(m)
    BY <1>1, <2>1 DEF Rehold, Shape, Busy, Runners
  <2>2. CASE Delete(m)
    BY <2>2 DEF Delete, Shape, TypeOK
  <2>3. CASE ReevaluateAfter(m) \/ FinishHeldSending(m) \/ Abort(m)
    BY <2>3 DEF ReevaluateAfter, FinishHeldSending, Abort, Distribute, Goto, Settle
  <2>4. ASSUME NEW r \in Members, SendHeld(m, r) \/ Refuse(m, r)
        PROVE  Fixed
    BY <2>4 DEF SendHeld, Refuse, Pass
  <2>5. QED
    BY <1>8, <2>1, <2>2, <2>3, <2>4 DEF CommandStep
<1>9. QED
  BY <1>3, <1>4, <1>5, <1>6, <1>7, <1>8 DEF Next

(* An id a moderator has seen never comes to name another message. *)
THEOREM IdsNameOneMessage == Spec => IdsNeverReused
<1>1. Shape /\ Ordered /\ [Next]_vars =>
        [\A i \in HeldIds :
           issued[i] # NoPost => queue'[i] \in {queue[i], NoPost} /\ issued'[i] = issued[i]]_vars
  BY NamesStep DEF Ordered
<1>2. QED
  BY AlwaysOrdered, <1>1, PTL DEF Spec, IdsNeverReused

-----------------------------------------------------------------------------
(* An identified post that was given an id is recorded, was sent to nobody   *)
(* by its intake, and no task is working on it any more.                     *)
HeldApart ==
    \A i \in HeldIds :
        issued[i] # NoPost /\ Identified(issued[i]) =>
            /\ issued[i] \in seen
            /\ Unsent(issued[i])
            /\ \A w \in Workers : Processing(w) => post[w] # issued[i]

(* What an approve command works on was held. *)
Approved == \A m \in Moderators : pc[m] # "idle" => issued[entry[m]] = post[m]

LEMMA ApartInit == Init => HeldApart /\ Approved
BY DEF Init, HeldApart, Approved, Runners

LEMMA ApprovedStep ==
    ASSUME Shape, Ordered, Approved, [Next]_vars
    PROVE  Approved'
<1> USE DEF mtaVars, dbVars, mailVars, history, runVars
<1>1. \A i \in HeldIds : issued[i] # NoPost => issued'[i] = issued[i]
  BY NamesStep DEF Ordered
<1>2. \A m \in Moderators : pc[m] # "idle" => entry[m] \in HeldIds /\ issued[entry[m]] # NoPost
  BY DEF Ordered, OneName, Shape, Busy
<1>3. ASSUME NEW m \in Moderators, NEW i \in HeldIds, Approve(m, i)
      PROVE  Approved'
  <2>1. issued[i] = queue[i] /\ issued' = issued
    BY <1>3 DEF Approve, Ordered, OneName
  <2>2. /\ m \in Runners /\ pc'[m] = "after" /\ entry'[m] = i /\ post'[m] = queue[i]
        /\ \A n \in Moderators \ {m} : pc'[n] = pc[n] /\ entry'[n] = entry[n] /\ post'[n] = post[n]
    BY <1>3 DEF Approve, Shape, TypeOK, Runners
  <2>3. QED
    BY <2>1, <2>2 DEF Approved
<1>4. ASSUME \A m \in Moderators :
               pc'[m] # "idle" => pc[m] # "idle" /\ entry'[m] = entry[m] /\ post'[m] = post[m]
      PROVE  Approved'
  BY <1>1, <1>2, <1>4 DEF Approved
<1>5. ASSUME Elsewhere
      PROVE  Approved'
  BY <1>4, <1>5 DEF Elsewhere
<1>6. ASSUME NEW w \in Workers, Hold(w)
      PROVE  Approved'
  <2>1. \A m \in Moderators : pc'[m] = pc[m] /\ entry'[m] = entry[m] /\ post'[m] = post[m]
    BY <1>6, ActorsAssumption DEF Hold, Answer, Shape, TypeOK, Runners
  <2>2. QED
    BY <1>4, <2>1
<1>7. ASSUME NEW m \in Moderators, NEW i \in HeldIds, Reject(m, i)
      PROVE  Approved'
  BY <1>4, <1>7 DEF Reject
<1>8. ASSUME NEW m \in Moderators, CommandStep(m) \/ Abort(m)
      PROVE  Approved'
  <2>1. pc[m] # "idle"
    BY <1>8 DEF CommandStep, Abort, ReevaluateAfter, SendHeld, Refuse, Pass, FinishHeldSending,
                Rehold, Delete
  <2>2. CASE ReevaluateAfter(m) \/ FinishHeldSending(m) \/ Rehold(m)
    BY <1>4, <2>1, <2>2
       DEF ReevaluateAfter, FinishHeldSending, Rehold, Distribute, Goto, Settle, Shape, TypeOK, Runners
  <2>3. CASE Delete(m) \/ Abort(m)
    BY <1>4, <2>1, <2>3 DEF Delete, Abort, Stop, Runners
  <2>4. ASSUME NEW r \in Members, SendHeld(m, r) \/ Refuse(m, r)
        PROVE  Approved'
    BY <1>4, <2>4 DEF SendHeld, Refuse, Pass
  <2>5. QED
    BY <1>8, <2>2, <2>3, <2>4 DEF CommandStep
<1>9. ASSUME NEW p \in Posts, GiveUp(p)
      PROVE  Approved'
  BY <1>4, <1>9 DEF GiveUp
<1>10. QED
  BY <1>3, <1>5, <1>6, <1>7, <1>8, <1>9, ElsewhereStep, CrashElsewhere DEF Next, WorkerStep

LEMMA ApartStep ==
    ASSUME Shape, Shape', OnePass, Ordered, Approved, HeldApart, [Next]_vars
    PROVE  HeldApart'
<1> USE DEF mtaVars, dbVars, mailVars, history, runVars
<1>1. \A i \in HeldIds : issued'[i] = NoPost \/ issued'[i] \in Posts
  BY DEF Shape, TypeOK
<1>2. ASSUME NEW w \in Workers, Record(w)
      PROVE  HeldApart'
  <2>1. /\ post[w] \in Posts /\ w \in Runners
        /\ pc' = [pc EXCEPT ![w] = "before"] /\ pc \in [Runners -> Label]
        /\ UNCHANGED <<post, copies, issued>>
        /\ seen \subseteq seen'
        /\ Identified(post[w]) => post[w] \notin seen
        /\ Workers \subseteq Runners
    BY <1>2 DEF Record, Goto, Shape, TypeOK, Busy, Runners, SeenBefore
  <2>2. \A v \in Workers \ {w} : pc'[v] = pc[v]
    BY <2>1
  <2>3. QED
    BY <2>1, <2>2 DEF HeldApart, Unsent, Processing, Identified
<1>3. ASSUME NEW w \in Workers, NEW r \in Members, Send(w, r)
      PROVE  HeldApart'
  <2>1. /\ post[w] \in Posts /\ pc[w] = "send"
        /\ copies' = [copies EXCEPT ![post[w]][r] = @ + 1]
        /\ UNCHANGED <<pc, post, seen, issued>>
        /\ copies \in [Posts -> [Members -> Nat]]
    BY <1>3 DEF Send, Pass, Shape, TypeOK, Busy, Runners
  <2>2. \A p \in Posts \ {post[w]} : copies'[p] = copies[p]
    BY <2>1
  <2>3. QED
    BY <1>1, <2>1, <2>2 DEF HeldApart, Unsent, Processing, Identified
<1>4. CASE ~ \E w \in Workers : Record(w) \/ \E r \in Members : Send(w, r)
  <2>1. Quiet
    BY <1>4, QuietStep
  <2>2. \A w \in Workers : Processing(w)' => Processing(w) /\ post'[w] = post[w]
    BY <2>1 DEF Quiet, Onward
  <2>3. ASSUME NEW i \in HeldIds, issued'[i] = issued[i],
               issued'[i] # NoPost, Identified(issued'[i])
        PROVE  /\ issued'[i] \in seen'
               /\ Unsent(issued[i])'
               /\ \A w \in Workers : Processing(w)' => post'[w] # issued'[i]
    BY <2>1, <2>2, <2>3 DEF HeldApart, Unsent, Quiet
  <2>4. CASE issued' = issued
    BY <2>3, <2>4 DEF HeldApart
  <2>5. ASSUME NEW w \in Workers, Hold(w)
        PROVE  HeldApart'
    <3>1. /\ Enqueue(post[w]) /\ post[w] \in Posts /\ pc[w] = "hold"
          /\ pc'[w] = "reply" /\ Processing(w)
      BY <2>5 DEF Hold, Answer, Shape, TypeOK, Busy, Runners, Processing
    <3>2. /\ issued'[nextId] = post[w] /\ nextId \in HeldIds
          /\ \A i \in HeldIds \ {nextId} : issued'[i] = issued[i]
      BY <3>1, EnqueueFacts DEF Ordered
    <3>3. Identified(post[w]) =>
            /\ post[w] \in seen'
            /\ Unsent(post[w])
            /\ \A v \in Workers : Processing(v)' => post'[v] # post[w]
      BY <2>1, <2>2, <3>1 DEF OnePass, Early, Quiet, Processing, Identified
    <3>4. copies' = copies
      BY <2>1 DEF Quiet
    <3>5. QED
      BY <2>3, <3>2, <3>3, <3>4 DEF HeldApart, Unsent
  <2>6. ASSUME NEW m \in Moderators, Rehold(m)
        PROVE  HeldApart'
    <3>1. /\ Enqueue(post[m]) /\ post[m] \in Posts /\ entry[m] \in HeldIds
          /\ issued[entry[m]] = post[m]
      BY <2>6 DEF Rehold, Shape, Busy, Approved, Runners
    <3>2. /\ issued'[nextId] = post[m] /\ nextId \in HeldIds /\ issued[nextId] = NoPost
          /\ \A i \in HeldIds \ {nextId} : issued'[i] = issued[i]
          /\ post[m] # NoPost
      BY <3>1, EnqueueFacts DEF Ordered
    <3>3. issued'[entry[m]] = issued[entry[m]]
      BY <3>1, <3>2
    <3>4. Identified(post[m]) =>
            /\ post[m] \in seen'
            /\ \A r \in Members : copies'[post[m]][r] = 0
            /\ \A v \in Workers : Processing(v)' => post'[v] # post[m]
      <4>1. issued'[entry[m]] = post[m]
        BY <3>1, <3>3
      <4>2. QED
        BY <2>3, <3>1, <3>2, <3>3, <4>1 DEF Unsent
    <3>5. ASSUME NEW i \in HeldIds, issued'[i] # NoPost, Identified(issued'[i])
          PROVE  /\ issued'[i] \in seen'
                 /\ \A r \in Members : copies'[issued'[i]][r] = 0
                 /\ \A v \in Workers : Processing(v)' => post'[v] # issued'[i]
      <4>1. CASE i = nextId
        BY <3>2, <3>4, <3>5, <4>1
      <4>2. CASE i # nextId
        <5>1. issued'[i] = issued[i]
          BY <3>2, <4>2
        <5>2. QED
          BY <2>3, <3>5, <5>1 DEF Unsent
      <4>3. QED
        BY <4>1, <4>2
    <3>6. QED
      BY <3>5 DEF HeldApart, Unsent, Identified
  <2>7. \/ issued' = issued
        \/ \E w \in Workers : Hold(w)
        \/ \E m \in Moderators : Rehold(m)
    <3>1. ASSUME NEW m \in Moderators, CommandStep(m) \/ Abort(m)
          PROVE  issued' = issued \/ Rehold(m)
      BY <3>1 DEF CommandStep, ReevaluateAfter, SendHeld, Refuse, Pass, FinishHeldSending,
                  Delete, Abort, Distribute, Goto, Settle
    <3>2. ASSUME NEW w \in Workers, WorkerStep(w) \/ Fail(w) \/ LoseConnection(w)
          PROVE  issued' = issued \/ Hold(w)
      BY <3>2, ElsewhereStep DEF WorkerStep, Elsewhere
    <3>3. ASSUME NEW w \in Workers, NEW p \in Posts, Submit(w, p)
          PROVE  issued' = issued
      BY <3>3 DEF Submit
    <3>4. ASSUME NEW p \in Posts, GiveUp(p)
          PROVE  issued' = issued
      BY <3>4 DEF GiveUp
    <3>5. ASSUME NEW m \in Moderators, NEW i \in HeldIds, Approve(m, i) \/ Reject(m, i)
          PROVE  issued' = issued
      BY <3>5 DEF Approve, Reject
    <3>6. QED
      BY <3>1, <3>2, <3>3, <3>4, <3>5, CrashElsewhere DEF Next, Elsewhere
  <2>8. QED
    BY <2>4, <2>5, <2>6, <2>7
<1>5. QED
  BY <1>2, <1>3, <1>4

(* An identified post is either distributed by its intake or handed to the   *)
(* moderators, never both, whatever attempts overlap and whatever fails.     *)
THEOREM NeverBothWays == Spec => []DirectXorHeld
<1> DEFINE Inv == Shape /\ OnePass /\ Ordered /\ Approved /\ HeldApart
<1>1. Init => Inv
  BY ShapeInit, OnePassInit, OrderedInit, ApartInit
<1>2. Inv /\ [Next]_vars => Inv'
  <2> SUFFICES ASSUME Inv, [Next]_vars PROVE Inv'
    OBVIOUS
  <2>1. Shape' /\ OnePass' /\ Ordered'
    BY ShapeStep, OnePassStep, OrderedStep
  <2>2. QED
    BY <2>1, ApprovedStep, ApartStep
<1>3. Inv => DirectXorHeld
  <2> SUFFICES ASSUME Inv, NEW p \in Posts, Identified(p), NEW i \in HeldIds, issued[i] = p
               PROVE  copies[p] = NoCopies
    BY DEF DirectXorHeld
  <2>1. Unsent(p)
    BY PostsAssumption DEF HeldApart
  <2>2. copies[p] \in [Members -> Nat]
    BY DEF Shape, TypeOK
  <2>3. QED
    BY <2>1, <2>2 DEF Unsent, NoCopies
<1>4. QED
  BY <1>1, <1>2, <1>3, PTL DEF Spec
=============================================================================
