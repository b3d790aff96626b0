-------------------------- MODULE MembershipProofs --------------------------
(***************************************************************************)
(* Proofs about Membership, for any lists, addresses and deliveries, any   *)
(* weights and any thresholds, 0 and changes over a restart included.      *)
(***************************************************************************)
EXTENDS Membership, FiniteSetTheorems, TLAPS

USE MembershipAssumption
USE DEF settings

(* The weight of a DSN of any class is a natural number (handle_bounce).     *)
LEMMA WeightNat == ASSUME NEW class \in Classes PROVE Weight(class) \in Nat
BY DEF Classes, Weight

(* A row stays a row when its flags, its score or both change.               *)
LEMMA RowShape ==
    /\ \A flags \in Flags : Row(flags, 0, FALSE) \in Rows
    /\ \A row \in Rows, flags \in Flags : [row EXCEPT !.flags = flags] \in Rows
    /\ \A row \in Rows : [row EXCEPT !.score = 0, !.disabled = FALSE] \in Rows
    /\ \A row \in Rows, weight \in Nat : Bounced(row, weight) \in Rows
<1>1. \A flags \in Flags : Row(flags, 0, FALSE) \in Rows
  BY DEF Row, Rows
<1>2. \A row \in Rows, flags \in Flags : [row EXCEPT !.flags = flags] \in Rows
  BY DEF Rows
<1>3. \A row \in Rows : [row EXCEPT !.score = 0, !.disabled = FALSE] \in Rows
  BY DEF Rows
<1>4. ASSUME NEW row \in Rows, NEW weight \in Nat PROVE Bounced(row, weight) \in Rows
  <2>1. (row.disabled \/ row.score + weight >= threshold) \in BOOLEAN
    OBVIOUS
  <2>2. row.score + weight \in Nat
    BY DEF Rows
  <2>3. Bounced(row, weight) = [row EXCEPT !.score = row.score + weight,
                                           !.disabled = row.disabled \/ row.score + weight >= threshold]
    BY DEF Bounced, Rows
  <2> HIDE DEF Bounced
  <2> QED BY <2>1, <2>2, <2>3 DEF Rows
<1> QED BY <1>1, <1>2, <1>3, <1>4

(* A row is marked as one.                                                   *)
LEMMA Present ==
    ASSUME TypeOK, NEW l \in Lists, NEW a \in Addresses
    PROVE  /\ members[l][a] \in Rows \cup {NoRow}
           /\ members[l][a].present <=> members[l][a] \in Rows
<1>1. members[l][a] \in Rows \cup {NoRow}
  BY DEF TypeOK
<1>2. CASE members[l][a] \in Rows
  <2>1. members[l][a].present = TRUE
    BY <1>2 DEF Rows
  <2> QED BY <1>2, <2>1
<1>3. CASE members[l][a] = NoRow
  <2>1. members[l][a].present = FALSE
    BY <1>3 DEF NoRow
  <2>2. members[l][a] \notin Rows
    <3>1. \A row \in Rows : row.present = TRUE
      BY DEF Rows
    <3> QED BY <2>1, <3>1
  <2> QED BY <1>3, <2>1, <2>2
<1> QED BY <1>1, <1>2, <1>3

(* A delivery or a sync that runs has a list and something left to do.       *)
LEMMA JobShape ==
    ASSUME NEW job \in Jobs, job.running
    PROVE  job \in [running : {TRUE}, list : Lists, todo : SUBSET Addresses]
<1>1. Idle.running = FALSE
  BY DEF Idle
<1>2. job # Idle
  BY <1>1
<1> QED BY <1>2 DEF Jobs

Table == [Lists -> [Addresses -> Rows \cup {NoRow}]]

(* What the statements of the store do to the table (store.rs).              *)
LEMMA TableShape ==
    ASSUME TypeOK, NEW l \in Lists, NEW a \in Addresses
    PROVE  /\ \A row \in Rows \cup {NoRow} : [members EXCEPT ![l][a] = row] \in Table
           /\ \A flags \in Flags : Upsert(l, a, flags) => members' \in Table
           /\ \A weight \in Nat : RecordBounce(l, a, weight) => members' \in Table
           /\ Enable(l, a) => members' \in Table
<1>1. members \in Table
  BY DEF TypeOK, Table
<1>2. ASSUME NEW row \in Rows \cup {NoRow} PROVE [members EXCEPT ![l][a] = row] \in Table
  BY <1>1 DEF Table
<1>3. ASSUME NEW flags \in Flags, Upsert(l, a, flags) PROVE members' \in Table
  <2> DEFINE row == IF members[l][a].present THEN [members[l][a] EXCEPT !.flags = flags]
                    ELSE Row(flags, 0, FALSE)
  <2>1. row \in Rows
    BY RowShape, Present
  <2>2. members' = [members EXCEPT ![l][a] = row]
    BY <1>1, <1>3 DEF Upsert, Table
  <2> QED BY <1>2, <2>1, <2>2
<1>4. ASSUME NEW weight \in Nat, RecordBounce(l, a, weight) PROVE members' \in Table
  <2>1. CASE members[l][a].present
    <3>1. Bounced(members[l][a], weight) \in Rows
      BY <2>1, RowShape, Present
    <3>2. members' = [members EXCEPT ![l][a] = Bounced(members[l][a], weight)]
      BY <1>1, <1>4, <2>1 DEF RecordBounce, Table
    <3> QED BY <1>2, <3>1, <3>2
  <2>2. CASE ~members[l][a].present
    BY <1>1, <1>4, <2>2 DEF RecordBounce
  <2> QED BY <2>1, <2>2
<1>5. ASSUME Enable(l, a) PROVE members' \in Table
  <2>1. [members[l][a] EXCEPT !.score = 0, !.disabled = FALSE] \in Rows
    BY <1>5, RowShape, Present DEF Enable
  <2>2. members' = [members EXCEPT ![l][a] = [members[l][a] EXCEPT !.score = 0, !.disabled = FALSE]]
    BY <1>1, <1>5 DEF Enable, Table
  <2> QED BY <1>2, <2>1, <2>2
<1> QED BY <1>2, <1>3, <1>4, <1>5

(* Every variable of Membership keeps its shape.                             *)
THEOREM MembershipTypeCorrect == Spec => []TypeOK
<1>1. Init => TypeOK
  BY DEF Init, TypeOK, Jobs, Idle
<1>2. TypeOK /\ [Next]_vars => TypeOK'
  <2> SUFFICES ASSUME TypeOK, [Next]_vars PROVE TypeOK'
    OBVIOUS
  <2>1. ASSUME NEW d \in Deliveries, NEW l \in Lists, Start(d, l) PROVE TypeOK'
    <3>1. Subscribers(l) \subseteq Addresses
      BY DEF Subscribers
    <3>2. [running |-> TRUE, list |-> l, todo |-> Subscribers(l)] \in Jobs
      BY <3>1 DEF Jobs
    <3>3. delivery' \in [Deliveries -> Jobs]
      BY <2>1, <3>2 DEF Start, TypeOK
    <3> QED BY <2>1, <3>3 DEF Start, TypeOK
  <2>2. ASSUME NEW d \in Deliveries, NEW a \in Addresses, Send(d, a) PROVE TypeOK'
    <3>1. delivery[d] \in [running : {TRUE}, list : Lists, todo : SUBSET Addresses]
      BY <2>2, JobShape DEF Send, TypeOK
    <3> DEFINE l == delivery[d].list
    <3>2. l \in Lists /\ delivery' = [delivery EXCEPT ![d].todo = @ \ {a}]
      BY <2>2, <3>1 DEF Send
    <3>3. delivery' \in [Deliveries -> Jobs]
      <4>1. [delivery[d] EXCEPT !.todo = @ \ {a}] \in Jobs
        BY <3>1 DEF Jobs
      <4>2. delivery' = [delivery EXCEPT ![d] = [delivery[d] EXCEPT !.todo = @ \ {a}]]
        BY <3>2 DEF TypeOK
      <4> QED BY <4>1, <4>2 DEF TypeOK
    <3>4. grace' \in [Lists -> [Addresses -> Int]]
      <4>1. grace' = grace \/ grace' = [grace EXCEPT ![l][a] = @ - 1]
        BY <2>2, <3>2 DEF Send
      <4>2. grace \in [Lists -> [Addresses -> Int]]
        BY DEF TypeOK
      <4> QED BY <3>2, <4>1, <4>2
    <3>5. owed' \in [Lists -> [Addresses -> Nat]] /\ dsns' \in [Lists -> [Addresses -> [Classes -> Nat]]]
      <4>1. CASE UNCHANGED <<dsns, owed>>
        BY <4>1 DEF TypeOK
      <4>2. CASE \E class \in Classes :
                   /\ dsns' = [dsns EXCEPT ![l][a][class] = @ + 1]
                   /\ owed' = [owed EXCEPT ![l][a] = @ + Weight(class)]
        BY <3>2, <4>2, WeightNat DEF TypeOK
      <4> QED BY <2>2, <4>1, <4>2 DEF Send
    <3> QED BY <2>2, <3>3, <3>4, <3>5 DEF Send, TypeOK
  <2>3. ASSUME NEW d \in Deliveries, Leave(d) PROVE TypeOK'
    BY <2>3 DEF Leave, TypeOK, Jobs
  <2>4. ASSUME NEW l \in Lists, NEW a \in Addresses, NEW class \in Classes, HandleBounce(l, a, class)
        PROVE TypeOK'
    <3>1. members' \in Table /\ grace' \in [Lists -> [Addresses -> Int]]
      <4>1. CASE UNCHANGED <<members, grace>>
        BY <4>1 DEF TypeOK, Table
      <4>2. CASE RecordBounce(l, a, Weight(class))
        <5>1. members' \in Table
          BY <4>2, WeightNat, TableShape
        <5>2. Cardinality(Holding(l, a)) \in Nat
          BY FS_Subset, FS_CardinalityType DEF Holding
        <5>3. \/ UNCHANGED grace
              \/ grace' = [grace EXCEPT ![l][a] = Cardinality(Holding(l, a))]
          BY <4>2 DEF RecordBounce
        <5> DEFINE held == Cardinality(Holding(l, a))
        <5>4. held \in Int
          BY <5>2
        <5>5. \/ UNCHANGED grace
              \/ grace' = [grace EXCEPT ![l][a] = held]
          BY <5>3
        <5>6. \A n \in Int : [grace EXCEPT ![l][a] = n] \in [Lists -> [Addresses -> Int]]
          BY DEF TypeOK
        <5>7. grace \in [Lists -> [Addresses -> Int]]
          BY DEF TypeOK
        <5>8. grace' \in [Lists -> [Addresses -> Int]]
          <6> HIDE DEF held
          <6>1. CASE UNCHANGED grace
            BY <5>7, <6>1
          <6>2. CASE grace' = [grace EXCEPT ![l][a] = held]
            BY <5>4, <5>6, <6>2
          <6> QED BY <5>5, <6>1, <6>2
        <5> QED BY <5>1, <5>8
      <4> QED BY <2>4, <4>1, <4>2 DEF HandleBounce
    <3>2. /\ dsns' \in [Lists -> [Addresses -> [Classes -> Nat]]]
          /\ owed' \in [Lists -> [Addresses -> Nat]] /\ repeats' \in 0..MaxRepeats
      <4>1. CASE dsns' = [dsns EXCEPT ![l][a][class] = @ - 1] /\ UNCHANGED <<repeats, owed>>
        <5>1. dsns[l][a][class] - 1 \in Nat
          BY <2>4 DEF HandleBounce, TypeOK
        <5> QED BY <4>1, <5>1 DEF TypeOK
      <4>2. CASE /\ repeats < MaxRepeats
                 /\ repeats' = repeats + 1
                 /\ owed' = [owed EXCEPT ![l][a] = @ + Weight(class)]
                 /\ UNCHANGED dsns
        BY <4>2, WeightNat DEF TypeOK
      <4> QED BY <2>4, <4>1, <4>2 DEF HandleBounce
    <3> QED BY <2>4, <3>1, <3>2 DEF HandleBounce, TypeOK, Table
  <2>5. ASSUME NEW l \in Lists, NEW a \in Addresses, NEW flags \in Roles, Add(l, a, flags) PROVE TypeOK'
    <3>1. members' \in Table
      BY <2>5, TableShape DEF Add
    <3> QED BY <2>5, <3>1 DEF Add, TypeOK, Table
  <2>6. ASSUME NEW l \in Lists, NEW a \in Addresses, Remove(l, a) PROVE TypeOK'
    <3>1. members' \in Table
      BY <2>6, TableShape DEF Remove
    <3> QED BY <2>6, <3>1 DEF Remove, TypeOK, Table
  <2>7. ASSUME NEW l \in Lists, NEW a \in Addresses, Enable(l, a) PROVE TypeOK'
    <3>1. members' \in Table
      BY <2>7, TableShape
    <3> QED BY <2>7, <3>1 DEF Enable, TypeOK, Table
  <2>8. ASSUME NEW l \in Lists, SyncStart(l) PROVE TypeOK'
    BY <2>8 DEF SyncStart, TypeOK, Jobs
  <2>9. ASSUME NEW a \in Addresses, SyncLine(a) PROVE TypeOK'
    <3>1. sync \in [running : {TRUE}, list : Lists, todo : SUBSET Addresses]
      BY <2>9, JobShape DEF SyncLine, TypeOK
    <3>2. [subscribed |-> TRUE, poster |-> FALSE, moderator |-> FALSE] \in Flags
      BY DEF Flags
    <3>3. members' \in Table
      BY <2>9, <3>1, <3>2, TableShape DEF SyncLine
    <3> QED BY <2>9, <3>1, <3>3 DEF SyncLine, TypeOK, Table, Jobs
  <2>10. CASE SyncEnd
    BY <2>10 DEF SyncEnd, TypeOK, Jobs
  <2>11. ASSUME NEW t \in Thresholds, Restart(t) PROVE TypeOK'
    <3>1. delivery' \in [Deliveries -> Jobs]
      BY <2>11 DEF Restart, TypeOK, Jobs
    <3>2. threshold' \in used' /\ used' \subseteq Thresholds
      BY <2>11 DEF Restart, TypeOK
    <3> QED BY <2>11, <3>1, <3>2 DEF Restart, TypeOK
  <2>12. CASE UNCHANGED vars
    BY <2>12 DEF vars, TypeOK
  <2> QED BY <2>1, <2>2, <2>3, <2>4, <2>5, <2>6, <2>7, <2>8, <2>9, <2>10, <2>11, <2>12 DEF Next
<1> QED BY <1>1, <1>2, PTL DEF Spec

-----------------------------------------------------------------------------
(* What a step can do to one row: nothing, lose it, set its roles, enable    *)
(* it, or count one bounce.                                                  *)
Roled(l, a) ==
    \E flags \in Flags :
        members'[l][a] = IF members[l][a].present THEN [members[l][a] EXCEPT !.flags = flags]
                         ELSE Row(flags, 0, FALSE)

Counted(l, a) ==
    /\ members[l][a].present
    /\ \E weight \in Nat : members'[l][a] = Bounced(members[l][a], weight)

Bouncing ==
    \E l \in Lists, a \in Addresses, class \in Classes : HandleBounce(l, a, class)

RowStep(l, a) ==
    \/ members'[l][a] = members[l][a]
    \/ members'[l][a] = NoRow
    \/ Roled(l, a)
    \/ Enable(l, a)
    \/ Counted(l, a) /\ Bouncing

LEMMA StepOfRow ==
    ASSUME TypeOK, [Next]_vars, NEW l \in Lists, NEW a \in Addresses
    PROVE  RowStep(l, a)
<1>0. members \in Table
  BY DEF TypeOK, Table
<1>1. ASSUME NEW k \in Lists, NEW b \in Addresses, NEW flags \in Flags, Upsert(k, b, flags)
      PROVE RowStep(l, a)
  <2>1. CASE k = l /\ b = a
    BY <1>0, <1>1, <2>1 DEF Upsert, RowStep, Roled, Table
  <2>2. CASE ~(k = l /\ b = a)
    BY <1>0, <1>1, <2>2 DEF Upsert, RowStep, Table
  <2> QED BY <2>1, <2>2
<1>2. ASSUME NEW k \in Lists, NEW b \in Addresses, NEW class \in Classes, HandleBounce(k, b, class)
      PROVE RowStep(l, a)
  <2>1. CASE UNCHANGED members
    BY <2>1 DEF RowStep
  <2>2. CASE /\ members[k][b].present
             /\ members' = [members EXCEPT ![k][b] = Bounced(@, Weight(class))]
    <3>1. CASE k = l /\ b = a
      <4>1. members'[l][a] = Bounced(members[l][a], Weight(class))
        BY <1>0, <2>2, <3>1 DEF Table
      <4>2. Counted(l, a)
        BY <2>2, <3>1, <4>1, WeightNat DEF Counted
      <4>3. Bouncing
        BY <1>2 DEF Bouncing
      <4> QED BY <4>2, <4>3 DEF RowStep
    <3>2. CASE ~(k = l /\ b = a)
      BY <1>0, <2>2, <3>2 DEF RowStep, Table
    <3> QED BY <3>1, <3>2
  <2> QED BY <1>2, <2>1, <2>2 DEF HandleBounce, RecordBounce
<1>3. ASSUME NEW k \in Lists, NEW b \in Addresses, Remove(k, b) PROVE RowStep(l, a)
  BY <1>0, <1>3 DEF Remove, RowStep, Table
<1>4. ASSUME NEW k \in Lists, NEW b \in Addresses, Enable(k, b) PROVE RowStep(l, a)
  <2>1. CASE k = l /\ b = a
    BY <1>4, <2>1 DEF RowStep
  <2>2. CASE ~(k = l /\ b = a)
    BY <1>0, <1>4, <2>2 DEF Enable, RowStep, Table
  <2> QED BY <2>1, <2>2
<1>5. ASSUME NEW b \in Addresses, SyncLine(b) PROVE RowStep(l, a)
  <2>1. sync.list \in Lists
    BY <1>5, JobShape DEF SyncLine, TypeOK
  <2>2. [subscribed |-> TRUE, poster |-> FALSE, moderator |-> FALSE] \in Flags
    BY DEF Flags
  <2> QED BY <1>1, <1>5, <2>1, <2>2 DEF SyncLine
<1>6. ASSUME NEW k \in Lists, NEW b \in Addresses, NEW flags \in Roles, Add(k, b, flags)
      PROVE RowStep(l, a)
  BY <1>1, <1>6 DEF Add
<1>7. CASE UNCHANGED members
  BY <1>7 DEF RowStep
<1> QED BY <1>2, <1>3, <1>4, <1>5, <1>6, <1>7
        DEF Next, vars, Start, Send, Leave, SyncStart, SyncEnd, Restart

(* A threshold the daemon once ran with stays among those it ran with.       *)
LEMMA ThresholdsGrow == ASSUME TypeOK, [Next]_vars PROVE used \subseteq used'
<1>1. ASSUME NEW t \in Thresholds, Restart(t) PROVE used \subseteq used'
  BY <1>1 DEF Restart
<1>2. CASE UNCHANGED used
  BY <1>2
<1> QED BY <1>1, <1>2 DEF Next, vars, Start, Send, Leave, HandleBounce, Add, Remove, Enable,
                          SyncStart, SyncLine, SyncEnd

(* DisabledIffThreshold: score and flag agree whatever bounces, commands,    *)
(* imports and restarts came in which order (record_bounce, enable_member,   *)
(* add_member).                                                              *)
THEOREM FlagAgreesWithScore == Spec => []DisabledIffThreshold
<1> DEFINE Agrees(row) == IF row.disabled THEN \E t \in used : row.score >= t
                          ELSE row.score = 0 \/ \E t \in used : row.score < t
<1>1. Init => DisabledIffThreshold
  BY DEF Init, DisabledIffThreshold, NoRow
<1>2. TypeOK /\ TypeOK' /\ DisabledIffThreshold /\ [Next]_vars => DisabledIffThreshold'
  <2> SUFFICES ASSUME TypeOK, TypeOK', DisabledIffThreshold, [Next]_vars,
                      NEW l \in Lists, NEW a \in Addresses, members'[l][a].present
               PROVE  Agrees(members[l][a])'
    BY DEF DisabledIffThreshold
  <2>0. used \subseteq used'
    BY ThresholdsGrow
  <2>1. members'[l][a] # NoRow
    BY DEF NoRow
  <2>2. ASSUME members[l][a].present,
               members'[l][a].disabled = members[l][a].disabled,
               members'[l][a].score = members[l][a].score
        PROVE  Agrees(members[l][a])'
    <3>1. Agrees(members[l][a])
      BY <2>2 DEF DisabledIffThreshold
    <3> QED BY <2>0, <2>2, <3>1
  <2>3. ASSUME members'[l][a].disabled = FALSE, members'[l][a].score = 0
        PROVE  Agrees(members[l][a])'
    BY <2>3
  <2>4. CASE members'[l][a] = members[l][a]
    BY <2>2, <2>4
  <2>5. CASE Roled(l, a)
    <3>1. PICK flags \in Flags :
            members'[l][a] = IF members[l][a].present THEN [members[l][a] EXCEPT !.flags = flags]
                             ELSE Row(flags, 0, FALSE)
      BY <2>5 DEF Roled
    <3>2. CASE members[l][a].present
      <4>1. members[l][a] \in Rows
        BY <3>2, Present
      <4>2. members'[l][a].disabled = members[l][a].disabled /\ members'[l][a].score = members[l][a].score
        BY <3>1, <3>2, <4>1 DEF Rows
      <4> QED BY <2>2, <3>2, <4>2
    <3>3. CASE ~members[l][a].present
      <4>1. members'[l][a].disabled = FALSE /\ members'[l][a].score = 0
        BY <3>1, <3>3 DEF Row
      <4> QED BY <2>3, <4>1
    <3> QED BY <3>2, <3>3
  <2>6. CASE Enable(l, a)
    <3>1. members[l][a] \in Rows
      BY <2>6, Present DEF Enable
    <3>2. members'[l][a].disabled = FALSE /\ members'[l][a].score = 0
      BY <2>6, <3>1 DEF Enable, TypeOK, Rows
    <3> QED BY <2>3, <3>2
  <2>7. CASE Counted(l, a)
    <3>1. PICK weight \in Nat : members'[l][a] = Bounced(members[l][a], weight)
      BY <2>7 DEF Counted
    <3>2. members[l][a] \in Rows
      BY <2>7, Present DEF Counted
    <3>3. /\ members'[l][a].score = members[l][a].score + weight
          /\ members'[l][a].disabled <=> members[l][a].disabled \/ members[l][a].score + weight >= threshold
      BY <3>1, <3>2 DEF Bounced, Rows
    <3>4. members[l][a].score \in Nat /\ used' \subseteq Nat /\ threshold \in used'
      BY <2>0, <3>2 DEF Rows, TypeOK
    <3>5. CASE members[l][a].disabled
      <4>1. PICK t \in used : members[l][a].score >= t
        BY <2>7, <3>5 DEF Counted, DisabledIffThreshold
      <4>2. t \in used' /\ members'[l][a].score >= t
        BY <2>0, <3>3, <3>4, <4>1
      <4> QED BY <3>3, <3>5, <4>2
    <3>6. CASE ~members[l][a].disabled
      BY <3>3, <3>4, <3>6
    <3> QED BY <3>5, <3>6
  <2> QED BY <2>1, <2>4, <2>5, <2>6, <2>7, StepOfRow DEF RowStep
<1> QED BY <1>1, <1>2, MembershipTypeCorrect, PTL DEF Spec

-----------------------------------------------------------------------------
(* A step that leaves a row disabled found it so, or handled a bounce; and   *)
(* a step that resumes delivery without losing the row enabled it.           *)
LEMMA WhoDisables ==
    ASSUME TypeOK, [Next]_vars, NEW l \in Lists, NEW a \in Addresses
    PROVE  /\ Disabled(l, a)' => Disabled(l, a) \/ Bouncing
           /\ Disabled(l, a) /\ members'[l][a].present /\ ~Disabled(l, a)' => Enable(l, a)
<1> USE DEF Disabled
<1>1. CASE members'[l][a] = members[l][a]
  BY <1>1
<1>2. CASE members'[l][a] = NoRow
  <2>1. members'[l][a].present = FALSE
    BY <1>2 DEF NoRow
  <2> QED BY <2>1
<1>3. CASE Roled(l, a)
  <2>1. PICK flags \in Flags :
          members'[l][a] = IF members[l][a].present THEN [members[l][a] EXCEPT !.flags = flags]
                           ELSE Row(flags, 0, FALSE)
    BY <1>3 DEF Roled
  <2>2. CASE members[l][a].present
    <3>1. members[l][a] \in Rows
      BY <2>2, Present
    <3>2. members'[l][a].disabled = members[l][a].disabled /\ members'[l][a].present = members[l][a].present
      BY <2>1, <2>2, <3>1 DEF Rows
    <3> QED BY <2>2, <3>2
  <2>3. CASE ~members[l][a].present
    <3>1. members'[l][a].disabled = FALSE
      BY <2>1, <2>3 DEF Row
    <3> QED BY <2>3, <3>1
  <2> QED BY <2>2, <2>3
<1>4. CASE Enable(l, a)
  <2>1. members[l][a] \in Rows
    BY <1>4, Present DEF Enable
  <2>2. members'[l][a].disabled = FALSE
    BY <1>4, <2>1 DEF Enable, TypeOK, Rows
  <2> QED BY <1>4, <2>2
<1>5. CASE Counted(l, a) /\ Bouncing
  <2>1. PICK weight \in Nat : members'[l][a] = Bounced(members[l][a], weight)
    BY <1>5 DEF Counted
  <2>2. members[l][a] \in Rows
    BY <1>5, Present DEF Counted
  <2>3. /\ members'[l][a].present = members[l][a].present
        /\ members'[l][a].disabled <=> members[l][a].disabled \/ members[l][a].score + weight >= threshold
    BY <2>1, <2>2 DEF Bounced, Rows
  <2> QED BY <1>5, <2>3
<1> QED BY <1>1, <1>2, <1>3, <1>4, <1>5, StepOfRow DEF RowStep

(* OnlyEnableResumes: neither adding a member again nor importing the file   *)
(* nor any bounce resumes a disabled delivery (add_member, enable_member).   *)
THEOREM OnlyEnableResumesDelivery == Spec => OnlyEnableResumes
<1>1. TypeOK /\ [Next]_vars =>
        [\A l \in Lists, a \in Addresses :
            Disabled(l, a) /\ members'[l][a].present /\ ~Disabled(l, a)' => Enable(l, a)]_vars
  BY WhoDisables
<1> QED BY <1>1, MembershipTypeCorrect, PTL DEF Spec, OnlyEnableResumes

-----------------------------------------------------------------------------
(* LateCopiesBounded is not inductive: what is, is that the copies a         *)
(* disabled member may still get cover the deliveries that hold one.         *)
Covered ==
    \A l \in Lists, a \in Addresses :
        Disabled(l, a) => Cardinality(Holding(l, a)) <= grace[l][a]

LEMMA HoldingFinite ==
    ASSUME NEW l \in Lists, NEW a \in Addresses
    PROVE  IsFiniteSet(Holding(l, a)) /\ Cardinality(Holding(l, a)) \in Nat
BY FS_Subset, FS_CardinalityType DEF Holding

(* Sending a copy uses one up; starting another delivery does not reach a    *)
(* disabled member.                                                          *)
LEMMA HoldingSteps ==
    ASSUME TypeOK, NEW l \in Lists, NEW a \in Addresses
    PROVE  /\ \A d \in Deliveries, k \in Lists :
                  Start(d, k) /\ Disabled(l, a) => Holding(l, a)' = Holding(l, a)
           /\ \A d \in Deliveries, b \in Addresses :
                  Send(d, b) => Holding(l, a)' = IF delivery[d].list = l /\ b = a
                                                THEN Holding(l, a) \ {d} ELSE Holding(l, a)
           /\ \A d \in Deliveries : Leave(d) => Holding(l, a)' \subseteq Holding(l, a)
           /\ \A t \in Thresholds : Restart(t) => Holding(l, a)' \subseteq Holding(l, a)
<1>1. ASSUME NEW d \in Deliveries, NEW k \in Lists, Start(d, k), Disabled(l, a)
      PROVE Holding(l, a)' = Holding(l, a)
  <2>1. a \notin Subscribers(k) \/ k # l
    BY <1>1 DEF Subscribers, Disabled
  <2> QED BY <1>1, <2>1 DEF Start, Holding, TypeOK
<1>2. ASSUME NEW d \in Deliveries, NEW b \in Addresses, Send(d, b)
      PROVE Holding(l, a)' = IF delivery[d].list = l /\ b = a
                             THEN Holding(l, a) \ {d} ELSE Holding(l, a)
  <2>1. delivery[d] \in [running : {TRUE}, list : Lists, todo : SUBSET Addresses]
    BY <1>2, JobShape DEF Send, TypeOK
  <2>2. delivery' = [delivery EXCEPT ![d] = [delivery[d] EXCEPT !.todo = @ \ {b}]]
    BY <1>2 DEF Send, TypeOK
  <2>3. /\ \A e \in Deliveries \ {d} : delivery'[e] = delivery[e]
        /\ delivery'[d].running = delivery[d].running /\ delivery'[d].list = delivery[d].list
        /\ delivery'[d].todo = delivery[d].todo \ {b}
    BY <2>1, <2>2 DEF TypeOK
  <2> QED BY <2>1, <2>3 DEF Holding
<1>3. ASSUME NEW d \in Deliveries, Leave(d) PROVE Holding(l, a)' \subseteq Holding(l, a)
  BY <1>3 DEF Leave, Holding, TypeOK, Idle
<1>4. ASSUME NEW t \in Thresholds, Restart(t) PROVE Holding(l, a)' \subseteq Holding(l, a)
  BY <1>4 DEF Restart, Holding, TypeOK, Idle
<1> QED BY <1>1, <1>2, <1>3, <1>4

(* LateCopiesBounded: a disabled member gets at most the copies that were on *)
(* their way when delivery was disabled (subscribers, send_all).             *)
THEOREM DisabledForLaterPosts == Spec => []LateCopiesBounded
<1>1. Init => Covered
  BY DEF Init, Covered, Disabled, NoRow
<1>2. TypeOK /\ TypeOK' /\ Covered /\ [Next]_vars => Covered'
  <2> SUFFICES ASSUME TypeOK, TypeOK', Covered, [Next]_vars,
                      NEW l \in Lists, NEW a \in Addresses, Disabled(l, a)'
               PROVE  Cardinality(Holding(l, a)') <= grace'[l][a]
    BY DEF Covered
  <2> DEFINE H == Holding(l, a)
  <2>0. IsFiniteSet(H) /\ Cardinality(H) \in Nat /\ grace[l][a] \in Int
    BY HoldingFinite DEF TypeOK
  <2>2. ASSUME NEW d \in Deliveries, NEW k \in Lists, Start(d, k) PROVE Cardinality(H') <= grace'[l][a]
    <3>1. Disabled(l, a) /\ grace' = grace
      BY <2>2 DEF Start, Disabled
    <3>2. H' = H
      BY <2>2, <3>1, HoldingSteps
    <3> QED BY <3>1, <3>2 DEF Covered
  <2>3. ASSUME NEW d \in Deliveries, NEW b \in Addresses, Send(d, b) PROVE Cardinality(H') <= grace'[l][a]
    <3>1. Disabled(l, a) /\ Cardinality(H) <= grace[l][a]
      BY <2>3 DEF Send, Disabled, Covered
    <3>2. H' = IF delivery[d].list = l /\ b = a THEN H \ {d} ELSE H
      BY <2>3, HoldingSteps
    <3>3. CASE delivery[d].list = l /\ b = a
      <4>1. d \in H
        BY <2>3, <3>3 DEF Send, Holding
      <4>2. Cardinality(H') = Cardinality(H) - 1
        <5>1. H' = H \ {d}
          BY <3>2, <3>3
        <5> HIDE DEF H
        <5>2. Cardinality(H \ {d}) = Cardinality(H) - 1
          BY <2>0, <4>1, FS_RemoveElement
        <5> QED BY <5>1, <5>2
      <4>3. grace'[l][a] = grace[l][a] - 1
        BY <2>3, <3>1, <3>3 DEF Send, TypeOK
      <4> QED BY <2>0, <3>1, <4>2, <4>3
    <3>4. CASE ~(delivery[d].list = l /\ b = a)
      <4>1. grace'[l][a] = grace[l][a]
        <5>1. delivery[d].list \in Lists
          <6>1. delivery[d] \in [running : {TRUE}, list : Lists, todo : SUBSET Addresses]
            BY <2>3, JobShape DEF Send, TypeOK
          <6> QED BY <6>1
        <5> QED BY <2>3, <3>4, <5>1 DEF Send, TypeOK
      <4> QED BY <3>1, <3>2, <3>4, <4>1
    <3> QED BY <3>3, <3>4
  <2>4. ASSUME (\E d \in Deliveries : Leave(d)) \/ \E t \in Thresholds : Restart(t)
        PROVE  Cardinality(H') <= grace'[l][a]
    <3>1. Disabled(l, a) /\ grace' = grace /\ H' \subseteq H
      BY <2>4, HoldingSteps DEF Leave, Restart, Disabled
    <3>2. Cardinality(H') <= Cardinality(H) /\ Cardinality(H') \in Nat
      BY <2>0, <3>1, FS_Subset, FS_CardinalityType
    <3> QED BY <2>0, <3>1, <3>2 DEF Covered
  <2>5. ASSUME NEW k \in Lists, NEW b \in Addresses, NEW class \in Classes, HandleBounce(k, b, class)
        PROVE Cardinality(H') <= grace'[l][a]
    <3>0. H' = H
      BY <2>5 DEF HandleBounce, Holding
    <3>1. CASE Disabled(l, a)
      <4>1. grace'[l][a] = grace[l][a]
        <5>1. \/ grace' = grace
              \/ /\ ~members[k][b].disabled
                 /\ grace' = [grace EXCEPT ![k][b] = Cardinality(Holding(k, b))]
          BY <2>5 DEF HandleBounce, RecordBounce
        <5>2. ~members[k][b].disabled => k # l \/ b # a
          BY <3>1 DEF Disabled
        <5>3. \A n : k # l \/ b # a => [grace EXCEPT ![k][b] = n][l][a] = grace[l][a]
          BY DEF TypeOK
        <5> QED BY <5>1, <5>2, <5>3
      <4> QED BY <3>0, <3>1, <4>1 DEF Covered
    <3>2. CASE ~Disabled(l, a)
      <4>1. members[l][a] # members'[l][a] /\ ~UNCHANGED members
        BY <3>2 DEF Disabled
      <4>2. /\ members[k][b].present
            /\ members' = [members EXCEPT ![k][b] = Bounced(@, Weight(class))]
            /\ grace' = IF members'[k][b].disabled /\ ~members[k][b].disabled
                        THEN [grace EXCEPT ![k][b] = Cardinality(Holding(k, b))] ELSE grace
        BY <2>5, <4>1 DEF HandleBounce, RecordBounce
      <4>3. k = l /\ b = a
        BY <4>1, <4>2 DEF TypeOK
      <4>4. grace' = [grace EXCEPT ![l][a] = Cardinality(H)]
        BY <3>2, <4>2, <4>3 DEF Disabled
      <4>5. grace'[l][a] = Cardinality(H)
        BY <4>4 DEF TypeOK
      <4> QED BY <2>0, <3>0, <4>5
    <3> QED BY <3>1, <3>2
  <2>6. CASE UNCHANGED <<delivery, grace>> /\ ~Bouncing
    <3>1. Disabled(l, a)
      BY <2>6, WhoDisables
    <3>2. H' = H
      BY <2>6 DEF Holding
    <3> QED BY <2>6, <3>1, <3>2 DEF Covered
  <2>7. CASE Bouncing
    BY <2>5, <2>7 DEF Bouncing
  <2>8. ASSUME UNCHANGED <<delivery, grace>> PROVE Cardinality(H') <= grace'[l][a]
    BY <2>6, <2>7, <2>8
  <2>9. CASE SyncEnd \/ UNCHANGED vars \/ (\E k \in Lists : SyncStart(k)) \/ \E b \in Addresses : SyncLine(b)
    BY <2>8, <2>9 DEF SyncEnd, vars, SyncStart, SyncLine
  <2>10. ASSUME NEW k \in Lists, NEW b \in Addresses,
                (\E flags \in Roles : Add(k, b, flags)) \/ Remove(k, b) \/ Enable(k, b)
         PROVE  Cardinality(H') <= grace'[l][a]
    BY <2>8, <2>10 DEF Add, Remove, Enable
  <2> QED BY <2>2, <2>3, <2>4, <2>5, <2>9, <2>10 DEF Next
<1>3. TypeOK /\ Covered => LateCopiesBounded
  BY HoldingFinite DEF TypeOK, Covered, LateCopiesBounded
<1> QED BY <1>1, <1>2, <1>3, MembershipTypeCorrect, PTL DEF Spec

-----------------------------------------------------------------------------
(* ScoreIsEarned is not inductive: what is, is that the DSNs on their way    *)
(* are paid for as well as the score.                                        *)
Score(l, a) == IF members[l][a].present THEN members[l][a].score ELSE 0

Coming(l, a) == dsns[l][a]["hard"] * HardWeight + dsns[l][a]["soft"] * SoftWeight

Earned == \A l \in Lists, a \in Addresses : Score(l, a) + Coming(l, a) <= owed[l][a]

Due(l, a, k, b, class) == IF k = l /\ b = a THEN Weight(class) ELSE 0

LEMMA OneMore ==
    ASSUME NEW n \in Int, NEW w \in Nat
    PROVE  /\ n * w \in Int
           /\ (n + 1) * w = n * w + w
           /\ (n - 1) * w = n * w - w
OBVIOUS

LEMMA ComingNat ==
    ASSUME TypeOK, NEW l \in Lists, NEW a \in Addresses
    PROVE  Coming(l, a) \in Nat
<1>1. dsns[l][a]["hard"] \in Nat /\ dsns[l][a]["soft"] \in Nat
  BY DEF TypeOK, Classes
<1>2. \A n \in Nat, w \in Nat : n * w \in Nat
  OBVIOUS
<1>3. dsns[l][a]["hard"] * HardWeight \in Nat /\ dsns[l][a]["soft"] * SoftWeight \in Nat
  BY <1>1, <1>2
<1> QED BY <1>3 DEF Coming

(* A DSN more, or one fewer, changes what is coming by its weight.           *)
LEMMA ComingSteps ==
    ASSUME TypeOK, NEW l \in Lists, NEW a \in Addresses,
           NEW k \in Lists, NEW b \in Addresses, NEW class \in Classes
    PROVE  /\ dsns' = [dsns EXCEPT ![k][b][class] = @ + 1]
                 => Coming(l, a)' = Coming(l, a) + Due(l, a, k, b, class)
           /\ dsns' = [dsns EXCEPT ![k][b][class] = @ - 1]
                 => Coming(l, a)' = Coming(l, a) - Due(l, a, k, b, class)
<1> DEFINE hard == dsns[l][a]["hard"]
           soft == dsns[l][a]["soft"]
<1>1. hard \in Int /\ soft \in Int
  BY DEF TypeOK, Classes
<1>2. /\ hard * HardWeight \in Int /\ soft * SoftWeight \in Int
      /\ (hard + 1) * HardWeight = hard * HardWeight + HardWeight
      /\ (hard - 1) * HardWeight = hard * HardWeight - HardWeight
      /\ (soft + 1) * SoftWeight = soft * SoftWeight + SoftWeight
      /\ (soft - 1) * SoftWeight = soft * SoftWeight - SoftWeight
  BY <1>1, OneMore
<1>3. ASSUME NEW n \in {1, -1}, dsns' = [dsns EXCEPT ![k][b][class] = @ + n]
      PROVE  Coming(l, a)' = Coming(l, a) + n * Due(l, a, k, b, class)
  <2>1. CASE ~(k = l /\ b = a)
    <3>1. dsns'[l][a] = dsns[l][a]
      BY <1>3, <2>1 DEF TypeOK
    <3>2. Coming(l, a)' = Coming(l, a) /\ Coming(l, a) \in Nat
      BY <3>1, ComingNat DEF Coming
    <3> QED BY <2>1, <3>2 DEF Due
  <2>2. CASE k = l /\ b = a
    <3>1. dsns'[l][a] = [dsns[l][a] EXCEPT ![class] = @ + n]
      BY <1>3, <2>2 DEF TypeOK
    <3>2. dsns[l][a] \in [Classes -> Nat]
      BY DEF TypeOK
    <3>3. CASE class = "hard"
      <4>1. dsns'[l][a]["hard"] = hard + n /\ dsns'[l][a]["soft"] = soft
        BY <3>1, <3>2, <3>3 DEF Classes
      <4>2. Coming(l, a)' = (hard + n) * HardWeight + soft * SoftWeight
        BY <4>1 DEF Coming
      <4>3. Due(l, a, k, b, class) = HardWeight
        BY <2>2, <3>3 DEF Due, Weight
      <4> QED BY <1>1, <1>2, <4>2, <4>3 DEF Coming
    <3>4. CASE class = "soft"
      <4>1. dsns'[l][a]["hard"] = hard /\ dsns'[l][a]["soft"] = soft + n
        BY <3>1, <3>2, <3>4 DEF Classes
      <4>2. Coming(l, a)' = hard * HardWeight + (soft + n) * SoftWeight
        BY <4>1 DEF Coming
      <4>3. Due(l, a, k, b, class) = SoftWeight
        BY <2>2, <3>4 DEF Due, Weight
      <4> QED BY <1>1, <1>2, <4>2, <4>3 DEF Coming
    <3>5. CASE class = "unknown"
      <4>1. dsns'[l][a]["hard"] = hard /\ dsns'[l][a]["soft"] = soft
        BY <3>1, <3>2, <3>5 DEF Classes
      <4>2. Coming(l, a)' = Coming(l, a) /\ Coming(l, a) \in Nat
        BY <4>1, ComingNat DEF Coming
      <4>3. Due(l, a, k, b, class) = 0
        BY <2>2, <3>5 DEF Due, Weight
      <4> QED BY <4>2, <4>3
    <3> QED BY <3>3, <3>4, <3>5 DEF Classes
  <2> QED BY <2>1, <2>2
<1>4. Coming(l, a) \in Nat /\ Due(l, a, k, b, class) \in Nat
  BY ComingNat, WeightNat DEF Due
<1>5. ASSUME dsns' = [dsns EXCEPT ![k][b][class] = @ - 1]
      PROVE  dsns' = [dsns EXCEPT ![k][b][class] = @ + (-1)]
  <2>1. dsns[k][b][class] - 1 = dsns[k][b][class] + (-1)
    BY DEF TypeOK
  <2> QED BY <1>5, <2>1 DEF TypeOK
<1>6. dsns' = [dsns EXCEPT ![k][b][class] = @ + 1]
        => Coming(l, a)' = Coming(l, a) + Due(l, a, k, b, class)
  BY <1>3, <1>4
<1>7. dsns' = [dsns EXCEPT ![k][b][class] = @ - 1]
        => Coming(l, a)' = Coming(l, a) - Due(l, a, k, b, class)
  BY <1>3, <1>4, <1>5
<1> QED BY <1>6, <1>7

(* Only a bounce raises a score, and by no more than its weight.             *)
LEMMA ScoreSteps ==
    ASSUME TypeOK, [Next]_vars, NEW l \in Lists, NEW a \in Addresses
    PROVE  /\ Score(l, a) \in Nat
           /\ ~Bouncing => Score(l, a)' <= Score(l, a)
           /\ \A k \in Lists, b \in Addresses, class \in Classes :
                 HandleBounce(k, b, class) => Score(l, a)' <= Score(l, a) + Due(l, a, k, b, class)
<1>1. Score(l, a) \in Nat
  BY Present DEF Score, Rows
<1>2. ASSUME ~Bouncing PROVE Score(l, a)' <= Score(l, a)
  <2>1. CASE members'[l][a] = members[l][a]
    BY <1>1, <2>1 DEF Score
  <2>2. CASE members'[l][a] = NoRow
    BY <1>1, <2>2 DEF Score, NoRow
  <2>3. CASE Roled(l, a)
    <3>1. PICK flags \in Flags :
            members'[l][a] = IF members[l][a].present THEN [members[l][a] EXCEPT !.flags = flags]
                             ELSE Row(flags, 0, FALSE)
      BY <2>3 DEF Roled
    <3>2. CASE members[l][a].present
      <4>1. members[l][a] \in Rows
        BY <3>2, Present
      <4>2. members'[l][a].present = members[l][a].present /\ members'[l][a].score = members[l][a].score
        BY <3>1, <3>2, <4>1 DEF Rows
      <4> QED BY <1>1, <4>2 DEF Score
    <3>3. CASE ~members[l][a].present
      <4>1. members'[l][a].score = 0
        BY <3>1, <3>3 DEF Row
      <4> QED BY <1>1, <4>1 DEF Score
    <3> QED BY <3>2, <3>3
  <2>4. CASE Enable(l, a)
    <3>1. members[l][a] \in Rows
      BY <2>4, Present DEF Enable
    <3>2. members'[l][a].score = 0
      BY <2>4, <3>1 DEF Enable, TypeOK, Rows
    <3> QED BY <1>1, <3>2 DEF Score
  <2> QED BY <1>2, <2>1, <2>2, <2>3, <2>4, StepOfRow DEF RowStep
<1>3. ASSUME NEW k \in Lists, NEW b \in Addresses, NEW class \in Classes, HandleBounce(k, b, class)
      PROVE  Score(l, a)' <= Score(l, a) + Due(l, a, k, b, class)
  <2>0. Due(l, a, k, b, class) \in Nat
    BY WeightNat DEF Due
  <2>1. CASE members'[l][a] = members[l][a]
    BY <1>1, <2>0, <2>1 DEF Score
  <2>2. CASE members'[l][a] # members[l][a]
    <3>1. members[k][b].present /\ members' = [members EXCEPT ![k][b] = Bounced(@, Weight(class))]
      BY <1>3, <2>2 DEF HandleBounce, RecordBounce
    <3>2. k = l /\ b = a
      BY <2>2, <3>1 DEF TypeOK
    <3>3. members'[l][a] = Bounced(members[l][a], Weight(class))
      BY <3>1, <3>2 DEF TypeOK
    <3>4. members[l][a] \in Rows
      BY <3>1, <3>2, Present
    <3>5. /\ members'[l][a].present = members[l][a].present
          /\ members'[l][a].score = members[l][a].score + Weight(class)
      BY <3>3, <3>4 DEF Bounced, Rows
    <3>6. Weight(class) \in Nat
      BY WeightNat
    <3> QED BY <1>1, <3>1, <3>2, <3>5, <3>6 DEF Score, Due
  <2> QED BY <2>1, <2>2
<1> QED BY <1>1, <1>2, <1>3

(* ScoreIsEarned: no interleaving of late and repeated DSNs, member commands *)
(* and imports gives a score beyond what the member's copies on that list    *)
(* have failed with (handle_bounce, record_bounce).                          *)
THEOREM ScoresAreEarned == Spec => []ScoreIsEarned
<1>1. Init => Earned
  <2> SUFFICES ASSUME Init, NEW l \in Lists, NEW a \in Addresses
               PROVE  Score(l, a) + Coming(l, a) <= owed[l][a]
    BY DEF Earned
  <2>1. Score(l, a) = 0 /\ owed[l][a] = 0
    BY DEF Init, Score, NoRow
  <2>2. dsns[l][a]["hard"] = 0 /\ dsns[l][a]["soft"] = 0
    BY DEF Init, Classes
  <2>3. Coming(l, a) = 0
    BY <2>2 DEF Coming
  <2> QED BY <2>1, <2>3
<1>2. TypeOK /\ TypeOK' /\ Earned /\ [Next]_vars => Earned'
  <2> SUFFICES ASSUME TypeOK, TypeOK', Earned, [Next]_vars, NEW l \in Lists, NEW a \in Addresses
               PROVE  Score(l, a)' + Coming(l, a)' <= owed'[l][a]
    BY DEF Earned
  <2>0. /\ Score(l, a) \in Nat /\ Coming(l, a) \in Nat /\ owed[l][a] \in Nat
        /\ Score(l, a) + Coming(l, a) <= owed[l][a]
    BY ScoreSteps, ComingNat DEF Earned, TypeOK
  <2>1. Score(l, a)' \in Nat
    <3>1. members'[l][a] \in Rows \cup {NoRow}
      BY DEF TypeOK
    <3>2. CASE members'[l][a] \in Rows
      <4>1. members'[l][a].score \in Nat
        BY <3>2 DEF Rows
      <4> QED BY <4>1 DEF Score
    <3>3. CASE members'[l][a] = NoRow
      <4>1. members'[l][a].present = FALSE
        BY <3>3 DEF NoRow
      <4> QED BY <4>1 DEF Score
    <3> QED BY <3>1, <3>2, <3>3
  <2>2. ASSUME UNCHANGED <<dsns, owed>>, ~Bouncing
        PROVE  Score(l, a)' + Coming(l, a)' <= owed'[l][a]
    <3>1. Score(l, a)' <= Score(l, a)
      BY <2>2, ScoreSteps
    <3>2. Coming(l, a)' = Coming(l, a) /\ owed'[l][a] = owed[l][a]
      BY <2>2 DEF Coming
    <3> QED BY <2>0, <2>1, <3>1, <3>2
  <2>3. ASSUME NEW d \in Deliveries, NEW b \in Addresses, Send(d, b)
        PROVE  Score(l, a)' + Coming(l, a)' <= owed'[l][a]
    <3> DEFINE k == delivery[d].list
    <3>1. k \in Lists
      <4>1. delivery[d] \in [running : {TRUE}, list : Lists, todo : SUBSET Addresses]
        BY <2>3, JobShape DEF Send, TypeOK
      <4> QED BY <4>1
    <3>2. Score(l, a)' = Score(l, a)
      BY <2>3 DEF Send, Score
    <3>3. CASE UNCHANGED <<dsns, owed>>
      <4>1. Coming(l, a)' = Coming(l, a) /\ owed'[l][a] = owed[l][a]
        BY <3>3 DEF Coming
      <4> QED BY <2>0, <3>2, <4>1
    <3>4. ASSUME NEW class \in Classes,
                 dsns' = [dsns EXCEPT ![k][b][class] = @ + 1],
                 owed' = [owed EXCEPT ![k][b] = @ + Weight(class)]
          PROVE  Score(l, a)' + Coming(l, a)' <= owed'[l][a]
      <4>1. Coming(l, a)' = Coming(l, a) + Due(l, a, k, b, class)
        BY <3>1, <3>4, ComingSteps
      <4>2. owed'[l][a] = owed[l][a] + Due(l, a, k, b, class)
        BY <2>0, <3>1, <3>4, WeightNat DEF Due, TypeOK
      <4>3. Due(l, a, k, b, class) \in Nat
        BY WeightNat DEF Due
      <4> QED BY <2>0, <3>2, <4>1, <4>2, <4>3
    <3> QED BY <2>3, <3>3, <3>4 DEF Send
  <2>4. ASSUME NEW k \in Lists, NEW b \in Addresses, NEW class \in Classes, HandleBounce(k, b, class)
        PROVE  Score(l, a)' + Coming(l, a)' <= owed'[l][a]
    <3>1. Score(l, a)' <= Score(l, a) + Due(l, a, k, b, class)
      BY <2>4, ScoreSteps
    <3>2. Due(l, a, k, b, class) \in Nat
      BY WeightNat DEF Due
    <3>3. CASE dsns' = [dsns EXCEPT ![k][b][class] = @ - 1] /\ UNCHANGED owed
      <4>1. Coming(l, a)' = Coming(l, a) - Due(l, a, k, b, class)
        BY <3>3, ComingSteps
      <4> QED BY <2>0, <2>1, <3>1, <3>2, <3>3, <4>1
    <3>4. CASE owed' = [owed EXCEPT ![k][b] = @ + Weight(class)] /\ UNCHANGED dsns
      <4>1. owed'[l][a] = owed[l][a] + Due(l, a, k, b, class)
        BY <2>0, <3>4, WeightNat DEF Due, TypeOK
      <4>2. Coming(l, a)' = Coming(l, a)
        BY <3>4 DEF Coming
      <4> QED BY <2>0, <2>1, <3>1, <3>2, <4>1, <4>2
    <3> QED BY <2>4, <3>3, <3>4 DEF HandleBounce
  <2>5. CASE Bouncing
    BY <2>4, <2>5 DEF Bouncing
  <2>6. CASE ~Bouncing /\ ~(\E d \in Deliveries, b \in Addresses : Send(d, b))
    <3>1. UNCHANGED <<dsns, owed>>
      BY <2>6 DEF Next, vars, Bouncing, Start, Leave, Add, Remove, Enable, SyncStart, SyncLine,
                  SyncEnd, Restart
    <3> QED BY <2>2, <2>6, <3>1
  <2> QED BY <2>3, <2>5, <2>6
<1>3. TypeOK /\ Earned => ScoreIsEarned
  <2> SUFFICES ASSUME TypeOK, Earned, NEW l \in Lists, NEW a \in Addresses, members[l][a].present
               PROVE  members[l][a].score <= owed[l][a]
    BY DEF ScoreIsEarned
  <2>1. Score(l, a) + Coming(l, a) <= owed[l][a] /\ Score(l, a) \in Nat /\ owed[l][a] \in Nat
    <3>1. Score(l, a) \in Nat
      BY Present DEF Score, Rows
    <3> QED BY <3>1 DEF Earned, TypeOK
  <2>2. Coming(l, a) \in Nat
    BY ComingNat
  <2> QED BY <2>1, <2>2 DEF Score
<1> QED BY <1>1, <1>2, <1>3, MembershipTypeCorrect, PTL DEF Spec
=============================================================================
