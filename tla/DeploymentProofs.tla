-------------------------- MODULE DeploymentProofs --------------------------
(***************************************************************************)
(* Theorems about Deployment: keys and zone agree, addresses lead to their *)
(* lists, failed copies to their subscribers, and starts end alike. For    *)
(* any number of processes, keys, list files, scripts and edits, and for   *)
(* addresses of any length.                                                *)
(***************************************************************************)
EXTENDS Deployment, FiniteSetTheorems, SequenceTheorems, WellFoundedInduction, TLAPS

-----------------------------------------------------------------------------
(* Keys and zone.                                                            *)

Contents == {Nothing, Torn} \cup [setup : Nat, label : Nat]

SetupShape ==
    /\ keys \in [Paths -> Contents]
    /\ setups \in Nat
    /\ running \in [Runs -> [setup : Nat, step : 0..EndStep]]
    /\ disturbed \in BOOLEAN

Quiet == \A r \in Runs : ~UnderWay(r)

(* The inductive invariant behind ZoneMatchesKeys. While the last setup runs *)
(* undisturbed it is the only one, and the key files it has passed hold its  *)
(* keys; when it is through, the zone is its own, or nothing was written.    *)
Undisturbed ==
    ~disturbed =>
        /\ \A r, other \in Runs : UnderWay(r) /\ UnderWay(other) => r = other
        /\ \A r \in Runs, i \in DOMAIN KeyFile :
              UnderWay(r) /\ 2 * i < running[r].step => keys[KeyFile[i]] = Key(running[r].setup, i)
        /\ Quiet => \/ keys = WrittenBy(zone)
                    \/ zone = Nothing /\ keys = [path \in Paths |-> Nothing]

(* The labels are numbered from 1.                                           *)
LEMMA Labels ==
    /\ Len(KeyFile) \in Nat
    /\ DOMAIN KeyFile = 1..Len(KeyFile)
    /\ LastKeyStep \in Nat /\ EndStep \in Nat
    /\ \A i \in DOMAIN KeyFile : i \in Nat /\ KeyFile[i] \in Paths /\ 2 * i <= LastKeyStep
<1>1. Len(KeyFile) \in Nat /\ DOMAIN KeyFile = 1..Len(KeyFile)
  BY SetupAssumption, LenProperties
<1>2. \A i \in DOMAIN KeyFile : KeyFile[i] \in Paths
  BY DEF Paths
<1>3. \A i \in 1..Len(KeyFile) : i \in Nat /\ 2 * i <= 2 * Len(KeyFile)
  BY <1>1
<1> QED
  BY <1>1, <1>2, <1>3 DEF LastKeyStep, EndStep

(* A setup that wrote them all wrote each label's key to that label's path.  *)
LEMMA WrittenByLabel ==
    ASSUME NEW n PROVE \A i \in DOMAIN KeyFile : WrittenBy(n)[KeyFile[i]] = Key(n, i)
<1> TAKE i \in DOMAIN KeyFile
<1>1. (CHOOSE j \in DOMAIN KeyFile : KeyFile[j] = KeyFile[i]) = i
  BY SetupAssumption
<1> QED
  BY <1>1 DEF WrittenBy, Paths

(* Files that hold the keys of setup n, label by label, are those it wrote.  *)
LEMMA AllWritten ==
    ASSUME NEW n, keys \in [Paths -> Contents],
           \A i \in DOMAIN KeyFile : keys[KeyFile[i]] = Key(n, i)
    PROVE  keys = WrittenBy(n)
<1>1. \A path \in Paths : keys[path] = WrittenBy(n)[path]
  BY WrittenByLabel DEF Paths
<1>2. WrittenBy(n) = [path \in Paths |-> WrittenBy(n)[path]]
  BY DEF WrittenBy
<1> QED
  BY <1>1, <1>2

(* Odd steps truncate the file of the label they are at, even ones fill it.  *)
LEMMA HalfSteps ==
    ASSUME NEW k \in Nat
    PROVE  /\ (k + 1) \div 2 \in Nat
           /\ k % 2 = 1 => 2 * ((k + 1) \div 2) = k + 1
           /\ k % 2 # 1 => 2 * ((k + 1) \div 2) = k
OBVIOUS

LEMMA WriteKeyUndisturbed ==
    ASSUME SetupShape, Undisturbed, NEW r \in Runs, WriteKey(r)
    PROVE  SetupShape' /\ Undisturbed'
<1> DEFINE k == running[r].step
           n == running[r].setup
           label == Label(r)
<1>1. /\ k \in Nat /\ k \in 1..LastKeyStep /\ n \in Nat
      /\ UNCHANGED <<zone, dns, setups, disturbed>>
      /\ keys' = [keys EXCEPT ![KeyFile[label]] = IF Truncating(r) THEN Torn ELSE Key(n, label)]
  BY DEF WriteKey, SetupShape
<1>2. k # EndStep /\ k + 1 \in 0..EndStep /\ k > 0 /\ k + 1 > 0
  BY <1>1, Labels DEF EndStep
<1>3. running' = [running EXCEPT ![r].step = k + 1]
  BY <1>2 DEF WriteKey, Advance
<1>4. /\ label \in Nat
      /\ Truncating(r) => 2 * label = k + 1
      /\ ~Truncating(r) => 2 * label = k
  BY <1>1, HalfSteps DEF Label, Truncating
<1>5. label \in Nat /\ Key(n, label) \in Contents /\ Torn \in Contents
  BY <1>1, <1>4 DEF Key, Contents
<1>6. SetupShape'
  <2>1. keys' \in [Paths -> Contents]
    BY <1>1, <1>5 DEF SetupShape
  <2>2. running' \in [Runs -> [setup : Nat, step : 0..EndStep]]
    BY <1>2, <1>3 DEF SetupShape
  <2> QED
    BY <1>1, <2>1, <2>2 DEF SetupShape
<1>7. /\ \A other \in Runs \ {r} : running'[other] = running[other]
      /\ running'[r].step = k + 1 /\ running'[r].setup = n
  BY <1>3 DEF SetupShape
<1>8. \A other \in Runs : UnderWay(other)' <=> UnderWay(other)
  BY <1>1, <1>2, <1>7 DEF UnderWay
<1>9. UnderWay(r) /\ ~Quiet'
  BY <1>1, <1>2, <1>8 DEF UnderWay, Quiet
<1>10. ASSUME ~disturbed, NEW i \in DOMAIN KeyFile, 2 * i < k + 1
       PROVE  keys'[KeyFile[i]] = Key(n, i)
  <2>1. i \in Nat /\ KeyFile[i] \in Paths /\ keys \in [Paths -> Contents]
    BY Labels DEF SetupShape
  <2>2. CASE i = label
    <3>1. ~Truncating(r)
      BY <1>1, <1>4, <1>10, <2>1, <2>2
    <3> QED
      BY <1>1, <2>1, <2>2, <3>1
  <2>3. CASE i # label
    <3>1. 2 * i < k
      BY <1>1, <1>4, <1>10, <2>1, <2>3
    <3>2. keys[KeyFile[i]] = Key(n, i)
      BY <1>9, <1>10, <3>1 DEF Undisturbed
    <3>3. label \in DOMAIN KeyFile => KeyFile[i] # KeyFile[label]
      BY <2>3, SetupAssumption
    <3>4. label \in DOMAIN KeyFile
      BY <1>1, <1>4, Labels DEF LastKeyStep
    <3> QED
      BY <1>1, <2>1, <3>2, <3>3, <3>4
  <2> QED
    BY <2>2, <2>3
<1>11. ASSUME ~disturbed PROVE \A other \in Runs : UnderWay(other) => other = r
  BY <1>9, <1>11 DEF Undisturbed
<1>12. Undisturbed'
  <2> SUFFICES ASSUME ~disturbed'
               PROVE  /\ \A s, other \in Runs : UnderWay(s)' /\ UnderWay(other)' => s = other
                      /\ \A s \in Runs, i \in DOMAIN KeyFile :
                            UnderWay(s)' /\ 2 * i < running'[s].step
                            => keys'[KeyFile[i]] = Key(running'[s].setup, i)
    BY <1>9 DEF Undisturbed
  <2>1. ~disturbed
    BY <1>1
  <2> QED
    BY <1>7, <1>8, <1>10, <1>11, <2>1
<1> QED
  BY <1>6, <1>12

LEMMA WriteZoneUndisturbed ==
    ASSUME SetupShape, Undisturbed, NEW r \in Runs, WriteZone(r)
    PROVE  SetupShape' /\ Undisturbed'
<1> DEFINE k == running[r].step
           n == running[r].setup
<1>1. /\ k \in 0..EndStep /\ k > LastKeyStep /\ n \in Nat
      /\ UNCHANGED <<keys, dns, setups, disturbed>>
      /\ zone' = IF Truncating(r) THEN Torn ELSE n
      /\ running' = [running EXCEPT ![r].step = IF k = EndStep THEN 0 ELSE k + 1]
  BY DEF WriteZone, SetupShape, Advance
<1>2. LastKeyStep \in Nat /\ EndStep = LastKeyStep + 2 /\ k \in Nat /\ UnderWay(r)
  BY <1>1, Labels DEF EndStep, UnderWay
<1>3. SetupShape'
  <2>1. (IF k = EndStep THEN 0 ELSE k + 1) \in 0..EndStep
    BY <1>1, <1>2
  <2>2. running' \in [Runs -> [setup : Nat, step : 0..EndStep]]
    BY <1>1, <2>1 DEF SetupShape
  <2> QED
    BY <1>1, <2>2 DEF SetupShape
<1>4. /\ \A other \in Runs \ {r} : running'[other] = running[other]
      /\ running'[r].setup = n
      /\ running'[r].step = IF k = EndStep THEN 0 ELSE k + 1
  BY <1>1 DEF SetupShape
<1>5. ASSUME ~disturbed
      PROVE  /\ \A other \in Runs : UnderWay(other) => other = r
             /\ \A i \in DOMAIN KeyFile : keys[KeyFile[i]] = Key(n, i)
  <2>1. \A i \in DOMAIN KeyFile : 2 * i < k
    BY <1>1, <1>2, Labels
  <2> QED
    BY <1>2, <1>5, <2>1 DEF Undisturbed
<1>6. \A other \in Runs \ {r} : UnderWay(other)' <=> UnderWay(other)
  BY <1>4 DEF UnderWay
<1>7. CASE k = EndStep
  <2>1. ~Truncating(r)
    BY <1>7, Labels DEF Truncating, EndStep, LastKeyStep
  <2>2. ~UnderWay(r)' /\ zone' = n
    BY <1>1, <1>4, <1>7, <2>1 DEF UnderWay
  <2>3. ASSUME ~disturbed PROVE \A other \in Runs : ~UnderWay(other)'
    BY <1>5, <1>6, <2>2, <2>3
  <2>4. ASSUME ~disturbed PROVE keys = WrittenBy(n)
    BY <1>5, <2>4, AllWritten DEF SetupShape
  <2>5. keys' = keys /\ disturbed' = disturbed
    BY <1>1
  <2>6. ASSUME ~disturbed'
        PROVE  /\ \A s \in Runs : ~UnderWay(s)'
               /\ keys' = WrittenBy(zone')
    BY <2>2, <2>3, <2>4, <2>5, <2>6
  <2> QED
    BY <1>3, <2>6 DEF Undisturbed
<1>8. CASE k # EndStep
  <2>1. running'[r].step = k + 1 /\ UnderWay(r)'
    BY <1>2, <1>4, <1>8 DEF UnderWay
  <2>2. ASSUME ~disturbed'
        PROVE  /\ \A s, other \in Runs : UnderWay(s)' /\ UnderWay(other)' => s = other
               /\ \A s \in Runs, i \in DOMAIN KeyFile :
                     UnderWay(s)' => keys'[KeyFile[i]] = Key(running'[s].setup, i)
               /\ ~Quiet'
    BY <1>1, <1>4, <1>5, <1>6, <2>1, <2>2 DEF Quiet
  <2> QED
    BY <1>3, <2>2 DEF Undisturbed
<1> QED
  BY <1>7, <1>8

LEMMA SetupUndisturbed ==
    ASSUME SetupShape, Undisturbed, SetupStep \/ Publish
    PROVE  SetupShape' /\ Undisturbed'
<1>1. ASSUME NEW r \in Runs, Die(r) PROVE SetupShape' /\ Undisturbed'
  BY <1>1, Labels DEF SetupShape, Die, Undisturbed
<1>2. ASSUME NEW r \in Runs, NEW force \in BOOLEAN, StartSetup(r, force)
      PROVE  SetupShape' /\ Undisturbed'
  <2>1. /\ ~UnderWay(r) /\ setups' = setups + 1
        /\ running' = [running EXCEPT ![r] = [setup |-> setups + 1, step |-> 1]]
        /\ disturbed' = (\E other \in Runs : UnderWay(other))
        /\ UNCHANGED <<keys, zone, dns>>
    BY <1>2 DEF StartSetup
  <2>2. 1 \in 0..EndStep
    BY Labels DEF EndStep
  <2>3. SetupShape'
    BY <2>1, <2>2 DEF SetupShape
  <2>4. /\ \A other \in Runs \ {r} : running'[other] = running[other]
        /\ running'[r].step = 1
    BY <2>1 DEF SetupShape
  <2>5. UnderWay(r)' /\ ~Quiet'
    BY <2>4 DEF UnderWay, Quiet
  <2>6. ~disturbed' => \A other \in Runs : UnderWay(other)' => other = r
    BY <2>1, <2>4 DEF UnderWay
  <2>7. \A i \in DOMAIN KeyFile : ~(2 * i < 1)
    BY Labels
  <2>8. ~disturbed' => \A s \in Runs, i \in DOMAIN KeyFile : ~(UnderWay(s)' /\ 2 * i < running'[s].step)
    BY <2>4, <2>6, <2>7
  <2> QED
    BY <2>3, <2>5, <2>6, <2>8 DEF Undisturbed
<1>3. CASE Publish
  BY <1>3 DEF Publish, SetupShape, Undisturbed, UnderWay, Quiet, WrittenBy
<1> QED
  BY <1>1, <1>2, <1>3, WriteKeyUndisturbed, WriteZoneUndisturbed DEF SetupStep

-----------------------------------------------------------------------------
(* What the process read.                                                    *)

FilesKnown == \A f \in DOMAIN files : f \in ListFiles /\ files[f] \in Confs[f]

(* The inductive invariant behind everything that is said of an address: the *)
(* table is keyed by the addresses that were read, each entry is of a file   *)
(* that names its key, a file is read once, and once the process is up every *)
(* policy is known.                                                          *)
TableAsRead ==
    /\ stage \in {"down", "engine"} => DOMAIN lists = {} /\ DOMAIN read = {}
    /\ todo \cap DOMAIN read = {}
    /\ \A f \in DOMAIN read :
          /\ f \in ListFiles /\ read[f] \in Confs[f] /\ ValidPosting(read[f].posting)
          /\ Lower(read[f].posting) \in DOMAIN lists
    /\ \A a \in DOMAIN lists :
          /\ lists[a].file \in DOMAIN read
          /\ lists[a].posting = read[lists[a].file].posting /\ a = Lower(lists[a].posting)
    /\ stage = "up" => \A a \in DOMAIN lists : Known(lists[a].policy)

(* Over an unchanged disk, the lists sign with the keys that are there.      *)
KeysAsRead ==
    ~changed => \A a \in DOMAIN lists :
                   lists[a].keys = keys /\ \A path \in Paths : keys[path] # Nothing

LEMMA EmptyTable == DOMAIN <<>> = {}
OBVIOUS

(* A process that is gone has read nothing.                                  *)
LEMMA GoneReadsNothing == ASSUME Gone PROVE TableAsRead' /\ KeysAsRead'
<1>1. stage' = "down" /\ DOMAIN lists' = {} /\ DOMAIN read' = {} /\ todo' = {}
  BY EmptyTable DEF Gone
<1> QED
  BY <1>1 DEF TableAsRead, KeysAsRead

LEMMA InsertAsRead ==
    ASSUME FilesKnown, TableAsRead, KeysAsRead, stage = "lists",
           NEW f \in todo, GoodFile(f), Insert(f)
    PROVE  TableAsRead' /\ KeysAsRead'
<1> DEFINE a == Lower(files[f].posting)
<1>1. /\ f \in ListFiles /\ files[f] \in Confs[f] /\ ValidPosting(files[f].posting)
      /\ \A path \in Paths : keys[path] # Nothing
  BY DEF GoodFile, FilesKnown
<1>2. f \notin DOMAIN read
  BY DEF TableAsRead
<1>3. /\ DOMAIN lists' = DOMAIN lists \cup {a}
      /\ lists'[a] = Entry(f)
      /\ \A b \in DOMAIN lists : b # a => lists'[b] = lists[b]
  BY DEF Insert, With
<1>4. /\ DOMAIN read' = DOMAIN read \cup {f}
      /\ read'[f] = files[f]
      /\ \A g \in DOMAIN read : g # f => read'[g] = read[g]
  BY DEF Insert, With
<1>5. /\ todo' = todo \ {f}
      /\ UNCHANGED <<disk, stage, engine, changed>>
  BY DEF Insert
<1>6. Entry(f).file = f /\ Entry(f).posting = files[f].posting /\ Entry(f).keys = keys
  BY DEF Entry
<1>7. KeysAsRead'
  BY <1>1, <1>3, <1>5, <1>6 DEF KeysAsRead, disk
<1>8. \A g \in DOMAIN read' :
         /\ g \in ListFiles /\ read'[g] \in Confs[g] /\ ValidPosting(read'[g].posting)
         /\ Lower(read'[g].posting) \in DOMAIN lists'
  BY <1>1, <1>2, <1>3, <1>4 DEF TableAsRead
<1>9. \A b \in DOMAIN lists' :
         /\ lists'[b].file \in DOMAIN read'
         /\ lists'[b].posting = read'[lists'[b].file].posting /\ b = Lower(lists'[b].posting)
  <2> TAKE b \in DOMAIN lists'
  <2>1. CASE b = a
    BY <1>3, <1>4, <1>6, <2>1
  <2>2. CASE b # a
    <3>1. b \in DOMAIN lists /\ lists'[b] = lists[b]
      BY <1>3, <2>2
    <3>2. lists[b].file \in DOMAIN read /\ lists[b].file # f
      BY <1>2, <3>1 DEF TableAsRead
    <3> QED
      BY <1>4, <3>1, <3>2 DEF TableAsRead
  <2> QED
    BY <2>1, <2>2
<1>10. stage' = "lists" /\ todo' \cap DOMAIN read' = {}
  BY <1>4, <1>5 DEF TableAsRead
<1> QED
  BY <1>7, <1>8, <1>9, <1>10 DEF TableAsRead

LEMMA AsReadStep ==
    ASSUME FilesKnown, TableAsRead, KeysAsRead, [Next]_vars
    PROVE  FilesKnown' /\ TableAsRead' /\ KeysAsRead'
<1>1. CASE UNCHANGED <<disk, process, changed>>
  BY <1>1 DEF disk, process, FilesKnown, TableAsRead, KeysAsRead, Known
<1>2. CASE Start
  BY <1>2 DEF Start, disk, FilesKnown, TableAsRead, KeysAsRead
<1>3. CASE Fail
  BY <1>3, GoneReadsNothing DEF Fail, disk, FilesKnown
<1>4. CASE LoadEngine
  <2>1. CASE Fail
    BY <1>3, <2>1
  <2>2. CASE ~Fail
    BY <1>4, <2>2 DEF LoadEngine, disk, FilesKnown, TableAsRead, KeysAsRead
  <2> QED
    BY <2>1, <2>2
<1>5. ASSUME NEW f \in ListFiles, LoadFile(f) PROVE FilesKnown' /\ TableAsRead' /\ KeysAsRead'
  <2>1. CASE GoodFile(f)
    BY <1>5, <2>1, InsertAsRead DEF LoadFile, Insert, disk, FilesKnown
  <2>2. CASE ~GoodFile(f)
    BY <1>3, <1>5, <2>2 DEF LoadFile
  <2> QED
    BY <2>1, <2>2
<1>6. CASE Validate
  <2>1. CASE \A a \in DOMAIN lists : Known(lists[a].policy)
    BY <1>6, <2>1 DEF Validate, disk, FilesKnown, TableAsRead, KeysAsRead, Known
  <2>2. CASE ~ \A a \in DOMAIN lists : Known(lists[a].policy)
    BY <1>3, <1>6, <2>2 DEF Validate
  <2> QED
    BY <2>1, <2>2
<1>7. CASE Stop
  BY <1>7, GoneReadsNothing DEF Stop, disk, FilesKnown
<1>8. ASSUME NEW f \in ListFiles, EditList(f) PROVE FilesKnown' /\ TableAsRead' /\ KeysAsRead'
  <2>1. UNCHANGED <<keys, process>> /\ changed' = (stage # "down")
    BY <1>8 DEF EditList, Touched, setupVars
  <2>2. FilesKnown'
    <3>1. ASSUME NEW conf \in Confs[f], files' = With(files, f, conf) PROVE FilesKnown'
      BY <3>1 DEF FilesKnown, With
    <3>2. CASE files' = [g \in DOMAIN files \ {f} |-> files[g]]
      BY <3>2 DEF FilesKnown
    <3> QED
      BY <1>8, <3>1, <3>2 DEF EditList
  <2> QED
    BY <2>1, <2>2 DEF process, TableAsRead, KeysAsRead, Known
<1>9. ASSUME NEW s \in ScriptFiles, EditScript(s) PROVE FilesKnown' /\ TableAsRead' /\ KeysAsRead'
  BY <1>9 DEF EditScript, Touched, setupVars, process, FilesKnown, TableAsRead, KeysAsRead, Known
<1>10. CASE RunSetup
  <2>1. UNCHANGED <<files, process>>
    BY <1>10 DEF RunSetup
  <2>2. (keys' = keys /\ changed' = changed) \/ changed' = (stage # "down")
    BY <1>10 DEF RunSetup, Touched
  <2> QED
    BY <2>1, <2>2 DEF process, FilesKnown, TableAsRead, KeysAsRead, Known
<1>11. ASSUME NEW a \in DOMAIN lists, NEW recipient \in Recipients, SendCopy(a, recipient)
       PROVE  UNCHANGED <<disk, process, changed>>
  BY <1>11 DEF SendCopy
<1>12. ASSUME NEW report \in Reports, ReturnCopy(report) PROVE UNCHANGED <<disk, process, changed>>
  BY <1>12 DEF ReturnCopy
<1>13. ASSUME NEW address \in Addresses, Write(address) PROVE UNCHANGED <<disk, process, changed>>
  BY <1>13 DEF Write
<1>14. CASE Done \/ UNCHANGED vars
  BY <1>1, <1>14 DEF Done, vars
<1> QED
  BY <1>1, <1>2, <1>4, <1>5, <1>6, <1>7, <1>8, <1>9, <1>10, <1>11, <1>12, <1>13, <1>14 DEF Next

-----------------------------------------------------------------------------
(* What the daemon signs can be verified.                                    *)

LEMMA UndisturbedStep ==
    ASSUME SetupShape, Undisturbed, [Next]_vars PROVE SetupShape' /\ Undisturbed'
<1>1. CASE RunSetup
  BY <1>1, SetupUndisturbed DEF RunSetup
<1>2. CASE UNCHANGED setupVars
  BY <1>2 DEF setupVars, SetupShape, Undisturbed, Quiet, UnderWay, WrittenBy
<1>3. ASSUME NEW f \in ListFiles, LoadFile(f) \/ EditList(f) PROVE UNCHANGED setupVars
  BY <1>3 DEF LoadFile, Insert, Fail, EditList, disk, setupVars
<1>4. ASSUME LoadEngine \/ Validate PROVE UNCHANGED setupVars
  BY <1>4 DEF LoadEngine, Validate, Fail, disk, setupVars
<1>5. ASSUME \/ \E s \in ScriptFiles : EditScript(s)
             \/ \E a \in DOMAIN lists, recipient \in Recipients : SendCopy(a, recipient)
             \/ \E report \in Reports : ReturnCopy(report)
             \/ \E address \in Addresses : Write(address)
      PROVE  UNCHANGED setupVars
  BY <1>5 DEF EditScript, SendCopy, ReturnCopy, Write, disk, setupVars
<1>6. ASSUME Start \/ Stop \/ Done \/ UNCHANGED vars PROVE UNCHANGED setupVars
  BY <1>6 DEF Start, Stop, Done, vars, disk, setupVars
<1> QED
  BY <1>1, <1>2, <1>3, <1>4, <1>5, <1>6 DEF Next

LEMMA InitUndisturbed == Init => SetupShape /\ Undisturbed
<1> SUFFICES ASSUME Init PROVE SetupShape /\ Undisturbed
  OBVIOUS
<1>1. /\ setups = 0 /\ running = [r \in Runs |-> [setup |-> 0, step |-> 0]] /\ disturbed = FALSE
      /\ \/ keys = [path \in Paths |-> Nothing] /\ zone = Nothing
         \/ keys = WrittenBy(0) /\ zone = 0
  BY DEF Init, SetupInit
<1>2. WrittenBy(0) \in [Paths -> Contents]
  <2>1. \A path \in Paths : (CHOOSE i \in DOMAIN KeyFile : KeyFile[i] = path) \in DOMAIN KeyFile
    BY DEF Paths
  <2>2. \A path \in Paths : Key(0, CHOOSE i \in DOMAIN KeyFile : KeyFile[i] = path) \in Contents
    BY <2>1, Labels DEF Key, Contents
  <2> QED
    BY <2>2 DEF WrittenBy
<1>3. [path \in Paths |-> Nothing] \in [Paths -> Contents]
  BY DEF Contents
<1>4. 0 \in 0..EndStep
  BY Labels
<1>5. SetupShape
  BY <1>1, <1>2, <1>3, <1>4 DEF SetupShape
<1>6. Quiet
  <2>1. running = [r \in Runs |-> [setup |-> 0, step |-> 0]]
    BY <1>1
  <2>2. ASSUME NEW r \in Runs PROVE ~UnderWay(r)
    <3>1. running[r].step = 0
      BY <2>1
    <3>2. ~(running[r].step > 0)
      BY <3>1
    <3> QED
      BY <3>2 DEF UnderWay
  <2> QED
    BY <2>2 DEF Quiet
<1> QED
  BY <1>1, <1>5, <1>6 DEF Undisturbed, Quiet

LEMMA InitAsRead == Init => FilesKnown /\ TableAsRead /\ KeysAsRead
BY DeploymentAssumption, EmptyTable DEF Init, FilesKnown, TableAsRead, KeysAsRead

(* Key files hold nothing, a torn key or a whole one; a setup is at a step.  *)
THEOREM SetupTyped == Spec => []SetupShape
<1>1. SetupShape /\ Undisturbed /\ [Next]_vars => (SetupShape /\ Undisturbed)'
  BY UndisturbedStep
<1> QED
  BY <1>1, InitUndisturbed, PTL DEF Spec

LEMMA KeysAgree ==
    ASSUME SetupShape, Undisturbed, KeysAsRead PROVE SignaturesVerify
<1>1. ASSUME Quiet, ~disturbed, zone # Nothing PROVE keys = WrittenBy(zone)
  BY <1>1 DEF Undisturbed
<1>2. ASSUME Quiet, ~disturbed, ~changed, dns = zone, NEW a \in DOMAIN lists
      PROVE  lists[a].keys = WrittenBy(dns)
  <2>1. lists[a].keys = keys /\ \A path \in Paths : keys[path] # Nothing
    BY <1>2 DEF KeysAsRead
  <2>2. CASE keys = WrittenBy(zone)
    BY <1>2, <2>1, <2>2
  <2>3. CASE keys = [path \in Paths |-> Nothing]
    <3>1. Paths = {}
      BY <2>1, <2>3
    <3>2. DOMAIN KeyFile = {}
      BY <3>1 DEF Paths
    <3>3. keys = WrittenBy(zone)
      BY <3>2, AllWritten DEF SetupShape
    <3> QED
      BY <1>2, <2>1, <3>3
  <2> QED
    BY <1>2, <2>2, <2>3 DEF Undisturbed
<1> QED
  BY <1>1, <1>2 DEF SignaturesVerify, ZoneMatchesKeys, Quiet

(* Zone, key files, published records and the keys of the running daemon     *)
(* agree, however many setups ran, died or ran at the same time before.      *)
THEOREM SignaturesCanBeVerified == Spec => []SignaturesVerify
<1>1. /\ SetupShape /\ Undisturbed /\ FilesKnown /\ TableAsRead /\ KeysAsRead
      /\ [Next]_vars
      => (SetupShape /\ Undisturbed /\ FilesKnown /\ TableAsRead /\ KeysAsRead)'
  BY UndisturbedStep, AsReadStep
<1>2. SetupShape /\ Undisturbed /\ KeysAsRead => SignaturesVerify
  BY KeysAgree
<1> QED
  BY <1>1, <1>2, InitUndisturbed, InitAsRead, PTL DEF Spec

-----------------------------------------------------------------------------
(* Positions in an address.                                                  *)

LEMMA Least == ASSUME NEW S \in SUBSET Nat, S # {} PROVE \E i \in S : \A j \in S : i <= j
<1>1. PICK R : IsWellFoundedOn(R, Nat) /\ \A x, y \in Nat : x < y => <<x, y>> \in R
  <2> DEFINE L == OpToRel(<, Nat)
  <2>1. IsWellFoundedOn(L, Nat)
    BY NatLessThanWellFounded
  <2>2. \A x, y \in Nat : x < y => <<x, y>> \in L
    BY DEF OpToRel
  <2> HIDE DEF L
  <2> QED
    BY <2>1, <2>2
<1>2. IsWellFoundedOn(R, Nat)
  BY <1>1
<1>3. \E i \in S : \A j \in S : ~(<<j, i>> \in R)
  BY <1>2, WFMin
<1>4. PICK i \in S : \A j \in S : ~(<<j, i>> \in R)
  BY <1>3
<1>5. \A j \in S : j \in Nat /\ i \in Nat /\ ~(j < i)
  BY <1>1, <1>4
<1> QED
  BY <1>5

LEMMA Greatest ==
    ASSUME NEW n \in Nat, NEW S \in SUBSET (1..n), S # {} PROVE \E i \in S : \A j \in S : j <= i
<1> DEFINE T == {n - i : i \in S}
<1>1. T \in SUBSET Nat /\ T # {}
  <2>1. \A i \in S : n - i \in Nat
    OBVIOUS
  <2>2. T \in SUBSET Nat
    BY <2>1
  <2>3. PICK i \in S : TRUE
    OBVIOUS
  <2>4. n - i \in T
    BY <2>3
  <2> QED
    BY <2>2, <2>4
<1>2. PICK k \in T : \A l \in T : k <= l
  <2> HIDE DEF T
  <2> QED
    BY <1>1, Least
<1>3. PICK i \in S : k = n - i
  BY <1>2
<1>4. \A j \in S : n - i <= n - j
  BY <1>2, <1>3
<1> QED
  BY <1>4

LEMMA FirstOfIs ==
    ASSUME NEW S \in SUBSET Nat, NEW i \in S, \A j \in S : i <= j PROVE FirstOf(S) = i
<1>1. FirstOf(S) \in S /\ \A j \in S : FirstOf(S) <= j
  BY DEF FirstOf
<1>2. FirstOf(S) <= i /\ i <= FirstOf(S)
  BY <1>1
<1>3. FirstOf(S) \in Nat /\ i \in Nat
  BY <1>1
<1> QED
  BY <1>2, <1>3

LEMMA LastOfIs ==
    ASSUME NEW S \in SUBSET Nat, NEW i \in S, \A j \in S : j <= i PROVE LastOf(S) = i
<1>1. LastOf(S) \in S /\ \A j \in S : j <= LastOf(S)
  BY DEF LastOf
<1>2. LastOf(S) <= i /\ i <= LastOf(S)
  BY <1>1
<1>3. LastOf(S) \in Nat /\ i \in Nat
  BY <1>1
<1> QED
  BY <1>2, <1>3

LEMMA FirstOfFacts ==
    ASSUME NEW S \in SUBSET Nat, S # {} PROVE FirstOf(S) \in S /\ \A j \in S : FirstOf(S) <= j
<1>1. \E i \in S : \A j \in S : i <= j
  BY Least
<1> QED
  BY <1>1 DEF FirstOf

LEMMA LastOfFacts ==
    ASSUME NEW n \in Nat, NEW S \in SUBSET (1..n), S # {}
    PROVE  LastOf(S) \in S /\ \A j \in S : j <= LastOf(S)
<1>1. \E i \in S : \A j \in S : j <= i
  BY Greatest
<1> QED
  BY <1>1 DEF LastOf

(* The addresses, and whatever is cut out of them or put together.           *)
Separators == {"@", "=", "+bounce"}
Words == Seq(STRING \cup Separators \cup {"d"})

LEMMA WordFacts ==
    ASSUME NEW s \in Words
    PROVE  Len(s) \in Nat /\ DOMAIN s = 1..Len(s)
BY DEF Words

LEMMA SameWord ==
    ASSUME NEW s \in Words, NEW t \in Words, Len(s) = Len(t), \A i \in 1..Len(s) : s[i] = t[i]
    PROVE  s = t
BY SeqEqual DEF Words

LEMMA PositionsFacts ==
    ASSUME NEW s \in Words, NEW c
    PROVE  /\ Positions(s, c) \in SUBSET (1..Len(s)) /\ Positions(s, c) \in SUBSET Nat
           /\ \A i \in 1..Len(s) : i \in Positions(s, c) <=> s[i] = c
BY WordFacts DEF Positions

(* The part of s from m to n. *)
LEMMA PartFacts ==
    ASSUME NEW s \in Words, NEW m \in Nat, NEW n \in Nat, 1 <= m, m <= n + 1, n <= Len(s)
    PROVE  /\ SubSeq(s, m, n) \in Words /\ Len(SubSeq(s, m, n)) = n - m + 1
           /\ \A i \in 1..(n - m + 1) : SubSeq(s, m, n)[i] = s[m + i - 1]
<1> USE DEF Words
<1>1. \A i \in m..n : s[i] \in STRING \cup Separators \cup {"d"}
  OBVIOUS
<1> HIDE DEF Words
<1>2. SubSeq(s, m, n) \in Seq(STRING \cup Separators \cup {"d"})
  BY <1>1, SubSeqProperties
<1>3. Len(SubSeq(s, m, n)) = n - m + 1
  BY <1>1, SubSeqProperties
<1>4. \A i \in 1..(n - m + 1) : SubSeq(s, m, n)[i] = s[m + i - 1]
  BY <1>1, SubSeqProperties
<1> QED
  BY <1>2, <1>3, <1>4 DEF Words

LEMMA UpToFacts ==
    ASSUME NEW s \in Words, NEW n \in Nat, n <= Len(s)
    PROVE  /\ UpTo(s, n) \in Words /\ Len(UpTo(s, n)) = n
           /\ \A i \in 1..n : UpTo(s, n)[i] = s[i]
<1>1. 1 \in Nat /\ 1 <= n + 1 /\ n - 1 + 1 = n /\ \A i \in 1..n : 1 + i - 1 = i
  OBVIOUS
<1> QED
  BY <1>1, PartFacts DEF UpTo

LEMMA AfterFacts ==
    ASSUME NEW s \in Words, NEW n \in Nat, n <= Len(s)
    PROVE  /\ After(s, n) \in Words /\ Len(After(s, n)) = Len(s) - n
           /\ \A i \in 1..(Len(s) - n) : After(s, n)[i] = s[n + i]
<1>1. Len(s) \in Nat
  BY WordFacts
<1>2. PICK m \in Nat, k \in Nat : m = n + 1 /\ k = Len(s)
  <2>1. n + 1 \in Nat
    OBVIOUS
  <2> QED
    BY <1>1, <2>1
<1>3. 1 <= m /\ m <= k + 1 /\ k <= Len(s) /\ k - m + 1 = Len(s) - n
  BY <1>2
<1>4. /\ SubSeq(s, m, k) \in Words /\ Len(SubSeq(s, m, k)) = k - m + 1
      /\ \A i \in 1..(k - m + 1) : SubSeq(s, m, k)[i] = s[m + i - 1]
  BY <1>3, PartFacts
<1>5. After(s, n) = SubSeq(s, m, k)
  BY <1>2 DEF After
<1>6. \A i \in 1..(Len(s) - n) : m + i - 1 = n + i
  BY <1>1, <1>2
<1> QED
  BY <1>3, <1>4, <1>5, <1>6

-----------------------------------------------------------------------------
(* The return path of a copy, taken apart again.                             *)

(* u is s, of length n, and after it t, of length l.                         *)
IsJoin(u, s, t, n, l) == u = s \o t /\ s \in Words /\ t \in Words /\ n = Len(s) /\ l = Len(t)

LEMMA Joined ==
    ASSUME NEW s, NEW t, NEW u, NEW n, NEW l, IsJoin(u, s, t, n, l)
    PROVE  /\ n \in Nat /\ l \in Nat /\ u \in Words /\ n + l = Len(u)
           /\ \A i \in 1..n : u[i] = s[i]
           /\ \A i \in 1..l : u[n + i] = t[i]
<1> USE DEF IsJoin, Words
<1>1. n \in Nat /\ l \in Nat /\ u \in Words /\ n + l = Len(u)
  OBVIOUS
<1>2. ASSUME NEW i \in 1..n PROVE u[i] = s[i]
  OBVIOUS
<1>3. ASSUME NEW i \in 1..l PROVE u[n + i] = t[i]
  OBVIOUS
<1> QED
  BY <1>1, <1>2, <1>3

(* Where the parts lie when five are put together, two of them of a length   *)
(* that is known.                                                            *)
LaidOut(u, a, b, c, d, e, k, m, n) ==
    /\ k \in Nat /\ m \in Nat /\ n \in Nat
    /\ u \in Words /\ Len(u) = k + m + n + 3
    /\ \A i \in 1..k : u[i] = a[i]
    /\ \A i \in 1..2 : u[k + i] = b[i]
    /\ \A i \in 1..m : u[k + 2 + i] = c[i]
    /\ u[k + m + 3] = d[1]
    /\ \A i \in 1..n : u[k + m + 3 + i] = e[i]

AreJoined(u1, u2, u3, u, a, b, c, d, e, k, l1, l2, l3, m, n) ==
    /\ IsJoin(u1, a, b, k, 2) /\ IsJoin(u2, u1, c, l1, m)
    /\ IsJoin(u3, u2, d, l2, 1) /\ IsJoin(u, u3, e, l3, n)

LEMMA FiveJoined ==
    ASSUME NEW a, NEW b, NEW c, NEW d, NEW e, NEW k, NEW m, NEW n,
           NEW u1, NEW u2, NEW u3, NEW u, NEW l1, NEW l2, NEW l3,
           AreJoined(u1, u2, u3, u, a, b, c, d, e, k, l1, l2, l3, m, n)
    PROVE  LaidOut(u, a, b, c, d, e, k, m, n)
<1>0. /\ IsJoin(u1, a, b, k, 2) /\ IsJoin(u2, u1, c, l1, m)
      /\ IsJoin(u3, u2, d, l2, 1) /\ IsJoin(u, u3, e, l3, n)
  BY DEF AreJoined
<1>1. /\ k \in Nat /\ k + 2 = Len(u1)
      /\ \A i \in 1..k : u1[i] = a[i]
      /\ \A i \in 1..2 : u1[k + i] = b[i]
  <2>1. IsJoin(u1, a, b, k, 2)
    BY <1>0
  <2> QED
    BY <2>1, Joined
<1>2. /\ m \in Nat /\ l1 + m = Len(u2)
      /\ \A i \in 1..l1 : u2[i] = u1[i]
      /\ \A i \in 1..m : u2[l1 + i] = c[i]
  <2>1. IsJoin(u2, u1, c, l1, m)
    BY <1>0
  <2> QED
    BY <2>1, Joined
<1>3. /\ l2 + 1 = Len(u3)
      /\ \A i \in 1..l2 : u3[i] = u2[i]
      /\ \A i \in 1..1 : u3[l2 + i] = d[i]
  <2>1. IsJoin(u3, u2, d, l2, 1)
    BY <1>0
  <2> QED
    BY <2>1, Joined
<1>4. /\ n \in Nat /\ u \in Words /\ l3 + n = Len(u)
      /\ \A i \in 1..l3 : u[i] = u3[i]
      /\ \A i \in 1..n : u[l3 + i] = e[i]
  <2>1. IsJoin(u, u3, e, l3, n)
    BY <1>0
  <2> QED
    BY <2>1, Joined
<1>5. l1 = k + 2 /\ l2 = k + m + 2 /\ l3 = k + m + 3
  <2>1. l1 = Len(u1) /\ l2 = Len(u2) /\ l3 = Len(u3)
    BY <1>0 DEF IsJoin
  <2>2. l1 = k + 2 /\ l2 = l1 + m /\ l3 = l2 + 1 /\ k \in Nat /\ m \in Nat
    BY <1>1, <1>2, <1>3, <2>1
  <2> QED
    BY <2>2
<1>6. Len(u) = k + m + n + 3
  BY <1>1, <1>2, <1>4, <1>5
<1>7. ASSUME NEW i \in 1..k PROVE u[i] = a[i]
  BY <1>1, <1>2, <1>3, <1>4, <1>5
<1>8. ASSUME NEW i \in 1..2 PROVE u[k + i] = b[i]
  BY <1>1, <1>2, <1>3, <1>4, <1>5
<1>9. ASSUME NEW i \in 1..m PROVE u[k + 2 + i] = c[i]
  BY <1>1, <1>2, <1>3, <1>4, <1>5
<1>10. u[k + m + 3] = d[1]
  <2>1. k + m + 3 \in 1..l3 /\ 1 \in 1..1 /\ k + m + 3 = l2 + 1
    BY <1>1, <1>2, <1>5
  <2>2. u[k + m + 3] = u3[k + m + 3] /\ u3[l2 + 1] = d[1]
    BY <1>3, <1>4, <2>1
  <2> QED
    BY <2>1, <2>2
<1>11. ASSUME NEW i \in 1..n PROVE u[k + m + 3 + i] = e[i]
  BY <1>1, <1>2, <1>3, <1>4, <1>5
<1> QED
  BY <1>1, <1>2, <1>4, <1>6, <1>7, <1>8, <1>9, <1>10, <1>11 DEF LaidOut

(* The parts of <local>+bounce=<encoded>@<domain>, and their lengths.        *)
IsReturnPath(path, local, encoded, domain, k, m, n) ==
    /\ local \in Words /\ encoded \in Words /\ domain \in Words /\ path \in Words
    /\ k \in Nat /\ m \in Nat /\ n \in Nat
    /\ k = Len(local) /\ m = Len(encoded) /\ n = Len(domain)
    /\ Len(path) = k + m + n + 3
    /\ \A i \in 1..k : path[i] = local[i]
    /\ path[k + 1] = "+bounce" /\ path[k + 2] = "="
    /\ \A i \in 1..m : path[k + 2 + i] = encoded[i]
    /\ path[k + m + 3] = "@"
    /\ \A i \in 1..n : path[k + m + 3 + i] = domain[i]

LEMMA ReturnPathLayout ==
    ASSUME NEW local \in Words, NEW encoded \in Words, NEW domain \in Words,
           NEW path, path = local \o <<"+bounce", "=">> \o encoded \o <<"@">> \o domain,
           NEW k, k = Len(local), NEW m, m = Len(encoded), NEW n, n = Len(domain)
    PROVE  IsReturnPath(path, local, encoded, domain, k, m, n)
<1>1. PICK b, d : b = <<"+bounce", "=">> /\ d = <<"@">>
  OBVIOUS
<1>2. PICK u1, u2, u3 : u1 = local \o b /\ u2 = u1 \o encoded /\ u3 = u2 \o d /\ path = u3 \o domain
  BY <1>1
<1>3. PICK l1, l2, l3 : l1 = Len(u1) /\ l2 = Len(u2) /\ l3 = Len(u3)
  OBVIOUS
<1>4. b \in Words /\ 2 = Len(b) /\ d \in Words /\ 1 = Len(d)
  BY <1>1 DEF Words, Separators
<1>5. b[1] = "+bounce" /\ b[2] = "=" /\ d[1] = "@"
  BY <1>1
<1>6. IsJoin(u1, local, b, k, 2)
  BY <1>2, <1>4 DEF IsJoin
<1>7. IsJoin(u2, u1, encoded, l1, m)
  BY <1>2, <1>3, <1>6, Joined DEF IsJoin
<1>8. IsJoin(u3, u2, d, l2, 1)
  BY <1>2, <1>3, <1>4, <1>7, Joined DEF IsJoin
<1>9. IsJoin(path, u3, domain, l3, n)
  BY <1>2, <1>3, <1>8, Joined DEF IsJoin
<1>10. LaidOut(path, local, b, encoded, d, domain, k, m, n)
  BY <1>6, <1>7, <1>8, <1>9, FiveJoined DEF AreJoined
<1>11. path[k + 1] = "+bounce" /\ path[k + 2] = "="
  <2>1. 1 \in 1..2 /\ 2 \in 1..2
    OBVIOUS
  <2> QED
    BY <1>5, <1>10, <2>1 DEF LaidOut
<1> QED
  BY <1>5, <1>10, <1>11 DEF LaidOut, IsReturnPath

(* Where decode_verp finds them.                                             *)
LEMMA DomainFound ==
    ASSUME NEW path, NEW local, NEW encoded, NEW domain, NEW k, NEW m, NEW n,
           IsReturnPath(path, local, encoded, domain, k, m, n), Positions(domain, "@") = {}
    PROVE  Positions(path, "@") # {} /\ LastOf(Positions(path, "@")) = k + m + 3
<1>1. /\ path \in Words /\ Len(path) = k + m + n + 3 /\ k \in Nat /\ m \in Nat /\ n \in Nat
      /\ domain \in Words /\ n = Len(domain) /\ path[k + m + 3] = "@"
      /\ \A i \in 1..n : path[k + m + 3 + i] = domain[i]
  BY DEF IsReturnPath
<1>2. PICK at \in Nat : at = k + m + 3 /\ at \in 1..Len(path) /\ Len(path) = at + n
  <2>1. k + m + 3 \in Nat /\ k + m + 3 \in 1..(k + m + n + 3) /\ k + m + n + 3 = k + m + 3 + n
    BY <1>1
  <2> QED
    BY <1>1, <2>1
<1>3. at \in Positions(path, "@")
  BY <1>1, <1>2, PositionsFacts
<1>4. ASSUME NEW j \in Positions(path, "@") PROVE j <= at
  <2>1. j \in Nat /\ j \in 1..Len(path) /\ path[j] = "@"
    BY <1>1, PositionsFacts
  <2>2. ASSUME j > at PROVE FALSE
    <3>1. PICK i \in 1..n : j = at + i
      <4>1. j - at \in 1..n /\ j = at + (j - at)
        BY <1>1, <1>2, <2>1, <2>2
      <4> QED
        BY <4>1
    <3>2. domain[i] = "@"
      BY <1>1, <1>2, <2>1, <3>1
    <3> QED
      BY <1>1, <3>2, PositionsFacts
  <2> QED
    BY <1>2, <2>1, <2>2
<1>5. Positions(path, "@") \in SUBSET Nat
  BY <1>1, PositionsFacts
<1>6. LastOf(Positions(path, "@")) = at
  BY <1>3, <1>4, <1>5, LastOfIs
<1> QED
  BY <1>2, <1>3, <1>6

(* The part before the domain, and what is in it.                            *)
LEMMA MarkerFound ==
    ASSUME NEW path, NEW local, NEW encoded, NEW domain, NEW k, NEW m, NEW n,
           IsReturnPath(path, local, encoded, domain, k, m, n), Markers(local) = {},
           NEW mailbox, mailbox = UpTo(path, k + m + 2)
    PROVE  /\ mailbox \in Words /\ Len(mailbox) = k + m + 2
           /\ \A i \in 1..(k + m + 2) : mailbox[i] = path[i]
           /\ Markers(mailbox) # {} /\ FirstOf(Markers(mailbox)) = k + 1
<1>1. /\ path \in Words /\ Len(path) = k + m + n + 3 /\ k \in Nat /\ m \in Nat /\ n \in Nat
      /\ local \in Words /\ k = Len(local)
      /\ path[k + 1] = "+bounce" /\ path[k + 2] = "="
      /\ \A i \in 1..k : path[i] = local[i]
  BY DEF IsReturnPath
<1>2. PICK l \in Nat : l = k + m + 2 /\ l <= Len(path)
  <2>1. k + m + 2 \in Nat /\ k + m + 2 <= k + m + n + 3
    BY <1>1
  <2> QED
    BY <1>1, <2>1
<1>3. mailbox \in Words /\ Len(mailbox) = l /\ \A i \in 1..l : mailbox[i] = path[i]
  BY <1>1, <1>2, UpToFacts
<1>4. ASSUME NEW i PROVE i \in Markers(mailbox) <=> i \in 1..l /\ i < l /\ path[i] = "+bounce" /\ path[i + 1] = "="
  <2>1. DOMAIN mailbox = 1..l
    BY <1>3, WordFacts
  <2>2. i \in Markers(mailbox) <=> i \in 1..l /\ i < l /\ mailbox[i] = "+bounce" /\ mailbox[i + 1] = "="
    BY <1>3, <2>1 DEF Markers, Positions
  <2>3. i \in 1..l /\ i < l => i + 1 \in 1..l
    BY <1>2
  <2> QED
    BY <1>3, <2>2, <2>3
<1>5. k + 1 \in Markers(mailbox)
  <2>1. k + 1 \in 1..l /\ k + 1 < l /\ k + 1 + 1 = k + 2
    BY <1>1, <1>2
  <2> QED
    BY <1>1, <1>4, <2>1
<1>6. ASSUME NEW i \in Markers(mailbox) PROVE k + 1 <= i
  <2>1. i \in 1..l /\ i \in Nat /\ path[i] = "+bounce" /\ path[i + 1] = "="
    BY <1>4
  <2>2. CASE i < k
    <3>1. i \in 1..k /\ i + 1 \in 1..k
      BY <1>1, <2>1, <2>2
    <3>2. local[i] = "+bounce" /\ local[i + 1] = "="
      BY <1>1, <2>1, <3>1
    <3>3. DOMAIN local = 1..k
      BY <1>1, WordFacts
    <3>4. i \in Markers(local)
      BY <1>1, <2>2, <3>1, <3>2, <3>3 DEF Markers, Positions
    <3> QED
      BY <3>4
  <2>3. CASE i = k
    BY <1>1, <2>1, <2>3
  <2> QED
    BY <1>1, <2>1, <2>2, <2>3
<1>7. Markers(mailbox) \in SUBSET Nat
  BY <1>4
<1>8. FirstOf(Markers(mailbox)) = k + 1
  BY <1>5, <1>6, <1>7, FirstOfIs
<1> QED
  BY <1>2, <1>3, <1>5, <1>8

LEMMA Decoded ==
    ASSUME NEW path, NEW local, NEW encoded, NEW domain, NEW k, NEW m, NEW n,
           IsReturnPath(path, local, encoded, domain, k, m, n),
           Markers(local) = {}, Positions(domain, "@") = {}
    PROVE  DecodeVerp(path) =
              IF Positions(encoded, "=") = {} THEN NotVerp
              ELSE [ok |-> TRUE,
                    base |-> local \o SubSeq(path, k + m + 3, Len(path)),
                    recipient |-> [encoded EXCEPT ![LastOf(Positions(encoded, "="))] = "@"]]
<1>1. /\ path \in Words /\ Len(path) = k + m + n + 3 /\ k \in Nat /\ m \in Nat /\ n \in Nat
      /\ local \in Words /\ k = Len(local) /\ encoded \in Words /\ m = Len(encoded)
      /\ \A i \in 1..k : path[i] = local[i]
      /\ \A i \in 1..m : path[k + 2 + i] = encoded[i]
  BY DEF IsReturnPath
<1>2. PICK at \in Nat, end \in Nat, mark \in Nat, l \in Nat :
         at = k + m + 3 /\ end = k + m + 2 /\ mark = k + 1 /\ l = k + 2
  <2>1. k + m + 3 \in Nat /\ k + m + 2 \in Nat /\ k + 1 \in Nat /\ k + 2 \in Nat
    BY <1>1
  <2> QED
    BY <2>1
<1>3. at - 1 = end /\ mark - 1 = k /\ mark + 1 = l /\ l + m = end
  BY <1>1, <1>2
<1>4. Positions(path, "@") # {} /\ LastOf(Positions(path, "@")) = at
  BY <1>2, DomainFound
<1>5. PICK mailbox :
         /\ mailbox = UpTo(path, end)
         /\ mailbox \in Words /\ Len(mailbox) = end
         /\ \A i \in 1..end : mailbox[i] = path[i]
         /\ Markers(mailbox) # {} /\ FirstOf(Markers(mailbox)) = mark
  BY <1>2, MarkerFound
<1>6. UpTo(mailbox, k) = local
  <2>1. k <= Len(mailbox) /\ \A i \in 1..k : i \in 1..end
    BY <1>1, <1>2, <1>5
  <2>2. UpTo(mailbox, k) \in Words /\ Len(UpTo(mailbox, k)) = k
        /\ \A i \in 1..k : UpTo(mailbox, k)[i] = mailbox[i]
    BY <1>1, <1>5, <2>1, UpToFacts
  <2>3. \A i \in 1..k : UpTo(mailbox, k)[i] = local[i]
    BY <1>1, <1>5, <2>1, <2>2
  <2> QED
    BY <1>1, <2>2, <2>3, SameWord
<1>7. After(mailbox, l) = encoded
  <2>1. l <= Len(mailbox) /\ Len(mailbox) - l = m
    BY <1>1, <1>3, <1>5
  <2>2. After(mailbox, l) \in Words /\ Len(After(mailbox, l)) = m
        /\ \A i \in 1..m : After(mailbox, l)[i] = mailbox[l + i]
    BY <1>5, <2>1, AfterFacts
  <2>3. \A i \in 1..m : mailbox[l + i] = encoded[i]
    <3> TAKE i \in 1..m
    <3>1. l + i \in 1..end /\ l + i = k + 2 + i
      BY <1>1, <1>2
    <3> QED
      BY <1>1, <1>5, <3>1
  <2> QED
    BY <1>1, <2>2, <2>3, SameWord
<1>8. UpTo(path, LastOf(Positions(path, "@")) - 1) = mailbox
  BY <1>3, <1>4, <1>5
<1>9. /\ UpTo(mailbox, FirstOf(Markers(mailbox)) - 1) = local
      /\ After(mailbox, FirstOf(Markers(mailbox)) + 1) = encoded
  BY <1>3, <1>5, <1>6, <1>7
<1>10. CASE Positions(encoded, "=") = {}
  <2>1. DecodeVerp(path) = NotVerp
    BY <1>4, <1>5, <1>8, <1>9, <1>10 DEF DecodeVerp
  <2> QED
    BY <1>10, <2>1
<1>11. CASE Positions(encoded, "=") # {}
  <2>1. DecodeVerp(path) =
          [ok |-> TRUE,
           base |-> local \o SubSeq(path, at, Len(path)),
           recipient |-> [encoded EXCEPT ![LastOf(Positions(encoded, "="))] = "@"]]
    BY <1>4, <1>5, <1>8, <1>9, <1>11 DEF DecodeVerp
  <2> QED
    BY <1>2, <1>11, <2>1
<1> QED
  BY <1>10, <1>11

(* A posting address is its local part, its only @ and its domain.           *)
LEMMA PostingParts ==
    ASSUME NEW posting \in Words, ValidPosting(posting), Plain(posting),
           NEW local, local = LocalPart(posting), NEW domain, domain = Domain(posting)
    PROVE  /\ local \in Words /\ domain \in Words
           /\ Markers(local) = {} /\ Positions(domain, "@") = {}
           /\ Len(posting) = Len(local) + 1 + Len(domain)
           /\ \A i \in 1..Len(local) : posting[i] = local[i]
           /\ posting[Len(local) + 1] = "@"
           /\ \A i \in 1..Len(domain) : posting[Len(local) + 1 + i] = domain[i]
<1> DEFINE ats == Positions(posting, "@")
<1>1. PICK l \in Nat : l = Len(posting)
  BY WordFacts
<1>2. ats \in SUBSET (1..l) /\ ats \in SUBSET Nat /\ ats # {}
  BY <1>1, PositionsFacts DEF ValidPosting
<1>3. \A i \in 1..l : i \in ats <=> posting[i] = "@"
  BY <1>1, PositionsFacts
<1> HIDE DEF ats
<1>4. PICK last \in ats : last = LastOf(ats) /\ \A j \in ats : j <= last
  BY <1>1, <1>2, LastOfFacts
<1>5. last \in Nat /\ last \in 1..l /\ posting[last] = "@"
  BY <1>2, <1>3, <1>4
<1>6. PICK k \in Nat : k = last - 1 /\ k <= Len(posting) /\ last = k + 1
  <2>1. last - 1 \in Nat /\ last - 1 <= l /\ last = last - 1 + 1
    BY <1>1, <1>5
  <2> QED
    BY <1>1, <2>1
<1>7. /\ UpTo(posting, k) \in Words /\ Len(UpTo(posting, k)) = k
      /\ \A i \in 1..k : UpTo(posting, k)[i] = posting[i]
  BY <1>6, UpToFacts
<1>8. Mailbox(posting) = UpTo(posting, k)
  BY <1>4, <1>6 DEF Mailbox, ats
<1>9. ASSUME NEW j \in ats PROVE last <= j
  <2>1. j \in Nat /\ j \in 1..l /\ posting[j] = "@"
    BY <1>2, <1>3
  <2>2. ASSUME j < last PROVE FALSE
    <3>1. j \in 1..k
      BY <1>5, <1>6, <2>1, <2>2
    <3>2. UpTo(posting, k)[j] = "@"
      BY <1>7, <2>1, <3>1
    <3>3. j \in Positions(UpTo(posting, k), "@")
      BY <1>7, <3>1, <3>2, PositionsFacts
    <3> QED
      BY <1>8, <3>3 DEF Plain
  <2> QED
    BY <1>5, <2>1, <2>2
<1>10. FirstOf(ats) = last
  BY <1>2, <1>4, <1>9, FirstOfIs
<1>11. local = UpTo(posting, k)
  BY <1>2, <1>6, <1>10 DEF LocalPart, ats
<1>12. domain = After(posting, last)
  BY <1>4 DEF Domain, ats
<1>13. /\ domain \in Words /\ Len(domain) = l - last
       /\ \A i \in 1..(l - last) : domain[i] = posting[last + i]
  <2>1. last \in Nat /\ last <= Len(posting)
    BY <1>1, <1>5
  <2>2. /\ After(posting, last) \in Words /\ Len(After(posting, last)) = Len(posting) - last
        /\ \A i \in 1..(Len(posting) - last) : After(posting, last)[i] = posting[last + i]
    <3> HIDE <1>4, <1>5
    <3> QED
      BY <2>1, AfterFacts
  <2> QED
    BY <1>1, <1>12, <2>2
<1>14. Positions(domain, "@") = {}
  <2> SUFFICES ASSUME NEW i \in Positions(domain, "@") PROVE FALSE
    OBVIOUS
  <2>1. i \in 1..(l - last) /\ i \in Nat /\ domain[i] = "@"
    BY <1>13, PositionsFacts
  <2>2. last + i \in 1..l /\ last + i > last
    BY <1>1, <1>5, <2>1
  <2>3. last + i \in ats
    BY <1>3, <1>13, <2>1, <2>2
  <2> QED
    BY <1>4, <1>5, <2>1, <2>2, <2>3
<1>15. Markers(local) = {}
  BY <1>8, <1>11 DEF Plain
<1>16. Len(posting) = Len(local) + 1 + Len(domain) /\ Len(local) + 1 = last
  <2>1. Len(local) = k /\ Len(domain) = l - last
    BY <1>7, <1>11, <1>13
  <2>2. l = k + 1 + (l - last)
    BY <1>1, <1>5, <1>6
  <2> QED
    BY <1>1, <1>6, <2>1, <2>2
<1> QED
  BY <1>5, <1>7, <1>11, <1>13, <1>14, <1>15, <1>16
(* The base that is decoded is the posting address.                          *)
LEMMA BaseIsPosting ==
    ASSUME NEW posting \in Words, ValidPosting(posting), Plain(posting),
           NEW path, NEW encoded, NEW k, NEW m, NEW n,
           IsReturnPath(path, LocalPart(posting), encoded, Domain(posting), k, m, n)
    PROVE  LocalPart(posting) \o SubSeq(path, k + m + 3, Len(path)) = posting
<1>1. PICK local, domain : local = LocalPart(posting) /\ domain = Domain(posting)
  OBVIOUS
<1>2. /\ path \in Words /\ Len(path) = k + m + n + 3 /\ k \in Nat /\ m \in Nat /\ n \in Nat
      /\ local \in Words /\ k = Len(local) /\ n = Len(domain)
      /\ path[k + m + 3] = "@"
      /\ \A i \in 1..n : path[k + m + 3 + i] = domain[i]
  BY <1>1 DEF IsReturnPath
<1>3. /\ Len(posting) = k + 1 + n
      /\ \A i \in 1..k : posting[i] = local[i]
      /\ posting[k + 1] = "@"
      /\ \A i \in 1..n : posting[k + 1 + i] = domain[i]
  <2>1. /\ Len(posting) = Len(local) + 1 + Len(domain)
        /\ \A i \in 1..Len(local) : posting[i] = local[i]
        /\ posting[Len(local) + 1] = "@"
        /\ \A i \in 1..Len(domain) : posting[Len(local) + 1 + i] = domain[i]
    BY <1>1, PostingParts
  <2> QED
    BY <1>2, <2>1
<1>4. PICK at \in Nat, end \in Nat, l \in Nat :
         at = k + m + 3 /\ end = Len(path) /\ end = at + n /\ l = n + 1 /\ l = end - at + 1
  <2>1. k + m + 3 \in Nat /\ k + m + n + 3 = k + m + 3 + n /\ n + 1 \in Nat
        /\ n + 1 = k + m + n + 3 - (k + m + 3) + 1 /\ k + m + n + 3 \in Nat
    BY <1>2
  <2> QED
    BY <1>2, <2>1
<1>5. PICK tail : /\ tail = SubSeq(path, at, end)
                  /\ tail \in Words /\ Len(tail) = l
                  /\ \A i \in 1..l : tail[i] = path[at + i - 1]
  <2>1. 1 <= at /\ at <= end + 1 /\ end <= Len(path)
    BY <1>2, <1>4
  <2>2. /\ SubSeq(path, at, end) \in Words /\ Len(SubSeq(path, at, end)) = end - at + 1
        /\ \A i \in 1..(end - at + 1) : SubSeq(path, at, end)[i] = path[at + i - 1]
    BY <1>2, <2>1, PartFacts
  <2> QED
    BY <1>4, <2>2
<1>6. PICK u : u = local \o tail
  OBVIOUS
<1>7. IsJoin(u, local, tail, k, l)
  BY <1>2, <1>5, <1>6 DEF IsJoin
<1>8. /\ u \in Words /\ k + l = Len(u)
      /\ \A i \in 1..k : u[i] = local[i]
      /\ \A i \in 1..l : u[k + i] = tail[i]
  BY <1>7, Joined
<1>9. Len(u) = Len(posting)
  BY <1>2, <1>3, <1>4, <1>8
<1>10. ASSUME NEW i \in 1..Len(u) PROVE u[i] = posting[i]
  <2>1. i \in Nat /\ i \in 1..(k + l) /\ 1 <= i
    BY <1>2, <1>4, <1>8
  <2>2. CASE i <= k
    BY <1>2, <1>3, <1>8, <2>1, <2>2
  <2>3. CASE i = k + 1
    <3>1. 1 \in 1..l /\ at + 1 - 1 = at
      BY <1>2, <1>4
    <3>2. u[k + 1] = tail[1] /\ tail[1] = path[at]
      BY <1>5, <1>8, <3>1
    <3> QED
      BY <1>2, <1>3, <1>4, <2>3, <3>2
  <2>4. CASE i > k + 1
    <3>1. PICK j \in 1..n : i = k + 1 + j
      <4>1. i - k - 1 \in 1..n /\ i = k + 1 + (i - k - 1)
        BY <1>2, <1>4, <2>1, <2>4
      <4> QED
        BY <4>1
    <3>2. PICK q \in 1..l : q = j + 1 /\ k + q = i /\ at + q - 1 = at + j /\ at + j = k + m + 3 + j
      <4>1. j + 1 \in 1..l /\ k + (j + 1) = i /\ at + (j + 1) - 1 = at + j /\ at + j = k + m + 3 + j
        BY <1>2, <1>4, <3>1
      <4> QED
        BY <4>1
    <3>3. u[k + q] = tail[q] /\ tail[q] = path[at + q - 1]
      BY <1>5, <1>8, <3>2
    <3>4. u[i] = domain[j]
      BY <1>2, <3>2, <3>3
    <3> QED
      BY <1>3, <3>1, <3>4
  <2> QED
    BY <1>2, <2>1, <2>2, <2>3, <2>4
<1>11. u = posting
  BY <1>8, <1>9, <1>10, SameWord
<1> QED
  BY <1>1, <1>4, <1>5, <1>6, <1>11

(* What Verp makes of a recipient.                                           *)
Encoded(recipient) ==
    IF Positions(recipient, "@") = {} THEN recipient
    ELSE [recipient EXCEPT ![FirstOf(Positions(recipient, "@"))] = "="]

LEMMA EncodedFacts ==
    ASSUME NEW recipient \in Words
    PROVE  /\ Encoded(recipient) \in Words
           /\ WellFormed(recipient) =>
                /\ Positions(Encoded(recipient), "=") # {}
                /\ [Encoded(recipient) EXCEPT ![LastOf(Positions(Encoded(recipient), "="))] = "@"] = recipient
           /\ Positions(recipient, "@") \cup Positions(recipient, "=") = {} =>
                Positions(Encoded(recipient), "=") = {}
<1> DEFINE ats == Positions(recipient, "@")
<1>1. PICK n \in Nat : n = Len(recipient)
  BY WordFacts
<1>2. CASE ats = {}
  <2>1. Encoded(recipient) = recipient
    BY <1>2 DEF Encoded
  <2>2. ~WellFormed(recipient)
    BY <1>2 DEF WellFormed
  <2> QED
    BY <2>1, <2>2
<1>3. CASE ats # {}
  <2>1. ats \in SUBSET Nat /\ ats \in SUBSET (1..n) /\ \A i \in ats : recipient[i] = "@"
    BY <1>1, PositionsFacts
  <2>2. PICK at \in 1..n : at = FirstOf(ats) /\ recipient[at] = "@"
    <3> HIDE DEF ats
    <3> QED
      BY <1>3, <2>1, FirstOfFacts
  <2>3. PICK e : e = [recipient EXCEPT ![at] = "="]
    OBVIOUS
  <2>4. e = Encoded(recipient)
    BY <1>3, <2>2, <2>3 DEF Encoded
  <2>5. e \in Words /\ Len(e) = n /\ \A j \in 1..n : e[j] = IF j = at THEN "=" ELSE recipient[j]
    <3>1. "=" \in STRING \cup Separators \cup {"d"} /\ at \in 1..Len(recipient)
      BY <1>1, <2>2 DEF Separators
    <3> QED
      BY <1>1, <2>3, <3>1, ExceptSeq DEF Words
  <2>6. at \in Positions(e, "=")
    BY <2>5, PositionsFacts
  <2>7. ASSUME WellFormed(recipient) PROVE LastOf(Positions(e, "=")) = at
    <3>1. ASSUME NEW j \in Positions(e, "=") PROVE j <= at
      <4>1. j \in 1..n /\ e[j] = "="
        BY <2>5, PositionsFacts
      <4>2. CASE j # at
        <5>1. recipient[j] = "="
          BY <2>5, <4>1, <4>2
        <5>2. j \in Positions(recipient, "=")
          BY <1>1, <4>1, <5>1, PositionsFacts
        <5>3. j < at
          BY <2>2, <2>7, <5>2 DEF WellFormed
        <5> QED
          BY <4>1, <5>3
      <4> QED
        BY <2>2, <4>1, <4>2
    <3>2. Positions(e, "=") \in SUBSET Nat
      BY <2>5, PositionsFacts
    <3> QED
      BY <2>6, <3>1, <3>2, LastOfIs
  <2>8. [e EXCEPT ![at] = "@"] = recipient
    <3>1. "@" \in STRING \cup Separators \cup {"d"}
      BY DEF Separators
    <3>2. /\ [e EXCEPT ![at] = "@"] \in Words /\ Len([e EXCEPT ![at] = "@"]) = n
          /\ \A j \in 1..n : [e EXCEPT ![at] = "@"][j] = IF j = at THEN "@" ELSE e[j]
      BY <2>5, <3>1, ExceptSeq DEF Words
    <3>3. \A j \in 1..n : [e EXCEPT ![at] = "@"][j] = recipient[j]
      BY <2>2, <2>5, <3>2
    <3> QED
      BY <1>1, <3>2, <3>3, SameWord
  <2> QED
    BY <1>3, <2>4, <2>5, <2>6, <2>7, <2>8
<1> QED
  BY <1>2, <1>3

(* The round trip: the return path of a copy decodes to the posting address  *)
(* of its list and the recipient it is for, for addresses of any length, if  *)
(* the one is plain and the other well-formed; a recipient with neither an @ *)
(* nor an = does not come back.                                              *)
THEOREM VerpRoundTrip ==
    ASSUME NEW posting \in Words, ValidPosting(posting), Plain(posting), NEW recipient \in Words
    PROVE  LET path == Verp(LocalPart(posting), Domain(posting), recipient) IN
           /\ WellFormed(recipient) =>
                DecodeVerp(path) = [ok |-> TRUE, base |-> posting, recipient |-> recipient]
           /\ Positions(recipient, "@") \cup Positions(recipient, "=") = {} =>
                DecodeVerp(path) = NotVerp
<1>1. PICK local, domain, encoded, path :
         /\ local = LocalPart(posting) /\ domain = Domain(posting) /\ encoded = Encoded(recipient)
         /\ path = local \o <<"+bounce", "=">> \o encoded \o <<"@">> \o domain
  OBVIOUS
<1>2. PICK k, m, n : k = Len(local) /\ m = Len(encoded) /\ n = Len(domain)
  OBVIOUS
<1>3. path = Verp(LocalPart(posting), Domain(posting), recipient)
  BY <1>1 DEF Verp, Encoded
<1>4. local \in Words /\ domain \in Words /\ Markers(local) = {} /\ Positions(domain, "@") = {}
  BY <1>1, PostingParts
<1>5. encoded \in Words
  BY <1>1, EncodedFacts
<1>6. IsReturnPath(path, local, encoded, domain, k, m, n)
  BY <1>1, <1>2, <1>4, <1>5, ReturnPathLayout
<1>7. DecodeVerp(path) =
         IF Positions(encoded, "=") = {} THEN NotVerp
         ELSE [ok |-> TRUE,
               base |-> local \o SubSeq(path, k + m + 3, Len(path)),
               recipient |-> [encoded EXCEPT ![LastOf(Positions(encoded, "="))] = "@"]]
  BY <1>4, <1>6, Decoded
<1>8. local \o SubSeq(path, k + m + 3, Len(path)) = posting
  <2>1. IsReturnPath(path, LocalPart(posting), encoded, Domain(posting), k, m, n)
    BY <1>1, <1>6
  <2>2. LocalPart(posting) \o SubSeq(path, k + m + 3, Len(path)) = posting
    BY <2>1, BaseIsPosting
  <2> QED
    BY <1>1, <2>2
<1>9. ASSUME WellFormed(recipient)
      PROVE  DecodeVerp(path) = [ok |-> TRUE, base |-> posting, recipient |-> recipient]
  <2>1. /\ Positions(encoded, "=") # {}
        /\ [encoded EXCEPT ![LastOf(Positions(encoded, "="))] = "@"] = recipient
    BY <1>1, <1>9, EncodedFacts
  <2> QED
    BY <1>7, <1>8, <2>1
<1>10. ASSUME Positions(recipient, "@") \cup Positions(recipient, "=") = {}
       PROVE  DecodeVerp(path) = NotVerp
  <2>1. Positions(encoded, "=") = {}
    BY <1>1, <1>10, EncodedFacts
  <2> QED
    BY <1>7, <2>1
<1> QED
  BY <1>3, <1>9, <1>10

(* A bounce is counted for one subscription only: no two copies that go out, *)
(* of one list to two recipients or of two lists, have the same return path, *)
(* however the local parts are made up.                                      *)
THEOREM ReturnPathsDiffer ==
    ASSUME NEW posting \in Words, ValidPosting(posting), Plain(posting),
           NEW other \in Words, ValidPosting(other), Plain(other),
           NEW recipient \in Words, WellFormed(recipient),
           NEW reader \in Words, WellFormed(reader),
           Verp(LocalPart(posting), Domain(posting), recipient) =
               Verp(LocalPart(other), Domain(other), reader)
    PROVE  posting = other /\ recipient = reader
<1>1. DecodeVerp(Verp(LocalPart(posting), Domain(posting), recipient)) =
         [ok |-> TRUE, base |-> posting, recipient |-> recipient]
  BY VerpRoundTrip
<1>2. DecodeVerp(Verp(LocalPart(other), Domain(other), reader)) =
         [ok |-> TRUE, base |-> other, recipient |-> reader]
  BY VerpRoundTrip
<1>3. [ok |-> TRUE, base |-> posting, recipient |-> recipient] =
         [ok |-> TRUE, base |-> other, recipient |-> reader]
  BY <1>1, <1>2
<1> QED
  BY <1>3

-----------------------------------------------------------------------------
(* Mail, and the table it is looked up in.                                   *)

LEMMA StringsAreWords == Seq(STRING) \subseteq Words
<1>1. STRING \subseteq STRING \cup Separators \cup {"d"}
  OBVIOUS
<1>2. \A S, T : S \subseteq T => Seq(S) \subseteq Seq(T)
  OBVIOUS
<1> QED
  BY <1>1, <1>2 DEF Words

LEMMA LowerFacts ==
    ASSUME NEW s \in Words PROVE Lower(s) \in Words /\ Len(Lower(s)) = Len(s)
<1>1. PICK n \in Nat : n = Len(s) /\ DOMAIN s = 1..n
  BY WordFacts
<1>2. \A i \in 1..n : s[i] \in STRING \cup Separators \cup {"d"}
  BY <1>1 DEF Words
<1>3. Lower(s) \in [1..n -> STRING \cup Separators \cup {"d"}]
  BY <1>1, <1>2 DEF Lower
<1>4. Lower(s) \in Seq(STRING \cup Separators \cup {"d"}) /\ Len(Lower(s)) = n
  BY <1>3
<1> QED
  BY <1>1, <1>4 DEF Words

(* The addresses list files may name, and what mail is written to.           *)
LEMMA PostingsAreWords ==
    /\ \A f \in ListFiles : \A conf \in Confs[f] : conf.posting \in Words
    /\ Addresses \subseteq Words
    /\ Recipients \subseteq Words
<1>1. \A f \in ListFiles : \A conf \in Confs[f] : conf.posting \in Words
  BY DeploymentAssumption, StringsAreWords
<1>2. Recipients \subseteq Words
  BY DeploymentAssumption, StringsAreWords
<1>3. Addresses \subseteq Words
  <2> SUFFICES ASSUME NEW address \in Addresses PROVE address \in Words
    OBVIOUS
  <2>1. PICK f \in ListFiles : \E conf \in Confs[f] : address \in {conf.posting, Lower(conf.posting)}
    BY DEF Addresses
  <2>2. PICK conf \in Confs[f] : address = conf.posting \/ address = Lower(conf.posting)
    BY <2>1
  <2> QED
    BY <1>1, <2>2, LowerFacts
<1> QED
  BY <1>1, <1>2, <1>3

(* The inductive invariant behind BounceComesHome and PostsReachTheirList: a *)
(* copy has the return path of its posting address and its recipient, and    *)
(* what came in was looked up in the table that is still there.              *)
IsCopy == mail.posting \in Words /\ ValidPosting(mail.posting) /\ mail.recipient \in Words
ReturnPath == Verp(LocalPart(mail.posting), Domain(mail.posting), mail.recipient)

MailAsSent ==
    /\ mail.kind \in {"none", "copy", "returned", "post"}
    /\ mail.kind = "copy" => IsCopy /\ mail.path = ReturnPath
    /\ mail.kind = "returned" =>
          /\ stage = "up" /\ IsCopy /\ mail.answer = Classify(lists, ReturnPath)
          /\ mail.report \in Reports /\ mail.penalty = BounceKind(mail.report)
    /\ mail.kind = "post" =>
          stage = "up" /\ mail.address \in Words /\ mail.answer = Classify(lists, mail.address)

LEMMA MailStep ==
    ASSUME TableAsRead, MailAsSent, [Next]_vars PROVE MailAsSent'
<1>1. ASSUME UNCHANGED mail, mail.kind \in {"none", "copy"} \/ UNCHANGED <<stage, lists>>
      PROVE  MailAsSent'
  BY <1>1 DEF MailAsSent, IsCopy, ReturnPath
<1>2. ASSUME stage # "up" PROVE mail.kind \in {"none", "copy"}
  BY <1>2 DEF MailAsSent
<1>3. CASE Start \/ LoadEngine \/ Validate \/ \E f \in ListFiles : LoadFile(f)
  <2>1. UNCHANGED mail /\ stage # "up"
    BY <1>3 DEF Start, LoadEngine, Validate, LoadFile, Insert, Fail
  <2> QED
    BY <1>1, <1>2, <2>1
<1>4. CASE Stop
  BY <1>1, <1>4 DEF Stop, Settled
<1>5. CASE RunSetup \/ (\E f \in ListFiles : EditList(f)) \/ \E s \in ScriptFiles : EditScript(s)
  BY <1>1, <1>5 DEF RunSetup, EditList, EditScript, process
<1>6. CASE Done \/ UNCHANGED vars
  <2>1. CASE Done
    BY <2>1 DEF Done, NoMail, MailAsSent
  <2> QED
    BY <1>1, <1>6, <2>1 DEF vars, process
<1>7. ASSUME NEW a \in DOMAIN lists, NEW recipient \in Recipients, SendCopy(a, recipient)
      PROVE  MailAsSent'
  <2>1. PICK f \in ListFiles : lists[a].posting = read[f].posting /\ read[f] \in Confs[f]
                               /\ ValidPosting(read[f].posting)
    BY DEF TableAsRead
  <2>2. lists[a].posting \in Words /\ recipient \in Words
    BY <2>1, PostingsAreWords
  <2>3. /\ mail'.kind = "copy" /\ mail'.posting = lists[a].posting /\ mail'.recipient = recipient
        /\ mail'.path = Verp(LocalPart(lists[a].posting), Domain(lists[a].posting), recipient)
    BY <1>7 DEF SendCopy
  <2> QED
    BY <2>1, <2>2, <2>3 DEF MailAsSent, IsCopy, ReturnPath
<1>8. ASSUME NEW report \in Reports, ReturnCopy(report) PROVE MailAsSent'
  <2>1. /\ mail'.kind = "returned" /\ mail'.posting = mail.posting /\ mail'.recipient = mail.recipient
        /\ mail'.report = report /\ mail'.penalty = BounceKind(report)
        /\ mail'.answer = Classify(lists, mail.path)
        /\ stage = "up" /\ mail.kind = "copy" /\ UNCHANGED <<stage, lists>>
    BY <1>8 DEF ReturnCopy, process
  <2> QED
    BY <2>1 DEF MailAsSent, IsCopy, ReturnPath
<1>9. ASSUME NEW address \in Addresses, Write(address) PROVE MailAsSent'
  <2>1. /\ mail'.kind = "post" /\ mail'.address = address /\ mail'.answer = Classify(lists, address)
        /\ stage = "up" /\ UNCHANGED <<stage, lists>>
    BY <1>9 DEF Write, MailFlows, process
  <2> QED
    BY <2>1, PostingsAreWords DEF MailAsSent
<1> QED
  BY <1>3, <1>4, <1>5, <1>6, <1>7, <1>8, <1>9 DEF Next

LEMMA InitMail == Init => MailAsSent
BY DEF Init, NoMail, MailAsSent

(* The table has an entry for an address just when a file was read that      *)
(* names it, in some spelling.                                               *)
LEMMA TableFindsOwners ==
    ASSUME TableAsRead, NEW address
    PROVE  /\ HasList(lists, address) <=> Owners(address) # {}
           /\ HasList(lists, address) => ListOf(lists, address) \in Owners(address)
<1>1. ASSUME HasList(lists, address) PROVE ListOf(lists, address) \in Owners(address)
  <2>1. PICK a \in DOMAIN lists : a = Lower(address)
    BY <1>1 DEF HasList
  <2>2. lists[a].file \in DOMAIN read /\ a = Lower(read[lists[a].file].posting)
    BY DEF TableAsRead
  <2> QED
    BY <2>1, <2>2 DEF ListOf, Owners
<1>2. ASSUME NEW f \in Owners(address) PROVE HasList(lists, address)
  BY <1>2 DEF Owners, HasList, TableAsRead
<1> QED
  BY <1>1, <1>2

(* A report's first failure is what it weighs.                               *)
LEMMA Weighed ==
    ASSUME NEW report \in Seq(STRING)
    PROVE  /\ report # <<>> /\ report[1] = "5" => BounceKind(report) = "hard"
           /\ report # <<>> /\ report[1] = "4" => BounceKind(report) = "soft"
           /\ {"4", "5"} \cap {report[i] : i \in DOMAIN report} = {} => BounceKind(report) = "unknown"
<1> DEFINE failures == {i \in DOMAIN report : report[i] \in {"4", "5"}}
<1>1. BounceKind(report) = IF failures = {} THEN "unknown"
                           ELSE IF report[FirstOf(failures)] = "5" THEN "hard" ELSE "soft"
  BY DEF BounceKind
<1>2. ASSUME report # <<>>, report[1] \in {"4", "5"} PROVE failures # {} /\ FirstOf(failures) = 1
  <2>1. 1 \in DOMAIN report /\ \A i \in DOMAIN report : i \in Nat /\ 1 <= i
    BY <1>2
  <2>2. failures \in SUBSET Nat /\ 1 \in failures /\ \A i \in failures : 1 <= i
    BY <1>2, <2>1
  <2> HIDE DEF failures
  <2> QED
    BY <2>2, FirstOfIs
<1>3. ASSUME {"4", "5"} \cap {report[i] : i \in DOMAIN report} = {} PROVE failures = {}
  BY <1>3
<1> HIDE DEF failures
<1> QED
  BY <1>1, <1>2, <1>3

LEMMA ComesHome ==
    ASSUME TableAsRead, MailAsSent PROVE BounceComesHome
<1> SUFFICES ASSUME mail.kind = "returned", stage = "up", Plain(mail.posting)
             PROVE  /\ WellFormed(mail.recipient) =>
                          IF Owners(mail.posting) = {} THEN mail.answer.kind # "bounce"
                          ELSE /\ mail.answer.kind = "bounce" /\ mail.answer.recipient = mail.recipient
                               /\ mail.answer.list \in Owners(mail.posting)
                    /\ Positions(mail.recipient, "@") \cup Positions(mail.recipient, "=") = {} =>
                          ~(mail.answer.kind = "bounce" /\ mail.answer.list \in Owners(mail.posting))
                    /\ mail.report # <<>> /\ mail.report[1] = "5" => mail.penalty = "hard"
                    /\ mail.report # <<>> /\ mail.report[1] = "4" => mail.penalty = "soft"
                    /\ {"4", "5"} \cap {mail.report[i] : i \in DOMAIN mail.report} = {} =>
                          mail.penalty = "unknown"
  BY DEF BounceComesHome
<1>1. PICK posting \in Words, recipient \in Words :
         /\ posting = mail.posting /\ recipient = mail.recipient
         /\ ValidPosting(posting) /\ Plain(posting)
         /\ mail.answer = Classify(lists, Verp(LocalPart(posting), Domain(posting), recipient))
  BY DEF MailAsSent, IsCopy, ReturnPath
<1>2. PICK path : path = Verp(LocalPart(posting), Domain(posting), recipient)
  OBVIOUS
<1>3. /\ WellFormed(recipient) =>
           DecodeVerp(path) = [ok |-> TRUE, base |-> posting, recipient |-> recipient]
      /\ Positions(recipient, "@") \cup Positions(recipient, "=") = {} =>
           DecodeVerp(path) = NotVerp
  BY <1>1, <1>2, VerpRoundTrip
<1>4. ASSUME ~(DecodeVerp(path).ok /\ HasList(lists, DecodeVerp(path).base)) PROVE mail.answer.kind # "bounce"
  <2>1. mail.answer = [kind |-> "post", list |-> ListOf(lists, path)] \/ mail.answer = Nobody
    BY <1>1, <1>2, <1>4 DEF Classify
  <2> QED
    BY <2>1 DEF Nobody
<1>5. ASSUME WellFormed(recipient)
      PROVE  IF Owners(posting) = {} THEN mail.answer.kind # "bounce"
             ELSE /\ mail.answer.kind = "bounce" /\ mail.answer.recipient = recipient
                  /\ mail.answer.list \in Owners(posting)
  <2>1. DecodeVerp(path).ok /\ DecodeVerp(path).base = posting /\ DecodeVerp(path).recipient = recipient
    BY <1>3, <1>5
  <2>2. CASE Owners(posting) = {}
    BY <1>4, <2>1, <2>2, TableFindsOwners
  <2>3. CASE Owners(posting) # {}
    <3>1. HasList(lists, posting) /\ ListOf(lists, posting) \in Owners(posting)
      BY <2>3, TableFindsOwners
    <3>2. mail.answer = [kind |-> "bounce", list |-> ListOf(lists, posting), recipient |-> recipient]
      BY <1>1, <1>2, <2>1, <3>1 DEF Classify
    <3> QED
      BY <2>3, <3>1, <3>2
  <2> QED
    BY <2>2, <2>3
<1>6. ASSUME Positions(recipient, "@") \cup Positions(recipient, "=") = {}
      PROVE  mail.answer.kind # "bounce"
  BY <1>3, <1>4, <1>6 DEF NotVerp
<1>7. mail.report \in Seq(STRING) /\ mail.penalty = BounceKind(mail.report)
  BY DeploymentAssumption DEF MailAsSent
<1>8. /\ mail.report # <<>> /\ mail.report[1] = "5" => mail.penalty = "hard"
      /\ mail.report # <<>> /\ mail.report[1] = "4" => mail.penalty = "soft"
      /\ {"4", "5"} \cap {mail.report[i] : i \in DOMAIN mail.report} = {} => mail.penalty = "unknown"
  BY <1>7, Weighed
<1> QED
  BY <1>1, <1>5, <1>6, <1>8

(* Whatever was sent, read and edited before: a DSN finds the list and the   *)
(* subscriber of its copy, and weighs what its first status does.            *)
THEOREM DSNsComeHome == Spec => []BounceComesHome
<1>1. FilesKnown /\ TableAsRead /\ KeysAsRead /\ MailAsSent /\ [Next]_vars
      => (FilesKnown /\ TableAsRead /\ KeysAsRead /\ MailAsSent)'
  BY AsReadStep, MailStep
<1>2. TableAsRead /\ MailAsSent => BounceComesHome
  BY ComesHome
<1> QED
  BY <1>1, <1>2, InitAsRead, InitMail, PTL DEF Spec

(* The list a bounce address names has a shorter address.                    *)
LEMMA BaseIsShorter ==
    ASSUME NEW address \in Words, NEW decoded, decoded = DecodeVerp(address), decoded.ok
    PROVE  /\ decoded.base \in Words /\ Len(decoded.base) < Len(address)
           /\ Markers(Mailbox(address)) # {}
<1>1. decoded # NotVerp
  BY DEF NotVerp
<1>2. Positions(address, "@") # {}
  BY <1>1 DEF DecodeVerp
<1>3. PICK l \in Nat : l = Len(address)
  BY WordFacts
<1>4. PICK at \in 1..l : at = LastOf(Positions(address, "@"))
  <2>1. Positions(address, "@") \in SUBSET (1..l)
    BY <1>3, PositionsFacts
  <2> QED
    BY <1>2, <2>1, LastOfFacts
<1>5. PICK k \in Nat : k = at - 1
  <2>1. at - 1 \in Nat
    BY <1>3, <1>4
  <2> QED
    BY <2>1
<1>6. PICK local : local = UpTo(address, k) /\ local = Mailbox(address)
  BY <1>4, <1>5 DEF Mailbox
<1>7. local \in Words /\ Len(local) = k
  BY <1>3, <1>4, <1>5, <1>6, UpToFacts
<1>8. local = UpTo(address, LastOf(Positions(address, "@")) - 1)
  BY <1>4, <1>5, <1>6
<1>9. Markers(local) # {}
  BY <1>1, <1>2, <1>8 DEF DecodeVerp
<1>10. PICK marker \in 1..k : marker = FirstOf(Markers(local)) /\ marker < k
  <2>1. Positions(local, "+bounce") \in SUBSET (1..k) /\ Positions(local, "+bounce") \in SUBSET Nat
    BY <1>7, PositionsFacts
  <2>2. \A i \in Markers(local) : i \in 1..k /\ i < k
    BY <1>7, <2>1 DEF Markers
  <2>3. Markers(local) \in SUBSET Nat
    BY <2>1 DEF Markers
  <2>4. FirstOf(Markers(local)) \in Markers(local)
    BY <1>9, <2>3, FirstOfFacts
  <2> QED
    BY <2>2, <2>4
<1>11. PICK j \in Nat : j = marker - 1 /\ j <= Len(local)
  <2>1. marker - 1 \in Nat /\ marker - 1 <= k
    BY <1>10
  <2> QED
    BY <1>7, <2>1
<1>12. PICK head, tail : head = UpTo(local, j) /\ tail = SubSeq(address, at, l)
  OBVIOUS
<1>13. decoded.base = head \o tail
  <2>1. Positions(After(local, marker + 1), "=") # {}
    BY <1>1, <1>2, <1>8, <1>9, <1>10 DEF DecodeVerp
  <2>2. decoded.base = UpTo(local, marker - 1) \o SubSeq(address, at, Len(address))
    BY <1>2, <1>4, <1>8, <1>9, <1>10, <2>1 DEF DecodeVerp
  <2> QED
    BY <1>3, <1>11, <1>12, <2>2
<1>14. head \in Words /\ Len(head) = j
  BY <1>7, <1>11, <1>12, UpToFacts
<1>15. tail \in Words /\ Len(tail) = l - at + 1
  <2>1. at \in Nat /\ 1 <= at /\ at <= l + 1 /\ l <= Len(address)
    BY <1>3, <1>4
  <2> QED
    BY <1>12, <2>1, PartFacts
<1>16. decoded.base \in Words /\ Len(decoded.base) = j + Len(tail)
  <2>1. IsJoin(decoded.base, head, tail, j, Len(tail))
    BY <1>13, <1>14, <1>15 DEF IsJoin
  <2>2. decoded.base \in Words /\ j + Len(tail) = Len(decoded.base)
    BY <2>1, Joined
  <2> QED
    BY <2>2
<1>17. j + (l - at + 1) < l
  <2>1. j = marker - 1 /\ marker < k /\ k = at - 1
    BY <1>5, <1>10, <1>11
  <2>2. j \in Nat /\ marker \in Nat /\ k \in Nat /\ at \in Nat /\ l \in Nat
    BY <1>3, <1>4, <1>5, <1>10, <1>11
  <2> QED
    BY <2>1, <2>2
<1> QED
  BY <1>3, <1>6, <1>9, <1>15, <1>16, <1>17

LEMMA PostsFound ==
    ASSUME TableAsRead, MailAsSent PROVE PostsReachTheirList
<1> SUFFICES ASSUME mail.kind = "post", stage = "up"
             PROVE  \/ /\ mail.answer.kind = "post" /\ mail.answer.list \in Owners(mail.address)
                       /\ Known(lists[Lower(mail.address)].policy)
                    \/ /\ mail.answer.kind = "bounce"
                       /\ mail.answer.list \notin Owners(mail.address)
                       /\ Markers(Mailbox(mail.address)) # {}
                    \/ mail.answer = Nobody /\ Owners(mail.address) = {}
  BY DEF PostsReachTheirList
<1>1. PICK address \in Words : address = mail.address /\ mail.answer = Classify(lists, address)
  BY DEF MailAsSent
<1>2. PICK decoded : decoded = DecodeVerp(address)
  OBVIOUS
<1>3. CASE decoded.ok /\ HasList(lists, decoded.base)
  <2>1. mail.answer.kind = "bounce" /\ mail.answer.list = ListOf(lists, decoded.base)
    BY <1>1, <1>2, <1>3 DEF Classify
  <2>2. decoded.base \in Words /\ Len(decoded.base) < Len(address) /\ Markers(Mailbox(address)) # {}
    BY <1>2, <1>3, BaseIsShorter
  <2>3. mail.answer.list \in Owners(decoded.base)
    BY <1>3, <2>1, TableFindsOwners
  <2>4. Lower(decoded.base) # Lower(address)
    <3>1. Len(Lower(decoded.base)) = Len(decoded.base) /\ Len(Lower(address)) = Len(address)
      BY <2>2, LowerFacts
    <3>2. Len(decoded.base) \in Nat /\ Len(address) \in Nat
      BY <2>2, WordFacts
    <3> QED
      BY <2>2, <3>1, <3>2
  <2>5. mail.answer.list \notin Owners(address)
    BY <2>3, <2>4 DEF Owners
  <2> QED
    BY <1>1, <2>1, <2>2, <2>5
<1>4. CASE ~(decoded.ok /\ HasList(lists, decoded.base)) /\ HasList(lists, address)
  <2>1. mail.answer = [kind |-> "post", list |-> ListOf(lists, address)]
    BY <1>1, <1>2, <1>4 DEF Classify
  <2>2. ListOf(lists, address) \in Owners(address)
    BY <1>4, TableFindsOwners
  <2>3. Known(lists[Lower(address)].policy)
    BY <1>4 DEF HasList, TableAsRead
  <2> QED
    BY <1>1, <2>1, <2>2, <2>3
<1>5. CASE ~(decoded.ok /\ HasList(lists, decoded.base)) /\ ~HasList(lists, address)
  <2>1. mail.answer = Nobody
    BY <1>1, <1>2, <1>5 DEF Classify
  <2> QED
    BY <1>1, <1>5, <2>1, TableFindsOwners
<1> QED
  BY <1>3, <1>4, <1>5

(* Mail to an address of the table is a post to the list of a file that      *)
(* named the address when the daemon read it, and its policy is loaded; only *)
(* what a list with a shorter address claims as its bounce is not, and what  *)
(* is turned away no file named.                                             *)
THEOREM PostsAreFound == Spec => []PostsReachTheirList
<1>1. FilesKnown /\ TableAsRead /\ KeysAsRead /\ MailAsSent /\ [Next]_vars
      => (FilesKnown /\ TableAsRead /\ KeysAsRead /\ MailAsSent)'
  BY AsReadStep, MailStep
<1>2. TableAsRead /\ MailAsSent => PostsReachTheirList
  BY PostsFound
<1> QED
  BY <1>1, <1>2, InitAsRead, InitMail, PTL DEF Spec

-----------------------------------------------------------------------------
(* Starts over one disk.                                                     *)

PostingsDiffer ==
    \A f, g \in DOMAIN files : f # g => Lower(files[f].posting) # Lower(files[g].posting)

(* How a start over this disk has to end: with the table of all list files,  *)
(* when they, the scripts and the policies they name are in order.           *)
InOrder ==
    /\ \A s \in scripts : Loadable(s)
    /\ \A f \in DOMAIN files :
          /\ GoodFile(f)
          /\ \/ files[f].policy \in BuiltIn
             \/ \E s \in scripts : s.folder = "moderation_policies" /\ s.name = files[f].policy
AddressOf(f) == Lower(files[f].posting)
Table == [a \in {AddressOf(f) : f \in DOMAIN files} |->
             Entry(CHOOSE f \in DOMAIN files : AddressOf(f) = a)]
DiskOutcome == IF InOrder THEN [up |-> TRUE, lists |-> Table] ELSE Failed

(* The inductive invariant behind SameStart. While nobody touches the disk,  *)
(* the process holds the scripts that are there and has in its table the     *)
(* files it has taken, whatever their order; and every start has ended alike.*)
StartsAlike ==
    /\ lists = [a \in DOMAIN lists |-> lists[a]]
    /\ PostingsDiffer => starts \subseteq {DiskOutcome}
    /\ PostingsDiffer /\ ~changed /\ stage = "lists" =>
          /\ engine = scripts /\ \A s \in scripts : Loadable(s)
          /\ todo \subseteq DOMAIN files
          /\ DOMAIN lists = {AddressOf(f) : f \in DOMAIN files \ todo}
          /\ \A f \in DOMAIN files \ todo : GoodFile(f) /\ lists[AddressOf(f)] = Entry(f)

LEMMA EmptyFunction == ASSUME NEW t, t = <<>> PROVE t = [a \in DOMAIN t |-> t[a]]
<1>1. <<>> = [a \in DOMAIN <<>> |-> <<>>[a]]
  BY EmptySeq, LenProperties
<1> QED
  BY <1>1

(* The disk is as it was, and so is what the process holds.                  *)
LEMMA AlikeUnmoved ==
    ASSUME StartsAlike, UNCHANGED <<files, scripts, keys, starts>>,
           \/ UNCHANGED <<lists, changed, stage, engine, todo>>
           \/ /\ stage' # "lists"
              /\ \/ lists' = lists
                 \/ lists' = <<>>
    PROVE  StartsAlike'
<1>1. lists' = [a \in DOMAIN lists' |-> lists'[a]]
  <2>1. CASE lists' = lists
    BY <2>1 DEF StartsAlike
  <2>2. CASE lists' = <<>>
    BY <2>2, EmptyFunction
  <2> QED
    BY <2>1, <2>2
<1>2. /\ \A f : GoodFile(f)' <=> GoodFile(f)
      /\ \A f : Entry(f)' = Entry(f)
      /\ \A f : AddressOf(f)' = AddressOf(f)
      /\ PostingsDiffer' <=> PostingsDiffer
  BY DEF GoodFile, Entry, AddressOf, PostingsDiffer
<1>3. DiskOutcome' = DiskOutcome
  BY DEF DiskOutcome, InOrder, Table, GoodFile, Entry, AddressOf
<1>4. PostingsDiffer' => starts' \subseteq {DiskOutcome'}
  BY <1>2, <1>3 DEF StartsAlike
<1>5. PostingsDiffer' /\ ~changed' /\ stage' = "lists" =>
          /\ engine' = scripts' /\ \A s \in scripts' : Loadable(s)
          /\ todo' \subseteq DOMAIN files'
          /\ DOMAIN lists' = {AddressOf(f)' : f \in DOMAIN files' \ todo'}
          /\ \A f \in DOMAIN files' \ todo' : GoodFile(f)' /\ lists'[AddressOf(f)'] = Entry(f)'
  BY <1>2 DEF StartsAlike
<1> QED
  BY <1>1, <1>4, <1>5 DEF StartsAlike

(* The disk has changed: what starts came to over the old one is forgotten,  *)
(* and a process that runs does not count.                                   *)
LEMMA AlikeTouched ==
    ASSUME StartsAlike, Touched, UNCHANGED <<stage, lists>> PROVE StartsAlike'
BY DEF StartsAlike, Touched

(* A start that fails over a disk nobody touched fails for what is on it.    *)
LEMMA AlikeFailing ==
    ASSUME StartsAlike, Fail, ~changed /\ PostingsDiffer => ~InOrder PROVE StartsAlike'
<1>1. /\ lists' = <<>> /\ stage' = "down" /\ UNCHANGED <<files, scripts, keys, changed>>
      /\ starts' = IF changed THEN starts ELSE starts \cup {Failed}
  BY DEF Fail, Gone, Outcome, disk
<1>2. PostingsDiffer' <=> PostingsDiffer
  BY <1>1 DEF PostingsDiffer
<1>3. DiskOutcome' = DiskOutcome
  BY <1>1 DEF DiskOutcome, InOrder, Table, GoodFile, Entry, AddressOf
<1>4. ASSUME PostingsDiffer PROVE starts' \subseteq {DiskOutcome}
  <2>1. CASE changed
    BY <1>1, <1>4, <2>1 DEF StartsAlike
  <2>2. CASE ~changed
    <3>1. DiskOutcome = Failed
      BY <1>4, <2>2 DEF DiskOutcome
    <3> QED
      BY <1>1, <1>4, <2>2, <3>1 DEF StartsAlike
  <2> QED
    BY <2>1, <2>2
<1>5. lists' = [a \in DOMAIN lists' |-> lists'[a]]
  BY <1>1, EmptyFunction
<1> QED
  BY <1>1, <1>2, <1>3, <1>4, <1>5 DEF StartsAlike

LEMMA AlikeInsert ==
    ASSUME StartsAlike, TableAsRead, stage = "lists", NEW f \in todo, GoodFile(f), Insert(f)
    PROVE  StartsAlike'
<1>1. /\ lists' = With(lists, AddressOf(f), Entry(f)) /\ todo' = todo \ {f}
      /\ UNCHANGED <<files, scripts, keys, stage, engine, changed, starts>>
  BY DEF Insert, AddressOf, disk
<1>2. /\ DOMAIN lists' = DOMAIN lists \cup {AddressOf(f)}
      /\ lists'[AddressOf(f)] = Entry(f)
      /\ \A a \in DOMAIN lists : a # AddressOf(f) => lists'[a] = lists[a]
      /\ lists' = [a \in DOMAIN lists' |-> lists'[a]]
  BY <1>1 DEF With
<1>3. /\ \A g : GoodFile(g)' <=> GoodFile(g)
      /\ \A g : Entry(g)' = Entry(g)
      /\ \A g : AddressOf(g)' = AddressOf(g)
      /\ PostingsDiffer' <=> PostingsDiffer
  BY <1>1 DEF GoodFile, Entry, AddressOf, PostingsDiffer
<1>4. DiskOutcome' = DiskOutcome
  BY <1>1 DEF DiskOutcome, InOrder, Table, GoodFile, Entry, AddressOf
<1>5. ASSUME PostingsDiffer, ~changed
      PROVE  /\ engine' = scripts' /\ \A s \in scripts' : Loadable(s)
             /\ todo' \subseteq DOMAIN files'
             /\ DOMAIN lists' = {AddressOf(g) : g \in DOMAIN files \ todo'}
             /\ \A g \in DOMAIN files \ todo' : GoodFile(g) /\ lists'[AddressOf(g)] = Entry(g)
  <2>1. /\ engine = scripts /\ \A s \in scripts : Loadable(s)
        /\ todo \subseteq DOMAIN files
        /\ DOMAIN lists = {AddressOf(g) : g \in DOMAIN files \ todo}
        /\ \A g \in DOMAIN files \ todo : GoodFile(g) /\ lists[AddressOf(g)] = Entry(g)
    BY <1>5 DEF StartsAlike
  <2>2. f \in DOMAIN files /\ DOMAIN files \ todo' = (DOMAIN files \ todo) \cup {f}
    BY <1>1, <2>1
  <2>3. DOMAIN lists' = {AddressOf(g) : g \in DOMAIN files \ todo'}
    BY <1>2, <2>1, <2>2
  <2>4. ASSUME NEW g \in DOMAIN files \ todo' PROVE GoodFile(g) /\ lists'[AddressOf(g)] = Entry(g)
    <3>1. CASE g = f
      BY <1>2, <3>1
    <3>2. CASE g # f
      <4>1. g \in DOMAIN files \ todo /\ AddressOf(g) # AddressOf(f)
        BY <1>5, <2>2, <3>2 DEF PostingsDiffer, AddressOf
      <4>2. AddressOf(g) \in DOMAIN lists
        BY <2>1, <4>1
      <4> QED
        BY <1>2, <2>1, <4>1, <4>2
    <3> QED
      BY <3>1, <3>2
  <2> QED
    BY <1>1, <2>1, <2>3, <2>4
<1>6. PostingsDiffer => starts' \subseteq {DiskOutcome}
  BY <1>1 DEF StartsAlike
<1> QED
  BY <1>1, <1>2, <1>3, <1>4, <1>5, <1>6 DEF StartsAlike

(* The table once every file is in it.                                       *)
LEMMA AllTaken ==
    ASSUME StartsAlike, PostingsDiffer, ~changed, stage = "lists", todo = {}
    PROVE  /\ lists = Table
           /\ InOrder <=> \A a \in DOMAIN lists : Known(lists[a].policy)
<1>1. /\ engine = scripts /\ \A s \in scripts : Loadable(s)
      /\ DOMAIN lists = {AddressOf(f) : f \in DOMAIN files}
      /\ \A f \in DOMAIN files : GoodFile(f) /\ lists[AddressOf(f)] = Entry(f)
      /\ lists = [a \in DOMAIN lists |-> lists[a]]
  BY DEF StartsAlike
<1>2. ASSUME NEW a \in DOMAIN lists
      PROVE  lists[a] = Entry(CHOOSE f \in DOMAIN files : AddressOf(f) = a)
  <2>1. \E f \in DOMAIN files : AddressOf(f) = a
    BY <1>1
  <2>2. PICK g : g = CHOOSE f \in DOMAIN files : AddressOf(f) = a
    OBVIOUS
  <2>3. g \in DOMAIN files /\ AddressOf(g) = a
    BY <2>1, <2>2
  <2> QED
    BY <1>1, <2>2, <2>3
<1>3. lists = Table
  <2>1. lists = [a \in DOMAIN lists |-> Entry(CHOOSE f \in DOMAIN files : AddressOf(f) = a)]
    BY <1>1, <1>2
  <2> QED
    BY <1>1, <2>1 DEF Table
<1>4. ASSUME NEW f \in DOMAIN files
      PROVE  /\ AddressOf(f) \in DOMAIN lists
             /\ lists[AddressOf(f)].policy = files[f].policy
             /\ Known(files[f].policy) <=>
                   \/ files[f].policy \in BuiltIn
                   \/ \E s \in scripts : s.folder = "moderation_policies" /\ s.name = files[f].policy
  <2>1. AddressOf(f) \in DOMAIN lists /\ lists[AddressOf(f)] = Entry(f)
    BY <1>1
  <2>2. lists[AddressOf(f)].policy = files[f].policy
    BY <2>1 DEF Entry
  <2>3. engine = scripts
    BY <1>1
  <2> QED
    BY <2>1, <2>2, <2>3 DEF Known
<1>5. InOrder <=> \A f \in DOMAIN files : Known(files[f].policy)
  BY <1>1, <1>4 DEF InOrder
<1>6. (\A f \in DOMAIN files : Known(files[f].policy)) <=> \A a \in DOMAIN lists : Known(lists[a].policy)
  <2>1. \A a \in DOMAIN lists : \E f \in DOMAIN files : a = AddressOf(f)
    BY <1>1
  <2> QED
    BY <1>4, <2>1
<1> QED
  BY <1>3, <1>5, <1>6

LEMMA AlikeValidating ==
    ASSUME StartsAlike, Validate PROVE StartsAlike'
<1>1. stage = "lists" /\ todo = {}
  BY DEF Validate
<1>2. CASE \A a \in DOMAIN lists : Known(lists[a].policy)
  <2>1. /\ stage' = "up" /\ UNCHANGED <<files, scripts, keys, engine, todo, lists, changed>>
        /\ starts' = IF changed THEN starts ELSE starts \cup {[up |-> TRUE, lists |-> lists]}
    BY <1>2 DEF Validate, Outcome, disk
  <2>2. PostingsDiffer' <=> PostingsDiffer
    BY <2>1 DEF PostingsDiffer
  <2>3. DiskOutcome' = DiskOutcome
    BY <2>1 DEF DiskOutcome, InOrder, Table, GoodFile, Entry, AddressOf
  <2>4. ASSUME PostingsDiffer, ~changed PROVE DiskOutcome = [up |-> TRUE, lists |-> lists]
    BY <1>1, <1>2, <2>4, AllTaken DEF DiskOutcome
  <2>5. ASSUME PostingsDiffer PROVE starts' \subseteq {DiskOutcome}
    BY <2>1, <2>4, <2>5 DEF StartsAlike
  <2>6. lists' = [a \in DOMAIN lists' |-> lists'[a]]
    BY <2>1 DEF StartsAlike
  <2> QED
    BY <2>1, <2>2, <2>3, <2>5, <2>6 DEF StartsAlike
<1>3. CASE ~ \A a \in DOMAIN lists : Known(lists[a].policy)
  <2>1. Fail
    BY <1>3 DEF Validate
  <2>2. ~changed /\ PostingsDiffer => ~InOrder
    BY <1>1, <1>3, AllTaken
  <2> QED
    BY <2>1, <2>2, AlikeFailing
<1> QED
  BY <1>2, <1>3

(* The scripts are compiled before any list file is looked at.               *)
LEMMA AlikeCompiling ==
    ASSUME StartsAlike, TableAsRead, LoadEngine PROVE StartsAlike'
<1>1. CASE \A s \in scripts : Loadable(s)
  <2>1. /\ stage' = "lists" /\ engine' = scripts /\ todo' = DOMAIN files
        /\ UNCHANGED <<files, scripts, keys, lists, changed, starts>>
    BY <1>1 DEF LoadEngine, disk
  <2>2. DOMAIN lists = {}
    BY DEF LoadEngine, TableAsRead
  <2>3. PostingsDiffer' <=> PostingsDiffer
    BY <2>1 DEF PostingsDiffer
  <2>4. DiskOutcome' = DiskOutcome
    BY <2>1 DEF DiskOutcome, InOrder, Table, GoodFile, Entry, AddressOf
  <2>5. /\ lists' = [a \in DOMAIN lists' |-> lists'[a]]
        /\ PostingsDiffer => starts' \subseteq {DiskOutcome}
    BY <2>1 DEF StartsAlike
  <2>6. /\ engine' = scripts' /\ \A s \in scripts' : Loadable(s)
        /\ todo' \subseteq DOMAIN files' /\ DOMAIN files' \ todo' = {} /\ DOMAIN lists' = {}
    BY <1>1, <2>1, <2>2
  <2> QED
    BY <2>3, <2>4, <2>5, <2>6 DEF StartsAlike
<1>2. CASE ~ \A s \in scripts : Loadable(s)
  <2>1. Fail
    BY <1>2 DEF LoadEngine
  <2>2. ~InOrder
    BY <1>2 DEF InOrder
  <2> QED
    BY <2>1, <2>2, AlikeFailing
<1> QED
  BY <1>1, <1>2

LEMMA AlikeStep ==
    ASSUME StartsAlike, TableAsRead, [Next]_vars PROVE StartsAlike'
<1>1. CASE Start
  BY <1>1, AlikeUnmoved DEF Start, disk
<1>2. CASE Stop
  <2>1. /\ UNCHANGED <<files, scripts, keys, starts>>
        /\ stage' # "lists" /\ lists' = <<>>
    BY <1>2 DEF Stop, Gone, disk
  <2> QED
    BY <2>1, AlikeUnmoved
<1>3. ASSUME NEW f \in ListFiles, LoadFile(f) PROVE StartsAlike'
  <2>1. CASE GoodFile(f)
    BY <1>3, <2>1, AlikeInsert DEF LoadFile
  <2>2. CASE ~GoodFile(f)
    <3>1. Fail /\ stage = "lists" /\ f \in todo
      BY <1>3, <2>2 DEF LoadFile
    <3>2. ~changed /\ PostingsDiffer => ~InOrder
      BY <2>2, <3>1 DEF StartsAlike, InOrder
    <3> QED
      BY <3>1, <3>2, AlikeFailing
  <2> QED
    BY <2>1, <2>2
<1>4. ASSUME NEW f \in ListFiles, EditList(f) PROVE StartsAlike'
  BY <1>4, AlikeTouched DEF EditList, process
<1>5. ASSUME NEW s \in ScriptFiles, EditScript(s) PROVE StartsAlike'
  BY <1>5, AlikeTouched DEF EditScript, process
<1>6. CASE RunSetup
  <2>1. UNCHANGED <<files, scripts, process>>
    BY <1>6 DEF RunSetup
  <2>2. CASE keys' = keys
    <3>1. UNCHANGED <<changed, starts>>
      BY <1>6, <2>2 DEF RunSetup
    <3> QED
      BY <2>1, <2>2, <3>1, AlikeUnmoved DEF process
  <2>3. CASE keys' # keys
    <3>1. Touched
      BY <1>6, <2>3 DEF RunSetup
    <3> QED
      BY <2>1, <3>1, AlikeTouched DEF process
  <2> QED
    BY <2>2, <2>3
<1>7. ASSUME UNCHANGED <<disk, process, changed, starts>> PROVE StartsAlike'
  BY <1>7, AlikeUnmoved DEF disk, process
<1>8. ASSUME NEW a \in DOMAIN lists, NEW recipient \in Recipients, SendCopy(a, recipient)
      PROVE  StartsAlike'
  BY <1>7, <1>8 DEF SendCopy
<1>9. ASSUME NEW report \in Reports, ReturnCopy(report) PROVE StartsAlike'
  BY <1>7, <1>9 DEF ReturnCopy
<1>10. ASSUME NEW address \in Addresses, Write(address) PROVE StartsAlike'
  BY <1>7, <1>10 DEF Write
<1>11. CASE Done \/ UNCHANGED vars
  BY <1>7, <1>11 DEF Done, vars
<1> QED
  BY <1>1, <1>2, <1>3, <1>4, <1>5, <1>6, <1>8, <1>9, <1>10, <1>11, AlikeCompiling, AlikeValidating
  DEF Next

LEMMA InitAlike == Init => StartsAlike
<1> SUFFICES ASSUME Init PROVE StartsAlike
  OBVIOUS
<1>1. lists = <<>> /\ starts = {} /\ stage = "down"
  BY DEF Init
<1>2. lists = [a \in DOMAIN lists |-> lists[a]]
  BY <1>1, EmptyFunction
<1> QED
  BY <1>1, <1>2 DEF StartsAlike

LEMMA OneOutcome == ASSUME StartsAlike PROVE SameStart
<1>1. ASSUME PostingsDiffer PROVE ~(Cardinality(starts) > 1)
  <2>1. PICK outcome : outcome = DiskOutcome
    OBVIOUS
  <2>2. starts = {} \/ starts = {outcome}
    BY <1>1, <2>1 DEF StartsAlike
  <2>3. Cardinality({}) = 0 /\ Cardinality({outcome}) = 1
    BY FS_EmptySet, FS_Singleton
  <2> QED
    BY <2>2, <2>3
<1> QED
  BY <1>1 DEF SameStart, PostingsDiffer

(* Over one disk every start ends alike, in whatever order the directory     *)
(* hands out its files: with a table that is a function of what is on the    *)
(* disk, or refused for a reason that is on the disk.                        *)
THEOREM StartsEndAlike == Spec => []SameStart
<1>1. FilesKnown /\ TableAsRead /\ KeysAsRead /\ StartsAlike /\ [Next]_vars
      => (FilesKnown /\ TableAsRead /\ KeysAsRead /\ StartsAlike)'
  BY AsReadStep, AlikeStep
<1>2. StartsAlike => SameStart
  BY OneOutcome
<1> QED
  BY <1>1, <1>2, InitAsRead, InitAlike, PTL DEF Spec
=============================================================================
