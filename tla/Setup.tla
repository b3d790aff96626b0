-------------------------------- MODULE Setup -------------------------------
(***************************************************************************)
(* carriers setup: the key files of a domain and the zone file that        *)
(* describes them (main.rs setup, keygen.rs), and the operator who         *)
(* publishes it. A write truncates a file and then fills it, so each takes *)
(* two steps; a process may die between any two, and another setup may run *)
(* at the same time.                                                       *)
(*                                                                         *)
(* A key is known by the setup that generated it and its label's number    *)
(* (DKIM, ARC, DKIM2), a zone file by the setup whose public keys it       *)
(* lists.                                                                  *)
(***************************************************************************)
EXTENDS Naturals, Sequences

CONSTANTS
    Runs,       \* processes that may run setup
    KeyFile,    \* KeyFile[i]: the path <selector>.der of label i
    MaxSetups,  \* bound: setups that write anything
    Nothing,    \* no such file, nothing published
    Torn        \* a file cut short

Paths == {KeyFile[i] : i \in DOMAIN KeyFile}

(* The selectors differ, as the default ones do: setup checks no such thing. *)
ASSUME SetupAssumption ==
    /\ MaxSetups \in Nat
    /\ KeyFile \in Seq(Paths)
    /\ \A i, j \in DOMAIN KeyFile : KeyFile[i] = KeyFile[j] => i = j

VARIABLES
    keys,       \* path -> what the key file holds
    zone,       \* what the zone file holds
    dns,        \* the setup whose records the domain's DNS publishes
    setups,     \* setups that got past the check for existing files
    running,    \* run -> [setup, step], step = 0 when it is not running
    disturbed   \* history: the last setup died, or did not run alone

setupVars == <<keys, zone, dns, setups, running, disturbed>>

Key(n, i) == [setup |-> n, label |-> i]

(* The key files setup n writes, all of them there. *)
WrittenBy(n) == [path \in Paths |-> Key(n, CHOOSE i \in DOMAIN KeyFile : KeyFile[i] = path)]

(* An empty directory, or one an earlier setup left whose zone is published. *)
SetupInit ==
    /\ \/ keys = [path \in Paths |-> Nothing] /\ zone = Nothing /\ dns = Nothing
       \/ keys = WrittenBy(0) /\ zone = 0 /\ dns = 0
    /\ setups = 0
    /\ running = [r \in Runs |-> [setup |-> 0, step |-> 0]]
    /\ disturbed = FALSE

UnderWay(r) == running[r].step > 0
LastKeyStep == 2 * Len(KeyFile)
EndStep == LastKeyStep + 2

(* Without --force it bails if any of the files exists; with it, or in an    *)
(* empty directory, it goes on to write. Nothing is locked in between.       *)
StartSetup(r, force) ==
    /\ ~UnderWay(r) /\ setups < MaxSetups
    /\ force \/ (zone = Nothing /\ \A path \in Paths : keys[path] = Nothing)
    /\ setups' = setups + 1
    /\ running' = [running EXCEPT ![r] = [setup |-> setups + 1, step |-> 1]]
    /\ disturbed' = (\E other \in Runs : UnderWay(other))
    /\ UNCHANGED <<keys, zone, dns>>

(* Where r's process is: step 2i - 1 truncates key file i, step 2i fills it. *)
Label(r) == (running[r].step + 1) \div 2
Truncating(r) == running[r].step % 2 = 1
Advance(r) == running' = [running EXCEPT ![r].step = IF @ = EndStep THEN 0 ELSE @ + 1]

(* Broken variant: a key file that is there already is kept. *)
WriteKeyKeeping(r) ==
    /\ running[r].step \in 1..LastKeyStep
    /\ LET path == KeyFile[Label(r)] IN
       keys' = [keys EXCEPT ![path] =
                  IF Truncating(r) THEN IF @ = Nothing THEN Torn ELSE @
                  ELSE IF @ = Torn THEN Key(running[r].setup, Label(r)) ELSE @]
    /\ Advance(r)
    /\ UNCHANGED <<zone, dns, setups, disturbed>>

(* The next key is generated and written over whatever its path held. *)
WriteKey(r) ==
    /\ running[r].step \in 1..LastKeyStep
    /\ keys' = [keys EXCEPT ![KeyFile[Label(r)]] =
                  IF Truncating(r) THEN Torn ELSE Key(running[r].setup, Label(r))]
    /\ Advance(r)
    /\ UNCHANGED <<zone, dns, setups, disturbed>>

(* setup_zone comes last, with the public keys of this process. *)
WriteZone(r) ==
    /\ running[r].step > LastKeyStep
    /\ zone' = IF Truncating(r) THEN Torn ELSE running[r].setup
    /\ Advance(r)
    /\ UNCHANGED <<keys, dns, setups, disturbed>>

(* Killed, or a write failed: what is written stays. *)
Die(r) ==
    /\ UnderWay(r)
    /\ running' = [running EXCEPT ![r].step = 0]
    /\ disturbed' = TRUE
    /\ UNCHANGED <<keys, zone, dns, setups>>

(* The operator publishes the zone file. *)
Publish ==
    /\ zone \notin {Nothing, Torn, dns}
    /\ dns' = zone
    /\ UNCHANGED <<keys, zone, setups, running, disturbed>>

SetupStep == \E r \in Runs : WriteKey(r) \/ WriteZone(r) \/ Die(r) \/ \E force \in BOOLEAN : StartSetup(r, force)

-----------------------------------------------------------------------------
(* A setup that ran alone and to its end leaves a zone file that publishes   *)
(* exactly the keys in the files beside it.                                  *)
ZoneMatchesKeys ==
    (\A r \in Runs : ~UnderWay(r)) /\ ~disturbed /\ zone # Nothing => keys = WrittenBy(zone)
=============================================================================
