---------------------------- MODULE SessionProofs ----------------------------
(***************************************************************************)
(* Proofs about SmtpSession, for any addresses, either protocol, any       *)
(* number of commands and any pipelining window.                           *)
(***************************************************************************)
EXTENDS SmtpSession, FiniteSetTheorems, SequenceTheorems, TLAPS

USE SessionAssumption

Text == Plain("text")
Dot == Plain(".")
Final == Plain("FINAL")

-----------------------------------------------------------------------------
(* The place in handle_connection, and what its locals hold there.           *)
AtWork ==
    /\ phase \in {"data", "process", "reply"} => recipients # <<>>
    /\ phase \in {"command", "data"} => results = <<>> /\ written = 0
    /\ phase = "process" => written = 0 /\ Len(results) <= Len(recipients)
    /\ phase = "reply" => Len(results) = Len(recipients) /\ written < Len(results)

Working ==
    /\ TypeOK
    /\ protocol \in {"lmtp", "smtp"}
    /\ AtWork

(* The recipients the front MTA will count on once it has read the replies   *)
(* codes to the first of the commands: those it knows now, and what it       *)
(* learns from one reply after the other.                                    *)
Foretells(known, commands, codes, r) ==
    \E learnt \in [0..Len(codes) -> Seq(Addresses)] :
        /\ learnt[0] = known /\ learnt[Len(codes)] = r
        /\ \A i \in 1..Len(codes) : learnt[i] = Learns(learnt[i - 1], commands[i], codes[i])

(* The daemon has yet to read the last of the commands in flight and has     *)
(* answered the others; none was sent behind one that nothing may follow.    *)
Aligned ==
    /\ body = "no"
    /\ \A i \in DOMAIN asked : asked[i] \in Commands
    /\ \A i \in DOMAIN asked : asked[i].verb \in LastInGroup => i = Len(asked)
    /\ Len(asked) = Len(toClient) + Len(toServer)
    /\ \A j \in DOMAIN toServer : toServer[j] = asked[Len(toClient) + j]

NoGoAhead == \A i \in DOMAIN toClient : toClient[i] # "354"

Finals == \A i \in DOMAIN asked : asked[i] = Final

(* The replies in flight, after those the front MTA has read, tell what      *)
(* process() made of the message.                                            *)
Truthful ==
    IF protocol = "lmtp"
    THEN \A i \in DOMAIN toClient :
             /\ Len(told) + i \in DOMAIN accepted /\ Len(told) + i \in DOMAIN truth
             /\ truth[Len(told) + i] = [to |-> accepted[Len(told) + i], code |-> toClient[i]]
    ELSE /\ toClient # <<>> => told = <<>> /\ Len(toClient) = 1
         /\ toClient # <<>> =>
                (toClient[1] = "250" <=> \E i \in DOMAIN truth : truth[i].code = "250")

-----------------------------------------------------------------------------
(* The states of a session in which the two ends agree.                      *)

(* Commands and their replies; the front MTA will know the recipients.       *)
Talking ==
    /\ phase = "command" /\ got = "none"
    /\ Aligned /\ NoGoAhead
    /\ \E r \in Seq(Addresses) :
          /\ Foretells(accepted, asked, toClient, r)
          /\ IF mailFrom THEN r = recipients ELSE recipients = <<>>

(* The 354 is on its way, behind it nothing.                                 *)
Opening ==
    /\ phase = "data" /\ got = "none"
    /\ Aligned /\ toServer = <<>> /\ toClient # <<>>
    /\ asked[Len(asked)] = Plain("DATA") /\ toClient[Len(toClient)] = "354"
    /\ \A i \in DOMAIN toClient : toClient[i] = "354" => i = Len(toClient)
    /\ Foretells(accepted, asked, toClient, recipients)

(* The front MTA sends the message.                                          *)
Sending ==
    /\ phase = "data" /\ got \in {"none", "part"}
    /\ body \in {"open", "part"}
    /\ asked = <<>> /\ toClient = <<>>
    /\ toServer = <<>> \/ (toServer = <<Text>> /\ body = "part")
    /\ recipients = accepted

(* It has sent all of it.                                                    *)
Sent ==
    /\ phase = "data" /\ got \in {"none", "part"}
    /\ body = "no"
    /\ Finals /\ Len(asked) = RepliesPerMessage
    /\ toClient = <<>> /\ told = <<>>
    /\ toServer = <<Text, Dot>> \/ toServer = <<Dot>>
    /\ recipients = accepted

(* The message is processed, then answered.                                  *)
Answering ==
    /\ phase \in {"process", "reply"} /\ got = "whole"
    /\ body = "no" /\ toServer = <<>>
    /\ recipients = accepted
    /\ Finals /\ Len(asked) = Len(toClient) + RepliesPerMessage - written
    /\ Len(told) + Len(toClient) = written
    /\ phase = "reply" =>
          truth = [i \in DOMAIN recipients |-> [to |-> recipients[i], code |-> results[i]]]
    /\ Truthful
    /\ protocol = "smtp" => written = 0

(* The last replies are on their way.                                        *)
Answered ==
    /\ phase = "command" /\ got = "none"
    /\ body = "no" /\ toServer = <<>>
    /\ ~mailFrom /\ recipients = <<>>
    /\ Finals /\ asked # <<>> /\ Len(asked) = Len(toClient)
    /\ Truthful

(* The front MTA left without completing a message.                          *)
Orphaned == gone /\ toServer = <<>> /\ got # "whole"

(* The daemon closed the connection.                                         *)
Closed == phase = "closed" /\ (gone \/ (Aligned /\ NoGoAhead))

Dialogue ==
    Talking \/ Opening \/ Sending \/ Sent \/ Answering \/ Answered \/ Orphaned \/ Closed

-----------------------------------------------------------------------------
(* What is on the wire to the daemon, by its verb.                           *)
LEMMA Lines ==
    /\ \A c \in Commands : /\ c.verb \notin {"text", ".", "FINAL"}
                          /\ c.verb = "RCPT" => c.to \in Addresses
    /\ Text.verb = "text" /\ Dot.verb = "." /\ Final.verb = "FINAL"
    /\ Text \notin Commands /\ Dot \notin Commands /\ Final \notin Commands
    /\ Text # Dot /\ Plain("DATA") \in Commands /\ Plain("DATA").verb = "DATA"
<1>1. \A c \in Commands : /\ c.verb \notin {"text", ".", "FINAL"}
                         /\ c.verb = "RCPT" => c.to \in Addresses
  BY DEF Commands, Plain, Rcpt
<1>2. Text.verb = "text" /\ Dot.verb = "." /\ Final.verb = "FINAL" /\ Plain("DATA").verb = "DATA"
  BY DEF Text, Dot, Final, Plain
<1>3. Plain("DATA") \in Commands
  BY DEF Commands
<1>4. Text \notin Commands
  BY DEF Commands, Plain, Rcpt, Text
<1>5. Dot \notin Commands
  BY DEF Commands, Plain, Rcpt, Dot
<1>6. Final \notin Commands
  BY DEF Commands, Plain, Rcpt, Final
<1>7. Text # Dot
  BY <1>2
<1> QED BY <1>1, <1>2, <1>3, <1>4, <1>5, <1>6, <1>7

(* What a reply teaches the front MTA is again a list of recipients.         *)
LEMMA LearnsShape ==
    ASSUME NEW known \in Seq(Addresses), NEW c \in Awaited, NEW code
    PROVE  Learns(known, c, code) \in Seq(Addresses)
<1>1. c.verb = "RCPT" => c.to \in Addresses
  BY Lines DEF Awaited, Final
<1> QED BY <1>1 DEF Learns, Restarts

-----------------------------------------------------------------------------
(* What is not on the wire, of the daemon or of the front MTA stays as it is. *)
LEMMA Frame ==
    /\ WireOK /\ UNCHANGED wire => WireOK'
    /\ ServerOK /\ UNCHANGED server => ServerOK'
    /\ ClientOK /\ UNCHANGED client => ClientOK'
<1>1. WireOK /\ UNCHANGED wire => WireOK'
  BY DEF WireOK, wire
<1>2. ServerOK /\ UNCHANGED server => ServerOK'
  BY DEF ServerOK, server
<1>3. ClientOK /\ UNCHANGED client => ClientOK'
  BY DEF ClientOK, client
<1> QED BY <1>1, <1>2, <1>3

(* An empty sequence is one of anything.                                     *)
LEMMA Nothing == ASSUME NEW S PROVE <<>> \in Seq(S)
OBVIOUS

LEMMA InitWorking == ASSUME Init PROVE Working
<1>1. WireOK
  BY Nothing DEF Init, WireOK
<1>2. ServerOK
  <2>1. recipients \in Seq(Known) /\ results \in Seq(Verdicts) /\ Len(results) = 0
    BY Nothing DEF Init
  <2>2. phase = "command" /\ got = "none" /\ written = 0
    BY DEF Init
  <2>3. mailFrom \in BOOLEAN
    BY DEF Init
  <2> QED BY <2>1, <2>2, <2>3 DEF ServerOK
<1>3. ClientOK
  <2>1. asked \in Seq(Awaited) /\ accepted \in Seq(Addresses) /\ told \in Seq(Codes)
    BY Nothing DEF Init
  <2> QED BY <2>1 DEF Init, ClientOK
<1>4. truth \in Seq(Made)
  BY Nothing DEF Init
<1> QED BY <1>1, <1>2, <1>3, <1>4 DEF Init, Working, AtWork, TypeOK

-----------------------------------------------------------------------------
LEMMA FrontWorking == ASSUME Working, FrontStep PROVE Working'
<1>1. UNCHANGED <<protocol, server, truth>>
  BY DEF FrontStep, Ask, Hear, SendText, SendDot, HangUp
<1>2. WireOK' /\ ClientOK'
  <2>1. WireOK /\ ClientOK
    BY DEF Working, TypeOK
  <2>2. ASSUME NEW c \in Commands, Ask(c) PROVE WireOK' /\ ClientOK'
    <3>1. c \in WireLines /\ c \in Awaited
      BY DEF WireLines, Awaited
    <3>2. WireOK'
      BY <2>1, <2>2, <3>1 DEF Ask, WireOK
    <3>3. ClientOK'
      BY <2>1, <2>2, <3>1 DEF Ask, ClientOK
    <3> QED BY <3>2, <3>3
  <2>3. ASSUME Hear PROVE WireOK' /\ ClientOK'
    <3>1. Head(toClient) \in Codes /\ Tail(toClient) \in Seq(Codes)
      BY <2>1, <2>3 DEF Hear, WireOK
    <3>2. Head(asked) \in Awaited /\ Tail(asked) \in Seq(Awaited)
      BY <2>1, <2>3 DEF Hear, ClientOK
    <3>3. accepted' \in Seq(Addresses)
      BY <2>1, <2>3, <3>2, LearnsShape DEF Hear, ClientOK
    <3>4. told' \in Seq(Codes)
      BY <2>1, <2>3, <3>1 DEF Hear, ClientOK
    <3>5. body' \in {"no", "open", "part"} /\ lines' = lines
      BY <2>1, <2>3 DEF Hear, ClientOK
    <3>6. WireOK'
      BY <2>1, <2>3, <3>1 DEF Hear, WireOK
    <3>7. asked' \in Seq(Awaited)
      BY <2>3, <3>2 DEF Hear
    <3> QED BY <2>1, <3>3, <3>4, <3>5, <3>6, <3>7 DEF ClientOK
  <2>4. ASSUME SendText PROVE WireOK' /\ ClientOK'
    <3>1. Plain("text") \in WireLines
      BY DEF WireLines
    <3>2. WireOK'
      BY <2>1, <2>4, <3>1 DEF SendText, WireOK
    <3>3. ClientOK'
      BY <2>1, <2>4 DEF SendText, ClientOK
    <3> QED BY <3>2, <3>3
  <2>5. ASSUME SendDot PROVE WireOK' /\ ClientOK'
    <3>1. Plain(".") \in WireLines /\ Plain("FINAL") \in Awaited
      BY DEF WireLines, Awaited
    <3>2. WireOK'
      BY <2>1, <2>5, <3>1 DEF SendDot, WireOK
    <3>3. asked' \in Seq(Awaited)
      <4>1. (IF protocol = "lmtp" THEN Len(accepted) ELSE 1) \in Nat
        BY <2>1 DEF ClientOK
      <4> QED BY <2>5, <3>1, <4>1 DEF SendDot
    <3>4. told' \in Seq(Codes)
      BY <2>5, Nothing DEF SendDot
    <3> QED BY <2>1, <2>5, <3>2, <3>3, <3>4 DEF SendDot, ClientOK
  <2>6. ASSUME HangUp PROVE WireOK' /\ ClientOK'
    BY <2>1, <2>6, Frame DEF HangUp, WireOK
  <2> QED BY <2>2, <2>3, <2>4, <2>5, <2>6 DEF FrontStep
<1>3. phase' = phase /\ recipients' = recipients /\ results' = results /\ written' = written
  BY <1>1 DEF server
<1>4. TypeOK'
  BY <1>1, <1>2, Frame DEF Working, TypeOK
<1> QED BY <1>1, <1>3, <1>4 DEF Working, AtWork

(* A command that is read is one that was sent.                              *)
LEMMA Received ==
    ASSUME WireOK, NEW verb, Receive(verb)
    PROVE  /\ toServer' \in Seq(WireLines)
           /\ toServer' = Tail(toServer) /\ toServer # <<>> /\ gone' = gone
           /\ phase = "command" /\ Head(toServer).verb = verb
           /\ verb = "RCPT" => Head(toServer).to \in Addresses
<1>1. Head(toServer) \in WireLines /\ Tail(toServer) \in Seq(WireLines)
  BY DEF Receive, WireOK
<1> QED BY <1>1, Lines DEF Receive, WireLines, Text, Dot

(* The codes handle_connection answers with.                                 *)
LEMMA Said ==
    ASSUME WireOK, NEW code \in Codes, Say(code) PROVE toClient' \in Seq(Codes)
BY DEF Say, WireOK

LEMMA ServerWire == ASSUME Working, ServerStep PROVE WireOK'
<1>0. WireOK /\ results \in Seq(Verdicts)
  BY DEF Working, TypeOK, ServerOK
<1>1. {"221", "250", "354", "451", "500", "502", "503", "550"} \subseteq Codes /\ Verdicts \subseteq Codes
  BY DEF Codes, Verdicts
<1>2. ASSUME NEW verb, Receive(verb), NEW code \in Codes, Say(code) PROVE WireOK'
  BY <1>0, <1>2, Received, Said DEF WireOK
<1>3. Hello \/ Mail \/ Recipient \/ Data \/ Reset \/ NoEffect \/ Quit => WireOK'
  BY <1>1, <1>2 DEF Hello, Mail, Recipient, Data, Reset, NoEffect, Quit
<1>4. Disconnected \/ ConnectionFails \/ ReadEnd \/ Process \/ Processed => WireOK'
  BY <1>0, Frame DEF Disconnected, ConnectionFails, ReadEnd, Process, Processed
<1>5. ASSUME ReadText \/ ReadDot PROVE WireOK'
  <2>1. toServer # <<>> /\ toServer' = Tail(toServer) /\ UNCHANGED <<toClient, gone>>
    BY <1>5 DEF ReadText, ReadDot
  <2> QED BY <1>0, <2>1 DEF WireOK
<1>6. ASSUME NEW code \in Codes, Say(code), UNCHANGED <<toServer, gone>> PROVE WireOK'
  BY <1>0, <1>6, Said DEF WireOK
<1>7. ReplyLmtp => WireOK'
  <2>1. ASSUME ReplyLmtp PROVE results[written + 1] \in Codes
    <3>1. written \in Nat /\ written < Len(results)
      BY <2>1 DEF ReplyLmtp, Working, TypeOK, ServerOK, AtWork
    <3> QED BY <1>0, <1>1, <3>1
  <2> QED BY <1>6, <2>1 DEF ReplyLmtp
<1>8. ReplySmtp => WireOK'
  BY <1>1, <1>6 DEF ReplySmtp
<1> QED BY <1>3, <1>4, <1>5, <1>7, <1>8 DEF ServerStep, TaskStep

LEMMA ServerServer == ASSUME Working, ServerStep PROVE ServerOK' /\ AtWork'
<1>0. WireOK /\ ServerOK /\ AtWork
  BY DEF Working, TypeOK, AtWork
<1> USE DEF AtWork
<1>1. ASSUME Hello \/ Mail \/ Reset PROVE ServerOK' /\ AtWork'
  <2>1. phase = "command" /\ phase' = phase /\ recipients' = <<>> /\ recipients' \in Seq(Known)
        /\ mailFrom' \in BOOLEAN /\ UNCHANGED <<got, results, written>>
    BY <1>1, Nothing DEF Hello, Mail, Reset, Receive
  <2> QED BY <1>0, <2>1 DEF ServerOK
<1>2. ASSUME Recipient PROVE ServerOK' /\ AtWork'
  <2>1. Receive("RCPT")
    BY <1>2 DEF Recipient
  <2>2. recipients' \in Seq(Known)
    <3>1. CASE recipients' = recipients
      BY <1>0, <3>1 DEF ServerOK
    <3>2. CASE recipients' = Append(recipients, Head(toServer).to) /\ Class[Head(toServer).to] # "unknown"
      <4>1. Head(toServer).to \in Known
        BY <1>0, <2>1, <3>2, Received DEF Known
      <4> QED BY <1>0, <3>2, <4>1 DEF ServerOK
    <3> QED BY <1>2, <3>1, <3>2 DEF Recipient
  <2>3. phase = "command" /\ UNCHANGED <<phase, mailFrom, got, results, written>>
    BY <1>2 DEF Recipient, Receive
  <2> QED BY <1>0, <2>2, <2>3 DEF ServerOK
<1>3. ASSUME Data PROVE ServerOK' /\ AtWork'
  <2>1. /\ phase = "command" /\ UNCHANGED <<mailFrom, recipients, got, results, written>>
        /\ phase' = phase \/ (phase' = "data" /\ recipients # <<>>)
    BY <1>3 DEF Data, Receive
  <2> QED BY <1>0, <2>1 DEF ServerOK
<1>4. ASSUME NoEffect PROVE ServerOK' /\ AtWork'
  BY <1>0, <1>4, Frame DEF NoEffect, server
<1>5. ASSUME Quit \/ Disconnected \/ ConnectionFails PROVE ServerOK' /\ AtWork'
  <2>1. phase' = "closed" /\ UNCHANGED <<mailFrom, recipients, got, results, written>>
    BY <1>5 DEF Quit, Disconnected, ConnectionFails
  <2> QED BY <1>0, <2>1 DEF ServerOK
<1>6. ASSUME ReadText \/ ReadDot \/ ReadEnd PROVE ServerOK' /\ AtWork'
  <2>1. /\ phase = "data" /\ phase' \in {"data", "process"} /\ got' \in {"none", "part", "whole"}
        /\ UNCHANGED <<mailFrom, recipients, results, written>>
    BY <1>0, <1>6 DEF ReadText, ReadDot, ReadEnd, ServerOK
  <2>2. Len(results) = 0 \/ results # <<>>
    OBVIOUS
  <2> QED BY <1>0, <2>1, <2>2 DEF ServerOK
<1>7. ASSUME Process PROVE ServerOK' /\ AtWork'
  <2>1. Results(recipients[Len(results) + 1]) \subseteq Verdicts
    BY DEF Results, Verdicts
  <2>2. PICK code \in Verdicts : results' = Append(results, code)
    BY <1>7, <2>1 DEF Process
  <2>3. /\ phase = "process" /\ Len(results) < Len(recipients)
        /\ UNCHANGED <<phase, mailFrom, recipients, got, written>>
    BY <1>7 DEF Process
  <2>4. results' \in Seq(Verdicts) /\ Len(results') = Len(results) + 1
    BY <1>0, <2>2 DEF ServerOK
  <2> QED BY <1>0, <2>3, <2>4 DEF ServerOK
<1>8. ASSUME Processed PROVE ServerOK' /\ AtWork'
  <2>1. /\ phase = "process" /\ phase' = "reply" /\ Len(results) = Len(recipients)
        /\ UNCHANGED <<mailFrom, recipients, got, results, written>>
    BY <1>8 DEF Processed
  <2>2. Len(recipients) > 0
    BY <1>0, <2>1 DEF ServerOK
  <2> QED BY <1>0, <2>1, <2>2 DEF ServerOK
<1>9. ASSUME Finish PROVE ServerOK' /\ AtWork'
  <2>1. recipients' \in Seq(Known) /\ results' \in Seq(Verdicts) /\ Len(results') = 0
    BY <1>9, Nothing DEF Finish
  <2>2. phase' = "command" /\ got' = "none" /\ written' = 0 /\ results' = <<>>
    BY <1>9 DEF Finish
  <2>3. mailFrom' \in BOOLEAN
    BY <1>9 DEF Finish
  <2> QED BY <2>1, <2>2, <2>3 DEF ServerOK
<1>10. ASSUME ReplyLmtp \/ ReplySmtp PROVE ServerOK' /\ AtWork'
  <2>1. CASE Finish
    BY <1>9, <2>1
  <2>2. CASE ~Finish
    <3>1. /\ phase = "reply" /\ written + 1 # Len(results) /\ written' = written + 1
          /\ UNCHANGED <<phase, mailFrom, recipients, got, results>>
      BY <1>10, <2>2 DEF ReplyLmtp, ReplySmtp
    <3> QED BY <1>0, <3>1 DEF ServerOK
  <2> QED BY <2>1, <2>2
<1> QED BY <1>1, <1>2, <1>3, <1>4, <1>5, <1>6, <1>7, <1>8, <1>10 DEF ServerStep, TaskStep

LEMMA ServerWorking == ASSUME Working, ServerStep PROVE Working'
<1>1. protocol' = protocol /\ UNCHANGED client
  BY DEF ServerStep, TaskStep, Hello, Mail, Recipient, Data, Reset, NoEffect, Quit, Disconnected, ConnectionFails,
         ReadText, ReadDot, ReadEnd, Process, Processed, ReplyLmtp, ReplySmtp
<1>2. truth' \in Seq(Made)
  <2>1. CASE Processed
    <3>1. \A i \in DOMAIN recipients : recipients[i] \in Addresses /\ results[i] \in Verdicts
      BY <2>1 DEF Processed, Known, Working, TypeOK, ServerOK
    <3>2. \A i \in DOMAIN recipients : [to |-> recipients[i], code |-> results[i]] \in Made
      BY <3>1 DEF Made
    <3>3. DOMAIN recipients = 1..Len(recipients) /\ Len(recipients) \in Nat
      BY DEF Working, TypeOK, ServerOK
    <3>4. truth \in Seq(Made)
      BY DEF Working, TypeOK
    <3> QED BY <2>1, <3>2, <3>3, <3>4 DEF Processed
  <2>2. CASE ~Processed
    <3>1. truth' = truth
      BY <2>2 DEF ServerStep, TaskStep, Hello, Mail, Recipient, Data, Reset, NoEffect, Quit, Disconnected,
             ConnectionFails, ReadText, ReadDot, ReadEnd, Process, ReplyLmtp, ReplySmtp
    <3> QED BY <3>1 DEF Working, TypeOK
  <2> QED BY <2>1, <2>2
<1>3. TypeOK'
  BY <1>1, <1>2, ServerWire, ServerServer, Frame DEF Working, TypeOK
<1> QED BY <1>1, <1>3, ServerServer DEF Working, AtWork

LEMMA WorkingStep == ASSUME Working, [Next]_vars PROVE Working'
<1>1. CASE UNCHANGED vars
  <2>1. UNCHANGED <<protocol, wire, server, client, truth>>
    BY <1>1 DEF vars
  <2>2. TypeOK'
    BY <2>1, Frame DEF Working, TypeOK
  <2> QED BY <2>1, <2>2 DEF Working, AtWork, server
<1> QED BY <1>1, FrontWorking, ServerWorking DEF Next

(* The fields of a connection keep their shape, and read_data and process    *)
(* only begin for a transaction that has recipients (handle_connection).     *)
THEOREM SessionTypeCorrect == Spec => []TypeOK
<1>1. Working => TypeOK
  BY DEF Working
<1> QED BY <1>1, InitWorking, WorkingStep, PTL DEF Spec

-----------------------------------------------------------------------------
(* What the front MTA will know, as commands and replies come and go.        *)
LEMMA ForetellsNow ==
    ASSUME NEW known \in Seq(Addresses), NEW commands
    PROVE  Foretells(known, commands, <<>>, known)
<1> DEFINE now == [i \in 0..0 |-> known]
<1>1. now \in [0..0 -> Seq(Addresses)] /\ now[0] = known /\ Len(<<>>) = 0 /\ 1..0 = {}
  OBVIOUS
<1> HIDE DEF now
<1> QED BY <1>1 DEF Foretells

LEMMA ForetellsAsk ==
    ASSUME NEW known, NEW commands \in Seq(Awaited), NEW c \in Awaited, NEW codes \in Seq(Codes), NEW r,
           Len(codes) <= Len(commands), Foretells(known, commands, codes, r)
    PROVE  Foretells(known, Append(commands, c), codes, r)
<1>1. \A i \in 1..Len(codes) : Append(commands, c)[i] = commands[i]
  OBVIOUS
<1>2. PICK learnt \in [0..Len(codes) -> Seq(Addresses)] :
         /\ learnt[0] = known /\ learnt[Len(codes)] = r
         /\ \A i \in 1..Len(codes) : learnt[i] = Learns(learnt[i - 1], commands[i], codes[i])
  BY DEF Foretells
<1>3. \A i \in 1..Len(codes) : learnt[i] = Learns(learnt[i - 1], Append(commands, c)[i], codes[i])
  BY <1>1, <1>2
<1> QED BY <1>2, <1>3 DEF Foretells

LEMMA ForetellsSay ==
    ASSUME NEW known, NEW commands \in Seq(Awaited), NEW codes \in Seq(Codes), NEW code \in Codes,
           NEW r \in Seq(Addresses),
           Len(codes) < Len(commands), Foretells(known, commands, codes, r)
    PROVE  Foretells(known, commands, Append(codes, code), Learns(r, commands[Len(codes) + 1], code))
<1> DEFINE n == Len(codes)
           new == Learns(r, commands[n + 1], code)
<1>1. new \in Seq(Addresses)
  BY LearnsShape
<1>2. PICK learnt \in [0..n -> Seq(Addresses)] :
         /\ learnt[0] = known /\ learnt[n] = r
         /\ \A i \in 1..n : learnt[i] = Learns(learnt[i - 1], commands[i], codes[i])
  BY DEF Foretells
<1> DEFINE more == [i \in 0..(n + 1) |-> IF i = n + 1 THEN new ELSE learnt[i]]
<1>3. Len(Append(codes, code)) = n + 1 /\ n \in Nat
      /\ Append(codes, code)[n + 1] = code /\ \A i \in 1..n : Append(codes, code)[i] = codes[i]
  OBVIOUS
<1> HIDE DEF new
<1>4. more \in [0..(n + 1) -> Seq(Addresses)]
  BY <1>1, <1>2, <1>3
<1>5. more[0] = known /\ more[n + 1] = new
  BY <1>2, <1>3
<1>6. ASSUME NEW i \in 1..(n + 1)
      PROVE  more[i] = Learns(more[i - 1], commands[i], Append(codes, code)[i])
  <2>1. CASE i = n + 1
    <3>1. more[i] = new /\ more[i - 1] = r
      BY <1>2, <1>3, <2>1
    <3> QED BY <1>3, <2>1, <3>1 DEF new
  <2>2. CASE i # n + 1
    <3>1. i \in 1..n /\ i - 1 \in 0..n /\ more[i] = learnt[i] /\ more[i - 1] = learnt[i - 1]
      BY <1>3, <2>2
    <3> QED BY <1>2, <1>3, <3>1
  <2> QED BY <2>1, <2>2
<1> HIDE DEF more
<1> QED BY <1>3, <1>4, <1>5, <1>6 DEF Foretells, new

LEMMA ForetellsHear ==
    ASSUME NEW known, NEW commands \in Seq(Awaited), NEW codes \in Seq(Codes), NEW r,
           codes # <<>>, Len(codes) <= Len(commands), Foretells(known, commands, codes, r)
    PROVE  Foretells(Learns(known, Head(commands), Head(codes)), Tail(commands), Tail(codes), r)
<1> DEFINE n == Len(codes)
<1>1. PICK learnt \in [0..n -> Seq(Addresses)] :
         /\ learnt[0] = known /\ learnt[n] = r
         /\ \A i \in 1..n : learnt[i] = Learns(learnt[i - 1], commands[i], codes[i])
  BY DEF Foretells
<1>2. /\ n \in Nat /\ n > 0 /\ Len(Tail(codes)) = n - 1
      /\ Head(codes) = codes[1] /\ Head(commands) = commands[1]
      /\ \A i \in 1..(n - 1) : Tail(codes)[i] = codes[i + 1] /\ Tail(commands)[i] = commands[i + 1]
  OBVIOUS
<1> DEFINE rest == [i \in 0..(n - 1) |-> learnt[i + 1]]
<1> HIDE DEF n
<1>3. rest \in [0..(n - 1) -> Seq(Addresses)]
  BY <1>1, <1>2
<1>4. rest[0] = Learns(known, Head(commands), Head(codes)) /\ rest[n - 1] = r
  <2>1. rest[0] = learnt[1] /\ rest[n - 1] = learnt[n]
    BY <1>2
  <2>2. learnt[1] = Learns(learnt[1 - 1], commands[1], codes[1])
    BY <1>1, <1>2
  <2> QED BY <1>1, <1>2, <2>1, <2>2
<1>5. ASSUME NEW i \in 1..(n - 1)
      PROVE  rest[i] = Learns(rest[i - 1], Tail(commands)[i], Tail(codes)[i])
  <2>1. /\ rest[i] = learnt[i + 1] /\ rest[i - 1] = learnt[i] /\ i + 1 \in 1..n /\ (i + 1) - 1 = i
        /\ Tail(codes)[i] = codes[i + 1] /\ Tail(commands)[i] = commands[i + 1]
    BY <1>2
  <2>2. learnt[i + 1] = Learns(learnt[(i + 1) - 1], commands[i + 1], codes[i + 1])
    BY <1>1, <2>1
  <2> QED BY <2>1, <2>2
<1> HIDE DEF rest
<1> QED BY <1>2, <1>3, <1>4, <1>5 DEF Foretells

-----------------------------------------------------------------------------
(* The shapes the steps below need.                                          *)
LEMMA Shapes ==
    ASSUME Working
    PROVE  /\ toServer \in Seq(WireLines) /\ toClient \in Seq(Codes)
           /\ asked \in Seq(Awaited) /\ accepted \in Seq(Addresses) /\ told \in Seq(Codes)
           /\ recipients \in Seq(Known) /\ results \in Seq(Verdicts) /\ truth \in Seq(Made)
           /\ written \in Nat /\ written <= Len(results)
           /\ mailFrom \in BOOLEAN /\ gone \in BOOLEAN
           /\ protocol \in {"lmtp", "smtp"} /\ AtWork
           /\ RepliesPerMessage \in Nat
           /\ phase \in {"data", "process", "reply"} => RepliesPerMessage > 0
<1>1. toServer \in Seq(WireLines) /\ toClient \in Seq(Codes) /\ gone \in BOOLEAN
  BY DEF Working, TypeOK, WireOK
<1>2. asked \in Seq(Awaited) /\ accepted \in Seq(Addresses) /\ told \in Seq(Codes)
  BY DEF Working, TypeOK, ClientOK
<1>3. recipients \in Seq(Known) /\ results \in Seq(Verdicts) /\ written \in Nat /\ written <= Len(results)
      /\ mailFrom \in BOOLEAN
  BY DEF Working, TypeOK, ServerOK
<1>4. truth \in Seq(Made) /\ protocol \in {"lmtp", "smtp"} /\ AtWork
  BY DEF Working, TypeOK
<1>5. Len(recipients) \in Nat /\ (recipients # <<>> => Len(recipients) > 0)
  BY <1>3
<1>6. RepliesPerMessage \in Nat /\ (phase \in {"data", "process", "reply"} => RepliesPerMessage > 0)
  BY <1>4, <1>5 DEF RepliesPerMessage, AtWork
<1> QED BY <1>1, <1>2, <1>3, <1>4, <1>6

LEMMA AskAligned ==
    ASSUME Working, Aligned, NEW c \in Commands, Ask(c)
    PROVE  Aligned'
<1>1. /\ toServer \in Seq(WireLines) /\ toClient \in Seq(Codes) /\ asked \in Seq(Awaited)
      /\ c \in Awaited /\ c \in WireLines
  BY Shapes DEF Awaited, WireLines
<1>2. /\ asked' = Append(asked, c) /\ toServer' = Append(toServer, c)
      /\ UNCHANGED <<toClient, body>>
      /\ asked # <<>> => asked[Len(asked)].verb \notin LastInGroup
  BY DEF Ask
<1>3. /\ Len(asked') = Len(asked) + 1 /\ asked'[Len(asked) + 1] = c
      /\ \A i \in 1..Len(asked) : asked'[i] = asked[i]
      /\ DOMAIN asked' = 1..(Len(asked) + 1) /\ DOMAIN asked = 1..Len(asked) /\ Len(asked) \in Nat
  BY <1>1, <1>2
<1>4. /\ Len(toServer') = Len(toServer) + 1 /\ toServer'[Len(toServer) + 1] = c
      /\ \A i \in 1..Len(toServer) : toServer'[i] = toServer[i]
      /\ DOMAIN toServer' = 1..(Len(toServer) + 1) /\ DOMAIN toServer = 1..Len(toServer)
      /\ Len(toServer) \in Nat /\ Len(toClient) \in Nat
  BY <1>1, <1>2
<1>5. \A i \in DOMAIN asked' : asked'[i] \in Commands
  BY <1>3 DEF Aligned
<1>6. \A i \in DOMAIN asked' : asked'[i].verb \in LastInGroup => i = Len(asked')
  <2> SUFFICES ASSUME NEW i \in DOMAIN asked', asked'[i].verb \in LastInGroup, i # Len(asked') PROVE FALSE
    OBVIOUS
  <2>1. i \in DOMAIN asked /\ asked[i].verb \in LastInGroup /\ asked # <<>>
    BY <1>3
  <2> QED BY <1>2, <2>1 DEF Aligned
<1>7. Len(asked') = Len(toClient') + Len(toServer')
  BY <1>2, <1>3, <1>4 DEF Aligned
<1>8. \A j \in DOMAIN toServer' : toServer'[j] = asked'[Len(toClient') + j]
  <2> SUFFICES ASSUME NEW j \in DOMAIN toServer' PROVE toServer'[j] = asked'[Len(toClient) + j]
    BY <1>2
  <2>1. CASE j = Len(toServer) + 1
    BY <1>3, <1>4, <2>1 DEF Aligned
  <2>2. CASE j # Len(toServer) + 1
    <3>1. j \in DOMAIN toServer /\ Len(toClient) + j \in 1..Len(asked)
      BY <1>3, <1>4, <2>2 DEF Aligned
    <3> QED BY <1>3, <1>4, <3>1 DEF Aligned
  <2> QED BY <2>1, <2>2
<1> QED BY <1>2, <1>5, <1>6, <1>7, <1>8 DEF Aligned

LEMMA HearAligned ==
    ASSUME Working, Aligned, Hear
    PROVE  /\ body' = "no" => Aligned'
           /\ body' # "no" => Head(asked).verb = "DATA" /\ Head(toClient) = "354"
           /\ Head(asked) \in Commands
           /\ Len(asked') = Len(asked) - 1 /\ Len(toClient') = Len(toClient) - 1
           /\ \A i \in DOMAIN toClient' : i + 1 \in DOMAIN toClient /\ toClient'[i] = toClient[i + 1]
           /\ \A i \in DOMAIN asked' : i + 1 \in DOMAIN asked /\ asked'[i] = asked[i + 1]
           /\ toServer' = toServer
<1>1. toServer \in Seq(WireLines) /\ toClient \in Seq(Codes) /\ asked \in Seq(Awaited)
  BY Shapes
<1>2. /\ toClient # <<>> /\ asked # <<>> /\ toClient' = Tail(toClient) /\ asked' = Tail(asked)
      /\ toServer' = toServer
      /\ body' = IF Head(asked).verb = "DATA" /\ Head(toClient) = "354" THEN "open" ELSE body
  BY DEF Hear
<1>3. /\ Len(asked') = Len(asked) - 1 /\ Len(asked) \in Nat /\ Head(asked) = asked[1] /\ 1 \in DOMAIN asked
      /\ DOMAIN asked' = 1..(Len(asked) - 1) /\ DOMAIN asked = 1..Len(asked)
      /\ \A i \in 1..(Len(asked) - 1) : asked'[i] = asked[i + 1]
  BY <1>1, <1>2
<1>4. /\ Len(toClient') = Len(toClient) - 1 /\ Len(toClient) \in Nat /\ Len(toClient) > 0
      /\ DOMAIN toClient' = 1..(Len(toClient) - 1) /\ DOMAIN toClient = 1..Len(toClient)
      /\ \A i \in 1..(Len(toClient) - 1) : toClient'[i] = toClient[i + 1]
  BY <1>1, <1>2
<1>5. Head(asked) \in Commands
  BY <1>3 DEF Aligned
<1>6. \A i \in DOMAIN asked' : i + 1 \in DOMAIN asked /\ asked'[i] = asked[i + 1]
  BY <1>3
<1>7. \A i \in DOMAIN asked' : asked'[i] \in Commands
  BY <1>6 DEF Aligned
<1>8. \A i \in DOMAIN asked' : asked'[i].verb \in LastInGroup => i = Len(asked')
  BY <1>3, <1>6 DEF Aligned
<1>9. DOMAIN toServer = 1..Len(toServer) /\ Len(toServer) \in Nat
  BY <1>1
<1>10. Len(asked') = Len(toClient') + Len(toServer')
  BY <1>2, <1>3, <1>4, <1>9 DEF Aligned
<1>11. ASSUME NEW j \in DOMAIN toServer' PROVE toServer'[j] = asked'[Len(toClient') + j]
  <2>1. Len(toClient') + j \in 1..(Len(asked) - 1) /\ (Len(toClient') + j) + 1 = Len(toClient) + j
    BY <1>2, <1>3, <1>4, <1>9 DEF Aligned
  <2>2. asked'[Len(toClient') + j] = asked[Len(toClient) + j]
    BY <1>3, <2>1
  <2> QED BY <1>2, <2>2 DEF Aligned
<1>12. body' = "no" => Aligned'
  BY <1>7, <1>8, <1>10, <1>11 DEF Aligned
<1>13. \A i \in DOMAIN toClient' : i + 1 \in DOMAIN toClient /\ toClient'[i] = toClient[i + 1]
  BY <1>4
<1>14. body' # "no" => Head(asked).verb = "DATA" /\ Head(toClient) = "354"
  BY <1>2 DEF Aligned
<1> QED BY <1>2, <1>3, <1>4, <1>5, <1>6, <1>12, <1>13, <1>14

LEMMA SayAligned ==
    ASSUME Working, Aligned, NEW verb, Receive(verb), NEW code \in Codes, Say(code), UNCHANGED client
    PROVE  /\ Aligned'
           /\ Len(toClient) < Len(asked) /\ asked[Len(toClient) + 1] = Head(toServer)
           /\ Head(toServer) \in Commands
           /\ verb \in LastInGroup => toServer' = <<>>
<1>1. toServer \in Seq(WireLines) /\ toClient \in Seq(Codes) /\ asked \in Seq(Awaited)
  BY Shapes
<1>2. /\ toServer # <<>> /\ toServer' = Tail(toServer) /\ toClient' = Append(toClient, code)
      /\ asked' = asked /\ body' = body /\ Head(toServer).verb = verb
  BY DEF Receive, Say, client
<1>3. /\ Len(toServer) \in Nat /\ Len(toServer) > 0 /\ Head(toServer) = toServer[1]
      /\ Len(toServer') = Len(toServer) - 1 /\ DOMAIN toServer' = 1..(Len(toServer) - 1)
      /\ DOMAIN toServer = 1..Len(toServer)
      /\ \A i \in 1..(Len(toServer) - 1) : toServer'[i] = toServer[i + 1]
  BY <1>1, <1>2
<1>4. Len(toClient') = Len(toClient) + 1 /\ Len(toClient) \in Nat
  BY <1>1, <1>2
<1>5. DOMAIN asked = 1..Len(asked) /\ Len(asked) \in Nat
  BY <1>1
<1>6. Len(asked') = Len(toClient') + Len(toServer')
  <2>1. Len(asked) = Len(toClient) + Len(toServer) /\ Len(asked') = Len(asked)
    BY <1>2 DEF Aligned
  <2>2. Len(toServer') = Len(toServer) - 1 /\ Len(toClient') = Len(toClient) + 1
        /\ Len(toServer) \in Nat /\ Len(toClient) \in Nat
    BY <1>3, <1>4
  <2> QED BY <2>1, <2>2
<1>7. ASSUME NEW j \in DOMAIN toServer' PROVE toServer'[j] = asked'[Len(toClient') + j]
  <2>0. j \in 1..(Len(toServer) - 1) /\ Len(toServer) \in Nat
    BY <1>3
  <2>1. toServer'[j] = toServer[j + 1] /\ j + 1 \in DOMAIN toServer
    BY <1>3, <2>0
  <2>3. Len(toClient) + (j + 1) = Len(toClient') + j
    BY <1>4, <2>0
  <2>2. toServer[j + 1] = asked[Len(toClient) + (j + 1)]
    BY <2>1 DEF Aligned
  <2> QED BY <1>2, <2>1, <2>2, <2>3
<1>8. Aligned'
  BY <1>2, <1>6, <1>7 DEF Aligned
<1>9. /\ Len(toClient) < Len(asked) /\ asked[Len(toClient) + 1] = Head(toServer)
      /\ Len(toClient) + 1 \in DOMAIN asked
  <2>1. Len(asked) = Len(toClient) + Len(toServer)
    BY DEF Aligned
  <2>2. Len(toClient) < Len(asked) /\ Len(toClient) + 1 \in 1..Len(asked)
    BY <1>3, <1>4, <1>5, <2>1
  <2>3. 1 \in DOMAIN toServer /\ toServer[1] = Head(toServer)
    BY <1>3
  <2>4. asked[Len(toClient) + 1] = Head(toServer)
    BY <2>3 DEF Aligned
  <2> QED BY <1>5, <2>2, <2>4
<1>10. Head(toServer) \in Commands
  BY <1>9 DEF Aligned
<1>11. verb \in LastInGroup => Len(toClient) + 1 = Len(asked)
  BY <1>2, <1>9 DEF Aligned
<1>12. verb \in LastInGroup => toServer' = <<>>
  <2>1. verb \in LastInGroup => Len(toServer') = 0
    BY <1>3, <1>4, <1>11 DEF Aligned
  <2>2. toServer' \in Seq(WireLines)
    BY <1>1, <1>2
  <2> QED BY <2>1, <2>2
<1> QED BY <1>8, <1>9, <1>10, <1>12

-----------------------------------------------------------------------------
(* Where a session can be when a step is taken.                              *)
LEMMA AwaitsFinals ==
    ASSUME Working, Sent \/ Answering \/ Answered
    PROVE  asked # <<>> /\ asked[Len(asked)] = Final /\ Head(asked) = Final
<1>1. asked \in Seq(Awaited) /\ Finals
  BY Shapes DEF Sent, Answering, Answered
<1>2. asked # <<>>
  <2>1. CASE Sent
    <3>1. Len(asked) > 0
      BY <2>1, Shapes DEF Sent
    <3> QED BY <3>1
  <2>2. CASE Answering
    <3>1. RepliesPerMessage - written > 0
      BY <2>2, Shapes DEF Answering, RepliesPerMessage, AtWork
    <3>2. Len(asked) > 0
      BY <2>2, <3>1, Shapes DEF Answering
    <3> QED BY <3>2
  <2>3. CASE Answered
    BY <2>3 DEF Answered
  <2> QED BY <2>1, <2>2, <2>3
<1>3. Len(asked) \in DOMAIN asked /\ 1 \in DOMAIN asked /\ Head(asked) = asked[1]
  BY <1>1, <1>2
<1> QED BY <1>1, <1>2, <1>3 DEF Finals

LEMMA AskDialogue ==
    ASSUME Working, Dialogue, NEW c \in Commands, Ask(c)
    PROVE  Dialogue'
<1>0. /\ ~gone /\ body = "no" /\ UNCHANGED <<toClient, gone, accepted, told, body, server, truth>>
      /\ asked # <<>> => asked[Len(asked)].verb \notin LastInGroup \cup {"FINAL"}
      /\ asked' = Append(asked, c)
  BY DEF Ask
<1>1. ~(Sent \/ Answering \/ Answered)
  BY <1>0, AwaitsFinals, Lines
<1>2. ~Opening
  <2>1. Opening => asked # <<>> /\ asked[Len(asked)].verb = "DATA"
    <3>1. Opening => Len(asked) > 0
      BY Shapes DEF Opening, Aligned
    <3> QED BY <3>1, Lines DEF Opening
  <2> QED BY <1>0, <2>1 DEF LastInGroup
<1>3. ~Sending /\ ~Orphaned
  BY <1>0 DEF Sending, Orphaned
<1>4. CASE Talking
  <2>1. PICK r \in Seq(Addresses) :
           /\ Foretells(accepted, asked, toClient, r)
           /\ IF mailFrom THEN r = recipients ELSE recipients = <<>>
    BY <1>4 DEF Talking
  <2>2. Foretells(accepted, Append(asked, c), toClient, r)
    <3>1. asked \in Seq(Awaited) /\ toClient \in Seq(Codes) /\ c \in Awaited
      BY Shapes DEF Awaited
    <3>2. Len(toClient) <= Len(asked)
      BY <1>4, Shapes DEF Talking, Aligned
    <3> QED BY <2>1, <3>1, <3>2, ForetellsAsk
  <2>3. Aligned'
    BY <1>4, AskAligned DEF Talking
  <2>4. /\ phase' = "command" /\ got' = "none" /\ mailFrom' = mailFrom /\ recipients' = recipients
        /\ NoGoAhead'
    BY <1>0, <1>4 DEF Talking, NoGoAhead, server
  <2>5. Foretells(accepted', asked', toClient', r)
    BY <1>0, <2>2
  <2>6. Talking'
    BY <2>1, <2>3, <2>4, <2>5 DEF Talking
  <2> QED BY <2>6 DEF Dialogue
<1>5. CASE Closed
  <2>1. Aligned' /\ NoGoAhead' /\ phase' = "closed"
    BY <1>0, <1>5, AskAligned DEF Closed, NoGoAhead, server
  <2> QED BY <2>1 DEF Dialogue, Closed
<1> QED BY <1>1, <1>2, <1>3, <1>4, <1>5 DEF Dialogue

LEMMA HearDialogue == ASSUME Working, Dialogue, Hear, protocol' = protocol PROVE Dialogue'
<1>0. /\ ~gone /\ toClient # <<>> /\ asked # <<>>
      /\ toClient' = Tail(toClient) /\ asked' = Tail(asked)
      /\ accepted' = Learns(accepted, Head(asked), Head(toClient))
      /\ body' = IF Head(asked).verb = "DATA" /\ Head(toClient) = "354" THEN "open" ELSE body
      /\ UNCHANGED <<toServer, gone, server, truth>>
  BY DEF Hear
<1>a. UNCHANGED <<phase, mailFrom, recipients, got, results, written>>
  BY <1>0 DEF server
<1>b. /\ asked \in Seq(Awaited) /\ toClient \in Seq(Codes) /\ Len(toClient) \in Nat /\ Len(toClient) > 0
      /\ Len(toClient') = Len(toClient) - 1 /\ DOMAIN toClient' = 1..(Len(toClient) - 1)
      /\ DOMAIN toClient = 1..Len(toClient) /\ Head(toClient) = toClient[1]
      /\ \A i \in 1..(Len(toClient) - 1) : toClient'[i] = toClient[i + 1]
  BY <1>0, Shapes
<1>d. /\ 1 \in DOMAIN toClient /\ DOMAIN toClient' \subseteq Nat
      /\ \A i \in DOMAIN toClient' : i + 1 \in DOMAIN toClient /\ toClient'[i] = toClient[i + 1]
  BY <1>b
<1>c. ASSUME NEW r, Foretells(accepted, asked, toClient, r), Aligned
      PROVE  Foretells(accepted', asked', toClient', r)
  <2>1. Len(toClient) <= Len(asked)
    BY <1>c, Shapes DEF Aligned
  <2> QED BY <1>0, <1>b, <1>c, <2>1, ForetellsHear
<1>1. CASE Talking
  <2>1. PICK r \in Seq(Addresses) :
           /\ Foretells(accepted, asked, toClient, r)
           /\ IF mailFrom THEN r = recipients ELSE recipients = <<>>
    BY <1>1 DEF Talking
  <2>2. NoGoAhead' /\ Head(toClient) # "354"
    BY <1>b, <1>d, <1>1 DEF Talking, NoGoAhead
  <2>3. Aligned'
    BY <1>0, <1>1, <2>2, HearAligned DEF Talking, Aligned
  <2>4. Foretells(accepted', asked', toClient', r)
    BY <1>c, <1>1, <2>1 DEF Talking
  <2>5. phase' = "command" /\ got' = "none"
    BY <1>a, <1>1 DEF Talking
  <2>6. Talking'
    BY <1>a, <2>1, <2>2, <2>3, <2>4, <2>5 DEF Talking
  <2> QED BY <2>6 DEF Dialogue
<1>2. CASE Opening
  <2>1. Foretells(accepted', asked', toClient', recipients)
    BY <1>c, <1>2 DEF Opening
  <2>2. /\ Aligned /\ toServer = <<>> /\ Len(asked) = Len(toClient)
        /\ asked[Len(asked)] = Plain("DATA") /\ toClient[Len(toClient)] = "354"
    <3>1. Len(<<>>) = 0
      OBVIOUS
    <3> QED BY <1>2, <1>b, <3>1 DEF Opening, Aligned
  <2>3. CASE Len(toClient) = 1
    <3>1. Head(asked).verb = "DATA" /\ Head(toClient) = "354"
      BY <1>b, <2>2, <2>3, Lines
    <3>2. toClient' = <<>> /\ asked' = <<>>
      BY <1>0, <1>b, <2>2, <2>3
    <3>3. accepted' = recipients
      BY <1>b, <2>1, <2>3, <3>2 DEF Foretells
    <3>4. Sending'
      BY <1>0, <1>a, <1>2, <2>2, <3>1, <3>2, <3>3 DEF Opening, Sending
    <3> QED BY <3>4 DEF Dialogue
  <2>4. CASE Len(toClient) # 1
    <3>1. Head(toClient) # "354"
      BY <1>b, <1>2, <2>4 DEF Opening
    <3>2. Aligned'
      BY <1>0, <2>2, <3>1, HearAligned DEF Aligned
    <3>3. /\ Len(toClient') > 0 /\ toClient'[Len(toClient')] = "354"
          /\ \A i \in DOMAIN toClient' : toClient'[i] = "354" => i = Len(toClient')
      <4>1. \A i \in DOMAIN toClient : toClient[i] = "354" => i = Len(toClient)
        BY <1>2 DEF Opening
      <4>2. toClient[Len(toClient)] = "354"
        BY <2>2
      <4>3. PICK n \in Nat : n = Len(toClient) /\ n > 1 /\ n - 1 = Len(toClient')
        BY <1>b, <2>4
      <4>4. n - 1 > 0 /\ toClient'[n - 1] = toClient[n]
        <5>1. n - 1 \in 1..(Len(toClient) - 1) /\ (n - 1) + 1 = n
          BY <4>3
        <5> QED BY <1>b, <4>3, <5>1
      <4>5. ASSUME NEW i \in DOMAIN toClient', toClient'[i] = "354" PROVE i = n - 1
        <5>1. i + 1 \in DOMAIN toClient /\ toClient[i + 1] = "354" /\ i \in Nat
          BY <1>d, <4>5
        <5>2. i + 1 = n
          BY <4>1, <4>3, <5>1
        <5> QED BY <5>1, <5>2
      <4> QED BY <4>2, <4>3, <4>4, <4>5
    <3>4. asked'[Len(asked')] = Plain("DATA")
      BY <1>0, <1>b, <2>2, <2>4
    <3>5. toClient' # <<>>
      BY <3>3
    <3>6. Opening'
      BY <1>0, <1>a, <1>2, <2>1, <2>2, <3>2, <3>3, <3>4, <3>5 DEF Opening
    <3> QED BY <3>6 DEF Dialogue
  <2> QED BY <2>3, <2>4
<1>3. ~Sending /\ ~Sent /\ ~Orphaned
  BY <1>0 DEF Sending, Sent, Orphaned
<1>4. ASSUME Answering \/ Answered
      PROVE  /\ body' = "no" /\ accepted' = accepted /\ told' = Append(told, Head(toClient))
             /\ Finals' /\ Len(asked') = Len(asked) - 1 /\ Len(asked) \in Nat
             /\ Len(told') = Len(told) + 1 /\ Len(told) \in Nat /\ Truthful'
  <2>1. Head(asked).verb = "FINAL" /\ body = "no" /\ Finals /\ Truthful
    BY <1>4, AwaitsFinals, Lines DEF Answering, Answered
  <2>2. body' = "no" /\ accepted' = accepted
    BY <1>0, <2>1 DEF Learns, Restarts
  <2>3. told' = Append(told, Head(toClient))
    BY <2>1 DEF Hear, Restarts
  <2>4. Len(told') = Len(told) + 1 /\ Len(told) \in Nat /\ told' # <<>>
    <3>1. told \in Seq(Codes) /\ Len(told) \in Nat
      BY Shapes
    <3>2. PICK code \in Codes : code = Head(toClient)
      BY <1>b, <1>d
    <3>3. told' = Append(told, code)
      BY <2>3, <3>2
    <3> QED BY <3>1, <3>3
  <2>5. Finals' /\ Len(asked') = Len(asked) - 1 /\ Len(asked) \in Nat
    BY <1>0, <1>b, <2>1 DEF Finals
  <2>6. Truthful'
    <3>1. CASE protocol = "lmtp"
      <4>1. ASSUME NEW i \in DOMAIN toClient'
            PROVE  /\ Len(told') + i \in DOMAIN accepted /\ Len(told') + i \in DOMAIN truth
                   /\ truth[Len(told') + i] = [to |-> accepted[Len(told') + i], code |-> toClient'[i]]
        <5>1. i + 1 \in DOMAIN toClient /\ toClient'[i] = toClient[i + 1] /\ i \in Nat
          BY <1>d
        <5>2. Len(told') + i = Len(told) + (i + 1)
          BY <2>4, <5>1
        <5> QED BY <2>1, <3>1, <5>1, <5>2 DEF Truthful
      <4>2. protocol' = protocol /\ truth' = truth
        BY <1>0
      <4> QED BY <2>2, <3>1, <4>1, <4>2 DEF Truthful
    <3>2. CASE protocol # "lmtp"
      <4>1. Len(toClient) = 1
        BY <1>0, <2>1, <3>2 DEF Truthful
      <4>2. toClient' = <<>>
        BY <1>0, <1>b, <4>1
      <4>3. protocol' = protocol
        OBVIOUS
      <4> QED BY <3>2, <4>2, <4>3 DEF Truthful
    <3> QED BY <3>1, <3>2
  <2> QED BY <2>2, <2>3, <2>4, <2>5, <2>6
<1>5. CASE Answering
  <2>1. protocol' = protocol /\ RepliesPerMessage' = RepliesPerMessage
    BY <1>a DEF RepliesPerMessage
  <2>2. Len(asked') = Len(toClient') + RepliesPerMessage' - written' /\ Len(told') + Len(toClient') = written'
    <3>1. /\ Len(asked) = Len(toClient) + RepliesPerMessage - written /\ Len(told) + Len(toClient) = written
          /\ RepliesPerMessage \in Nat /\ written \in Nat
      BY <1>5, Shapes DEF Answering
    <3>2. Len(asked') = Len(asked) - 1 /\ Len(told') = Len(told) + 1 /\ Len(told) \in Nat
      BY <1>4, <1>5
    <3>3. Len(toClient') = Len(toClient) - 1 /\ Len(toClient) \in Nat
      BY <1>b
    <3>4. written' = written /\ RepliesPerMessage' = RepliesPerMessage
      BY <1>a, <2>1
    <3> QED BY <3>1, <3>2, <3>3, <3>4
  <2>3. Answering'
    BY <1>0, <1>a, <1>4, <1>5, <2>1, <2>2 DEF Answering
  <2> QED BY <2>3 DEF Dialogue
<1>6. CASE Answered
  <2>1. Len(asked') = Len(toClient')
    BY <1>b, <1>4, <1>6 DEF Answered
  <2>2. CASE asked' # <<>>
    <3>1. Answered'
      BY <1>0, <1>a, <1>4, <1>6, <2>1, <2>2 DEF Answered
    <3> QED BY <3>1 DEF Dialogue
  <2>3. CASE asked' = <<>>
    <3>1. toClient' = <<>>
      BY <1>0, <1>b, <2>1, <2>3
    <3>2. Foretells(accepted', asked', toClient', accepted) /\ accepted \in Seq(Addresses)
      BY <1>4, <1>6, <3>1, ForetellsNow, Shapes
    <3>3. toServer' = <<>> /\ body' = "no"
      BY <1>0, <1>4, <1>6 DEF Answered
    <3>4. Aligned' /\ NoGoAhead'
      BY <2>3, <3>1, <3>3 DEF Aligned, NoGoAhead
    <3>5. phase' = "command" /\ got' = "none" /\ ~mailFrom' /\ recipients' = <<>>
      BY <1>a, <1>6 DEF Answered
    <3>6. Talking'
      BY <3>2, <3>4, <3>5 DEF Talking
    <3> QED BY <3>6 DEF Dialogue
  <2> QED BY <2>2, <2>3
<1>7. CASE Closed
  <2>1. Aligned /\ NoGoAhead
    BY <1>0, <1>7 DEF Closed
  <2>2. NoGoAhead' /\ Head(toClient) # "354"
    BY <1>b, <1>d, <2>1 DEF NoGoAhead
  <2>3. Aligned'
    BY <1>0, <2>1, <2>2, HearAligned DEF Aligned
  <2> QED BY <1>a, <1>7, <2>2, <2>3 DEF Dialogue, Closed
<1> QED BY <1>1, <1>2, <1>3, <1>5, <1>6, <1>7 DEF Dialogue

(* The text and then the terminator.                                         *)
LEMMA TextThenDot == Append(<<>>, Dot) = <<Dot>> /\ Append(<<Text>>, Dot) = <<Text, Dot>>
<1>1. Append(<<>>, Dot) = <<Dot>>
  OBVIOUS
<1> DEFINE S == {Text, Dot}
           s == Append(<<Text>>, Dot)
           t == <<Text, Dot>>
<1>2. s \in Seq(S) /\ t \in Seq(S)
  OBVIOUS
<1>3. Len(s) = 2 /\ s[1] = Text /\ s[2] = Dot
  OBVIOUS
<1>4. Len(t) = 2 /\ t[1] = Text /\ t[2] = Dot
  OBVIOUS
<1> HIDE DEF S, s, t
<1>5. \A i \in 1..Len(s) : s[i] = t[i]
  BY <1>3, <1>4
<1>6. s = t
  BY <1>2, <1>3, <1>4, <1>5, SeqEqual
<1> QED BY <1>1, <1>6 DEF s, t

LEMMA SendDialogue ==
    ASSUME Working, Dialogue, SendText \/ SendDot, protocol' = protocol PROVE Dialogue'
<1>1. Sending
  BY DEF SendText, SendDot, Dialogue, Talking, Opening, Sent, Answering, Answered, Orphaned, Closed, Aligned
<1>2. UNCHANGED <<toClient, gone, accepted, phase, mailFrom, recipients, got, results, written>>
  BY DEF SendText, SendDot, server
<1>3. CASE SendText
  <2>1. body' = "part" /\ toServer' = <<Text>> /\ asked' = asked
    BY <1>1, <1>3 DEF SendText, Sending, Text
  <2>2. Sending'
    BY <1>1, <1>2, <2>1 DEF Sending
  <2> QED BY <2>2 DEF Dialogue
<1>4. CASE SendDot
  <2>1. body' = "no" /\ told' = <<>>
        /\ asked' = [i \in 1..(IF protocol = "lmtp" THEN Len(accepted) ELSE 1) |-> Final]
    BY <1>4 DEF SendDot, Final
  <2>2. toServer' = <<Text, Dot>> \/ toServer' = <<Dot>>
    <3>1. toServer' = Append(toServer, Dot)
      BY <1>4 DEF SendDot, Dot
    <3> QED BY <1>1, <3>1, TextThenDot DEF Sending
  <2>3. recipients = accepted /\ Len(accepted) \in Nat
    BY <1>1, Shapes DEF Sending
  <2>4. RepliesPerMessage' = IF protocol = "lmtp" THEN Len(accepted) ELSE 1
    BY <1>2, <2>3 DEF RepliesPerMessage
  <2>5. Finals' /\ Len(asked') = RepliesPerMessage'
    BY <2>1, <2>3, <2>4 DEF Finals
  <2>6. Sent'
    BY <1>1, <1>2, <2>1, <2>2, <2>3, <2>5 DEF Sending, Sent
  <2> QED BY <2>6 DEF Dialogue
<1> QED BY <1>3, <1>4

LEMMA HangUpDialogue == ASSUME Working, Dialogue, HangUp, protocol' = protocol PROVE Dialogue'
<1>1. /\ gone' = TRUE /\ ~gone
      /\ UNCHANGED <<toServer, toClient, phase, mailFrom, recipients, got, results, written,
                     asked, accepted, told, body, truth>>
  BY DEF HangUp, server, client
<1>2. Talking => Talking'
  BY <1>1 DEF Talking, Aligned, NoGoAhead
<1>3. Opening => Opening'
  BY <1>1 DEF Opening, Aligned
<1>4. Sending => Sending'
  BY <1>1 DEF Sending
<1>5. Sent => Sent'
  BY <1>1 DEF Sent, Finals, RepliesPerMessage
<1>6. Answering => Answering'
  BY <1>1 DEF Answering, Finals, RepliesPerMessage, Truthful
<1>7. Answered => Answered'
  BY <1>1 DEF Answered, Finals, Truthful
<1>8. Closed => Closed'
  BY <1>1 DEF Closed
<1>9. ~Orphaned
  BY <1>1 DEF Orphaned
<1> QED BY <1>2, <1>3, <1>4, <1>5, <1>6, <1>7, <1>8, <1>9 DEF Dialogue

-----------------------------------------------------------------------------
(* A command is answered: what the reply will teach the front MTA.           *)
LEMMA CommandDialogue ==
    ASSUME Working, Dialogue, NEW verb, Receive(verb), NEW code \in Codes, Say(code), UNCHANGED client
    PROVE  /\ Talking /\ Aligned' /\ Head(toServer).verb = verb
           /\ verb \in LastInGroup => toServer' = <<>>
           /\ code # "354" => NoGoAhead'
           /\ \A i \in DOMAIN toClient' : toClient'[i] = "354" => i = Len(toClient')
           /\ toClient' # <<>> /\ toClient'[Len(toClient')] = code
           /\ asked'[Len(toClient')] = Head(toServer) /\ Head(toServer) \in Commands
           /\ \E r \in Seq(Addresses) :
                  /\ IF mailFrom THEN r = recipients ELSE recipients = <<>>
                  /\ Learns(r, Head(toServer), code) \in Seq(Addresses)
                  /\ Foretells(accepted', asked', toClient', Learns(r, Head(toServer), code))
<1>1. phase = "command" /\ toServer # <<>> /\ toClient' = Append(toClient, code) /\ Head(toServer).verb = verb
      /\ asked' = asked /\ accepted' = accepted
  BY DEF Receive, Say, client
<1>2. Talking
  BY <1>1 DEF Dialogue, Opening, Sending, Sent, Answering, Answered, Orphaned, Closed
<1>3. Aligned /\ NoGoAhead
  BY <1>2 DEF Talking
<1>4. /\ Aligned' /\ Len(toClient) < Len(asked) /\ asked[Len(toClient) + 1] = Head(toServer)
      /\ Head(toServer) \in Commands /\ (verb \in LastInGroup => toServer' = <<>>)
  BY <1>3, SayAligned
<1>5. toClient \in Seq(Codes) /\ asked \in Seq(Awaited)
  BY Shapes
<1>6. /\ Len(toClient') = Len(toClient) + 1 /\ toClient'[Len(toClient) + 1] = code
      /\ DOMAIN toClient' = 1..(Len(toClient) + 1) /\ Len(toClient) \in Nat /\ toClient' # <<>>
      /\ \A i \in 1..Len(toClient) : i \in DOMAIN toClient /\ toClient'[i] = toClient[i]
  BY <1>1, <1>5
<1>7. \A i \in DOMAIN toClient' : i = Len(toClient') \/ toClient'[i] # "354"
  BY <1>3, <1>6 DEF NoGoAhead
<1>8. code # "354" => NoGoAhead'
  BY <1>6, <1>7 DEF NoGoAhead
<1>9. PICK r \in Seq(Addresses) :
         /\ Foretells(accepted, asked, toClient, r)
         /\ IF mailFrom THEN r = recipients ELSE recipients = <<>>
  BY <1>2 DEF Talking
<1>10. Foretells(accepted', asked', toClient', Learns(r, Head(toServer), code))
  <2>1. Foretells(accepted, asked, Append(toClient, code), Learns(r, asked[Len(toClient) + 1], code))
    BY <1>4, <1>5, <1>9, ForetellsSay
  <2> QED BY <1>1, <1>4, <2>1
<1>11. Learns(r, Head(toServer), code) \in Seq(Addresses)
  BY <1>4, LearnsShape DEF Awaited
<1>12. asked'[Len(toClient')] = Head(toServer)
  BY <1>1, <1>4, <1>6
<1> QED BY <1>1, <1>2, <1>4, <1>6, <1>7, <1>8, <1>9, <1>10, <1>11, <1>12

LEMMA CommandsDialogue ==
    ASSUME Working, Dialogue, Hello \/ Mail \/ Recipient \/ Data \/ Reset \/ NoEffect \/ Quit
    PROVE  Dialogue'
<1>0. {"221", "250", "354", "500", "502", "503", "550"} \subseteq Codes
  BY DEF Codes
<1>1. UNCHANGED client
  BY DEF Hello, Mail, Recipient, Data, Reset, NoEffect, Quit
(* Whatever leaves the recipients as the reply says leaves the two agreed.   *)
<1>2. ASSUME NEW verb, Receive(verb), NEW code \in Codes, Say(code), code # "354",
             phase' = "command", got' = got,
             NEW r \in Seq(Addresses), Foretells(accepted', asked', toClient', r),
             IF mailFrom' THEN r = recipients' ELSE recipients' = <<>>
      PROVE  Dialogue'
  <2>1. Talking /\ Aligned' /\ NoGoAhead'
    BY <1>1, <1>2, CommandDialogue
  <2>2. Talking'
    BY <1>2, <2>1 DEF Talking
  <2> QED BY <2>2 DEF Dialogue
<1>3. ASSUME NEW verb \in {"EHLO", "MAIL", "RSET"}, Receive(verb), Say("250"), phase' = phase, got' = got,
             recipients' = <<>>
      PROVE  Dialogue'
  <2>1. PICK r \in Seq(Addresses) :
          /\ Learns(r, Head(toServer), "250") \in Seq(Addresses)
          /\ Foretells(accepted', asked', toClient', Learns(r, Head(toServer), "250"))
    BY <1>0, <1>1, <1>3, CommandDialogue
  <2>2. Learns(r, Head(toServer), "250") = <<>>
    BY <1>3 DEF Learns, Restarts, Receive
  <2>3. phase' = "command"
    BY <1>3 DEF Receive
  <2> QED BY <1>0, <1>2, <1>3, <2>1, <2>2, <2>3
<1>4. CASE Hello \/ Mail \/ Reset
  BY <1>3, <1>4 DEF Hello, Mail, Reset
<1>5. ASSUME NEW verb, Receive(verb), NEW code \in Codes, Say(code), code # "354",
             phase' = phase, got' = got, mailFrom' = mailFrom, recipients' = recipients,
             verb \notin {"EHLO", "MAIL", "RSET"}, verb = "RCPT" => code # "250"
      PROVE  Dialogue'
  <2>1. PICK r \in Seq(Addresses) :
          /\ IF mailFrom THEN r = recipients ELSE recipients = <<>>
          /\ Learns(r, Head(toServer), code) \in Seq(Addresses)
          /\ Foretells(accepted', asked', toClient', Learns(r, Head(toServer), code))
    BY <1>1, <1>5, CommandDialogue
  <2>2. Learns(r, Head(toServer), code) = r
    BY <1>5 DEF Learns, Restarts, Receive
  <2>3. phase' = "command"
    BY <1>5 DEF Receive
  <2> QED BY <1>2, <1>5, <2>1, <2>2, <2>3
<1>6. CASE NoEffect
  BY <1>0, <1>5, <1>6 DEF NoEffect, server
<1>7. CASE Recipient
  <2>1. Receive("RCPT") /\ UNCHANGED <<phase, mailFrom, got>>
    BY <1>7 DEF Recipient
  <2>2. CASE (Say("503") \/ Say("550")) /\ UNCHANGED recipients
    BY <1>0, <1>5, <2>1, <2>2
  <2>3. CASE mailFrom /\ recipients' = Append(recipients, Head(toServer).to) /\ Say("250")
    <3>1. PICK r \in Seq(Addresses) :
            /\ IF mailFrom THEN r = recipients ELSE recipients = <<>>
            /\ Learns(r, Head(toServer), "250") \in Seq(Addresses)
            /\ Foretells(accepted', asked', toClient', Learns(r, Head(toServer), "250"))
      BY <1>0, <1>1, <2>1, <2>3, CommandDialogue
    <3>2. Learns(r, Head(toServer), "250") = recipients'
      BY <2>1, <2>3, <3>1 DEF Learns, Restarts, Receive
    <3>3. phase' = "command" /\ mailFrom'
      BY <2>1, <2>3 DEF Receive
    <3> QED BY <1>0, <1>2, <2>1, <2>3, <3>1, <3>2, <3>3
  <2> QED BY <1>7, <2>2, <2>3 DEF Recipient
<1>8. CASE Data
  <2>1. Receive("DATA") /\ UNCHANGED <<mailFrom, recipients, got>>
    BY <1>8 DEF Data
  <2>2. CASE Say("503") /\ phase' = phase
    BY <1>0, <1>5, <2>1, <2>2
  <2>3. CASE recipients # <<>> /\ Say("354") /\ phase' = "data"
    <3>1. PICK r \in Seq(Addresses) :
            /\ IF mailFrom THEN r = recipients ELSE recipients = <<>>
            /\ Foretells(accepted', asked', toClient', Learns(r, Head(toServer), "354"))
      BY <1>0, <1>1, <2>1, <2>3, CommandDialogue
    <3>2. Learns(r, Head(toServer), "354") = recipients'
      BY <2>1, <2>3, <3>1 DEF Learns, Restarts, Receive
    <3>3. /\ Talking /\ Aligned' /\ toServer' = <<>> /\ toClient' # <<>>
          /\ toClient'[Len(toClient')] = "354" /\ asked'[Len(toClient')] = Head(toServer)
          /\ Head(toServer) \in Commands
          /\ \A i \in DOMAIN toClient' : toClient'[i] = "354" => i = Len(toClient')
      BY <1>0, <1>1, <2>1, <2>3, CommandDialogue DEF LastInGroup
    <3>4. Head(toServer) = Plain("DATA")
      BY <2>1, <3>3 DEF Receive, Commands, Plain, Rcpt
    <3>5. Len(asked') = Len(toClient')
      <4>1. toClient' \in Seq(Codes) /\ Len(<<>>) = 0
        BY <1>0, <2>3, Shapes DEF Say
      <4> QED BY <3>3, <4>1 DEF Aligned
    <3>6. got' = "none"
      BY <2>1, <3>3 DEF Talking
    <3>7. Opening'
      BY <2>3, <3>1, <3>2, <3>3, <3>4, <3>5, <3>6 DEF Opening
    <3> QED BY <3>7 DEF Dialogue
  <2> QED BY <1>8, <2>2, <2>3 DEF Data
<1>9. CASE Quit
  <2>1. Receive("QUIT") /\ Say("221") /\ phase' = "closed"
    BY <1>9 DEF Quit
  <2>2. Aligned' /\ NoGoAhead'
    BY <1>0, <1>1, <2>1, CommandDialogue
  <2> QED BY <2>1, <2>2 DEF Dialogue, Closed
<1> QED BY <1>4, <1>6, <1>7, <1>8, <1>9

-----------------------------------------------------------------------------
(* The end of the connection, and the message.                               *)
LEMMA EndDialogue ==
    ASSUME Working, Dialogue, Disconnected \/ ConnectionFails \/ ReadEnd
    PROVE  Dialogue'
<1>1. CASE Disconnected \/ ConnectionFails
  <2>1. Closed'
    BY <1>1 DEF Disconnected, ConnectionFails, Closed, wire
  <2> QED BY <2>1 DEF Dialogue
<1>2. CASE ReadEnd
  <2>1. phase = "data" /\ gone /\ toServer = <<>> /\ got' = got /\ gone' = gone /\ toServer' = toServer
    BY <1>2 DEF ReadEnd, wire
  <2>2. ~Sent
    BY <2>1 DEF Sent
  <2>3. got # "whole"
    BY <2>1, <2>2 DEF Dialogue, Talking, Opening, Sending, Answering, Answered, Orphaned, Closed
  <2>4. Orphaned'
    BY <2>1, <2>3 DEF Orphaned
  <2> QED BY <2>4 DEF Dialogue
<1> QED BY <1>1, <1>2

LEMMA ReadDialogue ==
    ASSUME Working, Dialogue, ReadText \/ ReadDot, protocol' = protocol
    PROVE  Dialogue'
<1>1. /\ phase = "data" /\ toServer # <<>> /\ toServer' = Tail(toServer)
      /\ UNCHANGED <<toClient, gone, mailFrom, recipients, results, written, truth>>
      /\ UNCHANGED <<asked, accepted, told, body>>
  BY DEF ReadText, ReadDot, client
<1>2. Sending \/ Sent
  BY <1>1 DEF Dialogue, Talking, Opening, Answering, Answered, Orphaned, Closed
<1>3. /\ Head(<<Text>>) = Text /\ Tail(<<Text>>) = <<>>
      /\ Head(<<Dot>>) = Dot /\ Tail(<<Dot>>) = <<>>
      /\ Head(<<Text, Dot>>) = Text /\ Tail(<<Text, Dot>>) = <<Dot>>
  OBVIOUS
<1>4. Text.verb = "text" /\ Dot.verb = "."
  BY Lines
<1>5. RepliesPerMessage' = RepliesPerMessage
  BY <1>1 DEF RepliesPerMessage
<1>6. CASE ReadText
  <2>1. Head(toServer).verb = "text" /\ got' = "part" /\ phase' = phase
    BY <1>6 DEF ReadText
  <2>2. CASE Sending
    <3>1. toServer' = <<>>
      BY <1>1, <1>3, <2>2 DEF Sending
    <3>2. Sending'
      BY <1>1, <2>1, <2>2, <3>1 DEF Sending
    <3> QED BY <3>2 DEF Dialogue
  <2>3. CASE Sent
    <3>1. toServer' = <<Dot>>
      BY <1>1, <1>3, <1>4, <2>1, <2>3 DEF Sent
    <3>2. Sent'
      BY <1>1, <1>5, <2>1, <2>3, <3>1 DEF Sent, Finals
    <3> QED BY <3>2 DEF Dialogue
  <2> QED BY <1>2, <2>2, <2>3
<1>7. CASE ReadDot
  <2>1. Head(toServer).verb = "." /\ got' = "whole" /\ phase' = "process"
    BY <1>7 DEF ReadDot
  <2>2. ~Sending
    BY <1>1, <1>3, <1>4, <2>1 DEF Sending
  <2>3. Sent
    BY <1>2, <2>2
  <2>4. toServer' = <<>>
    BY <1>1, <1>3, <1>4, <2>1, <2>3 DEF Sent
  <2>5. written' = 0 /\ RepliesPerMessage' \in Nat
    BY <1>1, <1>5, Shapes DEF AtWork
  <2>6. toClient' = <<>> /\ told' = <<>> /\ Len(<<>>) = 0 /\ DOMAIN <<>> = {}
    BY <1>1, <2>3 DEF Sent
  <2>7. Truthful'
    BY <2>6 DEF Truthful
  <2>8. Len(asked') = Len(toClient') + RepliesPerMessage' - written' /\ Len(told') + Len(toClient') = written'
    BY <1>1, <1>5, <2>3, <2>5, <2>6 DEF Sent
  <2>9. Answering'
    BY <1>1, <2>1, <2>3, <2>4, <2>5, <2>7, <2>8 DEF Sent, Answering, Finals
  <2> QED BY <2>9 DEF Dialogue
<1> QED BY <1>6, <1>7

LEMMA ProcessDialogue ==
    ASSUME Working, Dialogue, Process \/ Processed, protocol' = protocol
    PROVE  Dialogue'
<1>1. /\ phase = "process"
      /\ UNCHANGED <<toServer, toClient, gone, mailFrom, recipients, got, written>>
      /\ UNCHANGED <<asked, accepted, told, body>>
  BY DEF Process, Processed, wire, client
<1>2. Orphaned => Orphaned'
  BY <1>1 DEF Orphaned
<1>3. Answering \/ Orphaned
  BY <1>1 DEF Dialogue, Talking, Opening, Sending, Sent, Answered, Closed
<1>4. RepliesPerMessage' = RepliesPerMessage
  BY <1>1 DEF RepliesPerMessage
<1>5. CASE Answering
  <2>1. Len(told) + Len(toClient) = written /\ written = 0 /\ got = "whole"
    BY <1>1, <1>5, Shapes DEF Answering, AtWork
  <2>2. toClient = <<>> /\ told = <<>>
    BY <2>1, Shapes
  <2>3. Truthful'
    BY <1>1, <2>2 DEF Truthful
  <2>4. CASE Process
    <3>1. phase' = "process"
      BY <2>4 DEF Process
    <3>2. Answering'
      BY <1>1, <1>4, <1>5, <2>3, <3>1 DEF Answering, Finals
    <3> QED BY <3>2 DEF Dialogue
  <2>5. CASE Processed
    <3>1. /\ phase' = "reply" /\ results' = results
          /\ truth' = [i \in DOMAIN recipients |-> [to |-> recipients[i], code |-> results[i]]]
      BY <2>1, <2>5 DEF Processed
    <3>2. Answering'
      BY <1>1, <1>4, <1>5, <2>3, <3>1 DEF Answering, Finals
    <3> QED BY <3>2 DEF Dialogue
  <2> QED BY <2>4, <2>5
<1> QED BY <1>2, <1>3, <1>5 DEF Dialogue

LEMMA ReplyDialogue ==
    ASSUME Working, Dialogue, ReplyLmtp \/ ReplySmtp, protocol' = protocol
    PROVE  Dialogue'
<1>1. /\ phase = "reply" /\ UNCHANGED <<toServer, gone, asked, accepted, told, body, truth>>
  BY DEF ReplyLmtp, ReplySmtp, client
<1>2. Answering \/ Orphaned
  BY <1>1 DEF Dialogue, Talking, Opening, Sending, Sent, Answered, Closed
<1>3. CASE Orphaned
  <2>1. got' # "whole"
    BY <1>3 DEF ReplyLmtp, ReplySmtp, Finish, Orphaned
  <2> QED BY <1>1, <1>3, <2>1 DEF Dialogue, Orphaned
<1>4. ASSUME Answering, Finish, Truthful', Len(asked') = Len(toClient'), asked # <<>> PROVE Dialogue'
  <2>1. phase' = "command" /\ got' = "none" /\ ~mailFrom' /\ recipients' = <<>>
    BY <1>4 DEF Finish
  <2>2. Answered'
    BY <1>1, <1>4, <2>1 DEF Answering, Answered, Finals
  <2> QED BY <2>2 DEF Dialogue
<1>5. ASSUME Answering
      PROVE  /\ recipients = accepted /\ asked # <<>>
             /\ truth = [i \in DOMAIN recipients |-> [to |-> recipients[i], code |-> results[i]]]
             /\ DOMAIN recipients = 1..Len(recipients) /\ DOMAIN results = 1..Len(recipients)
             /\ DOMAIN truth = 1..Len(recipients)
             /\ Len(recipients) \in Nat /\ written \in Nat /\ written < Len(recipients)
             /\ Len(results) = Len(recipients)
             /\ Len(told) + Len(toClient) = written /\ Len(told) \in Nat /\ Len(toClient) \in Nat
             /\ Truthful
  <2>1. recipients = accepted /\ Len(told) + Len(toClient) = written /\ Truthful
        /\ truth = [i \in DOMAIN recipients |-> [to |-> recipients[i], code |-> results[i]]]
    BY <1>1, <1>5 DEF Answering
  <2>2. Len(results) = Len(recipients) /\ written < Len(results) /\ written \in Nat
    BY <1>1, Shapes DEF AtWork
  <2>3. /\ DOMAIN recipients = 1..Len(recipients) /\ DOMAIN results = 1..Len(results)
        /\ Len(recipients) \in Nat /\ Len(told) \in Nat /\ Len(toClient) \in Nat
    BY Shapes
  <2> QED BY <1>5, <2>1, <2>2, <2>3, AwaitsFinals
<1>6. CASE Answering /\ ReplyLmtp
  <2>1. protocol = "lmtp" /\ toClient' = Append(toClient, results[written + 1])
    BY <1>6 DEF ReplyLmtp, Say
  <2>2. toClient \in Seq(Codes)
    BY Shapes
  <2>3. /\ Len(toClient') = Len(toClient) + 1 /\ DOMAIN toClient' = 1..(Len(toClient) + 1)
        /\ DOMAIN toClient = 1..Len(toClient)
        /\ toClient'[Len(toClient) + 1] = results[written + 1]
        /\ \A i \in 1..Len(toClient) : toClient'[i] = toClient[i]
    BY <2>1, <2>2
  <2>4. ASSUME NEW i \in DOMAIN toClient'
        PROVE  /\ Len(told) + i \in DOMAIN accepted /\ Len(told) + i \in DOMAIN truth
               /\ truth[Len(told) + i] = [to |-> accepted[Len(told) + i], code |-> toClient'[i]]
    <3>1. CASE i = Len(toClient) + 1
      <4>1. Len(told) + i = written + 1 /\ written + 1 \in 1..Len(recipients)
        BY <1>5, <1>6, <3>1
      <4> QED BY <1>5, <1>6, <2>3, <3>1, <4>1
    <3>2. CASE i # Len(toClient) + 1
      <4>1. i \in DOMAIN toClient /\ toClient'[i] = toClient[i]
        BY <1>5, <1>6, <2>3, <3>2
      <4> QED BY <1>5, <1>6, <2>1, <4>1 DEF Truthful
    <3> QED BY <3>1, <3>2
  <2>5. Truthful'
    BY <1>1, <2>1, <2>4 DEF Truthful
  <2>6. Len(asked) = Len(toClient) + Len(recipients) - written
    BY <1>6, <2>1 DEF Answering, RepliesPerMessage
  <2>7. CASE written + 1 = Len(results)
    <3>1. Finish
      BY <1>6, <2>7 DEF ReplyLmtp
    <3>2. Len(asked') = Len(toClient')
      BY <1>1, <1>5, <1>6, <2>3, <2>6, <2>7
    <3> QED BY <1>4, <1>5, <1>6, <2>5, <3>1, <3>2
  <2>8. CASE written + 1 # Len(results)
    <3>1. written' = written + 1 /\ UNCHANGED <<phase, mailFrom, recipients, got, results>>
      BY <1>6, <2>8 DEF ReplyLmtp
    <3>2. RepliesPerMessage' = Len(recipients)
      BY <2>1, <3>1 DEF RepliesPerMessage
    <3>3. Len(asked') = Len(toClient') + RepliesPerMessage' - written'
      <4>1. asked' = asked /\ Len(toClient') = Len(toClient) + 1 /\ written' = written + 1
        BY <1>1, <1>6, <2>3, <3>1
      <4>2. Len(toClient) \in Nat /\ Len(recipients) \in Nat /\ written \in Nat
        BY <1>5, <1>6
      <4> QED BY <2>6, <3>2, <4>1, <4>2
    <3>4. Len(told') + Len(toClient') = written'
      BY <1>1, <1>5, <1>6, <2>3, <3>1
    <3>5. Answering'
      BY <1>1, <1>6, <2>1, <2>5, <3>1, <3>3, <3>4 DEF Answering, Finals
    <3> QED BY <3>5 DEF Dialogue
  <2> QED BY <2>7, <2>8
<1>7. CASE Answering /\ ReplySmtp
  <2>1. /\ protocol = "smtp" /\ Finish
        /\ toClient' = Append(toClient, IF \E i \in DOMAIN results : results[i] = "250" THEN "250" ELSE "451")
    BY <1>7 DEF ReplySmtp, Say
  <2>2. written = 0
    BY <1>7, <2>1 DEF Answering
  <2>3. toClient = <<>> /\ told = <<>>
    BY <1>5, <1>7, <2>2, Shapes
  <2>4. toClient' = <<IF \E i \in DOMAIN results : results[i] = "250" THEN "250" ELSE "451">>
    BY <2>1, <2>3
  <2>5. Len(toClient') = 1 /\ (toClient'[1] = "250" <=> \E i \in DOMAIN results : results[i] = "250")
    BY <2>4
  <2>6. (\E i \in DOMAIN results : results[i] = "250") <=> (\E i \in DOMAIN truth : truth[i].code = "250")
    BY <1>5, <1>7
  <2>7. Truthful'
    BY <1>1, <2>1, <2>3, <2>5, <2>6 DEF Truthful
  <2>8. Len(asked) = 1
    BY <1>5, <1>7, <2>1, <2>2, <2>3 DEF Answering, RepliesPerMessage
  <2> QED BY <1>1, <1>4, <1>5, <1>7, <2>1, <2>5, <2>7, <2>8
<1> QED BY <1>2, <1>3, <1>6, <1>7

-----------------------------------------------------------------------------
LEMMA InitDialogue == ASSUME Init PROVE Dialogue
<1>1. Working
  BY InitWorking
<1>2. /\ asked = <<>> /\ toClient = <<>> /\ toServer = <<>> /\ body = "no" /\ accepted = <<>>
      /\ phase = "command" /\ got = "none" /\ recipients = <<>>
  BY DEF Init
<1>3. ~mailFrom
  BY DEF Init
<1>4. Foretells(accepted, asked, toClient, accepted) /\ accepted \in Seq(Addresses)
  BY <1>1, <1>2, ForetellsNow, Shapes
<1>5. Aligned /\ NoGoAhead
  BY <1>2 DEF Aligned, NoGoAhead
<1> QED BY <1>2, <1>3, <1>4, <1>5 DEF Dialogue, Talking

LEMMA DialogueStep == ASSUME Working, Dialogue, [Next]_vars PROVE Dialogue'
<1>1. CASE FrontStep
  BY <1>1, AskDialogue, HearDialogue, SendDialogue, HangUpDialogue DEF FrontStep
<1>2. CASE ServerStep
  BY <1>2, CommandsDialogue, EndDialogue, ReadDialogue, ProcessDialogue, ReplyDialogue DEF ServerStep, TaskStep
<1>3. CASE UNCHANGED vars
  <2>1. UNCHANGED <<protocol, toServer, toClient, gone, phase, mailFrom, recipients, got, results, written,
                    asked, accepted, told, body, truth>>
    BY <1>3 DEF vars, wire, server, client
  <2>2. Aligned' <=> Aligned
    BY <2>1 DEF Aligned
  <2>3. (NoGoAhead' <=> NoGoAhead) /\ (Finals' <=> Finals) /\ (Truthful' <=> Truthful)
    BY <2>1 DEF NoGoAhead, Finals, Truthful
  <2>4. RepliesPerMessage' = RepliesPerMessage
    BY <2>1 DEF RepliesPerMessage
  <2>5. (Talking => Talking') /\ (Opening => Opening') /\ (Closed => Closed')
    BY <2>1, <2>2, <2>3 DEF Talking, Opening, Closed
  <2>6. (Sending => Sending') /\ (Sent => Sent') /\ (Orphaned => Orphaned')
    BY <2>1, <2>3, <2>4 DEF Sending, Sent, Orphaned
  <2>7. (Answering => Answering') /\ (Answered => Answered')
    BY <2>1, <2>3, <2>4 DEF Answering, Answered
  <2> QED BY <2>5, <2>6, <2>7 DEF Dialogue
<1> QED BY <1>1, <1>2, <1>3 DEF Next

(* RecipientsAgree: a message that was sent in full is processed for the     *)
(* recipients the front MTA was told are accepted, in their order, whatever  *)
(* it pipelined and abandoned before (handle_connection).                    *)
THEOREM SameRecipients == Spec => []RecipientsAgree
<1>1. Dialogue => RecipientsAgree
  BY DEF Dialogue, Talking, Opening, Sending, Sent, Answering, Answered, Orphaned, Closed, RecipientsAgree
<1> QED BY <1>1, InitWorking, WorkingStep, InitDialogue, DialogueStep, PTL DEF Spec

LEMMA CountTo == ASSUME NEW n \in Nat PROVE Cardinality(1..n) = n
<1>1. 1 \in Int /\ n \in Int
  OBVIOUS
<1>2. Cardinality(1..n) = IF 1 > n THEN 0 ELSE n - 1 + 1
  BY <1>1, FS_Interval
<1> QED BY <1>2

(* InStep: what the front MTA waits for is what the daemon has yet to read,  *)
(* is answering or has answered: replies are never too few or too many       *)
(* (handle_connection).                                                      *)
THEOREM RepliesInStep == Spec => []InStep
<1>1. Working /\ Dialogue => InStep
  <2> SUFFICES ASSUME Working, Dialogue, ~gone PROVE Len(asked) = CommandsSent + Unanswered + Len(toClient)
    BY DEF InStep
  <2>0. /\ Len(toClient) \in Nat /\ Len(toServer) \in Nat /\ DOMAIN toServer = 1..Len(toServer)
        /\ Len(asked) \in Nat /\ RepliesPerMessage \in Nat /\ written \in Nat /\ Len(<<>>) = 0 /\ DOMAIN <<>> = {}
    BY Shapes
  <2>1. ASSUME Aligned PROVE Len(asked) = CommandsSent + Len(toClient) /\ CommandsSent \in Nat /\ Dot \notin Range(toServer)
    <3>1. \A j \in DOMAIN toServer : toServer[j] \in Commands
      <4> SUFFICES ASSUME NEW j \in DOMAIN toServer PROVE toServer[j] \in Commands
        OBVIOUS
      <4>1. Len(toClient) + j \in DOMAIN asked
        BY <2>0, <2>1, Shapes DEF Aligned
      <4> QED BY <2>1, <4>1 DEF Aligned
    <3>2. {i \in DOMAIN toServer : toServer[i] \in Commands} = 1..Len(toServer)
      BY <2>0, <3>1
    <3>3. CommandsSent = Len(toServer)
      <4>1. Len(toServer) \in Nat
        BY <2>0
      <4>2. Cardinality(1..Len(toServer)) = Len(toServer)
        BY <4>1, CountTo
      <4> QED BY <3>2, <4>2 DEF CommandsSent
    <3> QED BY <2>0, <2>1, <3>1, <3>3, Lines DEF Aligned, Range
  <2>2. ASSUME \A j \in DOMAIN toServer : toServer[j] \notin Commands PROVE CommandsSent = 0
    <3>1. {i \in DOMAIN toServer : toServer[i] \in Commands} = {}
      BY <2>2
    <3> QED BY <3>1, FS_EmptySet DEF CommandsSent
  <2>3. CASE Talking \/ Closed
    <3>1. Aligned /\ Unanswered = 0
      BY <2>3 DEF Talking, Closed, Unanswered
    <3> QED BY <2>0, <2>1, <3>1
  <2>4. CASE Opening
    <3>1. Aligned /\ phase = "data"
      BY <2>4 DEF Opening
    <3>2. Unanswered = 0
      BY <2>1, <3>1 DEF Unanswered, Dot
    <3> QED BY <2>0, <2>1, <3>1, <3>2
  <2>5. CASE Sending
    <3>1. \A j \in DOMAIN toServer : toServer[j] = Text
      BY <2>5 DEF Sending
    <3>2. CommandsSent = 0 /\ Dot \notin Range(toServer)
      BY <2>2, <3>1, Lines DEF Range
    <3>3. Unanswered = 0
      BY <2>5, <3>2 DEF Unanswered, Sending, Dot
    <3>4. Len(asked) = 0 /\ Len(toClient) = 0
      BY <2>0, <2>5 DEF Sending
    <3> QED BY <3>2, <3>3, <3>4
  <2>6. CASE Sent
    <3>1. /\ \A j \in DOMAIN toServer : toServer[j] \in {Text, Dot}
          /\ \E j \in DOMAIN toServer : toServer[j] = Dot
      <4>1. DOMAIN <<Text, Dot>> = 1..2 /\ <<Text, Dot>>[1] = Text /\ <<Text, Dot>>[2] = Dot
            /\ DOMAIN <<Dot>> = 1..1 /\ <<Dot>>[1] = Dot
        OBVIOUS
      <4> QED BY <2>6, <4>1 DEF Sent
    <3>2. CommandsSent = 0 /\ Dot \in Range(toServer)
      BY <2>2, <3>1, Lines DEF Range
    <3>3. Unanswered = RepliesPerMessage
      BY <2>6, <3>2 DEF Unanswered, Sent, Dot
    <3>4. Len(asked) = RepliesPerMessage /\ Len(toClient) = 0
      BY <2>0, <2>6 DEF Sent
    <3> QED BY <2>0, <3>2, <3>3, <3>4
  <2>7. CASE Answering
    <3>1. CommandsSent = 0
      BY <2>0, <2>2, <2>7 DEF Answering
    <3>2. Unanswered = RepliesPerMessage - written /\ Len(asked) = Len(toClient) + RepliesPerMessage - written
      BY <2>7 DEF Unanswered, Answering
    <3> QED BY <2>0, <3>1, <3>2
  <2>8. CASE Answered
    <3>1. CommandsSent = 0
      BY <2>0, <2>2, <2>8 DEF Answered
    <3>2. Unanswered = 0 /\ Len(asked) = Len(toClient)
      BY <2>8 DEF Unanswered, Answered
    <3> QED BY <2>0, <3>1, <3>2
  <2>9. ~Orphaned
    BY DEF Orphaned
  <2> QED BY <2>3, <2>4, <2>5, <2>6, <2>7, <2>8, <2>9 DEF Dialogue
<1> QED BY <1>1, InitWorking, WorkingStep, InitDialogue, DialogueStep, PTL DEF Spec

-----------------------------------------------------------------------------
LEMMA BelongHeard == ASSUME Working, Dialogue, RepliesBelong, Hear, protocol' = protocol PROVE RepliesBelong'
<1>0. /\ ~gone /\ toClient # <<>> /\ asked # <<>> /\ truth' = truth
      /\ accepted' = Learns(accepted, Head(asked), Head(toClient))
      /\ told' = CASE Restarts(Head(asked), Head(toClient)) -> <<>>
                   [] Head(asked).verb = "FINAL" -> Append(told, Head(toClient))
                   [] OTHER -> told
  BY DEF Hear
<1>1. /\ accepted \in Seq(Addresses) /\ told \in Seq(Codes) /\ toClient \in Seq(Codes)
      /\ protocol \in {"lmtp", "smtp"}
  BY Shapes
<1>2. CASE Talking \/ Opening \/ Closed
  <2>1. Aligned
    BY <1>0, <1>2 DEF Talking, Opening, Closed
  <2>2. Head(asked) \in Commands /\ Head(asked).verb # "FINAL"
    <3>1. Head(asked) \in Commands
      BY <2>1, HearAligned
    <3>2. \A c \in Commands : c.verb # "FINAL"
      BY DEF Commands, Plain, Rcpt
    <3> QED BY <3>1, <3>2
  <2>3. CASE told' = <<>>
    BY <2>3 DEF RepliesBelong
  <2>4. CASE told' # <<>>
    <3>1. told' = told /\ ~Restarts(Head(asked), Head(toClient))
      BY <1>0, <2>2, <2>4
    <3>2. accepted' = accepted \/ (accepted' = Append(accepted, Head(asked).to) /\ Head(asked).verb = "RCPT")
      BY <1>0, <3>1 DEF Learns
    <3>3. \A i \in DOMAIN accepted : i \in DOMAIN accepted' /\ accepted'[i] = accepted[i]
      <4>1. CASE accepted' = accepted
        BY <4>1
      <4>2. CASE accepted' = Append(accepted, Head(asked).to)
        <5>1. DOMAIN accepted = 1..Len(accepted) /\ Len(accepted) \in Nat
          BY <1>1
        <5>2. \A i \in 1..Len(accepted) : accepted'[i] = accepted[i]
          BY <1>1, <4>2
        <5>3. DOMAIN accepted' = 1..(Len(accepted) + 1)
          BY <1>1, <4>2
        <5> QED BY <5>1, <5>2, <5>3
      <4> QED BY <3>2, <4>1, <4>2
    <3> QED BY <1>0, <3>1, <3>3 DEF RepliesBelong
  <2> QED BY <2>3, <2>4
<1>3. CASE Answering \/ Answered
  <2>1. Head(asked).verb = "FINAL" /\ Truthful
    BY <1>3, AwaitsFinals, Lines DEF Answering, Answered
  <2>2. told' = Append(told, Head(toClient)) /\ accepted' = accepted
    BY <1>0, <2>1 DEF Learns, Restarts
  <2>3. /\ Head(toClient) = toClient[1] /\ 1 \in DOMAIN toClient /\ Len(told) \in Nat
        /\ DOMAIN told' = 1..(Len(told) + 1) /\ DOMAIN told = 1..Len(told)
        /\ told'[Len(told) + 1] = toClient[1] /\ Len(told') = Len(told) + 1
        /\ \A i \in 1..Len(told) : told'[i] = told[i]
    BY <1>0, <1>1, <2>2
  <2>4. CASE protocol = "lmtp"
    <3>1. ASSUME NEW i \in DOMAIN told'
          PROVE  /\ i \in DOMAIN accepted /\ i \in DOMAIN truth
                 /\ truth[i] = [to |-> accepted[i], code |-> told'[i]]
      <4>1. CASE i = Len(told) + 1
        BY <2>1, <2>3, <2>4, <4>1 DEF Truthful
      <4>2. CASE i # Len(told) + 1
        <5>1. i \in DOMAIN told /\ told'[i] = told[i]
          BY <2>3, <4>2
        <5> QED BY <2>4, <5>1 DEF RepliesBelong
      <4> QED BY <4>1, <4>2
    <3> QED BY <1>0, <2>2, <2>4, <3>1 DEF RepliesBelong
  <2>5. CASE protocol # "lmtp"
    <3>1. told = <<>> /\ (toClient[1] = "250" <=> \E i \in DOMAIN truth : truth[i].code = "250")
      BY <1>0, <2>1, <2>5 DEF Truthful
    <3>2. Len(told) = 0 /\ Len(told') = 1 /\ told'[1] = toClient[1]
      BY <2>3, <3>1
    <3> QED BY <1>0, <2>5, <3>1, <3>2 DEF RepliesBelong
  <2> QED BY <2>4, <2>5
<1>4. ~Sending /\ ~Sent /\ ~Orphaned
  BY <1>0 DEF Sending, Sent, Orphaned
<1> QED BY <1>2, <1>3, <1>4 DEF Dialogue

(* RepliesBelong: what the front MTA takes for the fate of a recipient is    *)
(* what process() made of it, by position over LMTP and in sum over SMTP     *)
(* (the replies of handle_connection).                                       *)
THEOREM RepliesTellTheTruth == Spec => []RepliesBelong
<1>1. Init => RepliesBelong
  BY DEF Init, RepliesBelong
<1>2. ASSUME Working, Dialogue, RepliesBelong, [Next]_vars PROVE RepliesBelong'
  <2>1. protocol' = protocol
    BY <1>2 DEF Next, FrontStep, ServerStep, TaskStep, vars
  <2>2. CASE Hear
    BY <1>2, <2>1, <2>2, BelongHeard
  <2>3. CASE SendDot
    BY <2>3 DEF SendDot, RepliesBelong
  <2>4. CASE Processed
    <3>1. UNCHANGED <<told, accepted>>
      BY <2>4 DEF Processed, client
    <3>2. CASE got = "whole"
      <4>1. Answering
        BY <1>2, <2>4, <3>2 DEF Processed, Dialogue, Talking, Opening, Sending, Sent, Answered, Orphaned, Closed
      <4>2. Len(told) + Len(toClient) = 0
        BY <1>2, <2>4, <4>1, Shapes DEF Processed, Answering, AtWork
      <4>3. told = <<>>
        BY <1>2, <4>2, Shapes
      <4> QED BY <3>1, <4>3 DEF RepliesBelong
    <3>3. CASE got # "whole"
      <4>1. truth' = truth
        BY <2>4, <3>3 DEF Processed
      <4> QED BY <1>2, <2>1, <3>1, <4>1 DEF RepliesBelong
    <3> QED BY <3>2, <3>3
  <2>5. CASE ~Hear /\ ~SendDot /\ ~Processed
    <3>1. UNCHANGED <<told, accepted, truth>>
      <4>1. CASE FrontStep
        BY <2>5, <4>1 DEF FrontStep, Ask, SendText, HangUp, client
      <4>2. CASE ServerStep
        BY <2>5, <4>2 DEF ServerStep, TaskStep, Hello, Mail, Recipient, Data, Reset, NoEffect, Quit, Disconnected,
               ConnectionFails, ReadText, ReadDot, ReadEnd, Process, ReplyLmtp, ReplySmtp, client
      <4>3. CASE UNCHANGED vars
        BY <4>3 DEF vars, client
      <4> QED BY <1>2, <4>1, <4>2, <4>3 DEF Next
    <3> QED BY <1>2, <2>1, <3>1 DEF RepliesBelong
  <2> QED BY <2>2, <2>3, <2>4, <2>5
<1> QED BY <1>1, <1>2, InitWorking, WorkingStep, InitDialogue, DialogueStep, PTL DEF Spec

-----------------------------------------------------------------------------
(* Why the task of a connection never spins.                                 *)

(* The phases of a transaction in the order in which one leads to the next   *)
(* without a line being read.                                                *)
Stage == [data |-> 5, process |-> 4, reply |-> 3, command |-> 2, closed |-> 1]

(* Recipients to process, and replies to write.                              *)
Left ==
    CASE phase = "process" -> Len(recipients) - Len(results)
      [] phase = "reply" -> Len(results) - written
      [] OTHER -> 0

Reads == Len(toServer') < Len(toServer)
MovesOn == toServer' = toServer /\ Stage[phase'] < Stage[phase]
WorksOff == toServer' = toServer /\ phase' = phase /\ Left' < Left

(* Every step of the task reads a line, moves on, or has less left to do in  *)
(* its phase; the front MTA adds lines, and touches nothing the task has.    *)
Onwards ==
    /\ ServerStep => Reads \/ MovesOn \/ WorksOff
    /\ FrontStep => UNCHANGED server

LEMMA LeftCounts == Working => Left \in Nat
<1> SUFFICES ASSUME Working PROVE Left \in Nat
  OBVIOUS
<1>1. Len(recipients) \in Nat /\ Len(results) \in Nat /\ written \in 0..Len(results)
  BY LenProperties DEF Working, TypeOK, ServerOK
<1>2. CASE phase = "process"
  <2>1. Len(results) <= Len(recipients)
    BY <1>2 DEF Working, AtWork
  <2> QED BY <1>1, <1>2, <2>1 DEF Left
<1>3. CASE phase = "reply"
  BY <1>1, <1>3 DEF Left
<1>4. CASE phase \notin {"process", "reply"}
  BY <1>4 DEF Left
<1> QED BY <1>2, <1>3, <1>4

(* A line that was read is gone.                                             *)
LEMMA LineRead ==
    ASSUME Working, toServer # <<>>, toServer' = Tail(toServer) PROVE Reads
<1>1. toServer \in Seq(WireLines)
  BY DEF Working, TypeOK, WireOK
<1>2. Len(Tail(toServer)) = Len(toServer) - 1 /\ Len(toServer) \in Nat
  BY <1>1, HeadTailProperties, LenProperties
<1> QED BY <1>2 DEF Reads

LEMMA ServerOnwards ==
    ASSUME Working, ServerStep PROVE Reads \/ MovesOn \/ WorksOff
<1>1. Len(recipients) \in Nat /\ Len(results) \in Nat /\ written \in 0..Len(results)
  BY LenProperties DEF Working, TypeOK, ServerOK
<1>2. CASE \E verb : Receive(verb)
  <2>1. toServer # <<>> /\ toServer' = Tail(toServer)
    BY <1>2 DEF Receive
  <2> QED BY <2>1, LineRead
<1>3. CASE Hello \/ Mail \/ Recipient \/ Data \/ Reset \/ NoEffect \/ Quit
  BY <1>2, <1>3 DEF Hello, Mail, Recipient, Data, Reset, NoEffect, Quit
<1>4. CASE ReadText \/ ReadDot
  <2>1. toServer # <<>> /\ toServer' = Tail(toServer)
    BY <1>4 DEF ReadText, ReadDot
  <2> QED BY <2>1, LineRead
<1>5. CASE Disconnected \/ ConnectionFails
  <2>1. phase \in {"command", "data", "reply"} /\ phase' = "closed" /\ toServer' = toServer
    BY <1>5 DEF Disconnected, ConnectionFails, wire
  <2> QED BY <2>1 DEF MovesOn, Stage
<1>6. CASE ReadEnd
  <2>1. phase = "data" /\ phase' = "process" /\ toServer' = toServer
    BY <1>6 DEF ReadEnd, wire
  <2> QED BY <2>1 DEF MovesOn, Stage
<1>7. CASE Processed
  <2>1. phase = "process" /\ phase' = "reply" /\ toServer' = toServer
    BY <1>7 DEF Processed, wire
  <2> QED BY <2>1 DEF MovesOn, Stage
<1>8. CASE Process
  <2>1. /\ phase = "process" /\ phase' = phase /\ toServer' = toServer
        /\ recipients' = recipients
    BY <1>8 DEF Process, wire
  <2>2. Len(results') = Len(results) + 1
    <3>1. PICK code : results' = Append(results, code)
      BY <1>8 DEF Process
    <3>2. results \in Seq(Verdicts)
      BY DEF Working, TypeOK, ServerOK
    <3> QED BY <3>1, <3>2
  <2>3. Left = Len(recipients) - Len(results) /\ Left' = Len(recipients) - (Len(results) + 1)
    BY <2>1, <2>2 DEF Left
  <2>4. Left' < Left
    BY <1>1, <2>3
  <2> QED BY <2>1, <2>4 DEF WorksOff
<1>9. CASE (ReplyLmtp \/ ReplySmtp) /\ Finish
  <2>1. phase = "reply" /\ phase' = "command" /\ toServer' = toServer
    BY <1>9 DEF ReplyLmtp, ReplySmtp, Finish
  <2> QED BY <2>1 DEF MovesOn, Stage
<1>10. CASE ReplyLmtp /\ ~Finish
  <2>1. /\ phase = "reply" /\ phase' = phase /\ toServer' = toServer
        /\ results' = results /\ written' = written + 1
    BY <1>10 DEF ReplyLmtp
  <2>2. Left = Len(results) - written /\ Left' = Len(results) - (written + 1)
    BY <2>1 DEF Left
  <2>3. Left' < Left
    BY <1>1, <2>2
  <2> QED BY <2>1, <2>3 DEF WorksOff
<1>11. ReplySmtp => Finish
  BY DEF ReplySmtp
<1> QED BY <1>3, <1>4, <1>5, <1>6, <1>7, <1>8, <1>9, <1>10, <1>11 DEF ServerStep, TaskStep

(* The safety half of TaskEnds and, with InStep, of MessageAnswered: with    *)
(* what was sent to it the task of a connection makes finitely many steps,   *)
(* since each one reads a line, or ends a phase, or leaves less of it, and   *)
(* none puts anything back (handle_connection and read_data wait for input   *)
(* and never poll it; at the end of the stream read_data stops).             *)
THEOREM NeverSpins == Spec => [](Left \in Nat) /\ [][Onwards]_vars
<1>1. Working => Onwards
  <2>1. FrontStep => UNCHANGED server
    BY DEF FrontStep, Ask, Hear, SendText, SendDot, HangUp
  <2> QED BY <2>1, ServerOnwards DEF Onwards
<1>2. Working => Left \in Nat
  BY LeftCounts
<1>3. Spec => []Working
  BY InitWorking, WorkingStep, PTL DEF Spec
<1> QED BY <1>1, <1>2, <1>3, PTL
=============================================================================
