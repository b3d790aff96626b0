---------------------------- MODULE SmtpSession -----------------------------
(***************************************************************************)
(* One connection to the ingress listener: handle_connection and read_data *)
(* of smtp.rs at one end, the front MTA at the other.  Commands and replies *)
(* travel in order; the front MTA may pipeline commands, and may hang up   *)
(* between any two steps, in the middle of a message included.             *)
(***************************************************************************)
EXTENDS Naturals, Sequences, FiniteSets, Functions

CONSTANTS
    Addresses,  \* addresses the front MTA names in RCPT
    Class,      \* [Addresses -> {"post", "bounce", "unknown"}]
    Protocols,  \* the ingress protocols of the configurations looked at
    Window,     \* bound: commands in flight
    MaxLines    \* bound: commands the front MTA sends

ASSUME SessionAssumption ==
    /\ Class \in [Addresses -> {"post", "bounce", "unknown"}]
    /\ Protocols \subseteq {"lmtp", "smtp"}
    /\ Window \in Nat /\ MaxLines \in Nat

VARIABLES
    protocol,   \* is_lmtp: "lmtp" or "smtp", fixed by the configuration
    toServer,   \* lines on their way to the daemon
    toClient,   \* reply codes on their way back
    gone,       \* the front MTA has hung up
    phase,      \* what handle_connection is doing
    mailFrom,   \* mail_from.is_some()
    recipients, \* the classified recipients of the transaction
    got,        \* how much of the message read_data has
    results,    \* reply codes process() has so far
    written,    \* how many of them are written
    asked,      \* commands the front MTA waits for a reply to
    accepted,   \* recipients it was told are accepted
    told,       \* replies it got for the message
    body,       \* how far it is in sending the message
    lines,      \* commands it sent
    truth       \* history: what process() made of the last message sent in full

wire == <<toServer, toClient, gone>>
server == <<phase, mailFrom, recipients, got, results, written>>
client == <<asked, accepted, told, body, lines>>
vars == <<protocol, wire, server, client, truth>>

Plain(verb) == [verb |-> verb]
Rcpt(a) == [verb |-> "RCPT", to |-> a]
Commands ==
    {Plain(v) : v \in {"EHLO", "MAIL", "DATA", "RSET", "NOOP", "QUIT", "VRFY", "junk"}}
    \cup {Rcpt(a) : a \in Addresses}

(* Commands that RFC 2920 lets nothing be pipelined behind. *)
LastInGroup == {"EHLO", "DATA", "QUIT", "VRFY", "NOOP"}

Init ==
    /\ protocol \in Protocols
    /\ toServer = <<>> /\ toClient = <<>> /\ gone = FALSE
    /\ phase = "command" /\ mailFrom = FALSE /\ recipients = <<>>
    /\ got = "none" /\ results = <<>> /\ written = 0
    /\ asked = <<>> /\ accepted = <<>> /\ told = <<>> /\ body = "no" /\ lines = 0
    /\ truth = <<>>

-----------------------------------------------------------------------------
(* The front MTA (external). *)

Ask(c) ==
    /\ ~gone /\ body = "no"
    /\ lines < MaxLines /\ Len(asked) < Window
    /\ asked # <<>> => asked[Len(asked)].verb \notin LastInGroup \cup {"FINAL"}
    /\ lines' = lines + 1
    /\ asked' = Append(asked, c)
    /\ toServer' = Append(toServer, c)
    /\ UNCHANGED <<toClient, gone, accepted, told, body, server, truth>>

(* A reply to one of these begins a transaction anew. *)
Restarts(command, code) == command.verb \in {"EHLO", "MAIL", "RSET"} /\ code = "250"

(* The recipients it counts on after a reply, given those before it. *)
Learns(known, command, code) ==
    CASE Restarts(command, code) -> <<>>
      [] command.verb = "RCPT" /\ code = "250" -> Append(known, command.to)
      [] OTHER -> known

(* It matches the next reply with the oldest command it waits for. *)
Hear ==
    /\ ~gone /\ toClient # <<>> /\ asked # <<>>
    /\ toClient' = Tail(toClient)
    /\ asked' = Tail(asked)
    /\ LET command == Head(asked)
           code == Head(toClient)
       IN  /\ accepted' = Learns(accepted, command, code)
           /\ told' = CASE Restarts(command, code) -> <<>>
                        [] command.verb = "FINAL" -> Append(told, code)
                        [] OTHER -> told
           /\ body' = IF command.verb = "DATA" /\ code = "354" THEN "open" ELSE body
    /\ UNCHANGED <<toServer, gone, lines, server, truth>>

SendText ==
    /\ ~gone /\ body = "open"
    /\ body' = "part"
    /\ toServer' = Append(toServer, Plain("text"))
    /\ UNCHANGED <<toClient, gone, asked, accepted, told, lines, server, truth>>

(* The terminator; one reply per recipient is due over LMTP (RFC 2033). *)
SendDot ==
    /\ ~gone /\ body = "part"
    /\ body' = "no"
    /\ toServer' = Append(toServer, Plain("."))
    /\ asked' = [i \in 1..(IF protocol = "lmtp" THEN Len(accepted) ELSE 1) |-> Plain("FINAL")]
    /\ told' = <<>>
    /\ UNCHANGED <<toClient, gone, accepted, lines, server, truth>>

HangUp ==
    /\ ~gone
    /\ gone' = TRUE
    /\ UNCHANGED <<toServer, toClient, server, client, truth>>

-----------------------------------------------------------------------------
(* handle_connection, one command per step. *)

Receive(verb) ==
    /\ phase = "command"
    /\ toServer # <<>>
    /\ Head(toServer).verb = verb
    /\ toServer' = Tail(toServer)
    /\ UNCHANGED gone

Say(code) == toClient' = Append(toClient, code)

(* EHLO, LHLO and HELO. *)
Hello ==
    /\ Receive("EHLO")
    /\ mailFrom' = FALSE
    /\ recipients' = <<>>
    /\ Say("250")
    /\ UNCHANGED <<phase, got, results, written, client, truth>>

(* Broken variant: MAIL leaves the recipients of an abandoned transaction. *)
MailKeeping ==
    /\ Receive("MAIL")
    /\ mailFrom' = TRUE
    /\ Say("250")
    /\ UNCHANGED <<recipients, phase, got, results, written, client, truth>>

Mail ==
    /\ Receive("MAIL")
    /\ mailFrom' = TRUE
    /\ recipients' = <<>>
    /\ Say("250")
    /\ UNCHANGED <<phase, got, results, written, client, truth>>

(* Broken variant: any address is taken for a recipient. *)
RecipientUnchecked ==
    /\ Receive("RCPT")
    /\ mailFrom
    /\ recipients' = Append(recipients, Head(toServer).to)
    /\ Say("250")
    /\ UNCHANGED <<phase, mailFrom, got, results, written, client, truth>>

(* RCPT without MAIL, to an unknown address, and to a list or subscriber. *)
Recipient ==
    /\ Receive("RCPT")
    /\ LET a == Head(toServer).to IN
       \/ /\ ~mailFrom
          /\ Say("503")
          /\ UNCHANGED recipients
       \/ /\ mailFrom /\ Class[a] = "unknown"
          /\ Say("550")
          /\ UNCHANGED recipients
       \/ /\ mailFrom /\ Class[a] # "unknown"
          /\ recipients' = Append(recipients, a)
          /\ Say("250")
    /\ UNCHANGED <<phase, mailFrom, got, results, written, client, truth>>

Data ==
    /\ Receive("DATA")
    /\ \/ /\ recipients = <<>>
          /\ Say("503")
          /\ UNCHANGED phase
       \/ /\ recipients # <<>>
          /\ Say("354")
          /\ phase' = "data"
    /\ UNCHANGED <<mailFrom, recipients, got, results, written, client, truth>>

Reset ==
    /\ Receive("RSET")
    /\ mailFrom' = FALSE
    /\ recipients' = <<>>
    /\ Say("250")
    /\ UNCHANGED <<phase, got, results, written, client, truth>>

(* NOOP, and what is not implemented or does not parse. *)
NoEffect ==
    /\ \/ Receive("NOOP") /\ Say("250")
       \/ Receive("VRFY") /\ Say("502")
       \/ Receive("junk") /\ Say("500")
    /\ UNCHANGED <<server, client, truth>>

Quit ==
    /\ Receive("QUIT")
    /\ Say("221")
    /\ phase' = "closed"
    /\ UNCHANGED <<mailFrom, recipients, got, results, written, client, truth>>

(* read_until returns 0: the client disconnected. *)
Disconnected ==
    /\ phase = "command"
    /\ gone /\ toServer = <<>>
    /\ phase' = "closed"
    /\ UNCHANGED <<wire, mailFrom, recipients, got, results, written, client, truth>>

(* A read from or a write to a connection that was reset may fail, in the   *)
(* middle of a message too; `?` ends the task, and what it read is lost.    *)
ConnectionFails ==
    /\ gone
    /\ phase \in {"command", "data", "reply"}
    /\ phase' = "closed"
    /\ UNCHANGED <<wire, mailFrom, recipients, got, results, written, client, truth>>

-----------------------------------------------------------------------------
(* The message: read_data, process, and the replies. *)

ReadText ==
    /\ phase = "data"
    /\ toServer # <<>> /\ Head(toServer).verb = "text"
    /\ toServer' = Tail(toServer)
    /\ got' = "part"
    /\ UNCHANGED <<toClient, gone, phase, mailFrom, recipients, results, written, client, truth>>

ReadDot ==
    /\ phase = "data"
    /\ toServer # <<>> /\ Head(toServer).verb = "."
    /\ toServer' = Tail(toServer)
    /\ got' = "whole"
    /\ phase' = "process"
    /\ UNCHANGED <<toClient, gone, mailFrom, recipients, results, written, client, truth>>

(* Broken variant: read_data keeps on reading at the end of the stream. *)
ReadOn ==
    /\ phase = "data"
    /\ gone /\ toServer = <<>>
    /\ UNCHANGED <<wire, server, client, truth>>

(* End of the stream before the terminator: what was read is the message. *)
ReadEnd ==
    /\ phase = "data"
    /\ gone /\ toServer = <<>>
    /\ phase' = "process"
    /\ UNCHANGED <<wire, mailFrom, recipients, got, results, written, client, truth>>

(* What post_reply and bounce_reply may say; an empty message does not parse *)
(* as a post and is no DSN, and is accepted either way.                      *)
Results(a) ==
    CASE got = "none" -> {"250"}
      [] Class[a] = "post" -> {"250", "550", "451"}
      [] OTHER -> {"250", "451"}

Process ==
    /\ phase = "process"
    /\ Len(results) < Len(recipients)
    /\ \E code \in Results(recipients[Len(results) + 1]) : results' = Append(results, code)
    /\ UNCHANGED <<wire, phase, mailFrom, recipients, got, written, client, truth>>

(* Broken variant: a failure ends the loop over the recipients. *)
ProcessedOnFailure ==
    /\ phase = "process"
    /\ \/ Len(results) = Len(recipients)
       \/ results # <<>> /\ results[Len(results)] # "250"
    /\ phase' = "reply"
    /\ truth' = IF got = "whole"
                THEN [i \in DOMAIN results |-> [to |-> recipients[i], code |-> results[i]]]
                ELSE truth
    /\ UNCHANGED <<wire, mailFrom, recipients, got, results, written, client>>

Processed ==
    /\ phase = "process"
    /\ Len(results) = Len(recipients)
    /\ phase' = "reply"
    /\ truth' = IF got = "whole"
                THEN [i \in DOMAIN recipients |-> [to |-> recipients[i], code |-> results[i]]]
                ELSE truth
    /\ UNCHANGED <<wire, mailFrom, recipients, got, results, written, client>>

(* The transaction is over. *)
Finish ==
    /\ phase' = "command"
    /\ mailFrom' = FALSE
    /\ recipients' = <<>>
    /\ got' = "none" /\ results' = <<>> /\ written' = 0

(* Broken variant: one reply for the whole message, as over SMTP. *)
ReplyLmtpOnce ==
    /\ protocol = "lmtp" /\ phase = "reply"
    /\ Say(results[1])
    /\ Finish
    /\ UNCHANGED <<toServer, gone, client, truth>>

(* Broken variant: the last reply first. *)
ReplyLmtpReversed ==
    /\ protocol = "lmtp" /\ phase = "reply"
    /\ Say(results[Len(results) - written])
    /\ IF written + 1 = Len(results)
       THEN Finish
       ELSE written' = written + 1 /\ UNCHANGED <<phase, mailFrom, recipients, got, results>>
    /\ UNCHANGED <<toServer, gone, client, truth>>

ReplyLmtp ==
    /\ protocol = "lmtp" /\ phase = "reply"
    /\ Say(results[written + 1])
    /\ IF written + 1 = Len(results)
       THEN Finish
       ELSE written' = written + 1 /\ UNCHANGED <<phase, mailFrom, recipients, got, results>>
    /\ UNCHANGED <<toServer, gone, client, truth>>

(* SMTP: one reply, a success unless every recipient failed. *)
ReplySmtp ==
    /\ protocol = "smtp" /\ phase = "reply"
    /\ Say(IF \E i \in DOMAIN results : results[i] = "250" THEN "250" ELSE "451")
    /\ Finish
    /\ UNCHANGED <<toServer, gone, client, truth>>

-----------------------------------------------------------------------------
TaskStep ==
    /\ UNCHANGED protocol
    /\ \/ Hello \/ Mail \/ Recipient \/ Data \/ Reset \/ NoEffect \/ Quit \/ Disconnected
       \/ ReadText \/ ReadDot \/ ReadEnd
       \/ Process \/ Processed \/ ReplyLmtp \/ ReplySmtp

ServerStep == TaskStep \/ (ConnectionFails /\ UNCHANGED protocol)

FrontStep ==
    /\ UNCHANGED protocol
    /\ \/ \E c \in Commands : Ask(c)
       \/ Hear \/ SendText \/ SendDot \/ HangUp

Next == FrontStep \/ ServerStep

Spec == Init /\ [][Next]_vars

(* tokio polls a task whose connection has something to read, and every     *)
(* recipient is processed in finite time; a reset is never relied upon.     *)
FairSpec == Spec /\ WF_vars(TaskStep)

-----------------------------------------------------------------------------
(* Properties. *)

Codes == {"220", "221", "250", "354", "451", "500", "502", "503", "550"}
Verdicts == {"250", "451", "550"}
WireLines == Commands \cup {Plain("text"), Plain(".")}
Awaited == Commands \cup {Plain("FINAL")}
Known == {a \in Addresses : Class[a] # "unknown"}
Made == [to : Addresses, code : Verdicts]

WireOK ==
    /\ toServer \in Seq(WireLines)
    /\ toClient \in Seq(Codes)
    /\ gone \in BOOLEAN

ServerOK ==
    /\ phase \in {"command", "data", "process", "reply", "closed"}
    /\ mailFrom \in BOOLEAN
    /\ recipients \in Seq(Known)
    /\ got \in {"none", "part", "whole"}
    /\ results \in Seq(Verdicts)
    /\ written \in 0..Len(results)

ClientOK ==
    /\ asked \in Seq(Awaited)
    /\ accepted \in Seq(Addresses)
    /\ told \in Seq(Codes)
    /\ body \in {"no", "open", "part"}
    /\ lines \in Nat

(* The fields of the session and of the front MTA have the shape of the code. *)
TypeOK ==
    /\ protocol \in Protocols
    /\ WireOK /\ ServerOK /\ ClientOK
    /\ truth \in Seq(Made)

(* A terminated message is processed for the recipients the front MTA was    *)
(* told are accepted, in that order, and for no others: none survive from a  *)
(* transaction that MAIL, RSET or EHLO abandoned, whatever is pipelined.     *)
RecipientsAgree ==
    phase \in {"process", "reply"} /\ got = "whole" => recipients = accepted

(* What the front MTA takes for the fate of a recipient is what process()    *)
(* made of it: over LMTP reply by reply, by position only, over SMTP one     *)
(* reply that is a success exactly when some recipient was.                  *)
RepliesBelong ==
    IF protocol = "lmtp"
    THEN \A i \in DOMAIN told :
             /\ i \in DOMAIN accepted /\ i \in DOMAIN truth
             /\ truth[i] = [to |-> accepted[i], code |-> told[i]]
    ELSE told # <<>> =>
             /\ Len(told) = 1
             /\ told[1] = "250" <=> \E i \in DOMAIN truth : truth[i].code = "250"

RepliesPerMessage == IF protocol = "lmtp" THEN Len(recipients) ELSE 1
Unanswered ==
    CASE phase \in {"process", "reply"} -> RepliesPerMessage - written
      [] phase = "data" /\ Plain(".") \in Range(toServer) -> RepliesPerMessage
      [] OTHER -> 0
CommandsSent == Cardinality({i \in DOMAIN toServer : toServer[i] \in Commands})

(* Replies and commands stay in step: what the front MTA waits for is what   *)
(* the daemon has yet to read, is answering, or has answered, so no reply is *)
(* ever taken for the answer to another command.                             *)
InStep ==
    ~gone => Len(asked) = CommandsSent + Unanswered + Len(toClient)

(* The task of a connection whose client is gone ends: it does not wait for  *)
(* the rest of a message, or of a transaction, that will not come.           *)
TaskEnds == gone ~> phase = "closed"

(* A front MTA that sent a message in full finds on the wire every reply it  *)
(* waits for, one per accepted recipient over LMTP, unless it hangs up       *)
(* first: a recipient that fails takes none of the others' replies away.     *)
MessageAnswered ==
    Plain("FINAL") \in Range(asked) ~> gone \/ Len(toClient) = Len(asked)

(* read_data says the payload is "terminated by <CRLF>.<CRLF>": a message    *)
(* the front MTA never finished is not processed for anybody.                *)
OnlyCompleteMessages == results # <<>> /\ got # "none" => got = "whole"
=============================================================================
