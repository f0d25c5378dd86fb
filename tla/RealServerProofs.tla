-------------------------- MODULE RealServerProofs --------------------------
(***************************************************************************)
(* What out_setup, out_authenticate and main() guarantee towards a real    *)
(* server that keeps to its protocol, for every protocol, policy and       *)
(* exchange, proved with TLAPS.                                            *)
(*                                                                         *)
(* perdition reads replies without knowing which command they answer, so   *)
(* the argument is about what is unread at each place: with a server that  *)
(* sends no lines of its own it is the reply to the latest command and     *)
(* nothing else, and with a chatty one an OK that carries the current tag  *)
(* but belongs to an earlier command is read before the password's answer. *)
(***************************************************************************)
EXTENDS RealServer, Tags, FiniteSetTheorems, SequenceTheorems,
        WellFoundedInduction, TLAPS

\* after the greeting and before out_authenticate
SettingUp == {"capability", "starttls"}

Between == {"decide", "handshake", "flush"}

Over == {"done", "refused", "exited"}

ImapReading  == {"greeting", "capability", "starttls", "auth_capability", "login",
                 "name", "password"}
PopReading   == {"greeting", "capability", "starttls", "user", "pass"}
SieveReading == {"greeting", "starttls", "auth_capability", "authenticate"}

ReadingOf == IF proto = "IMAP4" THEN ImapReading
             ELSE IF proto = "POP3" THEN PopReading ELSE SieveReading

TypeOK ==
  /\ proto \in AllProtos /\ policy \in AllPolicies
  /\ pc \in Between \cup Over \cup ReadingOf
  /\ io \in {"fd", "ssl"}
  /\ tag \in Nat /\ cmd \in Nat

\* what is true at some places of the exchange
PlaceInv ==
  /\ pc = "greeting" => Len(lines) = 1 /\ (Imap => lines[1].tag = Untagged)
  /\ pc \in {"greeting", "decide", "handshake"} \cup SettingUp => io = "fd"
  /\ pc \in {"handshake"} \cup SettingUp => policy # "plain"
  /\ pc = "decide" => status \in {-1, 0, 1}

\* with tls_outgoing_force out_authenticate is called on an encrypted connection
ForceInv ==
  policy = "tls_outgoing_force" /\ io = "fd" =>
    pc \in {"greeting", "capability", "starttls", "decide", "handshake", "refused",
            "exited"}

\* the lines that may be unread at all
Good(ls) ==
  /\ ls \in Seq(Lines)
  /\ \A i \in 1 .. Len(ls) :
       /\ ls[i].tag <= tag
       /\ ~Imap => ls[i].tag # Untagged /\ ls[i].word # "rest"

LinesInv == Good(lines) /\ (~Imap => ~chatty)

\* there is a reply to wait for, whatever has failed
OwedInv ==
  /\ pc \in Reading \ {"greeting"} => \E i \in DOMAIN lines : lines[i].tag # Untagged
  /\ pc = "flush" /\ ReadsCapability => lines # <<>>

\* what is true whatever has failed
Base == TypeOK /\ PlaceInv /\ ForceInv /\ LinesInv /\ OwedInv

\* In what follows nothing has failed.

\* is ls the reply to CAPABILITY in IMAP4, with or without a line of the server's
\* own?
Fresh(ls) ==
  /\ ls # <<>> /\ ls[Len(ls)].tag = tag
  /\ \A i \in 1 .. Len(ls) - 1 : ls[i].tag = Untagged
  /\ ls[1].word = "chat" => \A i \in 2 .. Len(ls) : ls[i].word # "chat"

IsOK(line) == line.tag = tag /\ line.word = "OK"

\* an OK with the current tag is the first tagged line
OKFirst(ls) ==
  \A i \in DOMAIN ls : IsOK(ls[i]) => \A j \in 1 .. i - 1 : ls[j].tag = Untagged

\* IMAP4, also with a chatty server: which OKs with the current tag are unread
TagInv ==
  ~trouble /\ Imap =>
    /\ pc \notin {"greeting", "exited", "refused", "done"} =>
         \A i \in DOMAIN lines :
           lines[i].tag = Untagged => lines[i].word \in {"chat", "CAPABILITY"}
    /\ pc = "capability" => Fresh(lines)
    /\ pc = "starttls" =>
         \/ lines[1].tag = NotATag
         \/ \A i \in 1 .. Len(lines) - 1 : lines[i].tag = Untagged
    /\ pc \in Between /\ (pc = "decide" => status = 1) =>
         \A i \in DOMAIN lines : lines[i].word # "chat"
    /\ pc = "auth_capability" /\ lines[1].word = "chat" => OKFirst(lines)
    /\ pc = "login" => OKFirst(lines)
    /\ pc = "name" => \A i \in DOMAIN lines : ~IsOK(lines[i])
    /\ pc = "password" => \A i \in DOMAIN lines : IsOK(lines[i]) => srv = "in"
    /\ pc = "done" /\ status = 1 => srv = "in"

AllRest == \A i \in DOMAIN lines : lines[i].word = "rest"

\* the two replies to CAPABILITY
Listed(t, word, caps) ==
  /\ Len(lines) = 2
  /\ lines[1].tag = t /\ lines[1].word = word /\ lines[1].caps = caps
  /\ lines[2].tag = Tag /\ lines[2].n = cmd
Refused == Len(lines) = 1 /\ lines[1].tag = Tag /\ lines[1].word = "NO"

\* With a server that sends no lines of its own what is unread is the reply to the
\* latest command, or the rest of STARTTLS's.
PairInv ==
  ~trouble /\ ~chatty =>
    /\ pc \in Reading => \A i \in DOMAIN lines : lines[i].n = cmd
    /\ pc \in Reading \ {"capability", "auth_capability"} => Len(lines) = 1
    /\ pc \in {"capability", "auth_capability"} /\ Imap =>
         Refused \/ Listed(Untagged, "CAPABILITY", announced)
    /\ pc = "capability" /\ ~Imap =>
         Refused \/ (Len(lines) = 2 /\ lines[1].word = "OK" /\ lines[2].word = "list"
                       /\ lines[1].tag = NoTag /\ lines[2].tag = NoTag)
    /\ pc = "auth_capability" /\ ~Imap => Len(lines) = 1
    /\ pc = "decide" =>
         \/ lines = <<>>
         \/ status = -1
         \/ Imap /\ policy # "plain" /\ "STARTTLS" \in flags /\ status = 1 /\ AllRest
    /\ pc = "handshake" => AllRest
    /\ pc = "flush" =>
         IF io = "fd" THEN lines = <<>>
         ELSE IF proto = "MANAGESIEVE" THEN Len(lines) = 1 /\ lines[1].n = cmd
         ELSE AllRest

\* POP3 and MANAGESIEVE: what the answers to the password and to STARTTLS mean
VerdictInv ==
  ~trouble /\ ~Imap =>
    /\ pc \in {"pass", "authenticate"} /\ lines[1].word = "OK" => srv = "in"
    /\ pc = "done" /\ status = 1 => srv = "in"
    /\ proto = "MANAGESIEVE" =>
         /\ pc = "starttls" /\ lines[1].word = "OK" => agreed = "yes"
         /\ pc = "decide" /\ status > 0 /\ policy # "plain" /\ "STARTTLS" \in flags =>
              agreed = "yes"
         /\ pc = "handshake" => agreed = "yes"

\* IMAP4: if a server sends no lines of its own, LOGIN is not sent to it when its
\* latest capabilities forbid it
ObeyInv ==
  ~trouble /\ ~chatty /\ pc \in {"login", "name", "password"} =>
    "LOGINDISABLED" \notin announced

\* no reply is unread in part: what is there ends with a tagged line ...
Whole(ls) == ls = <<>> \/ ls[Len(ls)].tag # Untagged

\* ... and was sent for a command that perdition has written
Asked(ls) == \A i \in DOMAIN ls : ls[i].n <= cmd

\* a list of capabilities that no tagged line but the last one follows is the
\* latest one
Latest(ls) ==
  \A i \in DOMAIN ls :
    /\ ls[i].tag = Untagged /\ ls[i].word = "CAPABILITY"
    /\ \A j \in i + 1 .. Len(ls) - 1 : ls[j].tag = Untagged
    => ls[i].caps = announced

\* IMAP4, also with a chatty server: if LOGIN is sent although the latest
\* capabilities forbid it, an older reply is unread
UnreadInv ==
  ~trouble /\ Imap =>
    /\ Asked(lines)
    /\ pc # "greeting" => Whole(lines)
    /\ pc = "auth_capability" => lines # <<>> /\ Latest(lines)
    /\ pc = "login" /\ RefusedBy \in announced => \E i \in DOMAIN lines : lines[i].n < cmd

\* the inductive invariant
IInv == Base /\ TagInv /\ PairInv /\ VerdictInv /\ ObeyInv /\ UnreadInv

-----------------------------------------------------------------------------
(* Waiting for a reply.                                                    *)

\* Every nonempty set of numbers has a smallest one.
LEMMA MinProperties ==
  ASSUME NEW S \in SUBSET Nat, S # {}
  PROVE  Min(S) \in S /\ \A y \in S : Min(S) <= y
<1>1. PICK x \in S : \A y \in S : <<y, x>> \notin OpToRel(<, Nat)
  BY NatLessThanWellFounded, WFMin, Zenon
<1>2. \A y \in S : ~(y < x)
  BY <1>1, Zenon DEF OpToRel
<1>3. \A y \in S : x <= y
  BY <1>2
<1> QED
  BY <1>3 DEF Min

\* What is left after i lines.
LEMMA AfterProperties ==
  ASSUME NEW ls \in Seq(Lines), NEW i \in 0 .. Len(ls)
  PROVE  /\ After(ls, i) \in Seq(Lines)
         /\ Len(After(ls, i)) = Len(ls) - i
         /\ DOMAIN After(ls, i) = 1 .. Len(ls) - i
         /\ \A k \in 1 .. Len(ls) - i : After(ls, i)[k] = ls[i + k]
  BY DEF After

\* the rest of a line that was read in part
RestOf(line) == [line EXCEPT !.tag = NotATag, !.word = "rest"]

\* It is a line with neither tag nor word, of the same reply.
LEMMA RestProperties ==
  ASSUME NEW line \in Lines
  PROVE  /\ RestOf(line) \in Lines
         /\ RestOf(line).tag = NotATag /\ RestOf(line).word = "rest"
         /\ RestOf(line).n = line.n
<1> DEFINE untagged == [line EXCEPT !.tag = NotATag]
<1>1. untagged = [n |-> line.n, tag |-> NotATag, word |-> line.word, caps |-> line.caps]
  BY DEF Lines
<1>2. RestOf(line) = [untagged EXCEPT !.word = "rest"]
  BY DEF RestOf
<1> HIDE DEF untagged
<1>3. RestOf(line) = [n |-> line.n, tag |-> NotATag, word |-> "rest", caps |-> line.caps]
  BY <1>1, <1>2
<1> QED
  BY <1>3 DEF Lines, Words, NotATag

\* x is what came of a wait in ls that ended with line i
EndedWith(x, ls, i, t, word, cut) ==
  /\ x.line = ls[i]
  /\ t = Untagged \/ ls[i].tag # Untagged
  /\ \A j \in 1 .. i - 1 : t # Untagged /\ ls[j].tag = Untagged
  /\ \/ x.rest = After(ls, i) /\ x.r = Compare(ls[i], t, word)
     \/ /\ cut # "never" /\ (cut = "chat" => i > 1)
        /\ x.rest = <<RestOf(ls[i])>> \o After(ls, i)
        /\ x.r = Compare(ls[i], t, word) \/ (i > 1 /\ x.r = -1)

\* A wait for a reply fails, or ends with one of the lines that are there.
LEMMA ResponseOutcome ==
  ASSUME NEW ls \in Seq(Lines), NEW t \in Int, NEW word, NEW cut,
         NEW x \in Response(ls, t, word, cut)
  PROVE  \/ /\ x.failed = TRUE /\ x.r = -1 /\ x.line = NoLine
            /\ \E i \in 0 .. Len(ls) : x.rest = After(ls, i)
         \/ x.failed = FALSE /\ \E i \in 1 .. Len(ls) : EndedWith(x, ls, i, t, word, cut)
<1> DEFINE ends == Ends(ls, t)
           last == IF ends = {} THEN Len(ls) + 1 ELSE Min(ends)
<1>1. Len(ls) \in Nat /\ ends \in SUBSET Nat /\ ends \in SUBSET (1 .. Len(ls))
  BY DEF Ends
<1>2. last \in 1 .. Len(ls) + 1
  BY <1>1, MinProperties
<1>3. ends # {} => /\ last \in 1 .. Len(ls)
                   /\ t = Untagged \/ ls[last].tag # Untagged
                   /\ \A j \in 1 .. last - 1 : t # Untagged /\ ls[j].tag = Untagged
  <2> SUFFICES ASSUME ends # {}
               PROVE  /\ last \in 1 .. Len(ls)
                      /\ t = Untagged \/ ls[last].tag # Untagged
                      /\ \A j \in 1 .. last - 1 : t # Untagged /\ ls[j].tag = Untagged
    OBVIOUS
  <2>1. last \in ends /\ \A y \in ends : last <= y
    BY <1>1, MinProperties
  <2>2. \A j \in 1 .. last - 1 : j \notin ends
    BY <1>1, <2>1
  <2>3. last \in 1 .. Len(ls)
    BY <1>1, <2>1
  <2> HIDE DEF last
  <2> QED
    BY <1>1, <2>1, <2>2, <2>3 DEF Ends
<1>4. CASE x \in {[r |-> -1, line |-> NoLine, rest |-> After(ls, i), failed |-> TRUE] :
                    i \in 0 .. last - 1}
  BY <1>1, <1>2, <1>4
<1>5. CASE /\ ends # {}
           /\ x = [r |-> Compare(ls[last], t, word), line |-> ls[last],
                   rest |-> After(ls, last), failed |-> FALSE]
  BY <1>3, <1>5 DEF EndedWith
<1>6. CASE /\ ends # {} /\ cut # "never" /\ ~(cut = "chat" /\ last = 1)
           /\ \E r \in {Compare(ls[last], t, word)} \cup {-1 : i \in 2 .. last} :
                x = [r |-> r, line |-> ls[last],
                     rest |-> <<RestOf(ls[last])>> \o After(ls, last), failed |-> FALSE]
  <2> PICK r \in {Compare(ls[last], t, word)} \cup {-1 : i \in 2 .. last} :
             x = [r |-> r, line |-> ls[last],
                  rest |-> <<RestOf(ls[last])>> \o After(ls, last), failed |-> FALSE]
    BY <1>6
  <2>1. r = Compare(ls[last], t, word) \/ (last > 1 /\ r = -1)
    BY <1>2, <1>3, <1>6
  <2> HIDE DEF last, ends
  <2>2. last \in 1 .. Len(ls) /\ (cut = "chat" => last > 1)
    BY <1>1, <1>3, <1>6
  <2>3. EndedWith(x, ls, last, t, word, cut) /\ x.failed = FALSE
    BY <1>3, <1>6, <2>1, <2>2 DEF EndedWith
  <2> QED
    BY <2>2, <2>3
<1> HIDE DEF ends, last
<1> QED
  BY <1>4, <1>5, <1>6 DEF Response, Ends, RestOf, ends, last

-----------------------------------------------------------------------------
(* What the server sends.                                                  *)

\* the only line of a reply that is no list of capabilities
Only(c, next, line) ==
  /\ line \in Lines /\ line.n = cmd' /\ line.caps = {}
  /\ \/ /\ line.word = "OK" /\ line.tag = Echo /\ c # "CAPABILITY"
        /\ Imap => c \in {"STARTTLS", "password", "AUTHENTICATE"}
        /\ c = "STARTTLS" => agreed' = "yes"
        /\ c \in {"password", "AUTHENTICATE"} => next = "in"
     \/ line.word = "NO" /\ line.tag = Echo
     \/ line.word = "NO" /\ line.tag = NotATag /\ c \in {"name", "password"}
     \/ line.word = "chat" /\ line.tag = Cont /\ Imap /\ c \in {"LOGIN", "USER", "name"}

\* A reply is a list of capabilities, which are those announced, or one line.
LEMMA AnswerProperties ==
  ASSUME cmd' \in Nat, tag' \in Nat, NEW c, NEW next, NEW reply,
         Answer(c, next, reply)
  PROVE  /\ c # "CAPABILITY" => announced' = announced
         /\ c # "STARTTLS" => agreed' = agreed
         /\ \/ /\ c = "CAPABILITY" /\ announced' \in SUBSET Caps
               /\ reply = CapabilityReply(announced')
            \/ \E line : reply = <<line>> /\ Only(c, next, line)
<1>1. /\ c # "CAPABILITY" => announced' = announced
      /\ c # "STARTTLS" => agreed' = agreed
  BY DEF Answer
<1>2. Echo \in Int
  BY DEF Echo, NoTag
<1>3. ASSUME reply \in Positive, c # "CAPABILITY",
             Imap => c \in {"STARTTLS", "password", "AUTHENTICATE"},
             c = "STARTTLS" => agreed' = "yes",
             c \in {"password", "AUTHENTICATE"} => next = "in"
      PROVE  \E line : reply = <<line>> /\ Only(c, next, line)
  BY <1>2, <1>3 DEF Positive, Line, Only, Lines, Words
<1>4. ASSUME reply \in Negative PROVE \E line : reply = <<line>> /\ Only(c, next, line)
  BY <1>2, <1>4 DEF Negative, Line, Only, Lines, Words
<1>5. ASSUME reply \in BadTag, c \in {"name", "password"}
      PROVE  \E line : reply = <<line>> /\ Only(c, next, line)
  BY <1>5 DEF BadTag, Line, Only, Lines, Words, NotATag
<1>6. ASSUME reply \in GoOn, Imap, c \in {"LOGIN", "USER", "name"}
      PROVE  \E line : reply = <<line>> /\ Only(c, next, line)
  BY <1>6 DEF GoOn, Line, Only, Lines, Words, Cont
<1>7. CASE c = "CAPABILITY"
  BY <1>1, <1>4, <1>7 DEF Answer
<1>8. CASE c = "STARTTLS"
  BY <1>1, <1>3, <1>4, <1>8 DEF Answer
<1>9. CASE c \in {"LOGIN", "USER", "name"}
  <2>1. \/ reply \in IF Imap THEN GoOn ELSE Positive
        \/ reply \in Negative
        \/ c = "name" /\ reply \in BadTag
    BY <1>9 DEF Answer
  <2> QED
    BY <1>1, <1>3, <1>4, <1>5, <1>6, <1>9, <2>1
<1>10. CASE c \in {"password", "AUTHENTICATE"}
  BY <1>1, <1>3, <1>4, <1>5, <1>10 DEF Answer
<1> QED
  BY <1>7, <1>8, <1>9, <1>10 DEF Answer

\* the line that the server puts into a reply
Chat == Line(Untagged, "chat", {})

\* sent is reply with a line of the server's own before line i + 1
Interrupted(sent, reply, i) ==
  /\ chatty /\ Len(sent) = Len(reply) + 1
  /\ \A k \in 1 .. Len(sent) :
       sent[k] = IF k <= i THEN reply[k] ELSE IF k = i + 1 THEN Chat ELSE reply[k - 1]

\* s is a, then m, then b
Joined(s, a, m, b) ==
  /\ Len(s) = Len(a) + 1 + Len(b)
  /\ \A k \in 1 .. Len(a) + 1 + Len(b) :
       s[k] = IF k <= Len(a) THEN a[k]
              ELSE IF k = Len(a) + 1 THEN m ELSE b[k - (Len(a) + 1)]

\* Inserting a line between two parts of a reply.
LEMMA InsertProperties ==
  ASSUME NEW S, NEW a \in Seq(S), NEW m \in S, NEW b \in Seq(S)
  PROVE  a \o <<m>> \o b \in Seq(S) /\ Joined(a \o <<m>> \o b, a, m, b)
<1>1. a \o <<m>> \in Seq(S)
  OBVIOUS
<1>2. PICK am \in Seq(S) : am = a \o <<m>>
  BY <1>1, Zenon
<1>3. Len(am) = Len(a) + 1 /\ \A k \in 1 .. Len(am) : am[k] = IF k <= Len(a) THEN a[k] ELSE m
  BY <1>2
<1>4. am \o b \in Seq(S) /\ Len(am \o b) = Len(am) + Len(b)
  OBVIOUS
<1>5. \A k \in 1 .. Len(am) + Len(b) :
        (am \o b)[k] = IF k <= Len(am) THEN am[k] ELSE b[k - Len(am)]
  BY ConcatProperties
<1>6. \A k \in 1 .. Len(a) + 1 + Len(b) :
        (am \o b)[k] = IF k <= Len(a) THEN a[k]
                       ELSE IF k = Len(a) + 1 THEN m ELSE b[k - (Len(a) + 1)]
  BY <1>3, <1>5
<1> QED
  BY <1>2, <1>3, <1>4, <1>6 DEF Joined

\* A reply is sent as it is, or with one line of the server's own in it.
LEMMA WireProperties ==
  ASSUME cmd' \in Nat, NEW reply \in Seq(Lines), NEW sent \in OnTheWire(reply)
  PROVE  \/ sent = reply
         \/ sent \in Seq(Lines) /\ \E i \in 0 .. Len(reply) - 1 : Interrupted(sent, reply, i)
<1> SUFFICES ASSUME chatty, NEW i \in 0 .. Len(reply) - 1,
                    sent = SubSeq(reply, 1, i) \o <<Chat>> \o SubSeq(reply, i + 1, Len(reply))
             PROVE  sent \in Seq(Lines) /\ Interrupted(sent, reply, i)
  BY DEF OnTheWire, Chat
<1>1. Chat \in Lines
  BY DEF Chat, Line, Lines, Words, Untagged
<1>2. Len(reply) \in Nat /\ i \in Nat
  OBVIOUS
<1> DEFINE a == SubSeq(reply, 1, i)
           b == SubSeq(reply, i + 1, Len(reply))
<1>3. a \in Seq(Lines) /\ Len(a) = i /\ \A k \in 1 .. i : a[k] = reply[k]
  BY <1>2
<1>4. /\ b \in Seq(Lines) /\ Len(b) = Len(reply) - i
      /\ \A k \in 1 .. Len(reply) - i : b[k] = reply[i + k]
  BY <1>2
<1> HIDE DEF a, b
<1>5. sent = a \o <<Chat>> \o b
  BY DEF a, b
<1>6. /\ sent \in Seq(Lines) /\ Len(sent) = Len(reply) + 1
      /\ \A k \in 1 .. Len(reply) + 1 :
           sent[k] = IF k <= i THEN a[k] ELSE IF k = i + 1 THEN Chat ELSE b[k - (i + 1)]
  <2>1. sent \in Seq(Lines) /\ Joined(sent, a, Chat, b)
    BY <1>1, <1>3, <1>4, <1>5, InsertProperties, Zenon
  <2>2. Len(a) = i /\ Len(a) + 1 + Len(b) = Len(reply) + 1
    BY <1>2, <1>3, <1>4
  <2> QED
    BY <2>1, <2>2 DEF Joined
<1>7. ASSUME NEW k \in 1 .. Len(sent), k > i + 1
      PROVE  b[k - (i + 1)] = reply[k - 1]
  <2>1. k - (i + 1) \in 1 .. Len(reply) - i /\ i + (k - (i + 1)) = k - 1
    BY <1>2, <1>6, <1>7
  <2> QED
    BY <1>4, <2>1
<1>8. ASSUME NEW k \in 1 .. Len(sent)
      PROVE  sent[k] = IF k <= i THEN reply[k] ELSE IF k = i + 1 THEN Chat ELSE reply[k - 1]
  <2>1. sent[k] = IF k <= i THEN a[k] ELSE IF k = i + 1 THEN Chat ELSE b[k - (i + 1)]
    BY <1>6
  <2>2. k <= i => k \in 1 .. i
    BY <1>2, <1>6
  <2>3. ~(k <= i) /\ k # i + 1 => k > i + 1
    BY <1>2, <1>6
  <2> QED
    BY <1>3, <1>7, <2>1, <2>2, <2>3, Zenon
<1> QED
  BY <1>6, <1>8, Zenon DEF Interrupted

\* what the lines that answer command c have in common
Sends(c, sent) ==
  /\ Len(sent) > 0 /\ sent[Len(sent)].tag # Untagged
  /\ \A k \in 1 .. Len(sent) :
       /\ sent[k].n = cmd' /\ sent[k].tag <= tag' /\ sent[k].word # "rest"
       /\ k < Len(sent) /\ Imap =>
            sent[k].tag = Untagged /\ sent[k].word \in {"chat", "CAPABILITY"}
       /\ ~Imap /\ ~chatty => sent[k].tag # Untagged
       /\ sent[k].word = "OK" =>
            /\ c \in {"password", "AUTHENTICATE"} => srv' = "in"
            /\ c = "STARTTLS" => agreed' = "yes"
            /\ Imap => c \notin {"LOGIN", "name"}

\* a list of capabilities that is sent is the latest one
ListsAnnounced(sent) ==
  \A k \in 1 .. Len(sent) : sent[k].word = "CAPABILITY" => sent[k].caps = announced'

\* what those that answer CAPABILITY have in IMAP4
SendsList(sent) ==
  /\ sent[Len(sent)].tag = tag'
  /\ sent[1].word = "chat" => \A k \in 2 .. Len(sent) : sent[k].word # "chat"
  /\ ListsAnnounced(sent)

\* what a server that sends no lines of its own answers
SendsBare(c, sent) ==
  \/ \E line : sent = <<line>> /\ Only(c, srv', line)
  \/ c = "CAPABILITY" /\ announced' \in SUBSET Caps /\ sent = CapabilityReply(announced')

\* The reply to a command has these properties ...
LEMMA ReplyProperties ==
  ASSUME proto \in AllProtos, cmd' \in Nat, tag' \in Nat, NEW c, NEW reply,
         SendsBare(c, reply)
  PROVE  /\ reply \in Seq(Lines) /\ Sends(c, reply)
         /\ Imap /\ c = "CAPABILITY" => /\ reply[Len(reply)].tag = tag'
                                        /\ \A k \in 1 .. Len(reply) : reply[k].word # "chat"
                                        /\ ListsAnnounced(reply)
<1>1. CASE \E line : reply = <<line>> /\ Only(c, srv', line)
  <2> PICK line : reply = <<line>> /\ Only(c, srv', line)
    BY <1>1
  <2>1. line \in Lines /\ reply \in Seq(Lines) /\ Len(reply) = 1 /\ reply[1] = line
    BY DEF Only
  <2>2. line.tag # Untagged /\ line.tag <= tag'
    BY DEF Only, Echo, Untagged, Cont, NotATag, NoTag
  <2>3. Sends(c, reply)
    BY <2>1, <2>2 DEF Only, Sends, Echo, NoTag, Untagged
  <2> QED
    BY <2>1, <2>3 DEF Only, Echo, ListsAnnounced
<1>2. CASE /\ c = "CAPABILITY" /\ announced' \in SUBSET Caps
           /\ reply = CapabilityReply(announced')
  <2> DEFINE caps == announced'
  <2>1. CASE Imap
    <3>1. reply = <<Line(Untagged, "CAPABILITY", caps), Line(tag', "OK", {})>>
      BY <1>2, <2>1 DEF CapabilityReply, Imap, Echo
    <3>2. reply \in Seq(Lines) /\ Len(reply) = 2
      BY <1>2, <3>1 DEF Line, Lines, Words, Untagged
    <3> QED
      BY <1>2, <2>1, <3>1, <3>2 DEF Sends, Line, Untagged, ListsAnnounced
  <2>2. CASE proto = "POP3"
    <3>1. reply = <<Line(NoTag, "OK", {}), Line(NoTag, "list", caps)>>
      BY <1>2, <2>2 DEF CapabilityReply
    <3>2. reply \in Seq(Lines) /\ Len(reply) = 2
      BY <1>2, <3>1 DEF Line, Lines, Words, NoTag
    <3> QED
      BY <1>2, <2>2, <3>1, <3>2 DEF Sends, Line, Untagged, NoTag, Imap
  <2>3. CASE proto = "MANAGESIEVE"
    <3>1. reply = <<Line(NoTag, "OK", caps)>>
      BY <1>2, <2>3 DEF CapabilityReply
    <3>2. reply \in Seq(Lines) /\ Len(reply) = 1
      BY <1>2, <3>1 DEF Line, Lines, Words, NoTag
    <3> QED
      BY <1>2, <2>3, <3>1, <3>2 DEF Sends, Line, Untagged, NoTag, Imap
  <2> QED
    BY <2>1, <2>2, <2>3 DEF AllProtos, Imap
<1> QED
  BY <1>1, <1>2 DEF SendsBare

\* ... and keeps them when a line of the server's own is put into it.
LEMMA InterruptedProperties ==
  ASSUME cmd' \in Nat, tag' \in Nat, NEW c, NEW reply \in Seq(Lines), Sends(c, reply),
         NEW i \in 0 .. Len(reply) - 1, NEW sent \in Seq(Lines),
         Interrupted(sent, reply, i)
  PROVE  /\ Sends(c, sent)
         /\ /\ reply[Len(reply)].tag = tag'
            /\ \A k \in 1 .. Len(reply) : reply[k].word # "chat"
            /\ ListsAnnounced(reply)
            => SendsList(sent)
<1>1. Len(sent) = Len(reply) + 1 /\ chatty /\ Len(reply) \in Nat /\ Len(reply) > 0
  BY DEF Interrupted, Sends
<1>2. sent[Len(sent)] = reply[Len(reply)]
  BY <1>1 DEF Interrupted
<1>3. /\ Chat.n = cmd' /\ Chat.tag = Untagged /\ Chat.word = "chat"
  BY DEF Chat, Line
<1>4. ASSUME NEW k \in 1 .. Len(sent)
      PROVE  \/ sent[k] = Chat /\ k = i + 1 /\ k < Len(sent)
             \/ \E j \in 1 .. Len(reply) :
                  sent[k] = reply[j] /\ (k < Len(sent) => j < Len(reply))
  <2>1. CASE k <= i
    <3>1. sent[k] = reply[k] /\ k \in 1 .. Len(reply) /\ k < Len(reply)
      BY <1>1, <2>1 DEF Interrupted
    <3> QED
      BY <3>1
  <2>2. CASE k = i + 1
    BY <1>1, <2>2 DEF Interrupted
  <2>3. CASE k > i + 1
    <3>1. k - 1 \in 1 .. Len(reply) /\ sent[k] = reply[k - 1]
      BY <1>1, <2>3 DEF Interrupted
    <3> QED
      BY <1>1, <3>1
  <2> QED
    BY <2>1, <2>2, <2>3
<1>5. Sends(c, sent)
  <2>1. ASSUME NEW k \in 1 .. Len(sent)
        PROVE  /\ sent[k].n = cmd' /\ sent[k].tag <= tag' /\ sent[k].word # "rest"
               /\ k < Len(sent) /\ Imap =>
                    sent[k].tag = Untagged /\ sent[k].word \in {"chat", "CAPABILITY"}
               /\ sent[k].word = "OK" =>
                    /\ c \in {"password", "AUTHENTICATE"} => srv' = "in"
                    /\ c = "STARTTLS" => agreed' = "yes"
                    /\ Imap => c \notin {"LOGIN", "name"}
    <3>1. CASE sent[k] = Chat
      BY <1>3, <3>1 DEF Untagged
    <3>2. CASE \E j \in 1 .. Len(reply) :
                 sent[k] = reply[j] /\ (k < Len(sent) => j < Len(reply))
      BY <3>2 DEF Sends
    <3> QED
      BY <1>4, <3>1, <3>2
  <2> QED
    BY <1>1, <1>2, <2>1 DEF Sends
<1>6. ASSUME reply[Len(reply)].tag = tag',
             \A k \in 1 .. Len(reply) : reply[k].word # "chat",
             ListsAnnounced(reply)
      PROVE  SendsList(sent)
  <2>1. ASSUME sent[1].word = "chat" PROVE i = 0
    <3>1. 1 \in 1 .. Len(sent)
      BY <1>1
    <3>2. \/ 1 = i + 1
          \/ \E j \in 1 .. Len(reply) : sent[1] = reply[j]
      BY <1>4, <3>1
    <3> QED
      BY <1>6, <2>1, <3>2
  <2>2. ASSUME i = 0, NEW k \in 2 .. Len(sent) PROVE sent[k].word # "chat"
    BY <1>1, <1>4, <1>6, <2>2
  <2>3. ListsAnnounced(sent)
    BY <1>3, <1>4, <1>6 DEF ListsAnnounced
  <2> QED
    BY <1>2, <1>6, <2>1, <2>2, <2>3 DEF SendsList
<1> QED
  BY <1>5, <1>6

\* What is unread after a command was written: what was left of the latest reply,
\* and the answer.
LEMMA SayOutcome ==
  ASSUME proto \in AllProtos, cmd \in Nat, NEW x, NEW c, NEW next, NEW t \in Nat,
         Say(x, c, next, t)
  PROVE  /\ c # "CAPABILITY" => announced' = announced
         /\ c # "STARTTLS" => agreed' = agreed
         /\ \E sent \in Seq(Lines) :
              /\ lines' = x.rest \o sent /\ Sends(c, sent)
              /\ Imap /\ c = "CAPABILITY" => SendsList(sent)
              /\ ~chatty => SendsBare(c, sent)
<1>1. PICK reply :
        /\ Answer(c, srv', reply)
        /\ \E sent \in OnTheWire(reply) : lines' = x.rest \o sent
  BY Zenon DEF Say
<1>2. cmd' = cmd + 1 /\ cmd' \in Nat /\ tag' \in Nat
  BY DEF Say
<1>3. /\ c # "CAPABILITY" => announced' = announced
      /\ c # "STARTTLS" => agreed' = agreed
      /\ SendsBare(c, reply)
  BY <1>1, <1>2, AnswerProperties, Zenon DEF SendsBare
<1>4. PICK sent \in OnTheWire(reply) : lines' = x.rest \o sent
  BY <1>1
<1>5. /\ reply \in Seq(Lines) /\ Sends(c, reply)
      /\ Imap /\ c = "CAPABILITY" => /\ reply[Len(reply)].tag = tag'
                                     /\ \A k \in 1 .. Len(reply) : reply[k].word # "chat"
                                     /\ ListsAnnounced(reply)
  BY <1>2, <1>3, ReplyProperties, Zenon
<1>6. CASE sent = reply
  <2>1. Imap /\ c = "CAPABILITY" => SendsList(sent)
    BY <1>5, <1>6 DEF SendsList, Sends
  <2> QED
    BY <1>3, <1>4, <1>5, <1>6, <2>1, Zenon
<1>7. CASE sent \in Seq(Lines) /\ \E i \in 0 .. Len(reply) - 1 : Interrupted(sent, reply, i)
  <2>1. PICK i \in 0 .. Len(reply) - 1 : Interrupted(sent, reply, i)
    BY <1>7
  <2>2. chatty
    BY <2>1 DEF Interrupted
  <2>3. Sends(c, sent) /\ (Imap /\ c = "CAPABILITY" => SendsList(sent))
    BY <1>2, <1>5, <1>7, <2>1, InterruptedProperties, Zenon
  <2> QED
    BY <1>3, <1>4, <1>7, <2>2, <2>3, Zenon
<1> QED
  BY <1>2, <1>4, <1>5, <1>6, <1>7, WireProperties, Zenon

-----------------------------------------------------------------------------
(* What is true whatever has failed.                                       *)

\* That the next write fails changes nothing else of what was read.
LEMMA BrokenProperties ==
  /\ \A ls, t, word, cut : \A x \in Response(ls, t, word, cut) :
       Broken(x).rest = x.rest /\ Broken(x).failed = TRUE
  /\ \A cap, cut : \A x \in Capability(cap, cut) :
       Broken(x).rest = x.rest /\ Broken(x).failed = TRUE
  /\ \A ls : /\ Broken(Pending(ls)).rest = ls /\ Broken(Pending(ls)).failed = TRUE
             /\ Pending(ls).rest = ls /\ Pending(ls).failed = FALSE
<1>1. ASSUME NEW ls, NEW t, NEW word, NEW cut, NEW x \in Response(ls, t, word, cut)
      PROVE  Broken(x).rest = x.rest /\ Broken(x).failed = TRUE
  <2>1. \E r, line, rest, failed :
          x = [r |-> r, line |-> line, rest |-> rest, failed |-> failed]
    BY DEF Response
  <2> QED
    BY <2>1 DEF Broken
<1>2. ASSUME NEW cap, NEW cut, NEW x \in Capability(cap, cut)
      PROVE  Broken(x).rest = x.rest /\ Broken(x).failed = TRUE
  <2>1. \E r, rest, failed, inc :
          x = [r |-> r, rest |-> rest, failed |-> failed, inc |-> inc]
    BY DEF Capability
  <2> QED
    BY <2>1 DEF Broken
<1>3. ASSUME NEW ls
      PROVE  /\ Broken(Pending(ls)).rest = ls /\ Broken(Pending(ls)).failed = TRUE
             /\ Pending(ls).rest = ls /\ Pending(ls).failed = FALSE
  BY DEF Broken, Pending
<1> QED
  BY <1>1, <1>2, <1>3

\* What a wait leaves unread is good again.
LEMMA GoodRest ==
  ASSUME tag \in Nat, NEW ls, Good(ls), NEW t \in Int, NEW word, NEW cut,
         Imap \/ cut = "never", NEW x \in Response(ls, t, word, cut)
  PROVE  Good(x.rest) /\ x.r \in {-1, 0, 1} /\ x.failed \in BOOLEAN
<1>1. ls \in Seq(Lines)
  BY DEF Good
<1>2. ASSUME NEW i \in 0 .. Len(ls) PROVE Good(After(ls, i))
  <2>1. /\ After(ls, i) \in Seq(Lines) /\ Len(After(ls, i)) = Len(ls) - i
        /\ \A k \in 1 .. Len(ls) - i : After(ls, i)[k] = ls[i + k]
    BY <1>1, AfterProperties
  <2> QED
    BY <1>1, <2>1 DEF Good
<1>3. CASE x.failed = TRUE /\ x.r = -1 /\ \E i \in 0 .. Len(ls) : x.rest = After(ls, i)
  BY <1>2, <1>3
<1>4. CASE x.failed = FALSE /\ \E i \in 1 .. Len(ls) : EndedWith(x, ls, i, t, word, cut)
  <2> PICK i \in 1 .. Len(ls) : EndedWith(x, ls, i, t, word, cut)
    BY <1>4
  <2>1. x.r \in {-1, 0, 1}
    BY DEF EndedWith, Compare
  <2>2. Good(After(ls, i)) /\ After(ls, i) \in Seq(Lines)
    BY <1>1, <1>2 DEF Good
  <2>3. CASE x.rest = After(ls, i)
    BY <1>4, <2>1, <2>2, <2>3
  <2>4. CASE cut # "never" /\ x.rest = <<RestOf(ls[i])>> \o After(ls, i)
    <3>1. ls[i] \in Lines
      BY <1>1
    <3>2. /\ RestOf(ls[i]) \in Lines /\ RestOf(ls[i]).tag <= tag
      BY <3>1, RestProperties DEF NotATag
    <3>3. x.rest \in Seq(Lines) /\ Len(x.rest) = Len(After(ls, i)) + 1
          /\ \A k \in 1 .. Len(x.rest) :
               x.rest[k] = RestOf(ls[i]) \/ \E j \in 1 .. Len(After(ls, i)) :
                                              x.rest[k] = After(ls, i)[j]
      <4> DEFINE a == After(ls, i)
                 r == RestOf(ls[i])
      <4>1. a \in Seq(Lines) /\ r \in Lines /\ x.rest = <<r>> \o a
        BY <2>2, <2>4, <3>2
      <4> HIDE DEF a, r
      <4>2. /\ x.rest \in Seq(Lines) /\ Len(x.rest) = Len(a) + 1
            /\ x.rest[1] = r /\ \A k \in 2 .. Len(x.rest) : x.rest[k] = a[k - 1]
        BY <4>1
      <4>3. \A k \in 2 .. Len(x.rest) : k - 1 \in 1 .. Len(a)
        BY <4>1, <4>2
      <4>4. \A k \in 1 .. Len(x.rest) : k = 1 \/ k \in 2 .. Len(x.rest)
        BY <4>1, <4>2
      <4> QED
        BY <4>2, <4>3, <4>4, Zenon DEF a, r
    <3>4. Good(x.rest)
      BY <2>2, <2>4, <3>2, <3>3 DEF Good
    <3> QED
      BY <1>4, <2>1, <3>4
  <2> QED
    BY <2>3, <2>4 DEF EndedWith
<1> QED
  BY <1>1, <1>3, <1>4, ResponseOutcome, Zenon

\* So is what imap4_out_get_capability() leaves.
LEMMA GoodCapability ==
  ASSUME tag \in Nat, Imap, Good(lines), NEW cap, NEW cut, NEW x \in Capability(cap, cut)
  PROVE  /\ Good(x.rest) /\ x.r \in {-1, 0, 1} /\ x.inc \in {0, 1}
         /\ x.failed \in BOOLEAN
<1>1. PICK y \in Response(lines, Untagged, "CAPABILITY", "never") :
        \/ y.r < 1 /\ x = [r |-> y.r, rest |-> y.rest, failed |-> y.failed, inc |-> 0]
        \/ \E z \in Response(y.rest, tag, "OK", cut) :
             x = [r |-> IF z.r < 0 \/ cap \in y.line.caps THEN 1 ELSE 0,
                  rest |-> z.rest, failed |-> z.failed,
                  inc |-> IF z.r < 0 THEN 0 ELSE 1]
  BY DEF Capability
<1>2. Good(y.rest) /\ y.r \in {-1, 0, 1} /\ y.failed \in BOOLEAN
  BY GoodRest DEF Untagged
<1>3. ASSUME NEW z \in Response(y.rest, tag, "OK", cut)
      PROVE  Good(z.rest) /\ z.failed \in BOOLEAN
  BY <1>2, GoodRest
<1> QED
  BY <1>1, <1>2, <1>3

\* A command is written at a place where it may be.
LEMMA SayBase ==
  ASSUME Base, NEW x, Good(x.rest), NEW c, NEW next, NEW t \in {tag, tag + 1},
         Say(x, c, next, t), next \in ReadingOf \ {"greeting"},
         policy = "tls_outgoing_force" /\ io = "fd" => next \in SettingUp,
         next \in SettingUp => io = "fd" /\ policy # "plain"
  PROVE  Base'
<1>1. /\ tag \in Nat /\ cmd \in Nat /\ tag' = t /\ t \in Nat /\ cmd' = cmd + 1 /\ pc' = next
      /\ proto' = proto /\ policy' = policy /\ chatty' = chatty /\ io' = io
      /\ proto \in AllProtos
  BY DEF Base, TypeOK, Say, setting
<1>2. PICK sent \in Seq(Lines) : lines' = x.rest \o sent /\ Sends(c, sent)
  BY <1>1, SayOutcome, Zenon
<1>3. x.rest \in Seq(Lines)
  BY DEF Good
<1>4. /\ lines' \in Seq(Lines) /\ Len(lines') = Len(x.rest) + Len(sent)
      /\ \A k \in 1 .. Len(lines') :
           lines'[k] = IF k <= Len(x.rest) THEN x.rest[k] ELSE sent[k - Len(x.rest)]
  BY <1>2, <1>3
<1>5. /\ Len(sent) > 0 /\ sent[Len(sent)].tag # Untagged
      /\ \A k \in 1 .. Len(sent) : /\ sent[k].tag <= tag' /\ sent[k].word # "rest"
                                   /\ ~Imap /\ ~chatty => sent[k].tag # Untagged
  BY <1>2 DEF Sends
<1>6. TypeOK'
  BY <1>1 DEF Base, TypeOK, ReadingOf
<1>7. LinesInv'
  <2>1. ASSUME NEW k \in 1 .. Len(lines')
        PROVE  /\ lines'[k].tag <= tag'
               /\ ~Imap => lines'[k].tag # Untagged /\ lines'[k].word # "rest"
    <3>1. CASE k <= Len(x.rest)
      <4>1. lines'[k] = x.rest[k] /\ k \in 1 .. Len(x.rest)
        BY <1>3, <1>4, <3>1
      <4>2. lines'[k] \in Lines
        BY <1>4
      <4>3. lines'[k].tag \in Int
        BY <4>2 DEF Lines
      <4> QED
        BY <1>1, <4>1, <4>3 DEF Good
    <3>2. CASE k > Len(x.rest)
      <4>1. lines'[k] = sent[k - Len(x.rest)] /\ k - Len(x.rest) \in 1 .. Len(sent)
        BY <1>3, <1>4, <3>2
      <4> QED
        BY <1>5, <4>1 DEF Base, LinesInv
    <3> QED
      BY <1>3, <3>1, <3>2
  <2> QED
    BY <1>1, <1>4, <2>1 DEF Base, LinesInv, Good, Imap
<1>8. OwedInv'
  <2>1. Len(lines') \in 1 .. Len(lines') /\ lines'[Len(lines')] = sent[Len(sent)]
    BY <1>3, <1>4, <1>5
  <2>2. next # "flush"
    BY <1>1 DEF ReadingOf, ImapReading, PopReading, SieveReading, AllProtos
  <2> QED
    BY <1>1, <1>4, <1>5, <2>1, <2>2 DEF OwedInv
<1>9. PlaceInv' /\ ForceInv'
  <2>1. next \in Reading \ {"greeting"}
    BY <1>1 DEF ReadingOf, ImapReading, PopReading, SieveReading, AllProtos, Reading
  <2> QED
    BY <1>1, <2>1 DEF PlaceInv, ForceInv, SettingUp, Reading
<1> QED
  BY <1>6, <1>7, <1>8, <1>9 DEF Base

\* A method returns at a place where it may.
LEMMA LeaveBase ==
  ASSUME Base, NEW x, Good(x.rest), NEW next, NEW v, NEW fs, Leave(x, next, v, fs),
         tag' \in {tag, tag + 1, tag + 2},
         \/ next = "decide" /\ io = "fd" /\ v \in {-1, 0, 1}
         \/ next = "done" /\ ~(policy = "tls_outgoing_force" /\ io = "fd")
  PROVE  Base'
<1>1. /\ tag \in Nat /\ cmd \in Nat /\ cmd' = cmd /\ pc' = next /\ status' = v
      /\ proto' = proto /\ policy' = policy /\ chatty' = chatty /\ io' = io
      /\ lines' = x.rest
  BY DEF Base, TypeOK, Leave, setting
<1>2. TypeOK'
  BY <1>1 DEF Base, TypeOK, Between, Over, ReadingOf
<1>3. LinesInv'
  <2>1. ASSUME NEW k \in 1 .. Len(x.rest)
        PROVE  /\ x.rest[k].tag <= tag'
               /\ ~Imap => x.rest[k].tag # Untagged /\ x.rest[k].word # "rest"
    <3>1. x.rest[k] \in Lines
      BY DEF Good
    <3>2. x.rest[k].tag \in Int
      BY <3>1 DEF Lines
    <3> QED
      BY <1>1, <3>2 DEF Good
  <2> QED
    BY <1>1, <2>1 DEF Base, LinesInv, Good, Imap
<1>4. OwedInv' /\ PlaceInv' /\ ForceInv'
  BY <1>1 DEF OwedInv, PlaceInv, ForceInv, Reading, SettingUp
<1> QED
  BY <1>2, <1>3, <1>4 DEF Base

\* out_setup.
LEMMA SetupBase ==
  Base /\ (\/ Greeting \/ ImapCapability \/ ImapStartTls \/ PopCapa \/ PopStls
           \/ SieveGreeting \/ SieveStartTls) => Base'
<1> SUFFICES ASSUME Base PROVE (\/ Greeting \/ ImapCapability \/ ImapStartTls \/ PopCapa
                                \/ PopStls \/ SieveGreeting \/ SieveStartTls) => Base'
  OBVIOUS
<1>1. /\ tag \in Nat /\ Good(lines) /\ proto \in AllProtos /\ policy \in AllPolicies
      /\ pc = "greeting" => io = "fd"
      /\ pc \in SettingUp => io = "fd" /\ policy # "plain"
  BY DEF Base, TypeOK, LinesInv, PlaceInv
<1>2. \* an error after x
      ASSUME NEW x, Good(x.rest), io = "fd", NEW v \in {-1, 0, 1}, NEW fs, NEW next,
             next = "decide", Leave(x, next, v, fs), tag' \in {tag, tag + 1}
      PROVE  Base'
  BY <1>2, LeaveBase
<1>3. ASSUME NEW x, Good(x.rest), io = "fd", NEW v \in {-1, 0, 1}, NEW fs, SetUp(x, v, fs)
      PROVE  Base'
  BY <1>2, <1>3 DEF SetUp
<1>4. ASSUME NEW x, Good(x.rest), io = "fd", Strcmp(x) PROVE Base'
  BY <1>3, <1>4 DEF Strcmp
<1>5. \* the next command
      ASSUME NEW x, Good(x.rest), NEW c, NEW next, NEW t \in {tag, tag + 1},
             Say(x, c, next, t), io = "fd", policy # "plain",
             \/ next = "capability" /\ proto # "MANAGESIEVE"
             \/ next = "starttls"
      PROVE  Base'
  BY <1>1, <1>5, SayBase DEF ReadingOf, ImapReading, PopReading, SieveReading, SettingUp,
                             AllProtos
<1>6. \* a reply
      ASSUME NEW ls, Good(ls), NEW t \in {Untagged, NoTag, tag}, NEW word, NEW cut,
             Imap \/ cut = "never", NEW x \in Response(ls, t, word, cut)
      PROVE  Good(x.rest) /\ Good(Broken(x).rest) /\ x.r \in {-1, 0, 1}
  BY <1>1, <1>6, GoodRest, BrokenProperties DEF Untagged, NoTag
<1>7. CASE Greeting
  <2> PICK x \in Response(lines, IF Imap THEN Untagged ELSE NoTag, "OK", "never") :
         \/ x.r = -1 /\ SetUp(x, -1, {})
         \/ x.r = 0 /\ SetUp(x, 0, {})
         \/ x.r = 1 /\ policy = "plain" /\ SetUp(x, 1, {})
         \/ /\ x.r = 1 /\ policy # "plain"
            /\ \/ Say(x, "CAPABILITY", "capability", tag) /\ UNCHANGED flags
               \/ proto = "POP3" /\ SetUp(Broken(x), 1, {})
               \/ Imap /\ Strcmp(Broken(x))
    BY <1>7 DEF Greeting
  <2>1. Good(x.rest) /\ Good(Broken(x).rest)
    BY <1>1, <1>6
  <2>2. io = "fd" /\ proto # "MANAGESIEVE"
    BY <1>1, <1>7 DEF Greeting
  <2> QED
    BY <1>1, <1>3, <1>4, <1>5, <2>1, <2>2
<1>8. CASE ImapCapability
  <2> PICK x \in Capability("STARTTLS", "chat") :
         \/ x.r = -1 /\ Strcmp(x)
         \/ x.r = 0 /\ Leave(x, "decide", 1, {}) /\ tag' = tag + x.inc
         \/ x.r = 0 /\ Leave(x, "decide", 0, {}) /\ tag' = tag + x.inc
         \/ x.r = 1 /\ Strcmp(Broken(x))
         \/ x.r = 1 /\ Say(x, "STARTTLS", "starttls", tag + x.inc) /\ UNCHANGED flags
    BY <1>8 DEF ImapCapability
  <2>1. Good(x.rest) /\ x.inc \in {0, 1} /\ Good(Broken(x).rest)
    BY <1>1, <1>8, GoodCapability, BrokenProperties DEF ImapCapability
  <2>2. io = "fd" /\ policy # "plain" /\ tag + x.inc \in {tag, tag + 1}
    BY <1>1, <1>8, <2>1 DEF ImapCapability, SettingUp
  <2> QED
    BY <1>2, <1>4, <1>5, <2>1, <2>2
<1>9. CASE ImapStartTls
  <2> PICK x \in Response(lines, tag, "OK", "always") :
         \/ x.r = -1 /\ SetUp(x, -1, {})
         \/ x.r # -1 /\ Leave(x, "decide", 1, {"STARTTLS"}) /\ tag' = tag + 1
    BY <1>9 DEF ImapStartTls
  <2>1. Good(x.rest) /\ io = "fd"
    BY <1>1, <1>6, <1>9 DEF ImapStartTls, SettingUp
  <2> QED
    BY <1>2, <1>3, <2>1
<1>10. CASE PopCapa
  <2> PICK x \in Response(lines, NoTag, "OK", "never") :
         \/ x.r # 1 /\ SetUp(x, 1, {})
         \/ \E y \in Response(x.rest, NoTag, "list", "never") :
              \/ y.r # 1 /\ \E fs \in {{}, {"STARTTLS"}} : SetUp(y, 1, fs)
              \/ y.r = 1 /\ "STARTTLS" \notin y.line.caps /\ SetUp(y, 1, {})
              \/ /\ y.r = 1 /\ "STARTTLS" \in y.line.caps
                 /\ \/ Say(y, "STARTTLS", "starttls", tag) /\ UNCHANGED flags
                    \/ SetUp(Broken(y), 1, {"STARTTLS"})
    BY <1>10 DEF PopCapa
  <2>1. Good(x.rest) /\ io = "fd" /\ policy # "plain"
    BY <1>1, <1>6, <1>10 DEF PopCapa, SettingUp
  <2>2. CASE x.r # 1 /\ SetUp(x, 1, {})
    BY <1>3, <2>1, <2>2
  <2>3. ASSUME NEW y \in Response(x.rest, NoTag, "list", "never"),
               \/ \E fs \in {{}, {"STARTTLS"}} : SetUp(y, 1, fs)
               \/ Say(y, "STARTTLS", "starttls", tag)
               \/ SetUp(Broken(y), 1, {"STARTTLS"})
        PROVE  Base'
    <3>1. Good(y.rest) /\ Good(Broken(y).rest)
      BY <1>1, <1>6, <2>1, <2>3
    <3> QED
      BY <1>1, <1>3, <1>5, <2>1, <2>3, <3>1
  <2> QED
    BY <2>2, <2>3
<1>11. CASE PopStls
  <2> PICK x \in Response(lines, NoTag, "OK", "never") : SetUp(x, 1, {"STARTTLS"})
    BY <1>11 DEF PopStls
  <2>1. Good(x.rest) /\ io = "fd"
    BY <1>1, <1>6, <1>11 DEF PopStls, SettingUp
  <2> QED
    BY <1>3, <2>1
<1>12. CASE SieveGreeting
  <2> PICK x \in Response(lines, NoTag, "OK", "never") :
         \/ x.r < 1 /\ SetUp(x, x.r, {})
         \/ \E fs : SetUp(x, 1, fs)
         \/ \E fs : SetUp(x, -1, fs)
         \/ policy # "plain" /\ Say(x, "STARTTLS", "starttls", tag)
         \/ SetUp(Broken(x), -1, {})
    BY <1>12 DEF SieveGreeting
  <2>1. Good(x.rest) /\ Good(Broken(x).rest) /\ x.r \in {-1, 0, 1} /\ io = "fd"
    BY <1>1, <1>6, <1>12 DEF SieveGreeting
  <2> QED
    BY <1>1, <1>3, <1>5, <2>1
<1>13. CASE SieveStartTls
  <2> PICK x \in Response(lines, NoTag, "OK", "never") : \E fs : SetUp(x, x.r, fs)
    BY <1>13 DEF SieveStartTls
  <2>1. Good(x.rest) /\ x.r \in {-1, 0, 1} /\ io = "fd"
    BY <1>1, <1>6, <1>13 DEF SieveStartTls, SettingUp
  <2> QED
    BY <1>3, <2>1
<1> QED
  BY <1>7, <1>8, <1>9, <1>10, <1>11, <1>12, <1>13

\* token_flush() leaves some of the lines; all of them when there is no rest of a
\* line and a handshake has been done.
LEMMA FlushProperties ==
  ASSUME NEW ls \in AfterFlush, lines \in Seq(Lines)
  PROVE  /\ \E i \in 0 .. Len(lines) : ls = After(lines, i)
         /\ /\ io = "ssl" /\ \A i \in 1 .. Len(lines) : lines[i].word # "rest"
            => ls = lines
         /\ /\ io = "ssl" /\ \A i \in 1 .. Len(lines) : lines[i].word = "rest"
            => ls = <<>>
<1> DEFINE rests == {i \in DOMAIN lines : lines[i].word = "rest"}
           known == Cardinality(rests)
<1>1. Len(lines) \in Nat /\ DOMAIN lines = 1 .. Len(lines)
  OBVIOUS
<1>2. IsFiniteSet(1 .. Len(lines)) /\ Cardinality(1 .. Len(lines)) = Len(lines)
  BY <1>1, FS_Interval, SMTT(30)
<1>3. rests \in SUBSET (1 .. Len(lines))
  BY <1>1
<1>4. known <= Len(lines) /\ IsFiniteSet(rests) /\ known \in Nat
  BY <1>2, <1>3, FS_Subset, FS_CardinalityType
<1>5. PICK i \in known .. (IF io = "ssl" THEN known ELSE Len(lines)) : ls = After(lines, i)
  BY DEF AfterFlush
<1>6. i \in 0 .. Len(lines) /\ (io = "ssl" => i = known)
  BY <1>1, <1>4, <1>5
<1>7. ASSUME \A j \in 1 .. Len(lines) : lines[j].word # "rest" PROVE known = 0
  <2>1. rests = {}
    BY <1>1, <1>7
  <2> QED
    BY <2>1, FS_EmptySet
<1>8. ASSUME \A j \in 1 .. Len(lines) : lines[j].word = "rest" PROVE known = Len(lines)
  <2>1. rests = 1 .. Len(lines)
    BY <1>1, <1>8
  <2> QED
    BY <1>2, <2>1
<1>9. After(lines, 0) = lines
  BY DEF After
<1>10. After(lines, Len(lines)) = <<>>
  BY DEF After
<1> HIDE DEF known
<1> QED
  BY <1>5, <1>6, <1>7, <1>8, <1>9, <1>10

\* main().
LEMMA MainBase == Base /\ (Decide \/ Handshake) => Base'
<1>1. ASSUME Base, Decide PROVE Base'
  <2>1. /\ pc = "decide" /\ pc' \in {"refused", "exited", "handshake", "flush"}
        /\ pc' = "handshake" => policy # "plain"
        /\ pc' = "flush" => policy # "tls_outgoing_force"
        /\ io = "fd" /\ policy \in AllPolicies
        /\ io' = io /\ proto' = proto /\ policy' = policy /\ chatty' = chatty
        /\ tag' = tag /\ cmd' = cmd /\ lines' = lines
    BY <1>1 DEF Decide, AfterSetup, setting, Base, TypeOK, PlaceInv, AllPolicies
  <2>2. TypeOK' /\ ForceInv' /\ PlaceInv' /\ OwedInv'
    BY <1>1, <2>1 DEF Base, TypeOK, Between, Over, ReadingOf, ForceInv, PlaceInv, OwedInv,
                      Reading, SettingUp, ReadsCapability
  <2>3. LinesInv'
    BY <1>1, <2>1 DEF Base, LinesInv, Good, Imap
  <2> QED
    BY <2>2, <2>3 DEF Base
<1>2. ASSUME Base, Handshake PROVE Base'
  <2>0. /\ proto' = proto /\ policy' = policy /\ chatty' = chatty /\ tag' = tag /\ cmd' = cmd
        /\ pc = "handshake" /\ io = "fd" /\ policy # "plain" /\ tag \in Nat /\ cmd \in Nat
        /\ Good(lines) /\ proto \in AllProtos /\ policy \in AllPolicies
    BY <1>2 DEF Handshake, setting, Base, PlaceInv, TypeOK, LinesInv
  <2>1. CASE pc' = "exited" /\ UNCHANGED <<io, srv, announced, lines>>
    <3>1. TypeOK' /\ ForceInv' /\ PlaceInv' /\ OwedInv'
      BY <2>0, <2>1 DEF TypeOK, Between, Over, ReadingOf, ForceInv, PlaceInv, OwedInv,
                        Reading, SettingUp
    <3>2. LinesInv'
      BY <1>2, <2>0, <2>1 DEF Base, LinesInv, Good, Imap
    <3> QED
      BY <3>1, <3>2 DEF Base
  <2>2. CASE /\ pc' = "flush" /\ io' = "ssl"
             /\ IF proto = "MANAGESIEVE"
                THEN \E caps \in SUBSET Caps :
                       announced' = caps /\ lines' = lines \o CapabilityReply(caps)
                ELSE UNCHANGED <<announced, lines>>
    <3>1. TypeOK' /\ ForceInv' /\ PlaceInv'
      BY <2>0, <2>2 DEF TypeOK, Between, ReadingOf, ForceInv, PlaceInv, SettingUp
    <3>2. CASE proto = "MANAGESIEVE"
      <4> PICK caps \in SUBSET Caps : lines' = lines \o CapabilityReply(caps)
        BY <2>2, <3>2
      <4> DEFINE line == Line(NoTag, "OK", caps)
      <4>1. /\ lines' = lines \o <<line>> /\ line \in Lines
            /\ line.tag = NoTag /\ line.word = "OK"
        BY <2>0, <3>2 DEF CapabilityReply, Line, Lines, Words, NoTag
      <4> HIDE DEF line
      <4>2. /\ lines' \in Seq(Lines) /\ Len(lines') = Len(lines) + 1
            /\ \A k \in 1 .. Len(lines') :
                 lines'[k] = IF k <= Len(lines) THEN lines[k] ELSE line
        BY <2>0, <4>1 DEF Good
      <4>3. LinesInv'
        BY <1>2, <2>0, <4>1, <4>2 DEF Base, LinesInv, Good, Imap, NoTag, Untagged
      <4>4. OwedInv'
        BY <2>0, <2>2, <4>2 DEF OwedInv, Reading, Good
      <4> QED
        BY <3>1, <4>3, <4>4 DEF Base
    <3>3. CASE proto # "MANAGESIEVE"
      <4>1. lines' = lines
        BY <2>2, <3>3
      <4>2. LinesInv' /\ OwedInv'
        BY <1>2, <2>0, <2>2, <3>3, <4>1
           DEF Base, LinesInv, Good, Imap, OwedInv, Reading, ReadsCapability
      <4> QED
        BY <3>1, <4>2 DEF Base
    <3> QED
      BY <3>2, <3>3
  <2> QED
    BY <1>2, <2>1, <2>2 DEF Handshake
<1> QED
  BY <1>1, <1>2

\* out_authenticate.
LEMMA AuthenticateBase ==
  Base /\ (\/ Authenticate \/ SieveAuthCapability \/ ImapAuthCapability \/ ImapLogin
           \/ ImapName \/ ImapPassword \/ PopUser \/ Verdict) => Base'
<1> SUFFICES ASSUME Base PROVE (\/ Authenticate \/ SieveAuthCapability \/ ImapAuthCapability
                                \/ ImapLogin \/ ImapName \/ ImapPassword \/ PopUser
                                \/ Verdict) => Base'
  OBVIOUS
<1> DEFINE Allowed == ~(policy = "tls_outgoing_force" /\ io = "fd")
<1>1. /\ tag \in Nat /\ Good(lines) /\ proto \in AllProtos
      /\ pc \in {"flush", "auth_capability", "login", "name", "password", "user", "pass",
                 "authenticate"} => Allowed
  BY DEF Base, TypeOK, LinesInv, ForceInv
<1>2. ASSUME NEW x, Good(x.rest), NEW v, NEW fs, Allowed,
             Leave(x, "done", v, fs), tag' \in {tag, tag + 1, tag + 2}
      PROVE  Base'
  BY <1>2, LeaveBase
<1>3. ASSUME NEW x, Good(x.rest), NEW v, Allowed, Finish(x, v), tag' \in {tag, tag + 1, tag + 2}
      PROVE  Base'
  BY <1>2, <1>3 DEF Finish
<1>4. ASSUME NEW x, Good(x.rest), NEW c, NEW next, NEW t \in {tag, tag + 1}, Allowed,
             Say(x, c, next, t),
             \/ proto = "IMAP4" /\ next \in {"auth_capability", "login", "name", "password"}
             \/ proto = "POP3" /\ next \in {"user", "pass"}
             \/ proto = "MANAGESIEVE" /\ next = "authenticate"
      PROVE  Base'
  BY <1>4, SayBase DEF ReadingOf, ImapReading, PopReading, SieveReading, SettingUp
<1>5. ASSUME NEW ls, Good(ls), NEW t \in {Cont, NoTag, tag}, NEW word, NEW cut,
             Imap \/ cut = "never", NEW x \in Response(ls, t, word, cut)
      PROVE  Good(x.rest) /\ Good(Broken(x).rest) /\ x.r \in {-1, 0, 1}
  BY <1>1, <1>5, GoodRest, BrokenProperties DEF Cont, NoTag
<1>6. ASSUME NEW ls \in AfterFlush
      PROVE  Good(ls) /\ Good(Pending(ls).rest) /\ Good(Broken(Pending(ls)).rest)
  <2>1. PICK i \in 0 .. Len(lines) : ls = After(lines, i)
    BY <1>1, FlushProperties DEF Good
  <2>2. /\ ls \in Seq(Lines) /\ Len(ls) = Len(lines) - i
        /\ \A k \in 1 .. Len(lines) - i : ls[k] = lines[i + k]
    BY <1>1, <2>1, AfterProperties DEF Good
  <2>3. Good(ls)
    BY <1>1, <2>1, <2>2 DEF Good
  <2> QED
    BY <2>3, BrokenProperties
<1>7. ASSUME NEW x, Good(x.rest), Good(Broken(x).rest), NEW fs, Allowed,
             proto = "MANAGESIEVE", SievePlain(x, fs)
      PROVE  Base'
  <2>1. \/ Finish(x, 3) /\ UNCHANGED tag
        \/ Say(x, "AUTHENTICATE", "authenticate", tag)
        \/ Finish(Broken(x), -1) /\ UNCHANGED tag
    BY <1>7 DEF SievePlain
  <2> QED
    BY <1>3, <1>4, <1>7, <2>1
<1>8. CASE Authenticate
  <2> PICK ls \in AfterFlush :
         \/ Imap /\ Say(Pending(ls), "CAPABILITY", "auth_capability", tag)
         \/ Finish(Broken(Pending(ls)), -1) /\ tag' \in {tag, tag + 1}
         \/ proto = "POP3" /\ Say(Pending(ls), "USER", "user", tag)
         \/ /\ ReadsCapability
            /\ pc' = "auth_capability" /\ lines' = ls
            /\ UNCHANGED <<setting, status, flags, io, tag, cmd, srv, announced,
                           agreed, trouble>>
         \/ proto = "MANAGESIEVE" /\ SievePlain(Pending(ls), flags)
    BY <1>1, <1>8 DEF Authenticate
  <2>1. /\ Good(ls) /\ Good(Pending(ls).rest) /\ Good(Broken(Pending(ls)).rest)
        /\ Allowed /\ pc = "flush"
    BY <1>1, <1>6, <1>8 DEF Authenticate
  <2>2. CASE /\ ReadsCapability
             /\ pc' = "auth_capability" /\ lines' = ls
             /\ UNCHANGED <<setting, status, flags, io, tag, cmd, srv, announced,
                            agreed, trouble>>
    <3>1. io = "ssl" /\ proto = "MANAGESIEVE" /\ lines # <<>> /\ lines \in Seq(Lines)
      BY <1>1, <2>1, <2>2 DEF ReadsCapability, Base, OwedInv, Good
    <3>2. \A i \in 1 .. Len(lines) : lines[i].tag # Untagged /\ lines[i].word # "rest"
      BY <1>1, <3>1 DEF Good, Imap
    <3>3. ls = lines
      BY <3>1, <3>2, FlushProperties
    <3>4. /\ lines' = lines /\ tag' = tag /\ proto' = proto /\ policy' = policy
          /\ chatty' = chatty /\ io' = io /\ cmd' = cmd
      BY <2>2, <3>3 DEF setting
    <3>5. Len(lines) > 0 /\ DOMAIN lines = 1 .. Len(lines)
      BY <3>1
    <3>6. OwedInv'
      <4>1. 1 \in DOMAIN lines' /\ lines'[1].tag # Untagged
        BY <3>2, <3>4, <3>5
      <4> QED
        BY <2>2, <4>1 DEF OwedInv
    <3>7. TypeOK' /\ PlaceInv' /\ ForceInv'
      BY <2>1, <2>2, <3>1, <3>4 DEF Base, TypeOK, PlaceInv, ForceInv, SettingUp, ReadingOf,
                                    SieveReading
    <3>8. LinesInv'
      BY <3>4 DEF Base, LinesInv, Good, Imap
    <3> QED
      BY <3>6, <3>7, <3>8 DEF Base
  <2> QED
    BY <1>1, <1>3, <1>4, <1>7, <2>1, <2>2 DEF Imap
<1>9. CASE SieveAuthCapability
  <2> PICK x \in Response(lines, NoTag, "OK", "never") :
         \/ Finish(x, x.r) /\ UNCHANGED tag
         \/ SievePlain(x, x.line.caps)
    BY <1>9 DEF SieveAuthCapability
  <2>1. Good(x.rest) /\ Good(Broken(x).rest) /\ Allowed /\ proto = "MANAGESIEVE"
    BY <1>1, <1>5, <1>9 DEF SieveAuthCapability
  <2> QED
    BY <1>3, <1>7, <2>1
<1>10. CASE ImapAuthCapability
  <2> PICK x \in Capability(RefusedBy, Copied) :
         \/ Finish(x, -1) /\ tag' = tag + 1
         \/ x.r = 1 /\ Finish(x, 2) /\ tag' = tag + x.inc + 1
         \/ Finish(Broken(x), -1) /\ tag' = tag + x.inc + 1
         \/ Say(x, "LOGIN", "login", tag + x.inc)
    BY <1>10 DEF ImapAuthCapability
  <2>1. /\ Good(x.rest) /\ x.inc \in {0, 1} /\ Good(Broken(x).rest) /\ Allowed
        /\ proto = "IMAP4"
    BY <1>1, <1>10, GoodCapability, BrokenProperties DEF ImapAuthCapability, Imap
  <2>2. tag + x.inc \in {tag, tag + 1} /\ tag + x.inc + 1 \in {tag, tag + 1, tag + 2}
        /\ tag + 1 \in {tag, tag + 1, tag + 2}
    BY <1>1, <2>1
  <2> QED
    BY <1>3, <1>4, <2>1, <2>2
<1>11. CASE ImapLogin \/ ImapName
  <2> PICK x \in Response(lines, Cont, "OK", Copied) :
         \/ Say(x, "name", "name", tag)
         \/ Say(x, "password", "password", tag)
         \/ Finish(Broken(x), -1) /\ tag' = tag + 1
    BY <1>11 DEF ImapLogin, ImapName, ImapLiteral
  <2>1. Allowed /\ proto = "IMAP4"
    BY <1>1, <1>11 DEF ImapLogin, ImapName, ImapLiteral, Imap
  <2>2. Good(x.rest) /\ Good(Broken(x).rest) /\ tag + 1 \in {tag, tag + 1, tag + 2}
    BY <1>1, <1>5, <2>1 DEF Imap
  <2> QED
    BY <1>3, <1>4, <2>1, <2>2
<1>12. CASE ImapPassword
  <2> PICK x \in Response(lines, tag, "OK", Copied) : Finish(x, x.r) /\ tag' = tag + 1
    BY <1>12 DEF ImapPassword
  <2>1. Good(x.rest) /\ Allowed /\ tag + 1 \in {tag, tag + 1, tag + 2}
    BY <1>1, <1>5, <1>12 DEF ImapPassword
  <2> QED
    BY <1>3, <2>1
<1>13. CASE PopUser
  <2> PICK x \in Response(lines, NoTag, "OK", "never") :
         \/ Finish(x, x.r) /\ UNCHANGED tag
         \/ Say(x, "password", "pass", tag)
         \/ Finish(Broken(x), -1) /\ UNCHANGED tag
    BY <1>13 DEF PopUser
  <2>1. Good(x.rest) /\ Good(Broken(x).rest) /\ Allowed /\ tag \in {tag, tag + 1, tag + 2}
    BY <1>1, <1>5, <1>13 DEF PopUser
  <2>2. proto = "POP3"
    BY <1>1, <1>13 DEF PopUser, Base, TypeOK, ReadingOf, ImapReading, PopReading,
                       SieveReading, Between, Over, AllProtos
  <2> QED
    BY <1>3, <1>4, <2>1, <2>2
<1>14. CASE Verdict
  <2> PICK x \in Response(lines, NoTag, "OK", "never") : Finish(x, x.r) /\ UNCHANGED tag
    BY <1>14 DEF Verdict
  <2>1. Good(x.rest) /\ Allowed /\ tag \in {tag, tag + 1, tag + 2}
    BY <1>1, <1>5, <1>14 DEF Verdict
  <2> QED
    BY <1>3, <2>1
<1> QED
  BY <1>8, <1>9, <1>10, <1>11, <1>12, <1>13, <1>14

\* What is true whatever has failed stays true.
LEMMA BaseInductive == Base /\ [Next]_vars => Base'
<1>1. ASSUME Base, UNCHANGED vars PROVE Base'
  BY <1>1 DEF vars, Base, TypeOK, ReadingOf, PlaceInv, ForceInv, LinesInv, Good, Imap, OwedInv,
              ReadsCapability
<1> QED
  BY <1>1, SetupBase, MainBase, AuthenticateBase DEF Next, Ended

-----------------------------------------------------------------------------
(* A server that sends no lines of its own.                                *)

\* A wait that does not fail takes the first line, if that has a tag or untagged
\* lines are waited for.
LEMMA FirstLine ==
  ASSUME NEW ls \in Seq(Lines), NEW t \in Int, NEW word, NEW cut,
         NEW x \in Response(ls, t, word, cut), ~x.failed,
         Len(ls) > 0, t = Untagged \/ ls[1].tag # Untagged
  PROVE  /\ x.line = ls[1] /\ x.r = Compare(ls[1], t, word)
         /\ x.rest = After(ls, 1) \/ x.rest = <<RestOf(ls[1])>> \o After(ls, 1)
         /\ cut \in {"never", "chat"} => x.rest = After(ls, 1)
<1>1. PICK i \in 1 .. Len(ls) : EndedWith(x, ls, i, t, word, cut)
  BY ResponseOutcome
<1>2. Len(ls) \in Nat
  OBVIOUS
<1>3. i = 1
  <2> SUFFICES ASSUME i # 1 PROVE FALSE
    OBVIOUS
  <2>1. 1 \in 1 .. i - 1
    BY <1>2
  <2> QED
    BY <1>1, <2>1 DEF EndedWith
<1> QED
  BY <1>1, <1>3 DEF EndedWith

\* If there is only that line, nothing is left, or the rest of it.
LEMMA OnlyLine ==
  ASSUME NEW ls \in Seq(Lines), NEW t \in Int, NEW word, NEW cut,
         NEW x \in Response(ls, t, word, cut), ~x.failed,
         Len(ls) = 1, t = Untagged \/ ls[1].tag # Untagged
  PROVE  /\ x.line = ls[1] /\ x.r = Compare(ls[1], t, word)
         /\ x.rest = <<>> \/ x.rest = <<RestOf(ls[1])>>
         /\ cut \in {"never", "chat"} => x.rest = <<>>
<1>1. After(ls, 1) = <<>>
  BY DEF After
<1>2. <<RestOf(ls[1])>> \o <<>> = <<RestOf(ls[1])>>
  <2>1. RestOf(ls[1]) \in Lines
    BY RestProperties
  <2>2. <<RestOf(ls[1])>> \in Seq(Lines)
    BY <2>1
  <2> QED
    BY <2>2, ConcatEmptySeq
<1>3. Len(ls) > 0
  OBVIOUS
<1>4. /\ x.line = ls[1] /\ x.r = Compare(ls[1], t, word)
      /\ x.rest = After(ls, 1) \/ x.rest = <<RestOf(ls[1])>> \o After(ls, 1)
      /\ cut \in {"never", "chat"} => x.rest = After(ls, 1)
  BY <1>3, FirstLine
<1> QED
  BY <1>1, <1>2, <1>4, Zenon

\* x is what comes of reading the only line of ls
Taken(x, ls, t, word) ==
  x.rest = <<>> /\ x.line = ls[1] /\ x.r = Compare(ls[1], t, word)

\* That is what comes of it unless the line is read in part.
LEMMA WholeLine ==
  ASSUME NEW ls \in Seq(Lines), NEW t \in Int, NEW word, NEW cut \in {"never", "chat"},
         NEW x \in Response(ls, t, word, cut), ~x.failed,
         Len(ls) = 1, t = Untagged \/ ls[1].tag # Untagged
  PROVE  Taken(x, ls, t, word)
  BY OnlyLine DEF Taken

\* What holds after a command was written to such a server with nothing unread.
LEMMA BareSay ==
  ASSUME Base, ~chatty, NEW x, x.rest = <<>>, NEW c, NEW next, NEW t \in {tag, tag + 1},
         Say(x, c, next, t), next \in Reading \ {"greeting"},
         c = "CAPABILITY" <=> next \in {"capability", "auth_capability"},
         c = "CAPABILITY" => Imap \/ (proto = "POP3" /\ next = "capability"),
         next \in {"login", "name", "password"} => "LOGINDISABLED" \notin announced,
         next \in {"pass", "authenticate"} => c \in {"password", "AUTHENTICATE"},
         next = "starttls" => c = "STARTTLS"
  PROVE  (PairInv /\ VerdictInv /\ ObeyInv)'
<1>1. /\ tag' = t /\ t \in Nat /\ cmd \in Nat /\ cmd' = cmd + 1 /\ cmd' \in Nat /\ pc' = next
      /\ proto' = proto /\ policy' = policy /\ chatty' = chatty /\ io' = io
      /\ proto \in AllProtos
  BY DEF Base, TypeOK, Say, setting
<1>2. /\ c # "CAPABILITY" => announced' = announced
      /\ \E sent \in Seq(Lines) : lines' = x.rest \o sent /\ Sends(c, sent) /\ SendsBare(c, sent)
  BY <1>1, SayOutcome, Zenon
<1>3. lines' \in Seq(Lines) /\ Sends(c, lines') /\ SendsBare(c, lines')
  <2> PICK sent \in Seq(Lines) :
        lines' = x.rest \o sent /\ Sends(c, sent) /\ SendsBare(c, sent)
    BY <1>2
  <2>1. x.rest \o sent = sent
    BY ConcatEmptySeq
  <2> QED
    BY <2>1
<1>4. \A k \in DOMAIN lines' : lines'[k].n = cmd'
  BY <1>3 DEF Sends
<1>5. ASSUME c # "CAPABILITY" PROVE Len(lines') = 1
  BY <1>3, <1>5 DEF SendsBare
<1>6. ASSUME c = "CAPABILITY"
      PROVE  \/ Len(lines') = 1 /\ lines'[1].tag = Echo /\ lines'[1].word = "NO"
             \/ lines' = CapabilityReply(announced')
  <2>1. CASE \E line : lines' = <<line>> /\ Only(c, srv', line)
    <3> PICK line : lines' = <<line>> /\ Only(c, srv', line)
      BY <2>1
    <3>1. line.tag = Echo /\ line.word = "NO"
      BY <1>6 DEF Only
    <3> QED
      BY <3>1
  <2> QED
    BY <1>3, <2>1 DEF SendsBare
<1>7. ASSUME c = "CAPABILITY", Imap
      PROVE  (Refused \/ Listed(Untagged, "CAPABILITY", announced))'
  <2>1. CASE Len(lines') = 1 /\ lines'[1].tag = Echo /\ lines'[1].word = "NO"
    BY <1>1, <1>7, <2>1 DEF Refused, Tag, Echo, Imap
  <2>2. CASE lines' = CapabilityReply(announced')
    <3>1. lines' = <<Line(Untagged, "CAPABILITY", announced'), Line(Echo, "OK", {})>>
      BY <1>7, <2>2 DEF CapabilityReply, Imap
    <3> QED
      BY <1>1, <1>7, <3>1 DEF Listed, Line, Tag, Echo, Imap
  <2> QED
    BY <1>6, <1>7, <2>1, <2>2
<1>8. ASSUME c = "CAPABILITY", proto = "POP3"
      PROVE  \/ Refused'
             \/ /\ Len(lines') = 2 /\ lines'[1].word = "OK" /\ lines'[2].word = "list"
                /\ lines'[1].tag = NoTag /\ lines'[2].tag = NoTag
  <2>1. CASE Len(lines') = 1 /\ lines'[1].tag = Echo /\ lines'[1].word = "NO"
    BY <1>1, <1>8, <2>1 DEF Refused, Tag, Echo, Imap
  <2>2. CASE lines' = CapabilityReply(announced')
    <3>1. lines' = <<Line(NoTag, "OK", {}), Line(NoTag, "list", announced')>>
      BY <1>8, <2>2 DEF CapabilityReply
    <3> QED
      BY <3>1 DEF Line
  <2> QED
    BY <1>6, <1>8, <2>1, <2>2
<1>9. PairInv'
  BY <1>1, <1>4, <1>5, <1>7, <1>8 DEF PairInv, Reading, Imap
<1>10. VerdictInv'
  <2>1. ASSUME next \in {"pass", "authenticate"}, lines'[1].word = "OK" PROVE srv' = "in"
    BY <1>3, <2>1 DEF Sends
  <2>2. ASSUME next = "starttls", lines'[1].word = "OK" PROVE agreed' = "yes"
    BY <1>3, <2>2 DEF Sends
  <2> QED
    BY <1>1, <2>1, <2>2 DEF VerdictInv, Reading
<1>11. ObeyInv'
  BY <1>1, <1>2 DEF ObeyInv
<1> QED
  BY <1>9, <1>10, <1>11

\* What holds after a method has returned.
LEMMA BareLeave ==
  ASSUME NEW x, NEW next \in {"decide", "done"}, NEW v, NEW fs, Leave(x, next, v, fs),
         ~x.failed /\ ~trouble /\ ~chatty /\ next = "decide" =>
           \/ x.rest = <<>>
           \/ v = -1
           \/ /\ Imap /\ policy # "plain" /\ "STARTTLS" \in fs /\ v = 1
              /\ \A i \in DOMAIN x.rest : x.rest[i].word = "rest",
         ~x.failed /\ ~trouble /\ next = "decide" /\ proto = "MANAGESIEVE" =>
           \/ v \in {-1, 0} \/ policy = "plain" \/ "STARTTLS" \notin fs \/ agreed = "yes",
         ~x.failed /\ ~trouble /\ next = "done" /\ ~Imap /\ v = 1 => srv = "in"
  PROVE  (PairInv /\ VerdictInv /\ ObeyInv)'
<1>1. /\ pc' = next /\ status' = v /\ flags' = fs /\ lines' = x.rest
      /\ proto' = proto /\ policy' = policy /\ chatty' = chatty /\ io' = io
      /\ srv' = srv /\ agreed' = agreed
      /\ ~trouble' => ~trouble /\ ~x.failed
  BY DEF Leave, setting
<1>2. PairInv'
  BY <1>1 DEF PairInv, Reading, AllRest, Imap
<1>3. VerdictInv'
  BY <1>1 DEF VerdictInv, Imap
<1>4. ObeyInv'
  BY <1>1 DEF ObeyInv
<1> QED
  BY <1>2, <1>3, <1>4

\* What imap4_out_get_capability() finds when the reply is all that is unread.
LEMMA BareCapability ==
  ASSUME Base, Imap, Refused \/ Listed(Untagged, "CAPABILITY", announced), NEW cap,
         NEW cut \in {"never", "chat"}, NEW x \in Capability(cap, cut), ~x.failed
  PROVE  x.rest = <<>> /\ (x.r = 0 => cap \notin announced)
<1>1. /\ lines \in Seq(Lines) /\ Good(lines) /\ tag \in Nat /\ Tag = tag /\ Untagged \in Int
      /\ Len(lines) > 0
  BY DEF Base, LinesInv, Good, TypeOK, Tag, Refused, Listed, Untagged
<1>2. PICK y \in Response(lines, Untagged, "CAPABILITY", "never") :
        \/ y.r < 1 /\ x = [r |-> y.r, rest |-> y.rest, failed |-> y.failed, inc |-> 0]
        \/ ~(y.r < 1) /\ \E z \in Response(y.rest, tag, "OK", cut) :
             x = [r |-> IF z.r < 0 \/ cap \in y.line.caps THEN 1 ELSE 0,
                  rest |-> z.rest, failed |-> z.failed,
                  inc |-> IF z.r < 0 THEN 0 ELSE 1]
  BY DEF Capability
<1>3. y.failed => y.r = -1
  BY <1>1, ResponseOutcome
<1>4. ~y.failed => /\ y.line = lines[1] /\ y.r = Compare(lines[1], Untagged, "CAPABILITY")
                   /\ y.rest = After(lines, 1)
  <2> SUFFICES ASSUME ~y.failed
               PROVE  /\ y.line = lines[1] /\ y.rest = After(lines, 1)
                      /\ y.r = Compare(lines[1], Untagged, "CAPABILITY")
    OBVIOUS
  <2>1. /\ y.line = lines[1] /\ y.r = Compare(lines[1], Untagged, "CAPABILITY")
        /\ y.rest = After(lines, 1) \/ y.rest = <<RestOf(lines[1])>> \o After(lines, 1)
        /\ "never" \in {"never", "chat"} => y.rest = After(lines, 1)
    BY <1>1, FirstLine, Zenon
  <2> QED
    BY <2>1
<1>5. CASE y.r < 1 /\ x = [r |-> y.r, rest |-> y.rest, failed |-> y.failed, inc |-> 0]
  <2>1. ~y.failed /\ x.r = y.r /\ x.rest = y.rest
    BY <1>5
  <2>2. y.r # 1
    BY <1>5
  <2>3. ~Listed(Untagged, "CAPABILITY", announced)
    BY <1>4, <2>1, <2>2 DEF Listed, Compare
  <2>4. Len(lines) = 1 /\ lines[1].tag = tag
    BY <1>1, <2>3 DEF Refused
  <2>5. y.r = -1
    BY <1>1, <1>4, <2>1, <2>4 DEF Compare, Untagged
  <2>6. After(lines, 1) = <<>>
    BY <2>4 DEF After
  <2> QED
    BY <1>4, <2>1, <2>5, <2>6
<1>6. ASSUME ~(y.r < 1), NEW z \in Response(y.rest, tag, "OK", cut),
             x = [r |-> IF z.r < 0 \/ cap \in y.line.caps THEN 1 ELSE 0,
                  rest |-> z.rest, failed |-> z.failed,
                  inc |-> IF z.r < 0 THEN 0 ELSE 1]
      PROVE  x.rest = <<>> /\ (x.r = 0 => cap \notin announced)
  <2>1. ~y.failed /\ ~z.failed
    BY <1>3, <1>6
  <2>2. Listed(Untagged, "CAPABILITY", announced)
    <3>1. y.r = Compare(lines[1], Untagged, "CAPABILITY")
      BY <1>4, <2>1
    <3> QED
      BY <1>1, <1>6, <3>1 DEF Refused, Compare, Untagged
  <2>3. y.rest = After(lines, 1) /\ y.line.caps = announced
    BY <1>4, <2>1, <2>2 DEF Listed
  <2>4. y.rest \in Seq(Lines) /\ Len(y.rest) = 1 /\ y.rest[1].tag = tag
    <3>1. Len(lines) = 2 /\ lines[2].tag = tag /\ 1 \in 0 .. Len(lines)
      BY <1>1, <2>2 DEF Listed
    <3>2. /\ After(lines, 1) \in Seq(Lines) /\ Len(After(lines, 1)) = Len(lines) - 1
          /\ \A k \in 1 .. Len(lines) - 1 : After(lines, 1)[k] = lines[1 + k]
      BY <1>1, <3>1, AfterProperties
    <3> QED
      BY <2>3, <3>1, <3>2
  <2>5. z.rest = <<>>
    BY <1>1, <2>1, <2>4, OnlyLine DEF Untagged
  <2> QED
    BY <1>6, <2>3, <2>5
<1> QED
  BY <1>2, <1>5, <1>6

\* What no step changes, and that a failure is not forgotten.
LEMMA Frame ==
  Next => /\ proto' = proto /\ policy' = policy /\ chatty' = chatty /\ resp' = resp
          /\ ~trouble' => ~trouble
<1> DEFINE F == /\ proto' = proto /\ policy' = policy /\ chatty' = chatty /\ resp' = resp
                /\ ~trouble' => ~trouble
<1>1. \A x, c, next, t : Say(x, c, next, t) => F
  BY DEF Say, setting
<1>2. \A x, next, v, fs : Leave(x, next, v, fs) => F
  BY DEF Leave, setting
<1>3. \A x, v, fs : SetUp(x, v, fs) => F
  BY <1>2 DEF SetUp
<1>4. \A x, v : Finish(x, v) => F
  BY <1>2 DEF Finish
<1>5. \A x, fs : SievePlain(x, fs) => F
  BY <1>1, <1>4 DEF SievePlain
<1>6. \A x : Strcmp(x) => F
  BY <1>3 DEF Strcmp
<1> HIDE DEF F
<1>7. Greeting \/ ImapCapability \/ ImapStartTls \/ PopCapa \/ PopStls => F
  BY <1>1, <1>2, <1>3, <1>6 DEF Greeting, ImapCapability, ImapStartTls, PopCapa, PopStls
<1>8. SieveGreeting \/ SieveStartTls => F
  BY <1>1, <1>3 DEF SieveGreeting, SieveStartTls
<1>9. Decide \/ Handshake \/ Ended => F
  BY DEF F, Decide, Handshake, Ended, vars, setting
<1>10. Authenticate => F
  <2>1. ASSUME UNCHANGED <<setting, trouble>> PROVE F
    BY <2>1 DEF F, setting
  <2> QED
    BY <1>1, <1>4, <1>5, <2>1 DEF Authenticate
<1>11. SieveAuthCapability \/ ImapAuthCapability \/ ImapLogin \/ ImapName => F
  BY <1>1, <1>4, <1>5
     DEF SieveAuthCapability, ImapAuthCapability, ImapLogin, ImapName, ImapLiteral
<1>12. ImapPassword \/ PopUser \/ Verdict => F
  BY <1>1, <1>4 DEF ImapPassword, PopUser, Verdict
<1>13. Next => F
  BY <1>7, <1>8, <1>9, <1>10, <1>11, <1>12 DEF Next
<1> QED
  BY <1>13 DEF F

\* What is unread when perdition waits for a reply of one line, and what comes of it.
LEMMA ReadsWholeReply ==
  ASSUME Base, PairInv, ~trouble, ~chatty,
         pc \in Reading \ {"capability", "auth_capability"}
           \/ (pc = "auth_capability" /\ proto = "MANAGESIEVE"),
         NEW t \in Int, pc = "greeting" /\ Imap => t = Untagged,
         NEW word, NEW cut \in {"never", "chat"},
         NEW x \in Response(lines, t, word, cut), ~x.failed
  PROVE  Taken(x, lines, t, word)
<1>1. lines \in Seq(Lines) /\ Len(lines) = 1
  BY DEF Base, LinesInv, Good, PairInv, Imap
<1>2. t = Untagged \/ lines[1].tag # Untagged
  <2>1. CASE pc = "greeting"
    BY <1>1, <2>1 DEF Base, PlaceInv, LinesInv, Good, OwedInv
  <2>2. CASE pc # "greeting"
    <3>1. \E i \in DOMAIN lines : lines[i].tag # Untagged
      BY <2>2 DEF Base, OwedInv, Reading
    <3> QED
      BY <1>1, <3>1
  <2> QED
    BY <2>1, <2>2
<1> QED
  BY <1>1, <1>2, WholeLine, Zenon

Bare == PairInv /\ VerdictInv /\ ObeyInv

\* out_setup.
LEMMA SetupBare ==
  ASSUME Base, Bare, ~trouble, ~chatty, ~trouble',
         \/ Greeting \/ ImapCapability \/ ImapStartTls \/ PopCapa \/ PopStls
         \/ SieveGreeting \/ SieveStartTls
  PROVE  Bare'
<1> USE DEF Bare
<1>1. /\ tag \in Nat /\ proto \in AllProtos /\ PairInv /\ VerdictInv /\ ObeyInv
      /\ lines \in Seq(Lines) /\ Good(lines) /\ NoTag \in Int /\ Untagged \in Int
      /\ pc \in SettingUp => policy # "plain"
  BY DEF Base, TypeOK, LinesInv, Good, PlaceInv, NoTag, Untagged
<1>2. \* a write that fails
      /\ \A x, v, fs : SetUp(x, v, fs) \/ Strcmp(x) => ~x.failed
      /\ \A x, next, v, fs : Leave(x, next, v, fs) => ~x.failed
      /\ \A x, c, next, t : Say(x, c, next, t) => ~x.failed
  BY DEF SetUp, Strcmp, Leave, Say
<1>3. \* an error after which nothing is unread
      ASSUME NEW x, NEW v \in {-1, 0, 1}, NEW fs, Leave(x, "decide", v, fs), x.rest = <<>>,
             \/ proto # "MANAGESIEVE" \/ v \in {-1, 0} \/ policy = "plain"
             \/ "STARTTLS" \notin fs \/ agreed = "yes"
      PROVE  Bare'
  BY <1>3, BareLeave
<1>4. ASSUME NEW x, Strcmp(x), x.rest = <<>>, proto # "MANAGESIEVE" PROVE Bare'
  BY <1>3, <1>4 DEF Strcmp, SetUp
<1>5. ASSUME NEW x, NEW t \in {tag, tag + 1}, Say(x, "STARTTLS", "starttls", t), x.rest = <<>>
      PROVE  Bare'
  BY <1>5, BareSay DEF Reading
<1>6. CASE Greeting
  <2> PICK x \in Response(lines, IF Imap THEN Untagged ELSE NoTag, "OK", "never") :
         \/ \E v \in {-1, 0, 1} : SetUp(x, v, {})
         \/ Say(x, "CAPABILITY", "capability", tag)
         \/ SetUp(Broken(x), 1, {})
         \/ Strcmp(Broken(x))
    BY <1>6 DEF Greeting
  <2>1. pc = "greeting" /\ proto # "MANAGESIEVE" /\ Broken(x).failed = TRUE
    BY <1>6, BrokenProperties DEF Greeting
  <2>2. ASSUME ~x.failed PROVE x.rest = <<>>
    <3>1. (IF Imap THEN Untagged ELSE NoTag) \in Int
      BY <1>1
    <3>2. pc = "greeting" /\ Imap => (IF Imap THEN Untagged ELSE NoTag) = Untagged
      OBVIOUS
    <3>3. pc \in Reading \ {"capability", "auth_capability"}
      BY <2>1 DEF Reading
    <3>4. "never" \in {"never", "chat"}
      OBVIOUS
    <3>5. Taken(x, lines, IF Imap THEN Untagged ELSE NoTag, "OK")
      BY <1>1, <2>2, <3>1, <3>2, <3>3, <3>4, ReadsWholeReply, Zenon
    <3> QED
      BY <3>5 DEF Taken
  <2>3. CASE \E v \in {-1, 0, 1} : SetUp(x, v, {})
    BY <1>2, <1>3, <2>1, <2>2, <2>3 DEF SetUp
  <2>4. CASE Say(x, "CAPABILITY", "capability", tag)
    <3>1. x.rest = <<>> /\ (Imap \/ proto = "POP3")
      BY <1>1, <1>2, <2>1, <2>2, <2>4 DEF AllProtos, Imap
    <3> QED
      BY <1>1, <2>4, <3>1, BareSay DEF Reading
  <2> QED
    BY <1>2, <2>1, <2>3, <2>4
<1>7. CASE ImapCapability
  <2> PICK x \in Capability("STARTTLS", "chat") :
         \/ Strcmp(x) \/ Strcmp(Broken(x))
         \/ Leave(x, "decide", 1, {}) \/ Leave(x, "decide", 0, {})
         \/ Say(x, "STARTTLS", "starttls", tag + x.inc)
    BY <1>7 DEF ImapCapability
  <2>1. pc = "capability" /\ Imap /\ Broken(x).failed = TRUE /\ tag + x.inc \in {tag, tag + 1}
    BY <1>1, <1>7, GoodCapability, BrokenProperties DEF ImapCapability
  <2>2. Refused \/ Listed(Untagged, "CAPABILITY", announced)
    BY <1>1, <2>1 DEF PairInv
  <2>3. ASSUME ~x.failed PROVE x.rest = <<>>
    <3>1. "chat" \in {"never", "chat"}
      OBVIOUS
    <3> QED
      BY <2>1, <2>2, <2>3, <3>1, BareCapability, Zenon
  <2> QED
    BY <1>2, <1>3, <1>4, <1>5, <2>1, <2>3 DEF Imap
<1>8. CASE ImapStartTls
  <2> PICK x \in Response(lines, tag, "OK", "always") :
         \/ SetUp(x, -1, {})
         \/ Leave(x, "decide", 1, {"STARTTLS"})
    BY <1>8 DEF ImapStartTls
  <2>1. pc = "starttls" /\ Imap /\ policy # "plain"
    BY <1>1, <1>8 DEF ImapStartTls, SettingUp
  <2>2. ~x.failed
    BY <1>2
  <2>3. Len(lines) = 1 /\ lines[1].tag # Untagged /\ lines[1] \in Lines
    <3>1. Len(lines) = 1
      BY <2>1 DEF PairInv, Reading
    <3>2. \E i \in DOMAIN lines : lines[i].tag # Untagged
      BY <2>1 DEF Base, OwedInv, Reading
    <3> QED
      BY <1>1, <3>1, <3>2
  <2>4. x.rest = <<>> \/ x.rest = <<RestOf(lines[1])>>
    <3>1. tag \in Int /\ (tag = Untagged \/ lines[1].tag # Untagged)
      BY <1>1, <2>3
    <3>2. \A y \in Response(lines, tag, "OK", "always") :
             ~y.failed => y.rest = <<>> \/ y.rest = <<RestOf(lines[1])>>
      BY <1>1, <2>3, <3>1, OnlyLine
    <3> QED
      BY <2>2, <3>2, Zenon
  <2>5. \A i \in DOMAIN x.rest : x.rest[i].word = "rest"
    BY <2>3, <2>4, RestProperties
  <2>6. CASE SetUp(x, -1, {})
    <3>1. Leave(x, "decide", -1, {})
      BY <2>6 DEF SetUp
    <3> QED
      BY <2>1, <3>1, BareLeave DEF Imap
  <2>7. CASE Leave(x, "decide", 1, {"STARTTLS"})
    BY <2>1, <2>5, <2>7, BareLeave DEF Imap
  <2> QED
    BY <2>6, <2>7
<1>9. CASE PopCapa
  <2> PICK x \in Response(lines, NoTag, "OK", "never") :
         \/ x.r # 1 /\ SetUp(x, 1, {})
         \/ x.r = 1 /\ \E y \in Response(x.rest, NoTag, "list", "never") :
              \/ \E fs : SetUp(y, 1, fs)
              \/ Say(y, "STARTTLS", "starttls", tag)
              \/ SetUp(Broken(y), 1, {"STARTTLS"})
    BY <1>9 DEF PopCapa
  <2>1. /\ pc = "capability" /\ proto = "POP3" /\ ~Imap /\ Tag = NoTag
        /\ \/ Refused
           \/ /\ Len(lines) = 2 /\ lines[1].word = "OK" /\ lines[2].word = "list"
              /\ lines[1].tag = NoTag /\ lines[2].tag = NoTag
    BY <1>9 DEF PopCapa, PairInv, Imap, Tag
  <2>2. Len(lines) > 0 /\ lines[1].tag = NoTag
    BY <2>1 DEF Refused
  <2>3. ~x.failed => x.r = Compare(lines[1], NoTag, "OK") /\ x.rest = After(lines, 1)
    <3> SUFFICES ASSUME ~x.failed
                 PROVE  x.r = Compare(lines[1], NoTag, "OK") /\ x.rest = After(lines, 1)
      OBVIOUS
    <3>1. NoTag = Untagged \/ lines[1].tag # Untagged
      BY <2>2 DEF NoTag, Untagged
    <3>2. lines \in Seq(Lines) /\ NoTag \in Int /\ Len(lines) > 0
      BY <1>1, <2>2
    <3>3. x \in Response(lines, NoTag, "OK", "never")
      OBVIOUS
    <3>4. /\ x.line = lines[1] /\ x.r = Compare(lines[1], NoTag, "OK")
          /\ x.rest = After(lines, 1) \/ x.rest = <<RestOf(lines[1])>> \o After(lines, 1)
          /\ "never" \in {"never", "chat"} => x.rest = After(lines, 1)
      BY ONLY <3>1, <3>2, <3>3, ~x.failed, FirstLine, Zenon
    <3> QED
      BY <3>4
  <2>4. CASE x.r # 1 /\ SetUp(x, 1, {})
    <3>1. ~x.failed
      BY <1>2, <2>4
    <3>2. Len(lines) = 1
      BY <2>1, <2>3, <2>4, <3>1 DEF Refused, Compare
    <3>3. After(lines, 1) = <<>>
      BY <3>2 DEF After
    <3>4. x.rest = <<>> /\ Leave(x, "decide", 1, {})
      BY <2>3, <2>4, <3>1, <3>3 DEF SetUp
    <3> QED
      BY <1>3, <2>1, <3>4
  <2>5. ASSUME x.r = 1, NEW y \in Response(x.rest, NoTag, "list", "never"),
               \/ \E fs : SetUp(y, 1, fs)
               \/ Say(y, "STARTTLS", "starttls", tag)
               \/ SetUp(Broken(y), 1, {"STARTTLS"})
        PROVE  Bare'
    <3>1. ~x.failed
      <4>1. \/ /\ x.failed = TRUE /\ x.r = -1 /\ x.line = NoLine
               /\ \E i \in 0 .. Len(lines) : x.rest = After(lines, i)
            \/ /\ x.failed = FALSE
               /\ \E i \in 1 .. Len(lines) : EndedWith(x, lines, i, NoTag, "OK", "never")
        BY <1>1, ResponseOutcome, Zenon
      <4> QED
        BY <2>5, <4>1
    <3>2. Len(lines) = 2 /\ lines[2].tag = NoTag
      BY <2>1, <2>3, <2>5, <3>1 DEF Refused, Compare
    <3>3. 1 \in 0 .. Len(lines)
      BY <3>2
    <3>4. /\ After(lines, 1) \in Seq(Lines) /\ Len(After(lines, 1)) = Len(lines) - 1
          /\ \A k \in 1 .. Len(lines) - 1 : After(lines, 1)[k] = lines[1 + k]
      BY <1>1, <3>3, AfterProperties
    <3>5. x.rest \in Seq(Lines) /\ Len(x.rest) = 1 /\ x.rest[1].tag = NoTag
      BY <2>3, <3>1, <3>2, <3>4
    <3>6. ~y.failed => y.rest = <<>>
      <4> SUFFICES ASSUME ~y.failed PROVE y.rest = <<>>
        OBVIOUS
      <4>1. "never" \in {"never", "chat"} /\ x.rest[1].tag # Untagged
        BY <3>5 DEF NoTag, Untagged
      <4>2. Taken(y, x.rest, NoTag, "list")
        BY <1>1, <3>5, <4>1, WholeLine, Zenon
      <4> QED
        BY <4>2 DEF Taken
    <3>7. Broken(y).failed = TRUE
      BY BrokenProperties
    <3>8. CASE \E fs : SetUp(y, 1, fs)
      BY <1>2, <1>3, <2>1, <3>6, <3>8 DEF SetUp
    <3>9. CASE Say(y, "STARTTLS", "starttls", tag)
      BY <1>2, <1>5, <3>6, <3>9
    <3> QED
      BY <1>2, <2>5, <3>7, <3>8, <3>9
  <2> QED
    BY <2>4, <2>5
<1>10. CASE PopStls
  <2> PICK x \in Response(lines, NoTag, "OK", "never") : SetUp(x, 1, {"STARTTLS"})
    BY <1>10 DEF PopStls
  <2>1. pc \in Reading \ {"capability", "auth_capability"} /\ "never" \in {"never", "chat"}
        /\ proto = "POP3" /\ ~(pc = "greeting" /\ Imap) /\ ~x.failed
    BY <1>2, <1>10 DEF PopStls, Reading
  <2>2. Taken(x, lines, NoTag, "OK")
    BY <1>1, <2>1, ReadsWholeReply, Zenon
  <2> QED
    BY <1>3, <2>1, <2>2 DEF Taken, SetUp
<1>11. CASE SieveGreeting
  <2> PICK x \in Response(lines, NoTag, "OK", "never") :
         LET fs  == x.line.caps \ {"LOGINDISABLED"}
         IN \/ x.r < 1 /\ SetUp(x, x.r, {})
            \/ policy = "plain" /\ \E any : SetUp(x, 1, any)
            \/ "STARTTLS" \notin fs /\ SetUp(x, 1, fs)
            \/ SetUp(x, -1, {})
            \/ Say(x, "STARTTLS", "starttls", tag)
            \/ SetUp(Broken(x), -1, {})
    BY <1>11 DEF SieveGreeting
  <2>1. /\ pc \in Reading \ {"capability", "auth_capability"} /\ "never" \in {"never", "chat"}
        /\ proto = "MANAGESIEVE" /\ ~(pc = "greeting" /\ Imap) /\ Broken(x).failed = TRUE
    BY <1>11, BrokenProperties DEF SieveGreeting, Reading, Imap
  <2>2. ASSUME ~x.failed PROVE x.rest = <<>>
    <3>1. Taken(x, lines, NoTag, "OK")
      BY <1>1, <2>1, <2>2, ReadsWholeReply, Zenon
    <3> QED
      BY <3>1 DEF Taken
  <2>3. x.r \in {-1, 0, 1}
    BY <1>1, GoodRest
  <2>4. x.r < 1 => x.r \in {-1, 0}
    BY <2>3
  <2>5. CASE Say(x, "STARTTLS", "starttls", tag)
    BY <1>2, <1>5, <2>2, <2>5
  <2>6. CASE x.r < 1 /\ SetUp(x, x.r, {})
    BY <1>2, <1>3, <2>2, <2>4, <2>6 DEF SetUp
  <2>7. CASE policy = "plain" /\ \E any : SetUp(x, 1, any)
    BY <1>2, <1>3, <2>2, <2>7 DEF SetUp
  <2>8. ASSUME NEW fs, "STARTTLS" \notin fs, SetUp(x, 1, fs) PROVE Bare'
    BY <1>2, <1>3, <2>2, <2>8 DEF SetUp
  <2>9. CASE SetUp(x, -1, {})
    BY <1>2, <1>3, <2>2, <2>9 DEF SetUp
  <2> QED
    BY <1>2, <2>1, <2>5, <2>6, <2>7, <2>8, <2>9
<1>12. CASE SieveStartTls
  <2> PICK x \in Response(lines, NoTag, "OK", "never") :
         SetUp(x, x.r, IF x.r = 1 THEN flags ELSE {})
    BY <1>12 DEF SieveStartTls
  <2>1. /\ pc \in Reading \ {"capability", "auth_capability"} /\ "never" \in {"never", "chat"}
        /\ proto = "MANAGESIEVE" /\ ~(pc = "greeting" /\ Imap) /\ ~x.failed
        /\ pc = "starttls" /\ ~Imap
    BY <1>2, <1>12 DEF SieveStartTls, Reading, Imap
  <2>2. Taken(x, lines, NoTag, "OK")
    BY <1>1, <2>1, ReadsWholeReply, Zenon
  <2>3. x.r \in {-1, 0, 1}
    BY <1>1, GoodRest
  <2>4. x.r = 1 => agreed = "yes"
    BY <2>1, <2>2 DEF Taken, Compare, VerdictInv
  <2> QED
    BY <1>3, <2>2, <2>3, <2>4 DEF Taken, SetUp
<1> QED
  BY <1>6, <1>7, <1>8, <1>9, <1>10, <1>11, <1>12

\* main().
LEMMA MainBare ==
  ASSUME Base, Bare, ~trouble, ~chatty, Decide \/ Handshake PROVE Bare'
<1>1. CASE Decide
  <2>1. /\ pc = "decide" /\ status \in {-1, 0, 1} /\ io = "fd" /\ proto \in AllProtos
        /\ pc' = AfterSetup /\ policy \in AllPolicies
        /\ UNCHANGED <<proto, policy, chatty, io, tag, lines, cmd, srv, agreed, announced,
                       status, flags, trouble>>
    BY <1>1 DEF Decide, Base, TypeOK, PlaceInv, setting
  <2>2. /\ pc' \in {"refused", "exited", "handshake", "flush"}
        /\ pc' = "handshake" => status = 1 /\ policy # "plain" /\ "STARTTLS" \in flags
        /\ pc' = "flush" => status = 1 /\ ~(policy # "plain" /\ "STARTTLS" \in flags)
    BY <2>1 DEF AfterSetup
  <2>3. \/ lines = <<>>
        \/ status = -1
        \/ Imap /\ policy # "plain" /\ "STARTTLS" \in flags /\ status = 1 /\ AllRest
    BY <2>1 DEF Bare, PairInv
  <2>4. proto = "MANAGESIEVE" /\ pc' = "handshake" => agreed = "yes"
    BY <2>1, <2>2 DEF Bare, VerdictInv, Imap
  <2>5. PairInv'
    BY <2>1, <2>2, <2>3 DEF PairInv, Reading, AllRest, Imap
  <2>6. VerdictInv' /\ ObeyInv'
    BY <2>1, <2>2, <2>4 DEF VerdictInv, ObeyInv, Imap
  <2> QED
    BY <2>5, <2>6 DEF Bare
<1>2. CASE Handshake
  <2>1. /\ pc = "handshake" /\ AllRest /\ lines \in Seq(Lines) /\ proto \in AllProtos
        /\ UNCHANGED <<proto, policy, chatty, tag, cmd, agreed, status, flags, trouble>>
        /\ ~Imap => \A i \in 1 .. Len(lines) : lines[i].word # "rest"
    BY <1>2 DEF Handshake, setting, Bare, PairInv, Base, TypeOK, LinesInv, Good
  <2>2. CASE pc' = "exited" /\ UNCHANGED <<io, srv, announced, lines>>
    BY <2>1, <2>2 DEF Bare, PairInv, VerdictInv, ObeyInv, Reading
  <2>3. CASE /\ pc' = "flush" /\ io' = "ssl"
             /\ IF proto = "MANAGESIEVE"
                THEN \E caps \in SUBSET Caps :
                       announced' = caps /\ lines' = lines \o CapabilityReply(caps)
                ELSE UNCHANGED <<announced, lines>>
    <3>1. VerdictInv' /\ ObeyInv'
      BY <2>1, <2>3 DEF VerdictInv, ObeyInv, Imap
    <3>2. CASE proto = "MANAGESIEVE"
      <4>1. lines = <<>>
        <5>1. \A i \in 1 .. Len(lines) : FALSE
          BY <2>1, <3>2 DEF AllRest, Imap
        <5>2. Len(lines) \in Nat
          BY <2>1
        <5>3. Len(lines) = 0
          BY <5>1, <5>2
        <5> QED
          BY <2>1, <5>3
      <4>2. PICK caps \in SUBSET Caps : lines' = lines \o CapabilityReply(caps)
        BY <2>3, <3>2
      <4> DEFINE line == Line(NoTag, "OK", caps)
      <4>3. lines' = <<line>> /\ line.n = cmd'
        BY <3>2, <4>1, <4>2 DEF CapabilityReply, Line
      <4> HIDE DEF line
      <4>4. PairInv'
        BY <2>1, <2>3, <3>2, <4>3 DEF PairInv, Reading
      <4> QED
        BY <3>1, <4>4 DEF Bare
    <3>3. CASE proto # "MANAGESIEVE"
      <4>1. PairInv'
        BY <2>1, <2>3, <3>3 DEF PairInv, Reading, AllRest
      <4> QED
        BY <3>1, <4>1 DEF Bare
    <3> QED
      BY <3>2, <3>3
  <2> QED
    BY <1>2, <2>2, <2>3 DEF Handshake
<1> QED
  BY <1>1, <1>2

\* out_authenticate.
LEMMA AuthenticateBare ==
  ASSUME Base, Bare, ~trouble, ~chatty,
         \/ Authenticate \/ SieveAuthCapability \/ ImapAuthCapability \/ ImapLogin
         \/ ImapName \/ ImapPassword \/ PopUser \/ Verdict
  PROVE  Bare'
<1>1. /\ tag \in Nat /\ proto \in AllProtos /\ PairInv /\ VerdictInv /\ ObeyInv
      /\ lines \in Seq(Lines) /\ Good(lines) /\ NoTag \in Int /\ Cont \in Int /\ tag \in Int
      /\ pc \in {"user", "pass"} => proto = "POP3"
      /\ pc \in {"user", "pass", "authenticate"} => ~Imap
  BY DEF Base, Bare, TypeOK, LinesInv, Good, NoTag, Cont, ReadingOf, ImapReading, PopReading,
         SieveReading, Between, Over, AllProtos, Imap
<1>2. /\ "never" \in {"never", "chat"} /\ Copied \in {"never", "chat"}
      /\ \A x, v : Finish(x, v) => ~x.failed \/ trouble'
      /\ \A x, c, next, t : Say(x, c, next, t) => ~x.failed \/ trouble'
  BY DEF Copied, Finish, Leave, Say
<1>3. ASSUME NEW x, NEW v, Finish(x, v), ~Imap /\ v = 1 /\ ~x.failed => srv = "in"
      PROVE  Bare'
  <2>1. Leave(x, "done", v, flags)
    BY <1>3 DEF Finish
  <2> QED
    BY <1>3, <2>1, BareLeave DEF Bare
<1>4. ASSUME NEW x, NEW c, NEW next, NEW t \in {tag, tag + 1}, Say(x, c, next, t),
             ~x.failed => x.rest = <<>>,
             \/ c = "CAPABILITY" /\ next = "auth_capability" /\ Imap
             \/ c = "LOGIN" /\ next = "login" /\ "LOGINDISABLED" \notin announced
             \/ c = "name" /\ next = "name" /\ "LOGINDISABLED" \notin announced
             \/ c = "password" /\ next = "password" /\ "LOGINDISABLED" \notin announced
             \/ c = "USER" /\ next = "user"
             \/ c \in {"password", "AUTHENTICATE"} /\ next \in {"pass", "authenticate"}
      PROVE  Bare'
  <2>1. CASE x.rest = <<>>
    BY <1>4, <2>1, BareSay DEF Reading, Bare
  <2>2. CASE x.failed
    <3>1. trouble' /\ proto' = proto /\ pc' # "handshake"
      BY <1>4, <2>2 DEF Say, setting
    <3> QED
      BY <3>1 DEF Bare, PairInv, VerdictInv, ObeyInv
  <2> QED
    BY <1>4, <2>1, <2>2
<1>5. ASSUME NEW x, NEW fs, SievePlain(x, fs), ~x.failed => x.rest = <<>> PROVE Bare'
  <2>1. \/ Finish(x, 3)
        \/ Say(x, "AUTHENTICATE", "authenticate", tag)
        \/ Finish(Broken(x), -1)
    BY <1>5 DEF SievePlain
  <2> QED
    BY <1>3, <1>4, <1>5, <2>1
<1>6. ASSUME pc \in Reading \ {"capability", "auth_capability"}
               \/ (pc = "auth_capability" /\ proto = "MANAGESIEVE"),
             pc # "greeting", NEW t \in Int, NEW cut \in {"never", "chat"},
             NEW x \in Response(lines, t, "OK", cut), ~x.failed
      PROVE  x.rest = <<>> /\ x.r = Compare(lines[1], t, "OK")
  <2>1. pc = "greeting" /\ Imap => t = Untagged
    BY <1>6
  <2>2. Taken(x, lines, t, "OK")
    BY <1>1, <1>6, <2>1, ReadsWholeReply, Zenon
  <2> QED
    BY <2>2 DEF Taken
<1>7. CASE Authenticate
  <2> PICK ls \in AfterFlush :
         \/ Imap /\ Say(Pending(ls), "CAPABILITY", "auth_capability", tag)
         \/ Finish(Broken(Pending(ls)), -1)
         \/ proto = "POP3" /\ Say(Pending(ls), "USER", "user", tag)
         \/ /\ ReadsCapability
            /\ pc' = "auth_capability" /\ lines' = ls
            /\ UNCHANGED <<setting, status, flags, io, tag, cmd, srv, announced,
                           agreed, trouble>>
         \/ ~ReadsCapability /\ SievePlain(Pending(ls), flags)
    BY <1>7 DEF Authenticate
  <2>1. /\ pc = "flush" /\ Pending(ls).rest = ls
        /\ IF io = "fd" THEN lines = <<>>
           ELSE IF proto = "MANAGESIEVE" THEN Len(lines) = 1 /\ lines[1].n = cmd
           ELSE AllRest
    BY <1>1, <1>7, BrokenProperties DEF Authenticate, PairInv
  <2>2. ASSUME ~ReadsCapability PROVE ls = <<>>
    <3>1. CASE io = "fd"
      <4>1. PICK i \in 0 .. Len(lines) : ls = After(lines, i)
        BY <1>1, FlushProperties
      <4>2. lines = <<>> /\ i = 0
        BY <2>1, <3>1
      <4> QED
        BY <4>1, <4>2 DEF After
    <3>2. CASE io # "fd"
      <4>1. io = "ssl" /\ AllRest
        BY <2>1, <2>2, <3>2 DEF Base, TypeOK, ReadsCapability
      <4> QED
        BY <1>1, <4>1, FlushProperties DEF AllRest
    <3> QED
      BY <3>1, <3>2
  <2>3. CASE /\ ReadsCapability
             /\ pc' = "auth_capability" /\ lines' = ls
             /\ UNCHANGED <<setting, status, flags, io, tag, cmd, srv, announced,
                            agreed, trouble>>
    <3>1. io = "ssl" /\ proto = "MANAGESIEVE" /\ Len(lines) = 1 /\ lines[1].n = cmd
      BY <2>1, <2>3 DEF ReadsCapability
    <3>2. \A i \in 1 .. Len(lines) : lines[i].word # "rest"
      BY <1>1, <3>1 DEF Good, Imap
    <3>3. ls = lines
      BY <1>1, <3>1, <3>2, FlushProperties
    <3>4. /\ pc' = "auth_capability" /\ proto' = "MANAGESIEVE" /\ lines' = lines /\ cmd' = cmd
      BY <2>3, <3>1, <3>3 DEF setting
    <3>5. \A i \in DOMAIN lines' : lines'[i].n = cmd'
      BY <1>1, <3>1, <3>4
    <3> QED
      BY <3>1, <3>4, <3>5 DEF Bare, PairInv, VerdictInv, ObeyInv, Imap
  <2> QED
    BY <1>3, <1>4, <1>5, <2>1, <2>2, <2>3 DEF ReadsCapability, Imap
<1>8. CASE SieveAuthCapability
  <2> PICK x \in Response(lines, NoTag, "OK", "never") :
         \/ x.r < 1 /\ Finish(x, x.r)
         \/ SievePlain(x, x.line.caps)
    BY <1>8 DEF SieveAuthCapability
  <2>1. pc = "auth_capability" /\ proto = "MANAGESIEVE"
    BY <1>8 DEF SieveAuthCapability
  <2>2. ~x.failed => x.rest = <<>>
    BY <1>1, <1>2, <1>6, <2>1
  <2>3. x.r < 1 => x.r # 1
    OBVIOUS
  <2> QED
    BY <1>3, <1>5, <2>2, <2>3
<1>9. CASE ImapAuthCapability
  <2> PICK x \in Capability(RefusedBy, Copied) :
         \/ \E v : Finish(x, v) \/ Finish(Broken(x), v)
         \/ x.r = 0 /\ Say(x, "LOGIN", "login", tag + x.inc)
    BY <1>9 DEF ImapAuthCapability
  <2>1. Imap /\ (Refused \/ Listed(Untagged, "CAPABILITY", announced))
    BY <1>1, <1>9 DEF ImapAuthCapability, PairInv
  <2>2. ~x.failed => x.rest = <<>> /\ (x.r = 0 => RefusedBy \notin announced)
    BY <1>2, <2>1, BareCapability, Zenon
  <2>3. tag + x.inc \in {tag, tag + 1}
    BY <1>1, <2>1, GoodCapability
  <2>4. CASE x.r = 0 /\ Say(x, "LOGIN", "login", tag + x.inc)
    <3>1. CASE x.failed
      <4>1. trouble' /\ pc' = "login"
        BY <2>4, <3>1 DEF Say
      <4> QED
        BY <4>1 DEF Bare, PairInv, VerdictInv, ObeyInv
    <3>2. CASE ~x.failed
      BY <1>4, <2>2, <2>3, <2>4, <3>2 DEF RefusedBy
    <3> QED
      BY <3>1, <3>2
  <2> QED
    BY <1>3, <2>1, <2>4
<1>10. CASE ImapLogin \/ ImapName
  <2> PICK x \in Response(lines, Cont, "OK", Copied) :
         \/ Say(x, "name", "name", tag)
         \/ Say(x, "password", "password", tag)
         \/ Finish(Broken(x), -1)
    BY <1>10 DEF ImapLogin, ImapName, ImapLiteral
  <2>1. Imap /\ pc \in {"login", "name"} /\ "LOGINDISABLED" \notin announced
    BY <1>1, <1>10 DEF ImapLogin, ImapName, ImapLiteral, ObeyInv
  <2>2. ~x.failed => x.rest = <<>>
    BY <1>1, <1>2, <1>6, <2>1 DEF Reading
  <2> QED
    BY <1>3, <1>4, <2>1, <2>2
<1>11. CASE ImapPassword
  <2> PICK x \in Response(lines, tag, "OK", Copied) : Finish(x, x.r)
    BY <1>11 DEF ImapPassword
  <2>1. Imap
    BY <1>11 DEF ImapPassword
  <2> QED
    BY <1>3, <2>1
<1>12. CASE PopUser
  <2> PICK x \in Response(lines, NoTag, "OK", "never") :
         \/ x.r < 1 /\ Finish(x, x.r)
         \/ Say(x, "password", "pass", tag)
         \/ Finish(Broken(x), -1)
    BY <1>12 DEF PopUser
  <2>1. pc = "user"
    BY <1>12 DEF PopUser
  <2>2. ~x.failed => x.rest = <<>>
    BY <1>1, <1>2, <1>6, <2>1 DEF Reading
  <2>3. x.r < 1 => x.r # 1
    OBVIOUS
  <2> QED
    BY <1>3, <1>4, <2>2, <2>3
<1>13. CASE Verdict
  <2> PICK x \in Response(lines, NoTag, "OK", "never") : Finish(x, x.r)
    BY <1>13 DEF Verdict
  <2>1. pc \in {"pass", "authenticate"} /\ ~Imap
    BY <1>1, <1>13 DEF Verdict
  <2>2. ~x.failed => x.r = Compare(lines[1], NoTag, "OK")
    BY <1>1, <1>2, <1>6, <2>1 DEF Reading
  <2>3. x.r = 1 /\ ~x.failed => srv = "in"
    BY <1>1, <2>1, <2>2 DEF Compare, VerdictInv
  <2> QED
    BY <1>3, <2>3
<1> QED
  BY <1>7, <1>8, <1>9, <1>10, <1>11, <1>12, <1>13

\* What holds with a server that sends no lines of its own stays true.
LEMMA BareInductive == Base /\ Bare /\ [Next]_vars => Bare'
<1>1. ASSUME Base, Bare, UNCHANGED vars PROVE Bare'
  BY <1>1 DEF vars, Bare, PairInv, VerdictInv, ObeyInv, Reading, Refused, Listed, Tag, Imap,
              AllRest
<1>2. ASSUME Base, Bare, Next, ~trouble', ~chatty PROVE Bare'
  <2>1. ~trouble
    BY <1>2, Frame
  <2> QED
    BY <1>1, <1>2, <2>1, SetupBare, MainBare, AuthenticateBare DEF Next, Ended
<1>3. ASSUME Base, Next, trouble' \/ chatty PROVE Bare'
  <2>1. chatty => Imap
    BY <1>3 DEF Base, LinesInv
  <2>2. trouble' \/ (chatty' /\ Imap')
    BY <1>3, <2>1, Frame DEF Imap
  <2> QED
    BY <2>2 DEF Bare, PairInv, VerdictInv, ObeyInv
<1> QED
  BY <1>1, <1>2, <1>3

-----------------------------------------------------------------------------
(* IMAP4, also with a server that sends lines of its own.                  *)

\* the untagged lines are such lines and lists of capabilities
Polite(ls) ==
  \A i \in DOMAIN ls : ls[i].tag = Untagged => ls[i].word \in {"chat", "CAPABILITY"}

NoChat(ls) == \A i \in DOMAIN ls : ls[i].word # "chat"

NoOK(ls) == \A i \in DOMAIN ls : ~IsOK(ls[i])

\* rest is what comes after line i of ls, perhaps with the rest of that line
Left(rest, ls, i) ==
  /\ rest \in Seq(Lines)
  /\ i = Len(ls) => Len(rest) <= 1
  /\ \A k \in 1 .. Len(rest) :
       \/ rest[k] = RestOf(ls[i])
       \/ \E j \in 1 .. Len(ls) : j > i /\ rest[k] = ls[j]

\* What a wait that does not fail leaves.
LEMMA WaitLeaves ==
  ASSUME NEW ls \in Seq(Lines), NEW t \in Int, NEW word, NEW cut,
         NEW x \in Response(ls, t, word, cut), ~x.failed
  PROVE  \E i \in 1 .. Len(ls) : EndedWith(x, ls, i, t, word, cut) /\ Left(x.rest, ls, i)
<1>1. \/ /\ x.failed = TRUE /\ x.r = -1 /\ x.line = NoLine
         /\ \E i \in 0 .. Len(ls) : x.rest = After(ls, i)
      \/ x.failed = FALSE /\ \E i \in 1 .. Len(ls) : EndedWith(x, ls, i, t, word, cut)
  BY ResponseOutcome, Zenon
<1>2. PICK i \in 1 .. Len(ls) : EndedWith(x, ls, i, t, word, cut)
  BY <1>1
<1>3. Len(ls) \in Nat /\ i \in 0 .. Len(ls) /\ ls[i] \in Lines
  OBVIOUS
<1>4. /\ After(ls, i) \in Seq(Lines) /\ Len(After(ls, i)) = Len(ls) - i
      /\ \A k \in 1 .. Len(ls) - i : After(ls, i)[k] = ls[i + k]
  BY <1>3, AfterProperties
<1>5. CASE x.rest = After(ls, i)
  <2>1. ASSUME NEW k \in 1 .. Len(x.rest)
        PROVE  \E j \in 1 .. Len(ls) : j > i /\ x.rest[k] = ls[j]
    <3>1. i + k \in 1 .. Len(ls) /\ i + k > i /\ x.rest[k] = ls[i + k]
      BY <1>3, <1>4, <1>5
    <3> QED
      BY <3>1
  <2>2. Left(x.rest, ls, i)
    BY <1>3, <1>4, <1>5, <2>1 DEF Left
  <2> QED
    BY <1>2, <2>2
<1>6. CASE x.rest = <<RestOf(ls[i])>> \o After(ls, i)
  <2> DEFINE a == After(ls, i)
             r == RestOf(ls[i])
  <2>1. a \in Seq(Lines) /\ r \in Lines /\ x.rest = <<r>> \o a
    BY <1>3, <1>4, <1>6, RestProperties
  <2>2. Len(a) = Len(ls) - i /\ \A k \in 1 .. Len(ls) - i : a[k] = ls[i + k]
    BY <1>4
  <2> HIDE DEF a, r
  <2>3. /\ x.rest \in Seq(Lines) /\ Len(x.rest) = Len(a) + 1
        /\ x.rest[1] = r /\ \A k \in 2 .. Len(x.rest) : x.rest[k] = a[k - 1]
    BY <2>1
  <2>4. ASSUME NEW k \in 1 .. Len(x.rest)
        PROVE  x.rest[k] = r \/ \E j \in 1 .. Len(ls) : j > i /\ x.rest[k] = ls[j]
    <3>1. CASE k = 1
      BY <2>3, <3>1
    <3>2. CASE k # 1
      <4>1. /\ k \in 2 .. Len(x.rest) /\ k - 1 \in 1 .. Len(ls) - i
            /\ i + (k - 1) \in 1 .. Len(ls) /\ i + (k - 1) > i
        BY <1>3, <2>2, <2>3, <3>2, SMTT(30)
      <4> QED
        BY <2>2, <2>3, <4>1
    <3> QED
      BY <3>1, <3>2
  <2>5. Left(x.rest, ls, i)
    BY <1>3, <2>2, <2>3, <2>4 DEF Left, r
  <2> QED
    BY <1>2, <2>5
<1> QED
  BY <1>2, <1>5, <1>6 DEF EndedWith

\* It is polite if the lines were, and has no OK that was not there.
LEMMA LeftProperties ==
  ASSUME tag \in Nat, NEW ls \in Seq(Lines), NEW i \in 1 .. Len(ls), NEW rest, Left(rest, ls, i)
  PROVE  /\ Polite(ls) => Polite(rest)
         /\ NoOK(ls) => NoOK(rest)
         /\ i = Len(ls) => /\ Len(rest) <= 1 /\ NoChat(rest)
                           /\ \A k \in 1 .. Len(rest) : rest[k].tag = NotATag
<1>1. /\ RestOf(ls[i]).tag = NotATag /\ RestOf(ls[i]).word = "rest"
      /\ NotATag # Untagged /\ NotATag # tag /\ rest \in Seq(Lines) /\ Len(ls) \in Nat
  BY RestProperties DEF NotATag, Untagged, Left
<1>2. \A k \in 1 .. Len(rest) :
        rest[k] = RestOf(ls[i]) \/ \E j \in 1 .. Len(ls) : j > i /\ rest[k] = ls[j]
  BY DEF Left
<1>3. Polite(ls) => Polite(rest)
  BY <1>1, <1>2 DEF Polite
<1>4. NoOK(ls) => NoOK(rest)
  BY <1>1, <1>2 DEF NoOK, IsOK
<1>5. ASSUME i = Len(ls)
      PROVE  /\ Len(rest) <= 1 /\ NoChat(rest)
             /\ \A k \in 1 .. Len(rest) : rest[k].tag = NotATag
  <2>1. \A k \in 1 .. Len(rest) : rest[k] = RestOf(ls[i])
    BY <1>1, <1>2, <1>5
  <2> QED
    BY <1>1, <1>5, <2>1 DEF Left, NoChat
<1> QED
  BY <1>3, <1>4, <1>5

\* a, then b
Follows(ls, a, b) ==
  /\ Len(ls) = Len(a) + Len(b)
  /\ \A k \in 1 .. Len(a) : ls[k] = a[k]
  /\ \A k \in 1 .. Len(ls) :
       \/ k \in 1 .. Len(a) /\ ls[k] = a[k]
       \/ k > Len(a) /\ k - Len(a) \in 1 .. Len(b) /\ ls[k] = b[k - Len(a)]

LEMMA FollowsProperties ==
  ASSUME NEW a \in Seq(Lines), NEW b \in Seq(Lines)
  PROVE  a \o b \in Seq(Lines) /\ Follows(a \o b, a, b)
<1>1. /\ a \o b \in Seq(Lines) /\ Len(a \o b) = Len(a) + Len(b)
      /\ Len(a) \in Nat /\ Len(b) \in Nat
      /\ \A k \in 1 .. Len(a) + Len(b) :
           (a \o b)[k] = IF k <= Len(a) THEN a[k] ELSE b[k - Len(a)]
  OBVIOUS
<1> QED
  BY <1>1 DEF Follows

LEMMA ZeroOrOne ==
  ASSUME NEW n \in Nat, n <= 1 PROVE n = 0 \/ n = 1
  OBVIOUS

\* What holds after a command was written.
LEMMA TagSay ==
  ASSUME Base, Imap, NEW x, Good(x.rest), Polite(x.rest), NEW c, NEW next,
         NEW t \in {tag, tag + 1}, Say(x, c, next, t),
         \/ next = "capability" /\ c = "CAPABILITY" /\ x.rest = <<>>
         \/ /\ next = "starttls" /\ Len(x.rest) <= 1
            /\ \A k \in 1 .. Len(x.rest) : x.rest[k].tag = NotATag
         \/ next = "auth_capability" /\ c = "CAPABILITY" /\ NoChat(x.rest)
         \/ next = "login" /\ c = "LOGIN" /\ (t = tag + 1 \/ OKFirst(x.rest))
         \/ next = "name" /\ c = "name" /\ t = tag /\ NoOK(x.rest)
         \/ next = "password" /\ c = "password" /\ t = tag /\ NoOK(x.rest)
  PROVE  TagInv'
<1>1. /\ tag' = t /\ tag \in Nat /\ t \in Nat /\ cmd \in Nat /\ pc' = next /\ proto' = proto
      /\ proto \in AllProtos /\ x.rest \in Seq(Lines) /\ proto = "IMAP4"
  BY DEF Base, TypeOK, Say, setting, Good, Imap
<1>2. PICK sent \in Seq(Lines) :
        /\ lines' = x.rest \o sent /\ Sends(c, sent)
        /\ Imap /\ c = "CAPABILITY" => SendsList(sent)
  BY <1>1, SayOutcome, Zenon
<1>3. Follows(lines', x.rest, sent) /\ lines' \in Seq(Lines)
  BY <1>1, <1>2, FollowsProperties
<1>4. /\ Len(sent) \in Nat /\ Len(sent) > 0 /\ sent[Len(sent)].tag # Untagged
      /\ Len(x.rest) \in Nat /\ Len(lines') = Len(x.rest) + Len(sent)
      /\ DOMAIN lines' = 1 .. Len(lines') /\ DOMAIN x.rest = 1 .. Len(x.rest)
  BY <1>1, <1>2, <1>3 DEF Sends, Follows
<1>5. ASSUME NEW k \in 1 .. Len(sent)
      PROVE  /\ k < Len(sent) => /\ sent[k].tag = Untagged
                                 /\ sent[k].word \in {"chat", "CAPABILITY"}
             /\ sent[k].word = "OK" => /\ c \notin {"LOGIN", "name"}
                                       /\ c = "password" => srv' = "in"
  BY <1>2 DEF Sends
<1>6. ASSUME x.rest = <<>>
      PROVE  lines' = sent /\ \A k \in 1 .. Len(lines') - 1 : lines'[k].tag = Untagged
  <2>1. lines' = sent
    BY <1>2, <1>6, ConcatEmptySeq
  <2> QED
    BY <1>4, <1>5, <2>1
<1>7. Polite(lines')
  <2>1. ASSUME NEW k \in 1 .. Len(sent), sent[k].tag = Untagged
        PROVE  sent[k].word \in {"chat", "CAPABILITY"}
    BY <1>4, <1>5, <2>1
  <2>2. ASSUME NEW k \in 1 .. Len(lines'), lines'[k].tag = Untagged
        PROVE  lines'[k].word \in {"chat", "CAPABILITY"}
    BY <1>3, <1>4, <2>1, <2>2 DEF Follows, Polite
  <2> QED
    BY <1>4, <2>2 DEF Polite
<1>8. CASE next = "capability" /\ c = "CAPABILITY" /\ x.rest = <<>>
  <2>1. Fresh(lines)'
    BY <1>1, <1>2, <1>4, <1>6, <1>8 DEF SendsList, Fresh
  <2> QED
    BY <1>1, <1>7, <1>8, <2>1 DEF TagInv, Polite, Between
<1>9. CASE /\ next = "starttls" /\ Len(x.rest) <= 1
           /\ \A k \in 1 .. Len(x.rest) : x.rest[k].tag = NotATag
  <2>1. CASE Len(x.rest) = 0
    <3>1. x.rest = <<>>
      BY <1>1, <2>1
    <3> QED
      BY <1>1, <1>6, <1>7, <1>9, <3>1 DEF TagInv, Polite, Between
  <2>2. CASE Len(x.rest) = 1
    <3>1. lines'[1].tag = NotATag
      BY <1>3, <1>9, <2>2 DEF Follows
    <3> QED
      BY <1>1, <1>7, <1>9, <3>1 DEF TagInv, Polite, Between
  <2>3. Len(x.rest) \in Nat /\ Len(x.rest) <= 1
    BY <1>4, <1>9
  <2>4. Len(x.rest) = 0 \/ Len(x.rest) = 1
    BY <2>3, ZeroOrOne
  <2> QED
    BY <2>1, <2>2, <2>4
<1>10. CASE next = "auth_capability" /\ c = "CAPABILITY" /\ NoChat(x.rest)
  <2>1. ASSUME lines'[1].word = "chat" PROVE OKFirst(lines)'
    <3>1. ASSUME Len(x.rest) > 0 PROVE FALSE
      <4>1. 1 \in 1 .. Len(x.rest)
        BY <1>4, <3>1
      <4>2. lines'[1] = x.rest[1] /\ x.rest[1].word # "chat"
        BY <1>3, <1>4, <1>10, <4>1 DEF Follows, NoChat
      <4> QED
        BY <2>1, <4>2
    <3>2. x.rest = <<>>
      BY <1>1, <1>4, <3>1
    <3>3. \A k \in 1 .. Len(lines') - 1 : lines'[k].tag = Untagged
      BY <1>6, <3>2
    <3> QED
      BY <1>4, <3>3 DEF OKFirst
  <2> QED
    BY <1>1, <1>7, <1>10, <2>1 DEF TagInv, Polite, Between
<1>11. CASE next = "login" /\ c = "LOGIN" /\ (t = tag + 1 \/ OKFirst(x.rest))
  <2>1. ASSUME NEW k \in 1 .. Len(lines'), IsOK(lines[k])'
        PROVE  k \in 1 .. Len(x.rest) /\ lines'[k] = x.rest[k] /\ t = tag
    <3>1. lines'[k].word = "OK" /\ lines'[k].tag = t
      BY <1>1, <2>1 DEF IsOK
    <3>2. k \in 1 .. Len(x.rest) /\ lines'[k] = x.rest[k]
      BY <1>3, <1>5, <1>11, <3>1 DEF Follows
    <3>3. x.rest[k].tag <= tag
      BY <3>2 DEF Good
    <3> QED
      BY <1>1, <3>1, <3>2, <3>3
  <2>2. ASSUME NEW k \in 1 .. Len(lines'), IsOK(lines[k])', NEW j \in 1 .. k - 1
        PROVE  lines'[j].tag = Untagged
    <3>1. k \in 1 .. Len(x.rest) /\ lines'[k] = x.rest[k] /\ t = tag
      BY <2>1, <2>2
    <3>2. IsOK(x.rest[k])
      BY <1>1, <2>2, <3>1 DEF IsOK
    <3>3. OKFirst(x.rest)
      BY <1>1, <1>11, <3>1
    <3>4. x.rest[j].tag = Untagged
      BY <1>4, <3>1, <3>2, <3>3 DEF OKFirst
    <3>5. j \in 1 .. Len(x.rest)
      BY <1>4, <2>2, <3>1
    <3> QED
      BY <1>3, <3>4, <3>5 DEF Follows
  <2>3. OKFirst(lines)'
    BY <1>4, <2>2 DEF OKFirst
  <2> QED
    BY <1>1, <1>7, <1>11, <2>3 DEF TagInv, Polite, Between
<1>12. CASE /\ t = tag /\ NoOK(x.rest)
            /\ (next = "name" /\ c = "name") \/ (next = "password" /\ c = "password")
  <2>1. ASSUME NEW k \in 1 .. Len(lines'), IsOK(lines[k])'
        PROVE  c = "password" /\ srv' = "in"
    <3>1. lines'[k].word = "OK" /\ lines'[k].tag = tag
      BY <1>1, <1>12, <2>1 DEF IsOK
    <3>2. ~(k \in 1 .. Len(x.rest) /\ lines'[k] = x.rest[k])
      BY <1>4, <1>12, <3>1 DEF NoOK, IsOK
    <3>3. k - Len(x.rest) \in 1 .. Len(sent) /\ lines'[k] = sent[k - Len(x.rest)]
      BY <1>3, <3>2 DEF Follows
    <3> QED
      BY <1>5, <1>12, <3>1, <3>3
  <2> QED
    BY <1>1, <1>4, <1>7, <1>12, <2>1 DEF TagInv, Polite, Between
<1> QED
  BY <1>8, <1>9, <1>10, <1>11, <1>12

\* What holds after a method has returned.
LEMMA TagLeave ==
  ASSUME NEW x, NEW next \in {"decide", "done"}, NEW v, NEW fs, Leave(x, next, v, fs),
         ~x.failed /\ ~trouble /\ Imap /\ next = "decide" =>
           Polite(x.rest) /\ (v = 1 => NoChat(x.rest)),
         ~x.failed /\ ~trouble /\ Imap /\ next = "done" /\ v = 1 => srv = "in"
  PROVE  TagInv'
<1>1. /\ pc' = next /\ status' = v /\ lines' = x.rest /\ proto' = proto /\ srv' = srv
      /\ ~trouble' => ~trouble /\ ~x.failed
  BY DEF Leave, setting
<1> QED
  BY <1>1 DEF TagInv, Polite, NoChat, Between, Imap

\* What imap4_out_get_capability() leaves of a reply that comes after nothing else.
LEMMA FreshCapability ==
  ASSUME Base, Imap, Fresh(lines), Polite(lines), NEW cap, NEW x \in Capability(cap, "chat"),
         ~x.failed
  PROVE  /\ Polite(x.rest) /\ NoChat(x.rest)
         /\ x.r = 1 => /\ Len(x.rest) <= 1
                       /\ \A k \in 1 .. Len(x.rest) : x.rest[k].tag = NotATag
<1>1. /\ lines \in Seq(Lines) /\ Len(lines) \in Nat /\ Len(lines) > 0 /\ tag \in Nat
      /\ tag \in Int /\ Untagged \in Int /\ tag # Untagged
      /\ lines[Len(lines)].tag = tag
      /\ \A i \in 1 .. Len(lines) - 1 : lines[i].tag = Untagged
  BY DEF Base, LinesInv, Good, Fresh, TypeOK, Untagged
<1>2. PICK y \in Response(lines, Untagged, "CAPABILITY", "never") :
        \/ y.r < 1 /\ x = [r |-> y.r, rest |-> y.rest, failed |-> y.failed, inc |-> 0]
        \/ ~(y.r < 1) /\ \E z \in Response(y.rest, tag, "OK", "chat") :
             x = [r |-> IF z.r < 0 \/ cap \in y.line.caps THEN 1 ELSE 0,
                  rest |-> z.rest, failed |-> z.failed,
                  inc |-> IF z.r < 0 THEN 0 ELSE 1]
  BY DEF Capability
<1>3. ~y.failed => y.r = Compare(lines[1], Untagged, "CAPABILITY") /\ y.rest = After(lines, 1)
  <2> SUFFICES ASSUME ~y.failed
               PROVE  y.r = Compare(lines[1], Untagged, "CAPABILITY") /\ y.rest = After(lines, 1)
    OBVIOUS
  <2>1. lines \in Seq(Lines) /\ Len(lines) > 0 /\ Untagged \in Int
    BY <1>1
  <2>2. /\ y.line = lines[1] /\ y.r = Compare(lines[1], Untagged, "CAPABILITY")
        /\ y.rest = After(lines, 1) \/ y.rest = <<RestOf(lines[1])>> \o After(lines, 1)
        /\ "never" \in {"never", "chat"} => y.rest = After(lines, 1)
    BY <2>1, FirstLine, Zenon
  <2> QED
    BY <2>2
<1>4. y.failed => y.r = -1
  <2>1. \/ /\ y.failed = TRUE /\ y.r = -1 /\ y.line = NoLine
           /\ \E i \in 0 .. Len(lines) : y.rest = After(lines, i)
        \/ /\ y.failed = FALSE
           /\ \E i \in 1 .. Len(lines) : EndedWith(y, lines, i, Untagged, "CAPABILITY", "never")
    BY <1>1, ResponseOutcome, Zenon
  <2> QED
    BY <2>1
<1>5. /\ After(lines, 1) \in Seq(Lines) /\ Len(After(lines, 1)) = Len(lines) - 1
      /\ \A k \in 1 .. Len(lines) - 1 : After(lines, 1)[k] = lines[1 + k]
  <2>1. 1 \in 0 .. Len(lines)
    BY <1>1
  <2> QED
    BY <1>1, <2>1, AfterProperties
<1>6. Polite(After(lines, 1))
  <2>1. ASSUME NEW k \in 1 .. Len(lines) - 1
        PROVE  lines[1 + k].tag = Untagged => lines[1 + k].word \in {"chat", "CAPABILITY"}
    <3>1. 1 + k \in DOMAIN lines
      BY <1>1
    <3> QED
      BY <3>1 DEF Polite
  <2>2. DOMAIN After(lines, 1) = 1 .. Len(lines) - 1
    BY <1>5
  <2> QED
    BY <1>5, <2>1, <2>2 DEF Polite
<1>7. CASE y.r < 1 /\ x = [r |-> y.r, rest |-> y.rest, failed |-> y.failed, inc |-> 0]
  <2>1. ~y.failed /\ x.r = y.r /\ x.rest = After(lines, 1) /\ y.r # 1
    BY <1>3, <1>7
  <2>2. CASE lines[1].tag # Untagged
    <3>1. ~(1 \in 1 .. Len(lines) - 1)
      BY <1>1, <2>2
    <3>2. Len(lines) <= 1 /\ Len(lines) # 0
      BY <1>1, <3>1
    <3>3. Len(lines) = 1
      BY <1>1, <3>2, ZeroOrOne
    <3>4. Len(x.rest) = 0 /\ x.rest \in Seq(Lines)
      BY <1>5, <2>1, <3>3
    <3> QED
      BY <1>6, <2>1, <3>4 DEF NoChat
  <2>3. CASE lines[1].tag = Untagged
    <3>1. lines[1].word = "chat"
      BY <1>1, <1>3, <2>1, <2>3 DEF Compare, Polite
    <3>2. NoChat(x.rest)
      BY <1>1, <1>5, <2>1, <3>1 DEF Fresh, NoChat
    <3> QED
      BY <1>6, <2>1, <3>2
  <2> QED
    BY <2>2, <2>3
<1>8. ASSUME ~(y.r < 1), NEW z \in Response(y.rest, tag, "OK", "chat"),
             x.rest = z.rest, x.failed = z.failed
      PROVE  /\ Polite(x.rest) /\ NoChat(x.rest) /\ Len(x.rest) <= 1
             /\ \A k \in 1 .. Len(x.rest) : x.rest[k].tag = NotATag
  <2>1. ~y.failed /\ ~z.failed /\ y.rest = After(lines, 1)
    BY <1>3, <1>4, <1>8
  <2> DEFINE ls == After(lines, 1)
  <2>2. z \in Response(ls, tag, "OK", "chat") /\ ls \in Seq(Lines)
    BY <1>5, <1>8, <2>1
  <2>3. /\ Len(ls) \in Nat /\ Polite(ls)
        /\ \A i \in 1 .. Len(ls) - 1 : ls[i].tag = Untagged
    BY <1>1, <1>5, <1>6
  <2> HIDE DEF ls
  <2>4. PICK i \in 1 .. Len(ls) : EndedWith(z, ls, i, tag, "OK", "chat") /\ Left(z.rest, ls, i)
    BY <1>1, <2>1, <2>2, WaitLeaves, Zenon
  <2>5. i = Len(ls)
    BY <1>1, <2>3, <2>4 DEF EndedWith
  <2> QED
    BY <1>1, <1>8, <2>2, <2>3, <2>4, <2>5, LeftProperties
<1> QED
  BY <1>2, <1>7, <1>8

\* What it leaves in out_authenticate, when LOGIN is sent: if another line came
\* first, the tag of CAPABILITY is used again, but its OK will be read before.
LEMMA AuthCapability ==
  ASSUME Base, Imap, Polite(lines), lines[1].word = "chat" => OKFirst(lines), NEW cap,
         NEW cut \in {"never", "chat"}, NEW x \in Capability(cap, cut), ~x.failed, x.r = 0
  PROVE  Polite(x.rest) /\ (x.inc = 1 \/ (x.inc = 0 /\ OKFirst(x.rest)))
<1>1. /\ lines \in Seq(Lines) /\ Len(lines) \in Nat /\ tag \in Nat /\ Good(lines)
      /\ tag \in Int /\ Untagged \in Int /\ tag # Untagged
  BY DEF Base, LinesInv, Good, TypeOK, Untagged
<1>2. PICK y \in Response(lines, Untagged, "CAPABILITY", "never") :
        \/ y.r < 1 /\ x = [r |-> y.r, rest |-> y.rest, failed |-> y.failed, inc |-> 0]
        \/ ~(y.r < 1) /\ \E z \in Response(y.rest, tag, "OK", cut) :
             x = [r |-> IF z.r < 0 \/ cap \in y.line.caps THEN 1 ELSE 0,
                  rest |-> z.rest, failed |-> z.failed,
                  inc |-> IF z.r < 0 THEN 0 ELSE 1]
  BY DEF Capability
<1>3. y.failed => y.r = -1
  <2>1. \/ /\ y.failed = TRUE /\ y.r = -1 /\ y.line = NoLine
           /\ \E i \in 0 .. Len(lines) : y.rest = After(lines, i)
        \/ /\ y.failed = FALSE
           /\ \E i \in 1 .. Len(lines) : EndedWith(y, lines, i, Untagged, "CAPABILITY", "never")
    BY <1>1, ResponseOutcome, Zenon
  <2> QED
    BY <2>1
<1>4. ~y.failed
  BY <1>2, <1>3
<1>5. PICK i \in 1 .. Len(lines) : /\ EndedWith(y, lines, i, Untagged, "CAPABILITY", "never")
                                   /\ Left(y.rest, lines, i)
  BY <1>1, <1>4, WaitLeaves, Zenon
<1>6. y.rest \in Seq(Lines) /\ Polite(y.rest)
  <2>1. Polite(lines) => Polite(y.rest)
    BY <1>1, <1>5, LeftProperties, Zenon
  <2> QED
    BY <1>5, <2>1 DEF Left
<1>7. CASE y.r < 1 /\ x = [r |-> y.r, rest |-> y.rest, failed |-> y.failed, inc |-> 0]
  <2>1. y.r = 0 /\ x.rest = y.rest /\ x.inc = 0
    BY <1>7
  <2>2. i = 1
    BY <1>1, <1>5 DEF EndedWith
  <2>3. y.r = Compare(lines[1], Untagged, "CAPABILITY") /\ y.rest = After(lines, 1)
    BY <1>5, <2>2 DEF EndedWith
  <2>4. lines[1].word = "chat"
    BY <1>1, <2>1, <2>2, <2>3 DEF Compare, Polite
  <2>5. /\ Len(y.rest) = Len(lines) - 1
        /\ \A k \in 1 .. Len(lines) - 1 : y.rest[k] = lines[1 + k]
    <3>1. 1 \in 0 .. Len(lines)
      BY <1>1
    <3> QED
      BY <1>1, <2>3, <3>1, AfterProperties
  <2>6. ASSUME NEW k \in 1 .. Len(y.rest), IsOK(y.rest[k]), NEW j \in 1 .. k - 1
        PROVE  y.rest[j].tag = Untagged
    <3>1. k \in 1 .. Len(lines) - 1 /\ j \in 1 .. Len(lines) - 1
      BY <1>1, <2>5, <2>6
    <3>2. y.rest[k] = lines[1 + k] /\ y.rest[j] = lines[1 + j]
      BY <2>5, <3>1
    <3>3. 1 + k \in DOMAIN lines /\ 1 + j \in 1 .. (1 + k) - 1
      BY <1>1, <2>6, <3>1
    <3>4. IsOK(lines[1 + k]) /\ OKFirst(lines)
      BY <2>4, <2>6, <3>2
    <3>5. lines[1 + j].tag = Untagged
      BY <3>3, <3>4, Zenon DEF OKFirst
    <3> QED
      BY <3>2, <3>5
  <2>7. OKFirst(y.rest)
    BY <1>6, <2>6 DEF OKFirst
  <2> QED
    BY <1>6, <2>1, <2>7
<1>8. ASSUME NEW z \in Response(y.rest, tag, "OK", cut),
             x = [r |-> IF z.r < 0 \/ cap \in y.line.caps THEN 1 ELSE 0,
                  rest |-> z.rest, failed |-> z.failed,
                  inc |-> IF z.r < 0 THEN 0 ELSE 1]
      PROVE  Polite(x.rest) /\ x.inc = 1
  <2>1. ~z.failed /\ x.rest = z.rest /\ x.inc = 1
    BY <1>8
  <2>2. PICK j \in 1 .. Len(y.rest) :
          EndedWith(z, y.rest, j, tag, "OK", cut) /\ Left(z.rest, y.rest, j)
    BY <1>1, <1>6, <1>8, <2>1, WaitLeaves, Zenon
  <2> QED
    BY <1>1, <1>6, <2>1, <2>2, LeftProperties
<1> QED
  BY <1>2, <1>7, <1>8

\* What TagInv says of the places.
LEMMA TagPlaces ==
  ASSUME Base, TagInv, Imap, ~trouble
  PROVE  /\ pc \notin {"greeting", "exited", "refused", "done"} => Polite(lines)
         /\ pc = "capability" => Fresh(lines)
         /\ pc \in Between /\ (pc = "decide" => status = 1) => NoChat(lines)
         /\ pc = "auth_capability" /\ lines[1].word = "chat" => OKFirst(lines)
         /\ pc = "login" => OKFirst(lines)
         /\ pc = "name" => NoOK(lines)
  BY DEF TagInv, Polite, NoChat, NoOK

\* out_setup.
LEMMA SetupTag ==
  ASSUME Base, TagInv, Imap, ~trouble, ~trouble', Greeting \/ ImapCapability \/ ImapStartTls
  PROVE  TagInv'
<1>1. /\ tag \in Nat /\ tag \in Int /\ Untagged \in Int /\ tag # Untagged /\ Good(lines)
      /\ lines \in Seq(Lines) /\ Len(lines) \in Nat
  BY DEF Base, TypeOK, LinesInv, Good, Untagged
<1>2. \* a write that fails
      /\ \A x, v, fs : SetUp(x, v, fs) \/ Strcmp(x) => ~x.failed
      /\ \A x, next, v, fs : Leave(x, next, v, fs) => ~x.failed
      /\ \A x, c, next, t : Say(x, c, next, t) => ~x.failed
  BY DEF SetUp, Strcmp, Leave, Say
<1>3. ASSUME NEW x, NEW v, NEW fs, Leave(x, "decide", v, fs), Polite(x.rest),
             v = 1 => NoChat(x.rest)
      PROVE  TagInv'
  BY <1>3, TagLeave
<1>4. ASSUME NEW x, Strcmp(x), Polite(x.rest), NoChat(x.rest) PROVE TagInv'
  BY <1>3, <1>4 DEF Strcmp, SetUp
<1>5. CASE Greeting
  <2> PICK x \in Response(lines, Untagged, "OK", "never") :
         \/ \E v : SetUp(x, v, {})
         \/ Say(x, "CAPABILITY", "capability", tag)
         \/ Strcmp(Broken(x))
    BY <1>5 DEF Greeting, Imap
  <2>1. pc = "greeting" /\ Broken(x).failed = TRUE
    BY <1>5, BrokenProperties DEF Greeting
  <2>2. ~x.failed
    BY <1>2, <2>1
  <2>3. Len(lines) = 1
    BY <2>1 DEF Base, PlaceInv
  <2>4. x.rest = <<>>
    <3>1. PICK i \in 1 .. Len(lines) : EndedWith(x, lines, i, Untagged, "OK", "never")
      BY <1>1, <2>2, WaitLeaves, Zenon
    <3>2. x.rest = After(lines, 1)
      BY <2>3, <3>1 DEF EndedWith
    <3> QED
      BY <2>3, <3>2 DEF After
  <2>5. x.rest = <<>> /\ Good(x.rest) /\ Polite(x.rest) /\ NoChat(x.rest)
    <3>1. <<>> \in Seq(Lines) /\ Len(<<>>) = 0 /\ DOMAIN <<>> = {}
      OBVIOUS
    <3> QED
      BY <2>4, <3>1 DEF Good, Polite, NoChat
  <2>6. CASE Say(x, "CAPABILITY", "capability", tag)
    BY <2>5, <2>6, TagSay
  <2> QED
    BY <1>2, <1>3, <2>1, <2>5, <2>6 DEF SetUp
<1>6. CASE ImapCapability
  <2> PICK x \in Capability("STARTTLS", "chat") :
         \/ Strcmp(x) \/ Strcmp(Broken(x))
         \/ \E v : Leave(x, "decide", v, {})
         \/ x.r = 1 /\ Say(x, "STARTTLS", "starttls", tag + x.inc)
    BY <1>6 DEF ImapCapability
  <2>1. pc = "capability" /\ Broken(x).failed = TRUE
    BY <1>6, BrokenProperties DEF ImapCapability
  <2>2. Good(x.rest) /\ tag + x.inc \in {tag, tag + 1}
    BY <1>1, GoodCapability
  <2>3. Fresh(lines) /\ Polite(lines) /\ ~x.failed
    BY <1>2, <2>1, TagPlaces
  <2>4. /\ Polite(x.rest) /\ NoChat(x.rest)
        /\ x.r = 1 => /\ Len(x.rest) <= 1
                      /\ \A k \in 1 .. Len(x.rest) : x.rest[k].tag = NotATag
    BY <2>3, FreshCapability, Zenon
  <2>5. CASE x.r = 1 /\ Say(x, "STARTTLS", "starttls", tag + x.inc)
    BY <2>2, <2>4, <2>5, TagSay
  <2> QED
    BY <1>2, <1>3, <1>4, <2>1, <2>4, <2>5
<1>7. CASE ImapStartTls
  <2> PICK x \in Response(lines, tag, "OK", "always") :
         \/ SetUp(x, -1, {})
         \/ x.r # -1 /\ Leave(x, "decide", 1, {"STARTTLS"})
    BY <1>7 DEF ImapStartTls
  <2>1. /\ pc = "starttls"
        /\ \/ lines[1].tag = NotATag
           \/ \A i \in 1 .. Len(lines) - 1 : lines[i].tag = Untagged
    BY <1>7 DEF ImapStartTls, TagInv
  <2>2. ~x.failed /\ Polite(lines)
    BY <1>2, <2>1, TagPlaces
  <2>3. PICK i \in 1 .. Len(lines) : /\ EndedWith(x, lines, i, tag, "OK", "always")
                                     /\ Left(x.rest, lines, i)
    BY <1>1, <2>2, WaitLeaves, Zenon
  <2>4. Polite(x.rest) /\ (i = Len(lines) => NoChat(x.rest))
    BY <1>1, <2>2, <2>3, LeftProperties
  <2>5. ASSUME i # Len(lines) PROVE x.r = -1
    <3>1. lines[i].tag # Untagged /\ i \in 1 .. Len(lines) - 1
      BY <1>1, <2>3, <2>5 DEF EndedWith
    <3>2. lines[1].tag = NotATag
      BY <2>1, <3>1
    <3>3. i = 1
      <4> SUFFICES ASSUME i # 1 PROVE FALSE
        OBVIOUS
      <4>1. 1 \in 1 .. i - 1
        BY <1>1
      <4> QED
        BY <2>3, <3>2, <4>1 DEF EndedWith, NotATag, Untagged
    <3>4. Compare(lines[i], tag, "OK") = -1
      BY <1>1, <3>2, <3>3 DEF Compare, NotATag
    <3> QED
      BY <2>3, <3>4 DEF EndedWith
  <2> QED
    BY <1>3, <2>4, <2>5 DEF SetUp
<1> QED
  BY <1>5, <1>6, <1>7

\* main().
LEMMA MainTag ==
  ASSUME Base, TagInv, Imap, ~trouble, Decide \/ Handshake
  PROVE  TagInv'
<1>1. /\ proto' = proto /\ status' = status /\ tag' = tag /\ lines' = lines
      /\ pc = "decide" /\ pc' \in {"handshake", "flush"} => status = 1
      /\ pc' \in {"refused", "exited", "handshake", "flush"}
      /\ pc \in {"decide", "handshake"}
  BY DEF Decide, Handshake, AfterSetup, setting, Base, PlaceInv, Imap
<1> QED
  BY <1>1 DEF TagInv, Between, Imap

\* out_authenticate.
LEMMA AuthenticateTag ==
  ASSUME Base, TagInv, Imap, ~trouble, ~trouble',
         Authenticate \/ ImapAuthCapability \/ ImapLogin \/ ImapName \/ ImapPassword
  PROVE  TagInv'
<1>1. /\ tag \in Nat /\ tag \in Int /\ Cont \in Int /\ Cont # Untagged /\ Good(lines)
      /\ lines \in Seq(Lines) /\ Len(lines) \in Nat /\ Copied \in {"never", "chat"}
  BY DEF Base, TypeOK, LinesInv, Good, Untagged, Cont, Copied
<1>2. /\ \A x, v : Finish(x, v) => ~x.failed
      /\ \A x, c, next, t : Say(x, c, next, t) => ~x.failed
  BY DEF Finish, Leave, Say
<1>3. ASSUME NEW x, NEW v, Finish(x, v), v = 1 => srv = "in" PROVE TagInv'
  BY <1>3, TagLeave DEF Finish
<1>4. CASE Authenticate
  <2> PICK ls \in AfterFlush :
         \/ Say(Pending(ls), "CAPABILITY", "auth_capability", tag)
         \/ Finish(Broken(Pending(ls)), -1)
    BY <1>4 DEF Authenticate, Imap, ReadsCapability
  <2>1. pc = "flush" /\ Pending(ls).rest = ls
    BY <1>4, BrokenProperties DEF Authenticate
  <2>2. Polite(lines) /\ NoChat(lines)
    BY <2>1, TagPlaces DEF Between
  <2>3. PICK i \in 0 .. Len(lines) : ls = After(lines, i)
    BY <1>1, FlushProperties
  <2>4. /\ ls \in Seq(Lines) /\ DOMAIN ls = 1 .. Len(lines) - i /\ Len(ls) = Len(lines) - i
        /\ \A k \in 1 .. Len(lines) - i : ls[k] = lines[i + k]
    BY <1>1, <2>3, AfterProperties
  <2>5. \A k \in 1 .. Len(lines) - i : i + k \in DOMAIN lines
    BY <1>1
  <2>6. Good(ls) /\ Polite(ls) /\ NoChat(ls)
    <3>1. \A k \in 1 .. Len(lines) - i : lines[i + k].tag <= tag
      BY <1>1, <2>5 DEF Good
    <3>2. Good(ls)
      BY <2>4, <3>1 DEF Good
    <3>3. Polite(ls) /\ NoChat(ls)
      BY <2>2, <2>4, <2>5 DEF Polite, NoChat
    <3> QED
      BY <3>2, <3>3
  <2> QED
    BY <1>3, <2>1, <2>6, TagSay
<1>5. CASE ImapAuthCapability
  <2> PICK x \in Capability(RefusedBy, Copied) :
         \/ \E v \in {-1, 2} : Finish(x, v) \/ Finish(Broken(x), v)
         \/ x.r = 0 /\ Say(x, "LOGIN", "login", tag + x.inc)
    BY <1>5 DEF ImapAuthCapability
  <2>1. pc = "auth_capability"
    BY <1>5 DEF ImapAuthCapability
  <2>2. Good(x.rest) /\ x.inc \in {0, 1} /\ tag + x.inc \in {tag, tag + 1}
    BY <1>1, GoodCapability
  <2>3. CASE x.r = 0 /\ Say(x, "LOGIN", "login", tag + x.inc)
    <3>1. Polite(lines) /\ (lines[1].word = "chat" => OKFirst(lines)) /\ ~x.failed
      BY <1>2, <2>1, <2>3, TagPlaces
    <3>2. Polite(x.rest) /\ (x.inc = 1 \/ (x.inc = 0 /\ OKFirst(x.rest)))
      BY <1>1, <2>3, <3>1, AuthCapability, Zenon
    <3> QED
      BY <2>2, <2>3, <3>2, TagSay
  <2> QED
    BY <1>3, <2>3
<1>6. CASE ImapLogin
  <2> PICK x \in Response(lines, Cont, "OK", Copied) :
         Say(x, "name", "name", tag) \/ Finish(Broken(x), -1)
    BY <1>6 DEF ImapLogin, ImapLiteral
  <2>1. pc = "login"
    BY <1>6 DEF ImapLogin, ImapLiteral
  <2>2. CASE Say(x, "name", "name", tag)
    <3>1. Polite(lines) /\ OKFirst(lines) /\ ~x.failed
      BY <1>2, <2>1, <2>2, TagPlaces
    <3>2. PICK i \in 1 .. Len(lines) : /\ EndedWith(x, lines, i, Cont, "OK", Copied)
                                       /\ Left(x.rest, lines, i)
      BY <1>1, <3>1, WaitLeaves, Zenon
    <3>3. Polite(x.rest) /\ Good(x.rest)
      BY <1>1, <3>1, <3>2, LeftProperties, GoodRest
    <3>4. \A j \in 1 .. Len(lines) : j > i => ~IsOK(lines[j])
      <4> SUFFICES ASSUME NEW j \in 1 .. Len(lines), j > i, IsOK(lines[j]) PROVE FALSE
        OBVIOUS
      <4>1. i \in 1 .. j - 1 /\ lines[i].tag # Untagged
        BY <1>1, <3>2 DEF EndedWith
      <4> QED
        BY <3>1, <4>1 DEF OKFirst
    <3>5. ~IsOK(RestOf(lines[i]))
      BY <1>1, RestProperties DEF IsOK
    <3>6. NoOK(x.rest)
      BY <3>2, <3>4, <3>5 DEF Left, NoOK
    <3> QED
      BY <2>2, <3>3, <3>6, TagSay
  <2> QED
    BY <1>3, <2>2
<1>7. CASE ImapName
  <2> PICK x \in Response(lines, Cont, "OK", Copied) :
         Say(x, "password", "password", tag) \/ Finish(Broken(x), -1)
    BY <1>7 DEF ImapName, ImapLiteral
  <2>1. pc = "name"
    BY <1>7 DEF ImapName, ImapLiteral
  <2>2. CASE Say(x, "password", "password", tag)
    <3>1. Polite(lines) /\ NoOK(lines) /\ ~x.failed
      BY <1>2, <2>1, <2>2, TagPlaces
    <3>2. PICK i \in 1 .. Len(lines) : /\ EndedWith(x, lines, i, Cont, "OK", Copied)
                                       /\ Left(x.rest, lines, i)
      BY <1>1, <3>1, WaitLeaves, Zenon
    <3>3. Polite(x.rest) /\ NoOK(x.rest) /\ Good(x.rest)
      BY <1>1, <3>1, <3>2, LeftProperties, GoodRest
    <3> QED
      BY <2>2, <3>3, TagSay
  <2> QED
    BY <1>3, <2>2
<1>8. CASE ImapPassword
  <2> PICK x \in Response(lines, tag, "OK", Copied) : Finish(x, x.r)
    BY <1>8 DEF ImapPassword
  <2>1. /\ pc = "password" /\ ~x.failed
        /\ \A i \in DOMAIN lines : IsOK(lines[i]) => srv = "in"
    BY <1>2, <1>8 DEF ImapPassword, TagInv
  <2>2. PICK i \in 1 .. Len(lines) : EndedWith(x, lines, i, tag, "OK", Copied)
    BY <1>1, <2>1, WaitLeaves, Zenon
  <2>3. ASSUME x.r = 1 PROVE srv = "in"
    <3>1. IsOK(lines[i])
      BY <2>2, <2>3 DEF EndedWith, Compare, IsOK
    <3> QED
      BY <1>1, <2>1, <3>1
  <2> QED
    BY <1>3, <2>3
<1> QED
  BY <1>4, <1>5, <1>6, <1>7, <1>8

\* With IMAP4 the other protocols' actions are not taken.
LEMMA TagInductive == Base /\ TagInv /\ [Next]_vars => TagInv'
<1>1. ASSUME Base, TagInv, UNCHANGED vars PROVE TagInv'
  BY <1>1 DEF vars, TagInv, Fresh, OKFirst, IsOK, Imap
<1>2. ASSUME Base, TagInv, Next, Imap, ~trouble' PROVE TagInv'
  <2>1. ~trouble
    BY <1>2, Frame
  <2>2. /\ proto = "IMAP4"
        /\ pc \in Between \cup Over \cup ImapReading
    BY <1>2 DEF Base, TypeOK, ReadingOf, Imap
  <2>3. \/ Greeting \/ ImapCapability \/ ImapStartTls
        \/ Decide \/ Handshake
        \/ Authenticate \/ ImapAuthCapability \/ ImapLogin \/ ImapName \/ ImapPassword
        \/ UNCHANGED vars
    BY <1>2, <2>2 DEF Next, PopCapa, PopStls, SieveGreeting, SieveStartTls,
          SieveAuthCapability, PopUser, Verdict, Ended, Between, Over, ImapReading
  <2> QED
    BY <1>1, <1>2, <2>1, <2>3, SetupTag, MainTag, AuthenticateTag
<1>3. ASSUME Base, Next, trouble' \/ ~Imap PROVE TagInv'
  BY <1>3, Frame DEF TagInv, Imap
<1> QED
  BY <1>1, <1>2, <1>3

-----------------------------------------------------------------------------
(* IMAP4: what is unread when LOGIN is written.                            *)

\* What a wait leaves is whole, and of commands that were written.
LEMMA WholeRest ==
  ASSUME cmd \in Nat, NEW ls \in Seq(Lines), Whole(ls), Asked(ls), NEW t \in Int,
         NEW word, NEW cut, NEW x \in Response(ls, t, word, cut), ~x.failed
  PROVE  x.rest \in Seq(Lines) /\ Whole(x.rest) /\ Asked(x.rest)
<1>1. PICK i \in 1 .. Len(ls) : /\ EndedWith(x, ls, i, t, word, cut)
                                /\ Left(x.rest, ls, i)
  BY WaitLeaves, Zenon
<1>2. /\ Len(ls) \in Nat /\ i \in 0 .. Len(ls) /\ ls[i] \in Lines
      /\ ls # <<>> /\ ls[Len(ls)].tag # Untagged
  BY DEF Whole
<1>3. /\ After(ls, i) \in Seq(Lines) /\ Len(After(ls, i)) = Len(ls) - i
      /\ \A k \in 1 .. Len(ls) - i : After(ls, i)[k] = ls[i + k]
  BY <1>2, AfterProperties
<1>4. Asked(x.rest)
  <2>1. RestOf(ls[i]).n = ls[i].n
    BY <1>2, RestProperties
  <2> QED
    BY <1>1, <2>1 DEF Asked, Left
<1>5. Whole(After(ls, i))
  <2> SUFFICES ASSUME After(ls, i) # <<>>
               PROVE  After(ls, i)[Len(After(ls, i))].tag # Untagged
    BY DEF Whole
  <2>1. Len(ls) - i # 0
    BY <1>3
  <2>2. Len(ls) - i \in 1 .. Len(ls) - i /\ i + (Len(ls) - i) = Len(ls)
    BY <1>2, <2>1
  <2> QED
    BY <1>2, <1>3, <2>2
<1>6. Whole(x.rest)
  <2>1. CASE x.rest = After(ls, i)
    BY <1>5, <2>1
  <2>2. CASE x.rest = <<RestOf(ls[i])>> \o After(ls, i)
    <3> DEFINE a == After(ls, i)
               r == RestOf(ls[i])
    <3>1. a \in Seq(Lines) /\ r \in Lines /\ r.tag # Untagged
      BY <1>2, <1>3, RestProperties DEF NotATag, Untagged
    <3>2. Whole(a) /\ x.rest = <<r>> \o a
      BY <1>5, <2>2
    <3> HIDE DEF a, r
    <3>3. CASE a = <<>>
      BY <3>1, <3>2, <3>3 DEF Whole
    <3>4. CASE a # <<>>
      <4>1. Len(x.rest) = Len(a) + 1 /\ Len(a) \in Nat /\ Len(a) > 0
        BY <3>1, <3>2, <3>4
      <4>2. x.rest[Len(x.rest)] = a[Len(a)]
        BY <3>1, <3>2, <4>1
      <4> QED
        BY <3>2, <3>4, <4>2 DEF Whole
    <3> QED
      BY <3>3, <3>4
  <2> QED
    BY <1>1, <2>1, <2>2 DEF EndedWith
<1> QED
  BY <1>1, <1>4, <1>6 DEF Left

\* So is what imap4_out_get_capability() leaves.
LEMMA WholeCapability ==
  ASSUME Base, Whole(lines), Asked(lines), NEW cap, NEW cut,
         NEW x \in Capability(cap, cut), ~x.failed
  PROVE  x.rest \in Seq(Lines) /\ Whole(x.rest) /\ Asked(x.rest)
<1>1. lines \in Seq(Lines) /\ tag \in Int /\ cmd \in Nat /\ Untagged \in Int
  BY DEF Base, LinesInv, Good, TypeOK, Untagged
<1>2. PICK y \in Response(lines, Untagged, "CAPABILITY", "never") :
        \/ y.r < 1 /\ x = [r |-> y.r, rest |-> y.rest, failed |-> y.failed, inc |-> 0]
        \/ ~(y.r < 1) /\ \E z \in Response(y.rest, tag, "OK", cut) :
             x = [r |-> IF z.r < 0 \/ cap \in y.line.caps THEN 1 ELSE 0,
                  rest |-> z.rest, failed |-> z.failed,
                  inc |-> IF z.r < 0 THEN 0 ELSE 1]
  BY DEF Capability
<1>3. y.failed => y.r = -1
  <2>1. \/ /\ y.failed = TRUE /\ y.r = -1 /\ y.line = NoLine
           /\ \E i \in 0 .. Len(lines) : y.rest = After(lines, i)
        \/ /\ y.failed = FALSE
           /\ \E i \in 1 .. Len(lines) : EndedWith(y, lines, i, Untagged, "CAPABILITY", "never")
    BY <1>1, ResponseOutcome, Zenon
  <2> QED
    BY <2>1
<1>4. ~y.failed
  BY <1>2, <1>3
<1>5. y.rest \in Seq(Lines) /\ Whole(y.rest) /\ Asked(y.rest)
  BY <1>1, <1>4, WholeRest, Zenon
<1>6. CASE x = [r |-> y.r, rest |-> y.rest, failed |-> y.failed, inc |-> 0]
  BY <1>5, <1>6
<1>7. ASSUME NEW z \in Response(y.rest, tag, "OK", cut),
             x = [r |-> IF z.r < 0 \/ cap \in y.line.caps THEN 1 ELSE 0,
                  rest |-> z.rest, failed |-> z.failed,
                  inc |-> IF z.r < 0 THEN 0 ELSE 1]
      PROVE  x.rest \in Seq(Lines) /\ Whole(x.rest) /\ Asked(x.rest)
  <2>1. ~z.failed /\ x.rest = z.rest
    BY <1>7
  <2>2. z.rest \in Seq(Lines) /\ Whole(z.rest) /\ Asked(z.rest)
    BY <1>1, <1>5, <2>1, WholeRest, Zenon
  <2> QED
    BY <2>1, <2>2
<1> QED
  BY <1>2, <1>6, <1>7

\* If it finds that LOGIN is allowed, with nothing left unread, LOGIN is allowed
\* by the latest list.
LEMMA LoginAllowed ==
  ASSUME Base, lines # <<>>, Whole(lines), Latest(lines), NEW cap, NEW cut,
         NEW x \in Capability(cap, cut), ~x.failed, x.r = 0, x.rest = <<>>
  PROVE  cap \notin announced
<1>1. /\ lines \in Seq(Lines) /\ tag \in Int /\ Untagged \in Int
      /\ Len(lines) \in Nat /\ Len(lines) > 0 /\ lines[Len(lines)].tag # Untagged
      /\ 1 \in 0 .. Len(lines)
  BY DEF Base, LinesInv, Good, TypeOK, Untagged, Whole
<1>2. PICK y \in Response(lines, Untagged, "CAPABILITY", "never") :
        \/ y.r < 1 /\ x = [r |-> y.r, rest |-> y.rest, failed |-> y.failed, inc |-> 0]
        \/ ~(y.r < 1) /\ \E z \in Response(y.rest, tag, "OK", cut) :
             x = [r |-> IF z.r < 0 \/ cap \in y.line.caps THEN 1 ELSE 0,
                  rest |-> z.rest, failed |-> z.failed,
                  inc |-> IF z.r < 0 THEN 0 ELSE 1]
  BY DEF Capability
<1>3. y.failed => y.r = -1
  <2>1. \/ /\ y.failed = TRUE /\ y.r = -1 /\ y.line = NoLine
           /\ \E i \in 0 .. Len(lines) : y.rest = After(lines, i)
        \/ /\ y.failed = FALSE
           /\ \E i \in 1 .. Len(lines) : EndedWith(y, lines, i, Untagged, "CAPABILITY", "never")
    BY <1>1, ResponseOutcome, Zenon
  <2> QED
    BY <2>1
<1>4. ~y.failed
  BY <1>2, <1>3
<1>5. /\ y.line = lines[1] /\ y.r = Compare(lines[1], Untagged, "CAPABILITY")
      /\ y.rest = After(lines, 1)
  <2>1. PICK i \in 1 .. Len(lines) : EndedWith(y, lines, i, Untagged, "CAPABILITY", "never")
    BY <1>1, <1>4, WaitLeaves, Zenon
  <2>2. i = 1
    BY <1>1, <2>1 DEF EndedWith
  <2> QED
    BY <2>1, <2>2 DEF EndedWith
<1>6. /\ y.rest \in Seq(Lines) /\ Len(y.rest) = Len(lines) - 1
      /\ \A k \in 1 .. Len(lines) - 1 : y.rest[k] = lines[1 + k]
  BY <1>1, <1>5, AfterProperties
<1>7. CASE y.r < 1 /\ x = [r |-> y.r, rest |-> y.rest, failed |-> y.failed, inc |-> 0]
  \* a line of another kind came first: the last line cannot be it
  <2>1. lines[1].tag = Untagged /\ y.rest = <<>>
    BY <1>5, <1>7 DEF Compare
  <2>2. Len(lines) = 1
    BY <1>1, <1>6, <2>1
  <2> QED
    BY <1>1, <2>1, <2>2
<1>8. ASSUME ~(y.r < 1), NEW z \in Response(y.rest, tag, "OK", cut),
             x = [r |-> IF z.r < 0 \/ cap \in y.line.caps THEN 1 ELSE 0,
                  rest |-> z.rest, failed |-> z.failed,
                  inc |-> IF z.r < 0 THEN 0 ELSE 1]
      PROVE  cap \notin announced
  <2>1. ~z.failed /\ z.rest = <<>> /\ cap \notin lines[1].caps
    BY <1>5, <1>8
  <2>2. lines[1].tag = Untagged /\ lines[1].word = "CAPABILITY"
    BY <1>5, <1>8 DEF Compare
  <2>3. PICK j \in 1 .. Len(y.rest) : EndedWith(z, y.rest, j, tag, "OK", cut)
    BY <1>1, <1>6, <2>1, WaitLeaves, Zenon
  <2>4. j \in 0 .. Len(y.rest)
    BY <1>6
  <2>5. After(y.rest, j) \in Seq(Lines) /\ Len(After(y.rest, j)) = Len(y.rest) - j
    BY <1>6, <2>4, AfterProperties
  <2>6. After(y.rest, j) = <<>>
    <3>1. CASE z.rest = After(y.rest, j)
      BY <2>1, <3>1
    <3>2. CASE z.rest = <<RestOf(y.rest[j])>> \o After(y.rest, j)
      <4>1. RestOf(y.rest[j]) \in Lines
        BY <1>6, RestProperties
      <4>2. Len(z.rest) = 1 + Len(After(y.rest, j)) /\ Len(z.rest) = 0
        BY <2>1, <2>5, <3>2, <4>1
      <4> QED
        BY <2>5, <4>2
    <3> QED
      BY <2>3, <3>1, <3>2 DEF EndedWith
  <2>7. j = Len(lines) - 1
    BY <1>1, <1>6, <2>5, <2>6
  <2>8. ASSUME NEW k \in 1 + 1 .. Len(lines) - 1 PROVE lines[k].tag = Untagged
    <3>1. k - 1 \in 1 .. j - 1 /\ k - 1 \in 1 .. Len(lines) - 1 /\ 1 + (k - 1) = k
      BY <1>1, <2>7
    <3>2. y.rest[k - 1].tag = Untagged
      BY <2>3, <3>1 DEF EndedWith
    <3>3. y.rest[k - 1] = lines[1 + (k - 1)]
      BY <1>6, <3>1
    <3> QED
      BY <3>1, <3>2, <3>3
  <2>9. 1 \in DOMAIN lines
    BY <1>1
  <2> QED
    BY <2>1, <2>2, <2>8, <2>9 DEF Latest
<1> QED
  BY <1>2, <1>7, <1>8

\* What holds after a command was written.
LEMMA UnreadSay ==
  ASSUME Base, Imap, NEW x, x.rest \in Seq(Lines), Whole(x.rest), Asked(x.rest),
         NEW c, NEW next, NEW t \in Nat, Say(x, c, next, t), next # "greeting",
         next = "auth_capability" => c = "CAPABILITY",
         next = "login" => /\ c = "LOGIN"
                           /\ x.rest = <<>> => RefusedBy \notin announced
  PROVE  UnreadInv'
<1>1. /\ tag \in Nat /\ cmd \in Nat /\ cmd' = cmd + 1 /\ pc' = next /\ proto' = proto
      /\ proto \in AllProtos /\ tag' = t
  BY DEF Base, TypeOK, Say, setting
<1>2. PICK sent \in Seq(Lines) :
        /\ lines' = x.rest \o sent /\ Sends(c, sent)
        /\ c = "CAPABILITY" => SendsList(sent)
  BY <1>1, SayOutcome, Zenon
<1>3. Follows(lines', x.rest, sent) /\ lines' \in Seq(Lines)
  BY <1>2, FollowsProperties
<1>4. /\ Len(sent) \in Nat /\ Len(sent) > 0 /\ sent[Len(sent)].tag # Untagged
      /\ Len(x.rest) \in Nat /\ Len(lines') = Len(x.rest) + Len(sent)
      /\ DOMAIN lines' = 1 .. Len(lines') /\ DOMAIN x.rest = 1 .. Len(x.rest)
      /\ \A k \in 1 .. Len(sent) : sent[k].n = cmd'
  BY <1>2, <1>3 DEF Sends, Follows
<1>5. c # "CAPABILITY" => announced' = announced
  BY <1>1, SayOutcome, Zenon
<1>6. Asked(lines)'
  <2>1. ASSUME NEW k \in 1 .. Len(lines') PROVE lines'[k].n <= cmd'
    <3>1. CASE k \in 1 .. Len(x.rest) /\ lines'[k] = x.rest[k]
      <4>1. x.rest[k] \in Lines /\ x.rest[k].n <= cmd
        BY <1>4, <3>1 DEF Asked
      <4>2. x.rest[k].n \in Nat
        BY <4>1 DEF Lines
      <4> QED
        BY <1>1, <3>1, <4>1, <4>2
    <3>2. CASE k - Len(x.rest) \in 1 .. Len(sent) /\ lines'[k] = sent[k - Len(x.rest)]
      BY <1>1, <1>4, <3>2
    <3> QED
      BY <1>3, <3>1, <3>2 DEF Follows
  <2> QED
    BY <1>4, <2>1 DEF Asked
<1>7. lines'[Len(lines')] = sent[Len(sent)] /\ lines' # <<>>
  <2>1. Len(lines') \in 1 .. Len(lines') /\ ~(Len(lines') \in 1 .. Len(x.rest))
    BY <1>4
  <2>2. lines'[Len(lines')] = sent[Len(lines') - Len(x.rest)]
    BY <1>3, <2>1 DEF Follows
  <2> QED
    BY <1>4, <2>2
<1>8. Whole(lines)'
  BY <1>4, <1>7 DEF Whole
<1>9. ASSUME next = "auth_capability" PROVE Latest(lines)'
  <2>1. ListsAnnounced(sent)
    BY <1>2, <1>9 DEF SendsList
  <2>2. ASSUME NEW i \in 1 .. Len(lines'),
               lines'[i].tag = Untagged, lines'[i].word = "CAPABILITY",
               \A j \in i + 1 .. Len(lines') - 1 : lines'[j].tag = Untagged
        PROVE  lines'[i].caps = announced'
    <3>1. CASE i \in 1 .. Len(x.rest) /\ lines'[i] = x.rest[i]
      \* the last of the older lines is tagged
      <4>1. Len(x.rest) \in 1 .. Len(x.rest) /\ x.rest[Len(x.rest)].tag # Untagged
        <5>1. x.rest # <<>>
          BY <3>1
        <5> QED
          BY <1>4, <3>1, <5>1 DEF Whole
      <4>2. lines'[Len(x.rest)] = x.rest[Len(x.rest)]
        BY <1>3, <4>1 DEF Follows
      <4>3. i # Len(x.rest)
        BY <2>2, <4>1, <4>2
      <4>4. Len(x.rest) \in i + 1 .. Len(lines') - 1
        BY <1>4, <3>1, <4>3
      <4> QED
        BY <2>2, <4>1, <4>2, <4>4
    <3>2. CASE i - Len(x.rest) \in 1 .. Len(sent) /\ lines'[i] = sent[i - Len(x.rest)]
      BY <2>1, <2>2, <3>2 DEF ListsAnnounced
    <3> QED
      BY <1>3, <3>1, <3>2 DEF Follows
  <2> QED
    BY <1>4, <2>2 DEF Latest
<1>10. ASSUME next = "login", RefusedBy \in announced'
       PROVE  \E i \in DOMAIN lines' : lines'[i].n < cmd'
  <2>1. x.rest # <<>>
    BY <1>5, <1>10
  <2>2. 1 \in 1 .. Len(x.rest) /\ 1 \in DOMAIN lines'
    BY <1>4, <2>1
  <2>3. lines'[1] = x.rest[1] /\ x.rest[1] \in Lines /\ x.rest[1].n <= cmd
    BY <1>3, <1>4, <2>2 DEF Follows, Asked
  <2>4. x.rest[1].n \in Nat
    BY <2>3 DEF Lines
  <2>5. lines'[1].n < cmd'
    BY <1>1, <2>3, <2>4
  <2> QED
    BY <2>2, <2>5
<1>11. (RefusedBy)' = RefusedBy
  BY DEF RefusedBy
<1> QED
  BY <1>1, <1>6, <1>7, <1>8, <1>9, <1>10, <1>11 DEF UnreadInv

\* What holds after a method has returned.
LEMMA UnreadLeave ==
  ASSUME Base, NEW x, Whole(x.rest), Asked(x.rest), NEW next, NEW v, NEW fs,
         Leave(x, next, v, fs), next \in {"decide", "done"}
  PROVE  UnreadInv'
<1>1. lines' = x.rest /\ cmd' = cmd /\ pc' = next
  BY DEF Leave
<1> QED
  BY <1>1 DEF UnreadInv, Whole, Asked

\* out_setup and main().
LEMMA SetupUnread ==
  ASSUME Base, UnreadInv, Imap, ~trouble, ~trouble',
         \/ Greeting \/ ImapCapability \/ ImapStartTls \/ Decide \/ Handshake
  PROVE  UnreadInv'
<1>1. /\ tag \in Nat /\ tag \in Int /\ Untagged \in Int /\ cmd \in Nat
      /\ lines \in Seq(Lines) /\ Len(lines) \in Nat
      /\ Asked(lines) /\ (pc # "greeting" => Whole(lines))
  BY DEF Base, TypeOK, LinesInv, Good, Untagged, UnreadInv
<1>2. \* a write that fails
      /\ \A x, v, fs : SetUp(x, v, fs) \/ Strcmp(x) => ~x.failed
      /\ \A x, next, v, fs : Leave(x, next, v, fs) => ~x.failed
      /\ \A x, c, next, t : Say(x, c, next, t) => ~x.failed
  BY DEF SetUp, Strcmp, Leave, Say
<1>3. ASSUME NEW x, NEW v, NEW fs, Leave(x, "decide", v, fs), Whole(x.rest), Asked(x.rest)
      PROVE  UnreadInv'
  BY <1>3, UnreadLeave
<1>4. ASSUME NEW x, Strcmp(x), Whole(x.rest), Asked(x.rest) PROVE UnreadInv'
  BY <1>3, <1>4 DEF Strcmp, SetUp
<1>5. CASE Greeting
  <2> PICK x \in Response(lines, Untagged, "OK", "never") :
         \/ \E v : SetUp(x, v, {})
         \/ Say(x, "CAPABILITY", "capability", tag)
         \/ Strcmp(Broken(x))
    BY <1>5 DEF Greeting, Imap
  <2>1. pc = "greeting" /\ Broken(x).failed = TRUE
    BY <1>5, BrokenProperties DEF Greeting
  <2>2. ~x.failed
    BY <1>2, <2>1
  <2>3. Len(lines) = 1
    BY <2>1 DEF Base, PlaceInv
  <2>4. x.rest = <<>>
    <3>1. PICK i \in 1 .. Len(lines) : EndedWith(x, lines, i, Untagged, "OK", "never")
      BY <1>1, <2>2, WaitLeaves, Zenon
    <3>2. x.rest = After(lines, 1)
      BY <2>3, <3>1 DEF EndedWith
    <3> QED
      BY <2>3, <3>2 DEF After
  <2>5. x.rest \in Seq(Lines) /\ Whole(x.rest) /\ Asked(x.rest)
    BY <2>4 DEF Whole, Asked
  <2>6. CASE Say(x, "CAPABILITY", "capability", tag)
    BY <1>1, <2>5, <2>6, UnreadSay
  <2> QED
    BY <1>2, <1>3, <2>1, <2>5, <2>6 DEF SetUp
<1>6. CASE ImapCapability
  <2> PICK x \in Capability("STARTTLS", "chat") :
         \/ Strcmp(x) \/ Strcmp(Broken(x))
         \/ \E v : Leave(x, "decide", v, {})
         \/ x.r = 1 /\ Say(x, "STARTTLS", "starttls", tag + x.inc)
    BY <1>6 DEF ImapCapability
  <2>1. pc = "capability" /\ Broken(x).failed = TRUE
    BY <1>6, BrokenProperties DEF ImapCapability
  <2>2. tag + x.inc \in Nat
    <3>1. Good(lines)
      BY DEF Base, LinesInv
    <3>2. x.inc \in {0, 1}
      BY <1>1, <3>1, GoodCapability
    <3> QED
      BY <1>1, <3>2
  <2>3. ~x.failed
    BY <1>2, <2>1
  <2>4. x.rest \in Seq(Lines) /\ Whole(x.rest) /\ Asked(x.rest)
    BY <1>1, <2>1, <2>3, WholeCapability
  <2>5. CASE Say(x, "STARTTLS", "starttls", tag + x.inc)
    BY <2>2, <2>4, <2>5, UnreadSay
  <2> QED
    BY <1>2, <1>3, <1>4, <2>1, <2>4, <2>5
<1>7. CASE ImapStartTls
  <2> PICK x \in Response(lines, tag, "OK", "always") :
         \E v, fs : Leave(x, "decide", v, fs)
    BY <1>7 DEF ImapStartTls, SetUp
  <2>1. pc = "starttls"
    BY <1>7 DEF ImapStartTls
  <2>2. ~x.failed
    BY <1>2
  <2>3. Whole(x.rest) /\ Asked(x.rest)
    BY <1>1, <2>1, <2>2, WholeRest, Zenon
  <2> QED
    BY <1>3, <2>3
<1>8. CASE Decide \/ Handshake
  <2>1. /\ lines' = lines /\ cmd' = cmd /\ pc \in {"decide", "handshake"}
        /\ pc' \in {"refused", "exited", "handshake", "flush"}
    BY <1>8 DEF Decide, Handshake, AfterSetup, Imap
  <2> QED
    BY <1>1, <2>1 DEF UnreadInv, Asked, Whole
<1> QED
  BY <1>5, <1>6, <1>7, <1>8

\* out_authenticate.
LEMMA AuthenticateUnread ==
  ASSUME Base, UnreadInv, Imap, ~trouble, ~trouble',
         Authenticate \/ ImapAuthCapability \/ ImapLogin \/ ImapName \/ ImapPassword
  PROVE  UnreadInv'
<1>1. /\ tag \in Nat /\ tag \in Int /\ Cont \in Int /\ cmd \in Nat
      /\ lines \in Seq(Lines) /\ Len(lines) \in Nat
      /\ Asked(lines) /\ (pc # "greeting" => Whole(lines))
  BY DEF Base, TypeOK, LinesInv, Good, Cont, UnreadInv
<1>2. /\ \A x, v : Finish(x, v) => ~x.failed
      /\ \A x, c, next, t : Say(x, c, next, t) => ~x.failed
  BY DEF Finish, Leave, Say
<1>3. ASSUME NEW x, NEW v, Finish(x, v), Whole(x.rest), Asked(x.rest) PROVE UnreadInv'
  BY <1>3, UnreadLeave DEF Finish
<1>4. CASE Authenticate
  <2> PICK ls \in AfterFlush :
         \/ Say(Pending(ls), "CAPABILITY", "auth_capability", tag)
         \/ Finish(Broken(Pending(ls)), -1)
    BY <1>4 DEF Authenticate, Imap, ReadsCapability
  <2>1. /\ pc = "flush" /\ Pending(ls).rest = ls
        /\ Broken(Pending(ls)).failed = TRUE
    BY <1>4, BrokenProperties DEF Authenticate
  <2>2. PICK i \in 0 .. Len(lines) : ls = After(lines, i)
    BY <1>1, FlushProperties
  <2>3. /\ ls \in Seq(Lines) /\ DOMAIN ls = 1 .. Len(lines) - i /\ Len(ls) = Len(lines) - i
        /\ \A k \in 1 .. Len(lines) - i : ls[k] = lines[i + k]
    BY <1>1, <2>2, AfterProperties
  <2>4. \A k \in 1 .. Len(lines) - i : i + k \in DOMAIN lines
    BY <1>1
  <2>5. Asked(ls)
    BY <1>1, <2>3, <2>4 DEF Asked
  <2>6. Whole(ls)
    <3> SUFFICES ASSUME ls # <<>> PROVE ls[Len(ls)].tag # Untagged
      BY DEF Whole
    <3>1. Len(ls) # 0
      BY <2>3
    <3>2. Len(lines) - i \in 1 .. Len(lines) - i /\ i + (Len(lines) - i) = Len(lines)
      BY <1>1, <2>3, <3>1
    <3>3. lines # <<>>
      BY <1>1, <3>2
    <3> QED
      BY <1>1, <2>1, <2>3, <3>2, <3>3 DEF Whole
  <2>7. CASE Say(Pending(ls), "CAPABILITY", "auth_capability", tag)
    BY <1>1, <2>1, <2>3, <2>5, <2>6, <2>7, UnreadSay
  <2> QED
    BY <1>2, <2>1, <2>7
<1>5. CASE ImapAuthCapability
  <2> PICK x \in Capability(RefusedBy, Copied) :
         \/ \E v \in {-1, 2} : Finish(x, v) \/ Finish(Broken(x), v)
         \/ x.r = 0 /\ Say(x, "LOGIN", "login", tag + x.inc)
    BY <1>5 DEF ImapAuthCapability
  <2>1. pc = "auth_capability" /\ Broken(x).failed = TRUE
    BY <1>5, BrokenProperties DEF ImapAuthCapability
  <2>2. ~x.failed
    BY <1>2, <2>1
  <2>3. x.rest \in Seq(Lines) /\ Whole(x.rest) /\ Asked(x.rest)
    BY <1>1, <2>1, <2>2, WholeCapability
  <2>4. CASE x.r = 0 /\ Say(x, "LOGIN", "login", tag + x.inc)
    <3>1. tag + x.inc \in Nat
      <4>1. Good(lines)
        BY DEF Base, LinesInv
      <4>2. x.inc \in {0, 1}
        BY <1>1, <4>1, GoodCapability
      <4> QED
        BY <1>1, <4>2
    <3>2. lines # <<>> /\ Latest(lines) /\ Whole(lines)
      BY <1>1, <2>1 DEF UnreadInv
    <3>3. x.rest = <<>> => RefusedBy \notin announced
      BY <2>2, <2>4, <3>2, LoginAllowed
    <3> QED
      BY <2>3, <2>4, <3>1, <3>3, UnreadSay
  <2> QED
    BY <1>2, <1>3, <2>1, <2>3, <2>4
<1>6. \* the three others wait in lines and write at most one more command
      ASSUME NEW t \in Int, NEW x \in Response(lines, t, "OK", Copied), pc # "greeting",
             \/ \E v : Finish(x, v)
             \/ Finish(Broken(x), -1)
             \/ \E c \in {"name", "password"} : Say(x, c, c, tag)
      PROVE  UnreadInv'
  <2>1. Broken(x).failed = TRUE
    BY BrokenProperties
  <2>2. ~x.failed
    BY <1>2, <1>6, <2>1
  <2>3. x.rest \in Seq(Lines) /\ Whole(x.rest) /\ Asked(x.rest)
    BY <1>1, <1>6, <2>2, WholeRest, Zenon
  <2>4. ASSUME NEW c \in {"name", "password"}, Say(x, c, c, tag) PROVE UnreadInv'
    BY <1>1, <2>3, <2>4, UnreadSay
  <2> QED
    BY <1>2, <1>3, <1>6, <2>1, <2>3, <2>4
<1>7. CASE ImapLogin \/ ImapName
  BY <1>1, <1>6, <1>7 DEF ImapLogin, ImapName, ImapLiteral
<1>8. CASE ImapPassword
  BY <1>1, <1>6, <1>8 DEF ImapPassword
<1> QED
  BY <1>4, <1>5, <1>7, <1>8

\* With IMAP4 the other protocols' actions are not taken.
LEMMA UnreadInductive == Base /\ UnreadInv /\ [Next]_vars => UnreadInv'
<1>1. ASSUME Base, UnreadInv, UNCHANGED vars PROVE UnreadInv'
  BY <1>1 DEF vars, UnreadInv, Asked, Whole, Latest, Imap, RefusedBy
<1>2. ASSUME Base, UnreadInv, Next, Imap, ~trouble' PROVE UnreadInv'
  <2>1. ~trouble
    BY <1>2, Frame
  <2>2. /\ proto = "IMAP4"
        /\ pc \in Between \cup Over \cup ImapReading
    BY <1>2 DEF Base, TypeOK, ReadingOf, Imap
  <2>3. \/ Greeting \/ ImapCapability \/ ImapStartTls
        \/ Decide \/ Handshake
        \/ Authenticate \/ ImapAuthCapability \/ ImapLogin \/ ImapName \/ ImapPassword
        \/ UNCHANGED vars
    BY <1>2, <2>2 DEF Next, PopCapa, PopStls, SieveGreeting, SieveStartTls,
          SieveAuthCapability, PopUser, Verdict, Ended, Between, Over, ImapReading
  <2> QED
    BY <1>1, <1>2, <2>1, <2>3, SetupUnread, AuthenticateUnread
<1>3. ASSUME Base, Next, trouble' \/ ~Imap PROVE UnreadInv'
  BY <1>3, Frame DEF UnreadInv, Imap
<1> QED
  BY <1>1, <1>2, <1>3

-----------------------------------------------------------------------------
(* The results.                                                            *)

\* The server's greeting is unread at first.
LEMMA InitIInv == Init => IInv
<1> SUFFICES ASSUME Init PROVE IInv
  OBVIOUS
<1>1. /\ proto \in AllProtos /\ policy \in AllPolicies /\ pc = "greeting" /\ io = "fd"
      /\ tag = 0 /\ cmd = 0 /\ trouble = FALSE /\ chatty \in {FALSE, Imap}
  BY ProtosAssumption, PoliciesAssumption DEF Init
<1>2. PICK g \in Greetings : lines = <<g>>
  BY DEF Init
<1>3. g \in Lines /\ g.n = 0
  BY <1>2 DEF Greetings, Lines, Words, Untagged, NoTag
<1>4. /\ g.tag <= 0 /\ (Imap => g.tag = Untagged)
      /\ ~Imap => g.tag # Untagged /\ g.word # "rest"
  BY <1>1, <1>2 DEF Greetings, Untagged, NoTag, Imap
<1>5. /\ lines \in Seq(Lines) /\ Len(lines) = 1 /\ lines[1] = g /\ DOMAIN lines = {1}
      /\ \A i \in 1 .. Len(lines) : lines[i] = g
  BY <1>2, <1>3
<1>6. Good(lines)
  BY <1>1, <1>4, <1>5 DEF Good
<1>7. TypeOK
  BY <1>1 DEF TypeOK, ReadingOf, ImapReading, PopReading, SieveReading
<1>8. PlaceInv
  BY <1>1, <1>4, <1>5 DEF PlaceInv, SettingUp
<1>9. ForceInv /\ LinesInv /\ OwedInv
  <2>1. ~Imap => ~chatty
    BY <1>1
  <2> QED
    BY <1>1, <1>6, <2>1 DEF ForceInv, LinesInv, OwedInv, Reading
<1>10. TagInv
  BY <1>1 DEF TagInv, Between
<1>11. PairInv
  BY <1>1, <1>3, <1>5 DEF PairInv, Reading
<1>12. VerdictInv /\ ObeyInv
  BY <1>1 DEF VerdictInv, ObeyInv
<1>13. UnreadInv
  BY <1>1, <1>3, <1>5 DEF UnreadInv, Asked
<1> QED
  BY <1>7, <1>8, <1>9, <1>10, <1>11, <1>12, <1>13 DEF IInv, Base

\* The inductive invariant holds for every protocol, policy and exchange.
THEOREM Invariance == Spec => []IInv
<1>1. Init => IInv
  BY InitIInv
<1>2. IInv /\ [Next]_vars => IInv'
  BY BaseInductive, BareInductive, TagInductive, UnreadInductive DEF IInv, Bare
<1> QED
  BY <1>1, <1>2, PTL DEF Spec

\* The exchange is always at a place of its protocol.
THEOREM TypeCorrect == Spec => []TypeOK
<1>1. IInv => TypeOK
  BY DEF IInv, Base
<1> QED
  BY <1>1, Invariance, PTL

\* With tls_outgoing_force neither the name nor the password leaves unencrypted,
\* whichever read or write of out_setup fails and is reported as a success.
THEOREM NoPlaintext == Spec => []NoPlaintextCredentials
<1>1. IInv => NoPlaintextCredentials
  BY DEF IInv, Base, ForceInv, NoPlaintextCredentials
<1> QED
  BY <1>1, Invariance, PTL

\* When perdition waits for a reply one is on its way: not even after timeouts, or
\* with a server that sends lines of its own, do both sides wait for the other.
THEOREM AlwaysOwed == Spec => []NeverWaitsInVain
<1>1. ASSUME IInv, pc \in Reading \ {"greeting"} PROVE Ends(lines, Tag) # {}
  <2>1. PICK i \in DOMAIN lines : lines[i].tag # Untagged
    BY <1>1 DEF IInv, Base, OwedInv
  <2>2. i \in 1 .. Len(lines)
    BY <1>1, <2>1 DEF IInv, Base, LinesInv, Good
  <2> QED
    BY <2>1, <2>2 DEF Ends
<1>2. IInv => NeverWaitsInVain
  BY <1>1 DEF NeverWaitsInVain
<1> QED
  BY <1>2, Invariance, PTL

\* out_authenticate succeeds only if the server has let the user in, if no read or
\* write has failed: in IMAP4 because an OK with the current tag that belongs to an
\* older command is read before the answer to the password.
THEOREM SuccessProved == Spec => []SuccessIsReal
<1>1. ASSUME IInv, pc = "done", status = 1, ~trouble PROVE srv = "in"
  BY <1>1 DEF IInv, TagInv, VerdictInv
<1>2. IInv => SuccessIsReal
  BY <1>1 DEF SuccessIsReal
<1> QED
  BY <1>2, Invariance, PTL

\* What perdition reads as the answer to a command is the answer to that command,
\* if no read or write has failed and the server sends no lines of its own.
THEOREM Paired == Spec => []AnswersPaired
<1>1. IInv => AnswersPaired
  BY DEF IInv, PairInv, AnswersPaired
<1> QED
  BY <1>1, Invariance, PTL

\* While reading and writing succeed LOGIN is sent to a server whose capabilities
\* forbid it in one case only: the server has put a line of its own before a reply
\* to CAPABILITY, and an older reply is unread.  No handshake is begun with a
\* MANAGESIEVE server that has not agreed to it.
THEOREM Obeyed == Spec => []ServerIsObeyed
<1>1. ASSUME IInv, ~trouble, pc = "login", "LOGINDISABLED" \in announced
      PROVE  chatty /\ \E i \in DOMAIN lines : lines[i].n < cmd
  <2>1. chatty
    BY <1>1 DEF IInv, ObeyInv
  <2>2. Imap
    BY <1>1, <2>1 DEF IInv, Base, LinesInv
  <2> QED
    BY <1>1, <2>1, <2>2 DEF IInv, UnreadInv, RefusedBy
<1>2. ASSUME IInv, ~trouble, pc = "handshake", proto = "MANAGESIEVE"
      PROVE  agreed = "yes"
  BY <1>2 DEF IInv, VerdictInv, Imap
<1>3. IInv => ServerIsObeyed
  BY <1>1, <1>2 DEF ServerIsObeyed
<1> QED
  BY <1>3, Invariance, PTL
-----------------------------------------------------------------------------
(* The tags themselves.  RealServer counts them: no two numbers are one    *)
(* tag, as long as there are tags left.                                    *)

Size == Len(FirstTag)

\* the order in which imap4_tag_inc() goes through them
Before(s, t) ==
  \E k \in 1 .. Size : s[k] < t[k] /\ \A j \in 1 .. Size : j < k => s[j] = t[j]

LEMMA SizeTyped == Size \in Nat \ {0} /\ DOMAIN FirstTag = 1 .. Size
BY TagsAssumption DEF Size

LEMMA TagTyped ==
  ASSUME NEW t \in AllTags
  PROVE  /\ DOMAIN t = 1 .. Size /\ Len(t) = Size
         /\ \A k \in 1 .. Size : t[k] \in 0 .. 61
BY SizeTyped DEF AllTags, Characters

LEMMA TagMade ==
  ASSUME NEW t \in [1 .. Size -> Int], \A k \in 1 .. Size : t[k] \in 0 .. 61
  PROVE  t \in AllTags
BY SizeTyped DEF AllTags, Characters

LEMMA TagsEqual ==
  ASSUME NEW s \in AllTags, NEW t \in AllTags, \A k \in 1 .. Size : s[k] = t[k]
  PROVE  s = t
BY SizeTyped DEF AllTags, Characters

LEMMA FirstTagTyped == FirstTag \in AllTags
<1>1. FirstTag \in [1 .. Len(FirstTag) -> Characters]
  BY TagsAssumption
<1> QED
  BY <1>1, SizeTyped DEF AllTags, Size

\* A property of a place in a tag that holds somewhere first holds somewhere, and holds
\* somewhere last.
LEMMA FirstPlace ==
  ASSUME NEW N \in Nat, NEW S \in SUBSET (1 .. N), S # {}
  PROVE  \E k \in S : \A j \in S : k <= j
<1>1. S \in SUBSET Nat
  OBVIOUS
<1> QED
  BY <1>1, MinProperties

LEMMA LastPlace ==
  ASSUME NEW N \in Nat, NEW S \in SUBSET (1 .. N), S # {}
  PROVE  \E k \in S : \A j \in S : j <= k
<1> DEFINE T == {N + 1 - k : k \in S}
<1>1. T \in SUBSET (1 .. N) /\ T # {}
  <2>1. PICK k \in S : TRUE
    OBVIOUS
  <2>2. N + 1 - k \in T
    BY <2>1
  <2>3. T \subseteq 1 .. N
    OBVIOUS
  <2> QED
    BY <2>2, <2>3
<1>2. PICK m \in T : \A j \in T : m <= j
  BY <1>1, FirstPlace
<1>3. PICK k \in S : m = N + 1 - k
  BY <1>2
<1>4. \A j \in S : N + 1 - j \in T
  OBVIOUS
<1>5. \A j \in S : m <= N + 1 - j
  BY <1>2, <1>4
<1>6. \A j \in S : j \in 1 .. N
  OBVIOUS
<1> HIDE DEF T
<1>7. \A j \in S : j <= k
  BY <1>3, <1>5, <1>6
<1> QED
  BY <1>7

\* It is a strict and total order.
LEMMA BeforeTotal ==
  ASSUME NEW s \in AllTags, NEW t \in AllTags
  PROVE  s = t \/ Before(s, t) \/ Before(t, s)
<1>1. SUFFICES ASSUME s # t PROVE Before(s, t) \/ Before(t, s)
  OBVIOUS
<1> DEFINE D == {k \in 1 .. Size : s[k] # t[k]}
<1>2. D \in SUBSET (1 .. Size) /\ D # {}
  BY <1>1, TagsEqual
<1>3. PICK k \in D : \A j \in D : k <= j
  BY <1>2, FirstPlace, SizeTyped
<1>4. k \in 1 .. Size /\ s[k] # t[k]
  BY <1>3
<1>5. s[k] \in 0 .. 61 /\ t[k] \in 0 .. 61
  BY <1>4, TagTyped
<1>6. \A j \in 1 .. Size : j < k => s[j] = t[j]
  BY <1>3, <1>4, SizeTyped
<1> HIDE DEF D
<1>7. s[k] < t[k] \/ t[k] < s[k]
  BY <1>4, <1>5
<1>8. \A j \in 1 .. Size : j < k => t[j] = s[j]
  BY <1>6
<1> QED
  BY <1>4, <1>6, <1>7, <1>8, Zenon DEF Before

LEMMA BeforeOrder ==
  ASSUME NEW s \in AllTags, NEW t \in AllTags
  PROVE  /\ ~Before(s, s)
         /\ Before(s, t) => ~Before(t, s)
         /\ \A u \in AllTags : Before(s, t) /\ Before(t, u) => Before(s, u)
<1>1. \A r \in AllTags : \A k \in 1 .. Size : r[k] \in 0 .. 61
  BY TagTyped
<1>2. ~Before(s, s)
  BY <1>1 DEF Before
<1>3. ASSUME NEW u \in AllTags, Before(s, t), Before(t, u) PROVE Before(s, u)
  <2>1. PICK a \in 1 .. Size : s[a] < t[a] /\ \A j \in 1 .. Size : j < a => s[j] = t[j]
    BY <1>3 DEF Before
  <2>2. PICK b \in 1 .. Size : t[b] < u[b] /\ \A j \in 1 .. Size : j < b => t[j] = u[j]
    BY <1>3 DEF Before
  <2>3. CASE a <= b
    <3>1. s[a] < u[a]
      <4>1. a = b \/ (a < b /\ t[a] = u[a])
        BY <2>2, <2>3, SizeTyped
      <4>2. s[a] \in 0 .. 61 /\ t[a] \in 0 .. 61 /\ u[a] \in 0 .. 61
        BY <1>1
      <4>3. t[a] = u[a] \/ t[a] < u[a]
        BY <2>2, <4>1
      <4> QED
        BY <2>1, <4>2, <4>3
    <3>2. \A j \in 1 .. Size : j < a => s[j] = u[j]
      BY <2>1, <2>2, <2>3, SizeTyped
    <3> QED
      BY <3>1, <3>2, Zenon DEF Before
  <2>4. CASE b < a
    <3>1. s[b] < u[b]
      BY <2>1, <2>2, <2>4
    <3>2. \A j \in 1 .. Size : j < b => s[j] = u[j]
      BY <2>1, <2>2, <2>4, SizeTyped
    <3> QED
      BY <3>1, <3>2, Zenon DEF Before
  <2> QED
    BY <2>3, <2>4, SizeTyped
<1>4. Before(s, t) => ~Before(t, s)
  BY <1>2, <1>3
<1> QED
  BY <1>2, <1>3, <1>4

\* The next tag in that order: one more at some place, and the first at each place
\* after it.
LEMMA Successor ==
  ASSUME NEW t \in AllTags, NEW n \in AllTags,
         NEW k \in 1 .. Size, n[k] = t[k] + 1,
         \A j \in 1 .. Size : j < k => n[j] = t[j],
         \A j \in 1 .. Size : k < j => t[j] = 61 /\ n[j] = 0
  PROVE  /\ Before(t, n)
         /\ \A u \in AllTags : ~(Before(t, u) /\ Before(u, n))
<1>1. \A r \in AllTags : \A j \in 1 .. Size : r[j] \in 0 .. 61
  BY TagTyped
<1>2. t[k] < n[k]
  BY <1>1
<1>3. Before(t, n)
  <2>1. \A j \in 1 .. Size : j < k => t[j] = n[j]
    OBVIOUS
  <2> QED
    BY <1>2, <2>1, Zenon DEF Before
<1>4. ASSUME NEW u \in AllTags, Before(t, u), Before(u, n) PROVE FALSE
  <2>1. PICK a \in 1 .. Size : t[a] < u[a] /\ \A j \in 1 .. Size : j < a => t[j] = u[j]
    BY <1>4 DEF Before
  <2>2. PICK b \in 1 .. Size : u[b] < n[b] /\ \A j \in 1 .. Size : j < b => u[j] = n[j]
    BY <1>4 DEF Before
  <2>3. /\ t[a] \in 0 .. 61 /\ u[a] \in 0 .. 61 /\ n[a] \in 0 .. 61
        /\ t[b] \in 0 .. 61 /\ u[b] \in 0 .. 61 /\ n[b] \in 0 .. 61
    BY <1>1
  <2>4. ~(k < a) /\ ~(k < b)
    BY <2>1, <2>2, <2>3
  <2>5. a < b => u[a] = n[a] /\ n[a] = t[a]
    BY <2>2, <2>4, SizeTyped
  <2>6. b < a => u[b] = t[b] /\ n[b] = t[b]
    BY <2>1, <2>4, SizeTyped
  <2>7. a = b => n[a] = t[a] \/ n[a] = t[a] + 1
    BY <2>4, SizeTyped
  <2>8. a < b \/ b < a \/ a = b
    BY SizeTyped
  <2> QED
    BY <2>1, <2>2, <2>3, <2>5, <2>6, <2>7, <2>8
<1> QED
  BY <1>3, <1>4

\* After the last tag comes the first, and after any other the next.
LEMMA NextInOrder ==
  ASSUME NEW t \in AllTags, NEW n, n = imap4_tag_inc(t)
  PROVE  /\ n \in AllTags
         /\ \/ /\ Before(t, n)
               /\ \A u \in AllTags : ~(Before(t, u) /\ Before(u, n))
            \/ \A u \in AllTags : ~Before(t, u) /\ ~Before(u, n)
<1> DEFINE full == {k \in 1 .. Size : \A j \in k .. Size : t[j] = 61}
<1>1. /\ DOMAIN t = 1 .. Size /\ Len(t) = Size
      /\ \A k \in 1 .. Size : t[k] \in 0 .. 61
  BY TagTyped
<1>2. n = [k \in 1 .. Size |-> IF k \in full THEN 0
                               ELSE IF k = Size \/ k + 1 \in full THEN t[k] + 1 ELSE t[k]]
  BY <1>1 DEF imap4_tag_inc
<1>3. n \in [1 .. Size -> Int]
  <2>1. ASSUME NEW k \in 1 .. Size PROVE t[k] \in Int /\ t[k] + 1 \in Int
    <3>1. t[k] \in 0 .. 61
      BY <1>1
    <3> QED
      BY <3>1
  <2> HIDE DEF full
  <2> QED
    BY <1>2, <2>1
<1>4. CASE \A k \in 1 .. Size : t[k] = 61
  <2>1. \A k \in 1 .. Size : k \in full
    BY <1>4, SizeTyped
  <2> HIDE DEF full
  <2>2. \A k \in 1 .. Size : n[k] = 0
    BY <1>2, <2>1
  <2>3. n \in AllTags
    <3>1. \A k \in 1 .. Size : n[k] \in 0 .. 61
      BY <2>2
    <3> QED
      BY <1>3, <3>1, TagMade
  <2>4. ASSUME NEW u \in AllTags PROVE ~Before(t, u) /\ ~Before(u, n)
    <3>1. \A k \in 1 .. Size : u[k] \in 0 .. 61
      BY TagTyped
    <3>2. \A k \in 1 .. Size : ~(t[k] < u[k]) /\ ~(u[k] < n[k])
      BY <1>4, <2>2, <3>1
    <3> QED
      BY <3>2 DEF Before
  <2> QED
    BY <2>3, <2>4
<1>5. CASE \E k \in 1 .. Size : t[k] # 61
  <2> DEFINE S == {k \in 1 .. Size : t[k] # 61}
  <2>1. PICK k \in S : \A j \in S : j <= k
    <3>1. S \in SUBSET (1 .. Size) /\ S # {}
      BY <1>5
    <3> QED
      BY <3>1, LastPlace, SizeTyped
  <2>2. k \in 1 .. Size /\ t[k] # 61 /\ \A j \in 1 .. Size : k < j => t[j] = 61
    BY <2>1, SizeTyped
  <2> HIDE DEF S
  <2>3. \A j \in 1 .. Size : j \in full <=> k < j
    BY <2>2, SizeTyped
  <2>4. \A j : j \in full => j \in 1 .. Size
    OBVIOUS
  <2> HIDE DEF full
  <2>5. n[k] = t[k] + 1
    <3>1. k = Size \/ k + 1 \in full
      BY <2>2, <2>3, SizeTyped
    <3>2. k \notin full
      BY <2>2, <2>3, SizeTyped
    <3> QED
      BY <1>2, <2>2, <3>1, <3>2
  <2>6. \A j \in 1 .. Size : j < k => n[j] = t[j]
    <3>1. \A j \in 1 .. Size : j < k => j \notin full /\ j # Size /\ j + 1 \notin full
      BY <2>2, <2>3, <2>4, SizeTyped
    <3> QED
      BY <1>2, <3>1
  <2>7. \A j \in 1 .. Size : k < j => n[j] = 0
    BY <1>2, <2>3
  <2>8. n \in AllTags
    <3>1. \A j \in 1 .. Size : j < k \/ j = k \/ k < j
      BY <2>2, SizeTyped
    <3>2. t[k] + 1 \in 0 .. 61
      <4>1. t[k] \in 0 .. 61 /\ t[k] # 61
        BY <1>1, <2>2
      <4> QED
        BY <4>1
    <3>3. ASSUME NEW j \in 1 .. Size PROVE n[j] \in 0 .. 61
      <4>1. t[j] \in 0 .. 61
        BY <1>1
      <4>2. n[j] = t[j] \/ n[j] = t[k] + 1 \/ n[j] = 0
        BY <2>5, <2>6, <2>7, <3>1
      <4> QED
        BY <3>2, <4>1, <4>2
    <3> QED
      BY <1>3, <3>3, TagMade
  <2> QED
    BY <2>2, <2>5, <2>6, <2>7, <2>8, Successor
<1> QED
  BY <1>4, <1>5

\* The tags so far are those from the first to the current one, in the order that goes
\* on from the last tag to the first, or all there are.
CycleInv ==
  /\ our_tag \in AllTags
  /\ \/ /\ ~Before(our_tag, FirstTag)
        /\ used = {u \in AllTags : ~Before(u, FirstTag) /\ ~Before(our_tag, u)}
     \/ /\ Before(our_tag, FirstTag)
        /\ used = {u \in AllTags : ~Before(u, FirstTag) \/ ~Before(our_tag, u)}
     \/ used = AllTags

\* The first tag alone is such a stretch.
LEMMA FromTheFirst == TagInit => CycleInv
<1>1. \A u \in AllTags : ~Before(u, FirstTag) /\ ~Before(FirstTag, u) => u = FirstTag
  BY FirstTagTyped, BeforeTotal, Zenon
<1>2. ~Before(FirstTag, FirstTag)
  BY FirstTagTyped, BeforeOrder
<1> QED
  BY <1>1, <1>2, FirstTagTyped DEF TagInit, CycleInv

\* A tag that is new makes the stretch longer by one, and one that is not is the first,
\* when there is none left.
LEMMA StepCycle ==
  ASSUME CycleInv, NextTag
  PROVE  CycleInv' /\ (our_tag' \notin used \/ \A t \in AllTags : t \in used)
<1> DEFINE F == FirstTag
           t == our_tag
           n == our_tag'
<1>1. t \in AllTags /\ F \in AllTags
  BY FirstTagTyped DEF CycleInv
<1>2. n = imap4_tag_inc(t) /\ used' = used \cup {n}
  BY DEF NextTag
<1>3. n \in AllTags
  BY <1>1, <1>2, NextInOrder
<1>4. \/ Before(t, n) /\ \A u \in AllTags : ~(Before(t, u) /\ Before(u, n))
      \/ \A u \in AllTags : ~Before(t, u) /\ ~Before(u, n)
  BY <1>1, <1>2, NextInOrder
<1>5. \A r, s \in AllTags : /\ r = s \/ Before(r, s) \/ Before(s, r)
                            /\ ~Before(r, r)
                            /\ Before(r, s) => ~Before(s, r)
  BY BeforeTotal, BeforeOrder
<1>6. \A r, s, u \in AllTags : Before(r, s) /\ Before(s, u) => Before(r, u)
  BY BeforeOrder
<1> HIDE DEF F, t, n
<1>7. CASE used = AllTags
  BY <1>2, <1>3, <1>7 DEF CycleInv, n
<1>8. CASE /\ ~Before(t, F) /\ used = {u \in AllTags : ~Before(u, F) /\ ~Before(t, u)}
           /\ Before(t, n) /\ \A u \in AllTags : ~(Before(t, u) /\ Before(u, n))
  <2>1. n \notin used
    BY <1>8
  <2>2. ~Before(n, F)
    BY <1>1, <1>3, <1>5, <1>6, <1>8
  <2>3. \A u \in AllTags : ~Before(n, u) <=> ~Before(t, u) \/ u = n
    BY <1>1, <1>3, <1>5, <1>6, <1>8
  <2>4. used' = {u \in AllTags : ~Before(u, F) /\ ~Before(n, u)}
    BY <1>2, <1>3, <1>8, <2>2, <2>3
  <2> QED
    BY <1>3, <2>1, <2>2, <2>4 DEF CycleInv, n, F
<1>9. CASE /\ ~Before(t, F) /\ used = {u \in AllTags : ~Before(u, F) /\ ~Before(t, u)}
           /\ \A u \in AllTags : ~Before(t, u) /\ ~Before(u, n)
  <2>1. used = {u \in AllTags : ~Before(u, F)}
    BY <1>9
  <2>2. CASE n = F
    <3>1. used = AllTags
      BY <1>9, <2>1, <2>2
    <3> QED
      BY <1>7, <3>1
  <2>3. CASE n # F
    <3>1. Before(n, F)
      BY <1>1, <1>3, <1>5, <1>9, <2>3
    <3>2. \A u \in AllTags : ~Before(n, u) <=> u = n
      BY <1>3, <1>5, <1>9
    <3>3. used' = {u \in AllTags : ~Before(u, F) \/ ~Before(n, u)}
      BY <1>2, <1>3, <2>1, <3>2
    <3>4. n \notin used
      BY <2>1, <3>1
    <3> QED
      BY <1>3, <3>1, <3>3, <3>4 DEF CycleInv, n, F
  <2> QED
    BY <2>2, <2>3
<1>10. CASE /\ Before(t, F) /\ used = {u \in AllTags : ~Before(u, F) \/ ~Before(t, u)}
            /\ Before(t, n) /\ \A u \in AllTags : ~(Before(t, u) /\ Before(u, n))
  <2>1. \A u \in AllTags : ~Before(n, u) <=> ~Before(t, u) \/ u = n
    BY <1>1, <1>3, <1>5, <1>6, <1>10
  <2>2. CASE n = F
    <3>1. \A u \in AllTags : u \in used
      BY <1>10, <2>2
    <3>2. used = AllTags
      BY <1>10, <3>1
    <3> QED
      BY <1>7, <3>2
  <2>3. CASE n # F
    <3>1. Before(n, F)
      BY <1>1, <1>3, <1>5, <1>10, <2>3
    <3>2. used' = {u \in AllTags : ~Before(u, F) \/ ~Before(n, u)}
      BY <1>2, <1>3, <1>10, <2>1
    <3>3. n \notin used
      BY <1>10, <3>1
    <3> QED
      BY <1>3, <3>1, <3>2, <3>3 DEF CycleInv, n, F
  <2> QED
    BY <2>2, <2>3
<1>11. CASE /\ Before(t, F)
            /\ \A u \in AllTags : ~Before(t, u) /\ ~Before(u, n)
  BY <1>1, <1>11
<1> QED
  BY <1>4, <1>7, <1>8, <1>9, <1>10, <1>11 DEF CycleInv, t, F

\* For a first tag of any length, no command of a session has the tag of an earlier
\* one unless that is CAPABILITY, directly before it, or all tags of that length were
\* used: imap4_tag_inc() goes through them all.  So a counter stands for the tag in
\* RealServer, where a CAPABILITY that ends early does not count.
THEOREM TagsDiffer == TagSpec => TagsDoNotRepeat
<1>1. CycleInv /\ NewSession => CycleInv'
  <2>1. NewSession => TagInit'
    BY DEF NewSession, TagInit
  <2>2. TagInit' => CycleInv'
    BY FromTheFirst, PTL
  <2> QED
    BY <2>1, <2>2
<1>2. CycleInv /\ (SameTag \/ UNCHANGED tag_vars) => CycleInv'
  BY DEF CycleInv, tag_vars, SameTag
<1>3. CycleInv /\ [TagNext]_tag_vars => CycleInv'
  BY <1>1, <1>2, StepCycle DEF TagNext
<1>4. SameTag => our_tag' = our_tag /\ latest # "other"
  BY DEF SameTag
<1>5. CycleInv /\ [TagNext]_tag_vars =>
        [NextTag \/ SameTag =>
           \/ our_tag' \notin used
           \/ our_tag' = our_tag /\ latest # "other"
           \/ \A t \in AllTags : t \in used]_tag_vars
  BY <1>4, StepCycle
<1> QED
  BY <1>3, <1>5, FromTheFirst, PTL DEF TagSpec, TagsDoNotRepeat
=============================================================================
