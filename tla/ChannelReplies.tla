---------------------------- MODULE ChannelReplies ----------------------------
(* What an alert channel makes of the bytes a peer sends: the reply of a    *)
(* webhook, its head and a body framed by a length, by chunks or by the end *)
(* of the connection, in whatever pieces it arrives; and the dialogue with  *)
(* a mail server, whose answers may have several lines and whose connection *)
(* may end anywhere.                                                        *)
(* A reply is a sequence of tokens; a line end is one of them.              *)
EXTENDS Integers, Sequences, SequencesExt, TLC

CONSTANTS
  ReadBuffer,         \* what one read takes at most
  MaxHead,            \* MAX_RESPONSE_HEADER_BYTES
  MaxBody,            \* MAX_RESPONSE_BODY_BYTES
  MaxAnswer,          \* SMTP_MAX_RESPONSE_BYTES, in lines
  Recipients          \* config.recipients

ASSUME RepliesAssumption ==
  ReadBuffer \in Nat \ {0} /\ MaxHead \in Nat /\ MaxBody \in Nat /\ MaxAnswer \in Nat /\ Recipients \in Nat

VARIABLES
  channel,            \* the kind of channel and what its peer will send
  wire,               \* sent and not read
  got,                \* read of a reply's head, then of its body; or of an answer
  phase,              \* how far the channel is
  mailbox,            \* what the mail server has
  verdict             \* what came of the delivery

replyVars == <<channel, wire, got, phase, mailbox, verdict>>

----------------------------------------------------------------------------
(* Replies.                                                                 *)

End == "\n"
Document(errcode) == <<"{", errcode, "}">>

\* A document in chunks: of three, of one each, or of two and one.
InChunks(doc) ==
  {<<"3", End>> \o doc \o <<End, "0", End, End>>,
   <<"1", End, doc[1], End, "1", End, doc[2], End, "1", End, doc[3], End, "0", End, End>>,
   <<"2", End, doc[1], doc[2], End, "1", End, doc[3], End, "0", End, End>>}

Bodies(framing, errcode) ==
  CASE framing = "length" -> {Document(errcode), Document(errcode) \o <<"junk">>}
    [] framing = "chunked" -> InChunks(Document(errcode))
    [] OTHER -> {Document(errcode)}

\* A reply: its status line, its headers, an empty line and a body, up to where the peer stops, closing or not.
Replies ==
  {[kind |-> kind, head |-> head, framing |-> framing, errcode |-> errcode, closes |-> closes, sent |-> sent] :
     kind \in {"webhook", "wecom"}, framing \in {"length", "huge", "chunked", "close"}, errcode \in {"0", "1"},
     closes \in BOOLEAN, sent \in 0..24,
     head \in {<<status, End>> : status \in {"200", "500"}} \cup {<<"200", End, "x", "x", "x", End>>}}

HeadLength(r) == Len(r.head) + 3
Whole(r, body) == r.head \o <<r.framing, End, End>> \o body

----------------------------------------------------------------------------
(* Reading a reply.                                                         *)

Holds(s, t) == \E i \in 0..Len(s) - Len(t) : SubSeq(s, i + 1, i + Len(t)) = t
FirstAt(s, t) == CHOOSE i \in 0..Len(s) - Len(t) :
  SubSeq(s, i + 1, i + Len(t)) = t /\ \A j \in 0..i - 1 : SubSeq(s, j + 1, j + Len(t)) # t

HasHead(s) == Holds(s, <<End, End>>)
HeadOf(s) == IF HasHead(s) THEN SubSeq(s, 1, FirstAt(s, <<End, End>>)) ELSE s
BodyOf(s) == IF HasHead(s) THEN SubSeq(s, FirstAt(s, <<End, End>>) + 3, Len(s)) ELSE <<>>

Framing(head) ==
  IF \E f \in {"chunked", "length", "huge"} : Holds(head, <<f>>)
  THEN CHOOSE f \in {"chunked", "length", "huge"} : Holds(head, <<f>>) ELSE "close"

\* The last chunk, first of all or after a line end.
AnyZeroLine(body) == Holds(body, <<"0", End>>)
ChunkedComplete(body) ==
  (Len(body) >= 3 /\ SubSeq(body, 1, 3) = <<"0", End, End>>) \/ Holds(body, <<End, "0", End, End>>)

Complete(framing, body) ==
  CASE framing = "length" -> Len(body) >= 3 [] framing = "chunked" -> ChunkedComplete(body) [] OTHER -> FALSE

\* The contents of the chunks, or of as many tokens as were declared; nothing if they cannot be read.
SizeOf(token) == CASE token = "0" -> 0 [] token = "1" -> 1 [] token = "2" -> 2 [] token = "3" -> 3 [] OTHER -> -1
ChunkStep(d) ==
  IF d.over \/ Len(d.left) < 2 THEN [d EXCEPT !.over = TRUE]
  ELSE LET size == SizeOf(d.left[1]) IN
    IF size = 0 THEN [d EXCEPT !.over = TRUE, !.whole = TRUE]
    ELSE IF size < 0 \/ d.left[2] # End \/ Len(d.left) < size + 3 THEN [d EXCEPT !.over = TRUE]
    ELSE [d EXCEPT !.text = @ \o SubSeq(d.left, 3, size + 2), !.left = SubSeq(@, size + 4, Len(@))]
DecodeChunked(body) ==
  LET d == FoldLeft(LAMBDA acc, i : ChunkStep(acc), [left |-> body, text |-> <<>>, over |-> FALSE, whole |-> FALSE],
                    [i \in 1..Len(body) |-> i])
  IN  IF d.whole THEN d.text ELSE <<>>

Decoded(framing, body) ==
  CASE framing = "chunked" -> DecodeChunked(body) [] framing = "length" -> SubSeq(body, 1, 3) [] OTHER -> body

JudgeBody(text) ==
  CASE text = Document("0") -> "ok" [] text = Document("1") -> "rejected" [] OTHER -> "invalid"

Judged(v) == verdict' = v /\ UNCHANGED <<channel, wire, mailbox, phase, got>>

\* One read, of whatever has arrived; the end of the connection is a read of nothing.
Reads(next) ==
  \/ \E k \in 1..ReadBuffer :
       /\ k <= Len(wire)
       /\ got' = got \o SubSeq(wire, 1, k) /\ wire' = SubSeq(wire, k + 1, Len(wire))
       /\ UNCHANGED <<channel, mailbox, phase, verdict>>
  \/ /\ wire = <<>> /\ channel.closes
     /\ phase' = next
     /\ UNCHANGED <<channel, wire, mailbox, got, verdict>>

Waiting(p) == verdict = "none" /\ phase = p

\* The head is read up to its empty line, within its limit.
ReadHead ==
  /\ Waiting("head") /\ ~HasHead(got)
  /\ IF Len(got) > MaxHead THEN Judged("large") ELSE Reads("headOver")

\* Then the status decides; of a group robot the body too.
JudgeHead ==
  /\ verdict = "none" /\ (phase = "headOver" \/ (phase = "head" /\ HasHead(got)))
  /\ LET head == HeadOf(got) IN
       \/ head = <<>> /\ Judged("invalid")
       \/ head # <<>> /\ head[1] # "200" /\ Judged("status")
       \/ head # <<>> /\ head[1] = "200" /\ channel.kind = "webhook" /\ Judged("ok")
       \/ /\ head # <<>> /\ head[1] = "200" /\ channel.kind = "wecom"
          /\ phase' = Framing(head) /\ got' = BodyOf(got)
          /\ UNCHANGED <<channel, wire, mailbox, verdict>>

\* A body that is declared too long is not read.
JudgeHuge == Waiting("huge") /\ Judged("large")

\* Any other is read up to its declared end.
ReadBody(framing) ==
  /\ Waiting(framing) /\ ~Complete(framing, got)
  /\ IF Len(got) > MaxBody THEN Judged("large") ELSE Reads(IF framing = "close" THEN "closed" ELSE "cut")

JudgeWhole(framing) ==
  /\ \/ Waiting(framing) /\ Complete(framing, got)
     \/ Waiting("closed") /\ framing = "close"
  /\ Judged(JudgeBody(Decoded(framing, got)))

\* The connection ended before the declared end.
JudgeCut == Waiting("cut") /\ Judged("invalid")

----------------------------------------------------------------------------
(* The mail dialogue.                                                       *)

\* The texts to send, in lines.
Letters == {<<a, b>> : a, b \in {<<>>, <<".">>, <<".", "a">>, <<"a">>}}
DotStuff(letter) == [i \in DOMAIN letter |->
  IF letter[i] # <<>> /\ letter[i][1] = "." THEN <<".">> \o letter[i] ELSE letter[i]]

\* What the server takes of the lines it is sent: up to a lone dot, without the first dot of a line.
Unstuffed(line) == IF line # <<>> /\ line[1] = "." THEN Tail(line) ELSE line
Received(lines) ==
  LET end == CHOOSE i \in DOMAIN lines : lines[i] = <<".">> /\ \A j \in 1..i - 1 : lines[j] # <<".">>
  IN  [i \in 1..end - 1 |-> Unstuffed(lines[i])]

\* What is said, in order: each waits for its answer.
Said(c) ==
  (IF c.transport = "starttls" THEN <<"greeting", "ehlo", "starttls", "ehlo">> ELSE <<"greeting", "ehlo">>)
    \o (IF c.login THEN <<"auth">> ELSE <<>>) \o <<"mail">> \o [r \in 1..Recipients |-> "rcpt"]
    \o <<"data", "text", "quit">>

Expects(said) ==
  CASE said \in {"greeting", "starttls"} -> {220} [] said = "auth" -> {235} [] said = "rcpt" -> {250, 251}
    [] said = "data" -> {354} [] said = "quit" -> {221, 500} [] OTHER -> {250}

\* A line of an answer: one that others follow, or the last.
Line(code, last, stray) == [code |-> code, last |-> last, stray |-> stray]

Saying == Said(channel)[mailbox.at]

\* The server answers what was said, in one line or two; it may refuse, or say more than it was asked before the
\* connection is encrypted; a text it takes is taken before its answer is.
ServerAnswers ==
  /\ verdict = "none" /\ phase = "asked"
  /\ \E code \in Expects(Saying) \cup {500} :
       /\ \E more \in {<<>>, <<Line(code, FALSE, FALSE)>>},
            stray \in IF Saying = "starttls" THEN {<<>>, <<Line(250, TRUE, TRUE)>>} ELSE {<<>>} :
            wire' = more \o <<Line(code, TRUE, FALSE)>> \o stray
       /\ mailbox' = [mailbox EXCEPT
            !.taken = IF Saying = "text" /\ code = 250
                      THEN Append(@, Received(DotStuff(channel.letter) \o <<<<".">>>>)) ELSE @,
            !.to = IF Saying = "rcpt" /\ code # 500 THEN @ + 1 ELSE @]
  /\ phase' = "answering"
  /\ UNCHANGED <<channel, got, verdict>>

\* An answer is read a byte at a time up to the end of its last line, so that nothing after it is.
ReadLine ==
  /\ verdict = "none" /\ phase = "answering" /\ wire # <<>>
  /\ IF Len(got) + 1 > MaxAnswer THEN Judged(IF Saying = "quit" THEN "ok" ELSE "smtp")
     ELSE /\ got' = Append(got, Head(wire)) /\ wire' = Tail(wire)
          /\ phase' = IF Head(wire).last THEN "answered" ELSE phase
          /\ UNCHANGED <<channel, mailbox, verdict>>

\* What comes next: the next word, the encryption of the connection first where it was agreed.
AnswerCode == got[Len(got)].code
GoesOn ==
  /\ verdict = "none" /\ phase = "answered"
  /\ IF Saying = "quit" THEN Judged("ok")
     ELSE IF AnswerCode \notin Expects(Saying) THEN Judged("smtp")
     ELSE \/ Saying = "starttls" /\ Judged("tls")
          \/ /\ Saying = "starttls" => wire = <<>>
             /\ mailbox' = [mailbox EXCEPT !.at = @ + 1]
             /\ got' = <<>> /\ phase' = "asked"
             /\ UNCHANGED <<channel, wire, verdict>>

\* The connection ends: nothing can be said or read any more; of the last word, the answer does not matter.
ConnectionEnds ==
  /\ verdict = "none"
  /\ \/ phase \in {"asked", "answering"} /\ Judged("smtp") /\ (Saying = "quit" => phase = "asked")
     \/ phase \in {"asked", "answering"} /\ Saying = "quit" /\ Judged("ok")

\* The time for a delivery is up.
TimesOut == verdict = "none" /\ Judged("timeout")

----------------------------------------------------------------------------

RepliesInit ==
  /\ got = <<>> /\ verdict = "none" /\ mailbox = [at |-> 1, to |-> 0, taken |-> <<>>]
  /\ \/ /\ phase = "head"
        /\ \E r \in Replies : \E body \in Bodies(r.framing, r.errcode) :
             /\ r.sent <= Len(Whole(r, body))
             /\ channel = [body |-> body] @@ r /\ wire = SubSeq(Whole(r, body), 1, r.sent)
     \/ /\ channel \in {[kind |-> "smtp", transport |-> t, login |-> l, letter |-> m, closes |-> FALSE] :
                          t \in {"plain", "tls", "starttls"}, l \in BOOLEAN, m \in Letters}
        /\ wire = <<>> /\ phase = "asked"

RepliesNext ==
  \/ ReadHead \/ JudgeHead \/ JudgeHuge \/ JudgeCut \/ TimesOut
  \/ \E framing \in {"length", "chunked", "close"} : ReadBody(framing) \/ JudgeWhole(framing)
  \/ ServerAnswers \/ ReadLine \/ GoesOn \/ ConnectionEnds

RepliesSpec == RepliesInit /\ [][RepliesNext]_replyVars

----------------------------------------------------------------------------
(* Properties.                                                              *)

\* Every variable has a value of its type.
RepliesTypeOK ==
  /\ verdict \in {"none", "ok", "status", "invalid", "rejected", "large", "timeout", "smtp", "tls"}
  /\ phase \in {"head", "headOver", "length", "huge", "chunked", "close", "closed", "cut", "asked", "answering", "answered"}
  /\ mailbox.at \in 1..Len(Said([transport |-> "starttls", login |-> TRUE]))

\* What a reply means, from all the peer sent and no matter in which pieces it came.
Meaning(r) ==
  CASE r.sent < HeadLength(r) /\ ~r.closes -> "timeout"
    [] r.sent = 0 -> "invalid"
    [] r.sent > 0 /\ r.head[1] = "500" -> "status"
    [] r.head[1] = "200" /\ r.kind = "webhook" -> "ok"
    [] OTHER ->
       IF r.framing = "huge" /\ r.sent > Len(r.head) THEN "large"
       ELSE IF r.framing = "close" /\ ~r.closes THEN "timeout"
       ELSE IF r.sent >= HeadLength(r) + (IF r.framing = "length" THEN 3 ELSE Len(r.body))
            THEN IF r.errcode = "0" THEN "ok" ELSE "rejected"
       ELSE IF r.closes THEN "invalid" ELSE "timeout"

\* A head or a body beyond its limit may be refused.
BeyondLimits(r) == HeadLength(r) > MaxHead \/ Len(r.body) > MaxBody

\* A delivery counts as made if and only if the peer said so.  A webhook's reply is judged by what it says and not
\* by how its bytes arrive, and one that is cut short is never a success; a mail that counts was taken whole, for
\* every recipient and word for word, and nothing sent before the connection was encrypted is read after
\* (check_response, read_remaining_body, decode_chunked, run_smtp_dialog, read_response, dot_stuff).
RepliesAreJudgedRight ==
  /\ channel.kind # "smtp" /\ verdict \notin {"none", "timeout"} =>
       verdict = Meaning(channel) \/ (verdict = "large" /\ BeyondLimits(channel))
  /\ channel.kind = "smtp" =>
       /\ verdict = "ok" => mailbox.taken # <<>> /\ mailbox.to = Recipients
       /\ Len(mailbox.taken) <= 1 /\ \A i \in DOMAIN mailbox.taken : mailbox.taken[i] = channel.letter
       /\ \A i \in DOMAIN got : ~got[i].stray
===============================================================================
