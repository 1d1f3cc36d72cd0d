----------------------------- MODULE MCHttpConn -----------------------------
(* Small instances of the two halves of http_conn.cpp for TLC.  The parser *)
(* has the start of a request line followed by every sequence of up to     *)
(* five tokens that parse_line tells apart, the same for requests with a   *)
(* body, and longer requests by hand; the reply has two error pages, one   *)
(* of which does not fit the buffer.  The two share nothing: the states    *)
(* are those of the one and those of the other, not the pairs.             *)
EXTENDS TwoParsers, HttpReply, SequencesExt

CRLF == <<"CR", "LF">>
Alphabet == {"other", "r", "CR", "LF"}

Generated == {<<"get">> \o s : s \in BoundedSeq(Alphabet, 5)}

\* Headers that announce a body, and any four tokens: the empty line and a body
\* of two, or less.
Bodies ==
    {<<"get">> \o CRLF \o <<"len">> \o CRLF \o s : s \in BoundedSeq(Alphabet, 4)}

WithBody == <<"get">> \o CRLF \o <<"len">> \o CRLF \o CRLF \o <<"body", "body">>

\* Requests that announce no body, one of negative length, and one that ends
\* behind the greatest int.
NoLength == <<"get">> \o CRLF \o <<"len">> \o CRLF \o <<"other", "r">> \o CRLF \o CRLF
Negative == <<"get">> \o CRLF \o <<"len">> \o CRLF \o <<"other">> \o CRLF \o CRLF
BeforeBuffer == <<"get">> \o CRLF \o <<"keep">> \o CRLF \o <<"len">> \o CRLF \o CRLF
Huge == <<"get">> \o CRLF \o <<"len">> \o CRLF \o <<"r">> \o CRLF \o CRLF

ByHand == {
    <<"get">> \o CRLF \o <<"keep">> \o CRLF \o CRLF,
    <<"get">> \o CRLF \o <<"other", "r", "LF">> \o CRLF,
    <<"get">> \o CRLF \o <<"other", "CR", "other">> \o CRLF \o CRLF,
    <<"other">> \o CRLF \o CRLF,
    <<"r", "LF">>,
    <<"LF">>,
    <<"get">> \o CRLF \o <<"other", "other", "other">> \o CRLF \o <<"other", "other", "other", "other", "other">>,
    WithBody,
    WithBody \o <<"other", "other">>,
    WithBody \o <<"r", "LF">>,
    NoLength, Negative, BeforeBuffer, Huge}

AllMessages == Generated \cup Bodies \cup ByHand

MCLengths ==
    [m \in AllMessages |->
        CASE m = NoLength -> 0
          [] m = Negative -> -1
          [] m = BeforeBuffer -> -20
          [] m = Huge -> INT_MAX
          [] OTHER -> 2]

PageLengths ==
    [c \in {"NO_RESOURCE", "FORBIDDEN_REQUEST", "EMPTY"} |->
        IF c = "FORBIDDEN_REQUEST" THEN 3 ELSE 1]

\* The replies begin in one of the initial states of the parser.
FirstRequest == TwoInit /\ message = NoLength

UsesParser == ReplyInit /\ TwoNext /\ UNCHANGED replyVars
UsesReply == FirstRequest /\ ReplyNext /\ UNCHANGED <<vars, demoVars>>
MCInit == TwoInit /\ ReplyInit
MCSpec ==
    /\ MCInit
    /\ [][UsesParser \/ UsesReply]_<<vars, demoVars, replyVars>>
    /\ WF_vars(ProcessRead) /\ WF_demoVars(GoOn)
    /\ WF_replyVars(WriteLoop)
=============================================================================
