----------------------------- MODULE LineParser -----------------------------
(***************************************************************************)
(* The program of 8_3.cpp: it takes one connection, parses what arrives    *)
(* line by line, answers with one of two sentences and closes.  It is the  *)
(* parser that http_conn.cpp was made from; tokens are those of            *)
(* HttpParser.tla.  A step is one recv, or one turn of the loop of         *)
(* parse_content: parse_line, and what is done with the line it finds.     *)
(***************************************************************************)
EXTENDS Integers, Sequences

CONSTANT BUFFER_SIZE    \* in tokens

VARIABLES
    buffer,                         \* read_index is its length
    checked_index, start_line,      \* 0-based, as in the code
    checkstate,
    retcode,                        \* the HTTP_CODE parse_content returned last
    more,                           \* data waits in the socket
    pc                              \* "recv", in parse_content, or "closed"

vars == <<buffer, checked_index, start_line, checkstate, retcode, more, pc>>

read_index == Len(buffer)
Char(i) == buffer[i + 1]

Init ==
    /\ buffer = <<>> /\ checked_index = 0 /\ start_line = 0
    /\ checkstate = "REQUESTLINE"
    /\ retcode = "NO_REQUEST"
    /\ more = FALSE
    /\ pc = "recv"

\* recv takes what has arrived, as far as there is room.
Recv(arrived) ==
    LET room == BUFFER_SIZE - read_index
        taken == IF Len(arrived) <= room THEN Len(arrived) ELSE room
    IN  /\ pc = "recv" /\ ~more
        /\ taken > 0
        /\ buffer' = buffer \o SubSeq(arrived, 1, taken)
        /\ more' = (taken < Len(arrived))
        /\ pc' = "parse_content"
        /\ UNCHANGED <<checked_index, start_line, checkstate, retcode>>

\* There is no room: recv returns 0, which is taken for the end of the connection.
RecvFull(arrived) ==
    /\ pc = "recv"
    /\ more \/ (read_index = BUFFER_SIZE /\ arrived # <<>>)
    /\ pc' = "closed"
    /\ UNCHANGED <<buffer, checked_index, start_line, checkstate, retcode, more>>

-----------------------------------------------------------------------------
(* parse_line.                                                             *)

\* The first byte from checked_index on at which the loop stops.
Stops == {i \in checked_index..(read_index - 1) : Char(i) \in {"CR", "LF"}}
Stop == CHOOSE i \in Stops : \A j \in Stops : i <= j

LastIsCR == Stops # {} /\ Char(Stop) = "CR" /\ Stop + 1 = read_index
LineEnds ==
    /\ Stops # {}
    /\ \/ Char(Stop) = "CR" /\ Stop + 1 < read_index /\ Char(Stop + 1) = "LF"
       \/ Char(Stop) = "LF" /\ Stop > 1 /\ Char(Stop - 1) = "CR"

\* parse_content returns.
Return(code, checked) ==
    /\ pc = "parse_content"
    /\ retcode' = code
    /\ checked_index' = checked
    /\ pc' = IF code = "NO_REQUEST" THEN "recv" ELSE "closed"
    /\ UNCHANGED <<buffer, more>>

\* Seeded fault: a CR that is the last byte read is an error.
OpenImpatient ==
    /\ \/ Stops = {} /\ Return("NO_REQUEST", read_index)
       \/ LastIsCR /\ Return("BAD_REQUEST", Stop)
    /\ UNCHANGED <<start_line, checkstate>>

Open ==
    /\ \/ Stops = {} /\ Return("NO_REQUEST", read_index)
       \/ LastIsCR /\ Return("NO_REQUEST", Stop)
    /\ UNCHANGED <<start_line, checkstate>>

Bad ==
    /\ Stops # {} /\ ~LastIsCR /\ ~LineEnds
    /\ Return("BAD_REQUEST", Stop)
    /\ UNCHANGED <<start_line, checkstate>>

-----------------------------------------------------------------------------
(* The lines.  The NULs written over their ends are not read again.        *)

temp == SubSeq(buffer, start_line + 1, Stop)

Ok(state) ==
    /\ pc = "parse_content" /\ LineEnds
    /\ checkstate = state
    /\ start_line' = Stop + 2

NextLine ==
    /\ checked_index' = Stop + 2
    /\ checkstate' = "HEADER"
    /\ UNCHANGED <<buffer, retcode, more, pc>>

RequestLine == Ok("REQUESTLINE") /\ temp = <<"get">> /\ NextLine
Header == Ok("HEADER") /\ temp # <<>> /\ NextLine

RequestLineBad ==
    /\ Ok("REQUESTLINE") /\ temp # <<"get">>
    /\ Return("BAD_REQUEST", Stop + 2)
    /\ UNCHANGED checkstate

HeadersEnd ==
    /\ Ok("HEADER") /\ temp = <<>>
    /\ Return("GET_REQUEST", Stop + 2)
    /\ UNCHANGED checkstate

parse_content ==
    \/ Open \/ Bad
    \/ RequestLine \/ RequestLineBad \/ Header \/ HeadersEnd
=============================================================================
