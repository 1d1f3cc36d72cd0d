----------------------------- MODULE HttpParser -----------------------------
(***************************************************************************)
(* The incremental request parser of http_conn.cpp: read() appends what    *)
(* has arrived to m_read_buf, and process_read() with parse_line(),        *)
(* parse_request_line(), parse_headers() and parse_content() goes on where *)
(* it stopped.  A request arrives cut anywhere.                            *)
(*                                                                         *)
(* The buffer is a sequence of tokens.  "CR", "LF" and the letter "r" are  *)
(* bytes that parse_line looks at; any other token stands for a run of     *)
(* bytes it skips: a request line that parse_request_line accepts ("get"), *)
(* the two headers with a meaning ("keep": Connection: keep-alive, "len":  *)
(* Content-Length), bytes of a body ("body"), anything else ("other").     *)
(* A cut inside such a run reads as a cut before it: parse_line stops at   *)
(* the end of the buffer with LINE_OPEN in both cases.                     *)
(***************************************************************************)
EXTENDS Integers, Sequences

CONSTANTS
    Messages,           \* the requests clients send, sequences of tokens
    Lengths,            \* of each, what atol makes of its Content-Length
    READ_BUFFER_SIZE,   \* in tokens
    INT_MAX,            \* the greatest int, in tokens
    MaxRequests         \* bound: requests on one connection

Tokens == {"get", "keep", "len", "body", "other", "r", "CR", "LF"}

ASSUME HttpParserAssumption ==
    /\ Messages \subseteq Seq(Tokens)
    /\ Lengths \in [Messages -> Int]
    /\ READ_BUFFER_SIZE \in Nat \ {0}
    /\ INT_MAX \in Nat
    /\ MaxRequests \in Nat \ {0}

VARIABLES
    message,            \* the request the client is sending
    m_read_buf,         \* m_read_idx is its length
    m_checked_idx, m_start_line,    \* 0-based, as in the code
    m_check_state, m_content_length, m_linger,
    line_status,        \* local to process_read
    pc,                 \* where process_read is; "wait": epoll waits for input
    result,             \* the HTTP_CODE returned last
    requests,           \* requests sent on this connection
    before              \* history: m_read_idx before the last read

parserVars == <<m_checked_idx, m_start_line, m_check_state, m_content_length,
                m_linger, line_status>>
vars == <<message, m_read_buf, parserVars, pc, result, requests, before>>

m_read_idx == Len(m_read_buf)
Byte(i) == m_read_buf[i + 1]

\* What init() sets.
Initial(buf, checked, start, state, length, linger) ==
    /\ buf = <<>> /\ checked = 0 /\ start = 0
    /\ state = "REQUESTLINE" /\ length = 0 /\ linger = FALSE

Init ==
    /\ message \in Messages
    /\ Initial(m_read_buf, m_checked_idx, m_start_line, m_check_state,
               m_content_length, m_linger)
    /\ line_status = "OK"
    /\ pc = "wait"
    /\ result = "NO_REQUEST"
    /\ requests = 1
    /\ before = 0

-----------------------------------------------------------------------------
(* read(), on EPOLLIN: everything that has arrived, k tokens.              *)

Received == SubSeq(message, 1, m_read_idx)
Arriving(k) == pc = "wait" /\ k \in 1..(Len(message) - m_read_idx)

\* process() follows, by way of the pool.
Read(k) ==
    /\ Arriving(k)
    /\ m_read_idx + k <= READ_BUFFER_SIZE
    /\ m_read_buf' = m_read_buf \o SubSeq(message, m_read_idx + 1, m_read_idx + k)
    /\ before' = m_read_idx
    /\ line_status' = "OK"
    /\ pc' = "while"
    /\ UNCHANGED <<message, m_checked_idx, m_start_line, m_check_state,
                   m_content_length, m_linger, result, requests>>

\* More has arrived than fits: recv is called with no room, returns 0, and read()
\* takes it for the end of the connection; or the buffer was full before.
ReadFull(k) ==
    /\ Arriving(k)
    /\ m_read_idx + k > READ_BUFFER_SIZE
    /\ pc' = "closed"
    /\ UNCHANGED <<message, m_read_buf, parserVars, result, requests, before>>

-----------------------------------------------------------------------------
(* parse_line(): from m_checked_idx to the first byte it stops at.         *)

\* A CR that is the last byte read, or that an LF follows; or an LF.
Stops ==
    {i \in m_checked_idx .. (m_read_idx - 1) :
        \/ Byte(i) = "LF"
        \/ /\ Byte(i) = "CR"
           /\ (i + 1 = m_read_idx \/ Byte(i + 1) = "LF")}
FirstStop == CHOOSE i \in Stops : \A j \in Stops : i <= j

\* The loop of process_read calls parse_line unless a body is expected.
AtParseLine ==
    pc = "while" /\ ~(m_check_state = "CONTENT" /\ line_status = "OK")

\* The two bytes before index `to` are overwritten with NUL.
EndLine(to) ==
    /\ m_read_buf' = [m_read_buf EXCEPT ![to - 1] = "NUL", ![to] = "NUL"]
    /\ m_checked_idx' = to
    /\ line_status' = "OK"
    /\ pc' = "switch"
    /\ UNCHANGED <<message, m_start_line, m_check_state, m_content_length,
                   m_linger, result, requests, before>>

\* Seeded fault: the byte after a CR is taken for an LF without a look at
\* m_read_idx.
LineOkUnbounded ==
    /\ AtParseLine /\ Stops # {}
    /\ Byte(FirstStop) = "CR"
    /\ m_checked_idx' = FirstStop + 2
    /\ line_status' = "OK"
    /\ pc' = "switch"
    /\ UNCHANGED <<message, m_read_buf, m_start_line, m_check_state,
                   m_content_length, m_linger, result, requests, before>>

LineOk ==
    /\ AtParseLine /\ Stops # {}
    /\ Byte(FirstStop) = "CR"
    /\ FirstStop + 1 < m_read_idx
    /\ EndLine(FirstStop + 2)

\* An LF without CR; the code compares the byte before with the letter 'r'.
AfterLetter == FirstStop > 1 /\ Byte(FirstStop - 1) = "r"

LineOkLetter ==
    /\ AtParseLine /\ Stops # {}
    /\ Byte(FirstStop) = "LF" /\ AfterLetter
    /\ EndLine(FirstStop + 1)

\* process_read leaves its loop and returns NO_REQUEST for any status but
\* LINE_OK; process() waits for more input.
Return(status, checked) ==
    /\ line_status' = status
    /\ m_checked_idx' = checked
    /\ pc' = "wait"
    /\ result' = "NO_REQUEST"
    /\ UNCHANGED <<message, m_read_buf, m_start_line, m_check_state,
                   m_content_length, m_linger, requests, before>>

LineBad ==
    /\ AtParseLine /\ Stops # {}
    /\ Byte(FirstStop) = "LF" /\ ~AfterLetter
    /\ Return("BAD", FirstStop)

\* Seeded fault: a CR at the end of the buffer is skipped like any other byte.
LineOpenSkipsCR ==
    /\ AtParseLine
    /\ Stops # {} => Byte(FirstStop) = "CR" /\ FirstStop + 1 = m_read_idx
    /\ Return("OPEN", m_read_idx)

LineOpen ==
    /\ AtParseLine
    /\ \/ Stops = {} /\ Return("OPEN", m_read_idx)
       \/ /\ Stops # {}
          /\ Byte(FirstStop) = "CR" /\ FirstStop + 1 = m_read_idx
          /\ Return("OPEN", FirstStop)

-----------------------------------------------------------------------------
(* The body of the loop of process_read.                                   *)

ExpectBody ==
    /\ pc = "while"
    /\ m_check_state = "CONTENT" /\ line_status = "OK"
    /\ pc' = "switch"
    /\ UNCHANGED <<message, m_read_buf, parserVars, result, requests, before>>

\* get_line(): from m_start_line to the NUL that parse_line wrote.
Line == SubSeq(m_read_buf, m_start_line + 1, m_checked_idx - 2)

Switch(state) ==
    /\ pc = "switch" /\ m_check_state = state
    /\ m_start_line' = m_checked_idx
    /\ UNCHANGED <<message, m_checked_idx, requests, before>>

RequestLineOk ==
    /\ Switch("REQUESTLINE")
    /\ Line = <<"get">>
    /\ m_check_state' = "HEADER"
    /\ pc' = "while"
    /\ UNCHANGED <<m_read_buf, m_content_length, m_linger, line_status, result>>

RequestLineBad ==
    /\ Switch("REQUESTLINE")
    /\ Line # <<"get">>
    /\ result' = "BAD_REQUEST"
    /\ pc' = "answer"
    /\ UNCHANGED <<m_read_buf, m_check_state, m_content_length, m_linger,
                   line_status>>

Header ==
    /\ Switch("HEADER")
    /\ Line # <<>>
    /\ m_linger' = (m_linger \/ Line = <<"keep">>)
    /\ m_content_length' = IF Line = <<"len">> THEN Lengths[message]
                                               ELSE m_content_length
    /\ pc' = "while"
    /\ UNCHANGED <<m_read_buf, m_check_state, line_status, result>>

\* The empty line: the request is complete, or its body follows.
HeaderEnd ==
    /\ Switch("HEADER")
    /\ Line = <<>>
    /\ IF m_content_length # 0
       THEN /\ m_check_state' = "CONTENT"
            /\ pc' = "while"
            /\ UNCHANGED result
       ELSE /\ result' = "GET_REQUEST"
            /\ pc' = "answer"
            /\ UNCHANGED m_check_state
    /\ UNCHANGED <<m_read_buf, m_content_length, m_linger, line_status>>

\* parse_content measures the body from m_checked_idx, in ints.
Overflows == m_content_length + m_checked_idx > INT_MAX
BodyWhole == m_read_idx >= m_content_length + m_checked_idx

\* text[m_content_length]; text is the line that m_start_line began.  What is
\* before m_read_buf belongs to m_address and m_sockfd.
BodyEnd == m_start_line + m_content_length
OutOfBuffer == BodyWhole /\ BodyEnd < 0

ContentUndefined ==
    /\ Switch("CONTENT")
    /\ Overflows \/ OutOfBuffer
    /\ pc' = "undefined"
    /\ UNCHANGED <<m_read_buf, m_check_state, m_content_length, m_linger,
                   line_status, result>>

\* The NUL replaces a byte that has been received.  Behind those it changes
\* nothing: there the buffer is zero, and so is the first byte after it, which is
\* the low byte of m_read_idx, 2048 when the buffer is full.
ContentWhole ==
    /\ Switch("CONTENT")
    /\ ~Overflows /\ BodyWhole /\ ~OutOfBuffer
    /\ m_read_buf' = [i \in DOMAIN m_read_buf |->
                        IF i = BodyEnd + 1 THEN "NUL" ELSE m_read_buf[i]]
    /\ result' = "GET_REQUEST"
    /\ pc' = "answer"
    /\ UNCHANGED <<m_check_state, m_content_length, m_linger, line_status>>

\* Seeded fault: line_status is not set to LINE_OPEN.
ContentOpenForgotten ==
    /\ Switch("CONTENT")
    /\ ~Overflows /\ ~BodyWhole
    /\ pc' = "while"
    /\ UNCHANGED <<m_read_buf, m_check_state, m_content_length, m_linger,
                   line_status, result>>

ContentOpen ==
    /\ Switch("CONTENT")
    /\ ~Overflows /\ ~BodyWhole
    /\ line_status' = "OPEN"
    /\ pc' = "while"
    /\ UNCHANGED <<m_read_buf, m_check_state, m_content_length, m_linger, result>>

\* The reply has been sent: init() and the next request, or the end.
Answer ==
    /\ pc = "answer"
    /\ IF m_linger /\ requests < MaxRequests
       THEN /\ Initial(m_read_buf', m_checked_idx', m_start_line',
                       m_check_state', m_content_length', m_linger')
            /\ message' \in Messages
            /\ pc' = "wait"
            /\ result' = "NO_REQUEST"
            /\ requests' = requests + 1
            /\ before' = 0
            /\ UNCHANGED line_status
       ELSE /\ pc' = "closed"
            /\ UNCHANGED <<message, m_read_buf, parserVars, result, requests,
                           before>>

ProcessRead ==
    \/ LineOk \/ LineOkLetter \/ LineBad \/ LineOpen \/ ExpectBody
    \/ RequestLineOk \/ RequestLineBad \/ Header \/ HeaderEnd
    \/ ContentWhole \/ ContentOpen \/ ContentUndefined

Next ==
    \/ \E k \in 1..Len(message) : Read(k) \/ ReadFull(k)
    \/ ProcessRead
    \/ Answer

Spec == Init /\ [][Next]_vars

-----------------------------------------------------------------------------
(* Properties.                                                             *)

\* Types, and the order of the three indices into m_read_buf.
TypeOK ==
    /\ message \in Messages
    /\ m_read_buf \in Seq(Tokens \cup {"NUL"})
    /\ m_read_idx <= READ_BUFFER_SIZE
    /\ m_checked_idx \in 0..m_read_idx
    /\ m_start_line \in 0..m_checked_idx
    /\ m_check_state \in {"REQUESTLINE", "HEADER", "CONTENT"}
    /\ m_content_length \in {0, Lengths[message]}
    /\ m_linger \in BOOLEAN
    /\ line_status \in {"OK", "OPEN", "BAD"}
    /\ pc \in {"wait", "while", "switch", "answer", "closed", "undefined"}
    /\ result \in {"NO_REQUEST", "BAD_REQUEST", "GET_REQUEST"}
    /\ requests \in 1..MaxRequests
    /\ before \in 0..m_read_idx

\* The reference: what the bytes of a request mean, however they have come.  A
\* line ends in CR and LF.
LineEnds(s) == {i \in 2..Len(s) : s[i - 1] = "CR" /\ s[i] = "LF"}

\* Where an empty line ends; the first one ends the headers.
EmptyLines(s) == {i \in LineEnds(s) : i - 2 \in LineEnds(s)}
HeadersEnd(s) == CHOOSE i \in EmptyLines(s) : \A j \in EmptyLines(s) : i <= j
Announced(s) ==
    \E i \in LineEnds(s) :
        i + 3 \in LineEnds(s) /\ s[i + 1] = "len" /\ i + 3 < HeadersEnd(s)

\* The verdict on the request line and the headers, and that on the request.
HeadVerdict(s) ==
    CASE LineEnds(s) = {} -> "NO_REQUEST"
      [] LineEnds(s) # {} /\ (3 \notin LineEnds(s) \/ s[1] # "get") -> "BAD_REQUEST"
      [] 3 \in LineEnds(s) /\ s[1] = "get" ->
            IF EmptyLines(s) # {} THEN "GET_REQUEST" ELSE "NO_REQUEST"

BodyMissing(s) ==
    /\ HeadVerdict(s) = "GET_REQUEST" /\ Announced(s)
    /\ Len(s) < HeadersEnd(s) + Lengths[message]
Verdict(s) == IF BodyMissing(s) THEN "NO_REQUEST" ELSE HeadVerdict(s)

\* In the head of the request every LF ends a line.
Clean(s) ==
    \A i \in 1..Len(s) :
        s[i] = "LF" /\ i \notin LineEnds(s)
            => EmptyLines(s) # {} /\ HeadersEnd(s) < i

\* An earlier call of read() has ended among the bytes of the body.
BodyCut(s) ==
    /\ HeadVerdict(s) = "GET_REQUEST" /\ Announced(s)
    /\ before > HeadersEnd(s)

\* However a request is cut, whenever process_read returns its verdict is that of
\* the reference on all that has been read: no line is missed, seen twice or glued
\* to another at a cut (http_conn.cpp:103 leaves m_checked_idx on a CR whose LF is
\* still to come), on the first request of the connection and after init(); and a
\* request with a body is never taken for complete before its body is, whatever
\* the bytes of the body do to parse_line and its indices.  Two kinds of requests
\* are exempt, for which the code does not do what its comments say: one with an
\* LF without CR in its head, which is not answered with the error of
\* http_conn.cpp:118 but dropped (http_conn.cpp:260), or taken for a line after a
\* letter r (http_conn.cpp:113); and one whose body is cut, which may wait for
\* ever although it is complete (BodyInAnyCut).
VerdictIsReference ==
    pc \in {"wait", "answer"} /\ Clean(Received)
        => \/ result = Verdict(Received)
           \/ result = "NO_REQUEST" /\ BodyCut(Received)

\* What http_conn.cpp:172 and 206 say of the body: m_content_length bytes of it
\* have to be read, and parse_content judges whether they have been, in any cut.
\* The code measures them from where parse_line stopped in the call before
\* (http_conn.cpp:208, 253), and misses the end of a body that is cut.
BodyInAnyCut ==
    pc \in {"wait", "answer"} /\ Clean(Received) => result = Verdict(Received)

\* process_read returns, unless it does what C++ does not define: the loop between
\* the line parser and the three states (http_conn.cpp:223-258), which CONTENT
\* enters without parse_line, ends.
ProcessReadReturns ==
    pc \in {"while", "switch"} ~> pc \in {"wait", "answer", "undefined"}
=============================================================================
