----------------------------- MODULE TwoParsers -----------------------------
(***************************************************************************)
(* The parser of the web server, HttpParser, beside the program it was     *)
(* made from, LineParser: both are sent the first request of a connection, *)
(* cut in the same way.  The server drops a line that is not valid without *)
(* a word; the program answers that something is wrong.                    *)
(***************************************************************************)
EXTENDS HttpParser

CONSTANT BUFFER_SIZE    \* of the program, in tokens

ASSUME TwoParsersAssumption == BUFFER_SIZE \in Nat \ {0}

VARIABLES buffer, checked_index, start_line, checkstate, retcode, more, demo_pc

demoVars == <<buffer, checked_index, start_line, checkstate, retcode, more,
              demo_pc>>

Demo == INSTANCE LineParser WITH pc <- demo_pc

\* What the server reads in this step is what the program receives.
Reading == pc = "wait" /\ pc' = "while"
Arrived == SubSeq(message, m_read_idx + 1, m_read_idx')
Follow ==
    IF Reading /\ requests = 1 /\ demo_pc = "recv"
    THEN Demo!Recv(Arrived) \/ Demo!RecvFull(Arrived)
    ELSE UNCHANGED demoVars

\* The program goes on by itself; the server takes its steps when it does not.
\* The two share nothing, so other interleavings show nothing else.
Busy == demo_pc = "parse_content" \/ (demo_pc = "recv" /\ more)
GoOn == Busy /\ (Demo!parse_content \/ Demo!RecvFull(<<>>)) /\ UNCHANGED vars

TwoInit == Init /\ Demo!Init
TwoNext == (~Busy /\ Next /\ Follow) \/ GoOn

\* Neither process_read, which runs on a worker, nor the program is starved; no
\* client is obliged to send.
TwoSpec ==
    /\ TwoInit
    /\ [][TwoNext]_<<vars, demoVars>>
    /\ WF_vars(ProcessRead) /\ WF_demoVars(GoOn)

-----------------------------------------------------------------------------
(* Properties.                                                             *)

\* Where a line is not valid for 8_3.cpp: a CR that no LF follows, or an LF after
\* no CR.
Invalid(s) ==
    {i \in 1..Len(s) :
        \/ s[i] = "CR" /\ i < Len(s) /\ s[i + 1] # "LF"
        \/ s[i] = "LF" /\ (i = 1 \/ s[i - 1] # "CR")}
Valid(s) ==
    IF Invalid(s) = {} THEN s
    ELSE SubSeq(s, 1, (CHOOSE i \in Invalid(s) : \A j \in Invalid(s) : i <= j) - 1)

\* The verdict on the valid lines, or that on the first line that is not.
Expected(s) ==
    IF HeadVerdict(Valid(s)) = "NO_REQUEST" /\ Invalid(s) # {}
    THEN "BAD_REQUEST"
    ELSE HeadVerdict(Valid(s))

\* However a request is cut, the program of 8_3.cpp gives the verdict of the
\* server's reference on its lines, up to the first that is not valid, and
\* BAD_REQUEST for that one: the line parsers of 8_3.cpp:39 and http_conn.cpp:91
\* agree on every line that ends in CR and LF, wherever it is cut.
SameVerdict == demo_pc # "parse_content" => retcode = Expected(buffer)
=============================================================================
