------------------------------ MODULE HttpReply ------------------------------
(***************************************************************************)
(* The reply side of http_conn.cpp: do_request() maps the file,            *)
(* process_write() fills m_write_buf and m_iv, write() sends them with     *)
(* writev(), unmap() releases the file.  One http_conn object is followed  *)
(* through the replies of a connection and through the connections that    *)
(* use it one after the other.                                             *)
(*                                                                         *)
(* What is sent is a sequence of tokens: one per header line, one per unit *)
(* of an error page, one per memory page of a file, which is the unit of   *)
(* mmap() and munmap().  A token of a file carries the number of the       *)
(* mapping it is read from.                                                *)
(***************************************************************************)
EXTENDS Integers, Sequences, FiniteSets

CONSTANTS
    ErrorCodes,         \* HTTP_CODEs with an error page
    PageLength,         \* [ErrorCodes \cup {"EMPTY"} -> length of the page]
    StatCodes,          \* those that can come after stat() has succeeded
    FileLengths,        \* of files that are not empty
    WRITE_BUFFER_SIZE,
    MaxReplies,         \* bound: replies in a behaviour
    MaxAgain            \* bound: how often writev finds no room

ASSUME HttpReplyAssumption ==
    /\ "FILE" \notin ErrorCodes /\ "EMPTY" \notin ErrorCodes
    /\ PageLength \in [ErrorCodes \cup {"EMPTY"} -> Nat \ {0}]
    /\ StatCodes \subseteq ErrorCodes
    /\ FileLengths \subseteq Nat \ {0}
    /\ WRITE_BUFFER_SIZE \in Nat \ {0, 1}
    /\ MaxReplies \in Nat /\ MaxAgain \in Nat

MAP_FAILED == -1
Codes == ErrorCodes \cup {"FILE", "EMPTY"}

VARIABLES
    m_write_buf,        \* m_write_idx is its length
    m_file_address,     \* the mapping, 0 for none, or MAP_FAILED
    m_iv_count,         \* 0, or 2 once a file reply has set m_iv
    m_file_size,        \* m_file_stat.st_size
    m_iv,               \* head: m_iv[0].iov_len; file, length: those of m_iv[1]
    keep_alive,         \* m_linger
    mapped,             \* pages that exist: <<mapping, place in it>>
    replies,            \* replies begun; each may make the mapping of its number
    code,               \* the HTTP_CODE of the current reply
    bytes_to_send, bytes_have_send,     \* locals of write()
    agains,             \* EAGAINs so far
    wire,               \* what the peer has been sent of this reply
    stage,              \* where write() is, and what comes before and after
    extent,             \* history: how many pages each mapping was made with
    abandoned           \* history: file replies that a hang-up cut off

HeadToken(what) == [what |-> what, mapping |-> 0, at |-> 0]
FileTokens(m, k) ==
    [i \in 1..k |-> [what |-> "file", mapping |-> m, at |-> i]]
HeadTokens ==
    {HeadToken(w) : w \in {"status", "length", "connection", "blank", "page"}}

bufferVars == <<m_write_buf, m_iv_count, m_iv, keep_alive>>
fileVars == <<m_file_address, m_file_size, mapped, extent>>
localVars == <<bytes_to_send, bytes_have_send>>
replyVars == <<bufferVars, fileVars, replies, code, localVars, agains, wire,
               stage, abandoned>>

Pages(m, n) == {m} \X (1..n)

ReplyInit ==
    /\ m_write_buf = <<>>
    /\ m_file_address = 0
    /\ m_iv_count = 0
    /\ m_file_size = 0
    /\ m_iv = [head |-> 0, file |-> 0, length |-> 0]
    /\ keep_alive = FALSE
    /\ mapped = {}
    /\ replies = 0
    /\ code = "FILE"
    /\ bytes_to_send = 0
    /\ bytes_have_send = 0
    /\ agains = 0
    /\ wire = <<>>
    /\ stage = "idle"
    /\ extent = [m \in 1..MaxReplies |-> 0]
    /\ abandoned = {}

-----------------------------------------------------------------------------
(* process_write(), by the worker.                                         *)

\* add_response: nothing is added unless it fits with a byte to spare.
AddResponse(buf, what, length) ==
    IF length >= WRITE_BUFFER_SIZE - 1 - Len(buf)
    THEN buf
    ELSE buf \o [i \in 1..length |-> HeadToken(what)]

\* add_status_line and add_headers, whose results nobody looks at.
Headers ==
    LET status == AddResponse(m_write_buf, "status", 1)
        size == AddResponse(status, "length", 1)
        connection == AddResponse(size, "connection", 1)
    IN  AddResponse(connection, "blank", 1)
WithPage(c) == AddResponse(Headers, "page", PageLength[c])
PageFits(c) == WithPage(c) # Headers

\* A request has been parsed: the reply it gets is number replies + 1.
Respond(c, linger) ==
    /\ stage = "idle"
    /\ replies < MaxReplies
    /\ replies' = replies + 1
    /\ code' = c
    /\ keep_alive' = linger
    /\ wire' = <<>>
    /\ UNCHANGED <<localVars, agains, abandoned>>

\* do_request: stat, then mmap, which gives a mapping, or MAP_FAILED when open
\* has failed; nobody looks.
MapFile ==
    /\ m_file_size' \in FileLengths
    /\ \/ /\ m_file_address' = replies + 1
          /\ mapped' = mapped \cup Pages(replies + 1, m_file_size')
          /\ extent' = [extent EXCEPT ![replies + 1] = m_file_size']
       \/ m_file_address' = MAP_FAILED /\ UNCHANGED <<mapped, extent>>

SetIv ==
    m_iv' = [head |-> Len(m_write_buf'), file |-> m_file_address',
             length |-> m_file_size']

\* Seeded fault: m_iv is set the first time only.
RespondFileOnce(linger) ==
    /\ Respond("FILE", linger)
    /\ MapFile
    /\ m_write_buf' = Headers
    /\ IF m_iv_count = 2 THEN UNCHANGED m_iv ELSE SetIv
    /\ m_iv_count' = 2
    /\ stage' = "out"

\* process_write sets m_iv and returns true.
RespondFile(linger) ==
    /\ Respond("FILE", linger)
    /\ MapFile
    /\ m_write_buf' = Headers
    /\ SetIv
    /\ m_iv_count' = 2
    /\ stage' = "out"

\* mmap of an empty file fails; the reply falls through to `default`: false.
RespondEmpty(linger) ==
    /\ Respond("EMPTY", linger)
    /\ m_file_address' = MAP_FAILED
    /\ m_file_size' = 0
    /\ m_write_buf' = WithPage("EMPTY")
    /\ stage' = "close"
    /\ UNCHANGED <<m_iv, m_iv_count, mapped, extent>>

\* An error page: false when it does not fit; otherwise the function ends
\* without a return statement and the caller sees either value.  m_iv and the
\* address are left as they were; stat() has overwritten the size when what is
\* wrong with the file is that nobody may read it, or that it is a directory.
RespondError(c, linger) ==
    /\ Respond(c, linger)
    /\ m_write_buf' = WithPage(c)
    /\ \/ PageFits(c) /\ stage' = "out"
       \/ stage' = "close"
    /\ \/ c \in StatCodes /\ m_file_size' \in FileLengths \cup {0}
       \/ UNCHANGED m_file_size
    /\ UNCHANGED <<m_iv, m_iv_count, m_file_address, mapped, extent>>

-----------------------------------------------------------------------------
(* write(), by main on EPOLLOUT.                                           *)

\* What m_iv describes: the first bytes of the write buffer (the header, in
\* every reply, for process_write begins all of them with the same four
\* lines), then the file.
Head0 == SubSeq(m_write_buf, 1, m_iv.head)
\* writev stops in front of a page it cannot read: after k pages of the file.
Readable == {k \in 0..m_iv.length : Pages(m_iv.file, k) \subseteq mapped}
Described(k) == Head0 \o FileTokens(m_iv.file, k)

StartWrite ==
    /\ stage = "out"
    /\ bytes_to_send' = Len(m_write_buf)
    /\ bytes_have_send' = 0
    /\ stage' = "writev"
    /\ UNCHANGED <<bufferVars, fileVars, replies, code, agains, wire, abandoned>>

\* The kernel takes n bytes, always from the start of m_iv; MAP_FAILED is no
\* address it would look at.
Writev(n) ==
    /\ stage = "writev"
    /\ m_iv_count = 2 /\ m_iv.file # MAP_FAILED
    /\ \E k \in Readable :
        /\ n <= Len(Described(k))
        /\ wire' = wire \o SubSeq(Described(k), 1, n)
    /\ bytes_to_send' = bytes_to_send - n
    /\ bytes_have_send' = bytes_have_send + n
    /\ stage' = "check"
    /\ UNCHANGED <<bufferVars, fileVars, replies, code, agains, abandoned>>

\* No buffers: writev returns 0 and the loop goes round.
WritevNothing ==
    /\ stage = "writev"
    /\ m_iv_count = 0
    /\ stage' = "check"
    /\ UNCHANGED <<bufferVars, fileVars, replies, code, localVars, agains, wire, abandoned>>

\* EAGAIN: EPOLLOUT is asked for, and write() will start again.
WritevAgain ==
    /\ stage = "writev"
    /\ m_iv_count = 2
    /\ agains < MaxAgain
    /\ agains' = agains + 1
    /\ stage' = "out"
    /\ UNCHANGED <<bufferVars, fileVars, replies, code, localVars, wire, abandoned>>

\* What a munmap of n pages at mapping m releases besides pages of m: when n is
\* more than m has, the pages behind it, which are anybody's.
Behind(m, n) ==
    IF n > extent[m]
    THEN {others \in SUBSET {page \in mapped : page[1] # m} :
             Cardinality(others) <= n - extent[m]}
    ELSE {{}}

\* unmap(), with the size that the last successful stat() left.  munmap refuses
\* MAP_FAILED, which is no address of a page.
Unmap ==
    /\ \/ m_file_address \in {0, MAP_FAILED} /\ UNCHANGED mapped
       \/ /\ m_file_address \notin {0, MAP_FAILED}
          /\ \E others \in Behind(m_file_address, m_file_size) :
                mapped' = mapped \ (Pages(m_file_address, m_file_size) \cup others)
    /\ m_file_address' = 0
    /\ UNCHANGED <<m_file_size, extent>>

\* Seeded fault: write() tries again after any error, as it might for EINTR.
WritevFailsRetried == stage = "writev" /\ UNCHANGED replyVars

\* Seeded fault: no unmap before the return.
WritevFailsMapped ==
    /\ stage = "writev"
    /\ stage' = "close"
    /\ UNCHANGED <<bufferVars, fileVars, replies, code, localVars, agains, wire,
                   abandoned>>

\* Another error: unmap and return false.
WritevFails ==
    /\ stage = "writev"
    /\ Unmap
    /\ stage' = "close"
    /\ UNCHANGED <<bufferVars, replies, code, localVars, agains, wire, abandoned>>

\* bytes_to_send <= bytes_have_send
SentEnough == bytes_to_send <= bytes_have_send

WriteMore ==
    /\ stage = "check"
    /\ ~SentEnough
    /\ stage' = "writev"
    /\ UNCHANGED <<bufferVars, fileVars, replies, code, localVars, agains, wire, abandoned>>

\* unmap; keep-alive: init() and wait for the next request; else close.
WriteDone ==
    /\ stage = "check"
    /\ SentEnough
    /\ Unmap
    /\ IF keep_alive
       THEN /\ m_write_buf' = <<>>
            /\ keep_alive' = FALSE
            /\ stage' = "idle"
            /\ UNCHANGED <<m_iv, m_iv_count>>
       ELSE stage' = "close" /\ UNCHANGED bufferVars
    /\ UNCHANGED <<replies, code, localVars, agains, wire, abandoned>>

\* EPOLLRDHUP between two calls of write(): main closes the connection, and does
\* not unmap.
HangUp ==
    /\ stage \in {"idle", "out"}
    /\ stage' = "close"
    /\ abandoned' = IF stage = "out" /\ code = "FILE"
                    THEN abandoned \cup {replies} ELSE abandoned
    /\ UNCHANGED <<bufferVars, fileVars, replies, code, localVars, agains, wire>>

\* close_conn, then init(sockfd, addr) for the next connection: m_iv, the address
\* and the size are as the last one left them.
Reopen ==
    /\ stage = "close"
    /\ m_write_buf' = <<>>
    /\ keep_alive' = FALSE
    /\ wire' = <<>>
    /\ stage' = "idle"
    /\ UNCHANGED <<m_iv, m_iv_count, fileVars, replies, code, localVars, agains, abandoned>>

WriteLoop ==
    \/ \E n \in 1..(m_iv.head + m_iv.length) : Writev(n)
    \/ WritevNothing \/ WritevAgain \/ WritevFails
    \/ WriteMore \/ WriteDone

ReplyNext ==
    \/ \E linger \in BOOLEAN :
        \/ RespondFile(linger) \/ RespondEmpty(linger)
        \/ \E c \in ErrorCodes : RespondError(c, linger)
    \/ StartWrite
    \/ WriteLoop
    \/ HangUp
    \/ Reopen

ReplySpec == ReplyInit /\ [][ReplyNext]_replyVars

\* The reactor is scheduled; the peer may never drain its socket.
FairSpec == ReplySpec /\ WF_replyVars(WriteLoop)

-----------------------------------------------------------------------------
(* Properties.                                                             *)

\* Types; the write buffer keeps a byte to spare (http_conn.cpp:343-344).
ReplyTypes ==
    /\ m_write_buf \in Seq(HeadTokens)
    /\ Len(m_write_buf) <= WRITE_BUFFER_SIZE - 2
    /\ m_file_address \in {MAP_FAILED} \cup (0..replies)
    /\ m_iv_count \in {0, 2}
    /\ m_file_size \in Nat
    /\ m_iv \in [head : Nat, file : {MAP_FAILED} \cup (0..replies), length : Nat]
    /\ keep_alive \in BOOLEAN
    /\ extent \in [1..MaxReplies -> Nat]
    /\ mapped \subseteq UNION {Pages(m, extent[m]) : m \in 1..replies}
    /\ abandoned \subseteq 0..replies
    /\ replies \in 0..MaxReplies
    /\ code \in Codes
    /\ bytes_to_send \in Int
    /\ bytes_have_send \in Nat
    /\ agains \in 0..MaxAgain
    /\ stage \in {"idle", "out", "writev", "check", "close"}

\* The mapping of the file reply that is being sent.
InUse ==
    IF code = "FILE" /\ stage \in {"out", "writev", "check"}
         /\ m_file_address # MAP_FAILED
    THEN {replies} ELSE {}

\* unmap() gives back what do_request() took, on whatever path a reply ends and
\* whoever uses the object next, except where a client hung up on a file reply.
\* Whatever m_file_address points at is there, all of it: no mapping is unmapped
\* twice (http_conn.cpp:284, 312, 323).  The size that goes with the file being
\* sent is its own (271, 284).  And no page outlives its reply but those of the
\* replies cut off, which close_conn() leaves mapped (50-56): a later stat() can
\* then have unmap() release less of one of these, or more, than there is.
MappingsAccountedFor ==
    /\ m_file_address \notin {0, MAP_FAILED} =>
        Pages(m_file_address, extent[m_file_address]) \subseteq mapped
    /\ \A m \in InUse : m_file_address = m /\ m_file_size = extent[m]
    /\ \A page \in mapped : page[1] \in InUse \cup abandoned

\* A file reply sends its own file: whatever replies, errors and hang-ups came
\* before on the object, no byte of an earlier file reaches the client.
OwnFileOnly ==
    code = "FILE" => \A i \in 1..Len(wire) : wire[i].mapping \in {0, replies}

\* write() leaves its loop when it sends a file, however the kernel cuts it.
WriteEnds ==
    (stage \in {"writev", "check"} /\ code = "FILE")
        ~> stage \notin {"writev", "check"}
=============================================================================
