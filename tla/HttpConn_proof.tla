--------------------------- MODULE HttpConn_proof ---------------------------
(***************************************************************************)
(* The safety of http_conn.cpp in three parts.  The reply side, for any    *)
(* error pages, lengths of pages and files, size of the write buffer and   *)
(* number of replies: the bound of the write buffer, what is unmapped, and *)
(* no byte of an earlier file.  The request parser, for any requests cut   *)
(* anywhere.  And the program the parser was made from, beside it.         *)
(***************************************************************************)
EXTENDS HttpReply, TwoParsers, WellFoundedInduction, TLAPS

\* A reply is being sent.
Sending == {"out", "writev", "check"}

\* While a file is sent, m_iv describes the whole write buffer and this reply's
\* mapping, unless there is none.
IvIsOwn ==
    code = "FILE" /\ stage \in Sending =>
        m_iv.head = Len(m_write_buf) /\ m_iv.file \in {replies, MAP_FAILED}

\* Nothing but tokens are sent.
WireTyped == \E S : wire \in Seq(S)

IInv == ReplyTypes /\ WireTyped /\ MappingsAccountedFor /\ IvIsOwn /\ OwnFileOnly

-----------------------------------------------------------------------------
(* Lemmas about the buffers.                                               *)

LEMMA Kinds ==
    /\ "FILE" \notin ErrorCodes /\ "EMPTY" \notin ErrorCodes
    /\ PageLength \in [ErrorCodes \cup {"EMPTY"} -> Nat \ {0}]
    /\ StatCodes \subseteq ErrorCodes
    /\ FileLengths \subseteq Nat \ {0}
    /\ WRITE_BUFFER_SIZE \in Nat \ {0, 1}
    /\ MaxReplies \in Nat /\ MaxAgain \in Nat
  BY HttpReplyAssumption

\* What the write buffer can hold.
Fitting == {buf \in Seq(HeadTokens) : Len(buf) <= WRITE_BUFFER_SIZE - 2}

\* add_response leaves a byte to spare, whatever it is asked to add.
LEMMA AddResponseFits ==
    ASSUME NEW buf \in Fitting, NEW length \in Nat,
           NEW what \in {"status", "length", "connection", "blank", "page"}
    PROVE  AddResponse(buf, what, length) \in Fitting
  <1> DEFINE added == [i \in 1..length |-> HeadToken(what)]
  <1>1. HeadToken(what) \in HeadTokens
    BY DEF HeadTokens
  <1>2. added \in Seq(HeadTokens) /\ Len(added) = length
    BY <1>1
  <1>3. CASE length >= WRITE_BUFFER_SIZE - 1 - Len(buf)
    BY <1>3 DEF AddResponse
  <1>4. CASE ~(length >= WRITE_BUFFER_SIZE - 1 - Len(buf))
    <2>1. buf \in Seq(HeadTokens) /\ Len(buf) \in Nat
      BY DEF Fitting
    <2>2. buf \o added \in Seq(HeadTokens) /\ Len(buf \o added) = Len(buf) + length
      BY <1>2, <2>1
    <2>3. Len(buf) + length <= WRITE_BUFFER_SIZE - 2
      BY <1>4, <2>1, Kinds
    <2>4. AddResponse(buf, what, length) = buf \o added
      BY <1>4 DEF AddResponse
    <2>5. QED
      BY <2>2, <2>3, <2>4 DEF Fitting
  <1>5. QED
    BY <1>3, <1>4

LEMMA HeadersFit ==
    ASSUME m_write_buf \in Fitting
    PROVE  Headers \in Fitting
  <1> DEFINE status == AddResponse(m_write_buf, "status", 1)
             size == AddResponse(status, "length", 1)
             connection == AddResponse(size, "connection", 1)
  <1>1. status \in Fitting
    BY AddResponseFits
  <1>2. size \in Fitting
    <2> HIDE DEF status
    <2> QED
      BY <1>1, AddResponseFits
  <1>3. connection \in Fitting
    <2> HIDE DEF size
    <2> QED
      BY <1>2, AddResponseFits
  <1>4. AddResponse(connection, "blank", 1) \in Fitting
    <2> HIDE DEF connection
    <2> QED
      BY <1>3, AddResponseFits
  <1>5. QED
    BY <1>4 DEF Headers

LEMMA PageFitsBuffer ==
    ASSUME m_write_buf \in Fitting, NEW c \in ErrorCodes \cup {"EMPTY"}
    PROVE  WithPage(c) \in Fitting
  <1>1. PageLength[c] \in Nat
    BY Kinds
  <1>2. QED
    BY <1>1, HeadersFit, AddResponseFits DEF WithPage

\* What m_iv describes while a file is sent: the header, and this reply's file.
LEMMA DescribedIsOwn ==
    ASSUME ReplyTypes, IvIsOwn, code = "FILE", stage \in Sending,
           m_iv.file # MAP_FAILED, NEW k \in Nat
    PROVE  \E S : /\ Described(k) \in Seq(S)
                  /\ \A i \in 1..Len(Described(k)) :
                        Described(k)[i].mapping \in {0, replies}
  <1>1. m_write_buf \in Seq(HeadTokens) /\ m_iv.head = Len(m_write_buf)
    BY DEF ReplyTypes, IvIsOwn
  <1>2. Head0 \in Seq(HeadTokens)
        /\ Len(Head0) = Len(m_write_buf)
        /\ \A i \in 1..Len(Head0) : Head0[i] \in HeadTokens
    BY <1>1 DEF Head0
  <1>3. \A token \in HeadTokens : token.mapping = 0
    BY DEF HeadTokens, HeadToken
  <1>4. m_iv.file = replies
    BY DEF IvIsOwn
  <1> DEFINE file == FileTokens(replies, k)
             S == HeadTokens \cup {file[i] : i \in 1..k}
  <1>5. file \in Seq(S) /\ Len(file) = k
        /\ \A i \in 1..k : file[i].mapping = replies
    <2>1. file = [i \in 1..k |-> [what |-> "file", mapping |-> replies, at |-> i]]
      BY DEF FileTokens
    <2>2. \A i \in 1..k : file[i] \in S /\ file[i].mapping = replies
      BY <2>1
    <2>3. file \in [1..k -> S]
      BY <2>1, <2>2
    <2> HIDE DEF file, S
    <2>4. QED
      BY <2>2, <2>3
  <1>6. Head0 \in Seq(S)
    BY <1>2
  <1>7. Described(k) = Head0 \o file
    BY <1>4 DEF Described
  <1> HIDE DEF file, S
  <1> DEFINE head == Head0
  <1>h. head \in Seq(S) /\ head = Head0
    BY <1>6
  <1> HIDE DEF head
  <1>8. Described(k) \in Seq(S) /\ Len(Described(k)) = Len(Head0) + k
    <2>1. head \o file \in Seq(S) /\ Len(head \o file) = Len(head) + Len(file)
      BY <1>5, <1>h
    <2>2. QED
      BY <2>1, <1>5, <1>7, <1>h
  <1>9. ASSUME NEW i \in 1..Len(Described(k))
        PROVE  Described(k)[i].mapping \in {0, replies}
    <2>1. CASE i <= Len(Head0)
      <3>1. Described(k)[i] = Head0[i] /\ i \in 1..Len(Head0)
        BY <1>5, <1>6, <1>7, <1>8, <2>1
      <3>2. QED
        BY <1>2, <1>3, <3>1
    <2>2. CASE i > Len(Head0)
      <3>1. Described(k)[i] = file[i - Len(Head0)] /\ i - Len(Head0) \in 1..k
        BY <1>5, <1>6, <1>7, <1>8, <2>2
      <3>2. QED
        BY <1>5, <3>1
    <2>3. QED
      BY <1>6, <1>8, <2>1, <2>2
  <1>10. QED
    BY <1>8, <1>9

\* Whatever m_iv describes, it is a sequence.
LEMMA DescribedIsTyped ==
    ASSUME ReplyTypes, NEW k \in Nat
    PROVE  \E S : Described(k) \in Seq(S)
  <1>1. m_iv.head \in Nat
    BY DEF ReplyTypes
  <1> DEFINE head == Head0
             file == FileTokens(m_iv.file, k)
             S == {m_write_buf[i] : i \in 1..m_iv.head} \cup {file[i] : i \in 1..k}
  <1>2. head \in Seq(S)
    BY <1>1 DEF Head0
  <1>3. file \in Seq(S)
    BY DEF FileTokens
  <1>4. Described(k) = head \o file
    BY DEF Described
  <1> HIDE DEF head, file, S
  <1>5. head \o file \in Seq(S)
    BY <1>2, <1>3
  <1>6. QED
    BY <1>4, <1>5

-----------------------------------------------------------------------------
(* Lemmas about the mappings.                                              *)

\* A page of a mapping is one of those it was made with.
LEMMA PageOfMapping ==
    ASSUME ReplyTypes, NEW page \in mapped
    PROVE  /\ page[1] \in 1..replies
           /\ page \in Pages(page[1], extent[page[1]])
  BY DEF ReplyTypes, Pages

\* unmap() at the end of a reply gives back its mapping; what is still mapped
\* has been abandoned.
LEMMA UnmapAccountedFor ==
    ASSUME ReplyTypes, MappingsAccountedFor, Unmap, stage \in {"writev", "check"}
    PROVE  /\ m_file_address' = 0
           /\ mapped' \subseteq mapped
           /\ \A page \in mapped' : page[1] \in abandoned
           /\ UNCHANGED <<m_file_size, extent>>
  <1>1. mapped' \subseteq mapped /\ m_file_address' = 0
        /\ UNCHANGED <<m_file_size, extent>>
    BY DEF Unmap
  <1>2. ASSUME NEW page \in mapped', page[1] \in InUse
        PROVE  FALSE
    <2>1. m_file_address = page[1] /\ m_file_size = extent[page[1]]
          /\ m_file_address # MAP_FAILED
      BY <1>2 DEF MappingsAccountedFor, InUse
    <2>2. page \in Pages(m_file_address, m_file_size)
      BY <1>1, <1>2, <2>1, PageOfMapping
    <2>3. m_file_address # 0
      BY <1>1, <1>2, <2>1, PageOfMapping
    <2>4. QED
      BY <2>1, <2>2, <2>3, <1>2 DEF Unmap
  <1>3. QED
    BY <1>1, <1>2 DEF MappingsAccountedFor

-----------------------------------------------------------------------------
(* The inductive invariant.                                                *)

LEMMA EmptyFits ==
    <<>> \in Seq(HeadTokens) /\ Len(<<>>) = 0 /\ 0 <= WRITE_BUFFER_SIZE - 2
  BY Kinds

LEMMA Initially == ReplyInit => IInv
  <1> SUFFICES ASSUME ReplyInit PROVE IInv
    OBVIOUS
  <1>1. ReplyTypes
    <2>1. m_write_buf \in Seq(HeadTokens) /\ Len(m_write_buf) <= WRITE_BUFFER_SIZE - 2
      BY EmptyFits DEF ReplyInit
    <2>2. replies \in 0..MaxReplies /\ agains \in 0..MaxAgain
      BY Kinds DEF ReplyInit
    <2>3. 0 \in 0..replies /\ mapped = {} /\ abandoned = {} /\ m_file_size \in Nat
          /\ extent \in [1..MaxReplies -> Nat]
      BY DEF ReplyInit
    <2>4. m_iv \in [head : Nat, file : {MAP_FAILED} \cup (0..replies), length : Nat]
      BY <2>3 DEF ReplyInit
    <2>5. code \in Codes /\ stage \in {"idle", "out", "writev", "check", "close"}
      BY DEF ReplyInit, Codes
    <2>6. bytes_to_send \in Int /\ bytes_have_send \in Nat /\ m_iv_count \in {0, 2}
          /\ m_file_address \in {MAP_FAILED} \cup (0..replies)
      BY <2>3 DEF ReplyInit
    <2>7. keep_alive \in BOOLEAN
      BY DEF ReplyInit
    <2>8. QED
      BY <2>1, <2>2, <2>3, <2>4, <2>5, <2>6, <2>7 DEF ReplyTypes
  <1>2. WireTyped
    <2>1. wire \in Seq({})
      BY DEF ReplyInit
    <2>2. QED
      BY <2>1 DEF WireTyped
  <1>3. MappingsAccountedFor /\ IvIsOwn /\ OwnFileOnly
    BY DEF ReplyInit, MappingsAccountedFor, InUse, IvIsOwn, OwnFileOnly, Sending
  <1>4. QED
    BY <1>1, <1>2, <1>3 DEF IInv

\* What the three replies share: a new number, and nothing sent of it.
LEMMA RespondStep ==
    ASSUME ReplyTypes, NEW c \in Codes, NEW linger \in BOOLEAN, Respond(c, linger)
    PROVE  /\ replies' \in 1..MaxReplies /\ replies' = replies + 1
           /\ code' \in Codes /\ keep_alive' \in BOOLEAN
           /\ bytes_to_send' \in Int /\ bytes_have_send' \in Nat
           /\ agains' \in 0..MaxAgain
           /\ abandoned' = abandoned
           /\ WireTyped' /\ OwnFileOnly'
  <1>1. WireTyped'
    <2>1. wire' \in Seq({})
      BY DEF Respond
    <2>2. QED
      BY <2>1 DEF WireTyped
  <1>2. OwnFileOnly'
    BY DEF Respond, OwnFileOnly
  <1>3. QED
    BY <1>1, <1>2, Kinds DEF ReplyTypes, Respond, localVars

LEMMA BufferFits ==
    ASSUME ReplyTypes
    PROVE  m_write_buf \in Fitting
  BY DEF ReplyTypes, Fitting

LEMMA RespondFilePreserves ==
    ASSUME IInv, NEW linger \in BOOLEAN, RespondFile(linger)
    PROVE  IInv'
  <1>1. ReplyTypes /\ MappingsAccountedFor
    BY DEF IInv
  <1>2. Headers \in Fitting
    BY <1>1, BufferFits, HeadersFit
  <1>3. m_write_buf' \in Fitting
    BY <1>2 DEF RespondFile
  <1>4. Respond("FILE", linger) /\ "FILE" \in Codes
    BY DEF RespondFile, Codes
  <1> DEFINE new == replies + 1
  <1>r. /\ replies' = new /\ new \in 1..MaxReplies /\ new \notin 1..replies
        /\ 1..replies \subseteq 1..new /\ 0..replies \subseteq 0..new
        /\ replies \in Nat /\ new # 0 /\ new # MAP_FAILED
        /\ 1..new = (1..replies) \cup {new} /\ 1..replies \subseteq 1..MaxReplies
    <2>1. replies \in Nat /\ MaxReplies \in Nat /\ replies' = new
      BY <1>1, <1>4, RespondStep, Kinds DEF ReplyTypes
    <2>2. replies' \in 1..MaxReplies
      BY <1>1, <1>4, RespondStep
    <2>3. QED
      BY <2>1, <2>2 DEF MAP_FAILED
  <1>m. /\ m_file_size' \in Nat
        /\ \/ /\ m_file_address' = new
              /\ mapped' = mapped \cup Pages(new, m_file_size')
              /\ extent' = [extent EXCEPT ![new] = m_file_size']
           \/ m_file_address' = MAP_FAILED /\ mapped' = mapped /\ extent' = extent
    BY Kinds DEF RespondFile, MapFile
  <1> HIDE DEF new
  <1>e. extent' \in [1..MaxReplies -> Nat] /\ \A m \in 1..replies : extent'[m] = extent[m]
    <2>1. extent \in [1..MaxReplies -> Nat]
      BY <1>1 DEF ReplyTypes
    <2>2. CASE extent' = extent
      BY <2>1, <2>2
    <2>3. CASE extent' = [extent EXCEPT ![new] = m_file_size']
      <3>1. new \in 1..MaxReplies /\ new \notin 1..replies /\ m_file_size' \in Nat
        BY <1>r, <1>m
      <3>2. QED
        BY <1>r, <2>1, <2>3, <3>1
    <2>4. QED
      BY <1>m, <2>2, <2>3
  <1>p. mapped' \subseteq UNION {Pages(m, extent'[m]) : m \in 1..new}
    <2>1. ASSUME NEW page \in mapped
          PROVE  page \in UNION {Pages(m, extent'[m]) : m \in 1..new}
      BY <1>1, <1>e, <1>r, PageOfMapping
    <2>2. m_file_address' = new =>
            Pages(new, m_file_size') = Pages(new, extent'[new]) /\ new \in 1..new
      BY <1>1, <1>m, <1>r DEF ReplyTypes
    <2>3. QED
      BY <1>m, <2>1, <2>2
  <1>5. m_file_address' \in {new, MAP_FAILED} /\ MappingsAccountedFor'
    <2>1. InUse = {} /\ abandoned' = abandoned
      BY <1>4, RespondStep, <1>1 DEF InUse, Respond
    <2>2. \A page \in mapped : page[1] \in abandoned
      BY <1>1, <2>1 DEF MappingsAccountedFor
    <2>3. stage' = "out" /\ code' = "FILE"
      BY <1>4 DEF RespondFile, Respond
    <2>4. CASE m_file_address' = MAP_FAILED
      <3>1. InUse' = {} /\ mapped' = mapped
        BY <1>m, <1>r, <2>4 DEF InUse
      <3>2. QED
        BY <2>1, <2>2, <2>4, <3>1 DEF MappingsAccountedFor
    <2>5. CASE m_file_address' = new
      <3>1. InUse' = {new}
        BY <1>r, <2>3, <2>5 DEF InUse
      <3>2. mapped' = mapped \cup Pages(new, m_file_size') /\ extent'[new] = m_file_size'
        BY <1>1, <1>m, <1>r, <2>5 DEF ReplyTypes
      <3>3. \A page \in Pages(new, m_file_size') : page[1] = new
        BY DEF Pages
      <3>4. QED
        BY <2>1, <2>2, <2>5, <3>1, <3>2, <3>3 DEF MappingsAccountedFor
    <2>6. QED
      BY <1>m, <2>4, <2>5
  <1>6. m_iv' = [head |-> Len(m_write_buf'), file |-> m_file_address',
                 length |-> m_file_size']
        /\ m_iv_count' = 2 /\ stage' = "out"
    BY DEF RespondFile, SetIv
  <1>7. Len(m_write_buf') \in Nat /\ m_write_buf' \in Seq(HeadTokens)
        /\ Len(m_write_buf') <= WRITE_BUFFER_SIZE - 2
    BY <1>3 DEF Fitting
  <1>8. ReplyTypes'
    <2>1. new \in 0..new
      BY <1>r
    <2>2. m_iv' \in [head : Nat, file : {MAP_FAILED} \cup (0..new), length : Nat]
      BY <1>5, <1>6, <1>7, <1>m, <2>1
    <2>3. abandoned' \subseteq 0..new
      BY <1>1, <1>4, <1>r, RespondStep DEF ReplyTypes
    <2>4. QED
      BY <1>1, <1>4, <1>5, <1>6, <1>7, <1>r, <1>m, <1>e, <1>p, <2>1, <2>2, <2>3, RespondStep
      DEF ReplyTypes
  <1>9. IvIsOwn'
    BY <1>5, <1>6, <1>r DEF IvIsOwn
  <1>10. QED
    BY <1>1, <1>4, <1>5, <1>8, <1>9, RespondStep DEF IInv

\* A page is not a file: m_iv may describe anything.
LEMMA RespondPagePreserves ==
    ASSUME IInv, NEW linger \in BOOLEAN,
           \/ RespondEmpty(linger)
           \/ \E c \in ErrorCodes : RespondError(c, linger)
    PROVE  IInv'
  <1>1. ReplyTypes /\ MappingsAccountedFor
    BY DEF IInv
  <1>2. PICK c \in ErrorCodes \cup {"EMPTY"} :
            /\ Respond(c, linger)
            /\ m_write_buf' = WithPage(c)
            /\ stage' \in {"out", "close"}
            /\ UNCHANGED <<m_iv, m_iv_count, mapped, extent>>
            /\ m_file_address' \in {m_file_address, MAP_FAILED}
            /\ m_file_size' \in FileLengths \cup {0, m_file_size}
    BY DEF RespondEmpty, RespondError
  <1>3. c \in Codes /\ c # "FILE"
    BY Kinds DEF Codes
  <1>4. m_write_buf' \in Seq(HeadTokens)
        /\ Len(m_write_buf') <= WRITE_BUFFER_SIZE - 2
    BY <1>1, <1>2, BufferFits, PageFitsBuffer DEF Fitting
  <1>5. ReplyTypes'
    <2>1. replies \in Nat /\ replies' = replies + 1
      BY <1>1, <1>2, <1>3, RespondStep, Kinds DEF ReplyTypes
    <2>2. 0..replies \subseteq 0..replies' /\ 1..replies \subseteq 1..replies'
      BY <2>1
    <2>3. mapped' \subseteq UNION {Pages(m, extent'[m]) : m \in 1..replies'}
      BY <1>1, <1>2, <2>2 DEF ReplyTypes
    <2>4. m_file_size' \in Nat
      BY <1>1, <1>2, Kinds DEF ReplyTypes
    <2>5. m_iv' \in [head : Nat, file : {MAP_FAILED} \cup (0..replies'), length : Nat]
      BY <1>1, <1>2, <2>2 DEF ReplyTypes
    <2>6. m_file_address' \in {MAP_FAILED} \cup (0..replies') /\ abandoned' \subseteq 0..replies'
      BY <1>1, <1>2, <1>3, <2>2, RespondStep DEF ReplyTypes
    <2>7. QED
      BY <1>1, <1>2, <1>3, <1>4, <2>3, <2>4, <2>5, <2>6, RespondStep DEF ReplyTypes
  <1>6. MappingsAccountedFor'
    <2>1. InUse = {} /\ InUse' = {} /\ abandoned' = abandoned
      BY <1>2, <1>3 DEF InUse, Respond
    <2>2. QED
      BY <1>1, <1>2, <2>1 DEF MappingsAccountedFor
  <1>7. IvIsOwn'
    BY <1>2, <1>3 DEF IvIsOwn, Respond
  <1>8. QED
    BY <1>1, <1>2, <1>3, <1>5, <1>6, <1>7, RespondStep DEF IInv

LEMMA WritevPreserves ==
    ASSUME IInv, NEW n \in 1..(m_iv.head + m_iv.length), Writev(n)
    PROVE  IInv'
  <1>1. ReplyTypes /\ WireTyped /\ MappingsAccountedFor /\ IvIsOwn /\ OwnFileOnly
    BY DEF IInv
  <1>2. n \in Nat
    BY <1>1 DEF ReplyTypes
  <1>3. ReplyTypes'
    BY <1>1, <1>2 DEF ReplyTypes, Writev, bufferVars, fileVars
  <1>4. MappingsAccountedFor' /\ IvIsOwn'
    BY <1>1 DEF MappingsAccountedFor, InUse, IvIsOwn, Writev, bufferVars, fileVars, Sending
  <1>5. PICK S : wire \in Seq(S)
    BY <1>1 DEF WireTyped
  <1>k. PICK k \in Readable :
            n <= Len(Described(k)) /\ wire' = wire \o SubSeq(Described(k), 1, n)
    BY DEF Writev
  <1>n. k \in Nat /\ m_iv.file # MAP_FAILED
    BY <1>1 DEF Readable, ReplyTypes, Writev
  <1> DEFINE taken == SubSeq(Described(k), 1, n)
  <1>6. wire' = wire \o taken /\ n <= Len(Described(k))
    BY <1>k
  <1>7. PICK T : /\ Described(k) \in Seq(T)
                 /\ code = "FILE" => \A i \in 1..Len(Described(k)) :
                                         Described(k)[i].mapping \in {0, replies}
    <2>1. CASE code = "FILE"
      BY <1>1, <1>n, <2>1, DescribedIsOwn DEF Writev, Sending
    <2>2. CASE code # "FILE"
      BY <1>1, <1>n, <2>2, DescribedIsTyped
    <2>3. QED
      BY <2>1, <2>2
  <1>8. taken \in Seq(T) /\ Len(taken) = n
        /\ \A i \in 1..n : taken[i] = Described(k)[i] /\ i \in 1..Len(Described(k))
    BY <1>2, <1>6, <1>7
  <1> HIDE DEF taken
  <1>9. wire \in Seq(S \cup T) /\ taken \in Seq(S \cup T)
    BY <1>5, <1>8
  <1>10. wire' \in Seq(S \cup T)
    BY <1>6, <1>9
  <1>11. WireTyped'
    BY <1>10 DEF WireTyped
  <1>12. ASSUME code' = "FILE", NEW i \in 1..Len(wire')
         PROVE  wire'[i].mapping \in {0, replies'}
    <2>1. code = "FILE" /\ replies' = replies
      BY <1>12 DEF Writev
    <2>2. CASE i <= Len(wire)
      <3>1. wire'[i] = wire[i] /\ i \in 1..Len(wire)
        BY <1>6, <1>9, <2>2
      <3>2. QED
        BY <1>1, <2>1, <3>1 DEF OwnFileOnly
    <2>3. CASE i > Len(wire)
      <3>1. wire'[i] = taken[i - Len(wire)] /\ i - Len(wire) \in 1..n
        BY <1>2, <1>6, <1>8, <1>9, <2>3
      <3>2. QED
        BY <1>7, <1>8, <2>1, <3>1
    <2>4. QED
      BY <1>9, <1>10, <2>2, <2>3
  <1>13. OwnFileOnly'
    BY <1>12 DEF OwnFileOnly
  <1>14. QED
    BY <1>3, <1>4, <1>11, <1>13 DEF IInv

\* The steps that send nothing and begin no reply.
LEMMA QuietPreserves ==
    ASSUME IInv,
           \/ StartWrite \/ WritevNothing \/ WritevAgain \/ WritevFails
           \/ WriteMore \/ WriteDone \/ HangUp \/ Reopen
    PROVE  IInv'
  <1>1. ReplyTypes /\ WireTyped /\ MappingsAccountedFor /\ IvIsOwn /\ OwnFileOnly
    BY DEF IInv
  <1>2. CASE StartWrite
    <2>1. ReplyTypes'
      BY <1>1, <1>2 DEF ReplyTypes, StartWrite, bufferVars, fileVars
    <2>2. QED
      BY <1>1, <1>2, <2>1
      DEF IInv, WireTyped, MappingsAccountedFor, InUse, IvIsOwn, OwnFileOnly, Sending,
          StartWrite, bufferVars, fileVars
  <1>3. CASE WritevNothing \/ WritevAgain \/ WriteMore
    <2>1. /\ agains' \in {agains, agains + 1}
          /\ agains' = agains + 1 => agains < MaxAgain
          /\ stage' \in {"check", "out", "writev"}
          /\ UNCHANGED <<m_write_buf, m_iv_count, m_iv, keep_alive, m_file_address,
                         m_file_size, mapped, extent, abandoned, replies, code,
                         bytes_to_send, bytes_have_send>>
      BY <1>1, <1>3
      DEF ReplyTypes, WritevNothing, WritevAgain, WriteMore, bufferVars, fileVars, localVars
    <2>2. ReplyTypes'
      <3>1. agains' \in 0..MaxAgain
        BY <1>1, <2>1, Kinds DEF ReplyTypes
      <3>2. QED
        BY <1>1, <2>1, <3>1 DEF ReplyTypes
    <2>3. QED
      BY <1>1, <1>3, <2>2
      DEF IInv, WireTyped, MappingsAccountedFor, InUse, IvIsOwn, OwnFileOnly, Sending,
          WritevNothing, WritevAgain, WriteMore, bufferVars, fileVars
  <1>4. CASE WritevFails
    <2>u. /\ m_file_address' = 0 /\ mapped' \subseteq mapped
          /\ \A page \in mapped' : page[1] \in abandoned
          /\ UNCHANGED <<m_file_size, extent, abandoned>>
      BY <1>1, <1>4, UnmapAccountedFor DEF WritevFails
    <2>t. /\ stage' = "close"
          /\ UNCHANGED <<bufferVars, replies, code, localVars, agains>>
      BY <1>4 DEF WritevFails
    <2>1. ReplyTypes' /\ MappingsAccountedFor'
      <3>1. MappingsAccountedFor'
        BY <2>u, <2>t DEF MappingsAccountedFor, InUse
      <3>2. 0 \in 0..replies /\ mapped' \subseteq UNION {Pages(m, extent[m]) : m \in 1..replies}
        BY <1>1, <2>u DEF ReplyTypes
      <3>3. QED
        BY <1>1, <2>u, <2>t, <3>1, <3>2 DEF ReplyTypes, bufferVars, localVars
    <2>2. QED
      BY <1>1, <1>4, <2>1
      DEF IInv, WireTyped, IvIsOwn, OwnFileOnly, Sending, WritevFails, bufferVars
  <1>5. CASE WriteDone
    <2>1. m_write_buf' \in {m_write_buf, <<>>} /\ keep_alive' \in {keep_alive, FALSE}
          /\ stage' \in {"idle", "close"}
          /\ UNCHANGED <<m_iv, m_iv_count, replies, code, localVars, agains, wire,
                         abandoned>>
      BY <1>5 DEF WriteDone, bufferVars
    <2>u. /\ m_file_address' = 0 /\ mapped' \subseteq mapped
          /\ \A page \in mapped' : page[1] \in abandoned
          /\ UNCHANGED <<m_file_size, extent>>
      BY <1>1, <1>5, UnmapAccountedFor DEF WriteDone
    <2>2. m_write_buf' \in Seq(HeadTokens)
          /\ Len(m_write_buf') <= WRITE_BUFFER_SIZE - 2
      BY <1>1, <2>1, EmptyFits DEF ReplyTypes
    <2>3. ReplyTypes'
      <3>1. m_file_address' \in {MAP_FAILED} \cup (0..replies')
            /\ mapped' \subseteq UNION {Pages(m, extent'[m]) : m \in 1..replies'}
        <4>1. replies \in Nat /\ replies' = replies /\ extent' = extent
          BY <1>1, <2>1, <2>u, Kinds DEF ReplyTypes
        <4>2. mapped' \subseteq mapped /\ m_file_address' = 0
          BY <2>u
        <4>3. QED
          BY <1>1, <4>1, <4>2 DEF ReplyTypes
      <3>2. keep_alive' \in BOOLEAN /\ stage' \in {"idle", "out", "writev", "check", "close"}
        BY <1>1, <2>1 DEF ReplyTypes
      <3>3. QED
        BY <1>1, <2>1, <2>u, <2>2, <3>1, <3>2 DEF ReplyTypes, localVars
    <2>4. MappingsAccountedFor'
      <3>1. InUse' = {}
        BY <2>1 DEF InUse
      <3>2. QED
        BY <2>1, <2>u, <3>1 DEF MappingsAccountedFor
    <2>5. QED
      BY <1>1, <2>1, <2>3, <2>4 DEF IInv, WireTyped, IvIsOwn, OwnFileOnly, Sending
  <1>6. CASE HangUp
    <2>1. ReplyTypes'
      <3>1. abandoned' \subseteq 0..replies
        BY <1>1, <1>6, Kinds DEF HangUp, ReplyTypes
      <3>2. QED
        BY <1>1, <1>6, <3>1 DEF ReplyTypes, HangUp, bufferVars, fileVars, localVars
    <2>2. InUse' = {} /\ InUse \subseteq abandoned' /\ abandoned \subseteq abandoned'
      BY <1>6 DEF InUse, HangUp
    <2>3. MappingsAccountedFor'
      BY <1>1, <1>6, <2>2 DEF MappingsAccountedFor, HangUp, fileVars
    <2>4. QED
      BY <1>1, <1>6, <2>1, <2>3
      DEF IInv, WireTyped, IvIsOwn, OwnFileOnly, Sending, HangUp
  <1>7. CASE Reopen
    <2>1. wire' \in Seq({}) /\ m_write_buf' = <<>> /\ Len(wire') = 0
      BY <1>7 DEF Reopen
    <2>2. ReplyTypes'
      BY <1>1, <1>7, <2>1, EmptyFits DEF ReplyTypes, Reopen, fileVars, localVars
    <2>3. WireTyped'
      BY <2>1 DEF WireTyped
    <2>4. QED
      BY <1>1, <1>7, <2>1, <2>2, <2>3
      DEF IInv, MappingsAccountedFor, InUse, IvIsOwn, OwnFileOnly, Sending, Reopen, fileVars
  <1>8. QED
    BY <1>2, <1>3, <1>4, <1>5, <1>6, <1>7

LEMMA StutterPreserves == IInv /\ UNCHANGED replyVars => IInv'
  BY DEF IInv, ReplyTypes, WireTyped, MappingsAccountedFor, InUse, IvIsOwn, OwnFileOnly,
         Sending, replyVars, bufferVars, fileVars, localVars

LEMMA Inductive == IInv /\ [ReplyNext]_replyVars => IInv'
  <1> SUFFICES ASSUME IInv, [ReplyNext]_replyVars PROVE IInv'
    OBVIOUS
  <1>1. ASSUME NEW linger \in BOOLEAN, RespondFile(linger) PROVE IInv'
    BY <1>1, RespondFilePreserves
  <1>2. ASSUME NEW linger \in BOOLEAN,
               \/ RespondEmpty(linger)
               \/ \E c \in ErrorCodes : RespondError(c, linger)
        PROVE  IInv'
    BY <1>2, RespondPagePreserves
  <1>3. ASSUME WriteLoop PROVE IInv'
    BY <1>3, WritevPreserves, QuietPreserves DEF WriteLoop
  <1>4. ASSUME StartWrite \/ HangUp \/ Reopen PROVE IInv'
    BY <1>4, QuietPreserves
  <1>5. QED
    BY <1>1, <1>2, <1>3, <1>4, StutterPreserves DEF ReplyNext

LEMMA Invariance == ReplySpec => []IInv
  BY Initially, Inductive, PTL DEF ReplySpec

-----------------------------------------------------------------------------
(* The theorems.                                                           *)

\* Types, and the byte to spare: neither a header nor a page of whatever length
\* goes past the write buffer (http_conn.cpp:343).
THEOREM TypeInvariance == ReplySpec => []ReplyTypes
  <1>1. IInv => ReplyTypes
    BY DEF IInv
  <1>2. QED
    BY Invariance, <1>1, PTL

\* unmap() releases the mapping of its reply, all of it and at the first time, and
\* no page outlives its reply but those of replies that a hang-up cut off
\* (http_conn.cpp:271, 284; 312, 323), for any sizes that stat() finds.
THEOREM UnmapSafety == ReplySpec => []MappingsAccountedFor
  <1>1. IInv => MappingsAccountedFor
    BY DEF IInv
  <1>2. QED
    BY Invariance, <1>1, PTL

\* A file reply sends no byte of an earlier reply's file, although m_iv outlives
\* the reply and the connection it was set for (http_conn.cpp:408-412).
THEOREM OwnFileSafety == ReplySpec => []OwnFileOnly
  <1>1. IInv => OwnFileOnly
    BY DEF IInv
  <1>2. QED
    BY Invariance, <1>1, PTL

-----------------------------------------------------------------------------
(* Second part: the parser of the same object.                             *)

LEMMA SmallestOf ==
    ASSUME NEW T, T \subseteq Nat, T # {}
    PROVE  \E x \in T : \A y \in T : x <= y
  <1>1. PICK x \in T : \A y \in T : <<y, x>> \notin OpToRel(<, Nat)
    BY WFMin, NatLessThanWellFounded
  <1>2. \A y \in T : ~(y < x)
    BY <1>1, Zenon DEF OpToRel
  <1>3. QED
    BY <1>2

-----------------------------------------------------------------------------
(* Lines of a message and of its parts, as parse_line finds them: it takes *)
(* an LF after a letter r for the end of a line, and looks at nothing      *)
(* behind another LF without CR.                                           *)

CodeEnds(s) ==
    {i \in 2..Len(s) : s[i] = "LF" /\ s[i - 1] \in (IF i > 2 THEN {"CR", "r"} ELSE {"CR"})}
Broken(s) == {i \in 1..Len(s) : s[i] = "LF"} \ CodeEnds(s)
Ends(s) == {i \in CodeEnds(s) : \A j \in Broken(s) : i < j}

\* The notions of HttpParser on these lines.
CodeEmpty(s) == {i \in Ends(s) : i - 2 \in Ends(s)}
CodeHeadersEnd(s) == CHOOSE i \in CodeEmpty(s) : \A j \in CodeEmpty(s) : i <= j
CodeAnnounced(s) ==
    \E i \in Ends(s) : i + 3 \in Ends(s) /\ s[i + 1] = "len" /\ i < CodeHeadersEnd(s)
CodeHeadVerdict(s) ==
    CASE Ends(s) = {} -> "NO_REQUEST"
      [] Ends(s) # {} /\ (3 \notin Ends(s) \/ s[1] # "get") -> "BAD_REQUEST"
      [] 3 \in Ends(s) /\ s[1] = "get" ->
            IF CodeEmpty(s) # {} THEN "GET_REQUEST" ELSE "NO_REQUEST"
CodeVerdict(s) ==
    IF /\ CodeHeadVerdict(s) = "GET_REQUEST" /\ CodeAnnounced(s)
       /\ Len(s) < CodeHeadersEnd(s) + Lengths[message]
    THEN "NO_REQUEST"
    ELSE CodeHeadVerdict(s)

LEMMA EndsAre ==
    ASSUME NEW m \in Seq(Tokens)
    PROVE  /\ Ends(m) \subseteq 2..Len(m)
           /\ CodeEmpty(m) \subseteq Ends(m)
           /\ \A i \in Ends(m) : m[i] = "LF" /\ m[i - 1] \in {"CR", "r"}
           /\ Broken(m) \subseteq 1..Len(m)
  BY DEF Ends, CodeEnds, CodeEmpty, Broken

\* The first n tokens have the lines that end in them.
LEMMA EndsOfPart ==
    ASSUME NEW m \in Seq(Tokens), NEW n \in 0..Len(m)
    PROVE  /\ Len(SubSeq(m, 1, n)) = n
           /\ \A i \in 1..n : SubSeq(m, 1, n)[i] = m[i]
           /\ Ends(SubSeq(m, 1, n)) = {i \in Ends(m) : i <= n}
           /\ CodeEmpty(SubSeq(m, 1, n)) = {i \in CodeEmpty(m) : i <= n}
  <1> DEFINE s == SubSeq(m, 1, n)
  <1>1. Len(s) = n /\ \A i \in 1..n : s[i] = m[i]
    OBVIOUS
  <1> HIDE DEF s
  <1>2. CodeEnds(s) = {i \in CodeEnds(m) : i <= n}
    <2>1. ASSUME NEW i \in CodeEnds(s)
          PROVE  i \in CodeEnds(m) /\ i <= n
      <3>1. i \in 2..n /\ i \in 1..n /\ i - 1 \in 1..n
        BY <1>1 DEF CodeEnds
      <3>2. s[i] = m[i] /\ s[i - 1] = m[i - 1]
        BY <1>1, <3>1
      <3>3. QED
        BY <1>1, <3>1, <3>2 DEF CodeEnds
    <2>2. ASSUME NEW i \in CodeEnds(m), i <= n
          PROVE  i \in CodeEnds(s)
      <3>1. i \in 2..n /\ i \in 1..n /\ i - 1 \in 1..n
        BY <1>1, <2>2 DEF CodeEnds
      <3>2. s[i] = m[i] /\ s[i - 1] = m[i - 1]
        BY <1>1, <3>1
      <3>3. QED
        BY <1>1, <3>1, <3>2 DEF CodeEnds
    <2>3. QED
      BY <2>1, <2>2
  <1>3. Broken(s) = {j \in Broken(m) : j <= n}
    <2>1. \A j : j \in Broken(s) <=> j \in 1..n /\ s[j] = "LF" /\ j \notin CodeEnds(s)
      BY <1>1 DEF Broken
    <2>2. \A j : j \in Broken(m) <=> j \in 1..Len(m) /\ m[j] = "LF" /\ j \notin CodeEnds(m)
      BY DEF Broken
    <2>3. QED
      BY <1>1, <1>2, <2>1, <2>2
  <1>4. Ends(s) = {i \in Ends(m) : i <= n}
    <2>1. CodeEnds(m) \subseteq Nat /\ Broken(m) \subseteq Nat
      BY DEF CodeEnds, Broken
    <2>2. ASSUME NEW i \in CodeEnds(m), i <= n
          PROVE  (\A j \in Broken(s) : i < j) <=> (\A j \in Broken(m) : i < j)
      BY <1>3, <2>1, <2>2
    <2>3. QED
      BY <1>2, <2>2 DEF Ends
  <1>5. CodeEmpty(s) = {i \in CodeEmpty(m) : i <= n}
    <2>1. Ends(m) \subseteq Nat
      BY EndsAre
    <2>2. QED
      BY <1>4, <2>1 DEF CodeEmpty
  <1>6. QED
    BY <1>1, <1>4, <1>5 DEF s

LEMMA HeadersEndIs ==
    ASSUME NEW m \in Seq(Tokens), CodeEmpty(m) # {}
    PROVE  CodeHeadersEnd(m) \in CodeEmpty(m) /\ \A i \in CodeEmpty(m) : CodeHeadersEnd(m) <= i
  <1>1. CodeEmpty(m) \subseteq Nat
    BY EndsAre
  <1>2. \E i \in CodeEmpty(m) : \A j \in CodeEmpty(m) : i <= j
    BY <1>1, SmallestOf
  <1>3. QED
    BY <1>2 DEF CodeHeadersEnd

LEMMA HeadersEndUnique ==
    ASSUME NEW m \in Seq(Tokens), NEW h \in CodeEmpty(m), \A i \in CodeEmpty(m) : h <= i
    PROVE  CodeHeadersEnd(m) = h
  <1>1. CodeEmpty(m) \subseteq Nat
    BY EndsAre
  <1>2. CodeHeadersEnd(m) \in CodeEmpty(m) /\ CodeHeadersEnd(m) <= h
    BY HeadersEndIs
  <1>3. QED
    BY <1>1, <1>2

\* A header that announces a body ended before position p.
LenBefore(m, p) ==
    \E i \in Ends(m) : i + 3 \in Ends(m) /\ i + 3 <= p /\ m[i + 1] = "len"

LEMMA AnnouncedIs ==
    ASSUME NEW m \in Seq(Tokens), NEW n \in 0..Len(m), NEW h \in CodeEmpty(m), h <= n,
           \A i \in CodeEmpty(m) : h <= i
    PROVE  /\ CodeEmpty(SubSeq(m, 1, n)) # {}
           /\ CodeHeadersEnd(SubSeq(m, 1, n)) = h
           /\ CodeAnnounced(SubSeq(m, 1, n)) <=> LenBefore(m, h - 2)
  <1> DEFINE s == SubSeq(m, 1, n)
  <1>1. /\ Len(s) = n /\ \A i \in 1..n : s[i] = m[i]
        /\ Ends(s) = {i \in Ends(m) : i <= n}
        /\ CodeEmpty(s) = {i \in CodeEmpty(m) : i <= n}
    BY EndsOfPart
  <1>2. s \in Seq(Tokens)
    OBVIOUS
  <1> HIDE DEF s
  <1>3. h \in CodeEmpty(s) /\ CodeHeadersEnd(s) = h
    <2>1. h \in CodeEmpty(s) /\ \A i \in CodeEmpty(s) : h <= i
      BY <1>1
    <2>2. QED
      BY <1>2, <2>1, HeadersEndUnique
  <1>4. /\ Ends(m) \subseteq 2..Len(m) /\ h \in Ends(m) /\ h - 2 \in Ends(m)
        /\ \A i \in Ends(m) : m[i] = "LF" /\ m[i - 1] \in {"CR", "r"}
    BY EndsAre DEF CodeEmpty
  <1>5. ASSUME NEW i \in Ends(m), i + 3 \in Ends(m), m[i + 1] = "len", i < h
        PROVE  i + 3 <= h - 2
    <2>1. i + 1 # h - 1
      BY <1>4, <1>5
    <2>2. i + 3 # h
      <3>1. SUFFICES ASSUME i + 3 = h PROVE FALSE
        OBVIOUS
      <3>2. i + 1 = h - 2
        BY <1>4, <3>1
      <3>3. m[i + 1] = "LF"
        BY <1>4, <3>2
      <3>4. QED
        BY <1>5, <3>3
    <2>3. i + 3 # h + 1
      <3>1. SUFFICES ASSUME i + 3 = h + 1 PROVE FALSE
        OBVIOUS
      <3>2. i + 1 = h - 1
        BY <1>4, <3>1
      <3>3. QED
        BY <2>1, <3>2
    <2>4. i + 3 # h - 1
      <3>1. SUFFICES ASSUME i + 3 = h - 1 PROVE FALSE
        OBVIOUS
      <3>2. (i + 3) - 1 = h - 2
        BY <1>4, <3>1
      <3>3. m[(i + 3) - 1] = "LF"
        BY <1>4, <3>2
      <3>4. QED
        BY <1>4, <1>5, <3>3
    <2>5. i + 3 # h + 2
      <3>1. SUFFICES ASSUME i + 3 = h + 2 PROVE FALSE
        OBVIOUS
      <3>2. i = h - 1
        BY <1>4, <3>1
      <3>3. m[h - 1] = "LF"
        BY <1>4, <3>2
      <3>4. QED
        BY <1>4, <3>3
    <2>6. QED
      BY <1>4, <1>5, <2>1, <2>2, <2>3, <2>4, <2>5
  <1>6. ASSUME CodeAnnounced(s) PROVE LenBefore(m, h - 2)
    <2>1. PICK i \in Ends(s) : i + 3 \in Ends(s) /\ s[i + 1] = "len" /\ i < h
      BY <1>3, <1>6 DEF CodeAnnounced
    <2>2. i \in Ends(m) /\ i + 3 \in Ends(m) /\ i \in Nat /\ i + 3 <= n
      BY <1>1, <1>4, <2>1
    <2>3. m[i + 1] = "len"
      BY <1>1, <2>1, <2>2
    <2>4. i + 3 <= h - 2
      BY <1>5, <2>1, <2>2, <2>3
    <2>5. QED
      BY <2>2, <2>3, <2>4 DEF LenBefore
  <1>7. ASSUME LenBefore(m, h - 2) PROVE CodeAnnounced(s)
    <2>1. PICK i \in Ends(m) : i + 3 \in Ends(m) /\ i + 3 <= h - 2 /\ m[i + 1] = "len"
      BY <1>7 DEF LenBefore
    <2>2. i \in Ends(s) /\ i + 3 \in Ends(s) /\ i < h /\ i + 1 \in 1..n
      BY <1>1, <1>4, <2>1
    <2>3. QED
      BY <1>1, <1>3, <2>1, <2>2 DEF CodeAnnounced
  <1>8. QED
    BY <1>3, <1>6, <1>7 DEF s

-----------------------------------------------------------------------------
(* Types.                                                                  *)

BufferTokens == Tokens \cup {"NUL"}

LEMMA MessageIs == TypeOK => message \in Seq(Tokens) /\ Len(message) \in Nat
  BY HttpParserAssumption DEF TypeOK

LEMMA StopIs ==
    ASSUME TypeOK, Stops # {}
    PROVE  /\ FirstStop \in Stops /\ \A j \in Stops : FirstStop <= j
           /\ FirstStop \in m_checked_idx .. (Len(m_read_buf) - 1)
           /\ FirstStop \in Nat
           /\ \/ Byte(FirstStop) = "LF"
              \/ /\ Byte(FirstStop) = "CR"
                 /\ FirstStop + 1 = Len(m_read_buf) \/ Byte(FirstStop + 1) = "LF"
  <1>1. m_checked_idx \in Nat /\ Len(m_read_buf) \in Nat
    BY DEF TypeOK, m_read_idx
  <1>2. Stops \subseteq Nat
    BY <1>1 DEF Stops, m_read_idx
  <1>3. \E i \in Stops : \A j \in Stops : i <= j
    BY <1>2, SmallestOf
  <1>4. FirstStop \in Stops /\ \A j \in Stops : FirstStop <= j
    BY <1>3 DEF FirstStop
  <1>5. QED
    <2>1. PICK f : f = FirstStop
      OBVIOUS
    <2>2. f \in Stops
      BY <1>4, <2>1
    <2>3. f \in m_checked_idx .. (Len(m_read_buf) - 1)
      BY <2>2 DEF Stops, m_read_idx
    <2>4. \/ Byte(f) = "LF"
          \/ Byte(f) = "CR" /\ (f + 1 = Len(m_read_buf) \/ Byte(f + 1) = "LF")
      BY <2>2 DEF Stops, m_read_idx
    <2>5. f \in Nat
      BY <1>1, <2>3
    <2>6. QED
      BY <1>4, <2>1, <2>3, <2>4, <2>5

LEMMA EndLineTypes ==
    ASSUME TypeOK, NEW to \in 2..Len(m_read_buf), EndLine(to), m_checked_idx <= to
    PROVE  TypeOK'
  <1>1. m_read_buf' \in Seq(BufferTokens) /\ Len(m_read_buf') = Len(m_read_buf)
    BY DEF EndLine, TypeOK, BufferTokens, m_read_idx
  <1>2. m_checked_idx \in Nat /\ m_start_line \in 0..m_checked_idx /\ Len(m_read_buf) \in Nat
    BY DEF TypeOK, m_read_idx
  <1>3. to \in 0..Len(m_read_buf) /\ m_start_line \in 0..to
    BY <1>2
  <1>4. QED
    BY <1>1, <1>3 DEF EndLine, TypeOK, BufferTokens, m_read_idx

LEMMA ReturnTypes ==
    ASSUME TypeOK, NEW status \in {"OPEN", "BAD"}, NEW at \in m_checked_idx..Len(m_read_buf),
           Return(status, at)
    PROVE  TypeOK'
  <1>1. m_checked_idx \in Nat /\ m_start_line \in 0..m_checked_idx /\ Len(m_read_buf) \in Nat
    BY DEF TypeOK, m_read_idx
  <1>2. at \in 0..Len(m_read_buf) /\ m_start_line \in 0..at
    BY <1>1
  <1>3. QED
    BY <1>2 DEF Return, TypeOK, m_read_idx

LEMMA ReadTypes ==
    ASSUME TypeOK, NEW k \in 1..Len(message), Read(k)
    PROVE  TypeOK'
  <1>1. message \in Seq(Tokens)
    BY MessageIs
  <1>2. Len(m_read_buf) \in Nat /\ k \in 1..(Len(message) - Len(m_read_buf)) /\ Len(message) \in Nat
    BY <1>1 DEF Read, Arriving, TypeOK, m_read_idx
  <1>3. /\ SubSeq(message, Len(m_read_buf) + 1, Len(m_read_buf) + k) \in Seq(BufferTokens)
        /\ Len(SubSeq(message, Len(m_read_buf) + 1, Len(m_read_buf) + k)) = k
    BY <1>1, <1>2 DEF BufferTokens
  <1>4. m_read_buf' \in Seq(BufferTokens) /\ Len(m_read_buf') = Len(m_read_buf) + k
    BY <1>2, <1>3 DEF Read, TypeOK, BufferTokens, m_read_idx
  <1>5. m_checked_idx \in 0..Len(m_read_buf') /\ Len(m_read_buf) \in 0..Len(m_read_buf')
    BY <1>2, <1>4 DEF TypeOK, m_read_idx
  <1>6. QED
    BY <1>4, <1>5, <1>2 DEF Read, TypeOK, BufferTokens, m_read_idx

LEMMA LineTypes ==
    ASSUME TypeOK, LineOk \/ LineOkLetter \/ LineBad \/ LineOpen
    PROVE  TypeOK'
  <1>1. m_checked_idx \in Nat /\ Len(m_read_buf) \in Nat /\ m_checked_idx <= Len(m_read_buf)
    BY DEF TypeOK, m_read_idx
  <1>2. CASE LineOk
    <2>1. PICK f \in Nat : f = FirstStop /\ f \in m_checked_idx .. (Len(m_read_buf) - 1)
      BY <1>2, StopIs DEF LineOk
    <2>2. f + 2 \in 2..Len(m_read_buf) /\ m_checked_idx <= f + 2 /\ EndLine(f + 2)
      BY <1>1, <1>2, <2>1 DEF LineOk, m_read_idx
    <2>3. QED
      BY <2>2, EndLineTypes
  <1>3. CASE LineOkLetter
    <2>1. PICK f \in Nat : f = FirstStop /\ f \in m_checked_idx .. (Len(m_read_buf) - 1)
      BY <1>3, StopIs DEF LineOkLetter
    <2>2. f + 1 \in 2..Len(m_read_buf) /\ m_checked_idx <= f + 1 /\ EndLine(f + 1)
      BY <1>1, <1>3, <2>1 DEF LineOkLetter, AfterLetter
    <2>3. QED
      BY <2>2, EndLineTypes
  <1>4. CASE LineBad
    <2>1. FirstStop \in m_checked_idx .. Len(m_read_buf)
      BY <1>1, <1>4, StopIs DEF LineBad
    <2>2. QED
      BY <1>4, <2>1, ReturnTypes DEF LineBad
  <1>5. CASE LineOpen
    <2>1. CASE Stops = {} /\ Return("OPEN", m_read_idx)
      <3>1. Len(m_read_buf) \in m_checked_idx .. Len(m_read_buf)
        BY <1>1
      <3>2. QED
        BY <2>1, <3>1, ReturnTypes DEF m_read_idx
    <2>2. CASE Stops # {} /\ Return("OPEN", FirstStop)
      <3>1. FirstStop \in m_checked_idx .. Len(m_read_buf)
        BY <1>1, <2>2, StopIs
      <3>2. QED
        BY <2>2, <3>1, ReturnTypes
    <2>3. QED
      BY <1>5, <2>1, <2>2 DEF LineOpen
  <1>6. QED
    BY <1>2, <1>3, <1>4, <1>5

LEMMA LoopTypes ==
    ASSUME TypeOK,
           ExpectBody \/ RequestLineOk \/ RequestLineBad \/ Header \/ HeaderEnd
              \/ ContentWhole \/ ContentOpen \/ ContentUndefined
    PROVE  TypeOK'
  <1>1. m_checked_idx \in Nat /\ m_checked_idx \in 0..m_checked_idx
    BY DEF TypeOK, m_read_idx
  <1>2. CASE ExpectBody
    BY <1>2 DEF ExpectBody, TypeOK, parserVars, m_read_idx
  <1>3. CASE RequestLineOk \/ RequestLineBad
    BY <1>1, <1>3 DEF RequestLineOk, RequestLineBad, Switch, TypeOK,
                      m_read_idx
  <1>4. CASE Header
    <2>1. m_content_length' \in {0, Lengths[message']} /\ m_linger' \in BOOLEAN
      BY <1>4 DEF Header, Switch, TypeOK
    <2>2. QED
      BY <1>1, <1>4, <2>1 DEF Header, Switch, TypeOK, m_read_idx
  <1>5. CASE HeaderEnd
    BY <1>1, <1>5 DEF HeaderEnd, Switch, TypeOK, m_read_idx
  <1>6. CASE ContentWhole
    <2>1. m_read_buf' \in [1..Len(m_read_buf) -> Tokens \cup {"NUL"}]
      BY <1>6 DEF ContentWhole, TypeOK
    <2>2. Len(m_read_buf) \in Nat
      BY DEF TypeOK
    <2>3. m_read_buf' \in Seq(Tokens \cup {"NUL"}) /\ Len(m_read_buf') = Len(m_read_buf)
      BY <2>1, <2>2
    <2>4. QED
      BY <1>1, <1>6, <2>3 DEF ContentWhole, Switch, TypeOK, m_read_idx
  <1>7. CASE ContentOpen \/ ContentUndefined
    BY <1>1, <1>7 DEF ContentOpen, ContentUndefined, Switch, TypeOK, m_read_idx
  <1>8. QED
    BY <1>2, <1>3, <1>4, <1>5, <1>6, <1>7

LEMMA OtherTypes ==
    ASSUME TypeOK, NEW k, ReadFull(k) \/ Answer \/ UNCHANGED vars
    PROVE  TypeOK'
  <1>1. CASE ReadFull(k)
    BY <1>1 DEF ReadFull, TypeOK, parserVars, m_read_idx
  <1>2. CASE Answer
    <2>1. CASE m_linger /\ requests < MaxRequests
      <3>1. requests' \in 1..MaxRequests
        BY <1>2, <2>1, HttpParserAssumption DEF Answer, TypeOK
      <3>2. m_read_buf' \in Seq(Tokens \cup {"NUL"}) /\ Len(m_read_buf') = 0
        <4>1. m_read_buf' = <<>>
          BY <1>2, <2>1 DEF Answer, Initial
        <4>2. QED
          BY <4>1
      <3>3. 0 <= READ_BUFFER_SIZE
        BY HttpParserAssumption
      <3>4. QED
        <4>1. /\ m_checked_idx' = 0 /\ m_start_line' = 0 /\ before' = 0
              /\ m_check_state' = "REQUESTLINE" /\ m_content_length' = 0 /\ m_linger' \in BOOLEAN
              /\ message' \in Messages /\ pc' = "wait" /\ result' = "NO_REQUEST"
              /\ line_status' = line_status
          BY <1>2, <2>1 DEF Answer, Initial
        <4>2. /\ m_checked_idx' \in 0..Len(m_read_buf') /\ m_start_line' \in 0..m_checked_idx'
              /\ before' \in 0..Len(m_read_buf') /\ Len(m_read_buf') <= READ_BUFFER_SIZE
          BY <3>2, <3>3, <4>1
        <4>3. line_status' \in {"OK", "OPEN", "BAD"}
          BY <4>1 DEF TypeOK
        <4>4. QED
          BY <3>1, <3>2, <4>1, <4>2, <4>3 DEF TypeOK, m_read_idx
    <2>2. CASE ~(m_linger /\ requests < MaxRequests)
      BY <1>2, <2>2 DEF Answer, TypeOK, parserVars, m_read_idx
    <2>3. QED
      BY <2>1, <2>2
  <1>3. CASE UNCHANGED vars
    BY <1>3 DEF vars, TypeOK, parserVars, m_read_idx
  <1>4. QED
    BY <1>1, <1>2, <1>3

LEMMA TypesStep == TypeOK /\ [Next]_vars => TypeOK'
  <1> SUFFICES ASSUME TypeOK, [Next]_vars PROVE TypeOK'
    OBVIOUS
  <1>1. CASE \E k \in 1..Len(message) : Read(k) \/ ReadFull(k)
    BY <1>1, ReadTypes, OtherTypes
  <1>2. CASE ProcessRead
    BY <1>2, LineTypes, LoopTypes DEF ProcessRead
  <1>3. CASE Answer \/ UNCHANGED vars
    BY <1>3, OtherTypes
  <1>4. QED
    BY <1>1, <1>2, <1>3 DEF Next

LEMMA TypesInit == Init => TypeOK
  <1> SUFFICES ASSUME Init PROVE TypeOK
    OBVIOUS
  <1>1. 0 <= READ_BUFFER_SIZE /\ 1 \in 1..MaxRequests
    BY HttpParserAssumption
  <1>2. QED
    <2>2. /\ m_read_buf = <<>> /\ m_checked_idx = 0 /\ m_start_line = 0
          /\ m_check_state = "REQUESTLINE" /\ m_content_length = 0 /\ m_linger \in BOOLEAN
          /\ message \in Messages /\ line_status = "OK" /\ pc = "wait"
          /\ result = "NO_REQUEST" /\ requests = 1 /\ before = 0
      BY DEF Init, Initial
    <2>3. m_read_buf \in Seq(Tokens \cup {"NUL"}) /\ Len(m_read_buf) = 0
      BY <2>2
    <2>4. m_checked_idx \in 0..Len(m_read_buf) /\ m_start_line \in 0..m_checked_idx
          /\ before \in 0..Len(m_read_buf) /\ Len(m_read_buf) <= READ_BUFFER_SIZE
      BY <1>1, <2>2, <2>3
    <2>5. QED
      BY <1>1, <2>2, <2>3, <2>4 DEF TypeOK, m_read_idx

-----------------------------------------------------------------------------
(* The invariant.                                                          *)

Working == pc \in {"wait", "while", "switch"}
InLines == Working /\ m_check_state # "CONTENT"

\* No line of the message ends behind a and up to b.
NoEnd(a, b) == \A i \in Ends(message) : i <= a \/ b < i

\* The bytes behind m_start_line are as they have been received, but for the two
\* that parse_line has just overwritten.
LineKept ==
    \A i \in m_start_line + 1 .. Len(m_read_buf) :
        \/ m_read_buf[i] = message[i]
        \/ pc = "switch" /\ i \in m_checked_idx - 1 .. m_checked_idx

\* m_start_line is behind a line of the message, or at its start.
LineStart == m_start_line > 0 => m_start_line \in Ends(message) /\ m_read_buf[m_start_line] = "NUL"

\* What parse_line has gone over holds no end of a line, and no CR of one is left
\* behind.
Scanned ==
    /\ \A i \in m_start_line + 1 .. m_checked_idx :
            message[i] = "LF" => pc = "switch" /\ i = m_checked_idx
    /\ m_start_line < m_checked_idx /\ message[m_checked_idx] = "CR"
            => m_checked_idx < Len(m_read_buf) /\ message[m_checked_idx + 1] # "LF"

\* The line that parse_line has found.
LineFound ==
    pc = "switch" =>
        /\ m_checked_idx \in Ends(message)
        /\ m_start_line <= m_checked_idx - 2
        /\ m_read_buf[m_checked_idx] = "NUL"
        /\ line_status = "OK"

\* No line is left that has been read; while process_read runs, none that had
\* been read before this call.
Consumed == NoEnd(m_start_line, IF pc = "wait" THEN Len(m_read_buf) ELSE before)

\* What the lines up to m_start_line have said.
HeadRead ==
    IF m_check_state = "REQUESTLINE"
    THEN m_start_line = 0 /\ m_content_length = 0
    ELSE /\ m_start_line > 0
         /\ 3 \in Ends(message) /\ message[1] = "get"
         /\ \A i \in CodeEmpty(message) : m_start_line < i
         /\ m_content_length = IF LenBefore(message, m_start_line) THEN Lengths[message] ELSE 0

LinesRead ==
    InLines => LineKept /\ LineStart /\ Scanned /\ LineFound /\ Consumed /\ HeadRead

\* The headers of the message have been read, and say that a body follows.
HeadersRead ==
    /\ CodeEmpty(message) # {} /\ CodeHeadersEnd(message) <= Len(m_read_buf)
    /\ LenBefore(message, CodeHeadersEnd(message) - 2)

\* An earlier call of read() has ended among the bytes of the body.
Cut == before > CodeHeadersEnd(message)
Missing == Len(m_read_buf) < CodeHeadersEnd(message) + Lengths[message]

\* A call of process_read has judged a body that is not cut at least once, at the
\* end of the headers, before it looks for lines in it.
BodyRead ==
    Working /\ m_check_state = "CONTENT" =>
        /\ 3 \in Ends(message) /\ message[1] = "get"
        /\ HeadersRead
        /\ m_content_length = Lengths[message]
        /\ CodeHeadersEnd(message) <= m_checked_idx
        /\ \/ Cut \/ Missing
           \/ /\ m_checked_idx = CodeHeadersEnd(message)
              /\ pc = "switch" \/ (pc = "while" /\ line_status = "OK")

\* The verdict is that of the lines found, unless a body is cut.
Judged ==
    \/ result = CodeVerdict(Received)
    \/ /\ result = "NO_REQUEST"
       /\ CodeHeadVerdict(Received) = "GET_REQUEST" /\ CodeAnnounced(Received)
       /\ before > CodeHeadersEnd(Received)

Results ==
    /\ Working => result = "NO_REQUEST"
    /\ pc = "answer" => Judged

PInv == TypeOK /\ Len(m_read_buf) <= Len(message) /\ LinesRead /\ BodyRead /\ Results

-----------------------------------------------------------------------------
(* What the invariant says of the verdict.                                 *)

LEMMA Indices ==
    ASSUME TypeOK
    PROVE  /\ message \in Seq(Tokens) /\ Len(message) \in Nat
           /\ m_read_buf \in Seq(Tokens \cup {"NUL"}) /\ Len(m_read_buf) \in Nat
           /\ m_checked_idx \in Nat /\ m_start_line \in Nat /\ before \in Nat
           /\ m_start_line <= m_checked_idx /\ m_checked_idx <= Len(m_read_buf)
           /\ before <= Len(m_read_buf)
           /\ Lengths[message] \in Int
  BY HttpParserAssumption DEF TypeOK, m_read_idx

LEMMA ReceivedIs ==
    ASSUME TypeOK, Len(m_read_buf) <= Len(message)
    PROVE  /\ Received \in Seq(Tokens) /\ Len(Received) = Len(m_read_buf)
           /\ \A i \in 1..Len(m_read_buf) : Received[i] = message[i]
           /\ Ends(Received) = {i \in Ends(message) : i <= Len(m_read_buf)}
           /\ CodeEmpty(Received) = {i \in CodeEmpty(message) : i <= Len(m_read_buf)}
  <1>1. message \in Seq(Tokens) /\ Len(m_read_buf) \in 0..Len(message)
    BY Indices
  <1>2. Received = SubSeq(message, 1, Len(m_read_buf))
    BY DEF Received, m_read_idx
  <1>3. SubSeq(message, 1, Len(m_read_buf)) \in Seq(Tokens)
    BY <1>1
  <1>4. QED
    BY <1>1, <1>2, <1>3, EndsOfPart

LEMMA ReceivedHeaders ==
    ASSUME TypeOK, Len(m_read_buf) <= Len(message), HeadersRead
    PROVE  /\ CodeEmpty(Received) # {} /\ CodeAnnounced(Received)
           /\ CodeHeadersEnd(Received) = CodeHeadersEnd(message)
           /\ CodeHeadersEnd(message) \in CodeEmpty(message) /\ CodeHeadersEnd(message) \in Nat
           /\ CodeHeadersEnd(message) <= Len(m_read_buf)
  <1>1. /\ message \in Seq(Tokens) /\ Len(m_read_buf) \in 0..Len(message)
        /\ Received = SubSeq(message, 1, Len(m_read_buf))
    BY Indices DEF Received, m_read_idx
  <1>2. CodeHeadersEnd(message) \in CodeEmpty(message) /\ \A i \in CodeEmpty(message) : CodeHeadersEnd(message) <= i
    BY <1>1, HeadersEndIs DEF HeadersRead
  <1>3. CodeEmpty(message) \subseteq Nat
    BY <1>1, EndsAre
  <1>4. QED
    BY <1>1, <1>2, <1>3, AnnouncedIs DEF HeadersRead

LEMMA BodyVerdict ==
    ASSUME TypeOK, Len(m_read_buf) <= Len(message), HeadersRead,
           3 \in Ends(message), message[1] = "get"
    PROVE  /\ CodeHeadVerdict(Received) = "GET_REQUEST" /\ CodeAnnounced(Received)
           /\ CodeHeadersEnd(Received) = CodeHeadersEnd(message)
           /\ CodeVerdict(Received) = IF Missing THEN "NO_REQUEST" ELSE "GET_REQUEST"
  <1>1. /\ CodeEmpty(Received) # {} /\ CodeAnnounced(Received)
        /\ CodeHeadersEnd(Received) = CodeHeadersEnd(message)
        /\ CodeHeadersEnd(message) \in CodeEmpty(message) /\ CodeHeadersEnd(message) \in Nat
        /\ CodeHeadersEnd(message) <= Len(m_read_buf)
    BY ReceivedHeaders
  <1>2. /\ Len(Received) = Len(m_read_buf) /\ \A i \in 1..Len(m_read_buf) : Received[i] = message[i]
        /\ Ends(Received) = {i \in Ends(message) : i <= Len(m_read_buf)}
    BY ReceivedIs
  <1>3. 3 <= Len(m_read_buf)
    <2>1. CodeHeadersEnd(message) \in Ends(message) /\ CodeHeadersEnd(message) - 2 \in Ends(message)
      BY <1>1 DEF CodeEmpty
    <2>2. CodeHeadersEnd(message) - 2 >= 2
      BY <2>1, EndsAre, Indices
    <2>3. QED
      BY <1>1, <2>2, Indices
  <1>4. 3 \in Ends(Received) /\ Received[1] = "get"
    BY <1>2, <1>3, Indices
  <1>5. CodeHeadVerdict(Received) = "GET_REQUEST"
    BY <1>1, <1>4 DEF CodeHeadVerdict
  <1>6. QED
    BY <1>1, <1>2, <1>5 DEF CodeVerdict, Missing

LEMMA WaitVerdict ==
    ASSUME PInv, pc = "wait"
    PROVE  Judged
  <1>1. /\ TypeOK /\ Len(m_read_buf) <= Len(message) /\ LinesRead /\ BodyRead /\ Working
        /\ result = "NO_REQUEST"
    BY DEF PInv, Working, Results
  <1>2. CASE m_check_state = "CONTENT"
    <2>1. HeadersRead /\ 3 \in Ends(message) /\ message[1] = "get" /\ (Cut \/ Missing)
      BY <1>1, <1>2 DEF BodyRead
    <2>2. QED
      BY <1>1, <2>1, BodyVerdict DEF Judged, Cut
  <1>3. ASSUME m_check_state # "CONTENT" PROVE CodeVerdict(Received) = "NO_REQUEST"
    <2>1. NoEnd(m_start_line, Len(m_read_buf)) /\ HeadRead
      BY <1>1, <1>3 DEF LinesRead, InLines, Consumed
    <2>2. /\ \A i \in 1..Len(m_read_buf) : Received[i] = message[i]
          /\ Ends(Received) = {i \in Ends(message) : i <= Len(m_read_buf)}
          /\ CodeEmpty(Received) = {i \in CodeEmpty(message) : i <= Len(m_read_buf)}
      BY <1>1, ReceivedIs
    <2>3. Ends(message) \subseteq Nat \ {0, 1} /\ CodeEmpty(message) \subseteq Ends(message)
      BY <1>1, Indices, EndsAre
    <2>4. CASE m_check_state = "REQUESTLINE"
      <3>1. m_start_line = 0
        BY <2>1, <2>4 DEF HeadRead
      <3>2. Ends(Received) = {}
        BY <1>1, <2>1, <2>2, <2>3, <3>1, Indices DEF NoEnd
      <3>3. QED
        BY <3>2 DEF CodeHeadVerdict, CodeVerdict
    <2>5. CASE m_check_state # "REQUESTLINE"
      <3>1. /\ 3 \in Ends(message) /\ message[1] = "get"
            /\ \A i \in CodeEmpty(message) : m_start_line < i
        BY <2>1, <2>5 DEF HeadRead
      <3>2. CodeEmpty(Received) = {}
        BY <1>1, <2>1, <2>2, <2>3, <3>1, Indices DEF NoEnd
      <3>3. CASE Ends(Received) = {}
        BY <3>3 DEF CodeHeadVerdict, CodeVerdict
      <3>4. CASE Ends(Received) # {}
        <4>1. PICK i \in Ends(message) : i <= Len(m_read_buf)
          BY <2>2, <3>4
        <4>2. 3 <= Len(m_read_buf)
          <5>1. SUFFICES ASSUME Len(m_read_buf) < 3 PROVE FALSE
            BY <1>1, Indices
          <5>2. i = 2
            BY <1>1, <2>3, <4>1, <5>1, Indices
          <5>3. message[1] \in {"CR", "r"}
            <6>1. message[i - 1] \in {"CR", "r"}
              BY <1>1, <4>1, Indices, EndsAre
            <6>2. QED
              BY <5>2, <6>1
          <5>4. QED
            BY <3>1, <5>3
        <4>3. 3 \in Ends(Received) /\ Received[1] = "get"
          BY <1>1, <2>2, <3>1, <4>2, Indices
        <4>4. CodeHeadVerdict(Received) = "NO_REQUEST"
          BY <3>2, <4>3 DEF CodeHeadVerdict
        <4>5. QED
          BY <4>4 DEF CodeVerdict
      <3>5. QED
        BY <3>3, <3>4
    <2>6. QED
      BY <2>4, <2>5
  <1>4. QED
    BY <1>1, <1>2, <1>3 DEF Judged

LEMMA ReferenceHeadersEnd ==
    ASSUME NEW s \in Seq(Tokens), EmptyLines(s) # {}
    PROVE  /\ HeadersEnd(s) \in EmptyLines(s) /\ HeadersEnd(s) \in Nat
           /\ \A j \in EmptyLines(s) : HeadersEnd(s) <= j
  <1>1. EmptyLines(s) \subseteq Nat
    BY DEF EmptyLines, LineEnds
  <1>2. \E i \in EmptyLines(s) : \A j \in EmptyLines(s) : i <= j
    BY <1>1, SmallestOf
  <1>3. QED
    BY <1>1, <1>2 DEF HeadersEnd

\* In a clean request parse_line finds the lines of the reference, as far as the
\* head goes.
LEMMA CleanEnds ==
    ASSUME NEW s \in Seq(Tokens), Clean(s), NEW i \in Nat,
           EmptyLines(s) # {} => i <= HeadersEnd(s)
    PROVE  i \in Ends(s) <=> i \in LineEnds(s)
  <1>1. LineEnds(s) \subseteq CodeEnds(s) /\ LineEnds(s) \subseteq Nat /\ CodeEnds(s) \subseteq Nat
    BY DEF LineEnds, CodeEnds
  <1>2. ASSUME NEW j \in 1..Len(s), s[j] = "LF", j \notin LineEnds(s)
        PROVE  EmptyLines(s) # {} /\ HeadersEnd(s) < j
    BY <1>2 DEF Clean
  <1>3. ASSUME i \in LineEnds(s) PROVE i \in Ends(s)
    <2>1. ASSUME NEW j \in Broken(s) PROVE i < j
      <3>1. j \in 1..Len(s) /\ s[j] = "LF" /\ j \notin LineEnds(s)
        BY <1>1, <2>1 DEF Broken
      <3>2. EmptyLines(s) # {} /\ HeadersEnd(s) < j
        BY <1>2, <3>1
      <3>3. HeadersEnd(s) \in Nat
        BY <3>2, ReferenceHeadersEnd
      <3>4. QED
        BY <3>1, <3>2, <3>3
    <2>2. QED
      BY <1>1, <1>3, <2>1 DEF Ends
  <1>4. ASSUME i \in Ends(s), i \notin LineEnds(s) PROVE FALSE
    <2>1. i \in 1..Len(s) /\ s[i] = "LF"
      BY <1>4 DEF Ends, CodeEnds
    <2>2. EmptyLines(s) # {} /\ HeadersEnd(s) < i
      BY <1>2, <1>4, <2>1
    <2>3. HeadersEnd(s) \in Nat
      BY <2>2, ReferenceHeadersEnd
    <2>4. QED
      BY <2>2, <2>3
  <1>5. QED
    BY <1>3, <1>4

\* So the two verdicts are the same.
LEMMA CleanVerdict ==
    ASSUME TypeOK, NEW s \in Seq(Tokens), Clean(s)
    PROVE  /\ CodeHeadVerdict(s) = HeadVerdict(s)
           /\ HeadVerdict(s) = "GET_REQUEST" =>
                /\ CodeHeadersEnd(s) = HeadersEnd(s)
                /\ CodeAnnounced(s) <=> Announced(s)
           /\ CodeVerdict(s) = Verdict(s)
  <1>1. /\ LineEnds(s) \subseteq Nat \ {0, 1} /\ Ends(s) \subseteq Nat \ {0, 1}
        /\ CodeEmpty(s) \subseteq Ends(s) /\ EmptyLines(s) \subseteq LineEnds(s)
    BY DEF LineEnds, Ends, CodeEnds, CodeEmpty, EmptyLines
  <1>2. CASE EmptyLines(s) = {}
    <2>1. Ends(s) = LineEnds(s)
      BY <1>1, <1>2, CleanEnds
    <2>2. CodeEmpty(s) = {}
      BY <1>2, <2>1 DEF CodeEmpty, EmptyLines
    <2>3. CodeHeadVerdict(s) = HeadVerdict(s) /\ HeadVerdict(s) # "GET_REQUEST"
      BY <1>2, <2>1, <2>2 DEF CodeHeadVerdict, HeadVerdict
    <2>4. QED
      BY <2>3 DEF CodeVerdict, Verdict, BodyMissing
  <1>3. CASE EmptyLines(s) # {}
    <2>1. PICK h \in Nat : h = HeadersEnd(s) /\ h \in EmptyLines(s) /\ \A j \in EmptyLines(s) : h <= j
      BY <1>3, ReferenceHeadersEnd
    <2>2. \A i \in Nat : i <= h => (i \in Ends(s) <=> i \in LineEnds(s))
      BY <2>1, CleanEnds
    <2>3. h - 2 \in LineEnds(s) /\ h \in LineEnds(s) /\ h - 2 \in Nat \ {0, 1}
      BY <1>1, <2>1 DEF EmptyLines
    <2>4. h \in CodeEmpty(s)
      BY <2>2, <2>3 DEF CodeEmpty
    <2>5. ASSUME NEW j \in CodeEmpty(s) PROVE h <= j
      <3>1. SUFFICES ASSUME j < h PROVE FALSE
        BY <1>1, <2>1
      <3>2. j \in Ends(s) /\ j - 2 \in Ends(s) /\ j \in Nat /\ j - 2 \in Nat
        BY <1>1 DEF CodeEmpty
      <3>3. j \in LineEnds(s) /\ j - 2 \in LineEnds(s)
        BY <2>2, <3>1, <3>2
      <3>4. QED
        BY <2>1, <3>1, <3>2, <3>3 DEF EmptyLines
    <2>6. CodeHeadersEnd(s) = h
      BY <2>4, <2>5, HeadersEndUnique
    <2>7. CodeHeadVerdict(s) = HeadVerdict(s)
      <3>1. 3 \in Ends(s) <=> 3 \in LineEnds(s)
        BY <2>2, <2>3
      <3>2. Ends(s) # {} /\ LineEnds(s) # {} /\ CodeEmpty(s) # {}
        BY <2>2, <2>3, <2>4, <1>1
      <3>3. QED
        BY <1>3, <3>1, <3>2 DEF CodeHeadVerdict, HeadVerdict
    <2>8. CodeAnnounced(s) <=> Announced(s)
      <3>1. ASSUME Announced(s) PROVE CodeAnnounced(s)
        <4>1. PICK i \in LineEnds(s) : i + 3 \in LineEnds(s) /\ s[i + 1] = "len" /\ i + 3 < h
          BY <2>1, <3>1 DEF Announced
        <4>2. i \in Nat /\ i <= h /\ i + 3 <= h /\ i < h /\ i + 3 \in Nat
          BY <1>1, <4>1
        <4>3. i \in Ends(s) /\ i + 3 \in Ends(s)
          BY <2>2, <4>1, <4>2
        <4>4. QED
          BY <2>6, <4>1, <4>2, <4>3 DEF CodeAnnounced
      <3>2. ASSUME CodeAnnounced(s) PROVE Announced(s)
        <4>1. LenBefore(s, h - 2)
          <5>1. /\ Len(s) \in 0..Len(s) /\ SubSeq(s, 1, Len(s)) = s
                /\ h <= Len(s)
            BY <2>1 DEF EmptyLines, LineEnds
          <5>2. QED
            BY <2>4, <2>5, <3>2, <5>1, AnnouncedIs
        <4>2. PICK i \in Ends(s) : i + 3 \in Ends(s) /\ i + 3 <= h - 2 /\ s[i + 1] = "len"
          BY <4>1 DEF LenBefore
        <4>3. i \in Nat /\ i <= h /\ i + 3 <= h /\ i + 3 < h /\ i + 3 \in Nat
          BY <1>1, <4>2
        <4>4. i \in LineEnds(s) /\ i + 3 \in LineEnds(s)
          BY <2>2, <4>2, <4>3
        <4>5. QED
          BY <2>1, <4>2, <4>3, <4>4 DEF Announced
      <3>3. QED
        BY <3>1, <3>2
    <2>9. CodeVerdict(s) = Verdict(s)
      BY <2>1, <2>6, <2>7, <2>8 DEF CodeVerdict, Verdict, BodyMissing
    <2>10. QED
      BY <2>1, <2>6, <2>7, <2>8, <2>9
  <1>4. QED
    BY <1>2, <1>3

LEMMA PInvVerdict == PInv => VerdictIsReference
  <1>1. SUFFICES ASSUME PInv, pc \in {"wait", "answer"}, Clean(Received)
                 PROVE  \/ result = Verdict(Received)
                        \/ result = "NO_REQUEST" /\ BodyCut(Received)
    BY DEF VerdictIsReference
  <1>2. Judged
    BY <1>1, WaitVerdict DEF PInv, Results
  <1>3. TypeOK /\ Received \in Seq(Tokens)
    BY <1>1, ReceivedIs DEF PInv
  <1>4. /\ CodeHeadVerdict(Received) = HeadVerdict(Received)
        /\ HeadVerdict(Received) = "GET_REQUEST" =>
                /\ CodeHeadersEnd(Received) = HeadersEnd(Received)
                /\ CodeAnnounced(Received) <=> Announced(Received)
        /\ CodeVerdict(Received) = Verdict(Received)
    BY <1>1, <1>3, CleanVerdict
  <1>5. QED
    BY <1>2, <1>4 DEF Judged, BodyCut

-----------------------------------------------------------------------------
(* parse_line.                                                             *)

\* What PInv says while lines are parsed.
LEMMA InLinesIs ==
    ASSUME PInv, InLines
    PROVE  /\ TypeOK /\ Len(m_read_buf) <= Len(message)
           /\ LineKept /\ LineStart /\ Scanned /\ LineFound /\ Consumed /\ HeadRead
           /\ result = "NO_REQUEST"
  BY DEF PInv, LinesRead, InLines, Results

\* How PInv is shown in a state in which lines are parsed.
LEMMA InLinesPInv ==
    ASSUME TypeOK', (Len(m_read_buf) <= Len(message))', InLines',
           LineKept', LineStart', Scanned', LineFound', Consumed', HeadRead',
           result' = "NO_REQUEST"
    PROVE  PInv'
  <1>1. (m_check_state # "CONTENT")' /\ (pc # "answer")'
    BY DEF InLines, Working
  <1>2. BodyRead' /\ Results' /\ LinesRead'
    BY <1>1 DEF BodyRead, Results, LinesRead
  <1>3. QED
    BY <1>2 DEF PInv

LEMMA EndLineStep ==
    ASSUME PInv, InLines, pc = "while", TypeOK', NEW to \in Ends(message), EndLine(to),
           to <= Len(m_read_buf), m_start_line <= to - 2,
           \A i \in m_start_line + 1 .. to - 1 : message[i] # "LF"
    PROVE  PInv'
  <1>1. /\ TypeOK /\ Len(m_read_buf) <= Len(message)
        /\ LineKept /\ LineStart /\ Consumed /\ HeadRead /\ result = "NO_REQUEST"
    BY InLinesIs
  <1>2. /\ message' = message /\ m_start_line' = m_start_line /\ m_checked_idx' = to
        /\ line_status' = "OK" /\ pc' = "switch" /\ m_check_state' = m_check_state
        /\ result' = result /\ before' = before /\ m_content_length' = m_content_length
        /\ m_read_buf' = [m_read_buf EXCEPT ![to - 1] = "NUL", ![to] = "NUL"]
    BY DEF EndLine
  <1>3. to \in Nat /\ to >= 2
    BY <1>1, Indices, EndsAre
  <1>4. /\ Len(m_read_buf') = Len(m_read_buf) /\ m_read_buf'[to] = "NUL"
        /\ \A i \in 1..Len(m_read_buf) : i \notin {to - 1, to} => m_read_buf'[i] = m_read_buf[i]
    BY <1>1, <1>2, <1>3, Indices
  <1>5. InLines' /\ (Len(m_read_buf) <= Len(message))' /\ result' = "NO_REQUEST"
    BY <1>1, <1>2, <1>4 DEF InLines, Working
  <1>6. LineKept'
    <2>1. SUFFICES ASSUME NEW i \in m_start_line + 1 .. Len(m_read_buf), i \notin to - 1 .. to
                   PROVE  m_read_buf'[i] = message[i]
      BY <1>2, <1>4 DEF LineKept
    <2>2. m_read_buf[i] = message[i]
      BY <1>1, <2>1 DEF LineKept
    <2>3. i \in 1..Len(m_read_buf) /\ i \notin {to - 1, to}
      BY <1>1, <1>3, <2>1, Indices
    <2>4. QED
      BY <1>4, <2>2, <2>3
  <1>7. LineStart'
    <2>1. SUFFICES ASSUME m_start_line > 0
                   PROVE  m_start_line \in Ends(message) /\ m_read_buf'[m_start_line] = "NUL"
      BY <1>2 DEF LineStart
    <2>2. m_start_line \in 1..Len(m_read_buf) /\ m_start_line \notin {to - 1, to}
      BY <1>1, <1>3, <2>1, Indices
    <2>3. QED
      BY <1>1, <1>4, <2>1, <2>2 DEF LineStart
  <1>8. Scanned'
    <2>1. message[to] = "LF"
      BY <1>1, Indices, EndsAre
    <2>2. \A i \in m_start_line + 1 .. to : message[i] = "LF" => i = to
      BY <1>1, <1>3, Indices
    <2>3. QED
      BY <1>2, <2>1, <2>2 DEF Scanned
  <1>9. LineFound'
    BY <1>2, <1>4 DEF LineFound
  <1>10. Consumed'
    BY <1>1, <1>2 DEF Consumed, NoEnd
  <1>11. HeadRead'
    BY <1>1, <1>2 DEF HeadRead, LenBefore
  <1>12. QED
    BY <1>5, <1>6, <1>7, <1>8, <1>9, <1>10, <1>11, InLinesPInv

LEMMA ReturnStep ==
    ASSUME PInv, InLines, pc = "while", TypeOK', NEW status, NEW at \in Nat, Return(status, at),
           at <= Len(m_read_buf),
           \A i \in m_start_line + 1 .. at : message[i] # "LF",
           m_start_line < at /\ message[at] = "CR"
                => at < Len(m_read_buf) /\ message[at + 1] # "LF",
           NoEnd(m_start_line, Len(m_read_buf))
    PROVE  PInv'
  <1>1. /\ TypeOK /\ Len(m_read_buf) <= Len(message)
        /\ LineKept /\ LineStart /\ HeadRead
    BY InLinesIs
  <1>2. /\ message' = message /\ m_start_line' = m_start_line /\ m_checked_idx' = at
        /\ pc' = "wait" /\ m_check_state' = m_check_state
        /\ result' = "NO_REQUEST" /\ m_content_length' = m_content_length
        /\ m_read_buf' = m_read_buf
    BY DEF Return
  <1>3. InLines' /\ (Len(m_read_buf) <= Len(message))'
    BY <1>1, <1>2 DEF InLines, Working
  <1>4. LineKept' /\ LineStart' /\ LineFound' /\ HeadRead'
    BY <1>1, <1>2 DEF LineKept, LineStart, LineFound, HeadRead, LenBefore
  <1>5. Scanned'
    BY <1>2 DEF Scanned
  <1>6. Consumed'
    BY <1>2 DEF Consumed, NoEnd
  <1>7. QED
    BY <1>2, <1>3, <1>4, <1>5, <1>6, InLinesPInv

\* The byte at which parse_line stops, in terms of the message.
LEMMA StopInMessage ==
    ASSUME PInv, InLines, pc = "while", Stops # {}
    PROVE  \E f \in Nat :
             /\ f = FirstStop /\ m_checked_idx <= f /\ f < Len(m_read_buf)
             /\ Byte(f) = message[f + 1]
             /\ f + 1 < Len(m_read_buf) => Byte(f + 1) = message[f + 2]
             /\ m_start_line < f => Byte(f - 1) = message[f]
             /\ 0 < f /\ m_start_line = f => Byte(f - 1) = "NUL" /\ message[f] = "LF"
             /\ \/ message[f + 1] = "LF"
                \/ /\ message[f + 1] = "CR"
                   /\ f + 1 = Len(m_read_buf) \/ message[f + 2] = "LF"
             /\ \A i \in m_start_line + 1 .. f : message[i] # "LF"
             /\ m_checked_idx < f /\ message[f] = "CR" => message[f + 1] # "LF"
             /\ \A j \in Broken(message) : f < j
  <1>1. /\ TypeOK /\ Len(m_read_buf) <= Len(message)
        /\ LineKept /\ LineStart /\ Scanned
    BY InLinesIs
  <1>2. PICK f \in Nat :
            /\ f = FirstStop /\ f \in Stops /\ m_checked_idx <= f /\ f < Len(m_read_buf)
            /\ \A j \in Stops : f <= j
            /\ \/ Byte(f) = "LF"
               \/ /\ Byte(f) = "CR"
                  /\ f + 1 = Len(m_read_buf) \/ Byte(f + 1) = "LF"
    BY <1>1, StopIs, Indices
  <1>3. \A i \in m_start_line .. Len(m_read_buf) - 1 : Byte(i) = message[i + 1]
    <2>1. ASSUME NEW i \in m_start_line .. Len(m_read_buf) - 1
          PROVE  Byte(i) = message[i + 1]
      <3>1. i + 1 \in m_start_line + 1 .. Len(m_read_buf)
        BY <1>1, <2>1, Indices
      <3>2. QED
        BY <1>1, <3>1 DEF LineKept, Byte
    <2>2. QED
      BY <2>1
  <1>4. f \in m_start_line .. Len(m_read_buf) - 1 /\ Byte(f) = message[f + 1]
    BY <1>1, <1>2, <1>3, Indices
  <1>5. f + 1 < Len(m_read_buf) => Byte(f + 1) = message[f + 2]
    <2>1. SUFFICES ASSUME f + 1 < Len(m_read_buf) PROVE Byte(f + 1) = message[f + 2]
      OBVIOUS
    <2>2. f + 1 \in m_start_line .. Len(m_read_buf) - 1 /\ (f + 1) + 1 = f + 2
      BY <1>1, <1>2, <2>1, Indices
    <2>3. QED
      BY <1>3, <2>2
  <1>6. m_start_line < f => Byte(f - 1) = message[f]
    <2>1. SUFFICES ASSUME m_start_line < f PROVE Byte(f - 1) = message[f]
      OBVIOUS
    <2>2. f - 1 \in m_start_line .. Len(m_read_buf) - 1 /\ (f - 1) + 1 = f
      BY <1>1, <1>2, <2>1, Indices
    <2>3. QED
      BY <1>3, <2>2
  <1>7. 0 < f /\ m_start_line = f => Byte(f - 1) = "NUL" /\ message[f] = "LF"
    <2>1. SUFFICES ASSUME 0 < f, m_start_line = f
                   PROVE  Byte(f - 1) = "NUL" /\ message[f] = "LF"
      OBVIOUS
    <2>2. f \in Ends(message) /\ m_read_buf[f] = "NUL" /\ (f - 1) + 1 = f
      BY <1>1, <1>2, <2>1 DEF LineStart
    <2>3. message[f] = "LF"
      BY <1>1, <2>2, Indices, EndsAre
    <2>4. QED
      BY <2>2, <2>3 DEF Byte
  <1>8. \A i \in m_checked_idx .. f - 1 :
            /\ message[i + 1] # "LF"
            /\ message[i + 1] = "CR" => message[i + 2] # "LF"
    <2>1. ASSUME NEW i \in m_checked_idx .. f - 1
          PROVE  message[i + 1] # "LF" /\ (message[i + 1] = "CR" => message[i + 2] # "LF")
      <3>1. i \notin Stops
        BY <1>1, <1>2, <2>1, Indices
      <3>2. /\ i \in m_checked_idx .. Len(m_read_buf) - 1
            /\ i \in m_start_line .. Len(m_read_buf) - 1
            /\ i + 1 \in m_start_line .. Len(m_read_buf) - 1 /\ (i + 1) + 1 = i + 2
        BY <1>1, <1>2, <2>1, Indices
      <3>3. Byte(i) = message[i + 1] /\ Byte(i + 1) = message[i + 2]
        BY <1>3, <3>2
      <3>4. QED
        BY <3>1, <3>2, <3>3 DEF Stops, m_read_idx
    <2>2. QED
      BY <2>1
  <1>9. \A i \in m_start_line + 1 .. f : message[i] # "LF"
    <2>1. ASSUME NEW i \in m_start_line + 1 .. f PROVE message[i] # "LF"
      <3>1. CASE i <= m_checked_idx
        BY <1>1, <2>1, <3>1, Indices DEF Scanned
      <3>2. CASE m_checked_idx < i
        <4>1. i - 1 \in m_checked_idx .. f - 1 /\ (i - 1) + 1 = i
          BY <1>1, <1>2, <2>1, <3>2, Indices
        <4>2. QED
          BY <1>8, <4>1
      <3>3. QED
        BY <1>1, <2>1, <3>1, <3>2, Indices
    <2>2. QED
      BY <2>1
  <1>10. m_checked_idx < f /\ message[f] = "CR" => message[f + 1] # "LF"
    <2>1. SUFFICES ASSUME m_checked_idx < f, message[f] = "CR" PROVE message[f + 1] # "LF"
      OBVIOUS
    <2>2. f - 1 \in m_checked_idx .. f - 1 /\ (f - 1) + 1 = f /\ (f - 1) + 2 = f + 1
      BY <1>1, <1>2, <2>1, Indices
    <2>3. QED
      BY <1>8, <2>1, <2>2
  <1>11. \A j \in Broken(message) : f < j
    <2>1. ASSUME NEW j \in Broken(message), ~(f < j) PROVE FALSE
      <3>1. j \in 1..Len(message) /\ message[j] = "LF"
        BY DEF Broken
      <3>2. j <= m_start_line
        BY <1>1, <1>9, <2>1, <3>1, Indices
      <3>3. m_start_line \in Ends(message)
        BY <1>1, <3>1, <3>2, Indices DEF LineStart
      <3>4. m_start_line < j
        BY <3>3 DEF Ends
      <3>5. QED
        BY <1>1, <3>1, <3>2, <3>4, Indices
    <2>2. QED
      BY <2>1
  <1>12. \/ message[f + 1] = "LF"
         \/ message[f + 1] = "CR" /\ (f + 1 = Len(m_read_buf) \/ message[f + 2] = "LF")
    BY <1>1, <1>2, <1>4, <1>5, Indices
  <1>13. QED
    BY <1>2, <1>4, <1>5, <1>6, <1>7, <1>9, <1>10, <1>11, <1>12

\* A position after which a line ends.
LEMMA EndIs ==
    ASSUME NEW m \in Seq(Tokens), NEW i \in 2..Len(m), m[i] = "LF",
           m[i - 1] = "CR" \/ (i > 2 /\ m[i - 1] = "r"),
           \A j \in Broken(m) : i - 2 < j, m[i - 1] # "LF"
    PROVE  i \in Ends(m)
  <1>1. i \in CodeEnds(m)
    BY DEF CodeEnds
  <1>2. ASSUME NEW j \in Broken(m) PROVE i < j
    <2>1. j \in 1..Len(m) /\ m[j] = "LF" /\ j \notin CodeEnds(m)
      BY DEF Broken
    <2>2. j # i /\ j # i - 1
      BY <1>1, <2>1
    <2>3. i - 2 < j
      OBVIOUS
    <2>4. QED
      BY <2>1, <2>2, <2>3
  <1>3. QED
    BY <1>1, <1>2 DEF Ends

LEMMA LineOkStep ==
    ASSUME PInv, InLines, LineOk, TypeOK'
    PROVE  PInv'
  <1>1. pc = "while" /\ Stops # {}
    BY DEF LineOk, AtParseLine
  <1>2. TypeOK /\ Len(m_read_buf) <= Len(message)
    BY InLinesIs
  <1>3. PICK f \in Nat :
            /\ f = FirstStop /\ m_checked_idx <= f /\ f < Len(m_read_buf)
            /\ Byte(f) = message[f + 1]
            /\ f + 1 < Len(m_read_buf) => Byte(f + 1) = message[f + 2]
            /\ \/ message[f + 1] = "LF"
               \/ /\ message[f + 1] = "CR"
                  /\ f + 1 = Len(m_read_buf) \/ message[f + 2] = "LF"
            /\ \A i \in m_start_line + 1 .. f : message[i] # "LF"
            /\ \A j \in Broken(message) : f < j
    BY <1>1, StopInMessage
  <1>4. f + 1 < Len(m_read_buf) /\ EndLine(f + 2) /\ message[f + 1] = "CR" /\ message[f + 2] = "LF"
    BY <1>2, <1>3, Indices DEF LineOk, m_read_idx
  <1>5. f + 2 \in Ends(message)
    <2>1. f + 2 \in 2..Len(message) /\ (f + 2) - 1 = f + 1 /\ (f + 2) - 2 = f
      BY <1>2, <1>3, <1>4, Indices
    <2>2. message \in Seq(Tokens)
      BY <1>2, Indices
    <2>3. QED
      BY <1>3, <1>4, <2>1, <2>2, EndIs
  <1>6. \A i \in m_start_line + 1 .. (f + 2) - 1 : message[i] # "LF"
    <2>1. ASSUME NEW i \in m_start_line + 1 .. (f + 2) - 1 PROVE message[i] # "LF"
      <3>1. i = f + 1 \/ i \in m_start_line + 1 .. f
        BY <1>2, <1>3, <2>1, Indices
      <3>2. QED
        BY <1>3, <1>4, <3>1
    <2>2. QED
      BY <2>1
  <1>7. f + 2 <= Len(m_read_buf) /\ m_start_line <= (f + 2) - 2
    BY <1>2, <1>3, <1>4, Indices
  <1>8. QED
    BY <1>1, <1>4, <1>5, <1>6, <1>7, EndLineStep

LEMMA LineOkLetterStep ==
    ASSUME PInv, InLines, LineOkLetter, TypeOK'
    PROVE  PInv'
  <1>1. pc = "while" /\ Stops # {}
    BY DEF LineOkLetter, AtParseLine
  <1>2. TypeOK /\ Len(m_read_buf) <= Len(message)
    BY InLinesIs
  <1>3. PICK f \in Nat :
            /\ f = FirstStop /\ m_checked_idx <= f /\ f < Len(m_read_buf)
            /\ Byte(f) = message[f + 1]
            /\ m_start_line < f => Byte(f - 1) = message[f]
            /\ 0 < f /\ m_start_line = f => Byte(f - 1) = "NUL" /\ message[f] = "LF"
            /\ \A i \in m_start_line + 1 .. f : message[i] # "LF"
            /\ \A j \in Broken(message) : f < j
    BY <1>1, StopInMessage
  <1>4. f > 1 /\ Byte(f - 1) = "r" /\ EndLine(f + 1) /\ message[f + 1] = "LF"
    BY <1>3 DEF LineOkLetter, AfterLetter
  <1>5. m_start_line < f /\ message[f] = "r"
    BY <1>2, <1>3, <1>4, Indices
  <1>6. f + 1 \in Ends(message)
    <2>1. f + 1 \in 2..Len(message) /\ (f + 1) - 1 = f /\ (f + 1) - 2 = f - 1 /\ f + 1 > 2
      BY <1>2, <1>3, <1>4, Indices
    <2>2. message \in Seq(Tokens)
      BY <1>2, Indices
    <2>3. \A j \in Broken(message) : f - 1 < j
      <3>1. Broken(message) \subseteq Nat
        BY <2>2, EndsAre
      <3>2. QED
        BY <1>3, <3>1
    <2>4. QED
      BY <1>4, <1>5, <2>1, <2>2, <2>3, EndIs
  <1>7. \A i \in m_start_line + 1 .. (f + 1) - 1 : message[i] # "LF"
    BY <1>3
  <1>8. f + 1 <= Len(m_read_buf) /\ m_start_line <= (f + 1) - 2
    BY <1>2, <1>3, <1>5, Indices
  <1>9. QED
    BY <1>1, <1>4, <1>6, <1>7, <1>8, EndLineStep

LEMMA LineBadStep ==
    ASSUME PInv, InLines, LineBad, TypeOK'
    PROVE  PInv'
  <1>1. pc = "while" /\ Stops # {}
    BY DEF LineBad, AtParseLine
  <1>2. TypeOK /\ Len(m_read_buf) <= Len(message) /\ Scanned
    BY InLinesIs
  <1>3. PICK f \in Nat :
            /\ f = FirstStop /\ m_checked_idx <= f /\ f < Len(m_read_buf)
            /\ Byte(f) = message[f + 1]
            /\ m_start_line < f => Byte(f - 1) = message[f]
            /\ 0 < f /\ m_start_line = f => Byte(f - 1) = "NUL" /\ message[f] = "LF"
            /\ \A i \in m_start_line + 1 .. f : message[i] # "LF"
            /\ m_checked_idx < f /\ message[f] = "CR" => message[f + 1] # "LF"
            /\ \A j \in Broken(message) : f < j
    BY <1>1, StopInMessage
  <1>4. /\ message[f + 1] = "LF" /\ Return("BAD", f)
        /\ ~(f > 1 /\ Byte(f - 1) = "r")
    BY <1>3 DEF LineBad, AfterLetter
  <1>5. m_start_line < f => message[f] # "CR"
    BY <1>2, <1>3, <1>4, Indices DEF Scanned
  <1>6. f + 1 \in Broken(message)
    <2>1. SUFFICES ASSUME f + 1 \in CodeEnds(message) PROVE FALSE
      BY <1>2, <1>3, <1>4, Indices DEF Broken
    <2>2. f + 1 \in 2..Len(message) /\ (f + 1) - 1 = f
      BY <1>3, <2>1 DEF CodeEnds
    <2>3. message[f] = "CR" \/ (f > 1 /\ message[f] = "r")
      <3>1. message[(f + 1) - 1] \in (IF f + 1 > 2 THEN {"CR", "r"} ELSE {"CR"})
        BY <2>1 DEF CodeEnds
      <3>2. QED
        BY <2>2, <3>1
    <2>4. CASE m_start_line < f
      BY <1>3, <1>4, <1>5, <2>3, <2>4
    <2>5. CASE ~(m_start_line < f)
      <3>1. 0 < f /\ m_start_line = f
        BY <1>2, <1>3, <2>2, <2>5, Indices
      <3>2. QED
        BY <1>3, <2>3, <3>1
    <2>6. QED
      BY <2>4, <2>5
  <1>7. NoEnd(m_start_line, Len(m_read_buf))
    <2>1. ASSUME NEW i \in Ends(message) PROVE i <= m_start_line
      <3>1. i < f + 1 /\ message[i] = "LF" /\ i \in Nat
        BY <1>2, <1>6, Indices, EndsAre DEF Ends
      <3>2. QED
        BY <1>2, <1>3, <3>1, Indices
    <2>2. QED
      BY <2>1 DEF NoEnd
  <1>8. QED
    BY <1>1, <1>3, <1>4, <1>5, <1>7, ReturnStep

LEMMA LineOpenStep ==
    ASSUME PInv, InLines, LineOpen, TypeOK'
    PROVE  PInv'
  <1>1. pc = "while"
    BY DEF LineOpen, AtParseLine
  <1>2. TypeOK /\ Len(m_read_buf) <= Len(message) /\ LineKept /\ Scanned
    BY InLinesIs
  <1>3. CASE Stops = {} /\ Return("OPEN", m_read_idx)
    <2>1. ASSUME NEW i \in m_checked_idx + 1 .. Len(m_read_buf)
          PROVE  message[i] # "LF" /\ (i = Len(m_read_buf) => message[i] # "CR")
      <3>1. i - 1 \in m_checked_idx .. m_read_idx - 1 /\ (i - 1) + 1 = i
        BY <1>2, <2>1, Indices DEF m_read_idx
      <3>2. m_read_buf[i] # "LF" /\ (i = Len(m_read_buf) => m_read_buf[i] # "CR")
        BY <1>3, <3>1 DEF Stops, Byte, m_read_idx
      <3>3. m_read_buf[i] = message[i]
        BY <1>1, <1>2, <2>1, Indices DEF LineKept
      <3>4. QED
        BY <3>2, <3>3
    <2>2. \A i \in m_start_line + 1 .. Len(m_read_buf) : message[i] # "LF"
      BY <1>1, <1>2, <2>1, Indices DEF Scanned
    <2>3. m_start_line < Len(m_read_buf) => message[Len(m_read_buf)] # "CR"
      BY <1>2, <2>1, Indices DEF Scanned
    <2>4. NoEnd(m_start_line, Len(m_read_buf))
      <3>1. ASSUME NEW i \in Ends(message) PROVE i <= m_start_line \/ Len(m_read_buf) < i
        <4>1. message[i] = "LF" /\ i \in Nat
          BY <1>2, Indices, EndsAre
        <4>2. QED
          BY <1>2, <2>2, <4>1, Indices
      <3>2. QED
        BY <3>1 DEF NoEnd
    <2>5. QED
      BY <1>1, <1>2, <1>3, <2>2, <2>3, <2>4, Indices, ReturnStep DEF m_read_idx
  <1>4. CASE /\ Stops # {} /\ Byte(FirstStop) = "CR" /\ FirstStop + 1 = m_read_idx
             /\ Return("OPEN", FirstStop)
    <2>1. PICK f \in Nat :
            /\ f = FirstStop /\ m_checked_idx <= f /\ f < Len(m_read_buf)
            /\ Byte(f) = message[f + 1]
            /\ \A i \in m_start_line + 1 .. f : message[i] # "LF"
            /\ m_checked_idx < f /\ message[f] = "CR" => message[f + 1] # "LF"
      BY <1>1, <1>4, StopInMessage
    <2>2. /\ f + 1 = Len(m_read_buf) /\ message[f + 1] = "CR" /\ Return("OPEN", f)
      BY <1>4, <2>1 DEF m_read_idx
    <2>3. NoEnd(m_start_line, Len(m_read_buf))
      <3>1. ASSUME NEW i \in Ends(message) PROVE i <= m_start_line \/ Len(m_read_buf) < i
        <4>1. message[i] = "LF" /\ i \in Nat
          BY <1>2, Indices, EndsAre
        <4>2. i # f + 1
          BY <2>2, <4>1
        <4>3. QED
          BY <1>2, <2>1, <2>2, <4>1, <4>2, Indices
      <3>2. QED
        BY <3>1 DEF NoEnd
    <2>4. QED
      BY <1>1, <2>1, <2>2, <2>3, ReturnStep
  <1>5. QED
    BY <1>3, <1>4 DEF LineOpen

-----------------------------------------------------------------------------
(* The body of a request.                                                  *)

LEMMA BodyIs ==
    ASSUME PInv, Working, m_check_state = "CONTENT"
    PROVE  /\ TypeOK /\ Len(m_read_buf) <= Len(message) /\ HeadersRead
           /\ 3 \in Ends(message) /\ message[1] = "get"
           /\ m_content_length = Lengths[message] /\ result = "NO_REQUEST"
           /\ CodeHeadersEnd(message) \in Nat /\ CodeHeadersEnd(message) <= m_checked_idx
           /\ \/ Cut \/ Missing
              \/ /\ m_checked_idx = CodeHeadersEnd(message)
                 /\ pc = "switch" \/ (pc = "while" /\ line_status = "OK")
  <1>1. /\ TypeOK /\ Len(m_read_buf) <= Len(message) /\ HeadersRead
        /\ result = "NO_REQUEST" /\ BodyRead
    BY DEF PInv, BodyRead, Results
  <1>2. CodeHeadersEnd(message) \in Nat
    BY <1>1, ReceivedHeaders
  <1>3. QED
    BY <1>1, <1>2 DEF BodyRead

\* How PInv is shown while a body is read.
LEMMA BodyPInv ==
    ASSUME TypeOK', (Len(m_read_buf) <= Len(message))', Working', (m_check_state = "CONTENT")',
           HeadersRead', (3 \in Ends(message) /\ message[1] = "get")',
           (m_content_length = Lengths[message])', (result = "NO_REQUEST")',
           (CodeHeadersEnd(message) <= m_checked_idx)',
           (\/ Cut \/ Missing
            \/ /\ m_checked_idx = CodeHeadersEnd(message)
               /\ pc = "switch" \/ (pc = "while" /\ line_status = "OK"))'
    PROVE  PInv'
  <1>1. LinesRead' /\ BodyRead' /\ Results'
    BY DEF LinesRead, InLines, BodyRead, Results, Working
  <1>2. QED
    BY <1>1 DEF PInv

\* What a step of process_read leaves of it.
LEMMA BodyKept ==
    ASSUME HeadersRead, message' = message, Len(m_read_buf') = Len(m_read_buf), before' = before
    PROVE  /\ HeadersRead' /\ (Cut <=> Cut') /\ (Missing <=> Missing')
           /\ CodeHeadersEnd(message)' = CodeHeadersEnd(message)
  <1>1. CodeHeadersEnd(message)' = CodeHeadersEnd(message) /\ CodeEmpty(message)' = CodeEmpty(message)
    BY DEF CodeHeadersEnd, CodeEmpty, Ends, CodeEnds, Broken
  <1>2. (CodeHeadersEnd(message) <= Len(m_read_buf))'
    BY <1>1 DEF HeadersRead
  <1>3. LenBefore(message, CodeHeadersEnd(message) - 2)'
    BY <1>1 DEF HeadersRead, LenBefore
  <1>4. QED
    BY <1>1, <1>2, <1>3 DEF HeadersRead, Cut, Missing

\* Whatever lines parse_line finds in a body, it has been judged before.
LEMMA BodyLineStep ==
    ASSUME PInv, m_check_state = "CONTENT", LineOk \/ LineOkLetter \/ LineBad \/ LineOpen, TypeOK'
    PROVE  PInv'
  <1>1. pc = "while" /\ line_status # "OK" /\ Working
    BY DEF LineOk, LineOkLetter, LineBad, LineOpen, AtParseLine, Working
  <1>2. /\ TypeOK /\ Len(m_read_buf) <= Len(message) /\ HeadersRead
        /\ 3 \in Ends(message) /\ message[1] = "get"
        /\ m_content_length = Lengths[message] /\ result = "NO_REQUEST"
        /\ CodeHeadersEnd(message) \in Nat /\ CodeHeadersEnd(message) <= m_checked_idx
        /\ Cut \/ Missing
    BY <1>1, BodyIs
  <1>3. Stops # {} => m_checked_idx <= FirstStop /\ FirstStop \in Nat
    BY <1>2, StopIs, Indices
  <1>4. /\ message' = message /\ Len(m_read_buf') = Len(m_read_buf)
        /\ m_check_state' = m_check_state /\ m_content_length' = m_content_length
        /\ before' = before /\ pc' \in {"wait", "switch"} /\ result' = "NO_REQUEST"
        /\ CodeHeadersEnd(message) <= m_checked_idx'
    <2>1. CASE LineOk
      BY <1>2, <1>3, <2>1, Indices DEF LineOk, EndLine
    <2>2. CASE LineOkLetter
      BY <1>2, <1>3, <2>2, Indices DEF LineOkLetter, EndLine
    <2>3. CASE LineBad
      BY <1>2, <1>3, <2>3, Indices DEF LineBad, Return
    <2>4. CASE LineOpen
      BY <1>2, <1>3, <2>4, Indices DEF LineOpen, Return, m_read_idx
    <2>5. QED
      BY <2>1, <2>2, <2>3, <2>4
  <1>5. /\ HeadersRead' /\ (Cut' \/ Missing')
        /\ (CodeHeadersEnd(message) <= m_checked_idx)'
    BY <1>2, <1>4, BodyKept
  <1>6. (Len(m_read_buf) <= Len(message))' /\ Working'
    BY <1>2, <1>4 DEF Working
  <1>7. (3 \in Ends(message) /\ message[1] = "get")' /\ (m_content_length = Lengths[message])'
    BY <1>2, <1>4
  <1>8. QED
    BY <1>4, <1>5, <1>6, <1>7, BodyPInv

LEMMA ExpectBodyStep ==
    ASSUME PInv, ExpectBody, TypeOK'
    PROVE  PInv'
  <1>1. /\ pc = "while" /\ m_check_state = "CONTENT" /\ line_status = "OK" /\ pc' = "switch"
        /\ message' = message /\ m_read_buf' = m_read_buf /\ m_checked_idx' = m_checked_idx
        /\ m_check_state' = m_check_state /\ m_content_length' = m_content_length
        /\ line_status' = line_status /\ before' = before /\ result' = result
    BY DEF ExpectBody, parserVars
  <1>2. Working /\ Working'
    BY <1>1 DEF Working
  <1>3. /\ TypeOK /\ Len(m_read_buf) <= Len(message) /\ HeadersRead
        /\ 3 \in Ends(message) /\ message[1] = "get"
        /\ m_content_length = Lengths[message] /\ result = "NO_REQUEST"
        /\ CodeHeadersEnd(message) <= m_checked_idx
        /\ Cut \/ Missing \/ m_checked_idx = CodeHeadersEnd(message)
    BY <1>1, <1>2, BodyIs
  <1>4. /\ HeadersRead' /\ (CodeHeadersEnd(message) <= m_checked_idx)'
        /\ \/ Cut' \/ Missing'
           \/ (m_checked_idx = CodeHeadersEnd(message))' /\ (pc = "switch")'
    BY <1>1, <1>3, BodyKept
  <1>5. /\ (Len(m_read_buf) <= Len(message))'
        /\ (3 \in Ends(message) /\ message[1] = "get")' /\ (m_content_length = Lengths[message])'
    BY <1>1, <1>3
  <1>6. QED
    BY <1>1, <1>2, <1>3, <1>4, <1>5, BodyPInv

\* How PInv is shown where a verdict is given.
LEMMA AnswerPInv ==
    ASSUME TypeOK', (Len(m_read_buf) <= Len(message))', pc' = "answer", Judged'
    PROVE  PInv'
  <1>1. LinesRead' /\ BodyRead' /\ Results'
    BY DEF LinesRead, InLines, BodyRead, Results, Working
  <1>2. QED
    BY <1>1 DEF PInv

\* How it is shown where no verdict will be given.
LEMMA EndPInv ==
    ASSUME TypeOK', (Len(m_read_buf) <= Len(message))', pc' \in {"closed", "undefined"}
    PROVE  PInv'
  BY DEF PInv, LinesRead, InLines, BodyRead, Results, Working

\* A verdict depends on what has been received alone.
LEMMA SameReceived ==
    ASSUME message' = message, Len(m_read_buf') = Len(m_read_buf)
    PROVE  /\ Received' = Received /\ CodeVerdict(Received)' = CodeVerdict(Received)
           /\ CodeHeadVerdict(Received)' = CodeHeadVerdict(Received)
           /\ CodeAnnounced(Received)' <=> CodeAnnounced(Received)
           /\ CodeHeadersEnd(Received)' = CodeHeadersEnd(Received)
  BY DEF Received, m_read_idx, CodeVerdict, CodeHeadersEnd, CodeEmpty, Ends,
         CodeHeadVerdict, CodeAnnounced, CodeEnds, Broken

LEMMA ContentStep ==
    ASSUME PInv, ContentWhole \/ ContentOpen \/ ContentUndefined, TypeOK'
    PROVE  PInv'
  <1>1. /\ pc = "switch" /\ m_check_state = "CONTENT" /\ message' = message
        /\ m_checked_idx' = m_checked_idx
        /\ m_check_state' = m_check_state /\ m_content_length' = m_content_length
        /\ before' = before
    BY DEF ContentWhole, ContentOpen, ContentUndefined, Switch
  <1>2. Working
    BY <1>1 DEF Working
  <1>3. /\ TypeOK /\ Len(m_read_buf) <= Len(message) /\ HeadersRead
        /\ 3 \in Ends(message) /\ message[1] = "get"
        /\ m_content_length = Lengths[message] /\ result = "NO_REQUEST"
        /\ CodeHeadersEnd(message) \in Nat /\ CodeHeadersEnd(message) <= m_checked_idx
        /\ Cut \/ Missing \/ m_checked_idx = CodeHeadersEnd(message)
    BY <1>1, <1>2, BodyIs
  <1>4. Len(m_read_buf') = Len(m_read_buf)
    <2>1. CASE ContentWhole
      <3>1. m_read_buf' \in [DOMAIN m_read_buf -> Tokens \cup {"NUL"}]
        BY <1>3, <2>1 DEF ContentWhole, TypeOK
      <3>2. DOMAIN m_read_buf' = 1..Len(m_read_buf) /\ m_read_buf' \in Seq(Tokens \cup {"NUL"})
        BY <1>3, <3>1, Indices DEF TypeOK
      <3>3. QED
        BY <1>3, <3>2, Indices
    <2>2. CASE ContentOpen \/ ContentUndefined
      BY <2>2 DEF ContentOpen, ContentUndefined
    <2>3. QED
      BY <2>1, <2>2
  <1>5. (Len(m_read_buf) <= Len(message))'
    BY <1>1, <1>3, <1>4
  <1>6. CASE ContentWhole
    <2>1. /\ result' = "GET_REQUEST" /\ pc' = "answer"
          /\ Len(m_read_buf) >= m_content_length + m_checked_idx
      BY <1>6 DEF ContentWhole, BodyWhole, m_read_idx
    <2>2. ~Missing
      BY <1>3, <2>1, Indices DEF Missing
    <2>3. CodeVerdict(Received) = "GET_REQUEST"
      BY <1>3, <2>2, BodyVerdict
    <2>4. Judged'
      BY <1>1, <1>4, <2>1, <2>3, SameReceived DEF Judged
    <2>5. QED
      BY <1>5, <2>1, <2>4, AnswerPInv
  <1>7. CASE ContentOpen
    <2>1. /\ line_status' = "OPEN" /\ pc' = "while" /\ result' = result
          /\ ~(Len(m_read_buf) >= m_content_length + m_checked_idx)
      BY <1>7 DEF ContentOpen, BodyWhole, m_read_idx
    <2>2. Cut \/ Missing
      BY <1>3, <2>1, Indices DEF Missing
    <2>3. /\ HeadersRead' /\ (Cut' \/ Missing')
          /\ (CodeHeadersEnd(message) <= m_checked_idx)'
      BY <1>1, <1>3, <1>4, <2>2, BodyKept
    <2>4. /\ (3 \in Ends(message) /\ message[1] = "get")' /\ Working'
          /\ (m_content_length = Lengths[message])'
      BY <1>1, <1>3, <2>1 DEF Working
    <2>5. QED
      BY <1>1, <1>3, <1>5, <2>1, <2>3, <2>4, BodyPInv
  <1>8. CASE ContentUndefined
    BY <1>5, <1>8, EndPInv DEF ContentUndefined
  <1>9. QED
    BY <1>6, <1>7, <1>8

-----------------------------------------------------------------------------
(* The lines of the head.                                                  *)

LEMMA LineIs ==
    ASSUME PInv, pc = "switch", m_check_state # "CONTENT"
    PROVE  /\ InLines
           /\ m_checked_idx \in Ends(message) /\ m_start_line <= m_checked_idx - 2
           /\ m_read_buf[m_checked_idx] = "NUL" /\ line_status = "OK"
           /\ Line = <<>> <=> m_start_line = m_checked_idx - 2
           /\ \A t : Line = <<t>> <=>
                    m_start_line = m_checked_idx - 3 /\ message[m_start_line + 1] = t
  <1>1. InLines
    BY DEF InLines, Working
  <1>2. TypeOK /\ Len(m_read_buf) <= Len(message) /\ LineKept /\ LineFound
    BY <1>1, InLinesIs
  <1>3. /\ m_checked_idx \in Ends(message) /\ m_start_line <= m_checked_idx - 2
        /\ m_read_buf[m_checked_idx] = "NUL" /\ line_status = "OK"
    BY <1>2 DEF LineFound
  <1>4. PICK a \in Nat, b \in Nat : a = m_start_line /\ b = m_checked_idx - 2 /\ a <= b /\ b <= Len(m_read_buf)
    BY <1>2, <1>3, Indices
  <1>5. PICK buf : buf = m_read_buf
    OBVIOUS
  <1>6. buf \in Seq(Tokens \cup {"NUL"}) /\ Line = SubSeq(buf, a + 1, b) /\ b <= Len(buf)
    BY <1>2, <1>4, <1>5, Indices DEF Line
  <1>7. Len(Line) = b - a /\ \A i \in 1..(b - a) : Line[i] = buf[a + i]
    BY <1>4, <1>6
  <1>8. Line \in Seq(Tokens \cup {"NUL"})
    BY <1>4, <1>6
  <1>9. Line = <<>> <=> a = b
    BY <1>4, <1>7, <1>8
  <1>10. \A t : Line = <<t>> <=> b - a = 1 /\ Line[1] = t
    BY <1>4, <1>7, <1>8
  <1>11. b - a = 1 => Line[1] = message[a + 1]
    <2>1. SUFFICES ASSUME b - a = 1 PROVE Line[1] = message[a + 1]
      OBVIOUS
    <2>2. Line[1] = buf[a + 1]
      BY <1>4, <1>7, <2>1
    <2>3. a + 1 \in m_start_line + 1 .. Len(m_read_buf) /\ a + 1 \notin m_checked_idx - 1 .. m_checked_idx
      <3>1. a + 1 = m_checked_idx - 2 /\ a + 1 <= Len(m_read_buf) /\ m_checked_idx \in Nat
        BY <1>2, <1>4, <2>1, Indices
      <3>2. m_checked_idx - 2 \notin m_checked_idx - 1 .. m_checked_idx
        BY <3>1
      <3>3. QED
        BY <1>4, <3>1, <3>2
    <2>4. m_read_buf[a + 1] = message[a + 1]
      BY <1>2, <2>3 DEF LineKept
    <2>5. QED
      BY <1>5, <2>2, <2>4
  <1>12. (b - a = 1 <=> a = m_checked_idx - 3) /\ (a = b <=> a = m_checked_idx - 2)
    BY <1>2, <1>4, Indices
  <1>13. \A t : Line = <<t>> <=> a = m_checked_idx - 3 /\ message[a + 1] = t
    BY <1>10, <1>11, <1>12
  <1>14. QED
    BY <1>1, <1>3, <1>4, <1>9, <1>12, <1>13

\* Nothing ends between m_start_line and the line that has been found.
LEMMA FoundIsNext ==
    ASSUME PInv, pc = "switch", m_check_state # "CONTENT"
    PROVE  \A i \in Ends(message) : i <= m_start_line \/ m_checked_idx <= i
  <1>1. InLines
    BY LineIs
  <1>2. TypeOK /\ Scanned
    BY <1>1, InLinesIs
  <1>3. ASSUME NEW i \in Ends(message) PROVE i <= m_start_line \/ m_checked_idx <= i
    <2>1. message[i] = "LF" /\ i \in Nat
      BY <1>2, Indices, EndsAre
    <2>2. QED
      BY <1>2, <2>1, Indices DEF Scanned
  <1>4. QED
    BY <1>3

\* The state in which process_read goes on to the next line.
LEMMA NextLineStep ==
    ASSUME PInv, pc = "switch", m_check_state # "CONTENT", TypeOK',
           message' = message, m_read_buf' = m_read_buf, m_checked_idx' = m_checked_idx,
           m_start_line' = m_checked_idx, before' = before, result' = result,
           pc' = "while", m_check_state' = "HEADER", HeadRead'
    PROVE  PInv'
  <1>1. /\ InLines /\ m_checked_idx \in Ends(message) /\ m_start_line <= m_checked_idx - 2
        /\ m_read_buf[m_checked_idx] = "NUL"
    BY LineIs
  <1>2. TypeOK /\ Len(m_read_buf) <= Len(message) /\ LineKept /\ Consumed /\ result = "NO_REQUEST"
    BY <1>1, InLinesIs
  <1>3. InLines' /\ (Len(m_read_buf) <= Len(message))' /\ result' = "NO_REQUEST"
    BY <1>2 DEF InLines, Working
  <1>4. LineKept'
    <2>1. SUFFICES ASSUME NEW i \in m_checked_idx + 1 .. Len(m_read_buf)
                   PROVE  m_read_buf[i] = message[i]
      BY DEF LineKept
    <2>2. i \in m_start_line + 1 .. Len(m_read_buf) /\ i \notin m_checked_idx - 1 .. m_checked_idx
      BY <1>1, <1>2, <2>1, Indices
    <2>3. QED
      BY <1>2, <2>2 DEF LineKept
  <1>5. LineStart' /\ LineFound'
    BY <1>1 DEF LineStart, LineFound
  <1>6. Scanned'
    <2>1. m_checked_idx + 1 .. m_checked_idx = {} /\ ~(m_checked_idx < m_checked_idx)
      BY <1>2, Indices
    <2>2. QED
      BY <2>1 DEF Scanned
  <1>7. Consumed'
    <2>1. ASSUME NEW i \in Ends(message) PROVE i <= m_checked_idx \/ before < i
      <3>1. i <= m_start_line \/ before < i
        BY <1>2 DEF Consumed, NoEnd
      <3>2. i \in Nat
        BY <1>2, Indices, EndsAre
      <3>3. QED
        BY <1>2, <3>1, <3>2, Indices
    <2>2. QED
      BY <2>1 DEF Consumed, NoEnd
  <1>8. QED
    BY <1>3, <1>4, <1>5, <1>6, <1>7, InLinesPInv

LEMMA RequestLineOkStep ==
    ASSUME PInv, RequestLineOk, TypeOK'
    PROVE  PInv'
  <1>1. /\ pc = "switch" /\ m_check_state = "REQUESTLINE" /\ Line = <<"get">>
        /\ message' = message /\ m_read_buf' = m_read_buf /\ m_checked_idx' = m_checked_idx
        /\ m_start_line' = m_checked_idx /\ before' = before /\ result' = result
        /\ pc' = "while" /\ m_check_state' = "HEADER" /\ m_content_length' = m_content_length
    BY DEF RequestLineOk, Switch
  <1>2. InLines /\ m_checked_idx \in Ends(message)
        /\ m_start_line = m_checked_idx - 3 /\ message[m_start_line + 1] = "get"
    BY <1>1, LineIs
  <1>3. TypeOK /\ HeadRead
    BY <1>2, InLinesIs
  <1>4. m_start_line = 0 /\ m_content_length = 0
    BY <1>1, <1>3 DEF HeadRead
  <1>5. m_checked_idx = 3
    BY <1>2, <1>3, <1>4, Indices
  <1>6. 3 \in Ends(message) /\ message[1] = "get"
    BY <1>2, <1>4, <1>5
  <1>7. /\ \A i \in CodeEmpty(message) : 3 < i
        /\ ~LenBefore(message, 3)
    <2>1. Ends(message) \subseteq Nat \ {0, 1} /\ CodeEmpty(message) \subseteq Ends(message)
      BY <1>3, Indices, EndsAre
    <2>2. ASSUME NEW i \in CodeEmpty(message) PROVE 3 < i
      <3>1. i - 2 \in Nat \ {0, 1} /\ i \in Nat
        BY <2>1, <2>2 DEF CodeEmpty
      <3>2. QED
        BY <3>1
    <2>3. QED
      BY <2>1, <2>2 DEF LenBefore
  <1>8. HeadRead'
    BY <1>1, <1>4, <1>5, <1>6, <1>7 DEF HeadRead
  <1>9. QED
    BY <1>1, <1>8, NextLineStep

LEMMA RequestLineBadStep ==
    ASSUME PInv, RequestLineBad, TypeOK'
    PROVE  PInv'
  <1>1. /\ pc = "switch" /\ m_check_state = "REQUESTLINE" /\ Line # <<"get">>
        /\ message' = message /\ m_read_buf' = m_read_buf /\ before' = before
        /\ result' = "BAD_REQUEST" /\ pc' = "answer"
    BY DEF RequestLineBad, Switch
  <1>2. /\ InLines /\ m_checked_idx \in Ends(message)
        /\ ~(m_start_line = m_checked_idx - 3 /\ message[m_start_line + 1] = "get")
    BY <1>1, LineIs
  <1>3. TypeOK /\ Len(m_read_buf) <= Len(message) /\ HeadRead
    BY <1>2, InLinesIs
  <1>4. m_start_line = 0
    BY <1>1, <1>3 DEF HeadRead
  <1>5. ~(3 \in Ends(message) /\ message[1] = "get")
    <2>1. SUFFICES ASSUME 3 \in Ends(message), message[1] = "get" PROVE FALSE
      OBVIOUS
    <2>2. m_checked_idx <= 3
      BY <1>1, <1>4, <2>1, FoundIsNext
    <2>3. m_checked_idx # 3
      BY <1>2, <1>4, <2>1
    <2>4. m_checked_idx \in 2..Len(message) /\ message[m_checked_idx - 1] \in {"CR", "r"}
      BY <1>2, <1>3, Indices, EndsAre
    <2>5. m_checked_idx = 2
      BY <2>2, <2>3, <2>4
    <2>6. QED
      BY <2>1, <2>4, <2>5
  <1>6. /\ \A i \in 1..Len(m_read_buf) : Received[i] = message[i]
        /\ Ends(Received) = {i \in Ends(message) : i <= Len(m_read_buf)}
    BY <1>3, ReceivedIs
  <1>7. Ends(Received) # {}
    BY <1>2, <1>3, <1>6, Indices
  <1>8. 3 \notin Ends(Received) \/ Received[1] # "get"
    BY <1>3, <1>5, <1>6, Indices
  <1>9. CodeVerdict(Received) = "BAD_REQUEST"
    BY <1>7, <1>8 DEF CodeHeadVerdict, CodeVerdict
  <1>10. Judged'
    BY <1>1, <1>9, SameReceived DEF Judged
  <1>11. (Len(m_read_buf) <= Len(message))'
    BY <1>1, <1>3
  <1>12. QED
    BY <1>1, <1>10, <1>11, AnswerPInv

LEMMA HeaderStep ==
    ASSUME PInv, Header, TypeOK'
    PROVE  PInv'
  <1>1. /\ pc = "switch" /\ m_check_state = "HEADER" /\ Line # <<>>
        /\ message' = message /\ m_read_buf' = m_read_buf /\ m_checked_idx' = m_checked_idx
        /\ m_start_line' = m_checked_idx /\ before' = before /\ result' = result
        /\ pc' = "while" /\ m_check_state' = "HEADER"
        /\ m_content_length' = IF Line = <<"len">> THEN Lengths[message] ELSE m_content_length
    BY DEF Header, Switch
  <1>2. /\ InLines /\ m_checked_idx \in Ends(message)
        /\ m_start_line <= m_checked_idx - 2 /\ m_start_line # m_checked_idx - 2
        /\ Line = <<"len">> <=>
                m_start_line = m_checked_idx - 3 /\ message[m_start_line + 1] = "len"
    BY <1>1, LineIs
  <1>3. TypeOK /\ HeadRead /\ LineStart
    BY <1>2, InLinesIs
  <1>4. /\ m_start_line > 0 /\ m_start_line \in Ends(message)
        /\ 3 \in Ends(message) /\ message[1] = "get"
        /\ \A i \in CodeEmpty(message) : m_start_line < i
        /\ m_content_length = IF LenBefore(message, m_start_line) THEN Lengths[message] ELSE 0
    BY <1>1, <1>3 DEF HeadRead, LineStart
  <1>5. Ends(message) \subseteq Nat
    BY <1>3, Indices, EndsAre
  <1>6. \A i \in CodeEmpty(message) : m_checked_idx < i
    <2>1. ASSUME NEW i \in CodeEmpty(message) PROVE m_checked_idx < i
      <3>1. i \in Ends(message) /\ i - 2 \in Ends(message) /\ m_start_line < i
        BY <1>4 DEF CodeEmpty
      <3>2. m_checked_idx <= i
        BY <1>1, <1>3, <1>5, <3>1, FoundIsNext, Indices
      <3>3. i # m_checked_idx
        <4>1. SUFFICES ASSUME i = m_checked_idx PROVE FALSE
          OBVIOUS
        <4>2. i - 2 <= m_start_line \/ m_checked_idx <= i - 2
          BY <1>1, <3>1, FoundIsNext
        <4>3. QED
          BY <1>2, <1>3, <4>1, <4>2, Indices
      <3>4. QED
        BY <1>3, <1>5, <3>1, <3>2, <3>3, Indices
    <2>2. QED
      BY <2>1
  <1>7. LenBefore(message, m_checked_idx) <=> LenBefore(message, m_start_line) \/ Line = <<"len">>
    <2>1. ASSUME LenBefore(message, m_start_line) PROVE LenBefore(message, m_checked_idx)
      <3>1. PICK i \in Ends(message) :
                i + 3 \in Ends(message) /\ i + 3 <= m_start_line /\ message[i + 1] = "len"
        BY <2>1 DEF LenBefore
      <3>2. i + 3 <= m_checked_idx
        BY <1>3, <1>5, <3>1, Indices
      <3>3. QED
        BY <3>1, <3>2 DEF LenBefore
    <2>2. ASSUME Line = <<"len">> PROVE LenBefore(message, m_checked_idx)
      <3>1. m_start_line + 3 = m_checked_idx /\ message[m_start_line + 1] = "len"
        BY <1>2, <1>3, <2>2, Indices
      <3>2. QED
        BY <1>2, <1>3, <1>4, <3>1, Indices DEF LenBefore
    <2>3. ASSUME LenBefore(message, m_checked_idx), ~LenBefore(message, m_start_line)
          PROVE  Line = <<"len">>
      <3>1. PICK i \in Ends(message) :
                i + 3 \in Ends(message) /\ i + 3 <= m_checked_idx /\ message[i + 1] = "len"
        BY <2>3 DEF LenBefore
      <3>2. ~(i + 3 <= m_start_line)
        BY <2>3, <3>1 DEF LenBefore
      <3>3. i + 3 = m_checked_idx
        BY <1>1, <1>3, <1>5, <3>1, <3>2, FoundIsNext, Indices
      <3>4. i <= m_start_line
        <4>1. i <= m_start_line \/ m_checked_idx <= i
          BY <1>1, <3>1, FoundIsNext
        <4>2. QED
          BY <1>3, <1>5, <3>3, <4>1, Indices
      <3>5. m_start_line = i
        BY <1>2, <1>3, <1>5, <3>3, <3>4, Indices
      <3>6. QED
        BY <1>2, <1>3, <3>1, <3>3, <3>5, Indices
    <2>4. QED
      BY <2>1, <2>2, <2>3
  <1>8. m_content_length' = IF LenBefore(message, m_checked_idx) THEN Lengths[message] ELSE 0
    BY <1>1, <1>4, <1>7
  <1>9. m_checked_idx > 0
    BY <1>2, <1>3, Indices
  <1>10. HeadRead'
    BY <1>1, <1>4, <1>6, <1>8, <1>9 DEF HeadRead
  <1>11. QED
    BY <1>1, <1>10, NextLineStep

LEMMA HeaderEndStep ==
    ASSUME PInv, HeaderEnd, TypeOK'
    PROVE  PInv'
  <1>1. /\ pc = "switch" /\ m_check_state = "HEADER" /\ Line = <<>>
        /\ message' = message /\ m_read_buf' = m_read_buf /\ m_checked_idx' = m_checked_idx
        /\ before' = before /\ line_status' = line_status /\ m_content_length' = m_content_length
    BY DEF HeaderEnd, Switch
  <1>2. /\ InLines /\ m_checked_idx \in Ends(message) /\ m_start_line = m_checked_idx - 2
        /\ line_status = "OK"
    BY <1>1, LineIs
  <1>3. /\ TypeOK /\ Len(m_read_buf) <= Len(message) /\ HeadRead /\ LineStart /\ LineKept
        /\ Consumed /\ result = "NO_REQUEST"
    BY <1>2, InLinesIs
  <1>4. /\ m_start_line \in Ends(message) /\ 3 \in Ends(message) /\ message[1] = "get"
        /\ \A i \in CodeEmpty(message) : m_start_line < i
        /\ m_content_length = IF LenBefore(message, m_start_line) THEN Lengths[message] ELSE 0
    BY <1>1, <1>3 DEF HeadRead, LineStart
  <1>5. Ends(message) \subseteq 2..Len(message) /\ CodeEmpty(message) \subseteq Ends(message)
    BY <1>3, Indices, EndsAre
  <1>6. m_checked_idx \in CodeEmpty(message)
    BY <1>2, <1>4 DEF CodeEmpty
  <1>7. \A i \in CodeEmpty(message) : m_checked_idx <= i
    <2>1. ASSUME NEW i \in CodeEmpty(message) PROVE m_checked_idx <= i
      <3>1. i \in Ends(message) /\ m_start_line < i /\ i \in Nat
        BY <1>4, <1>5
      <3>2. i <= m_start_line \/ m_checked_idx <= i
        BY <1>1, <3>1, FoundIsNext
      <3>3. QED
        BY <1>3, <3>1, <3>2, Indices
    <2>2. QED
      BY <2>1
  <1>8. CodeHeadersEnd(message) = m_checked_idx
    BY <1>3, <1>6, <1>7, HeadersEndUnique, Indices
  <1>9. (Len(m_read_buf) <= Len(message))'
    BY <1>1, <1>3
  <1>10. before < m_checked_idx
    <2>1. m_checked_idx <= m_start_line \/ before < m_checked_idx
      BY <1>1, <1>2, <1>3 DEF Consumed, NoEnd
    <2>2. QED
      BY <1>2, <1>3, <2>1, Indices
  <1>11. CASE m_content_length # 0
    <2>1. m_check_state' = "CONTENT" /\ pc' = "while" /\ result' = "NO_REQUEST"
      BY <1>3, <1>11 DEF HeaderEnd
    <2>2. LenBefore(message, m_checked_idx - 2) /\ m_content_length = Lengths[message]
      BY <1>2, <1>4, <1>11
    <2>3. HeadersRead' /\ Working'
      BY <1>1, <1>3, <1>6, <1>8, <2>1, <2>2, Indices DEF HeadersRead, LenBefore, Working
    <2>4. /\ (CodeHeadersEnd(message) <= m_checked_idx)'
          /\ (m_checked_idx = CodeHeadersEnd(message))'
          /\ (pc = "while" /\ line_status = "OK")'
      <3>1. CodeHeadersEnd(message)' = CodeHeadersEnd(message)
        BY <1>1 DEF CodeHeadersEnd, CodeEmpty, Ends, CodeEnds, Broken
      <3>2. QED
        BY <1>1, <1>2, <1>3, <1>8, <2>1, <3>1, Indices
    <2>5. /\ (3 \in Ends(message) /\ message[1] = "get")' /\ (m_check_state = "CONTENT")'
          /\ (m_content_length = Lengths[message])'
      BY <1>1, <1>4, <2>1, <2>2
    <2>6. QED
      BY <1>9, <2>1, <2>3, <2>4, <2>5, BodyPInv
  <1>12. CASE m_content_length = 0
    <2>1. result' = "GET_REQUEST" /\ pc' = "answer"
      BY <1>12 DEF HeaderEnd
    <2>2. LenBefore(message, m_checked_idx - 2) => Lengths[message] = 0
      BY <1>2, <1>3, <1>4, <1>12, Indices
    <2>3. /\ Received = SubSeq(message, 1, Len(m_read_buf))
          /\ Len(m_read_buf) \in 0..Len(message) /\ message \in Seq(Tokens)
      BY <1>3, Indices DEF Received, m_read_idx
    <2>4. m_checked_idx <= Len(m_read_buf)
      BY <1>3, Indices
    <2>5. /\ CodeEmpty(Received) # {} /\ CodeHeadersEnd(Received) = m_checked_idx
          /\ CodeAnnounced(Received) => Lengths[message] = 0
      BY <1>6, <1>7, <2>2, <2>3, <2>4, AnnouncedIs
    <2>6. /\ 3 \in Ends(Received) /\ Received[1] = "get"
          /\ Len(Received) = Len(m_read_buf)
      <3>1. /\ \A i \in 1..Len(m_read_buf) : Received[i] = message[i]
            /\ Ends(Received) = {i \in Ends(message) : i <= Len(m_read_buf)}
            /\ Len(Received) = Len(m_read_buf)
        BY <1>3, ReceivedIs
      <3>2. 3 <= m_checked_idx
        BY <1>2, <1>3, <1>4, <1>5, Indices
      <3>3. 3 <= Len(m_read_buf)
        BY <1>3, <3>2, Indices
      <3>4. QED
        BY <1>3, <1>4, <3>1, <3>3, Indices
    <2>7. CodeHeadVerdict(Received) = "GET_REQUEST"
      BY <2>5, <2>6 DEF CodeHeadVerdict
    <2>8. CodeVerdict(Received) = "GET_REQUEST"
      <3>1. Lengths[message] = 0 => ~(Len(Received) < CodeHeadersEnd(Received) + Lengths[message])
        BY <1>3, <2>4, <2>5, <2>6, Indices
      <3>2. QED
        BY <2>5, <2>7, <3>1 DEF CodeVerdict
    <2>9. Judged'
      BY <1>1, <2>1, <2>8, SameReceived DEF Judged
    <2>10. QED
      BY <1>9, <2>1, <2>9, AnswerPInv
  <1>13. QED
    BY <1>11, <1>12

-----------------------------------------------------------------------------
(* read() and what follows an answer.                                      *)

LEMMA ReadStep ==
    ASSUME PInv, NEW k \in 1..Len(message), Read(k), TypeOK'
    PROVE  PInv'
  <1>1. /\ pc = "wait" /\ k \in 1..(Len(message) - Len(m_read_buf))
        /\ m_read_buf' = m_read_buf \o SubSeq(message, Len(m_read_buf) + 1, Len(m_read_buf) + k)
        /\ before' = Len(m_read_buf) /\ line_status' = "OK" /\ pc' = "while"
        /\ message' = message /\ m_checked_idx' = m_checked_idx
        /\ m_start_line' = m_start_line /\ m_check_state' = m_check_state
        /\ m_content_length' = m_content_length /\ result' = result
    BY DEF Read, Arriving, m_read_idx
  <1>2. TypeOK /\ Len(m_read_buf) <= Len(message) /\ Working
    BY <1>1 DEF PInv, Working
  <1>3. PICK n \in Nat : n = Len(m_read_buf)
    BY <1>2, Indices
  <1>4. PICK rest \in Seq(Tokens) :
            /\ rest = SubSeq(message, n + 1, n + k) /\ Len(rest) = k
            /\ \A i \in 1..k : rest[i] = message[n + i]
    <2>1. SubSeq(message, n + 1, n + k) \in Seq(Tokens)
      BY <1>1, <1>2, <1>3, Indices
    <2>2. Len(SubSeq(message, n + 1, n + k)) = k
      BY <1>1, <1>2, <1>3, Indices
    <2>3. \A i \in 1..k : SubSeq(message, n + 1, n + k)[i] = message[n + i]
      BY <1>1, <1>2, <1>3, Indices
    <2>4. QED
      BY <2>1, <2>2, <2>3
  <1>5. /\ Len(m_read_buf') = n + k
        /\ \A i \in 1..n : m_read_buf'[i] = m_read_buf[i]
        /\ \A i \in n + 1 .. n + k : m_read_buf'[i] = message[i]
    <2>1. m_read_buf' = m_read_buf \o rest /\ m_read_buf \in Seq(Tokens \cup {"NUL"})
      BY <1>1, <1>2, <1>3, <1>4, Indices
    <2>2. Len(m_read_buf') = n + k /\ \A i \in 1..n : m_read_buf'[i] = m_read_buf[i]
      BY <1>3, <1>4, <2>1
    <2>3. ASSUME NEW i \in n + 1 .. n + k PROVE m_read_buf'[i] = message[i]
      <3>1. i - n \in 1..k /\ n + (i - n) = i /\ i \in 1..(n + k) /\ ~(i <= n)
        OBVIOUS
      <3>2. (m_read_buf \o rest)[i] = rest[i - n]
        BY <1>3, <1>4, <2>1, <3>1
      <3>3. QED
        BY <1>4, <2>1, <3>1, <3>2
    <2>4. QED
      BY <2>2, <2>3
  <1>6. (Len(m_read_buf) <= Len(message))' /\ Working' /\ n + k <= Len(message)
    BY <1>1, <1>2, <1>3, <1>5, Indices DEF Working
  <1>7. CASE m_check_state # "CONTENT"
    <2>1. InLines /\ InLines'
      BY <1>1, <1>2, <1>6, <1>7 DEF InLines
    <2>2. /\ LineKept /\ LineStart /\ Scanned /\ LineFound /\ Consumed /\ HeadRead
          /\ result' = "NO_REQUEST"
      BY <1>1, <2>1, InLinesIs
    <2>3. LineKept'
      <3>1. ASSUME NEW i \in m_start_line + 1 .. n + k PROVE m_read_buf'[i] = message[i]
        <4>1. CASE i <= n
          <5>1. i \in m_start_line + 1 .. Len(m_read_buf) /\ i \in 1..n
            BY <1>2, <1>3, <3>1, <4>1, Indices
          <5>2. m_read_buf[i] = message[i]
            BY <1>1, <2>2, <5>1 DEF LineKept
          <5>3. QED
            BY <1>5, <5>1, <5>2
        <4>2. CASE ~(i <= n)
          <5>1. i \in n + 1 .. n + k
            BY <1>1, <1>2, <1>3, <3>1, <4>2, Indices
          <5>2. QED
            BY <1>5, <5>1
        <4>3. QED
          BY <4>1, <4>2
      <3>2. QED
        BY <1>1, <1>5, <3>1 DEF LineKept
    <2>4. LineStart'
      <3>1. SUFFICES ASSUME m_start_line > 0
                     PROVE  m_start_line \in Ends(message) /\ m_read_buf'[m_start_line] = "NUL"
        BY <1>1 DEF LineStart
      <3>2. m_start_line \in 1..n
        BY <1>2, <1>3, <3>1, Indices
      <3>3. QED
        BY <1>5, <2>2, <3>1, <3>2 DEF LineStart
    <2>5. Scanned'
      <3>1. m_checked_idx < n => m_checked_idx < n + k
        BY <1>2, Indices
      <3>2. QED
        BY <1>1, <1>3, <1>5, <2>2, <3>1 DEF Scanned
    <2>6. LineFound' /\ Consumed' /\ HeadRead'
      BY <1>1, <1>3, <2>2 DEF LineFound, Consumed, NoEnd, HeadRead, LenBefore
    <2>7. QED
      BY <1>6, <2>1, <2>2, <2>3, <2>4, <2>5, <2>6, InLinesPInv
  <1>8. CASE m_check_state = "CONTENT"
    <2>1. /\ HeadersRead /\ 3 \in Ends(message) /\ message[1] = "get"
          /\ m_content_length = Lengths[message] /\ result = "NO_REQUEST"
          /\ CodeHeadersEnd(message) \in Nat /\ CodeHeadersEnd(message) <= m_checked_idx
      BY <1>2, <1>8, BodyIs
    <2>2. CodeHeadersEnd(message) <= n
      BY <1>3, <2>1 DEF HeadersRead
    <2>3. CodeHeadersEnd(message)' = CodeHeadersEnd(message)
      BY <1>1 DEF CodeHeadersEnd, CodeEmpty, Ends, CodeEnds, Broken
    <2>4. HeadersRead'
      BY <1>1, <1>3, <1>5, <2>1, <2>2, <2>3 DEF HeadersRead, LenBefore
    <2>5. Cut' \/ (m_checked_idx = CodeHeadersEnd(message))'
      <3>1. Cut' <=> n > CodeHeadersEnd(message)
        BY <1>1, <1>3, <2>3 DEF Cut
      <3>2. m_checked_idx <= n /\ m_checked_idx \in Nat
        BY <1>2, <1>3, Indices
      <3>3. QED
        BY <1>1, <2>1, <2>2, <2>3, <3>1, <3>2
    <2>6. /\ (CodeHeadersEnd(message) <= m_checked_idx)' /\ (m_check_state = "CONTENT")'
          /\ (m_content_length = Lengths[message])' /\ (result = "NO_REQUEST")'
          /\ (3 \in Ends(message) /\ message[1] = "get")'
      BY <1>1, <1>8, <2>1, <2>3
    <2>7. QED
      BY <1>1, <1>6, <2>4, <2>5, <2>6, BodyPInv
  <1>9. QED
    BY <1>7, <1>8

\* The state that init() leaves.
Fresh ==
    /\ TypeOK
    /\ Initial(m_read_buf, m_checked_idx, m_start_line, m_check_state, m_content_length,
               m_linger)
    /\ pc = "wait" /\ result = "NO_REQUEST"

LEMMA FreshPInv == Fresh => PInv
  <1> SUFFICES ASSUME Fresh PROVE PInv
    OBVIOUS
  <1>0. TypeOK
    BY DEF Fresh
  <1>1. /\ m_checked_idx = 0 /\ m_start_line = 0 /\ pc = "wait"
        /\ m_check_state = "REQUESTLINE" /\ m_content_length = 0
    BY DEF Fresh, Initial
  <1>2. Len(m_read_buf) = 0 /\ Len(m_read_buf) <= Len(message)
    <2>1. m_read_buf = <<>>
      BY DEF Fresh, Initial
    <2>2. Len(m_read_buf) = 0
      BY <2>1
    <2>3. QED
      BY <1>0, <2>2, Indices
  <1>3. LineKept /\ LineStart /\ Scanned /\ LineFound /\ HeadRead
    <2>1. m_start_line + 1 .. Len(m_read_buf) = {} /\ m_start_line + 1 .. m_checked_idx = {}
      BY <1>1, <1>2
    <2>2. QED
      BY <1>1, <2>1 DEF LineKept, LineStart, Scanned, LineFound, HeadRead
  <1>4. Consumed
    <2>1. \A i \in Ends(message) : i \in Nat /\ 0 < i
      BY <1>0, Indices, EndsAre
    <2>2. NoEnd(0, 0)
      BY <2>1 DEF NoEnd
    <2>3. QED
      BY <1>1, <1>2, <2>2 DEF Consumed
  <1>5. LinesRead /\ BodyRead /\ Results
    BY <1>1, <1>3, <1>4 DEF Fresh, LinesRead, BodyRead, Results
  <1>6. QED
    BY <1>0, <1>2, <1>5 DEF PInv

LEMMA AnswerStep ==
    ASSUME PInv, Answer, TypeOK'
    PROVE  PInv'
  <1>1. CASE m_linger /\ requests < MaxRequests
    <2>1. Fresh'
      BY <1>1 DEF Answer, Fresh
    <2>2. (Fresh => PInv)'
      BY FreshPInv, PTL
    <2>3. QED
      BY <2>1, <2>2
  <1>2. CASE ~(m_linger /\ requests < MaxRequests)
    <2>1. pc' = "closed" /\ message' = message /\ m_read_buf' = m_read_buf
      BY <1>2 DEF Answer
    <2>2. (Len(m_read_buf) <= Len(message))'
      BY <2>1 DEF PInv
    <2>3. QED
      BY <2>1, <2>2, EndPInv
  <1>3. QED
    BY <1>1, <1>2

LEMMA FullStep ==
    ASSUME PInv, NEW k, ReadFull(k), TypeOK'
    PROVE  PInv'
  <1>1. pc' = "closed" /\ message' = message /\ m_read_buf' = m_read_buf
    BY DEF ReadFull
  <1>2. (Len(m_read_buf) <= Len(message))'
    BY <1>1 DEF PInv
  <1>3. QED
    BY <1>1, <1>2, EndPInv

LEMMA StutterStep == PInv /\ UNCHANGED vars => PInv'
  <1> SUFFICES ASSUME PInv, UNCHANGED vars PROVE PInv'
    OBVIOUS
  <1>1. /\ message' = message /\ m_read_buf' = m_read_buf /\ m_checked_idx' = m_checked_idx
        /\ m_start_line' = m_start_line /\ m_check_state' = m_check_state
        /\ m_content_length' = m_content_length /\ line_status' = line_status
        /\ pc' = pc /\ result' = result /\ before' = before
    BY DEF vars, parserVars
  <1>2. TypeOK' /\ (Len(m_read_buf) <= Len(message))'
    BY <1>1, OtherTypes DEF PInv
  <1>3. LinesRead'
    <2>1. LinesRead
      BY DEF PInv
    <2>2. QED
      BY <1>1, <2>1 DEF LinesRead, InLines, Working, LineKept, LineStart, Scanned,
                        LineFound, Consumed, HeadRead, NoEnd, LenBefore
  <1>4. Judged' <=> Judged
    BY <1>1, SameReceived DEF Judged
  <1>5. BodyRead'
    <2>1. CodeHeadersEnd(message)' = CodeHeadersEnd(message)
      BY <1>1 DEF CodeHeadersEnd, CodeEmpty, Ends, CodeEnds, Broken
    <2>2. HeadersRead' <=> HeadersRead
      BY <1>1, <2>1 DEF HeadersRead, LenBefore
    <2>3. (Cut' <=> Cut) /\ (Missing' <=> Missing)
      BY <1>1, <2>1 DEF Cut, Missing
    <2>4. BodyRead
      BY DEF PInv
    <2>5. QED
      BY <1>1, <2>1, <2>2, <2>3, <2>4 DEF BodyRead, Working
  <1>6. Results'
    BY <1>1, <1>4 DEF PInv, Results, Working
  <1>7. QED
    BY <1>2, <1>3, <1>5, <1>6 DEF PInv

LEMMA ParserStep == PInv /\ [Next]_vars => PInv'
  <1> SUFFICES ASSUME PInv, [Next]_vars PROVE PInv'
    OBVIOUS
  <1>1. TypeOK'
    BY TypesStep DEF PInv
  <1>2. CASE \E k \in 1..Len(message) : Read(k) \/ ReadFull(k)
    BY <1>1, <1>2, ReadStep, FullStep
  <1>3. CASE LineOk \/ LineOkLetter \/ LineBad \/ LineOpen
    <2>1. CASE m_check_state = "CONTENT"
      BY <1>1, <1>3, <2>1, BodyLineStep
    <2>2. CASE m_check_state # "CONTENT"
      <3>1. InLines
        BY <1>3, <2>2 DEF InLines, Working, LineOk, LineOkLetter, LineBad,
                          LineOpen, AtParseLine
      <3>2. QED
        BY <1>1, <1>3, <3>1, LineOkStep, LineOkLetterStep, LineBadStep, LineOpenStep
    <2>3. QED
      BY <2>1, <2>2
  <1>4. CASE ExpectBody \/ ContentWhole \/ ContentOpen \/ ContentUndefined
    BY <1>1, <1>4, ExpectBodyStep, ContentStep
  <1>5. CASE RequestLineOk \/ RequestLineBad \/ Header \/ HeaderEnd
    BY <1>1, <1>5, RequestLineOkStep, RequestLineBadStep, HeaderStep, HeaderEndStep
  <1>6. CASE Answer
    BY <1>1, <1>6, AnswerStep
  <1>7. CASE UNCHANGED vars
    BY <1>7, StutterStep
  <1>8. QED
    BY <1>2, <1>3, <1>4, <1>5, <1>6, <1>7 DEF Next, ProcessRead

\* However the bytes of a request are cut, the parser's verdict is that of a
\* reference that sees the bytes read and no cut, but for requests with a bare LF
\* in the head and complete ones with a cut body, which it leaves without an
\* answer; no request is taken for complete too early (http_conn.cpp:91-261).
THEOREM VerdictInvariance == Spec => []VerdictIsReference
  <1>1. Init => PInv
    <2>1. Init => Fresh
      BY TypesInit DEF Init, Fresh
    <2>2. QED
      BY <2>1, FreshPInv
  <1>2. QED
    BY <1>1, ParserStep, PInvVerdict, PTL DEF Spec

\* Types; m_start_line, m_checked_idx and m_read_idx stay in order, and within the
\* buffer (http_conn.cpp:91-115).
THEOREM ParserTypes == Spec => []TypeOK
  BY TypesInit, TypesStep, PTL DEF Spec

-----------------------------------------------------------------------------
(* Third part: the program the parser was made from, beside it.            *)

\* Up to p, CR and LF come in pairs; from a to b there is neither.
Paired(s, p) ==
    \A i \in 1..p :
        /\ s[i] = "CR" => i < p /\ s[i + 1] = "LF"
        /\ s[i] = "LF" => i > 1 /\ s[i - 1] = "CR"
Quiet(s, a, b) == \A i \in a..b : s[i] \notin {"CR", "LF"}
NoEmptyLine(s, p) == \A i \in 3..p : ~(s[i] = "LF" /\ s[i - 2] = "LF")

DemoTypes ==
    /\ buffer \in Seq(Tokens)
    /\ checked_index \in 0..Len(buffer)
    /\ start_line \in 0..checked_index
    /\ retcode = "NO_REQUEST"

\* What parse_content has gone over: whole lines, then the start of one.
DemoLines ==
    /\ Paired(buffer, start_line)
    /\ start_line = 0 \/ (start_line >= 2 /\ buffer[start_line] = "LF")
    /\ Quiet(buffer, start_line + 1, checked_index)

\* The lines found so far are the request line and headers.
DemoHead ==
    \/ checkstate = "REQUESTLINE" /\ start_line = 0
    \/ /\ checkstate = "HEADER" /\ start_line >= 3
       /\ buffer[1] = "get" /\ buffer[3] = "LF"
       /\ NoEmptyLine(buffer, start_line)

DemoAll ==
    \/ checked_index = Len(buffer)
    \/ checked_index = Len(buffer) - 1 /\ buffer[Len(buffer)] = "CR"

DemoInv ==
    /\ demo_pc \in {"recv", "parse_content", "closed"}
    /\ IF demo_pc = "closed" THEN retcode = Expected(buffer)
       ELSE DemoTypes /\ DemoLines /\ DemoHead /\ (demo_pc = "recv" => DemoAll)

-----------------------------------------------------------------------------
(* The expected verdict.                                                   *)

LEMMA InvalidIs ==
    ASSUME NEW s \in Seq(Tokens)
    PROVE  Invalid(s) \subseteq 1..Len(s) /\ Len(s) \in Nat
  BY DEF Invalid

\* The valid part of s is its first n tokens.
ValidUpTo(s, n) ==
    \/ Invalid(s) = {} /\ n = Len(s)
    \/ n + 1 \in Invalid(s) /\ \A j \in Invalid(s) : n + 1 <= j

LEMMA ValidIs ==
    ASSUME NEW s \in Seq(Tokens), NEW n \in 0..Len(s), ValidUpTo(s, n)
    PROVE  Valid(s) = SubSeq(s, 1, n)
  <1>1. CASE Invalid(s) = {} /\ n = Len(s)
    <2>1. SubSeq(s, 1, Len(s)) = s
      OBVIOUS
    <2>2. QED
      BY <1>1, <2>1 DEF Valid
  <1>2. CASE n + 1 \in Invalid(s) /\ \A j \in Invalid(s) : n + 1 <= j
    <2> DEFINE first == CHOOSE i \in Invalid(s) : \A j \in Invalid(s) : i <= j
    <2>1. first \in Invalid(s) /\ \A j \in Invalid(s) : first <= j
      BY <1>2
    <2>2. first = n + 1
      BY <1>2, <2>1, InvalidIs
    <2>3. Valid(s) = SubSeq(s, 1, first - 1)
      BY <1>2 DEF Valid
    <2> HIDE DEF first
    <2>4. first - 1 = n
      BY <2>2
    <2>5. QED
      BY <2>3, <2>4
  <1>3. QED
    BY <1>1, <1>2 DEF ValidUpTo

\* There is such a part, and it holds whatever is known to be valid.
LEMMA ValidPart ==
    ASSUME NEW s \in Seq(Tokens), NEW p \in 0..Len(s), \A j \in Invalid(s) : p < j
    PROVE  \E n \in p..Len(s) : ValidUpTo(s, n)
  <1>1. CASE Invalid(s) = {}
    <2>1. Len(s) \in p..Len(s)
      BY InvalidIs
    <2>2. QED
      BY <1>1, <2>1 DEF ValidUpTo
  <1>2. CASE Invalid(s) # {}
    <2>1. Invalid(s) \subseteq Nat
      BY InvalidIs
    <2>2. PICK x \in Invalid(s) : \A y \in Invalid(s) : x <= y
      BY <1>2, <2>1, SmallestOf
    <2>3. x - 1 \in p..Len(s) /\ x - 1 + 1 = x
      BY <2>2, InvalidIs
    <2>4. ValidUpTo(s, x - 1)
      BY <2>2, <2>3 DEF ValidUpTo
    <2>5. QED
      BY <2>3, <2>4
  <1>3. QED
    BY <1>1, <1>2

\* In the valid part every LF ends a line.
LEMMA ValidEnds ==
    ASSUME NEW s \in Seq(Tokens), NEW n \in 0..Len(s), \A j \in Invalid(s) : n < j
    PROVE  LET v == SubSeq(s, 1, n)
           IN  /\ LineEnds(v) = {i \in 1..n : s[i] = "LF"}
               /\ EmptyLines(v) = {i \in 3..n : s[i] = "LF" /\ s[i - 2] = "LF"}
               /\ n > 0 => v[1] = s[1]
  <1> DEFINE v == SubSeq(s, 1, n)
  <1>1. n \in Nat /\ Len(s) \in Nat /\ n <= Len(s)
    BY InvalidIs
  <1>2. Len(v) = n /\ \A i \in 1..n : v[i] = s[i]
    OBVIOUS
  <1>3. n > 0 => v[1] = s[1]
    BY <1>1, <1>2
  <1> HIDE DEF v
  <1>4. ASSUME NEW i \in 1..n, s[i] = "LF"
        PROVE  i \in LineEnds(v)
    <2>1. i \notin Invalid(s) /\ i \in 1..Len(s)
      BY <1>1
    <2>2. i # 1 /\ s[i - 1] = "CR"
      BY <1>4, <2>1 DEF Invalid
    <2>3. i \in 2..n /\ v[i] = "LF" /\ v[i - 1] = "CR"
      BY <1>1, <1>2, <1>4, <2>2
    <2>4. QED
      BY <1>2, <2>3 DEF LineEnds
  <1>5. \A i \in LineEnds(v) : i \in 1..n /\ s[i] = "LF"
    BY <1>1, <1>2 DEF LineEnds
  <1>6. LineEnds(v) = {i \in 1..n : s[i] = "LF"}
    BY <1>4, <1>5
  <1>7. EmptyLines(v) = {i \in 3..n : s[i] = "LF" /\ s[i - 2] = "LF"}
    <2>1. ASSUME NEW i \in EmptyLines(v)
          PROVE  i \in 3..n /\ s[i] = "LF" /\ s[i - 2] = "LF"
      BY <1>1, <1>6, <2>1 DEF EmptyLines
    <2>2. ASSUME NEW i \in 3..n, s[i] = "LF", s[i - 2] = "LF"
          PROVE  i \in EmptyLines(v)
      BY <1>1, <1>6, <2>2 DEF EmptyLines
    <2>3. QED
      BY <2>1, <2>2
  <1>8. QED
    BY <1>3, <1>6, <1>7 DEF v

\* No line is complete before the first that is not valid, or only the request
\* line and headers.
LEMMA ExpectedOpen ==
    ASSUME NEW s \in Seq(Tokens), NEW p \in 0..Len(s), NEW n \in p..Len(s),
           ValidUpTo(s, n), Quiet(s, p + 1, n - 1), n = p \/ s[n] # "LF",
           \/ p = 0
           \/ /\ p >= 3 /\ s[1] = "get" /\ s[3] = "LF" /\ NoEmptyLine(s, p)
    PROVE  Expected(s) = IF Invalid(s) = {} THEN "NO_REQUEST" ELSE "BAD_REQUEST"
  <1> DEFINE v == SubSeq(s, 1, n)
  <1>1. p \in Nat /\ n \in Nat /\ p <= n /\ n <= Len(s) /\ n \in 0..Len(s)
    BY InvalidIs
  <1>2. \A j \in Invalid(s) : n < j
    BY <1>1, InvalidIs DEF ValidUpTo
  <1>3. /\ LineEnds(v) = {i \in 1..n : s[i] = "LF"}
        /\ EmptyLines(v) = {i \in 3..n : s[i] = "LF" /\ s[i - 2] = "LF"}
        /\ n > 0 => v[1] = s[1]
    BY <1>1, <1>2, ValidEnds
  <1>4. Valid(s) = v
    BY <1>1, ValidIs
  <1> HIDE DEF v
  <1>5. \A i \in 1..n : s[i] = "LF" => i <= p
    BY <1>1 DEF Quiet
  <1>6. HeadVerdict(v) = "NO_REQUEST"
    <2>1. CASE p = 0
      <3>1. LineEnds(v) = {}
        BY <1>1, <1>3, <1>5, <2>1
      <3>2. QED
        BY <3>1 DEF HeadVerdict
    <2>2. CASE p >= 3 /\ s[1] = "get" /\ s[3] = "LF" /\ NoEmptyLine(s, p)
      <3>1. 3 \in LineEnds(v) /\ v[1] = "get"
        BY <1>1, <1>3, <2>2
      <3>2. EmptyLines(v) = {}
        BY <1>1, <1>3, <1>5, <2>2 DEF NoEmptyLine
      <3>3. QED
        BY <3>1, <3>2 DEF HeadVerdict
    <2>3. QED
      BY <2>1, <2>2
  <1>7. QED
    BY <1>4, <1>6 DEF Expected

\* The first line is complete, and is not the request line; or a line is empty.
LEMMA ExpectedClosed ==
    ASSUME NEW s \in Seq(Tokens), NEW p \in 1..Len(s), s[p] = "LF",
           \A j \in Invalid(s) : p < j
    PROVE  /\ p < 3 \/ s[3] # "LF" \/ s[1] # "get" => Expected(s) = "BAD_REQUEST"
           /\ p >= 3 /\ s[p - 2] = "LF" /\ s[3] = "LF" /\ s[1] = "get"
                => Expected(s) = "GET_REQUEST"
  <1>1. p \in 0..Len(s) /\ Len(s) \in Nat
    BY InvalidIs
  <1>2. PICK n \in p..Len(s) : ValidUpTo(s, n)
    BY <1>1, ValidPart
  <1> DEFINE v == SubSeq(s, 1, n)
  <1>3. n \in 0..Len(s) /\ \A j \in Invalid(s) : n < j
    BY <1>1, <1>2, InvalidIs DEF ValidUpTo
  <1>4. /\ LineEnds(v) = {i \in 1..n : s[i] = "LF"}
        /\ EmptyLines(v) = {i \in 3..n : s[i] = "LF" /\ s[i - 2] = "LF"}
        /\ n > 0 => v[1] = s[1]
    BY <1>3, ValidEnds
  <1>5. Valid(s) = v
    BY <1>2, <1>3, ValidIs
  <1> HIDE DEF v
  <1>6. p \in LineEnds(v) /\ v[1] = s[1]
    BY <1>1, <1>2, <1>4
  <1>7. ASSUME p < 3 \/ s[3] # "LF" \/ s[1] # "get"
        PROVE  Expected(s) = "BAD_REQUEST"
    <2>1. 3 \notin LineEnds(v) \/ v[1] # "get"
      <3>1. CASE p < 3
        <4>1. p \notin Invalid(s)
          BY <1>1
        <4>2. p = 2 /\ s[1] = "CR"
          BY <1>1, <3>1, <4>1 DEF Invalid
        <4>3. QED
          BY <1>6, <4>2
      <3>2. CASE s[3] # "LF" \/ s[1] # "get"
        BY <1>4, <1>6, <3>2
      <3>3. QED
        BY <1>7, <3>1, <3>2
    <2>2. HeadVerdict(v) = "BAD_REQUEST"
      BY <1>6, <2>1 DEF HeadVerdict
    <2>3. QED
      BY <1>5, <2>2 DEF Expected
  <1>8. ASSUME p >= 3, s[p - 2] = "LF", s[3] = "LF", s[1] = "get"
        PROVE  Expected(s) = "GET_REQUEST"
    <2>1. 3 \in LineEnds(v) /\ p \in EmptyLines(v)
      BY <1>1, <1>2, <1>4, <1>8
    <2>2. HeadVerdict(v) = "GET_REQUEST"
      BY <1>6, <1>8, <2>1 DEF HeadVerdict
    <2>3. QED
      BY <1>5, <2>2 DEF Expected
  <1>9. QED
    BY <1>7, <1>8

-----------------------------------------------------------------------------
(* The steps.                                                              *)

\* What has been gone over is valid.
LEMMA GoneOver ==
    ASSUME NEW s \in Seq(Tokens), NEW p \in 0..Len(s), Paired(s, p),
           NEW q \in p..Len(s), Quiet(s, p + 1, q)
    PROVE  \A j \in Invalid(s) : q < j
  <1>1. SUFFICES ASSUME NEW j \in Invalid(s), j <= q PROVE FALSE
    BY InvalidIs
  <1>2. j \in 1..Len(s) /\ p \in Nat /\ q \in Nat /\ Len(s) \in Nat
    BY InvalidIs
  <1>3. \/ s[j] = "CR" /\ j < Len(s) /\ s[j + 1] # "LF"
        \/ s[j] = "LF" /\ (j = 1 \/ s[j - 1] # "CR")
    BY DEF Invalid
  <1>4. CASE j <= p
    <2>1. j \in 1..p
      BY <1>2, <1>4
    <2>2. QED
      BY <1>3, <2>1 DEF Paired
  <1>5. CASE j > p
    <2>1. j \in p + 1 .. q
      BY <1>1, <1>2, <1>5
    <2>2. QED
      BY <1>3, <2>1 DEF Quiet
  <1>6. QED
    BY <1>2, <1>4, <1>5

InDemoContent == DemoInv /\ demo_pc = "parse_content"

LEMMA DemoContentIs ==
    ASSUME InDemoContent
    PROVE  /\ DemoTypes /\ DemoLines /\ DemoHead
           /\ buffer \in Seq(Tokens) /\ Len(buffer) \in Nat
           /\ checked_index \in Nat /\ start_line \in Nat
           /\ start_line <= checked_index /\ checked_index <= Len(buffer)
           /\ start_line \in 0..Len(buffer) /\ retcode = "NO_REQUEST"
           /\ Paired(buffer, start_line)
           /\ Quiet(buffer, start_line + 1, checked_index)
           /\ start_line # 0 => start_line >= 2 /\ buffer[start_line] = "LF"
  BY DEF InDemoContent, DemoInv, DemoTypes, DemoLines

\* parse_line stops at p, 1-based: at the first CR or LF of a line.
StopsAt(p) ==
    /\ Demo!Stops # {} /\ Demo!Stop = p - 1
    /\ p \in checked_index + 1 .. Len(buffer)
    /\ buffer[p] \in {"CR", "LF"}
    /\ Quiet(buffer, start_line + 1, p - 1)
    /\ Demo!LastIsCR <=> buffer[p] = "CR" /\ p = Len(buffer)
    /\ Demo!LineEnds <=> buffer[p] = "CR" /\ p < Len(buffer) /\ buffer[p + 1] = "LF"
    /\ p > 1 => buffer[p - 1] # "CR"

\* parse_line's branch for an LF that a CR precedes is never taken: it would have
\* stopped at the CR.
LEMMA DemoStopIsAt ==
    ASSUME InDemoContent, Demo!Stops # {}
    PROVE  \E p \in Nat : StopsAt(p)
  <1>1. /\ Len(buffer) \in Nat /\ checked_index \in Nat /\ start_line \in Nat
        /\ start_line <= checked_index
    BY DemoContentIs
  <1>2. Demo!Stops \subseteq Nat
    BY <1>1 DEF Demo!Stops, Demo!read_index
  <1>3. \E i \in Demo!Stops : \A j \in Demo!Stops : i <= j
    BY <1>2, SmallestOf
  <1>4. Demo!Stop \in Demo!Stops /\ \A j \in Demo!Stops : Demo!Stop <= j
    BY <1>3 DEF Demo!Stop
  <1>5. PICK p \in Nat : Demo!Stop = p - 1 /\ p >= 1
    BY <1>2, <1>4
  <1>6. p \in checked_index + 1 .. Len(buffer) /\ buffer[p] \in {"CR", "LF"}
    BY <1>1, <1>4, <1>5 DEF Demo!Stops, Demo!read_index, Demo!Char
  <1>7. Quiet(buffer, start_line + 1, p - 1)
    <2>1. SUFFICES ASSUME NEW i \in start_line + 1 .. p - 1, buffer[i] \in {"CR", "LF"}
                   PROVE  FALSE
      BY DEF Quiet
    <2>2. CASE i <= checked_index
      BY <1>1, <2>1, <2>2, DemoContentIs DEF Quiet
    <2>3. CASE i > checked_index
      <3>1. i - 1 \in Demo!Stops
        BY <1>1, <1>6, <2>1, <2>3 DEF Demo!Stops, Demo!read_index, Demo!Char
      <3>2. QED
        BY <1>1, <1>4, <1>5, <2>1, <3>1
    <2>4. QED
      BY <1>1, <2>2, <2>3
  <1>8. p > 1 => buffer[p - 1] # "CR"
    <2>1. SUFFICES ASSUME p > 1 PROVE buffer[p - 1] # "CR"
      OBVIOUS
    <2>2. CASE p - 1 > start_line
      <3>1. p - 1 \in start_line + 1 .. p - 1
        BY <1>1, <2>2
      <3>2. QED
        BY <1>7, <3>1 DEF Quiet
    <2>3. CASE p - 1 <= start_line
      <3>1. p - 1 = start_line /\ start_line # 0
        BY <1>1, <1>6, <2>1, <2>3
      <3>2. QED
        BY <3>1, DemoContentIs
    <2>4. QED
      BY <1>1, <2>2, <2>3
  <1>9. Demo!LastIsCR <=> buffer[p] = "CR" /\ p = Len(buffer)
    BY <1>1, <1>5 DEF Demo!LastIsCR, Demo!Char, Demo!read_index
  <1>10. Demo!LineEnds <=> buffer[p] = "CR" /\ p < Len(buffer) /\ buffer[p + 1] = "LF"
    <2>1. /\ Demo!Char(Demo!Stop) = buffer[p]
          /\ Demo!Char(Demo!Stop + 1) = buffer[p + 1]
          /\ Demo!Char(Demo!Stop - 1) = buffer[p - 1]
      BY <1>5 DEF Demo!Char
    <2>2. Demo!Stop + 1 = p /\ (Demo!Stop > 1 => p > 1)
      BY <1>5
    <2>3. QED
      BY <1>1, <1>8, <2>1, <2>2 DEF Demo!LineEnds, Demo!read_index
  <1>11. QED
    BY <1>5, <1>6, <1>7, <1>8, <1>9, <1>10 DEF StopsAt

\* The verdict before any line is complete but the request line and headers.
LEMMA NotYet ==
    ASSUME InDemoContent, NEW n \in start_line .. Len(buffer), ValidUpTo(buffer, n),
           Quiet(buffer, start_line + 1, n - 1), n = start_line \/ buffer[n] # "LF"
    PROVE  Expected(buffer) = IF Invalid(buffer) = {} THEN "NO_REQUEST" ELSE "BAD_REQUEST"
  <1>1. \/ start_line = 0
        \/ /\ start_line >= 3 /\ buffer[1] = "get" /\ buffer[3] = "LF"
           /\ NoEmptyLine(buffer, start_line)
    BY DemoContentIs DEF DemoHead
  <1>2. QED
    BY <1>1, DemoContentIs, ExpectedOpen

LEMMA DemoOpenStep ==
    ASSUME InDemoContent, Demo!Open
    PROVE  DemoInv'
  <1>1. PICK at :
            /\ demo_pc' = "recv" /\ retcode' = "NO_REQUEST" /\ checked_index' = at
            /\ UNCHANGED <<buffer, start_line, checkstate>>
            /\ \/ Demo!Stops = {} /\ at = Len(buffer)
               \/ Demo!LastIsCR /\ at = Demo!Stop
    BY DEF Demo!Open, Demo!Return, Demo!read_index
  <1>2. /\ at \in checked_index .. Len(buffer)
        /\ Quiet(buffer, start_line + 1, at)
        /\ at = Len(buffer) \/ (at = Len(buffer) - 1 /\ buffer[Len(buffer)] = "CR")
    <2>1. CASE Demo!Stops = {} /\ at = Len(buffer)
      <3>1. \A i \in checked_index + 1 .. Len(buffer) : buffer[i] \notin {"CR", "LF"}
        <4>1. SUFFICES ASSUME NEW i \in checked_index + 1 .. Len(buffer),
                              buffer[i] \in {"CR", "LF"}
                       PROVE  FALSE
          OBVIOUS
        <4>2. i - 1 \in Demo!Stops
          BY <4>1, DemoContentIs DEF Demo!Stops, Demo!read_index, Demo!Char
        <4>3. QED
          BY <2>1, <4>2
      <3>2. QED
        BY <2>1, <3>1, DemoContentIs DEF Quiet
    <2>2. CASE Demo!LastIsCR /\ at = Demo!Stop
      <3>1. PICK p \in Nat : StopsAt(p)
        BY <2>2, DemoStopIsAt DEF Demo!LastIsCR
      <3>2. QED
        BY <2>2, <3>1, DemoContentIs DEF StopsAt
    <2>3. QED
      BY <1>1, <2>1, <2>2
  <1>3. DemoTypes' /\ DemoLines' /\ DemoHead' /\ DemoAll'
    BY <1>1, <1>2, DemoContentIs DEF DemoTypes, DemoLines, DemoHead, DemoAll
  <1>4. QED
    BY <1>1, <1>3 DEF DemoInv

LEMMA DemoBadStep ==
    ASSUME InDemoContent, Demo!Bad
    PROVE  DemoInv'
  <1>1. PICK p \in Nat : StopsAt(p)
    BY DemoStopIsAt DEF Demo!Bad
  <1>2. demo_pc' = "closed" /\ retcode' = "BAD_REQUEST" /\ buffer' = buffer
    BY DEF Demo!Bad, Demo!Return
  <1>3. p \in 1..Len(buffer) /\ start_line < p /\ Len(buffer) \in Nat
    BY <1>1, DemoContentIs DEF StopsAt
  <1>4. p \in Invalid(buffer)
    BY <1>1, <1>3 DEF StopsAt, Demo!Bad, Invalid
  <1>5. \A j \in Invalid(buffer) : p - 1 < j
    <2>1. p - 1 \in start_line .. Len(buffer)
      BY <1>3, DemoContentIs
    <2>2. QED
      BY <1>1, <2>1, DemoContentIs, GoneOver DEF StopsAt
  <1>6. ValidUpTo(buffer, p - 1)
    BY <1>3, <1>4, <1>5, DemoContentIs, InvalidIs DEF ValidUpTo
  <1>7. p - 1 \in start_line .. Len(buffer)
    BY <1>3, DemoContentIs
  <1>8. Quiet(buffer, start_line + 1, p - 1 - 1)
        /\ (p - 1 = start_line \/ buffer[p - 1] # "LF")
    BY <1>1, <1>3, DemoContentIs DEF StopsAt, Quiet
  <1>9. Expected(buffer) = "BAD_REQUEST"
    BY <1>4, <1>6, <1>7, <1>8, NotYet
  <1>10. QED
    BY <1>2, <1>9 DEF DemoInv

\* The four steps that take a line.
TakesLine ==
    Demo!RequestLine \/ Demo!RequestLineBad \/ Demo!Header \/ Demo!HeadersEnd

\* A line ends at p, and with the LF behind it all up to there is valid.
LineAt(p) ==
    /\ p \in checked_index + 1 .. Len(buffer) - 1
    /\ buffer[p] = "CR" /\ buffer[p + 1] = "LF"
    /\ Quiet(buffer, start_line + 1, p - 1)
    /\ Paired(buffer, p + 1)
    /\ Demo!Stop = p - 1 /\ start_line' = p + 1

LEMMA LineIsAt ==
    ASSUME InDemoContent, TakesLine
    PROVE  \E p \in Nat : LineAt(p)
  <1>1. Demo!LineEnds /\ start_line' = Demo!Stop + 2
    BY DEF TakesLine, Demo!RequestLine, Demo!RequestLineBad, Demo!Header,
           Demo!HeadersEnd, Demo!Ok
  <1>2. PICK p \in Nat : StopsAt(p)
    BY <1>1, DemoStopIsAt DEF Demo!LineEnds
  <1>3. buffer[p] = "CR" /\ p < Len(buffer) /\ buffer[p + 1] = "LF"
    BY <1>1, <1>2 DEF StopsAt
  <1>4. p \in checked_index + 1 .. Len(buffer) - 1
    BY <1>2, <1>3, DemoContentIs DEF StopsAt
  <1>5. Paired(buffer, p + 1)
    <2>1. SUFFICES ASSUME NEW i \in 1..p + 1
                   PROVE  /\ buffer[i] = "CR" => i < p + 1 /\ buffer[i + 1] = "LF"
                          /\ buffer[i] = "LF" => i > 1 /\ buffer[i - 1] = "CR"
      BY DEF Paired
    <2>2. CASE i <= start_line
      <3>1. i \in 1..start_line
        BY <2>1, <2>2, DemoContentIs
      <3>2. QED
        BY <1>4, <3>1, DemoContentIs DEF Paired
    <2>3. CASE i > start_line /\ i < p
      <3>1. i \in start_line + 1 .. p - 1
        BY <2>1, <2>3, DemoContentIs
      <3>2. QED
        BY <1>2, <3>1 DEF StopsAt, Quiet
    <2>4. CASE i = p
      BY <1>3, <2>4
    <2>5. CASE i = p + 1
      <3>1. i - 1 = p /\ i > 1
        BY <1>4, <2>5, DemoContentIs
      <3>2. QED
        BY <1>3, <2>5, <3>1
    <2>6. QED
      BY <2>1, <2>2, <2>3, <2>4, <2>5, DemoContentIs
  <1>6. start_line' = p + 1
    BY <1>1, <1>2 DEF StopsAt
  <1>7. QED
    BY <1>2, <1>3, <1>4, <1>5, <1>6 DEF LineAt, StopsAt

\* temp of parse_content (8_3.cpp:135): the line without its end.
LEMMA TempIs ==
    ASSUME InDemoContent, NEW p \in Nat, LineAt(p)
    PROVE  /\ Demo!temp = <<>> <=> p = start_line + 1
           /\ Demo!temp = <<"get">> <=> p = start_line + 2 /\ buffer[start_line + 1] = "get"
  <1>1. Demo!temp = SubSeq(buffer, start_line + 1, p - 1)
    BY DEF Demo!temp, LineAt
  <1>2. /\ p \in start_line + 1 .. Len(buffer) - 1
        /\ start_line \in Nat /\ Len(buffer) \in Nat /\ buffer \in Seq(Tokens)
    BY DemoContentIs DEF LineAt
  <1>3. PICK k \in Nat : k = p - 1 - start_line
    BY <1>2
  <1>4. /\ Demo!temp \in Seq(Tokens) /\ Len(Demo!temp) = k
        /\ \A i \in 1..k : Demo!temp[i] = buffer[start_line + i]
    BY <1>1, <1>2, <1>3
  <1>5. Demo!temp = <<>> <=> k = 0
    BY <1>4
  <1>6. Demo!temp = <<"get">> <=> k = 1 /\ Demo!temp[1] = "get"
    BY <1>4
  <1>7. QED
    BY <1>2, <1>3, <1>4, <1>5, <1>6

\* After a line, parse_content goes on behind it.
LEMMA DemoLineStep ==
    ASSUME InDemoContent, Demo!RequestLine \/ Demo!Header
    PROVE  DemoInv'
  <1>1. PICK p \in Nat : LineAt(p)
    BY LineIsAt DEF TakesLine
  <1>2. /\ demo_pc' = "parse_content" /\ retcode' = "NO_REQUEST" /\ buffer' = buffer
        /\ checked_index' = p + 1 /\ start_line' = p + 1 /\ checkstate' = "HEADER"
    BY <1>1, DemoContentIs
    DEF Demo!RequestLine, Demo!Header, Demo!NextLine, InDemoContent, LineAt
  <1>3. /\ p \in start_line + 1 .. Len(buffer) - 1 /\ start_line \in Nat /\ Len(buffer) \in Nat
    BY <1>1, DemoContentIs DEF LineAt
  <1>4. p + 1 >= 3 /\ buffer[1] = "get" /\ buffer[3] = "LF" /\ NoEmptyLine(buffer, p + 1)
    <2>1. CASE Demo!RequestLine
      <3>1. checkstate = "REQUESTLINE" /\ Demo!temp = <<"get">>
        BY <2>1 DEF Demo!RequestLine, Demo!Ok
      <3>2. start_line = 0
        BY <3>1, DemoContentIs DEF DemoHead
      <3>3. p = 2 /\ buffer[1] = "get"
        BY <1>1, <3>1, <3>2, TempIs
      <3>4. buffer[3] = "LF"
        BY <1>1, <3>3 DEF LineAt
      <3>5. NoEmptyLine(buffer, 3)
        BY <3>3 DEF NoEmptyLine
      <3>6. QED
        BY <3>3, <3>4, <3>5
    <2>2. CASE Demo!Header
      <3>1. checkstate = "HEADER" /\ Demo!temp # <<>>
        BY <2>2 DEF Demo!Header, Demo!Ok
      <3>2. /\ start_line >= 3 /\ buffer[1] = "get" /\ buffer[3] = "LF"
            /\ NoEmptyLine(buffer, start_line)
        BY <3>1, DemoContentIs DEF DemoHead
      <3>3. p # start_line + 1
        BY <1>1, <3>1, TempIs
      <3>4. ASSUME NEW i \in 3..p + 1, buffer[i] = "LF", buffer[i - 2] = "LF"
            PROVE  FALSE
        <4>1. CASE i <= start_line
          BY <1>3, <3>2, <3>4, <4>1 DEF NoEmptyLine
        <4>2. CASE i > start_line /\ i <= p
          <5>1. i \in start_line + 1 .. p - 1 \/ i = p
            BY <1>3, <3>4, <4>2
          <5>2. QED
            BY <1>1, <3>4, <5>1 DEF LineAt, Quiet
        <4>3. CASE i = p + 1
          <5>1. i - 2 \in start_line + 1 .. p - 1
            BY <1>3, <3>3, <4>3
          <5>2. QED
            BY <1>1, <3>4, <5>1 DEF LineAt, Quiet
        <4>4. QED
          BY <1>3, <3>4, <4>1, <4>2, <4>3
      <3>5. QED
        BY <1>3, <3>2, <3>4 DEF NoEmptyLine
    <2>3. QED
      BY <2>1, <2>2
  <1>5. DemoTypes' /\ DemoHead'
    BY <1>2, <1>3, <1>4, DemoContentIs DEF DemoTypes, DemoHead
  <1>6. DemoLines'
    <2>1. Paired(buffer, p + 1) /\ buffer[p + 1] = "LF" /\ Quiet(buffer, p + 1 + 1, p + 1)
      BY <1>1, <1>3 DEF LineAt, Quiet
    <2>2. QED
      BY <1>2, <1>4, <2>1 DEF DemoLines
  <1>7. QED
    BY <1>2, <1>5, <1>6 DEF DemoInv

LEMMA DemoBadLineStep ==
    ASSUME InDemoContent, Demo!RequestLineBad
    PROVE  DemoInv'
  <1>1. PICK p \in Nat : LineAt(p)
    BY LineIsAt DEF TakesLine
  <1>2. demo_pc' = "closed" /\ retcode' = "BAD_REQUEST" /\ buffer' = buffer
    BY DEF Demo!RequestLineBad, Demo!Return
  <1>3. checkstate = "REQUESTLINE" /\ Demo!temp # <<"get">>
    BY DEF Demo!RequestLineBad, Demo!Ok
  <1>4. start_line = 0
    BY <1>3, DemoContentIs DEF DemoHead
  <1>5. p \in 1..Len(buffer) - 1 /\ Len(buffer) \in Nat
    BY <1>1, <1>4, DemoContentIs DEF LineAt
  <1>6. \A j \in Invalid(buffer) : p + 1 < j
    <2>1. p + 1 \in 0..Len(buffer) /\ p + 1 \in p + 1 .. Len(buffer)
      BY <1>5
    <2>2. Paired(buffer, p + 1) /\ Quiet(buffer, p + 1 + 1, p + 1)
      BY <1>1, <1>5 DEF LineAt, Quiet
    <2>3. QED
      BY <2>1, <2>2, DemoContentIs, GoneOver
  <1>7. p + 1 < 3 \/ buffer[3] # "LF" \/ buffer[1] # "get"
    <2>1. CASE p = 2
      BY <1>1, <1>3, <1>4, <2>1, TempIs
    <2>2. CASE p > 2
      <3>1. 3 \in 1..p - 1 \/ p = 3
        BY <1>5, <2>2
      <3>2. QED
        BY <1>1, <1>4, <3>1 DEF LineAt, Quiet
    <2>3. QED
      BY <1>5, <2>1, <2>2
  <1>8. Expected(buffer) = "BAD_REQUEST"
    <2>1. p + 1 \in 1..Len(buffer) /\ buffer[p + 1] = "LF"
      BY <1>1, <1>5 DEF LineAt
    <2>2. QED
      BY <1>6, <1>7, <2>1, DemoContentIs, ExpectedClosed
  <1>9. QED
    BY <1>2, <1>8 DEF DemoInv

LEMMA DemoEndStep ==
    ASSUME InDemoContent, Demo!HeadersEnd
    PROVE  DemoInv'
  <1>1. PICK p \in Nat : LineAt(p)
    BY LineIsAt DEF TakesLine
  <1>2. demo_pc' = "closed" /\ retcode' = "GET_REQUEST" /\ buffer' = buffer
    BY DEF Demo!HeadersEnd, Demo!Return
  <1>3. checkstate = "HEADER" /\ Demo!temp = <<>>
    BY DEF Demo!HeadersEnd, Demo!Ok
  <1>4. start_line >= 3 /\ buffer[1] = "get" /\ buffer[3] = "LF" /\ buffer[start_line] = "LF"
    BY <1>3, DemoContentIs DEF DemoHead
  <1>5. p = start_line + 1
    BY <1>1, <1>3, TempIs
  <1>6. p \in 4..Len(buffer) - 1 /\ Len(buffer) \in Nat /\ p + 1 - 2 = start_line
    BY <1>1, <1>4, <1>5, DemoContentIs DEF LineAt
  <1>7. \A j \in Invalid(buffer) : p + 1 < j
    <2>1. p + 1 \in 0..Len(buffer) /\ p + 1 \in p + 1 .. Len(buffer)
      BY <1>6
    <2>2. Paired(buffer, p + 1) /\ Quiet(buffer, p + 1 + 1, p + 1)
      BY <1>1, <1>6 DEF LineAt, Quiet
    <2>3. QED
      BY <2>1, <2>2, DemoContentIs, GoneOver
  <1>8. Expected(buffer) = "GET_REQUEST"
    <2>1. p + 1 \in 1..Len(buffer) /\ buffer[p + 1] = "LF" /\ p + 1 >= 3
      BY <1>1, <1>6 DEF LineAt
    <2>2. buffer[p + 1 - 2] = "LF"
      BY <1>4, <1>6
    <2>3. QED
      BY <1>4, <1>7, <2>1, <2>2, DemoContentIs, ExpectedClosed
  <1>9. QED
    BY <1>2, <1>8 DEF DemoInv

LEMMA DemoStep ==
    ASSUME DemoInv, Demo!parse_content
    PROVE  DemoInv'
  <1>1. InDemoContent
    BY DEF InDemoContent, Demo!parse_content, Demo!Open, Demo!Bad, Demo!RequestLine,
           Demo!RequestLineBad, Demo!Header, Demo!HeadersEnd, Demo!Ok, Demo!Return
  <1>2. QED
    BY <1>1, DemoOpenStep, DemoBadStep, DemoLineStep, DemoBadLineStep, DemoEndStep
    DEF Demo!parse_content

\* All that has been received is lines and the start of one.
LEMMA RecvVerdict == DemoInv => SameVerdict
  <1> SUFFICES ASSUME DemoInv, demo_pc = "recv" PROVE retcode = Expected(buffer)
    BY DEF DemoInv, SameVerdict
  <1>1. DemoTypes /\ DemoLines /\ DemoHead /\ DemoAll
    BY DEF DemoInv
  <1>2. /\ buffer \in Seq(Tokens) /\ Len(buffer) \in Nat
        /\ checked_index \in start_line .. Len(buffer)
        /\ start_line \in 0..Len(buffer) /\ retcode = "NO_REQUEST"
        /\ Paired(buffer, start_line)
        /\ Quiet(buffer, start_line + 1, checked_index)
    BY <1>1 DEF DemoTypes, DemoLines
  <1>3. \A j \in Invalid(buffer) : checked_index < j
    BY <1>2, GoneOver
  <1>4. Invalid(buffer) = {}
    <2>1. SUFFICES ASSUME NEW j \in Invalid(buffer) PROVE FALSE
      OBVIOUS
    <2>2. j \in 1..Len(buffer) /\ checked_index < j
      BY <1>3, InvalidIs, <1>2
    <2>3. j = Len(buffer) /\ buffer[j] = "CR"
      BY <1>1, <1>2, <2>2 DEF DemoAll
    <2>4. QED
      BY <1>2, <2>1, <2>3 DEF Invalid
  <1>5. ValidUpTo(buffer, Len(buffer))
    BY <1>4 DEF ValidUpTo
  <1>6. /\ Quiet(buffer, start_line + 1, Len(buffer) - 1)
        /\ Len(buffer) = start_line \/ buffer[Len(buffer)] # "LF"
    BY <1>1, <1>2 DEF DemoAll, Quiet
  <1>7. \/ start_line = 0
        \/ /\ start_line >= 3 /\ buffer[1] = "get" /\ buffer[3] = "LF"
           /\ NoEmptyLine(buffer, start_line)
    BY <1>1 DEF DemoHead
  <1>8. Len(buffer) \in start_line .. Len(buffer)
    BY <1>2
  <1>9. QED
    BY <1>2, <1>4, <1>5, <1>6, <1>7, <1>8, ExpectedOpen

\* What was gone over is not moved by what arrives behind it.
LEMMA DemoRecvStep ==
    ASSUME DemoInv, NEW arrived \in Seq(Tokens), Demo!Recv(arrived)
    PROVE  DemoInv'
  <1>1. PICK k \in 1..Len(arrived) :
            /\ buffer' = buffer \o SubSeq(arrived, 1, k)
            /\ demo_pc = "recv" /\ demo_pc' = "parse_content"
            /\ UNCHANGED <<checked_index, start_line, checkstate, retcode>>
    <2> DEFINE room == BUFFER_SIZE - Demo!read_index
               taken == IF Len(arrived) <= room THEN Len(arrived) ELSE room
    <2>1. taken \in 1..Len(arrived)
      BY TwoParsersAssumption DEF Demo!Recv, Demo!read_index, DemoInv, DemoTypes
    <2>2. QED
      BY <2>1 DEF Demo!Recv
  <1>2. DemoTypes /\ DemoLines /\ DemoHead
    BY <1>1 DEF DemoInv
  <1>3. buffer \in Seq(Tokens) /\ Len(buffer) \in Nat
    BY <1>2 DEF DemoTypes
  <1>4. PICK x \in Seq(Tokens) : buffer' = buffer \o x
    <2>1. SubSeq(arrived, 1, k) \in Seq(Tokens)
      BY <1>1
    <2>2. QED
      BY <1>1, <2>1
  <1>5. /\ buffer' \in Seq(Tokens) /\ Len(buffer') \in Nat /\ Len(buffer') >= Len(buffer)
        /\ \A i \in 1..Len(buffer) : buffer'[i] = buffer[i]
    BY <1>3, <1>4
  <1>6. DemoTypes'
    BY <1>1, <1>2, <1>3, <1>5 DEF DemoTypes
  <1>7. /\ start_line \in Nat /\ checked_index \in Nat /\ start_line <= checked_index
        /\ checked_index <= Len(buffer)
    BY <1>2 DEF DemoTypes
  <1>8. DemoLines'
    <2>1. Paired(buffer', start_line)
      <3>1. \A i \in 1..start_line : i \in 1..Len(buffer)
        BY <1>3, <1>7
      <3>2. \A i \in 1..start_line : i < start_line => i + 1 \in 1..Len(buffer)
        BY <1>3, <1>7
      <3>3. \A i \in 1..start_line : i > 1 => i - 1 \in 1..Len(buffer)
        BY <1>3, <1>7
      <3>4. QED
        BY <1>2, <1>5, <3>1, <3>2, <3>3 DEF DemoLines, Paired
    <2>2. start_line # 0 => start_line >= 2 /\ buffer'[start_line] = "LF"
      BY <1>2, <1>3, <1>5, <1>7 DEF DemoLines
    <2>3. Quiet(buffer', start_line + 1, checked_index)
      BY <1>2, <1>3, <1>5, <1>7 DEF DemoLines, Quiet
    <2>4. QED
      BY <1>1, <2>1, <2>2, <2>3 DEF DemoLines
  <1>9. DemoHead'
    <2>1. CASE checkstate = "REQUESTLINE" /\ start_line = 0
      BY <1>1, <2>1 DEF DemoHead
    <2>2. CASE ~(checkstate = "REQUESTLINE" /\ start_line = 0)
      <3>1. /\ checkstate = "HEADER" /\ start_line >= 3
            /\ buffer[1] = "get" /\ buffer[3] = "LF" /\ NoEmptyLine(buffer, start_line)
        BY <1>2, <2>2 DEF DemoHead
      <3>2. buffer'[1] = "get" /\ buffer'[3] = "LF"
        BY <1>3, <1>5, <1>7, <3>1
      <3>3. NoEmptyLine(buffer', start_line)
        <4>1. \A i \in 3..start_line : i \in 1..Len(buffer) /\ i - 2 \in 1..Len(buffer)
          BY <1>3, <1>7
        <4>2. QED
          BY <1>5, <3>1, <4>1 DEF NoEmptyLine
      <3>4. QED
        BY <1>1, <3>1, <3>2, <3>3 DEF DemoHead
    <2>3. QED
      BY <2>1, <2>2
  <1>10. QED
    BY <1>1, <1>6, <1>8, <1>9 DEF DemoInv

LEMMA DemoRecvFullStep ==
    ASSUME DemoInv, NEW arrived, Demo!RecvFull(arrived)
    PROVE  DemoInv'
  <1>1. demo_pc = "recv" /\ demo_pc' = "closed" /\ UNCHANGED <<buffer, retcode>>
    BY DEF Demo!RecvFull
  <1>2. retcode = Expected(buffer)
    BY <1>1, RecvVerdict DEF SameVerdict
  <1>3. QED
    BY <1>1, <1>2 DEF DemoInv

\* Only read() takes the parser from "wait" into process_read.
LEMMA ReadingReads ==
    ASSUME Next, Reading
    PROVE  \E k \in 1..Len(message) : Read(k)
  <1>1. pc = "wait" /\ pc' = "while"
    BY DEF Reading
  <1>2. ~(LineOk \/ LineOkLetter \/ LineBad \/ LineOpen \/ ExpectBody)
    BY <1>1 DEF LineOk, LineOkLetter, LineBad, LineOpen, ExpectBody, AtParseLine
  <1>3. ~(RequestLineOk \/ RequestLineBad \/ Header \/ HeaderEnd \/ ContentWhole
        \/ ContentOpen \/ ContentUndefined \/ Answer)
    BY <1>1 DEF RequestLineOk, RequestLineBad, Header, HeaderEnd, ContentWhole,
                ContentOpen, ContentUndefined, Switch, Answer
  <1>4. \A k : ~ReadFull(k)
    BY <1>1 DEF ReadFull
  <1>5. QED
    BY <1>2, <1>3, <1>4 DEF Next, ProcessRead

LEMMA ArrivedIs ==
    ASSUME TypeOK, Next, Reading
    PROVE  Arrived \in Seq(Tokens)
  <1>1. PICK k \in 1..Len(message) : Read(k)
    BY ReadingReads
  <1>2. PICK n \in Nat : n = Len(m_read_buf)
    BY DEF TypeOK
  <1>3. message \in Seq(Tokens) /\ Len(message) \in Nat /\ k \in 1..(Len(message) - n)
    BY <1>1, <1>2, MessageIs DEF Read, Arriving, m_read_idx
  <1>4. Len(m_read_buf') = n + k
    <2>1. SubSeq(message, n + 1, n + k) \in Seq(Tokens \cup {"NUL"})
      <3>1. message \in Seq(Tokens \cup {"NUL"})
        BY <1>3
      <3>2. QED
        BY <1>2, <1>3, <3>1
    <2>2. Len(SubSeq(message, n + 1, n + k)) = k
      BY <1>2, <1>3
    <2>3. m_read_buf' = m_read_buf \o SubSeq(message, n + 1, n + k)
      BY <1>1, <1>2 DEF Read, m_read_idx
    <2>4. PICK x \in Seq(Tokens \cup {"NUL"}) : m_read_buf' = m_read_buf \o x /\ Len(x) = k
      BY <2>1, <2>2, <2>3
    <2>5. m_read_buf \in Seq(Tokens \cup {"NUL"})
      BY DEF TypeOK
    <2>6. Len(m_read_buf \o x) = Len(m_read_buf) + Len(x)
      BY <2>5
    <2>7. QED
      BY <1>2, <2>4, <2>6
  <1>5. Arrived = SubSeq(message, n + 1, n + k)
    BY <1>2, <1>4 DEF Arrived, m_read_idx
  <1>6. QED
    BY <1>2, <1>3, <1>5

TwoInv == TypeOK /\ DemoInv

LEMMA TwoInitially == TwoInit => TwoInv
  <1> SUFFICES ASSUME TwoInit PROVE TwoInv
    OBVIOUS
  <1>1. TypeOK
    BY TypesInit DEF TwoInit
  <1>2. /\ buffer = <<>> /\ checked_index = 0 /\ start_line = 0
        /\ checkstate = "REQUESTLINE" /\ retcode = "NO_REQUEST" /\ demo_pc = "recv"
    BY DEF TwoInit, Demo!Init
  <1>3. buffer \in Seq(Tokens) /\ Len(buffer) = 0
    BY <1>2
  <1>4. DemoTypes /\ DemoLines /\ DemoHead /\ DemoAll
    BY <1>2, <1>3 DEF DemoTypes, DemoLines, DemoHead, DemoAll, Paired, Quiet
  <1>5. QED
    BY <1>1, <1>2, <1>4 DEF TwoInv, DemoInv

LEMMA TwoStep == TwoInv /\ [TwoNext]_<<vars, demoVars>> => TwoInv'
  <1> SUFFICES ASSUME TwoInv, [TwoNext]_<<vars, demoVars>> PROVE TwoInv'
    OBVIOUS
  <1>1. TypeOK /\ DemoInv
    BY DEF TwoInv
  <1>2. [Next]_vars
    BY DEF TwoNext, GoOn
  <1>3. TypeOK'
    BY <1>1, <1>2, TypesStep
  <1>4. ASSUME UNCHANGED demoVars PROVE DemoInv'
    BY <1>1, <1>4 DEF demoVars, DemoInv, DemoTypes, DemoLines, DemoHead, DemoAll
  <1>5. ASSUME Next, Reading, Demo!Recv(Arrived) \/ Demo!RecvFull(Arrived)
        PROVE  DemoInv'
    BY <1>1, <1>5, ArrivedIs, DemoRecvStep, DemoRecvFullStep
  <1>6. ASSUME GoOn PROVE DemoInv'
    BY <1>1, <1>6, DemoStep, DemoRecvFullStep DEF GoOn
  <1>7. DemoInv'
    BY <1>4, <1>5, <1>6 DEF TwoNext, Follow, demoVars
  <1>8. QED
    BY <1>3, <1>7 DEF TwoInv

\* However a request is cut, the program of 8_3.cpp and the server's reference give
\* the same verdict on its lines: neither misses, repeats or glues together lines
\* at a cut, whatever the size of the program's buffer (8_3.cpp:39, 8_3.cpp:134).
THEOREM SameVerdictInvariance == TwoSpec => []SameVerdict
  <1>1. TwoInv => SameVerdict
    BY RecvVerdict DEF TwoInv
  <1>2. QED
    BY <1>1, TwoInitially, TwoStep, PTL DEF TwoSpec
=============================================================================
