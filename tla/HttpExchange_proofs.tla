-------------------------- MODULE HttpExchange_proofs --------------------------
(***************************************************************************)
(* Proofs about HttpExchange, for any requests, any size of the buffer,    *)
(* any number of attempts to read, and answers of any length.              *)
(***************************************************************************)
EXTENDS HttpExchange, SequenceTheorems, TLAPS

Cells  == {"m_write_buf", "m_file_address"} \X Int
Pieces == [base : {"m_write_buf", "m_file_address"}, at : Int, len : Nat]

(* How the length of what has been read runs behind the bytes received:    *)
(* one for each EAGAIN but the last.                                       *)
Reading ==
    /\ filled <= Received /\ (~garbled => filled = Received)
    /\ pc = "read" => /\ result = "none"
                      /\ tried_times \in 1..TriedTimes
                      /\ m_read_idx = Received - (TriedTimes - tried_times)
    /\ pc = "parse" => result = "none"
    /\ pc = "parse" \/ result # "none" => m_read_idx = Received - (TriedTimes - 1)

(* The result is the one of the buffer, which nobody has touched since.    *)
Judged == result # "none" /\ Followed =>
              IF ParseOk THEN result \in Looked(target) ELSE result = "format"

Answering == result \notin {"none", "crash"}
Whole == HeadBytes + (IF result = "finished" THEN FileBytes ELSE 0)

(* The answer is counted, and what writev is given is the rest of it.      *)
Sending ==
    /\ ~Answering => answer = << >> /\ bytes_have_send = 0 /\ bytes_to_send = 0
                     /\ ~partial /\ pc # "write"
    /\ Answering => m_iv_count = IF result = "finished" THEN 2 ELSE 1
    /\ m_iv[1].len <= HeadBytes
    /\ pc = "write" => bytes_to_send > 0
    /\ Answering /\ m_type = "HTTP_CLIENT" /\ ~cut /\ ~repeated =>
           /\ bytes_to_send = Whole - bytes_have_send /\ bytes_to_send >= 0
           /\ Len(answer) = bytes_have_send
           /\ \A i \in 1..bytes_have_send : answer[i] = Response[i]
           /\ pc = "write" /\ ~partial =>
                  /\ Len(Gathered) = bytes_to_send
                  /\ \A i \in 1..bytes_to_send : Gathered[i] = Response[bytes_have_send + i]

(* The head has been sent and what writev is given is behind it.           *)
AtRest ==
    /\ TypeOK /\ result = "finished" /\ m_iv_count = 2
    /\ bytes_have_send >= HeadBytes /\ bytes_to_send = Whole - bytes_have_send
    /\ bytes_to_send >= 0 /\ m_iv[1].len = 0
    /\ m_iv[2] = Piece("m_file_address", bytes_have_send - HeadBytes, bytes_to_send)

RestSent ==
    /\ Len(Gathered) = bytes_to_send
    /\ \A i \in 1..bytes_to_send : Gathered[i] = Response[bytes_have_send + i]

(* What is to be sent: the head, and behind it the file if there is one.   *)
ResponseShape ==
    /\ Response \in Seq(Cells) /\ Len(Response) = Whole /\ Whole \in Nat \ {0}
    /\ \A i \in 1..Whole :
           Response[i] = IF i <= HeadBytes THEN <<"m_write_buf", i - 1>>
                         ELSE <<"m_file_address", (i - HeadBytes) - 1>>

(* To an HTTPS client the answer is counted when SSL has sent all of it.   *)
(* Until then what SSL has encrypted is the beginning of the response, and *)
(* what it is given the rest: m_iv is pointed elsewhere only for the head, *)
(* and only after the head has been encrypted.                             *)
Encrypting ==
    /\ ~Answering => encrypted = << >>
    /\ Answering /\ m_type = "HTTPS_CLIENT" =>
           /\ Len(answer) <= Whole /\ \A i \in 1..Len(answer) : answer[i] = Response[i]
           /\ bytes_to_send <= 0 => Len(answer) = Whole
           /\ pc = "write" =>
                  /\ bytes_have_send = 0 /\ bytes_to_send = Whole
                  /\ Len(answer) <= Len(encrypted) /\ Len(encrypted) <= Whole
                  /\ \A i \in 1..Len(encrypted) : encrypted[i] = Response[i]
                  /\ m_iv[1].len = HeadBytes
                  /\ m_iv_count = 2 => m_iv[2] = File
                  /\ m_iv[1] = Header \/ HeadBytes <= Len(encrypted)

IInv == TypeOK /\ Reading /\ Judged /\ Sending /\ Encrypting

-------------------------------------------------------------------------------
(* Requests and pieces of memory.                                          *)

(* The lines of a request lie in its head.                                 *)
LEMMA RequestFacts ==
    ASSUME NEW r \in Requests
    PROVE  /\ Len(r.lines) \in Nat /\ Len(r.lines) >= 2
           /\ DOMAIN r.lines = 1..Len(r.lines)
           /\ \A i \in 1..Len(r.lines) : /\ r.lines[i].end \in Nat \ {0}
                                         /\ r.lines[i].end <= HeadLength(r)
                                         /\ r.lines[i].is = "blank" <=> i = Len(r.lines)
                                         /\ Length(r, i) \in Nat
           /\ HeadLength(r) \in Nat \ {0}
           /\ r.length \in Nat /\ r.body \in Nat
           /\ Size(r) \in Nat /\ Size(r) >= HeadLength(r)
<1>1. IsRequest(r)
    BY ExchangeAssumption
<1>2. /\ r.lines \in Seq([is : Lines, end : Nat \ {0}])
      /\ Len(r.lines) >= 2 /\ r.length \in Nat /\ r.body \in Nat
      /\ \A i \in DOMAIN r.lines : r.lines[i].is = "blank" <=> i = Len(r.lines)
      /\ \A i \in DOMAIN r.lines : \A j \in 1..(i - 1) : r.lines[j].end < r.lines[i].end
    BY <1>1 DEF IsRequest
<1>3. /\ Len(r.lines) \in Nat /\ DOMAIN r.lines = 1..Len(r.lines)
      /\ r.lines \in [1..Len(r.lines) -> [is : Lines, end : Nat \ {0}]]
    BY <1>2, LenProperties
<1>4. \A i \in 1..Len(r.lines) : r.lines[i].end \in Nat \ {0}
    BY <1>2, <1>3
<1>5. HeadLength(r) \in Nat \ {0}
    BY <1>2, <1>3, <1>4 DEF HeadLength
<1>6. \A i \in 1..Len(r.lines) : r.lines[i].end <= HeadLength(r)
  <2> TAKE i \in 1..Len(r.lines)
  <2>1. CASE i = Len(r.lines)
      BY <1>4, <1>5, <2>1 DEF HeadLength
  <2>2. CASE i # Len(r.lines)
    <3>1. i \in 1..(Len(r.lines) - 1) /\ Len(r.lines) \in DOMAIN r.lines
        BY <1>2, <1>3, <2>2
    <3>2. r.lines[i].end < r.lines[Len(r.lines)].end
        BY <1>2, <3>1
    <3> QED BY <1>4, <1>5, <3>2 DEF HeadLength
  <2> QED BY <2>1, <2>2
<1>7. \A i \in 1..Len(r.lines) : Length(r, i) \in Nat
  <2> TAKE i \in 1..Len(r.lines)
  <2>1. CASE i = 1
      BY <1>4, <2>1 DEF Length
  <2>2. CASE i # 1
    <3>1. i - 1 \in 1..(i - 1) /\ i - 1 \in 1..Len(r.lines) /\ i \in DOMAIN r.lines
        BY <1>3, <2>2
    <3>2. r.lines[i - 1].end < r.lines[i].end
        BY <1>2, <3>1
    <3> QED BY <1>4, <2>2, <3>1, <3>2 DEF Length
  <2> QED BY <2>1, <2>2
<1>8. Size(r) \in Nat /\ Size(r) >= HeadLength(r)
    BY <1>2, <1>5 DEF Size
<1> QED BY <1>2, <1>3, <1>4, <1>5, <1>6, <1>7, <1>8

(* The bytes of a piece, one by one.                                       *)
LEMMA BytesOf ==
    ASSUME NEW p \in Pieces
    PROVE  /\ Bytes(p) \in Seq(Cells) /\ Len(Bytes(p)) = p.len
           /\ \A i \in 1..p.len : Bytes(p)[i] = <<p.base, p.at + i - 1>>
<1>1. p.len \in Nat /\ p.at \in Int
    BY DEF Pieces
<1>2. \A i \in 1..p.len : <<p.base, p.at + i - 1>> \in Cells
    BY <1>1 DEF Pieces, Cells
<1>3. Bytes(p) \in [1..p.len -> Cells]
    BY <1>2 DEF Bytes
<1>4. Bytes(p) \in Seq(Cells) /\ Len(Bytes(p)) = p.len
    BY <1>1, <1>3, IsASeq
<1> QED BY <1>4 DEF Bytes

(* Two pieces one behind the other.                                        *)
LEMMA TwoPieces ==
    ASSUME NEW p \in Pieces, NEW q \in Pieces
    PROVE  /\ Bytes(p) \o Bytes(q) \in Seq(Cells)
           /\ Len(Bytes(p) \o Bytes(q)) = p.len + q.len
           /\ \A i \in 1..(p.len + q.len) :
                  (Bytes(p) \o Bytes(q))[i] =
                      IF i <= p.len THEN <<p.base, p.at + i - 1>>
                      ELSE <<q.base, q.at + (i - p.len) - 1>>
<1>1. p.len \in Nat /\ q.len \in Nat /\ p.at \in Int /\ q.at \in Int
    BY DEF Pieces
<1>2. /\ Bytes(p) \o Bytes(q) \in Seq(Cells)
      /\ Len(Bytes(p) \o Bytes(q)) = p.len + q.len
      /\ \A i \in 1..(p.len + q.len) :
             (Bytes(p) \o Bytes(q))[i] = IF i <= p.len THEN Bytes(p)[i] ELSE Bytes(q)[i - p.len]
  <2>1. /\ Bytes(p) \in Seq(Cells) /\ Len(Bytes(p)) = p.len
        /\ Bytes(q) \in Seq(Cells) /\ Len(Bytes(q)) = q.len
      BY BytesOf
  <2>2. /\ Bytes(p) \o Bytes(q) \in Seq(Cells)
        /\ Len(Bytes(p) \o Bytes(q)) = Len(Bytes(p)) + Len(Bytes(q))
        /\ \A i \in 1..(Len(Bytes(p)) + Len(Bytes(q))) :
               (Bytes(p) \o Bytes(q))[i] = IF i <= Len(Bytes(p)) THEN Bytes(p)[i]
                                           ELSE Bytes(q)[i - Len(Bytes(p))]
      BY <2>1, ConcatProperties
  <2> QED BY <2>1, <2>2
<1>3. ASSUME NEW i \in 1..(p.len + q.len)
      PROVE  (Bytes(p) \o Bytes(q))[i] =
                 IF i <= p.len THEN <<p.base, p.at + i - 1>>
                 ELSE <<q.base, q.at + (i - p.len) - 1>>
  <2>1. CASE i <= p.len
    <3>1. i \in 1..p.len
        BY <1>1, <2>1
    <3> QED BY <1>2, <2>1, <3>1, BytesOf
  <2>2. CASE ~(i <= p.len)
    <3>1. i - p.len \in 1..q.len
        BY <1>1, <2>2
    <3>2. Bytes(q)[i - p.len] = <<q.base, q.at + (i - p.len) - 1>>
        BY <3>1, BytesOf
    <3> QED BY <1>2, <2>2, <3>2
  <2> QED BY <2>1, <2>2
<1> QED BY <1>2, <1>3

(* The answer: the head, and the file behind it if there is one.           *)
LEMMA ResponseIs == ResponseShape
<1> USE DEF ResponseShape
<1>1. HeadBytes \in Nat \ {0} /\ FileBytes \in Nat \ {0}
    BY ExchangeAssumption
<1>2. /\ Header \in Pieces /\ File \in Pieces
      /\ Header.len = HeadBytes /\ Header.at = 0 /\ Header.base = "m_write_buf"
      /\ File.len = FileBytes /\ File.at = 0 /\ File.base = "m_file_address"
    BY <1>1 DEF Header, File, Piece, Pieces
<1>3. CASE result = "finished"
  <2>1. Response = Bytes(Header) \o Bytes(File) /\ Whole = HeadBytes + FileBytes
      BY <1>3 DEF Response, Whole
  <2>2. /\ Response \in Seq(Cells)
        /\ Len(Response) = HeadBytes + FileBytes
        /\ \A i \in 1..(HeadBytes + FileBytes) :
               Response[i] = IF i <= HeadBytes THEN <<"m_write_buf", 0 + i - 1>>
                             ELSE <<"m_file_address", 0 + (i - HeadBytes) - 1>>
      BY <1>2, <2>1, TwoPieces
  <2>3. \A i \in Int : 0 + i - 1 = i - 1 /\ 0 + (i - HeadBytes) - 1 = (i - HeadBytes) - 1
      BY <1>1
  <2> QED BY <1>1, <2>1, <2>2, <2>3
<1>4. CASE result # "finished"
  <2>1. Response = Bytes(Header) \o << >> /\ Whole = HeadBytes
      BY <1>4, <1>1 DEF Response, Whole
  <2>2. Response = Bytes(Header)
      BY <1>2, <2>1, BytesOf, ConcatEmptySeq
  <2> QED BY <1>1, <1>2, <2>1, <2>2, BytesOf
<1> QED BY <1>3, <1>4

-------------------------------------------------------------------------------
(* Steps that leave the buffer, or the answer, alone.                      *)

LEMMA Sizes == /\ READ_BUFFER_SIZE \in Nat \ {0} /\ TriedTimes \in Nat \ {0}
               /\ HeadBytes \in Nat \ {0} /\ FileBytes \in Nat \ {0}
BY ExchangeAssumption

LEMMA BufferStays ==
    ASSUME UNCHANGED <<request, m_read_idx, filled, garbled>>
    PROVE  /\ (ParseOk <=> ParseOk') /\ (Followed <=> Followed')
           /\ \A t : Looked(t)' = Looked(t)
<1>1. (ParseOk <=> ParseOk') /\ \A t : Looked(t)' = Looked(t)
    BY DEF ParseOk, Looked, CheckForm, IsParsed, Parsed, LineOk, ContentOk, HeadLength
<1>2. Followed <=> Followed'
    BY DEF Followed, HeadInPlace, HeadLength, LineOk, Length
<1> QED BY <1>1, <1>2

LEMMA JudgedStays ==
    ASSUME Judged, UNCHANGED <<request, target, m_read_idx, filled, garbled, result>>
    PROVE  Judged'
<1>1. (ParseOk <=> ParseOk') /\ (Followed <=> Followed') /\ Looked(target)' = Looked(target)
    BY BufferStays DEF Looked, CheckForm, IsParsed, Parsed, LineOk, HeadLength
<1> QED BY <1>1 DEF Judged

(* What has been received is what the client has sent and the socket does  *)
(* not hold.                                                               *)
LEMMA ReceivedIs == TypeOK => Received \in Nat /\ Received + inbox + unsent = Size(request)
<1> SUFFICES ASSUME TypeOK
             PROVE  Received \in Nat /\ Received + inbox + unsent = Size(request)
    OBVIOUS
<1>1. unsent \in Nat /\ inbox \in Nat /\ unsent + inbox <= Size(request) /\ request \in Requests
    BY DEF TypeOK
<1>2. Size(request) \in Nat
    BY <1>1, RequestFacts
<1> QED BY <1>1, <1>2 DEF Received

LEMMA ReadingStays ==
    ASSUME Reading, UNCHANGED readVars, Received' = Received,
           \/ UNCHANGED <<pc, result>>
           \/ (result # "none" \/ pc = "parse") /\ pc' \notin {"read", "parse"}
    PROVE  Reading'
BY DEF Reading, readVars

LEMMA SendingStays ==
    ASSUME Sending, Encrypting, UNCHANGED <<m_type, result, sendVars>>,
           pc' = "write" => pc = "write"
    PROVE  Sending' /\ Encrypting'
<1>1. Response' = Response /\ Gathered' = Gathered /\ Whole' = Whole
    BY DEF sendVars, Response, Gathered, Whole
<1>2. Sending'
    BY <1>1 DEF Sending, Answering, sendVars
<1>3. Encrypting'
    BY <1>1 DEF Encrypting, Answering, sendVars
<1> QED BY <1>2, <1>3

(* Before there is a result nothing is judged and nothing is sent.         *)
LEMMA NoResultYet ==
    ASSUME Sending, Encrypting, result = "none", UNCHANGED <<m_type, result, sendVars>>,
           pc' # "write"
    PROVE  Judged' /\ Sending' /\ Encrypting'
BY SendingStays DEF Judged

LEMMA InvInit == Init => IInv
<1> SUFFICES ASSUME Init PROVE IInv
    OBVIOUS
<1>1. Size(request) \in Nat
    BY RequestFacts DEF Init
<1>2. Nothing \in Pieces /\ Nothing.len = 0
    BY DEF Nothing, Piece, Pieces
<1>3. m_iv \in [1..2 -> Pieces] /\ m_iv[1].len = 0
    BY <1>2 DEF Init
<1>4. answer \in Seq(Cells) /\ encrypted \in Seq(Cells)
    BY EmptySeq DEF Init
<1>5. TypeOK
  <2>1. unsent \in Nat /\ inbox \in Nat /\ unsent + inbox <= Size(request)
      BY <1>1 DEF Init
  <2>2. /\ m_read_idx \in (1 - TriedTimes)..READ_BUFFER_SIZE
        /\ tried_times \in 0..TriedTimes /\ filled \in 0..READ_BUFFER_SIZE
      BY Sizes DEF Init
  <2>3. {garbled, m_linger, cut, repeated, partial} \subseteq BOOLEAN
      BY Zenon DEF Init
  <2>4. /\ bytes_have_send \in Nat /\ bytes_to_send \in Int /\ m_iv_count \in 0..2
        /\ request \in Requests /\ target = "unknown" /\ result = "none"
        /\ peer = "open" /\ pc = "read" /\ m_type \in {"HTTP_CLIENT", "HTTPS_CLIENT"}
      BY DEF Init
  <2> QED BY <1>3, <1>4, <2>1, <2>2, <2>3, <2>4 DEF TypeOK, Pieces, Cells
<1>6. Reading /\ Judged
  <2>1. Received = 0
      BY <1>1 DEF Init, Received
  <2> QED BY <2>1, Sizes DEF Init, Reading, Judged
<1>7. Sending /\ Encrypting
    BY <1>3, Sizes DEF Init, Sending, Encrypting, Answering
<1> QED BY <1>5, <1>6, <1>7 DEF IInv

(* Steps of the writing.                                                   *)
LEMMA WritingKeepsReading ==
    ASSUME TypeOK, Reading, Sending, pc = "write", UNCHANGED <<clientVars, readVars, result>>,
           pc' \in {"write", "kept", "closed"}
    PROVE  Reading'
<1>1. result # "none"
    BY DEF Sending, Answering
<1>2. Received' = Received
    BY DEF clientVars, Received, Size, HeadLength
<1> QED BY <1>1, <1>2, ReadingStays DEF TypeOK

-------------------------------------------------------------------------------
(* The client sends and leaves, read_() receives.                          *)

LEMMA InvClient == IInv /\ Client => IInv'
<1> SUFFICES ASSUME IInv, Client PROVE IInv'
    OBVIOUS
<1>1. UNCHANGED <<m_type, request, target, pc, readVars, result, m_linger, sendVars>>
    BY DEF Client, Send, Leave
<1>2. Judged' /\ Sending' /\ Encrypting'
    BY <1>1, JudgedStays, SendingStays DEF IInv, readVars
<1>3. /\ unsent' + inbox' = unsent + inbox
      /\ unsent' \in Nat /\ inbox' \in Nat /\ peer' \in {"open", "shut", "gone"}
  <2>1. unsent \in Nat /\ inbox \in Nat
      BY DEF IInv, TypeOK
  <2> QED BY SMTT(30), <2>1 DEF Client, Send, Leave, IInv, TypeOK
<1>4. Reading'
  <2>1. Size(request)' = Size(request) /\ Size(request) \in Nat
      BY <1>1, RequestFacts DEF Size, HeadLength, IInv, TypeOK
  <2>2. unsent \in Nat /\ inbox \in Nat
      BY DEF IInv, TypeOK
  <2>3. Received' = Received
    <3>1. CASE \E n \in 1..unsent : Send(n)
      <4>1. PICK n \in 1..unsent : unsent' = unsent - n /\ inbox' = inbox + n
          BY <3>1 DEF Send
      <4> QED BY <2>1, <2>2, <4>1 DEF Received
    <3>2. CASE Leave("shut") \/ Leave("gone")
        BY <2>1, <3>2 DEF Leave, Received
    <3> QED BY <3>1, <3>2 DEF Client
  <2> QED BY <1>1, <2>3, ReadingStays DEF IInv
<1>5. TypeOK'
    BY <1>1, <1>3 DEF IInv, TypeOK, readVars, sendVars, Size, HeadLength
<1> QED BY <1>2, <1>4, <1>5 DEF IInv

LEMMA InvRecv == IInv /\ Recv => IInv'
<1> SUFFICES ASSUME IInv, Recv PROVE IInv'
    OBVIOUS
<1> DEFINE n == Smaller(inbox, READ_BUFFER_SIZE - m_read_idx)
<1>1. /\ pc = "read" /\ n > 0
      /\ inbox' = inbox - n /\ m_read_idx' = m_read_idx + n
      /\ PutAt(m_read_idx, n)
      /\ UNCHANGED <<m_type, request, target, unsent, peer, pc, tried_times, result, m_linger,
                     sendVars>>
    BY DEF Recv
<1>2. n \in Int /\ n <= inbox /\ n <= READ_BUFFER_SIZE - m_read_idx
    BY SMTT(30), Sizes DEF Smaller, IInv, TypeOK
<1> HIDE DEF n
<1>3. Judged' /\ Sending' /\ Encrypting'
    BY <1>1, NoResultYet DEF IInv, Reading
<1>4. /\ m_read_idx \in Int /\ m_read_idx >= 1 - TriedTimes
      /\ filled \in Nat /\ filled <= READ_BUFFER_SIZE
      /\ tried_times \in 1..TriedTimes /\ Received \in Nat
      /\ m_read_idx = Received - (TriedTimes - tried_times)
      /\ filled <= Received /\ (~garbled => filled = Received)
      /\ result = "none" /\ garbled \in BOOLEAN
    BY <1>1, Sizes, ReceivedIs DEF IInv, TypeOK, Reading
<1>5. Received' = Received + n
  <2>1. Size(request)' = Size(request) /\ Size(request) \in Nat
      BY <1>1, RequestFacts DEF Size, HeadLength, IInv, TypeOK
  <2>2. unsent \in Nat /\ inbox \in Nat
      BY DEF IInv, TypeOK
  <2>3. unsent' = unsent /\ inbox' = inbox - n
      BY <1>1
  <2> QED BY <1>2, <2>1, <2>2, <2>3 DEF Received
<1>6. m_read_idx' \in (1 - TriedTimes)..READ_BUFFER_SIZE
    BY <1>1, <1>2, <1>4, Sizes
<1>7. /\ filled' \in 0..READ_BUFFER_SIZE /\ garbled' \in BOOLEAN
      /\ filled' <= Received' /\ (~garbled' => filled' = Received')
  <2>1. CASE m_read_idx = filled /\ ~garbled
    <3>1. filled' = filled + n /\ garbled' = garbled
        BY <1>1, <2>1 DEF PutAt
    <3> QED BY <1>1, <1>2, <1>4, <1>5, <1>6, <2>1, <3>1, Sizes
  <2>2. CASE ~(m_read_idx = filled /\ ~garbled)
    <3>1. garbled' = TRUE /\ filled' = IF m_read_idx < 0 THEN 0 ELSE Smaller(filled, m_read_idx)
        BY <1>1, <2>2 DEF PutAt
    <3>2. filled' \in Nat /\ filled' <= filled
        BY <1>4, <3>1 DEF Smaller
    <3> QED BY <1>1, <1>2, <1>4, <1>5, <3>1, <3>2, Sizes
  <2> QED BY <2>1, <2>2
<1>8. Reading'
    BY <1>1, <1>2, <1>4, <1>5, <1>7, Sizes DEF Reading
<1>9. unsent' \in Nat /\ inbox' \in Nat /\ unsent' + inbox' <= Size(request')
  <2>1. Size(request) \in Nat
      BY RequestFacts DEF IInv, TypeOK
  <2> QED BY <1>1, <1>2, <2>1 DEF IInv, TypeOK
<1>10. TypeOK'
    BY <1>1, <1>6, <1>7, <1>9 DEF IInv, TypeOK, sendVars
<1> QED BY <1>3, <1>8, <1>10 DEF IInv

LEMMA InvRecvEnds == IInv /\ (RecvFails \/ RecvCloses) => IInv'
<1> SUFFICES ASSUME IInv, RecvFails \/ RecvCloses PROVE IInv'
    OBVIOUS
<1>1. /\ pc = "read" /\ result = "none"
      /\ UNCHANGED <<clientVars, filled, garbled, result, m_linger, sendVars>>
      /\ pc' \in {"read", "parse", "closed"}
    BY DEF RecvFails, RecvCloses, readVars, IInv, Reading
<1>2. Judged' /\ Sending' /\ Encrypting'
    BY <1>1, NoResultYet DEF IInv, clientVars
<1>3. /\ tried_times \in 1..TriedTimes /\ Received \in Nat /\ Received' = Received
      /\ m_read_idx = Received - (TriedTimes - tried_times)
  <2>1. Received \in Nat
      BY ReceivedIs DEF IInv
  <2>2. Received' = Received
      BY <1>1 DEF clientVars, Received, Size, HeadLength
  <2> QED BY <1>1, <2>1, <2>2 DEF IInv, Reading
<1>4. Reading' /\ tried_times' \in 0..TriedTimes
      /\ m_read_idx' \in (1 - TriedTimes)..READ_BUFFER_SIZE
  <2>1. CASE RecvFails
    <3>1. CASE tried_times' = 0
      <4>1. /\ tried_times' = tried_times - 1 /\ pc' = "parse" /\ m_read_idx' = m_read_idx
          BY <2>1, <3>1 DEF RecvFails
      <4> QED BY <1>1, <1>3, <3>1, <4>1, Sizes DEF IInv, TypeOK, Reading
    <3>2. CASE tried_times' # 0
      <4>1. /\ tried_times' = tried_times - 1 /\ pc' = "read" /\ m_read_idx' = m_read_idx - 1
          BY <1>1, <2>1, <3>2 DEF RecvFails
      <4> QED BY <1>1, <1>3, <3>2, <4>1, Sizes DEF IInv, TypeOK, Reading
    <3> QED BY <3>1, <3>2
  <2>2. CASE RecvCloses
      BY <1>1, <1>3, <2>2, Sizes DEF RecvCloses, readVars, IInv, TypeOK, Reading
  <2> QED BY <2>1, <2>2
<1>5. TypeOK'
    BY <1>1, <1>4 DEF IInv, TypeOK, clientVars, sendVars, Size, HeadLength
<1> QED BY <1>2, <1>4, <1>5 DEF IInv

-------------------------------------------------------------------------------
(* The result, and the answer that goes with it.                           *)

(* Whatever a url names leads to one of the results.                       *)
LEMMA LookedType == \A t \in Targets : Looked(t) \subseteq Results \cup {"crash"}
BY ExchangeAssumption DEF AllTargets, Looked, CheckForm, Results

LEMMA OutcomeFacts ==
    ASSUME IInv, Parse
    PROVE  /\ pc = "parse" /\ result = "none"
           /\ result' \in Results \cup {"crash"} /\ m_linger' \in BOOLEAN
           /\ target' \in Targets \cup {"unknown"}
           /\ Followed => IF ParseOk THEN result' \in Looked(target') ELSE result' = "format"
           /\ IF result' = "crash"
              THEN pc' = "closed" /\ UNCHANGED <<m_iv, m_iv_count, bytes_to_send>>
              ELSE pc' = "write" /\ Prepare(result')
           /\ UNCHANGED <<m_type, request, unsent, inbox, peer, readVars, bytes_have_send,
                          answer, cut, repeated, partial, encrypted>>
<1>1. PICK o \in Outcomes(target') :
          /\ result' = o[1] /\ m_linger' = o[2]
          /\ IF o[1] = "crash"
             THEN pc' = "closed" /\ UNCHANGED <<m_iv, m_iv_count, bytes_to_send>>
             ELSE pc' = "write" /\ Prepare(o[1])
    BY DEF Parse
<1>2. CASE ~Followed
  <2>1. o \in (Results \cup {"crash"}) \X BOOLEAN
      BY <1>1, <1>2 DEF Outcomes
  <2>2. o[1] \in Results \cup {"crash"} /\ o[2] \in BOOLEAN
      BY <2>1
  <2> QED BY <1>1, <1>2, <2>2 DEF Parse, IInv, Reading, TypeOK
<1>3. CASE Followed
  <2>1. target' \in Targets
      BY <1>3 DEF Parse
  <2>2. o \in (IF ParseOk THEN Looked(target') ELSE {"format"}) \X {~IsParsed("close")}
      BY <1>1, <1>3 DEF Outcomes
  <2>3. o[1] \in (IF ParseOk THEN Looked(target') ELSE {"format"}) /\ o[2] \in BOOLEAN
      BY <2>2 DEF IsParsed
  <2>4. o[1] \in Results \cup {"crash"}
      BY <2>1, <2>3, LookedType DEF Results
  <2> QED BY <1>1, <1>3, <2>1, <2>3, <2>4 DEF Parse, IInv, Reading
<1> QED BY <1>2, <1>3

LEMMA InvParse == IInv /\ Parse => IInv'
<1> SUFFICES ASSUME IInv, Parse PROVE IInv'
    OBVIOUS
<1>1. /\ pc = "parse" /\ result = "none"
      /\ result' \in Results \cup {"crash"} /\ m_linger' \in BOOLEAN
      /\ target' \in Targets \cup {"unknown"}
      /\ Followed => IF ParseOk THEN result' \in Looked(target') ELSE result' = "format"
      /\ UNCHANGED <<m_type, request, unsent, inbox, peer, m_read_idx, tried_times, filled,
                     garbled, bytes_have_send, answer, cut, repeated, partial, encrypted>>
    BY OutcomeFacts DEF readVars
<1>2. pc' = (IF result' = "crash" THEN "closed" ELSE "write")
    BY OutcomeFacts
<1>3. /\ answer = << >> /\ bytes_have_send = 0 /\ bytes_to_send = 0 /\ ~partial
      /\ encrypted = << >>
    BY <1>1 DEF IInv, Sending, Encrypting, Answering
<1>4. Header \in Pieces /\ File \in Pieces /\ Nothing \in Pieces
      /\ Header.len = HeadBytes
    BY Sizes DEF Header, File, Nothing, Piece, Pieces
<1>5. Reading'
  <2>1. Received' = Received
      BY <1>1 DEF Received, Size, HeadLength
  <2> QED BY <1>1, <1>2, <2>1, ReadingStays DEF IInv, readVars
<1>6. Judged'
  <2>1. (ParseOk <=> ParseOk') /\ (Followed <=> Followed')
      BY <1>1, BufferStays
  <2>2. Looked(target)' = Looked(target')
      BY <1>1 DEF Looked, CheckForm, IsParsed, Parsed, LineOk, HeadLength
  <2> QED BY <1>1, <2>1, <2>2 DEF Judged
<1>7. CASE result' = "crash"
  <2>1. UNCHANGED <<m_iv, m_iv_count, bytes_to_send>>
      BY <1>7, OutcomeFacts
  <2>2. Sending'
      BY <1>1, <1>2, <1>3, <1>7, <2>1 DEF IInv, Sending, Answering
  <2>3. Encrypting'
      BY <1>1, <1>3, <1>7 DEF Encrypting, Answering
  <2>4. TypeOK'
      BY <1>1, <1>2, <1>7, <2>1 DEF IInv, TypeOK, Size, HeadLength
  <2> QED BY <1>5, <1>6, <2>2, <2>3, <2>4 DEF IInv
<1>8. CASE result' # "crash"
  <2>1. Prepare(result')
      BY <1>8, OutcomeFacts
  <2>2. /\ m_iv' \in [1..2 -> Pieces] /\ m_iv'[1] = Header
        /\ m_iv_count' = (IF result' = "finished" THEN 2 ELSE 1)
        /\ m_iv_count' = 2 => m_iv'[2] = File
        /\ bytes_to_send' = Whole'
      BY <1>4, <2>1, Sizes DEF Prepare, Whole
  <2>3. Gathered' = Response'
      BY <2>2 DEF Gathered, Response
  <2>4. Len(Response') = Whole' /\ Whole' \in Nat \ {0}
    <3>1. ResponseShape'
        BY ResponseIs, PTL
    <3> QED BY <3>1 DEF ResponseShape
  <2>5. Sending'
    <3>1. Len(answer') = bytes_have_send' /\ 1..bytes_have_send' = {}
        BY <1>1, <1>3, EmptySeq
    <3>2. Answering' /\ pc' = "write"
        BY <1>1, <1>2, <1>8 DEF Answering, Results
    <3>3. bytes_to_send' = Whole' - bytes_have_send' /\ bytes_to_send' > 0
      <4>1. bytes_have_send' = 0
          BY <1>1, <1>3
      <4>2. bytes_to_send' = Whole' /\ Whole' > 0 /\ Whole' \in Nat
          BY <2>2, <2>4
      <4>3. \A k \in Nat : k - 0 = k
          OBVIOUS
      <4> QED BY <4>1, <4>2, <4>3
    <3>4. /\ Len(Gathered') = bytes_to_send'
          /\ \A i \in 1..bytes_to_send' : Gathered'[i] = Response'[bytes_have_send' + i]
      <4>1. Len(Gathered') = bytes_to_send' /\ bytes_have_send' = 0
          BY <1>1, <1>3, <2>2, <2>3, <2>4
      <4>2. \A i \in Int : bytes_have_send' + i = i
          BY <4>1
      <4> QED BY <2>3, <4>1, <4>2
    <3> QED BY <1>4, <2>2, <3>1, <3>2, <3>3, <3>4, Sizes DEF Sending
  <2>6. TypeOK'
      BY <1>1, <1>2, <1>8, <2>2, <2>4 DEF IInv, TypeOK, Size, HeadLength, Pieces
  <2>7. Encrypting'
    <3>1. Len(answer') = 0 /\ Len(encrypted') = 0
        BY <1>1, <1>3, EmptySeq
    <3>2. Answering' /\ 1..0 = {}
        BY <1>1, <1>8 DEF Answering, Results
    <3>3. bytes_have_send' = 0 /\ bytes_to_send' = Whole' /\ Whole' > 0 /\ 0 <= Whole'
        BY <1>1, <1>3, <2>2, <2>4
    <3>4. ~(bytes_to_send' <= 0)
        BY <2>4, <3>3
    <3> QED BY <1>4, <2>2, <3>1, <3>2, <3>3, <3>4 DEF Encrypting
  <2> QED BY <1>5, <1>6, <2>5, <2>6, <2>7 DEF IInv
<1> QED BY <1>7, <1>8

-------------------------------------------------------------------------------
(* The answer is sent.                                                     *)

(* What writev is given is a sequence of bytes.                            *)
LEMMA GatheredSeq == TypeOK => Gathered \in Seq(Cells) /\ Len(Gathered) \in Nat
<1> SUFFICES ASSUME TypeOK PROVE Gathered \in Seq(Cells)
    BY LenProperties
<1>1. m_iv[1] \in Pieces /\ m_iv[2] \in Pieces
    BY DEF TypeOK, Pieces
<1>2. CASE m_iv_count = 2
    BY <1>1, <1>2, TwoPieces DEF Gathered
<1>3. CASE m_iv_count # 2
  <2>1. Gathered = Bytes(m_iv[1]) \o << >>
      BY <1>3 DEF Gathered
  <2> QED BY <1>1, <2>1, BytesOf, ConcatEmptySeq
<1> QED BY <1>2, <1>3

LEMMA InvWrite ==
    ASSUME IInv, NEW n \in 1..Len(Gathered), Write(n)
    PROVE  IInv'
<1>1. /\ pc = "write"
      /\ answer' = answer \o SubSeq(Gathered, 1, n)
      /\ bytes_have_send' = bytes_have_send + n
      /\ bytes_to_send' = bytes_to_send - n
      /\ repeated' = (repeated \/ partial)
      /\ IF bytes_to_send' <= 0
         THEN pc' = (IF m_linger THEN "kept" ELSE "closed") /\ partial' = FALSE
         ELSE partial' = TRUE /\ UNCHANGED pc
      /\ m_type = "HTTP_CLIENT"
      /\ UNCHANGED <<clientVars, readVars, result, m_linger, m_iv, m_iv_count, cut, encrypted>>
    BY DEF Write, AllSent
<1>2. /\ Gathered \in Seq(Cells) /\ answer \in Seq(Cells)
      /\ bytes_have_send \in Nat /\ bytes_to_send \in Int /\ n \in Nat \ {0}
      /\ Len(Gathered) \in Nat /\ Len(answer) \in Nat /\ n <= Len(Gathered)
  <2>1. TypeOK /\ answer \in Seq(Cells)
      BY DEF IInv, TypeOK, Cells
  <2>2. Gathered \in Seq(Cells) /\ Len(Gathered) \in Nat /\ Len(answer) \in Nat
      BY <2>1, GatheredSeq, LenProperties
  <2>3. bytes_have_send \in Nat /\ bytes_to_send \in Int
      BY <2>1 DEF TypeOK
  <2> QED BY <2>1, <2>2, <2>3
<1> DEFINE part == SubSeq(Gathered, 1, n)
<1>3. /\ part \in Seq(Cells) /\ Len(part) = n
      /\ \A i \in 1..n : part[i] = Gathered[i]
  <2>1. \A i \in 1..n : i \in 1..Len(Gathered) /\ Gathered[i] \in Cells
      BY <1>2, ElementOfSeq
  <2>2. /\ part \in Seq(Cells) /\ Len(part) = (IF 1 <= n THEN n - 1 + 1 ELSE 0)
        /\ \A i \in 1..(n - 1 + 1) : part[i] = Gathered[1 + i - 1]
      BY <1>2, <2>1, SubSeqProperties
  <2>3. n - 1 + 1 = n /\ 1 <= n /\ \A i \in 1..n : 1 + i - 1 = i
      BY <1>2
  <2> QED BY <2>2, <2>3
<1>4. /\ answer' \in Seq(Cells) /\ Len(answer') = Len(answer) + n
      /\ \A i \in 1..(Len(answer) + n) :
             answer'[i] = IF i <= Len(answer) THEN answer[i] ELSE part[i - Len(answer)]
  <2>1. answer' = answer \o part
      BY <1>1
  <2> HIDE DEF part
  <2>2. /\ answer \o part \in Seq(Cells)
        /\ Len(answer \o part) = Len(answer) + Len(part)
        /\ \A i \in 1..(Len(answer) + Len(part)) :
               (answer \o part)[i] = IF i <= Len(answer) THEN answer[i]
                                    ELSE part[i - Len(answer)]
      BY <1>2, <1>3, ConcatProperties
  <2> QED BY <1>3, <2>1, <2>2
<1> HIDE DEF part
<1>5. Judged'
    BY <1>1, JudgedStays DEF IInv, clientVars, readVars
<1>6. Answering /\ Answering' /\ pc' \in {"write", "kept", "closed"}
    BY <1>1 DEF IInv, Sending, Answering
<1>7. Reading'
    BY <1>1, <1>6, WritingKeepsReading DEF IInv
<1>8. Response' = Response /\ Whole' = Whole /\ Whole \in Nat
    BY <1>1, ResponseIs DEF ResponseShape, Response, Whole
<1>9. ASSUME ~cut', ~repeated'
      PROVE  /\ bytes_to_send' = Whole' - bytes_have_send' /\ bytes_to_send' >= 0
             /\ Len(answer') = bytes_have_send'
             /\ \A i \in 1..bytes_have_send' : answer'[i] = Response'[i]
  <2>1. /\ ~cut /\ ~repeated /\ ~partial
      BY <1>1, <1>9
  <2>2. /\ bytes_to_send = Whole - bytes_have_send
        /\ Len(answer) = bytes_have_send
        /\ \A i \in 1..bytes_have_send : answer[i] = Response[i]
        /\ Len(Gathered) = bytes_to_send
        /\ \A i \in 1..bytes_to_send : Gathered[i] = Response[bytes_have_send + i]
      BY <1>1, <1>6, <2>1 DEF IInv, Sending
  <2>3. ASSUME NEW i \in 1..(bytes_have_send + n)
        PROVE  answer'[i] = Response[i]
    <3>1. CASE i <= bytes_have_send
      <4>1. i \in 1..bytes_have_send
          BY <1>2, <3>1
      <4> QED BY <1>4, <2>2, <3>1, <4>1
    <3>2. CASE ~(i <= bytes_have_send)
      <4>1. /\ i - bytes_have_send \in 1..n
            /\ i - bytes_have_send \in 1..bytes_to_send
            /\ bytes_have_send + (i - bytes_have_send) = i
          BY <1>2, <2>2, <3>2
      <4>2. part[i - bytes_have_send] = Response[i]
          BY <1>3, <2>2, <4>1
      <4> QED BY <1>4, <2>2, <3>2, <4>2
    <3> QED BY <3>1, <3>2
  <2>4. bytes_to_send' = Whole - bytes_have_send' /\ bytes_to_send' >= 0
      BY <1>1, <1>2, <1>8, <2>2
  <2> QED BY <1>1, <1>4, <1>8, <2>2, <2>3, <2>4
<1>10. /\ pc' = "write" => bytes_to_send' > 0 /\ partial'
       /\ partial' \in BOOLEAN /\ bytes_to_send' \in Int /\ bytes_have_send' \in Nat
  <2>1. bytes_to_send' \in Int /\ bytes_have_send' \in Nat
      BY <1>1, <1>2
  <2>2. CASE bytes_to_send' <= 0
      BY <1>1, <2>1, <2>2
  <2>3. CASE ~(bytes_to_send' <= 0)
      BY <1>1, <2>1, <2>3
  <2> QED BY <2>1, <2>2, <2>3
<1>11. Sending'
  <2>1. /\ m_iv_count' = (IF result' = "finished" THEN 2 ELSE 1)
        /\ m_iv'[1].len <= HeadBytes
      BY <1>1, <1>6 DEF IInv, Sending
  <2> QED BY <1>6, <1>9, <1>10, <2>1 DEF Sending
<1>12. TypeOK'
  <2>1. repeated' \in BOOLEAN
      BY <1>1, Zenon DEF IInv, TypeOK
  <2>2. answer' \in Seq({"m_write_buf", "m_file_address"} \X Int)
      BY <1>4 DEF Cells
  <2> QED BY <1>1, <1>6, <1>10, <2>1, <2>2
          DEF IInv, TypeOK, clientVars, readVars, Size, HeadLength
<1>13. Encrypting'
    BY <1>1, <1>6 DEF Encrypting, clientVars
<1> QED BY <1>5, <1>7, <1>11, <1>12, <1>13 DEF IInv

(* With the head sent, what is left is the end of the file.                *)
LEMMA RestOfFile == AtRest => RestSent
<1> SUFFICES ASSUME AtRest PROVE RestSent
    OBVIOUS
<1> USE DEF AtRest, RestSent
<1> DEFINE p == m_iv[1]
           q == m_iv[2]
<1>1. /\ p \in Pieces /\ q \in Pieces /\ p.len = 0 /\ q.len = bytes_to_send
      /\ q.at = bytes_have_send - HeadBytes /\ q.base = "m_file_address"
    BY DEF TypeOK, Pieces, Piece
<1>2. Gathered = Bytes(p) \o Bytes(q)
    BY DEF Gathered
<1>3. /\ bytes_have_send \in Nat /\ bytes_to_send \in Nat /\ HeadBytes \in Nat
      /\ Whole \in Nat
    BY Sizes, ResponseIs DEF TypeOK, ResponseShape
<1> HIDE DEF p, q
<1>4. /\ Len(Bytes(p) \o Bytes(q)) = p.len + q.len
      /\ \A i \in 1..(p.len + q.len) :
             (Bytes(p) \o Bytes(q))[i] = IF i <= p.len THEN <<p.base, p.at + i - 1>>
                                         ELSE <<q.base, q.at + (i - p.len) - 1>>
    BY <1>1, TwoPieces
<1>5. p.len + q.len = bytes_to_send
    BY <1>1, <1>3
<1>6. ASSUME NEW i \in 1..bytes_to_send
      PROVE  Gathered[i] = Response[bytes_have_send + i]
  <2>1. Gathered[i] = <<"m_file_address", (bytes_have_send - HeadBytes) + (i - 0) - 1>>
    <3>1. i \in 1..(p.len + q.len) /\ ~(i <= p.len)
        BY <1>1, <1>3, <1>5
    <3>2. Gathered[i] = <<q.base, q.at + (i - p.len) - 1>>
        BY <1>2, <1>4, <3>1
    <3> QED BY <1>1, <3>2
  <2>2. bytes_have_send + i \in 1..Whole /\ ~(bytes_have_send + i <= HeadBytes)
      BY <1>3
  <2>3. Response[bytes_have_send + i]
            = <<"m_file_address", ((bytes_have_send + i) - HeadBytes) - 1>>
      BY <2>2, ResponseIs DEF ResponseShape
  <2>4. (bytes_have_send - HeadBytes) + (i - 0) - 1 = ((bytes_have_send + i) - HeadBytes) - 1
      BY <1>3
  <2> QED BY <2>1, <2>3, <2>4
<1> QED BY <1>2, <1>4, <1>5, <1>6

(* With the head not yet counted, EAGAIN moves the first piece only.       *)
LEMMA PointedAt ==
    ASSUME TypeOK, PointAtRest, bytes_have_send < m_iv[1].len
    PROVE  /\ m_iv' \in [1..2 -> Pieces] /\ m_iv'[2] = m_iv[2]
           /\ m_iv'[1].len = m_iv[1].len - bytes_have_send
<1>1. /\ m_iv \in [1..2 -> Pieces] /\ m_iv[1].len \in Nat
      /\ bytes_have_send \in Nat /\ bytes_to_send \in Int
    BY DEF TypeOK, Pieces
<1>2. /\ m_iv[1] = [base |-> m_iv[1].base, at |-> m_iv[1].at, len |-> m_iv[1].len]
      /\ m_iv[1].base \in {"m_write_buf", "m_file_address"} /\ m_iv[1].at \in Int
    BY <1>1 DEF Pieces
<1>3. m_iv' = [m_iv EXCEPT ![1].at = bytes_to_send, ![1].len = @ - bytes_have_send]
  <2>1. ~(bytes_have_send >= m_iv[1].len)
      BY <1>1
  <2> QED BY <2>1 DEF PointAtRest
<1>4. DOMAIN m_iv = 1..2
    BY <1>1
<1>5. DOMAIN m_iv' = 1..2 /\ m_iv' = [i \in 1..2 |-> m_iv'[i]]
    BY <1>3, <1>4
<1>6. m_iv'[2] = m_iv[2]
    BY <1>3, <1>4
<1>7. m_iv'[1] = [[m_iv[1] EXCEPT !.at = bytes_to_send] EXCEPT !.len = @ - bytes_have_send]
    BY <1>3, <1>4
<1>8. m_iv'[1] = [base |-> m_iv[1].base, at |-> bytes_to_send,
                  len |-> m_iv[1].len - bytes_have_send]
    BY <1>2, <1>7
<1>9. m_iv[1].len - bytes_have_send \in Nat
    BY <1>1
<1>10. m_iv'[1] \in Pieces /\ m_iv'[2] \in Pieces
    BY <1>1, <1>2, <1>6, <1>8, <1>9 DEF Pieces
<1> QED BY <1>5, <1>6, <1>8, <1>10

LEMMA InvWriteFails == IInv /\ WriteFails => IInv'
<1> SUFFICES ASSUME IInv, WriteFails PROVE IInv'
    OBVIOUS
<1>1. /\ pc = "write" /\ partial' = FALSE /\ m_type = "HTTP_CLIENT" /\ PointAtRest
      /\ cut' = (cut \/ bytes_have_send < HeadBytes)
      /\ UNCHANGED <<clientVars, pc, readVars, result, m_linger, m_iv_count, bytes_have_send,
                     bytes_to_send, answer, repeated, encrypted>>
    BY DEF WriteFails
<1>2. /\ m_iv \in [1..2 -> Pieces] /\ m_iv[1].len \in Nat /\ m_iv[1].len <= HeadBytes
      /\ bytes_have_send \in Nat /\ bytes_to_send \in Int /\ bytes_to_send > 0
      /\ HeadBytes \in Nat
    BY <1>1, Sizes DEF IInv, TypeOK, Sending, Pieces
<1>3. m_iv[1] = [base |-> m_iv[1].base, at |-> m_iv[1].at, len |-> m_iv[1].len]
      /\ m_iv[1].base \in {"m_write_buf", "m_file_address"} /\ m_iv[1].at \in Int
    BY <1>2 DEF Pieces
<1>4. Judged'
    BY <1>1, JudgedStays DEF IInv, clientVars, readVars
<1>5. Reading'
    BY <1>1, WritingKeepsReading DEF IInv
<1>6. cut' \in BOOLEAN
    BY <1>1, Zenon DEF IInv, TypeOK
<1>7. ASSUME m_iv' \in [1..2 -> Pieces]
      PROVE  TypeOK'
    BY <1>1, <1>6, <1>7 DEF IInv, TypeOK, Pieces, clientVars, readVars, Size, HeadLength
<1>8. Answering /\ Answering' /\ Response' = Response /\ Whole' = Whole
    BY <1>1 DEF IInv, Sending, Answering, Response, Whole
<1>9. ASSUME m_iv'[1].len <= HeadBytes,
             ~cut' /\ ~repeated => /\ Len(Gathered') = bytes_to_send'
                                  /\ \A i \in 1..bytes_to_send' :
                                         Gathered'[i] = Response'[bytes_have_send' + i]
      PROVE  Sending' /\ Encrypting'
  <2>1. Sending'
      BY <1>1, <1>8, <1>9 DEF IInv, Sending
  <2>2. Encrypting'
      BY <1>1, <1>8 DEF Encrypting, clientVars
  <2> QED BY <2>1, <2>2
<1>10. CASE bytes_have_send >= m_iv[1].len
  <2> DEFINE q == Piece("m_file_address", bytes_have_send - HeadBytes, bytes_to_send)
  <2>1. m_iv' = <<[m_iv[1] EXCEPT !.len = 0], q>>
      BY <1>1, <1>10 DEF PointAtRest
  <2>2. q \in Pieces /\ [m_iv[1] EXCEPT !.len = 0] \in Pieces
      BY <1>2, <1>3 DEF Piece, Pieces
  <2>3. m_iv' \in [1..2 -> Pieces] /\ m_iv'[1].len = 0 /\ m_iv'[2] = q
      BY <1>3, <2>1, <2>2
  <2>4. TypeOK'
      BY <1>7, <2>3
  <2>5. ASSUME ~cut', ~repeated
        PROVE  /\ Len(Gathered') = bytes_to_send'
               /\ \A i \in 1..bytes_to_send' : Gathered'[i] = Response'[bytes_have_send' + i]
    <3>1. bytes_have_send >= HeadBytes /\ bytes_to_send = Whole - bytes_have_send
      <4>1. ~cut /\ ~(bytes_have_send < HeadBytes)
          BY <1>1, <2>5, Zenon
      <4> QED BY <1>1, <1>2, <1>8, <2>5, <4>1 DEF IInv, Sending
    <3>2. result = "finished"
        BY <1>2, <3>1 DEF Whole
    <3>3. /\ result' = "finished" /\ m_iv_count' = 2 /\ bytes_have_send' >= HeadBytes
          /\ bytes_to_send' = Whole' - bytes_have_send' /\ bytes_to_send' >= 0
          /\ m_iv'[2] = Piece("m_file_address", bytes_have_send' - HeadBytes, bytes_to_send')
        BY <1>1, <1>2, <1>8, <2>3, <3>1, <3>2 DEF IInv, Sending
    <3> HIDE DEF q
    <3>4. RestSent'
      <4>1. AtRest'
          BY <2>3, <2>4, <3>3 DEF AtRest
      <4> QED BY <4>1, RestOfFile, PTL
    <3> QED BY <3>4 DEF RestSent
  <2> QED BY <1>2, <1>4, <1>5, <1>9, <2>3, <2>4, <2>5 DEF IInv
<1>11. CASE ~(bytes_have_send >= m_iv[1].len)
  <2>1. /\ m_iv' \in [1..2 -> Pieces] /\ m_iv'[1].len = m_iv[1].len - bytes_have_send
        /\ m_iv[1].len - bytes_have_send <= HeadBytes
      BY <1>1, <1>2, <1>11, PointedAt DEF IInv
  <2>2. cut'
    <3>1. bytes_have_send < HeadBytes
        BY <1>2, <1>11
    <3> QED BY <1>1, <3>1, Zenon
  <2> QED BY <1>4, <1>5, <1>7, <1>9, <2>1, <2>2 DEF IInv
<1> QED BY <1>10, <1>11

(* The first n bytes of a sequence.                                        *)
LEMMA FirstBytes ==
    ASSUME NEW s \in Seq(Cells), NEW n \in Nat, n <= Len(s)
    PROVE  /\ SubSeq(s, 1, n) \in Seq(Cells) /\ Len(SubSeq(s, 1, n)) = n
           /\ \A i \in 1..n : SubSeq(s, 1, n)[i] = s[i]
<1>1. Len(s) \in Nat /\ \A i \in 1..n : s[i] \in Cells
    BY LenProperties, ElementOfSeq
<1>2. /\ SubSeq(s, 1, n) \in Seq(Cells)
      /\ Len(SubSeq(s, 1, n)) = (IF 1 <= n THEN n - 1 + 1 ELSE 0)
      /\ \A i \in 1..(n - 1 + 1) : SubSeq(s, 1, n)[i] = s[1 + i - 1]
    BY <1>1, SubSeqProperties
<1>3. n - 1 + 1 = n /\ (~(1 <= n) => n = 0) /\ \A i \in 1..n : 1 + i - 1 = i
    OBVIOUS
<1> QED BY <1>2, <1>3

(* What SSL_writev is given has the length of the response and, behind the *)
(* head, its bytes.                                                        *)
LEMMA GivenToSsl ==
    ASSUME TypeOK, Sending, Encrypting, Answering, m_type = "HTTPS_CLIENT", pc = "write"
    PROVE  /\ Gathered \in Seq(Cells) /\ Len(Gathered) = Whole
           /\ \A i \in 1..Whole : HeadBytes < i => Gathered[i] = Response[i]
           /\ m_iv[1] = Header => \A i \in 1..Whole : Gathered[i] = Response[i]
<1> DEFINE p == m_iv[1]
           q == m_iv[2]
<1>1. /\ p \in Pieces /\ q \in Pieces /\ p.len = HeadBytes
      /\ m_iv_count = (IF result = "finished" THEN 2 ELSE 1)
      /\ m_iv_count = 2 => q = File
    BY DEF TypeOK, Pieces, Sending, Encrypting
<1>2. /\ HeadBytes \in Nat \ {0} /\ FileBytes \in Nat \ {0} /\ Whole \in Nat
      /\ \A i \in 1..Whole :
             Response[i] = IF i <= HeadBytes THEN <<"m_write_buf", i - 1>>
                           ELSE <<"m_file_address", (i - HeadBytes) - 1>>
    BY Sizes, ResponseIs DEF ResponseShape
<1>3. Header.base = "m_write_buf" /\ Header.at = 0
    BY DEF Header, Piece
<1>4. ASSUME result = "finished"
      PROVE  /\ Gathered \in Seq(Cells) /\ Len(Gathered) = Whole
             /\ \A i \in 1..Whole :
                    Gathered[i] = IF i <= HeadBytes THEN <<p.base, p.at + i - 1>>
                                  ELSE <<"m_file_address", (i - HeadBytes) - 1>>
  <2>1. /\ m_iv_count = 2 /\ Gathered = Bytes(p) \o Bytes(q) /\ Whole = HeadBytes + FileBytes
        /\ q.base = "m_file_address" /\ q.at = 0 /\ q.len = FileBytes
      BY <1>1, <1>4 DEF Gathered, Whole, File, Piece
  <2> HIDE DEF p, q
  <2>2. /\ Bytes(p) \o Bytes(q) \in Seq(Cells)
        /\ Len(Bytes(p) \o Bytes(q)) = p.len + q.len
        /\ \A i \in 1..(p.len + q.len) :
               (Bytes(p) \o Bytes(q))[i] = IF i <= p.len THEN <<p.base, p.at + i - 1>>
                                            ELSE <<q.base, q.at + (i - p.len) - 1>>
      BY <1>1, TwoPieces
  <2>3. p.len = HeadBytes /\ q.len = FileBytes
      BY <1>1, <2>1
  <2>4. ASSUME NEW i \in 1..Whole
        PROVE  Gathered[i] = IF i <= HeadBytes THEN <<p.base, p.at + i - 1>>
                             ELSE <<"m_file_address", (i - HeadBytes) - 1>>
    <3>1. Gathered[i] = IF i <= HeadBytes THEN <<p.base, p.at + i - 1>>
                        ELSE <<q.base, q.at + (i - HeadBytes) - 1>>
        BY <2>1, <2>2, <2>3
    <3>2. q.at + (i - HeadBytes) - 1 = (i - HeadBytes) - 1
        BY <1>2, <2>1
    <3> QED BY <2>1, <3>1, <3>2
  <2>5. Gathered \in Seq(Cells) /\ Len(Gathered) = Whole
      BY <2>1, <2>2, <2>3
  <2> QED BY <2>4, <2>5
<1>5. ASSUME result # "finished"
      PROVE  /\ Gathered \in Seq(Cells) /\ Len(Gathered) = Whole /\ Whole = HeadBytes
             /\ \A i \in 1..Whole : Gathered[i] = <<p.base, p.at + i - 1>>
  <2>1. Gathered = Bytes(p) \o << >> /\ Whole = HeadBytes
      BY <1>1, <1>2, <1>5 DEF Gathered, Whole
  <2> HIDE DEF p
  <2>2. Gathered = Bytes(p)
      BY <1>1, <2>1, BytesOf, ConcatEmptySeq
  <2> QED BY <1>1, <2>1, <2>2, BytesOf
<1>6. ASSUME m_iv[1] = Header
      PROVE  p.base = "m_write_buf" /\ \A i \in Int : p.at + i - 1 = i - 1
    BY <1>3, <1>6
<1> HIDE DEF p, q
<1>7. CASE result = "finished"
  <2>1. \A i \in 1..Whole : HeadBytes < i => Gathered[i] = Response[i]
    <3> TAKE i \in 1..Whole
    <3> HAVE HeadBytes < i
    <3>1. ~(i <= HeadBytes)
        BY <1>2
    <3> QED BY <1>2, <1>4, <1>7, <3>1
  <2>2. ASSUME m_iv[1] = Header, NEW i \in 1..Whole
        PROVE  Gathered[i] = Response[i]
    <3>1. <<p.base, p.at + i - 1>> = <<"m_write_buf", i - 1>>
        BY <1>6, <2>2
    <3> QED BY <1>2, <1>4, <1>7, <3>1
  <2> QED BY <1>4, <1>7, <2>1, <2>2
<1>8. CASE result # "finished"
  <2>1. \A i \in 1..Whole : i <= HeadBytes /\ ~(HeadBytes < i)
      BY <1>2, <1>5, <1>8
  <2>2. ASSUME m_iv[1] = Header, NEW i \in 1..Whole
        PROVE  Gathered[i] = Response[i]
    <3>1. <<p.base, p.at + i - 1>> = <<"m_write_buf", i - 1>>
        BY <1>6, <2>2
    <3> QED BY <1>2, <1>5, <1>8, <2>1, <3>1
  <2> QED BY <1>5, <1>8, <2>1, <2>2
<1> QED BY <1>7, <1>8

(* What SSL sends, in all its calls together, is the response.             *)
LEMMA StreamIs ==
    ASSUME TypeOK, Sending, Encrypting, Answering, m_type = "HTTPS_CLIENT", pc = "write"
    PROVE  Stream = Response
<1> DEFINE k == Len(encrypted)
           rest == SubSeq(Gathered, k + 1, Len(Gathered))
<1>1. /\ encrypted \in Seq(Cells) /\ k \in Nat /\ k <= Whole
      /\ \A i \in 1..k : encrypted[i] = Response[i]
      /\ m_iv[1] = Header \/ HeadBytes <= k
    BY LenProperties DEF TypeOK, Cells, Encrypting
<1>2. /\ Gathered \in Seq(Cells) /\ Len(Gathered) = Whole
      /\ \A i \in 1..Whole : HeadBytes < i => Gathered[i] = Response[i]
      /\ m_iv[1] = Header => \A i \in 1..Whole : Gathered[i] = Response[i]
    BY GivenToSsl
<1>3. Whole \in Nat /\ HeadBytes \in Nat /\ Response \in Seq(Cells) /\ Len(Response) = Whole
    BY Sizes, ResponseIs DEF ResponseShape
<1> HIDE DEF k
<1>4. /\ rest \in Seq(Cells) /\ Len(rest) = Whole - k
      /\ \A i \in 1..(Whole - k) : rest[i] = Gathered[k + i]
  <2>1. \A i \in (k + 1)..Whole : Gathered[i] \in Cells
      BY <1>1, <1>2, <1>3, ElementOfSeq
  <2>2. /\ rest \in Seq(Cells)
        /\ Len(rest) = (IF k + 1 <= Whole THEN Whole - (k + 1) + 1 ELSE 0)
        /\ \A i \in 1..(Whole - (k + 1) + 1) : rest[i] = Gathered[k + 1 + i - 1]
      BY <1>1, <1>2, <1>3, <2>1, SubSeqProperties
  <2>3. /\ Whole - (k + 1) + 1 = Whole - k /\ (~(k + 1 <= Whole) => Whole - k = 0)
        /\ \A i \in 1..(Whole - k) : k + 1 + i - 1 = k + i
      BY <1>1, <1>3
  <2> HIDE DEF rest
  <2> QED BY <2>2, <2>3
<1>5. Stream = encrypted \o rest
    BY DEF Stream, k
<1> HIDE DEF rest
<1>6. /\ Stream \in Seq(Cells) /\ Len(Stream) = Whole
      /\ \A i \in 1..Whole : Stream[i] = IF i <= k THEN encrypted[i] ELSE rest[i - k]
  <2>1. /\ encrypted \o rest \in Seq(Cells)
        /\ Len(encrypted \o rest) = k + Len(rest)
        /\ \A i \in 1..(k + Len(rest)) :
               (encrypted \o rest)[i] = IF i <= k THEN encrypted[i] ELSE rest[i - k]
      BY <1>1, <1>4, ConcatProperties DEF k
  <2>2. k + Len(rest) = Whole
      BY <1>1, <1>3, <1>4
  <2> QED BY <1>5, <2>1, <2>2
<1>7. ASSUME NEW i \in 1..Whole
      PROVE  Stream[i] = Response[i]
  <2>1. CASE i <= k
    <3>1. i \in 1..k
        BY <1>1, <2>1
    <3> QED BY <1>1, <1>6, <2>1, <3>1
  <2>2. CASE ~(i <= k)
    <3>1. i - k \in 1..(Whole - k) /\ k + (i - k) = i
        BY <1>1, <1>3, <2>2
    <3>2. Stream[i] = Gathered[i]
        BY <1>4, <1>6, <2>2, <3>1
    <3>3. CASE m_iv[1] = Header
        BY <1>2, <3>2, <3>3
    <3>4. CASE HeadBytes <= k
      <4>1. HeadBytes < i
          BY <1>1, <1>3, <2>2, <3>4
      <4> QED BY <1>2, <3>2, <4>1
    <3> QED BY <1>1, <3>3, <3>4
  <2> QED BY <2>1, <2>2
<1> QED BY <1>3, <1>6, <1>7, SeqEqual

LEMMA InvTlsWrite == IInv /\ TlsWrite => IInv'
<1> SUFFICES ASSUME IInv, TlsWrite PROVE IInv'
    OBVIOUS
<1>1. /\ pc = "write" /\ m_type = "HTTPS_CLIENT"
      /\ answer' = Stream /\ encrypted' = Stream
      /\ bytes_have_send' = bytes_have_send + Len(Gathered)
      /\ bytes_to_send' = bytes_to_send - Len(Gathered)
      /\ IF bytes_to_send' <= 0 THEN pc' = (IF m_linger THEN "kept" ELSE "closed")
                                ELSE UNCHANGED pc
      /\ UNCHANGED <<clientVars, readVars, result, m_linger, m_iv, m_iv_count, cut,
                     repeated, partial>>
    BY DEF TlsWrite, AllSent
<1>2. Answering /\ TypeOK /\ Sending /\ Encrypting
    BY <1>1 DEF IInv, Sending
<1>3. /\ Stream = Response /\ Len(Gathered) = Whole
      /\ Response \in Seq(Cells) /\ Len(Response) = Whole /\ Whole \in Nat \ {0}
    BY <1>1, <1>2, StreamIs, GivenToSsl, ResponseIs DEF ResponseShape
<1>4. bytes_have_send = 0 /\ bytes_to_send = Whole
    BY <1>1, <1>2 DEF Encrypting
<1>5. /\ bytes_to_send' = 0 /\ bytes_have_send' = Whole
      /\ pc' \in {"kept", "closed"} /\ pc' # "write"
  <2>1. bytes_to_send' = Whole - Whole /\ bytes_have_send' = 0 + Whole
      BY <1>1, <1>3, <1>4
  <2>2. bytes_to_send' = 0 /\ bytes_have_send' = Whole
      BY <1>3, <2>1
  <2> QED BY <1>1, <2>2
<1>6. Answering' /\ Response' = Response /\ Whole' = Whole
    BY <1>1, <1>2 DEF Answering, Response, Whole
<1>7. Judged'
    BY <1>1, JudgedStays DEF IInv, clientVars, readVars
<1>8. Reading'
    BY <1>1, <1>2, WritingKeepsReading DEF IInv
<1>9. Sending'
    BY <1>1, <1>2, <1>5, <1>6 DEF Sending, clientVars
<1>10. Encrypting'
    BY <1>1, <1>3, <1>5, <1>6 DEF Encrypting
<1>11. TypeOK'
  <2>1. {answer', encrypted'} \subseteq Seq({"m_write_buf", "m_file_address"} \X Int)
      BY <1>1, <1>3 DEF Cells
  <2>2. {garbled', m_linger', cut', repeated', partial'} \subseteq BOOLEAN
      BY <1>1, <1>2 DEF TypeOK, readVars
  <2> QED BY <1>1, <1>2, <1>3, <1>5, <2>1, <2>2
          DEF TypeOK, clientVars, readVars, Size, HeadLength
<1> QED BY <1>7, <1>8, <1>9, <1>10, <1>11 DEF IInv

LEMMA InvTlsWriteFails ==
    ASSUME IInv, NEW n \in 0..Len(Stream), TlsWriteFails(n)
    PROVE  IInv'
<1> DEFINE m == Smaller(n + RecordBytes, Len(Stream))
<1>1. /\ pc = "write" /\ m_type = "HTTPS_CLIENT" /\ PointAtRest
      /\ n \in Len(answer)..(Len(Stream) - 1)
      /\ answer' = SubSeq(Stream, 1, n) /\ encrypted' = SubSeq(Stream, 1, m)
      /\ UNCHANGED <<clientVars, pc, readVars, result, m_linger, m_iv_count,
                     bytes_have_send, bytes_to_send, cut, repeated, partial>>
    BY DEF TlsWriteFails
<1>2. Answering /\ TypeOK /\ Sending /\ Encrypting
    BY <1>1 DEF IInv, Sending
<1>3. /\ Stream = Response /\ Response \in Seq(Cells) /\ Len(Response) = Whole
      /\ Whole \in Nat \ {0}
    BY <1>1, <1>2, StreamIs, ResponseIs DEF ResponseShape
<1>4. n \in Nat /\ n < Whole /\ n <= Whole
    BY <1>1, <1>3
<1>5. /\ m \in Nat /\ n <= m /\ m <= Whole /\ HeadBytes <= m
  <2>1. RecordBytes \in Nat /\ HeadBytes \in Nat \ {0} /\ HeadBytes <= RecordBytes
      BY ExchangeAssumption
  <2>2. HeadBytes <= Whole
      BY <2>1, Sizes DEF Whole
  <2> QED BY <1>3, <1>4, <2>1, <2>2 DEF Smaller
<1> HIDE DEF m
<1>6. /\ answer' \in Seq(Cells) /\ Len(answer') = n
      /\ \A i \in 1..n : answer'[i] = Response[i]
    BY <1>1, <1>3, <1>4, FirstBytes
<1>7. /\ encrypted' \in Seq(Cells) /\ Len(encrypted') = m
      /\ \A i \in 1..m : encrypted'[i] = Response[i]
    BY <1>1, <1>3, <1>5, FirstBytes
<1>8. /\ bytes_have_send = 0 /\ bytes_to_send = Whole
      /\ m_iv[1].len = HeadBytes /\ (m_iv_count = 2 => m_iv[2] = File)
    BY <1>1, <1>2 DEF Encrypting
<1>9. /\ m_iv' \in [1..2 -> Pieces] /\ m_iv'[2] = m_iv[2] /\ m_iv'[1].len = HeadBytes
  <2>1. bytes_have_send < m_iv[1].len /\ HeadBytes - 0 = HeadBytes
      BY <1>8, Sizes
  <2> QED BY <1>1, <1>2, <1>8, <2>1, PointedAt
<1>10. Answering' /\ Response' = Response /\ Whole' = Whole
    BY <1>1, <1>2 DEF Answering, Response, Whole
<1>11. Judged'
    BY <1>1, JudgedStays DEF IInv, clientVars, readVars
<1>12. Reading'
    BY <1>1, WritingKeepsReading DEF IInv
<1>13. Sending'
    BY <1>1, <1>2, <1>9, <1>10, Sizes DEF Sending, clientVars
<1>14. Encrypting'
  <2>1. bytes_have_send' = 0 /\ bytes_to_send' = Whole /\ ~(bytes_to_send' <= 0)
      BY <1>1, <1>3, <1>8
  <2>2. m_iv'[1].len = HeadBytes /\ (m_iv_count' = 2 => m_iv'[2] = File)
      BY <1>1, <1>8, <1>9
  <2> QED BY <1>4, <1>5, <1>6, <1>7, <1>10, <2>1, <2>2 DEF Encrypting
<1>15. TypeOK'
  <2>1. {answer', encrypted'} \subseteq Seq({"m_write_buf", "m_file_address"} \X Int)
      BY <1>6, <1>7 DEF Cells
  <2> QED BY <1>1, <1>2, <1>9, <2>1
          DEF TypeOK, Pieces, clientVars, readVars, Size, HeadLength
<1> QED BY <1>11, <1>12, <1>13, <1>14, <1>15 DEF IInv

(* The client is gone: the connection is closed.                           *)
LEMMA InvWriteCloses == IInv /\ WriteCloses => IInv'
<1> SUFFICES ASSUME IInv, WriteCloses PROVE IInv'
    OBVIOUS
<1>1. /\ pc = "write" /\ pc' = "closed"
      /\ UNCHANGED <<clientVars, readVars, result, m_linger, sendVars>>
    BY DEF WriteCloses
<1>2. Judged' /\ Sending' /\ Encrypting'
    BY <1>1, JudgedStays, SendingStays DEF IInv, clientVars, readVars
<1>3. Reading'
    BY <1>1, WritingKeepsReading DEF IInv
<1>4. TypeOK'
    BY <1>1 DEF IInv, TypeOK, clientVars, readVars, sendVars, Size, HeadLength
<1> QED BY <1>2, <1>3, <1>4 DEF IInv

LEMMA InvStep == IInv /\ [Next]_vars => IInv'
<1> SUFFICES ASSUME IInv, [Next]_vars PROVE IInv'
    OBVIOUS
<1>1. CASE Next
    BY <1>1, InvClient, InvRecv, InvRecvEnds, InvParse, InvWrite, InvWriteFails,
       InvWriteCloses, InvTlsWrite, InvTlsWriteFails DEF Next, Read, WriteSome, TryAgain
<1>2. CASE UNCHANGED vars
  <2>1. UNCHANGED <<clientVars, pc, readVars, result, m_linger, sendVars>>
      BY <1>2 DEF vars
  <2>2. Judged' /\ Sending' /\ Encrypting'
      BY <2>1, JudgedStays, SendingStays DEF IInv, clientVars, readVars
  <2>3. Reading'
    <3>1. Received' = Received
        BY <2>1 DEF clientVars, Received, Size, HeadLength
    <3> QED BY <2>1, <3>1, ReadingStays DEF IInv
  <2>4. TypeOK'
      BY <2>1 DEF IInv, TypeOK, clientVars, readVars, sendVars, Size, HeadLength
  <2> QED BY <2>2, <2>3, <2>4 DEF IInv
<1> QED BY <1>1, <1>2

LEMMA Inv == Spec => []IInv
BY InvInit, InvStep, PTL DEF Spec

-------------------------------------------------------------------------------
(* What follows.                                                           *)

(* Every variable keeps its type; m_read_idx stays within the buffer and   *)
(* is negative by no more than the attempts to read.                       *)
THEOREM TypeCorrect == Spec => []TypeOK
BY Inv, PTL DEF IInv

(* The blank line has been parsed when all lines are in order.             *)
LEMMA HeadParsed ==
    ASSUME TypeOK
    PROVE  IsParsed("blank") <=> \A i \in DOMAIN request.lines : LineOk(i)
<1>1. /\ Len(request.lines) \in Nat /\ Len(request.lines) >= 2
      /\ DOMAIN request.lines = 1..Len(request.lines)
      /\ \A i \in 1..Len(request.lines) :
             request.lines[i].is = "blank" <=> i = Len(request.lines)
    BY RequestFacts DEF TypeOK
<1>2. ASSUME IsParsed("blank")
      PROVE  \A i \in DOMAIN request.lines : LineOk(i)
  <2>1. PICK k \in Parsed : request.lines[k].is = "blank"
      BY <1>2 DEF IsParsed
  <2>2. k \in 1..Len(request.lines) /\ \A j \in 1..k : LineOk(j)
      BY <1>1, <2>1 DEF Parsed
  <2>3. k = Len(request.lines)
      BY <1>1, <2>1, <2>2
  <2> QED BY <1>1, <2>2, <2>3
<1>3. ASSUME \A i \in DOMAIN request.lines : LineOk(i)
      PROVE  IsParsed("blank")
  <2>1. Len(request.lines) \in Parsed
      BY <1>1, <1>3 DEF Parsed
  <2> QED BY <1>1, <2>1 DEF IsParsed
<1> QED BY <1>2, <1>3

(* All lines are in order when the head is in place and each, if well      *)
(* formed, is not longer than what has been read.                          *)
LEMMA LinesInPlace ==
    ASSUME TypeOK
    PROVE  /\ HeadInPlace => \A i \in DOMAIN request.lines : request.lines[i].end <= filled
           /\ (\A i \in DOMAIN request.lines : LineOk(i)) => HeadInPlace
<1>1. /\ Len(request.lines) \in DOMAIN request.lines
      /\ HeadLength(request) \in Nat /\ filled \in Nat
      /\ \A i \in DOMAIN request.lines : /\ request.lines[i].end \in Nat
                                         /\ request.lines[i].end <= HeadLength(request)
  <2>1. request \in Requests /\ filled \in Nat
      BY DEF TypeOK
  <2>2. /\ DOMAIN request.lines = 1..Len(request.lines)
        /\ Len(request.lines) \in Nat /\ Len(request.lines) >= 2
        /\ HeadLength(request) \in Nat
        /\ \A i \in 1..Len(request.lines) : /\ request.lines[i].end \in Nat
                                            /\ request.lines[i].end <= HeadLength(request)
      BY <2>1, RequestFacts
  <2> QED BY <2>1, <2>2
<1>2. HeadInPlace => \A i \in DOMAIN request.lines : request.lines[i].end <= filled
    BY <1>1 DEF HeadInPlace
<1>3. (\A i \in DOMAIN request.lines : LineOk(i)) => HeadInPlace
    BY <1>1 DEF LineOk, HeadLength, HeadInPlace
<1> QED BY <1>2, <1>3

(* A page is the answer to a request without a bad line in place; and to   *)
(* one that has been received up to the end of what it declares, but for   *)
(* pieces over its head.                                                   *)
LEMMA WholeRequest == IInv => PageNeedsWholeRequest
<1> SUFFICES ASSUME IInv, result = "finished" PROVE PageNeedsWholeRequest
    BY DEF PageNeedsWholeRequest
<1>1. /\ TypeOK /\ m_read_idx = Received - (TriedTimes - 1)
      /\ filled <= Received /\ Received \in Nat
    BY ReceivedIs DEF IInv, Reading
<1>2. Followed => ParseOk
    BY DEF IInv, Judged
<1>3. Followed => \A i \in DOMAIN request.lines : LineOk(i)
    BY <1>1, <1>2, HeadParsed DEF ParseOk
<1>4. ASSUME NEW i \in DOMAIN request.lines, request.lines[i].end <= filled
      PROVE  WellFormed(i)
  <2>1. LineOk(i)
      BY <1>3, <1>4 DEF Followed
  <2> QED BY <2>1 DEF LineOk, WellFormed
<1>5. ASSUME ~garbled \/ HeadInPlace
      PROVE  Received >= HeadLength(request) + request.length
  <2>1. Followed
      BY <1>5 DEF Followed
  <2>2. HeadInPlace /\ ParseOk
      BY <1>1, <1>2, <1>3, <2>1, LinesInPlace
  <2>3. /\ HeadLength(request) \in Nat /\ request.length \in Nat /\ filled \in Nat
        /\ TriedTimes \in Nat \ {0}
      BY <1>1, RequestFacts, Sizes DEF TypeOK
  <2>4. HeadLength(request) <= filled
      BY <2>2 DEF HeadInPlace
  <2>5. request.length # 0 => HeadLength(request) + request.length <= m_read_idx
      BY <2>2 DEF ParseOk, ContentOk
  <2> QED BY <1>1, <2>3, <2>4, <2>5
<1> QED BY <1>4, <1>5 DEF PageNeedsWholeRequest

THEOREM PageNeedsWholeRequestHolds == Spec => []PageNeedsWholeRequest
BY Inv, WholeRequest, PTL

(* A request that has come, its head in place, is refused exactly when the *)
(* bytes that failed attempts take off do not leave enough of it.          *)
LEMMA Refused == IInv => RefusedForItsTail
<1> DEFINE left == Size(request) - (TriedTimes - 1)
           enough == /\ \A i \in DOMAIN request.lines : Length(request, i) <= left
                     /\ request.length # 0 => HeadLength(request) + request.length <= left
<1> SUFFICES ASSUME IInv, result # "none", HeadInPlace, Received = Size(request),
                    \A i \in DOMAIN request.lines : WellFormed(i)
             PROVE  IF enough THEN result \in Looked(target) ELSE result = "format"
    BY DEF RefusedForItsTail
<1>1. TypeOK /\ m_read_idx = left
    BY DEF IInv, Reading
<1>2. \A i \in DOMAIN request.lines : request.lines[i].end <= filled
    BY <1>1, LinesInPlace
<1>3. \A i \in DOMAIN request.lines : LineOk(i) <=> Length(request, i) <= left
    BY <1>1, <1>2 DEF LineOk, WellFormed
<1>4. ParseOk <=> enough
    BY <1>1, <1>3, HeadParsed DEF ParseOk, ContentOk
<1>5. IF ParseOk THEN result \in Looked(target) ELSE result = "format"
    BY DEF IInv, Judged, Followed
<1> HIDE DEF enough
<1> QED BY <1>4, <1>5

THEOREM RefusedForItsTailHolds == Spec => []RefusedForItsTail
BY Inv, Refused, PTL

(* The client gets a part of the answer from its first byte, and all of it *)
(* when nothing is left to send.                                           *)
LEMMA Prefix == IInv => AnswerIsWhole
<1> SUFFICES ASSUME IInv, m_type = "HTTPS_CLIENT" \/ (~cut /\ ~repeated)
             PROVE  /\ IsPrefix(answer, Response)
                    /\ Answering /\ bytes_to_send <= 0 => answer = Response
    BY DEF AnswerIsWhole, Answering
<1>1. /\ answer \in Seq(Cells) /\ Len(answer) \in Nat
      /\ bytes_have_send \in Nat /\ bytes_to_send \in Int
      /\ m_type \in {"HTTP_CLIENT", "HTTPS_CLIENT"}
    BY LenProperties DEF IInv, TypeOK, Cells
<1>2. /\ Response \in Seq(Cells) /\ Len(Response) = Whole /\ Whole \in Nat
    BY ResponseIs DEF ResponseShape
<1>3. CASE ~Answering
  <2>1. answer = << >> /\ Len(answer) = 0
      BY <1>3, EmptySeq DEF IInv, Sending
  <2>2. SubSeq(answer, 1, 0) = << >> /\ SubSeq(Response, 1, 0) = << >>
      BY SubSeqEmpty
  <2> QED BY <1>2, <1>3, <2>1, <2>2 DEF IsPrefix
<1>4. CASE Answering
  <2> DEFINE n == Len(answer)
             r == SubSeq(Response, 1, n)
  <2>1. /\ n <= Whole /\ \A i \in 1..n : answer[i] = Response[i]
        /\ bytes_to_send <= 0 => n = Whole
    <3>1. CASE m_type = "HTTPS_CLIENT"
        BY <1>4, <3>1 DEF IInv, Encrypting
    <3>2. CASE m_type = "HTTP_CLIENT"
      <4>1. ~cut /\ ~repeated
          BY <3>2
      <4>2. /\ bytes_to_send = Whole - bytes_have_send /\ bytes_to_send >= 0
            /\ Len(answer) = bytes_have_send
            /\ \A i \in 1..bytes_have_send : answer[i] = Response[i]
          BY <1>4, <3>2, <4>1 DEF IInv, Sending
      <4> QED BY <1>1, <1>2, <4>2
    <3> QED BY <1>1, <3>1, <3>2
  <2>2. r \in Seq(Cells) /\ Len(r) = n /\ \A i \in 1..n : r[i] = Response[i]
      BY <1>1, <1>2, <2>1, FirstBytes
  <2>3. SubSeq(answer, 1, n) = answer
      BY <1>1, SubSeqFull
  <2>4. answer = r
    <3> HIDE DEF r
    <3> QED BY <1>1, <2>1, <2>2, SeqEqual
  <2>5. IsPrefix(answer, Response)
      BY <1>2, <2>1, <2>3, <2>4 DEF IsPrefix
  <2>6. bytes_to_send <= 0 => answer = Response
    <3> SUFFICES ASSUME bytes_to_send <= 0 PROVE answer = Response
        OBVIOUS
    <3>1. n = Len(Response)
        BY <1>2, <2>1
    <3> QED BY <1>1, <1>2, <2>1, <3>1, SeqEqual
  <2> QED BY <2>5, <2>6
<1> QED BY <1>3, <1>4

THEOREM AnswerIsWholeHolds == Spec => []AnswerIsWhole
BY Inv, Prefix, PTL

(* While something is left there is a piece of memory with a byte in it,   *)
(* and to an HTTP client what has been sent and what is left are always    *)
(* the whole.                                                              *)
Supplied ==
    /\ Answering /\ m_type = "HTTP_CLIENT" => bytes_to_send = Whole - bytes_have_send
    /\ pc = "write" => \/ m_iv[1].len > 0
                       \/ m_iv_count = 2 /\ m_iv[2].len > 0
                       \/ MaySpin

LEMMA SuppliedInit == Init => Supplied
BY DEF Init, Supplied, Answering

(* Steps that neither count nor point anywhere, or end the writing.        *)
LEMMA SuppliedStays ==
    ASSUME Supplied,
           UNCHANGED <<m_type, result, bytes_have_send, bytes_to_send>>,
           \/ pc' # "write"
           \/ pc = "write" /\ UNCHANGED <<m_iv, m_iv_count, cut>>
    PROVE  Supplied'
<1>1. Whole' = Whole /\ (Answering' <=> Answering)
    BY DEF Whole, Answering
<1> QED BY <1>1 DEF Supplied, MaySpin

LEMMA SuppliedParse == IInv /\ Parse => Supplied'
<1> SUFFICES ASSUME IInv, Parse PROVE Supplied'
    OBVIOUS
<1>1. /\ bytes_have_send = 0 /\ bytes_to_send = 0 /\ bytes_have_send' = 0 /\ pc = "parse"
    BY DEF Parse, IInv, Reading, Sending, Answering
<1>2. PICK o \in Outcomes(target') :
          /\ result' = o[1]
          /\ IF o[1] = "crash"
             THEN pc' = "closed" /\ UNCHANGED <<m_iv, m_iv_count, bytes_to_send>>
             ELSE pc' = "write" /\ Prepare(o[1])
    BY DEF Parse
<1>3. CASE result' = "crash"
    BY <1>2, <1>3 DEF Supplied, Answering
<1>4. CASE result' # "crash"
  <2>1. /\ m_iv'[1] = Header /\ Prepare(result')
      BY <1>2, <1>4 DEF Prepare
  <2>2. bytes_to_send' = Whole'
      BY <2>1, Sizes DEF Prepare, Whole
  <2>3. Whole' - bytes_have_send' = Whole'
      BY <1>1, Sizes DEF Whole
  <2>4. m_iv'[1].len > 0
      BY <2>1, Sizes DEF Header, Piece
  <2> QED BY <2>2, <2>3, <2>4 DEF Supplied
<1> QED BY <1>3, <1>4

LEMMA SuppliedWrite ==
    ASSUME IInv, Supplied, NEW n \in 1..Len(Gathered), Write(n)
    PROVE  Supplied'
<1>1. /\ pc = "write" /\ bytes_have_send' = bytes_have_send + n
      /\ bytes_to_send' = bytes_to_send - n
      /\ UNCHANGED <<m_type, result, m_iv, m_iv_count, cut>>
    BY DEF Write, clientVars
<1>2. n \in Nat /\ bytes_have_send \in Nat /\ bytes_to_send \in Int /\ Whole \in Nat
    BY GatheredSeq, ResponseIs DEF IInv, TypeOK, ResponseShape
<1>3. Whole' = Whole /\ (Answering' <=> Answering)
    BY <1>1 DEF Whole, Answering
<1> QED BY <1>1, <1>2, <1>3 DEF Supplied, MaySpin

(* EAGAIN: the file has the bytes that are left; without a file the head   *)
(* had them, or some of the head had been sent.                            *)
LEMMA SuppliedWriteFails == IInv /\ Supplied /\ WriteFails => Supplied'
<1> SUFFICES ASSUME IInv, Supplied, WriteFails PROVE Supplied'
    OBVIOUS
<1>1. /\ pc = "write" /\ m_type = "HTTP_CLIENT" /\ PointAtRest
      /\ cut' = (cut \/ bytes_have_send < HeadBytes)
      /\ UNCHANGED <<m_type, result, m_iv_count, bytes_have_send, bytes_to_send>>
    BY DEF WriteFails, clientVars
<1>2. /\ Answering /\ bytes_to_send > 0 /\ bytes_to_send = Whole - bytes_have_send
      /\ m_iv_count = IF result = "finished" THEN 2 ELSE 1
    BY <1>1 DEF IInv, Sending, Supplied
<1>3. /\ bytes_have_send \in Nat /\ bytes_to_send \in Int /\ HeadBytes \in Nat
      /\ m_iv[1].len \in Nat
    BY Sizes DEF IInv, TypeOK
<1>4. Whole' = Whole /\ Answering'
    BY <1>1, <1>2 DEF Whole, Answering
<1>5. CASE bytes_have_send >= m_iv[1].len
  <2>1. m_iv'[2].len = bytes_to_send
      BY <1>1, <1>5 DEF PointAtRest, Piece
  <2>2. CASE result = "finished"
      BY <1>1, <1>2, <1>4, <2>1, <2>2 DEF Supplied
  <2>3. CASE result # "finished"
    <3>1. bytes_have_send < HeadBytes
        BY <1>2, <1>3, <2>3 DEF Whole
    <3>2. cut'
        BY <1>1, <3>1, Zenon
    <3>3. MaySpin'
        BY <1>1, <2>3, <3>2 DEF MaySpin
    <3> QED BY <1>1, <1>2, <1>4, <3>3 DEF Supplied
  <2> QED BY <2>2, <2>3
<1>6. CASE ~(bytes_have_send >= m_iv[1].len)
  <2>1. bytes_have_send < m_iv[1].len
      BY <1>3, <1>6
  <2>2. m_iv'[1].len = m_iv[1].len - bytes_have_send
      BY <1>1, <2>1, PointedAt DEF IInv
  <2>3. m_iv'[1].len > 0
      BY <1>3, <2>1, <2>2
  <2> QED BY <1>1, <1>2, <1>4, <2>3 DEF Supplied
<1> QED BY <1>5, <1>6

(* To an HTTPS client the head is always there.                            *)
LEMMA SuppliedTls ==
    ASSUME IInv, Supplied, TlsWrite \/ \E n \in 0..Len(Stream) : TlsWriteFails(n)
    PROVE  Supplied'
<1>1. Encrypting'
    BY InvTlsWrite, InvTlsWriteFails DEF IInv
<1>2. m_type' = "HTTPS_CLIENT" /\ (pc' = "write" => Answering')
    BY DEF TlsWrite, TlsWriteFails, clientVars, IInv, Sending, Answering
<1>3. pc' = "write" => m_iv'[1].len > 0
    BY <1>1, <1>2, Sizes DEF Encrypting
<1> QED BY <1>2, <1>3 DEF Supplied

LEMMA SuppliedStep == IInv /\ Supplied /\ [Next]_vars => Supplied'
<1> SUFFICES ASSUME IInv, Supplied, [Next]_vars PROVE Supplied'
    OBVIOUS
<1> USE DEF clientVars, readVars, sendVars
<1>1. ASSUME Client PROVE Supplied'
  <2>1. /\ UNCHANGED <<m_type, result, bytes_have_send, bytes_to_send, pc>>
        /\ UNCHANGED <<m_iv, m_iv_count, cut>>
      BY <1>1 DEF Client, Send, Leave
  <2> QED BY <2>1, SuppliedStays
<1>2. ASSUME Read \/ WriteCloses PROVE Supplied'
  <2>1. /\ UNCHANGED <<m_type, result, bytes_have_send, bytes_to_send>>
        /\ pc' # "write"
      BY <1>2 DEF Read, Recv, RecvFails, RecvCloses, WriteCloses
  <2> QED BY <2>1, SuppliedStays
<1>3. ASSUME UNCHANGED vars PROVE Supplied'
  <2>1. /\ UNCHANGED <<m_type, result, bytes_have_send, bytes_to_send, pc>>
        /\ UNCHANGED <<m_iv, m_iv_count, cut>>
      BY <1>3 DEF vars
  <2> QED BY <2>1, SuppliedStays
<1> QED BY <1>1, <1>2, <1>3, SuppliedParse, SuppliedWrite, SuppliedWriteFails, SuppliedTls
        DEF Next, WriteSome, TryAgain

LEMMA SomethingToWrite == IInv /\ Supplied => NeverSpins
<1> SUFFICES ASSUME IInv, Supplied, pc = "write", ~MaySpin PROVE Gathered # << >>
    BY DEF NeverSpins
<1>1. m_iv[1] \in Pieces /\ m_iv[2] \in Pieces
    BY DEF IInv, TypeOK, Pieces
<1>2. m_iv[1].len \in Nat /\ m_iv[2].len \in Nat
    BY <1>1 DEF Pieces
<1>3. m_iv[1].len > 0 \/ (m_iv_count = 2 /\ m_iv[2].len > 0)
    BY DEF Supplied
<1>4. CASE m_iv_count = 2
  <2>1. Gathered = Bytes(m_iv[1]) \o Bytes(m_iv[2])
      BY <1>4 DEF Gathered
  <2>2. Len(Gathered) = m_iv[1].len + m_iv[2].len
      BY <1>1, <2>1, TwoPieces
  <2>3. Len(Gathered) # 0
      BY <1>2, <1>3, <2>2
  <2> QED BY <2>3, EmptySeq
<1>5. CASE m_iv_count # 2
  <2>1. Gathered = Bytes(m_iv[1])
      BY <1>1, <1>5, BytesOf, ConcatEmptySeq DEF Gathered
  <2>2. Len(Gathered) # 0
      BY <1>1, <1>2, <1>3, <1>5, <2>1, BytesOf
  <2> QED BY <2>2, EmptySeq
<1> QED BY <1>4, <1>5

(* While something is left to write, writev() is given something to write, *)
(* so the loop does not spin: but for the head of an answer without a file *)
(* that EAGAIN has cut.                                                    *)
THEOREM NeverSpinsHolds == Spec => []NeverSpins
BY InvInit, InvStep, SuppliedInit, SuppliedStep, SomethingToWrite, PTL DEF Spec
===============================================================================
