----------------------------- MODULE HttpExchange -----------------------------
(***************************************************************************)
(* One request and its answer: HttpHandler::process() (http/http_conn.cpp) *)
(* in a worker, against a client that sends the request in pieces and a    *)
(* kernel that takes the answer in pieces; with an HTTPS client, OpenSSL   *)
(* lies between, which sends records and keeps one that the kernel has not *)
(* taken.                                                                  *)
(*                                                                         *)
(* The data are lengths and positions: a request is where each of its      *)
(* lines ends and what it is, the answer is the bytes of m_write_buf followed *)
(* by those of the mapped file, each named by where it lies.               *)
(***************************************************************************)
EXTENDS Integers, Sequences, SequencesExt, FiniteSets

CONSTANTS
    Requests,           \* what a client may send, see IsRequest
    Targets,            \* what a url may name
    READ_BUFFER_SIZE,
    TriedTimes,         \* tried_times in read_()
    HeadBytes,          \* m_write_idx when the answer is ready
    FileBytes,          \* m_file_stat.st_size
    RecordBytes         \* what a TLS record holds: 16384

Lines == {"get", "post", "length", "close", "other", "blank", "bad"}
AllTargets == {"page", "login", "missing", "private", "directory", "empty"}

(* Lines, the blank one last, the Content-length they declare, and the     *)
(* bytes that the client sends after them.                                 *)
IsRequest(r) == /\ r.lines \in Seq([is : Lines, end : Nat \ {0}])
                /\ \A i \in DOMAIN r.lines : \A j \in 1..(i - 1) :
                       r.lines[j].end < r.lines[i].end
                /\ \A i \in DOMAIN r.lines : r.lines[i].is = "blank" <=> i = Len(r.lines)
                /\ Len(r.lines) >= 2
                /\ r.length \in Nat /\ r.body \in Nat

ASSUME ExchangeAssumption ==
    /\ \A r \in Requests : IsRequest(r)
    /\ Targets \subseteq AllTargets
    /\ {READ_BUFFER_SIZE, TriedTimes, HeadBytes, FileBytes} \subseteq Nat \ {0}
    /\ RecordBytes \in Nat /\ HeadBytes <= RecordBytes    \* WRITE_BUFFER_SIZE is 1024

VARIABLES
    m_type,
    request,
    target,             \* what do_request_() finds behind the url
    unsent, inbox,      \* bytes still with the client, and in the socket
    peer,               \* the client: "open", "shut" (no more to send), "gone"
    pc,
    m_read_idx, tried_times,
    filled,             \* how much of the request is in m_read_buf, in place
    garbled,            \* bytes have been received to a wrong place
    result,             \* HTTP_STATE that parse_ returned
    m_linger,
    m_iv, m_iv_count,   \* what is to be written: pieces of memory
    bytes_have_send, bytes_to_send,
    answer,             \* what the client has been sent
    cut,                \* EAGAIN has come with the head not sent
    repeated,           \* writev has followed a writev that took a part
    partial,            \* the last writev took a part
    encrypted           \* what SSL has put into records

clientVars == <<m_type, request, target, unsent, inbox, peer>>
readVars == <<m_read_idx, tried_times, filled, garbled>>
sendVars == <<m_iv, m_iv_count, bytes_have_send, bytes_to_send, answer, cut, repeated, partial,
              encrypted>>
vars == <<clientVars, pc, readVars, result, m_linger, sendVars>>

-------------------------------------------------------------------------------
Length(r, i) == r.lines[i].end - (IF i = 1 THEN 0 ELSE r.lines[i - 1].end)
HeadLength(r) == r.lines[Len(r.lines)].end
Size(r) == HeadLength(r) + r.body

Piece(base, at, len) == [base |-> base, at |-> at, len |-> len]
Nothing == Piece("m_write_buf", 0, 0)

(* epoll has reported the connection: the first bytes are there.           *)
Init == /\ m_type \in {"HTTP_CLIENT", "HTTPS_CLIENT"}
        /\ request \in Requests /\ target = "unknown"
        /\ inbox \in 1..Size(request)
        /\ unsent = Size(request) - inbox
        /\ peer = "open"
        /\ pc = "read"
        /\ m_read_idx = 0 /\ tried_times = TriedTimes
        /\ filled = 0 /\ garbled = FALSE
        /\ result = "none" /\ m_linger = TRUE
        /\ m_iv = <<Nothing, Nothing>> /\ m_iv_count = 0
        /\ bytes_have_send = 0 /\ bytes_to_send = 0
        /\ answer = << >>
        /\ cut = FALSE /\ repeated = FALSE /\ partial = FALSE
        /\ encrypted = << >>

-------------------------------------------------------------------------------
(* The client.  What it sends after read_() nobody reads.                  *)
Send(n) == /\ peer = "open" /\ pc = "read"
           /\ n \in 1..unsent
           /\ unsent' = unsent - n
           /\ inbox' = inbox + n
           /\ UNCHANGED <<m_type, request, target, peer, pc, readVars, result, m_linger,
                          sendVars>>

Leave(how) == /\ peer = "open"
              /\ how = "shut" => pc = "read"
              /\ pc # "closed"
              /\ peer' = how
              /\ UNCHANGED <<m_type, request, target, unsent, inbox, pc, readVars, result,
                             m_linger, sendVars>>

-------------------------------------------------------------------------------
(* read_().                                                                *)
Smaller(m, n) == IF m < n THEN m ELSE n

(* n more bytes of the request at place i of the buffer: behind those that *)
(* are there, or over them (or over what lies before the buffer).          *)
PutAt(i, n) == IF i = filled /\ ~garbled
               THEN filled' = filled + n /\ UNCHANGED garbled
               ELSE /\ garbled' = TRUE
                    /\ filled' = IF i < 0 THEN 0 ELSE Smaller(filled, i)

(* Mutant: the bytes already in the buffer are not counted.                *)
Recv_NoRoom ==
    LET n == Smaller(inbox, READ_BUFFER_SIZE)
    IN /\ pc = "read" /\ peer # "gone"
       /\ n > 0
       /\ inbox' = inbox - n
       /\ m_read_idx' = m_read_idx + n
       /\ PutAt(m_read_idx, n)
       /\ UNCHANGED <<m_type, request, target, unsent, peer, pc, tried_times, result,
                      m_linger, sendVars>>

(* recv() of what there is, as far as the buffer has room.  The bytes of   *)
(* an earlier call are overwritten when EAGAIN has moved m_read_idx back.  *)
Recv == LET n == Smaller(inbox, READ_BUFFER_SIZE - m_read_idx)
        IN /\ pc = "read" /\ peer # "gone"
           /\ n > 0
           /\ inbox' = inbox - n
           /\ m_read_idx' = m_read_idx + n
           /\ PutAt(m_read_idx, n)
           /\ UNCHANGED <<m_type, request, target, unsent, peer, pc, tried_times, result,
                          m_linger, sendVars>>

(* Mutant: as the code meant it, the index stays.                          *)
RecvFails_KeepsIndex ==
    /\ pc = "read" /\ peer = "open" /\ inbox = 0
    /\ tried_times' = tried_times - 1
    /\ IF tried_times' = 0 THEN pc' = "parse" ELSE UNCHANGED pc
    /\ UNCHANGED <<clientVars, m_read_idx, filled, garbled, result, m_linger, sendVars>>

(* EAGAIN: bytes_read, -1, is added to m_read_idx, but for the last time.  *)
RecvFails == /\ pc = "read" /\ peer = "open" /\ inbox = 0
             /\ tried_times' = tried_times - 1
             /\ IF tried_times' = 0
                THEN pc' = "parse" /\ UNCHANGED m_read_idx
                ELSE m_read_idx' = m_read_idx - 1 /\ UNCHANGED pc
             /\ UNCHANGED <<clientVars, filled, garbled, result, m_linger, sendVars>>

(* Mutant: recv() of no bytes is not taken for an end.                     *)
RecvCloses_OnlyAtEnd == /\ pc = "read"
                        /\ peer = "gone" \/ (peer = "shut" /\ inbox = 0)
                        /\ pc' = "closed"
                        /\ UNCHANGED <<clientVars, readVars, result, m_linger, sendVars>>

(* recv() returns 0, the client being done or the buffer having no room    *)
(* for what there is, or an error: close().                                *)
RecvCloses == /\ pc = "read"
              /\ \/ peer = "gone"
                 \/ peer = "shut" /\ inbox = 0
                 \/ inbox > 0 /\ m_read_idx = READ_BUFFER_SIZE
              /\ pc' = "closed"
              /\ UNCHANGED <<clientVars, readVars, result, m_linger, sendVars>>

-------------------------------------------------------------------------------
(* parse_() and do_request_(), as far as the bytes in the buffer are the   *)
(* request's.                                                              *)

(* parse_line_(): the line has been received, and its length, though the  *)
(* line does not start at 0, is within m_read_idx.                         *)
LineOk(i) == LET l == request.lines[i]
             IN /\ l.end <= filled
                /\ Length(request, i) <= m_read_idx
                /\ l.is # "bad"
                /\ i = 1 => l.is \in {"get", "post"}

(* The lines that parse_request_() and parse_headers_() have accepted.     *)
Parsed == {i \in DOMAIN request.lines : \A j \in 1..i : LineOk(j)}

IsParsed(kind) == \E i \in Parsed : request.lines[i].is = kind

ContentOk == HeadLength(request) + request.length <= m_read_idx

(* Mutant: parse_content_() takes what has come of the content.            *)
ParseOk_AnyContent == IsParsed("blank")

ParseOk == IsParsed("blank") /\ (request.length # 0 => ContentOk)

(* The form of a login or a registration, a POST's content.  Without any   *)
(* do_request_() reads through m_content, which nothing has set; in a form *)
(* that is not in place it may look for an & that is not there.  The page  *)
(* that the form leads to exists, whatever the check says.                 *)
CheckForm == IF request.length = 0 THEN {"crash"}
             ELSE IF HeadLength(request) + request.length <= filled THEN {"finished"}
             ELSE {"finished", "crash"}

(* What do_request_() returns.  A GET for a form's url looks for a file of *)
(* that name.                                                              *)
Looked(t) ==
    CASE t = "page" -> {"finished"}
      [] t = "login" -> IF IsParsed("post") THEN CheckForm ELSE {"missing"}
      [] t \in {"missing", "private"} -> {t}
      [] t = "directory" -> {"format"}
      [] t = "empty" -> {"internal"}

Results == {"finished", "missing", "private", "format", "internal"}

HeadInPlace == HeadLength(request) <= filled

(* What the code makes of a head with other bytes in it is not followed    *)
(* beyond a line that is in place and not accepted: any result it can      *)
(* return.                                                                 *)
Followed == \/ ~garbled \/ HeadInPlace
            \/ \E i \in DOMAIN request.lines : request.lines[i].end <= filled /\ ~LineOk(i)

Outcomes(t) ==
    IF Followed THEN (IF ParseOk THEN Looked(t) ELSE {"format"}) \X {~IsParsed("close")}
    ELSE (Results \cup {"crash"}) \X BOOLEAN

Header == Piece("m_write_buf", 0, HeadBytes)
File == Piece("m_file_address", 0, FileBytes)

(* write_to_buffer_(), for a result and the m_linger that goes with it.    *)
Prepare(r) ==
    IF r = "finished"
    THEN /\ m_iv' = <<Header, File>> /\ m_iv_count' = 2
         /\ bytes_to_send' = HeadBytes + FileBytes
    ELSE /\ m_iv' = <<Header, Nothing>> /\ m_iv_count' = 1
         /\ bytes_to_send' = HeadBytes

Parse == /\ pc = "parse"
         /\ IF Followed THEN target' \in Targets ELSE UNCHANGED target
         /\ \E o \in Outcomes(target') :
               /\ result' = o[1] /\ m_linger' = o[2]
               /\ IF o[1] = "crash"
                  THEN pc' = "closed" /\ UNCHANGED <<m_iv, m_iv_count, bytes_to_send>>
                  ELSE pc' = "write" /\ Prepare(o[1])
         /\ UNCHANGED <<m_type, request, unsent, inbox, peer, readVars, bytes_have_send,
                        answer, cut, repeated, partial, encrypted>>

-------------------------------------------------------------------------------
(* write_to_fd_() to an HTTP client.                                       *)
Bytes(p) == [i \in 1..p.len |-> <<p.base, p.at + i - 1>>]
Gathered == Bytes(m_iv[1]) \o (IF m_iv_count = 2 THEN Bytes(m_iv[2]) ELSE << >>)

(* Mutant: the loop goes on with nothing left.                             *)
AllSent_NotZero(left) == left < 0
AllSent(left) == left <= 0

(* writev() takes the first n bytes.  When that is all, either the         *)
(* connection is kept (init_()) or close() is called.  With nothing left   *)
(* in m_iv but bytes_to_send above 0 writev() returns 0 and the loop spins: *)
(* no step.                                                                *)
Write(n) ==
    /\ pc = "write" /\ peer # "gone" /\ m_type = "HTTP_CLIENT"
    /\ n \in 1..Len(Gathered)
    /\ answer' = answer \o SubSeq(Gathered, 1, n)
    /\ bytes_have_send' = bytes_have_send + n
    /\ bytes_to_send' = bytes_to_send - n
    /\ repeated' = (repeated \/ partial)
    /\ IF AllSent(bytes_to_send')
       THEN pc' = (IF m_linger THEN "kept" ELSE "closed") /\ partial' = FALSE
       ELSE partial' = TRUE /\ UNCHANGED pc
    /\ UNCHANGED <<clientVars, readVars, result, m_linger, m_iv, m_iv_count, cut, encrypted>>

(* Mutant: the rest of the file is not moved to.                           *)
PointAtRest_SameFile ==
    m_iv' = IF bytes_have_send >= m_iv[1].len
            THEN [m_iv EXCEPT ![1].len = 0]
            ELSE [m_iv EXCEPT ![1].at = bytes_to_send,
                              ![1].len = @ - bytes_have_send]

(* Point m_iv at the rest.  With the head sent that is the rest of the     *)
(* file; before, it is a place in m_write_buf that bytes_to_send names and *)
(* that need not hold the rest of the head.                                *)
PointAtRest ==
    m_iv' = IF bytes_have_send >= m_iv[1].len
            THEN <<[m_iv[1] EXCEPT !.len = 0],
                   Piece("m_file_address", bytes_have_send - HeadBytes, bytes_to_send)>>
            ELSE [m_iv EXCEPT ![1].at = bytes_to_send,
                              ![1].len = @ - bytes_have_send]

(* EAGAIN.                                                                 *)
WriteFails ==
    /\ pc = "write" /\ peer # "gone" /\ m_type = "HTTP_CLIENT"
    /\ PointAtRest
    /\ cut' = (cut \/ bytes_have_send < HeadBytes)
    /\ partial' = FALSE
    /\ UNCHANGED <<clientVars, pc, readVars, result, m_linger, m_iv_count, bytes_have_send,
                   bytes_to_send, answer, repeated, encrypted>>

(* Another error, the client being gone or m_iv pointing before the file: *)
(* close().                                                                *)
WriteCloses == /\ pc = "write"
               /\ peer = "gone" \/ \E i \in 1..m_iv_count : m_iv[i].at < 0
               /\ pc' = "closed"
               /\ UNCHANGED <<clientVars, readVars, result, m_linger, sendVars>>

-------------------------------------------------------------------------------
(* write_to_fd_() to an HTTPS client: SSL_writev() copies the pieces into  *)
(* one buffer and calls SSL_write(), which returns when all has been sent, *)
(* or with EAGAIN.  A call that repeats one that had EAGAIN sends the      *)
(* record that was kept, as it is, and takes the rest from the buffer it   *)
(* is now given: as long as before and in the same place (alloca), which   *)
(* SSL_write() asks for.  SSL_read() does to read_() what recv() does,     *)
(* bytes being there when their record is complete.                        *)
Stream == encrypted \o SubSeq(Gathered, Len(encrypted) + 1, Len(Gathered))

TlsWrite == /\ pc = "write" /\ peer # "gone" /\ m_type = "HTTPS_CLIENT"
            /\ answer' = Stream
            /\ encrypted' = Stream
            /\ bytes_have_send' = bytes_have_send + Len(Gathered)
            /\ bytes_to_send' = bytes_to_send - Len(Gathered)
            /\ IF AllSent(bytes_to_send')
               THEN pc' = (IF m_linger THEN "kept" ELSE "closed")
               ELSE UNCHANGED pc
            /\ UNCHANGED <<clientVars, readVars, result, m_linger, m_iv, m_iv_count, cut,
                           repeated, partial>>

(* EAGAIN, with n bytes sent in whole records.                             *)
TlsWriteFails(n) ==
    /\ pc = "write" /\ peer # "gone" /\ m_type = "HTTPS_CLIENT"
    /\ n \in Len(answer)..(Len(Stream) - 1) /\ n % RecordBytes = 0
    /\ answer' = SubSeq(Stream, 1, n)
    /\ encrypted' = SubSeq(Stream, 1, Smaller(n + RecordBytes, Len(Stream)))
    /\ PointAtRest
    /\ UNCHANGED <<clientVars, pc, readVars, result, m_linger, m_iv_count, bytes_have_send,
                   bytes_to_send, cut, repeated, partial>>

-------------------------------------------------------------------------------
Client == (\E n \in 1..unsent : Send(n)) \/ Leave("shut") \/ Leave("gone")
Read == Recv \/ RecvFails \/ RecvCloses
WriteSome == (\E n \in 1..Len(Gathered) : Write(n)) \/ TlsWrite \/ WriteCloses
TryAgain == WriteFails \/ \E n \in 0..Len(Stream) : TlsWriteFails(n)
Next == Client \/ Read \/ Parse \/ WriteSome \/ TryAgain

Spec == Init /\ [][Next]_vars

(* The worker runs, and the kernel does not answer EAGAIN for ever.        *)
FairSpec == Spec /\ WF_vars(Read \/ Parse) /\ SF_vars(WriteSome)

-------------------------------------------------------------------------------
(* Every variable has its type.  m_read_idx can be negative: fewer bytes   *)
(* than EAGAINs.                                                           *)
TypeOK == /\ m_type \in {"HTTP_CLIENT", "HTTPS_CLIENT"}
          /\ request \in Requests /\ target \in Targets \cup {"unknown"}
          /\ unsent \in Nat /\ inbox \in Nat /\ unsent + inbox <= Size(request)
          /\ peer \in {"open", "shut", "gone"}
          /\ pc \in {"read", "parse", "write", "kept", "closed"}
          /\ m_read_idx \in (1 - TriedTimes)..READ_BUFFER_SIZE
          /\ tried_times \in 0..TriedTimes
          /\ filled \in 0..READ_BUFFER_SIZE
          /\ result \in Results \cup {"none", "crash"}
          /\ {garbled, m_linger, cut, repeated, partial} \subseteq BOOLEAN
          /\ bytes_have_send \in Nat /\ bytes_to_send \in Int
          /\ m_iv \in [1..2 -> [base : {"m_write_buf", "m_file_address"},
                                at : Int, len : Nat]]
          /\ m_iv_count \in 0..2
          /\ {answer, encrypted} \subseteq Seq({"m_write_buf", "m_file_address"} \X Int)

Received == Size(request) - unsent - inbox

WellFormed(i) == /\ request.lines[i].is # "bad"
                 /\ i = 1 => request.lines[i].is \in {"get", "post"}

(* A request that is answered with a page has no line that could be read   *)
(* and is not well formed, and its head and as much after it as it         *)
(* declares have been received, wherever the pieces of what it declares    *)
(* fell between the attempts to read.  Not if pieces of the head fell      *)
(* there: an attempt that failed has moved m_read_idx back, the next piece *)
(* is put over bytes of the head, and what is left of a Content-length can *)
(* declare less than the client has still to send.                         *)
PageNeedsWholeRequest ==
    result = "finished" =>
        /\ \A i \in DOMAIN request.lines : request.lines[i].end <= filled => WellFormed(i)
        /\ ~garbled \/ HeadInPlace => Received >= HeadLength(request) + request.length

(* The attempts to read that failed, wherever they fell, have taken all    *)
(* but one of their number off the length.  So a request that has come     *)
(* completely, its head before the first of them, is refused, whatever it  *)
(* asks for, when a line is longer than what is left or when the content   *)
(* is not followed by that many other bytes; and for no other reason.      *)
RefusedForItsTail ==
    LET left == Size(request) - (TriedTimes - 1)
        enough == /\ \A i \in DOMAIN request.lines : Length(request, i) <= left
                  /\ request.length # 0 => HeadLength(request) + request.length <= left
    IN result # "none" /\ HeadInPlace /\ Received = Size(request)
       /\ (\A i \in DOMAIN request.lines : WellFormed(i)) =>
           IF enough THEN result \in Looked(target) ELSE result = "format"

Response == Bytes(Header) \o (IF result = "finished" THEN Bytes(File) ELSE << >>)

(* The client gets the answer from its first byte, in order, nothing left  *)
(* out or sent twice, and all of it when process() ends with nothing left  *)
(* to send.  An HTTPS client always does: what EAGAIN does to m_iv is to   *)
(* bytes that SSL has already encrypted.  An HTTP client does if the head  *)
(* goes out before the first EAGAIN, and each writev that takes a part is  *)
(* followed by an EAGAIN before the next.  (If not, the code repeats what  *)
(* it has sent.)                                                           *)
AnswerIsWhole ==
    m_type = "HTTPS_CLIENT" \/ (~cut /\ ~repeated) =>
        /\ IsPrefix(answer, Response)
        /\ result \notin {"none", "crash"} /\ bytes_to_send <= 0 => answer = Response

(* What pointing m_iv at the rest can leave without a byte to write: the   *)
(* head of an answer without a file, when EAGAIN came before all of it was *)
(* sent.                                                                   *)
MaySpin == cut /\ result # "finished"

(* The worker does not call writev() for nothing until the end of time:    *)
(* while bytes_to_send says that something is left, m_iv has something.    *)
NeverSpins == pc = "write" => Gathered # << >> \/ MaySpin

(* The worker is not kept for ever by one request: process() ends.         *)
ExchangeEnds == <>(pc \in {"kept", "closed"} \/ MaySpin)

(* A form that has come completely is checked, and the page it leads to    *)
(* is sent ("2 登录检测", "3 注册检测", src/root/README.md:6).                 *)
FormIsChecked ==
    result # "none" /\ ~garbled /\ Received = Size(request)
    /\ (\A i \in DOMAIN request.lines : WellFormed(i))
    /\ target = "login" /\ IsParsed("post") /\ request.length > 0
    /\ request.body >= request.length => result = "finished"
===============================================================================
