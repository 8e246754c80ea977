------------------------------- MODULE SockIO -------------------------------
(***************************************************************************)
(* How bytes become messages (namespace sockio): one end of a connection   *)
(* writes messages that end in CR LF, the other reads what has arrived, at *)
(* most a buffer full, splits it at CR LF, and keeps the pieces that are   *)
(* not empty.  Nothing is carried over from one read to the next: what a   *)
(* read leaves of a message is the beginning of a message to the next.     *)
(*                                                                         *)
(* A byte is a member of a small set: CR, LF, NUL or text.                 *)
(***************************************************************************)
EXTENDS SequencesExt, Integers

CONSTANTS
  CR, LF, NUL,   \* the bytes the code knows
  Stray,         \* a byte that happens to lie behind the buffer
  Texts,         \* the messages that are written, without their CR LF
  BuffSize,      \* BUFF_SIZE
  MaxWrites      \* bound: writes

CRLF == <<CR, LF>>
Bytes == {CR, LF, NUL, Stray} \cup UNION {ToSet(text) : text \in Texts}

ASSUME BytesAssumption == CR # LF /\ NUL \notin {CR, LF} /\ Stray \notin {CR, LF, NUL}
ASSUME BuffAssumption == BuffSize \in Nat \ {0}

(* Every message has a command, and what a user types is a line, with no LF  *)
(* in it.  Nobody types a NUL, which a terminal sends for CTRL+@ only.       *)
ASSUME TextsAssumption ==
  \A text \in Texts :
    /\ text \in Seq(Bytes \ {NUL}) /\ text # <<>>
    /\ \A i \in 1..(Len(text) - 1) : ~(text[i] = CR /\ text[i + 1] = LF)

VARIABLES
  sent,      \* the messages that have been written
  writes,    \* number of writes
  ends,      \* how many bytes had been written after each write
  wire,      \* bytes that are under way
  arrived,   \* bytes that are available on the socket
  eof,       \* the writer has closed the connection
  msgs,      \* sock_msgs
  taken,     \* the messages that the reader has taken off sock_msgs
  consumed,  \* the bytes that have been read
  chunk,     \* full_msg of the last read
  cut,       \* a read has filled the buffer, or ended where no write did
  state      \* "reading", "undefined": the first of no messages has been taken

vars == <<sent, writes, ends, wire, arrived, eof, msgs, taken, consumed, chunk, cut, state>>

Init ==
  /\ sent = <<>> /\ writes = 0 /\ ends = {0} /\ wire = <<>> /\ arrived = <<>> /\ eof = FALSE
  /\ msgs = <<>> /\ taken = <<>> /\ consumed = <<>> /\ chunk = <<>> /\ cut = FALSE
  /\ state = "reading"

-----------------------------------------------------------------------------
Finds(s, i) == i < Len(s) /\ SubSeq(s, i, i + 1) = CRLF

(* Mutant: the offset moves on by one byte. *)
SplitByOne(s) ==
  LET from[o \in 1..(Len(s) + 1)] ==
        LET found == {i \in o..Len(s) : Finds(s, i)} IN
        IF found = {} THEN <<SubSeq(s, o, Len(s))>>
        ELSE <<SubSeq(s, o, Min(found) - 1)>> \o from[Min(found) + 1]
  IN  from[1]

(* split(full_msg, "\r\n") *)
Split(s) ==
  LET from[o \in 1..(Len(s) + 1)] ==
        LET found == {i \in o..Len(s) : Finds(s, i)} IN
        IF found = {} THEN <<SubSeq(s, o, Len(s))>>
        ELSE <<SubSeq(s, o, Min(found) - 1)>> \o from[Min(found) + 2]
  IN  from[1]

(* What is pushed back of the parts: those that are not empty. *)
NotEmpty(parts) == FlattenSeq([i \in DOMAIN parts |-> IF parts[i] = <<>> THEN <<>> ELSE <<parts[i]>>])

(* Mutant: the pieces are pushed to the front. *)
PiecesReversed(text) == Reverse(NotEmpty(Split(text)))

Pieces(text) == NotEmpty(Split(text))

(* std::string(buff.data()): up to the first NUL.  The array is zeroed       *)
(* before, so that there is one, unless the read has filled it: then the     *)
(* string goes on into what lies behind the array.                           *)
CString(s) ==
  IF NUL \in ToSet(s) THEN {SubSeq(s, 1, Min({i \in DOMAIN s : s[i] = NUL}) - 1)}
  ELSE IF Len(s) < BuffSize THEN {s}
  ELSE {s, Append(s, Stray)}

-----------------------------------------------------------------------------
(* try_writing_to_sock; PASS comes with a second CR LF. *)
TryWriting(text, tail) ==
  /\ ~eof /\ writes < MaxWrites
  /\ writes' = writes + 1
  /\ sent' = Append(sent, text)
  /\ wire' = wire \o text \o CRLF \o tail
  /\ ends' = ends \cup {Len(consumed \o arrived \o wire')}
  /\ UNCHANGED <<arrived, eof, msgs, taken, consumed, chunk, cut, state>>

Close ==
  /\ ~eof
  /\ eof' = TRUE
  /\ UNCHANGED <<sent, writes, ends, wire, arrived, msgs, taken, consumed, chunk, cut, state>>

(* TCP delivers the bytes in order, in segments of any size. *)
Arrive ==
  /\ \E n \in 1..Len(wire) :
       /\ arrived' = arrived \o SubSeq(wire, 1, n)
       /\ wire' = SubSeq(wire, n + 1, Len(wire))
  /\ UNCHANGED <<sent, writes, ends, eof, msgs, taken, consumed, chunk, cut, state>>

(* read_some: what is available, but no more than the buffer holds. *)
Got == SubSeq(arrived, 1, Min({BuffSize, Len(arrived)}))

ReadSome ==
  /\ arrived' = SubSeq(arrived, Len(Got) + 1, Len(arrived))
  /\ consumed' = consumed \o Got
  /\ chunk' \in CString(Got)
  /\ cut' = (cut \/ Len(consumed') \notin ends \/ Len(Got) = BuffSize)

(* Mutant: what has been read before is forgotten. *)
UpdateForgets ==
  /\ state = "reading" /\ arrived # <<>>
  /\ ReadSome
  /\ msgs' = Pieces(chunk')
  /\ UNCHANGED <<sent, writes, ends, wire, eof, taken, state>>

(* update_sockmsgs *)
UpdateSockmsgs ==
  /\ state = "reading" /\ arrived # <<>>
  /\ ReadSome
  /\ msgs' = msgs \o Pieces(chunk')
  /\ UNCHANGED <<sent, writes, ends, wire, eof, taken, state>>

(* The caller, or try_reading_from_sock, takes a message that is there. *)
TakeMessage ==
  /\ state = "reading" /\ msgs # <<>>
  /\ taken' = Append(taken, Head(msgs))
  /\ msgs' = Tail(msgs)
  /\ UNCHANGED <<sent, writes, ends, wire, arrived, eof, consumed, chunk, cut, state>>

(* Mutant: the socket is read without waiting. *)
ReadWithoutWaiting ==
  /\ state = "reading" /\ msgs = <<>> /\ arrived = <<>>
  /\ state' = "undefined"
  /\ UNCHANGED <<sent, writes, ends, wire, arrived, eof, msgs, taken, consumed, chunk, cut>>

(* try_reading_from_sock with no message at hand: it waits, reads, and takes *)
(* the first message, if there is one or not.                                *)
TryReading ==
  /\ state = "reading" /\ msgs = <<>>
  /\ arrived # <<>> \/ (eof /\ wire = <<>>)
  /\ ReadSome
  /\ IF Pieces(chunk') = <<>> THEN state' = "undefined" /\ UNCHANGED <<msgs, taken>>
     ELSE /\ taken' = Append(taken, Head(Pieces(chunk')))
          /\ msgs' = Tail(Pieces(chunk'))
          /\ UNCHANGED state
  /\ UNCHANGED <<sent, writes, ends, wire, eof>>

Next ==
  \/ \E text \in Texts, tail \in {<<>>, CRLF} : TryWriting(text, tail)
  \/ Close \/ Arrive
  \/ UpdateSockmsgs \/ TakeMessage \/ TryReading

Spec == Init /\ [][Next]_vars

-----------------------------------------------------------------------------
Received == taken \o msgs

(* What split returns is what it was given, taken apart at every CR LF: with  *)
(* a CR LF behind every part it is what it was, with one CR LF behind it.    *)
Joined(parts) == FlattenSeq([i \in DOMAIN parts |-> parts[i] \o CRLF])

SplitRoundTrip ==
  /\ Joined(Split(chunk)) = chunk \o CRLF
  /\ \A part \in ToSet(Split(chunk)) : \A i \in DOMAIN part : ~Finds(part, i)

(* As long as every read ends where a write has ended and does not fill the  *)
(* buffer, the messages are received as they were sent: in order, none lost, *)
(* none twice, whether they are polled for or waited for.                    *)
AlignedIsExact ==
  ~cut => /\ IsPrefix(Received, sent)
          /\ arrived = <<>> /\ wire = <<>> => Received = sent

(* However the reads cut the stream, its text is received in order: what may *)
(* be lost is where one message ends and the next begins.                    *)
TextOf(s) == FlattenSeq([i \in DOMAIN s |-> IF s[i] \in {CR, LF, Stray} THEN <<>> ELSE <<s[i]>>])
TextIsKept == TextOf(FlattenSeq(Received)) = TextOf(consumed)

(* The first of no messages is taken only at the end of the stream, or after *)
(* a read that has cut it: for one, between the two CR LF of PASS.           *)
UndefinedOnlyAtEndOrCut == state = "undefined" => eof \/ cut

(* "broadcast messages across the chat room": what is received are messages  *)
(* that were sent.  Not when a read ends inside one.                         *)
LinesArriveWhole == ToSet(Received) \subseteq ToSet(sent)

=============================================================================
