----------------------------- MODULE NodeClient ------------------------------
(***************************************************************************)
(* One connection of a node: fields as they are written to and read from   *)
(* the two streams it keeps for all its messages (NodeClient,              *)
(* Serialization.hpp), and the change of width a string goes through when  *)
(* it is stored (StringUtils).                                             *)
(*                                                                         *)
(* A packet may end early, as one from a client with a shorter request     *)
(* does, or go on where the handler of its type stops.  Sizes are the      *)
(* code's but for a byte, which has Base values and not 256.  Left out:    *)
(* logging of packets, readAt and peekAt, which only tests use.            *)
(***************************************************************************)
EXTENDS Integers, SequencesExt

CONSTANTS
    Base,        \* bound: the values of a byte, an even number
    Message,     \* sequences of fields
    Undefined    \* what a variable holds that was never assigned

VARIABLES
    packet,    \* history: the message a packet began with
    istream,   \* istream_: its bytes, how many were read, whether it failed
    fields,    \* the fields read from the packet so far
    ostream,   \* ostream_: its bytes
    sent       \* the message sent last, and its bytes

vars == <<packet, istream, fields, ostream, sent>>

Byte == 0 .. Base - 1

\* What each byte of an integer counts, the lowest first, and the two bytes of a
\* uint16_t together.
Weight == <<1, Base, Base * Base, Base * (Base * Base)>>
Word == 0 .. Base * Base - 1

\* Fields of each type; a u16string has as many units as its length can say.
Field ==
    [kind : {"bool"}, value : BOOLEAN]
    \cup [kind : {"uint16"}, value : Word]
    \cup [kind : {"uint32"}, value : 0 .. Base * Weight[4] - 1]
    \cup [kind : {"string"}, value : Seq(Byte)]
    \cup [kind : {"u16string"}, value : {s \in Seq(Word) : Len(s) < Base * Weight[4]}]

\* What the constants must be.
NodeClientConstants ==
    /\ Base \in Nat \ {0} /\ Base % 2 = 0
    /\ Message \subseteq Seq(Field)
    /\ Undefined \notin Seq(Byte)

-----------------------------------------------------------------------------
(***************************************************************************)
(* Writing                                                                 *)
(***************************************************************************)
\* An integer of so many bytes, the lowest first.
Bytes(n, size) == [i \in 1 .. size |-> (n \div Weight[i]) % Base]

\* The length of a string is written in two bytes, and so much of the string.
WriteString(s) ==
    LET length == Len(s) % Weight[3]
    IN  Bytes(length, 2) \o SubSeq(s, 1, length)

\* A u16string has its length in four bytes and two for each unit.
WriteWideString(s) ==
    Bytes(Len(s), 4) \o FlattenSeq([i \in DOMAIN s |-> Bytes(s[i], 2)])

Write(field) ==
    CASE field.kind = "bool" -> <<IF field.value THEN 1 ELSE 0>>
      [] field.kind = "uint16" -> Bytes(field.value, 2)
      [] field.kind = "uint32" -> Bytes(field.value, 4)
      [] field.kind = "string" -> WriteString(field.value)
      [] field.kind = "u16string" -> WriteWideString(field.value)

WriteAll(message) == FlattenSeq([i \in DOMAIN message |-> Write(message[i])])

-----------------------------------------------------------------------------
(***************************************************************************)
(* Reading                                                                 *)
(***************************************************************************)
Fits(stream, size) == ~stream.failed /\ stream.pos + size <= Len(stream.bytes)

\* Mutant: the position runs past the end.
AdvancePast(stream, size) ==
    [stream EXCEPT !.pos = @ + size, !.failed = ~Fits(stream, size)]

\* istream.read: a stream with too few bytes left gives those and fails, and one
\* that has failed gives nothing.
Advance(stream, size) ==
    IF Fits(stream, size) THEN [stream EXCEPT !.pos = @ + size]
    ELSE [stream EXCEPT !.pos = Len(stream.bytes), !.failed = TRUE]

\* What bytes read into an integer, of which there are four at most, make of it.
Number(bytes) ==
    LET Counts(i) == IF i \in DOMAIN bytes THEN bytes[i] * Weight[i] ELSE 0
    IN  Counts(1) + Counts(2) + Counts(3) + Counts(4)

\* The result of reading so many bytes.
ReadBytes(stream, size) ==
    [value |-> IF Fits(stream, size)
               THEN SubSeq(stream.bytes, stream.pos + 1, stream.pos + size)
               ELSE Undefined,
     stream |-> Advance(stream, size)]

\* A length and so many elements of the size given.  If there is no length the
\* string has the length that happens to be there and nothing is read into it; one
\* of 32 bits may throw instead (Terminate).
ReadString(stream, lengthSize, size) ==
    LET length == ReadBytes(stream, lengthSize)
    IN  IF length.value = Undefined THEN length
        ELSE ReadBytes(length.stream, Number(length.value) * size)

\* What is read for a field, and the value it makes.
ReadKind(stream, kind) ==
    CASE kind = "bool" -> ReadBytes(stream, 1)
      [] kind = "uint16" -> ReadBytes(stream, 2)
      [] kind = "uint32" -> ReadBytes(stream, 4)
      [] kind = "string" -> ReadString(stream, 2, 1)
      [] kind = "u16string" -> ReadString(stream, 4, 2)

Made(bytes, kind) ==
    CASE kind = "bool" -> bytes[1] # 0
      [] kind \in {"uint16", "uint32"} -> Number(bytes)
      [] kind = "string" -> bytes
      [] kind = "u16string" -> [i \in 1 .. Len(bytes) \div 2 |->
                                    Number(SubSeq(bytes, 2 * i - 1, 2 * i))]

ReadField(stream, kind) ==
    LET read == ReadKind(stream, kind)
    IN  [value |-> IF read.value = Undefined THEN Undefined ELSE Made(read.value, kind),
         stream |-> read.stream]

-----------------------------------------------------------------------------
(***************************************************************************)
(* Storing: names and texts are narrowed for the database and widened      *)
(***************************************************************************)
\* Mutant: char taken for unsigned.
ToWideStringUnsigned(s) == s

\* char is signed: its upper half becomes the last units.
ToWideString(s) ==
    [i \in DOMAIN s |-> IF s[i] < Base \div 2 THEN s[i] ELSE s[i] + Weight[3] - Base]

\* The upper byte of a unit is dropped.
FromWideString(s) == [i \in DOMAIN s |-> s[i] % Base]

-----------------------------------------------------------------------------
Init ==
    /\ packet = <<>>
    /\ istream = [bytes |-> <<>>, pos |-> 0, failed |-> FALSE]
    /\ fields = <<>>
    /\ ostream = <<>>
    /\ sent = [message |-> <<>>, bytes |-> <<>>]

\* Mutant: the state of the stream is not cleared.
OnRoutePacketUncleared(message, size) ==
    /\ packet' = message
    /\ istream' = [bytes |-> SubSeq(WriteAll(message), 1, size), pos |-> 0,
                   failed |-> istream.failed]
    /\ fields' = <<>>
    /\ UNCHANGED <<ostream, sent>>

\* A packet of so many bytes of a message arrives, whatever was left of the last.
OnRoutePacket(message, size) ==
    /\ packet' = message
    /\ istream' = [bytes |-> SubSeq(WriteAll(message), 1, size), pos |-> 0, failed |-> FALSE]
    /\ fields' = <<>>
    /\ UNCHANGED <<ostream, sent>>

\* The next field is read; that the stream failed is tested by nobody.
ReadNext ==
    /\ Len(fields) < Len(packet)
    /\ LET field == ReadField(istream, packet[Len(fields) + 1].kind)
       IN  /\ fields' = Append(fields, field.value)
           /\ istream' = field.stream
    /\ UNCHANGED <<packet, ostream, sent>>

\* A u16string is given room for a length that was not read: there may be none, and
\* nobody catches what is thrown.  The process ends, and a connection begins anew.
Terminate ==
    /\ Len(fields) < Len(packet)
    /\ packet[Len(fields) + 1].kind = "u16string" /\ ~Fits(istream, 4)
    /\ packet' = <<>>
    /\ istream' = [bytes |-> <<>>, pos |-> 0, failed |-> FALSE]
    /\ fields' = <<>>
    /\ ostream' = <<>>
    /\ sent' = [message |-> <<>>, bytes |-> <<>>]

\* Mutant: what was sent before is not removed.
SendAfterLast(message) ==
    /\ ostream' = ostream \o WriteAll(message)
    /\ sent' = [message |-> message, bytes |-> ostream']
    /\ UNCHANGED <<packet, istream, fields>>

\* Messages are sent while a request is read or handled.
Send(message) ==
    /\ ostream' = WriteAll(message)
    /\ sent' = [message |-> message, bytes |-> ostream']
    /\ UNCHANGED <<packet, istream, fields>>

Next ==
    \/ \E message \in Message : \E size \in 0 .. Len(WriteAll(message)) :
          OnRoutePacket(message, size)
    \/ ReadNext
    \/ Terminate
    \/ \E message \in Message : Send(message)

Spec == Init /\ [][Next]_vars

-----------------------------------------------------------------------------
\* What is left of the value of a field in a message.
Kept(field) ==
    IF field.kind = "string" THEN SubSeq(field.value, 1, Len(field.value) % Weight[3])
    ELSE field.value

\* Where the field i of a message ends in its bytes.
EndOf(message, i) == Len(WriteAll(SubSeq(message, 1, i)))

\* The state has its type: what has been read lies in the bytes there are.
TypeOK ==
    /\ packet \in Message \cup {<<>>}
    /\ istream.bytes \in Seq(Byte) /\ istream.pos \in 0 .. Len(istream.bytes)
    /\ istream.failed \in BOOLEAN
    /\ Len(fields) <= Len(packet)
    /\ ostream \in Seq(Byte)

\* Every field that is wholly in the packet is read as it was written, strings of
\* 65536 chars and more but for their cut, whatever the packets before left the
\* stream in; from where the packet ends nothing has a value (OnRoutePacket).
ReadsWhatIsThere ==
    \A i \in DOMAIN fields :
        fields[i] = IF EndOf(packet, i) <= Len(istream.bytes) THEN Kept(packet[i]) ELSE Undefined

\* Each packet sent is one message, and a peer reads from it what was put in.
SentIsRead ==
    \A i \in DOMAIN sent.message :
        LET Before(k) == [bytes |-> sent.bytes, pos |-> EndOf(sent.message, k - 1), failed |-> FALSE]
        IN  ReadField(Before(i), sent.message[i].kind).value = Kept(sent.message[i])

\* Exactly the strings of ASCII units, and of the last units, which are what chars
\* of the upper half become, are the same when they are loaded again: a name
\* with any other unit comes back as another name (StringUtils).
OnlyAsciiSurvives ==
    \A i \in DOMAIN fields :
        packet[i].kind = "u16string" /\ fields[i] # Undefined =>
            (ToWideString(FromWideString(fields[i])) = fields[i]
                <=> \A k \in DOMAIN fields[i] :
                        fields[i][k] < Base \div 2 \/ fields[i][k] >= Weight[3] - Base \div 2)
=============================================================================
