------------------------------ MODULE WsFraming ------------------------------
(***************************************************************************)
(* One direction of an established WebSocket stream, byte by byte: the     *)
(* frames ws_format_frame writes, with their three classes of lengths and  *)
(* their mask, and the loop of stream_ws_peek_frame that finds them again  *)
(* with ws_parse_frame however the bytes are cut into reads.  StreamWs     *)
(* takes for granted what is checked here.                                 *)
(*                                                                         *)
(* The exclusive or of Bitwise is recursive, so nothing can be proved      *)
(* about it; the one of two bytes has no more than eight bits and is       *)
(* written out.                                                            *)
(***************************************************************************)
EXTENDS Bytes

CONSTANTS
    WsFrames,       \* frames the sender may write
    MaxFrames,      \* bound on the frames of one behaviour
    WsReadSizes,    \* numbers of bytes one read of the decorated stream returns
    SampleLengths   \* lengths of payloads whose headers are looked at

VARIABLES
    written,        \* the frames written, in their order
    way,            \* bytes written that the receiver has not read
    input,          \* self->buffer of the receiver
    looping,        \* the receiver is in its loop over that buffer
    taken,          \* what stream_ws_handle_received_frame made of each frame
    lengthSeen      \* a length whose header is looked at, NULL for none

wsVars == <<written, way, input, looping, taken, lengthSeen>>

-----------------------------------------------------------------------------
(* websocket.c.                                                            *)

MinHeaderSize == 2      \* WS_MIN_HEADER_SIZE
MaskSize == 4           \* WS_MASK_SIZE
MaxHeaderSize == 14     \* WS_MAX_HEADER_SIZE

Masks == {m \in Seq(Byte) : Len(m) = MaskSize}

\* Longer payloads are longer than a memory (see LowBytes).
WsLengths == {n \in Nat : n <= 2147483647}

Payloads == {s \in Seq(Byte) : Len(s) \in WsLengths}

PossibleFrames ==
    [fin : BOOLEAN, opcode : 0..15, mask : Masks \cup {NULL}, payload : Payloads]

ASSUME WsFramingAssumption ==
    /\ MaxFrames \in Nat /\ WsReadSizes \subseteq Nat
    /\ SampleLengths \subseteq WsLengths
    /\ NULL \notin Masks /\ NULL \notin SampleLengths /\ WsFrames \subseteq PossibleFrames

Bit(x, weight) == (x \div weight) % 2

ByteXor(a, b) ==
    LET bit(w) == w * ((Bit(a, w) + Bit(b, w)) % 2)
    IN  bit(1) + bit(2) + bit(4) + bit(8) + bit(16) + bit(32) + bit(64) + bit(128)

ApplyMask(data, mask) ==
    [i \in DOMAIN data |-> ByteXor(data[i], mask[((i - 1) % MaskSize) + 1])]

\* The lowest four bytes of a length, the highest first.  A payload in memory is
\* shorter than 2^31, so the four above these are 0.
LowBytes(n) == [i \in 1..4 |-> (n \div <<16777216, 65536, 256, 1>>[i]) % 256]

\* Mutation of LengthField: 65536 is still put into two bytes.
LengthFieldOffByOne(n, maskFlag) ==
    CASE n > 65536              -> <<127 + maskFlag, 0, 0, 0, 0>> \o LowBytes(n)
      [] n >= 126 /\ n <= 65536 -> <<126 + maskFlag>> \o Rest(LowBytes(n), 2)
      [] OTHER                  -> <<n + maskFlag>>

\* The second byte and the extended length.
LengthField(n, maskFlag) ==
    CASE n > 65535              -> <<127 + maskFlag, 0, 0, 0, 0>> \o LowBytes(n)
      [] n >= 126 /\ n <= 65535 -> <<126 + maskFlag>> \o Rest(LowBytes(n), 2)
      [] OTHER                  -> <<n + maskFlag>>

Header(f, length) ==
    <<(IF f.fin THEN 128 ELSE 0) + f.opcode>>
    \o LengthField(length, IF f.mask = NULL THEN 0 ELSE 128)
    \o (IF f.mask = NULL THEN <<>> ELSE f.mask)

FormatWsFrame(f) ==
    Header(f, Len(f.payload))
    \o (IF f.mask = NULL THEN f.payload ELSE ApplyMask(f.payload, f.mask))

ExtendedSize(short) == CASE short = 126 -> 2 [] short = 127 -> 8 [] OTHER -> 0

\* Bytes 3 to 6 of a long length are more than a memory can hold, and so are
\* frames with one: such a frame is never complete.
LongLength(data) ==
    IF \E i \in 3..6 : data[i] # 0 \/ data[7] > 127 THEN 2147483647 - MaxHeaderSize
    ELSE 16777216 * data[7] + 65536 * data[8] + 256 * data[9] + data[10]

\* Mutation of HeaderSize: the mask is not counted.
HeaderSizeUnmasked(data) == MinHeaderSize + ExtendedSize(data[2] % 128)

HeaderSize(data) ==
    MinHeaderSize + ExtendedSize(data[2] % 128) + (IF data[2] > 127 THEN MaskSize ELSE 0)

PayloadLength(data) ==
    LET short == data[2] % 128
    IN  CASE short = 126 -> 256 * data[3] + data[4]
          [] short = 127 -> LongLength(data)
          [] OTHER       -> short

\* ws_parse_frame of length bytes that begin with data.
ParseWsFrame(data, length) ==
    LET size  == HeaderSize(data)
        total == size + PayloadLength(data)
    IN  IF length < MinHeaderSize THEN [complete |-> FALSE, frame_length |-> MinHeaderSize]
        ELSE IF length < size THEN [complete |-> FALSE, frame_length |-> size]
        ELSE [complete |-> length >= total, frame_length |-> total,
              fin |-> data[1] > 127, opcode |-> data[1] % 16, masked |-> data[2] > 127,
              mask_offset |-> MinHeaderSize + ExtendedSize(data[2] % 128),
              payload_offset |-> size, payload_length |-> total - size]

-----------------------------------------------------------------------------
WsInit ==
    /\ written = <<>> /\ way = <<>> /\ input = <<>> /\ taken = <<>> /\ looping = FALSE
    /\ lengthSeen = NULL

\* A header alone, for the payloads that are too long to be written here.
LookAtLength ==
    /\ written = <<>>
    /\ lengthSeen' \in SampleLengths
    /\ UNCHANGED <<written, way, input, looping, taken>>

\* stream_ws_write_frame
WriteWsFrame ==
    /\ Len(written) < MaxFrames
    /\ \E f \in WsFrames :
        /\ written' = Append(written, f)
        /\ way' = way \o FormatWsFrame(f)
    /\ UNCHANGED <<input, looping, taken, lengthSeen>>

ReadWsBytes ==
    /\ ~looping /\ way # <<>>
    /\ \E n \in WsReadSizes \cup {Len(way)} :
        /\ n \in 1..Len(way)
        /\ input' = input \o Front(way, n)
        /\ way' = Rest(way, n)
    /\ looping' = TRUE
    /\ UNCHANGED <<written, taken, lengthSeen>>

\* One turn of the loop: a server takes the mask off the payload.
TakeWsFrame ==
    LET f       == ParseWsFrame(input, Len(input))
        payload == SubSeq(input, f.payload_offset + 1, f.frame_length)
        mask    == SubSeq(input, f.mask_offset + 1, f.mask_offset + MaskSize)
    IN  /\ looping /\ input # <<>> /\ f.complete
        /\ taken' = Append(taken, [fin |-> f.fin, opcode |-> f.opcode, masked |-> f.masked,
                                   payload |-> IF f.masked THEN ApplyMask(payload, mask)
                                               ELSE payload])
        /\ input' = Rest(input, f.frame_length)
        /\ UNCHANGED <<written, way, looping, lengthSeen>>

AwaitWsBytes ==
    /\ looping
    /\ input = <<>> \/ ~ParseWsFrame(input, Len(input)).complete
    /\ looping' = FALSE
    /\ UNCHANGED <<written, way, input, taken, lengthSeen>>

WsNext ==
    /\ lengthSeen = NULL
    /\ LookAtLength \/ WriteWsFrame \/ ReadWsBytes \/ TakeWsFrame \/ AwaitWsBytes

WsSpec == WsInit /\ [][WsNext]_wsVars

-----------------------------------------------------------------------------
(* Properties.                                                             *)

AsWritten(f) ==
    [fin |-> f.fin, opcode |-> f.opcode, masked |-> f.mask # NULL, payload |-> f.payload]

\* The frames the receiver handles are those that were written, in their order,
\* with the payload as it was before it was masked; and when all bytes are read
\* there are no fewer of them.
WsFramesIntact ==
    /\ \A k \in DOMAIN taken : k \in DOMAIN written /\ taken[k] = AsWritten(written[k])
    /\ way = <<>> /\ ~looping => Len(taken) = Len(written) /\ input = <<>>

\* A length on either side of a change of its class comes back from its header,
\* the header fits into the WS_MAX_HEADER_SIZE bytes that the writer adds to its
\* memory, and a parser that has only a part of the frame never waits for more
\* bytes than the frame has.
WsLengthsDecoded ==
    lengthSeen # NULL => \A mask \in {NULL, <<1, 2, 3, 4>>} :
        LET n == lengthSeen
            h == Header([fin |-> TRUE, opcode |-> 2, mask |-> mask], n)
            f == ParseWsFrame(h, Len(h) + n)
        IN  /\ Len(h) <= MaxHeaderSize
            /\ f.complete /\ f.payload_length = n /\ f.payload_offset = Len(h)
            /\ \A k \in (0 .. Len(h)) \cup {Len(h) + n - 1} :
                k < Len(h) + n =>
                    LET part == ParseWsFrame(Front(h, Lesser(k, Len(h))), k)
                    IN  ~part.complete /\ part.frame_length \in k + 1 .. Len(h) + n

\* Frames arrive: their lengths, of any class, and what they carry, however they
\* are cut into reads (websocket.c and the loop of stream_ws_peek_frame).
WsFramesArrive == WsFramesIntact /\ WsLengthsDecoded

=============================================================================
