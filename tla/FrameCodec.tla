----------------------------- MODULE FrameCodec -----------------------------
(***************************************************************************)
(* StompMessageEncoderDecoder: a stream of bytes in which NUL ends a frame. *)
(* The text of a frame is a sequence of symbols; what UTF-8 makes of it is  *)
(* left out, but for the fact that no symbol but NUL is coded with a zero   *)
(* byte.  getFrameAscii of the client decodes alike.                       *)
(***************************************************************************)
EXTENDS Sequences

CONSTANT NUL

\* The bytes of a message.
Encode(message) == Append(message, NUL)

\* Nothing, or the message that the byte completes, and the bytes kept.
DecodeNextByte(buffer, nextByte) ==
    IF nextByte = NUL THEN [frames |-> <<buffer>>, buffer |-> <<>>]
                      ELSE [frames |-> <<>>, buffer |-> Append(buffer, nextByte)]
=============================================================================
