-------------------------------- MODULE Utf8 --------------------------------
(***************************************************************************)
(* The byte-wise UTF-8 checker (utf8_checker_t) that validates text frames *)
(* and close reasons of a websocket, and percent-decoded query strings,    *)
(* next to a definition of UTF-8 by what a sequence of bytes encodes.      *)
(* A byte is a number of 0..255; its masks are intervals of that range.    *)
(***************************************************************************)
EXTENDS Naturals, Sequences, SequencesExt

\* utf8_checker_t: m_current_symbol, m_current_symbol_rest_bytes, m_state.
CheckerInit == [symbol |-> 0, rest |-> 0, state |-> "valid"]

\* check_overlong: the byte after E0, F0, F8 or FC decides.
check_overlong(u, byte) ==
    LET Overlong == \/ u.rest = 2 /\ byte \in 128..159
                    \/ u.rest = 3 /\ byte \in 128..143
                    \/ u.rest = 4 /\ byte \in 128..135
                    \/ u.rest = 5 /\ byte \in 128..131
    IN  IF u.rest > 0 /\ u.state = "may_be_overlong"
        THEN IF Overlong THEN "overlong" ELSE "valid"
        ELSE CASE byte \in {192, 193} -> "overlong"
               [] byte \in {224, 240, 248, 252} -> "may_be_overlong"
               [] OTHER -> u.state

\* A plausible slip: the bound itself is let through.
OffByOneSymbol(symbol) == symbol \notin 55296..57343 /\ symbol <= 1114112

\* validate_current_symbol: surrogates, and what is past U+10FFFF.
ValidSymbol(symbol) == symbol \notin 55296..57343 /\ symbol < 1114112

\* The number of bytes that follow a first byte, and the bits it carries.
FirstByte(byte) ==
    CASE byte \in 0..127 -> [rest |-> 0, bits |-> byte]
      [] byte \in 192..223 -> [rest |-> 1, bits |-> byte % 32]
      [] byte \in 224..239 -> [rest |-> 2, bits |-> byte % 16]
      [] byte \in 240..247 -> [rest |-> 3, bits |-> byte % 8]
      [] byte \in 248..251 -> [rest |-> 4, bits |-> byte % 4]
      [] byte \in 252..253 -> [rest |-> 5, bits |-> byte % 2]

\* process_byte
CheckByte(u, byte) ==
    LET overlong == check_overlong(u, byte)
        symbol == u.symbol * 64 + (byte % 64)
    IN  CASE u.rest > 0 /\ byte \in 128..191 ->
               [symbol |-> symbol, rest |-> u.rest - 1,
                state |-> IF u.rest = 1 /\ ~ValidSymbol(symbol)
                          THEN "invalid" ELSE overlong]
          [] u.rest > 0 /\ byte \notin 128..191 -> [u EXCEPT !.state = "invalid"]
          [] u.rest = 0 /\ byte \in (128..191) \cup (254..255) ->
               [u EXCEPT !.symbol = byte, !.state = "invalid"]
          [] OTHER -> [symbol |-> FirstByte(byte).bits,
                       rest |-> FirstByte(byte).rest, state |-> overlong]

Accepting(u) == u.state \in {"valid", "may_be_overlong"}

finalized(u) == u.rest = 0

\* reset: the position in a symbol is forgotten, a rejection is not.
ResetChecker(u) == [u EXCEPT !.symbol = 0, !.rest = 0]

\* The checker stops at the first byte it rejects.
CheckBytes(u, bytes) ==
    FoldLeft(LAMBDA acc, byte : IF Accepting(acc) THEN CheckByte(acc, byte) ELSE acc,
             u, bytes)

check_utf8_is_correct(bytes) ==
    LET u == CheckBytes(CheckerInit, bytes) IN Accepting(u) /\ finalized(u)

-----------------------------------------------------------------------------
(* UTF-8 by definition: the encodings of the scalar values, concatenated.  *)

Tail6(n, k) == 128 + ((n \div (64 ^ k)) % 64)

EncodeScalar(n) ==
    CASE n < 128 -> <<n>>
      [] n \in 128..2047 -> <<192 + n \div 64, Tail6(n, 0)>>
      [] n \in 2048..65535 -> <<224 + n \div 4096, Tail6(n, 1), Tail6(n, 0)>>
      [] n >= 65536 ->
           <<240 + n \div 262144, Tail6(n, 2), Tail6(n, 1), Tail6(n, 0)>>

Scalar(n) == n \in 0..1114111 /\ n \notin 55296..57343

\* What a chunk of 1 to 4 bytes would have to encode.
ScalarOf(chunk) ==
    LET low(k) == chunk[k] % 64
    IN  CASE Len(chunk) = 1 -> chunk[1]
          [] Len(chunk) = 2 -> (chunk[1] % 32) * 64 + low(2)
          [] Len(chunk) = 3 -> ((chunk[1] % 16) * 64 + low(2)) * 64 + low(3)
          [] Len(chunk) = 4 ->
               (((chunk[1] % 8) * 64 + low(2)) * 64 + low(3)) * 64 + low(4)

RECURSIVE IsUtf8(_)
IsUtf8(bytes) ==
    \/ bytes = <<>>
    \/ \E k \in 1..4 :
          /\ k <= Len(bytes)
          /\ LET chunk == SubSeq(bytes, 1, k)
             IN  Scalar(ScalarOf(chunk)) /\ EncodeScalar(ScalarOf(chunk)) = chunk
          /\ IsUtf8(SubSeq(bytes, k + 1, Len(bytes)))

=============================================================================
