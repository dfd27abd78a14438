-------------------------------- MODULE Util --------------------------------
(***************************************************************************)
(* util.c and netUtil.c: the byte loops that every request field and every *)
(* store entry goes through, and str_to_num.  Each function is an operator *)
(* over the sequence of results its read() or write() calls return; the    *)
(* state machine below only picks one call with its system-call results,   *)
(* so that TLC checks every such call of the bounded sets against the      *)
(* contract spec.md section 6 (and the C library) gives it.                *)
(***************************************************************************)
EXTENDS Integers, Sequences, SequencesExt

CONSTANTS Bytes,      \* ordinary bytes a peer sends
          BufSpace,   \* buf_space of read_line (MAX_MSG_SIZE in recv_string)
          MaxLen,     \* largest len given to read_bytes / write_bytes
          LongBits,   \* width of long, the type strtol returns
          IntBits     \* width of int, the type str_to_num casts to

ASSUME BufSpace >= 1 /\ IntBits < LongBits

VARIABLE call   \* the call under check and the results of its system calls

-----------------------------------------------------------------------------
(* read_line reads one byte per read(); a read returns a byte, fails with  *)
(* EINTR or another error, or reports end of file.  After the last result *)
(* listed the peer has closed the connection.                              *)
Terminators == {"NL", "NUL"}           \* '\n' and '\0'
ByteResults == Bytes \cup Terminators \cup {"EINTR", "ERR", "EOF"}

NextByte(rs) == IF rs = <<>> THEN "EOF" ELSE Head(rs)

FitsNoNul(buffer) == Len(buffer) < BufSpace

(* bytes_read_total < buf_space - 1: room for one more byte and the NUL.  *)
Fits(buffer) == Len(buffer) < BufSpace - 1

(* The result: the return value, the bytes stored and whether the NUL was *)
(* written; on an end of file before any byte it is not, and the buffer    *)
(* keeps whatever it held before the call.                                 *)
RECURSIVE ReadLineLoop(_, _)
ReadLineLoop(rs, buffer) ==
    LET ch == NextByte(rs) IN
    CASE ch = "ERR"                     -> [ret |-> -1, field |-> buffer, nul |-> FALSE]
      [] ch = "EINTR"                   -> ReadLineLoop(Tail(rs), buffer)
      [] ch = "EOF" /\ buffer = <<>>    -> [ret |-> 0, field |-> buffer, nul |-> FALSE]
      [] ch \in Terminators \cup {"EOF"} -> [ret |-> Len(buffer), field |-> buffer, nul |-> TRUE]
      [] OTHER -> ReadLineLoop(Tail(rs), IF Fits(buffer) THEN Append(buffer, ch) ELSE buffer)

read_line(rs) == ReadLineLoop(rs, <<>>)

(* recv_string fails (and closes the socket) only when read_line < 0.     *)
recv_string(rs) == read_line(rs).ret >= 0

-----------------------------------------------------------------------------
(* read_bytes and write_bytes call read()/write() for the bytes left until *)
(* len bytes are transferred.  A result is what the call returns: -1 on an *)
(* error, 0 at the end of the file, or the count the kernel has ready, of  *)
(* which the call returns at most the bytes asked for.                     *)
Counts == 1..2

SysRead(rs, left) ==
    IF rs = <<>> THEN 0 ELSE IF Head(rs) <= 0 THEN Head(rs) ELSE Min({Head(rs), left})

SysWrite(ws, left) == IF Head(ws) < 0 THEN -1 ELSE Min({Head(ws), left})

ReadBytesResultNoCheck(n, total) == total

(* if (bytes_read < 0) return GEN_ERR_ANY; return bytes_read_total;       *)
ReadBytesResult(n, total) == IF n < 0 THEN -1 ELSE total

RECURSIVE ReadBytesLoop(_, _, _)
ReadBytesLoop(rs, left, total) ==
    LET n == SysRead(rs, left) IN
    IF left - n > 0 /\ n > 0 THEN ReadBytesLoop(Tail(rs), left - n, total + n)
    ELSE ReadBytesResult(n, total + n)

read_bytes(rs, len) == ReadBytesLoop(rs, len, 0)

WriteMoreEarly(left, n) == left > 1 /\ n >= 0

(* while ((bytes_left > 0) && (bytes_written >= 0))                        *)
WriteMore(left, n) == left > 0 /\ n >= 0

RECURSIVE WriteBytesLoop(_, _, _)
WriteBytesLoop(ws, left, total) ==
    LET n == SysWrite(ws, left) IN
    IF WriteMore(left - n, n) THEN WriteBytesLoop(Tail(ws), left - n, total + n)
    ELSE IF n < 0 THEN -1 ELSE total + n

write_bytes(ws, len) == WriteBytesLoop(ws, len, 0)

-----------------------------------------------------------------------------
(* netUtil.c: send_string writes the string with its NUL in one            *)
(* write_bytes call, send_server_reply the one-byte error code;            *)
(* CHECK_SOCK_ERROR closes the socket and returns GEN_ERR_ANY when          *)
(* write_bytes fails.                                                      *)
GEN_ERR_ANY == -1

(* (int) (strlen(string) + 1)                                              *)
SendLen(str) == Len(str) + 1

(* The result and, after a complete write, the bytes the peer receives:    *)
(* the first len bytes of the string followed by its NUL.                  *)
send_string(ws, str) ==
    LET n == write_bytes(ws, SendLen(str)) IN
    IF n < 0 THEN [ret |-> GEN_ERR_ANY, wire |-> <<>>]
    ELSE [ret |-> 0, wire |-> SubSeq(str \o <<"NUL">>, 1, n)]

send_server_reply(ws) == IF write_bytes(ws, 1) < 0 THEN GEN_ERR_ANY ELSE 0

-----------------------------------------------------------------------------
(* strtol (C11 7.22.1.4): leading spaces, an optional sign, the longest    *)
(* run of decimal digits; ERANGE and LONG_MAX/LONG_MIN when the value does *)
(* not fit a long; endptr == string when no digit was found.               *)
DigitValue == ("0" :> 0) @@ ("1" :> 1) @@ ("2" :> 2) @@ ("5" :> 5) @@ ("9" :> 9)
Chars == DOMAIN DigitValue \cup {" ", "-", "+", "x"}
LongMax == 2^(LongBits - 1) - 1
LongMin == -(2^(LongBits - 1))

strtol(s) ==
    LET from  == SelectInSeq(s, LAMBDA c : c # " ")
        sign  == IF from > 0 /\ s[from] = "-" THEN -1 ELSE 1
        start == IF from > 0 /\ s[from] \in {"+", "-"} THEN from + 1 ELSE from
        stop  == SelectInSubSeq(s, start, Len(s), LAMBDA c : c \notin DOMAIN DigitValue)
        run   == IF from = 0 THEN <<>>
                 ELSE SubSeq(s, start, IF stop = 0 THEN Len(s) ELSE stop - 1)
        v     == sign * FoldLeft(LAMBDA acc, d : 10 * acc + DigitValue[d], 0, run)
    IN [digits |-> run # <<>>, erange |-> v > LongMax \/ v < LongMin,
        val    |-> IF v > LongMax THEN LongMax ELSE IF v < LongMin THEN LongMin ELSE v]

(* The (int) and (unsigned int) casts of the long strtol returned.         *)
IntCast(v)  == ((v + 2^(IntBits - 1)) % 2^IntBits) - 2^(IntBits - 1)
UintCast(v) == v % 2^IntBits

str_to_numNoEndCheck(s, type) ==
    LET l == strtol(s) IN
    IF s = <<>> \/ l.erange THEN [ok |-> FALSE, val |-> 0]
    ELSE [ok |-> TRUE, val |-> IF type = "INT" THEN IntCast(l.val) ELSE UintCast(l.val)]

(* str_to_num: an empty string, errno set, or no digit found is           *)
(* GEN_ERR_ANY; otherwise the cast value is stored.                        *)
str_to_num(s, type) ==
    LET l == strtol(s) IN
    IF s = <<>> \/ l.erange \/ ~l.digits THEN [ok |-> FALSE, val |-> 0]
    ELSE [ok |-> TRUE, val |-> IF type = "INT" THEN IntCast(l.val) ELSE UintCast(l.val)]

-----------------------------------------------------------------------------
(* The calls TLC checks: every sequence of system-call results up to a     *)
(* length, every len, every string over Chars up to three characters.      *)
Calls ==
    [op : {"read_line"}, rs : BoundedSeq(ByteResults, 4)]
    \cup [op : {"read_bytes"}, rs : BoundedSeq(Counts \cup {0, -1}, 3), len : 1..MaxLen]
    \cup [op : {"write_bytes"}, ws : {s \o <<-1>> : s \in BoundedSeq(Counts \cup {-1}, 3)},
          len : 1..MaxLen]
    \cup [op : {"str_to_num"}, s : BoundedSeq(Chars, 3)]

Init == call \in Calls
Next == UNCHANGED call
Spec == Init /\ [][Next]_call

-----------------------------------------------------------------------------
(* The contracts.                                                          *)

(* spec.md section 6: a field is the bytes before the first NUL or         *)
(* newline, terminator stripped, cut to the receiving buffer ("overflow    *)
(* silently truncates").                                                   *)
Data(rs) == SelectSeq(rs, LAMBDA c : c # "EINTR")
FieldEnd(rs) == SelectInSeq(Data(rs), LAMBDA c : c \in Terminators)
Delivered(rs) == FieldEnd(rs) > 0 /\ \A i \in 1..FieldEnd(rs) - 1 : Data(rs)[i] \in Bytes
FieldSpec(rs) == SubSeq(Data(rs), 1, Min({FieldEnd(rs) - 1, BufSpace - 1}))

(* read_line: however the bytes of a terminated field arrive, interrupted *)
(* reads included, it stores the field as spec.md section 6 defines it,   *)
(* truncated to buf_space - 1 bytes, NUL-terminates it and returns its     *)
(* length.                                                                 *)
LineMatchesSpec ==
    call.op = "read_line" /\ Delivered(call.rs) =>
        read_line(call.rs) = [ret |-> Len(FieldSpec(call.rs)), field |-> FieldSpec(call.rs),
                              nul |-> TRUE]

(* spec.md section 7: a connection that closes or fails before a field's  *)
(* terminator is a transport error; recv_string must fail so that the     *)
(* request is dropped without a reply or a state change.                   *)
ClosedFieldFails ==
    call.op = "read_line" /\ ~Delivered(call.rs) => ~recv_string(call.rs)

SumSeq(s) == FoldLeft(LAMBDA a, b : a + b, 0, s)

(* read_bytes: len when len bytes arrive before an error or the end of     *)
(* file, the count that arrived when the file ends first, -1 when a read   *)
(* fails first; whatever counts the kernel returns.                        *)
ReadBytesMatchesSpec ==
    call.op = "read_bytes" =>
        LET k   == SelectInSeq(call.rs, LAMBDA c : c <= 0)
            got == SumSeq(IF k = 0 THEN call.rs ELSE SubSeq(call.rs, 1, k - 1))
        IN read_bytes(call.rs, call.len) =
             IF got >= call.len THEN call.len
             ELSE IF k > 0 /\ call.rs[k] < 0 THEN -1 ELSE got

(* write_bytes: len when the writes before the first failing one take len  *)
(* bytes, else -1; a short write is never reported as complete.            *)
WriteBytesMatchesSpec ==
    call.op = "write_bytes" =>
        LET k == SelectInSeq(call.ws, LAMBDA c : c < 0) IN
        write_bytes(call.ws, call.len) =
            IF SumSeq(SubSeq(call.ws, 1, k - 1)) >= call.len THEN call.len ELSE -1

(* A decimal string: digits, optionally after a '-', and its value.        *)
Decimal(s) ==
    LET neg == s # <<>> /\ s[1] = "-"
        d   == IF neg THEN Tail(s) ELSE s
        is  == d # <<>> /\ \A i \in DOMAIN d : d[i] \in DOMAIN DigitValue
    IN [is  |-> is,
        val |-> IF ~is THEN 0
                ELSE (IF neg THEN -1 ELSE 1)
                     * MapThenSumSet(LAMBDA i : DigitValue[d[i]] * 10^(Len(d) - i), DOMAIN d)]

(* str_to_num(INT), as CONNECT uses it on the listening port: a decimal    *)
(* string whose value fits an int is converted to that value; a string    *)
(* with no digit, and a decimal beyond the range of long, are rejected.    *)
StrToNumMatchesSpec ==
    call.op = "str_to_num" =>
        LET r == str_to_num(call.s, "INT")
            d == Decimal(call.s)
        IN /\ (\A i \in DOMAIN call.s : call.s[i] \notin DOMAIN DigitValue) => ~r.ok
           /\ d.is /\ IntCast(d.val) = d.val => r = [ok |-> TRUE, val |-> d.val]
           /\ d.is /\ (d.val > LongMax \/ d.val < LongMin) => ~r.ok
====
