----------------------------- MODULE UtilMangle -----------------------------
(***************************************************************************)
(* Escaped text: mangle.c (\ooo and \xhh, also decoded in place) and what  *)
(* the kernel message reader does with it: parse_kmsg_record decodes the   *)
(* message where it lies, and runs twice on every record, in               *)
(* read_kmsg_one and in read_kmsg.  Text is a sequence of bytes; a buffer  *)
(* is a function of positions, 0 where nothing was written.                *)
(***************************************************************************)
EXTENDS Integers, Sequences

CONSTANTS
  Plain,      \* texts to be mangled
  Octal,      \* texts that may hold \ooo
  Messages,   \* messages as they were logged, before the kernel escapes them
  Tags        \* what follows a message in its record

VARIABLES call, answer
vars == <<call, answer>>

Backslash == 92
NewLine == 10
Unwanted == {32, 9, NewLine, Backslash}
OctalDigits == 48..55
HexDigits == 48..57 \cup 97..102 \cup 65..70
FromHex(c) == IF c \in 48..57 THEN c - 48 ELSE IF c \in 97..102 THEN c - 87 ELSE c - 55

AsOctal(c) == <<Backslash, 48 + ((c \div 64) % 8), 48 + ((c \div 8) % 8), 48 + (c % 8)>>

RECURSIVE Mangle(_)
Mangle(s) == IF s = <<>> THEN <<>>
             ELSE (IF Head(s) \in Unwanted THEN AsOctal(Head(s)) ELSE <<Head(s)>>) \o Mangle(Tail(s))

At(mem, p) == IF p \in DOMAIN mem THEN mem[p] ELSE 0

Fits(sz, len) == sz + 3 < len - 1

IsOctal(mem, p) == At(mem, p) = Backslash /\ \A k \in 1..3 : At(mem, p + k) \in OctalDigits
IsHex(mem, p) == At(mem, p) = Backslash /\ At(mem, p + 1) = 120 /\ \A k \in 2..3 : At(mem, p + k) \in HexDigits

(***************************************************************************)
(* unmangle_to_buffer and unhexmangle_to_buffer: the source at from, the   *)
(* target at to in the same memory (in place if they are equal); sz counts *)
(* bytes of the source against the length of the target.                   *)
(***************************************************************************)
RECURSIVE Decode(_, _, _, _, _, _)
Decode(mem, from, to, sz, len, hex) ==
  IF At(mem, from) = 0 \/ sz >= len - 1 THEN [mem |-> [mem EXCEPT ![to] = 0], end |-> to]
  ELSE IF Fits(sz, len) /\ hex /\ IsHex(mem, from)
    THEN Decode([mem EXCEPT ![to] = FromHex(At(mem, from + 2)) * 16 + FromHex(At(mem, from + 3))],
                from + 4, to + 1, sz + 4, len, hex)
  ELSE IF Fits(sz, len) /\ ~hex /\ IsOctal(mem, from)
    THEN Decode([mem EXCEPT ![to] = 64 * (mem[from + 1] % 8) + 8 * (mem[from + 2] % 8) + (mem[from + 3] % 8)],
                from + 4, to + 1, sz + 4, len, hex)
  ELSE Decode([mem EXCEPT ![to] = mem[from]], from + 1, to + 1, sz + 1, len, hex)

\* From a text into a buffer of its own.
Apart(s, len, hex) ==
  LET n == Len(s) + 1
      d == Decode([p \in 1..(n + Len(s) + 1) |-> IF p <= Len(s) THEN s[p] ELSE 0], 1, n + 1, 0, len, hex)
  IN  [k \in 1..(d.end - n - 1) |-> d.mem[n + k]]

\* From a text onto itself, as unmangle_string does.
InPlace(s, hex) ==
  LET d == Decode([p \in 1..(Len(s) + 1) |-> IF p <= Len(s) THEN s[p] ELSE 0], 1, 1, 0, Len(s) + 1, hex)
  IN  [k \in 1..(d.end - 1) |-> d.mem[k]]

NonSpaces(s) == CHOOSE n \in 0..Len(s) : (n = Len(s) \/ s[n + 1] \in {32, 9}) /\ \A k \in 1..n : s[k] \notin {32, 9}

\* unmangle: the word up to a space; an empty one gives NULL.
Unmangle(s) == LET n == NonSpaces(s) IN
  IF n = 0 THEN [ok |-> FALSE, text |-> <<>>] ELSE [ok |-> TRUE, text |-> Apart(s, n + 1, FALSE)]

\* What the kernel writes to a reader of /dev/kmsg: control characters,
\* bytes above 126 and the backslash as \xhh.
RECURSIVE KernelEscape(_)
KernelEscape(s) ==
  LET Digit(n) == IF n < 10 THEN 48 + n ELSE 87 + n IN
  IF s = <<>> THEN <<>>
  ELSE (IF Head(s) < 32 \/ Head(s) >= 127 \/ Head(s) = Backslash
        THEN <<Backslash, 120, Digit(Head(s) \div 16), Digit(Head(s) % 16)>> ELSE <<Head(s)>>) \o KernelEscape(Tail(s))

\* skip_item with "\n": behind the first newline or NUL, at most at the end.
MesgEnd(mem, end) ==
  LET stops == {p \in 1..(end - 1) : At(mem, p) \in {NewLine, 0}}
  IN  IF stops = {} THEN end ELSE (CHOOSE p \in stops : \A q \in stops : p <= q) + 1

MesgSize(mem, end) == MesgEnd(mem, end) - 1

\* parse_kmsg_record from its label mesg on: the message is what lies before
\* its newline, and is decoded where it lies.
ParseMesg(mem, end) ==
  LET size == MesgSize(mem, end)
  IN  [mem |-> Decode(mem, 1, 1, 0, size + 1, TRUE).mem, size |-> size]

\* A record from its message on: once parsed by read_kmsg_one, and once more
\* by read_kmsg, with the size that was read.
Record(message) == KernelEscape(message) \o <<NewLine>> \o Tags
ReadTwice(message) ==
  LET record == Record(message)
      end == Len(record) + 1
      once == ParseMesg([p \in 1..end |-> IF p < end THEN record[p] ELSE 0], end)
      twice == ParseMesg(once.mem, end)
      Text(r) == LET nul == {p \in 1..r.size : r.mem[p] = 0}
                 IN  SubSeq(r.mem, 1, IF nul = {} THEN r.size ELSE (CHOOSE p \in nul : \A q \in nul : p <= q) - 1)
  IN  [first |-> Text(once), second |-> Text(twice)]

Init ==
  /\ call \in {[op |-> "mangle", text |-> s] : s \in Plain} \cup {[op |-> "octal", text |-> s] : s \in Octal}
              \cup {[op |-> "record", text |-> s] : s \in Messages}
  /\ answer = <<>>

Encode == call.op = "mangle" /\ answer' = <<"mangle", Unmangle(Mangle(call.text))>>
Unescape == call.op = "octal" /\ \E hex \in BOOLEAN : \E len \in 1..(Len(call.text) + 1) :
              answer' = <<"octal", hex, len, Apart(call.text, len, hex), InPlace(call.text, hex)>>
Read == call.op = "record" /\ answer' = <<"record", ReadTwice(call.text)>>

Next == answer = <<>> /\ (Encode \/ Unescape \/ Read) /\ UNCHANGED call

Spec == Init /\ [][Next]_vars
-----------------------------------------------------------------------------
(***************************************************************************)
(* A text that is mangled is one word, and unmangle gives the text back.   *)
(***************************************************************************)
RoundTrip ==
  answer # <<>> /\ answer[1] = "mangle" =>
    answer[2] = [ok |-> call.text # <<>>, text |-> call.text]

(***************************************************************************)
(* Decoding into len bytes never writes more and looks at no more than     *)
(* len - 1 bytes of the source, which parse_kmsg_record relies on to stay  *)
(* inside the message; and a text decoded onto itself is what it would be  *)
(* elsewhere.                                                              *)
(***************************************************************************)
DecodingBounded ==
  answer # <<>> /\ answer[1] = "octal" =>
    LET len == answer[3] whole == Apart(call.text, Len(call.text) + 1, answer[2])
    IN  /\ Len(answer[4]) <= len - 1
        /\ answer[5] = whole
        /\ answer[4] = Apart(SubSeq(call.text, 1, len - 1), len, answer[2])

(***************************************************************************)
(* The first parse of a record gives the text that was logged, its newline *)
(* included (parse_kmsg_record).                                           *)
(***************************************************************************)
FirstParseDecodes ==
  answer # <<>> /\ answer[1] = "record" => answer[2].first = Append(call.text, NewLine)
=============================================================================
