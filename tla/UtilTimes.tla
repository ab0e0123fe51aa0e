------------------------------ MODULE UtilTimes ------------------------------
(***************************************************************************)
(* Times in dmesg-util/timeutils.c: time spans (parse_sec), timestamps     *)
(* (parse_timestamp), the ISO 8601 writer and short times.  A clock with   *)
(* small numbers: Base hours of Base minutes of Base seconds; a date is a  *)
(* day number, split into year and day of the year.                        *)
(***************************************************************************)
EXTENDS Integers, Sequences

CONSTANTS
  Table,      \* parse_sec's table: a sequence of <<suffix, usec>>
  Spans,      \* spans: sequences of [int, point, frac, unit]
  Stamps,     \* timestamps, sequences of words, numbers and separators
  Base, YearDays,
  Now         \* time(NULL)

VARIABLES call, answer
vars == <<call, answer>>

MinOf(S) == CHOOSE n \in S : \A m \in S : n <= m
Starts(s, prefix) == Len(prefix) <= Len(s) /\ SubSeq(s, 1, Len(prefix)) = prefix

\* Faulty: the short units come first.
LastMatch(unit) == LET m == {i \in DOMAIN Table : Starts(unit, Table[i][1]) /\ Table[i][1] # ""} IN
  IF m = {} THEN Len(Table) ELSE CHOOSE i \in m : \A j \in m : j <= i

\* The first suffix of the table that the text starts with; "" is its last.
Suffix(unit) == MinOf({i \in DOMAIN Table : Starts(unit, Table[i][1])})

RECURSIVE Digits(_)
Digits(d) == IF d = <<>> THEN 0 ELSE 10 * Digits(SubSeq(d, 1, Len(d) - 1)) + d[Len(d)]

\* for (; n > 0; n--) k /= 10
RECURSIVE Tenths(_, _)
Tenths(value, digits) == IF digits = <<>> THEN value ELSE Tenths(value \div 10, Tail(digits))

Item(i) ==
  LET usec == Table[Suffix(i.unit)][2]
  IN  IF (i.point /\ i.frac = <<>>) \/ (~i.point /\ i.int = <<>>) THEN [rc |-> "EINVAL", usec |-> 0]
      ELSE IF Table[Suffix(i.unit)][1] # i.unit THEN [rc |-> "EINVAL", usec |-> 0]   \* the rest is no number
      ELSE [rc |-> "ok", usec |-> Digits(i.int) * usec + Tenths(Digits(i.frac) * usec, i.frac)]

RECURSIVE ParseItems(_, _)
ParseItems(items, r) ==
  IF items = <<>> THEN [rc |-> "ok", usec |-> r]
  ELSE LET i == Item(Head(items)) IN IF i.rc # "ok" THEN i ELSE ParseItems(Tail(items), r + i.usec)
ParseSec(items) == IF items = <<>> THEN [rc |-> "EINVAL", usec |-> 0] ELSE ParseItems(items, 0)

Day == Base * Base * Base
TimeOf(tm) == (tm.year * YearDays + tm.yday) * Day + (tm.hour * Base + tm.min) * Base + tm.sec   \* mktime
LocalTime(t) == [year |-> t \div (Day * YearDays), yday |-> (t \div Day) % YearDays,
                 hour |-> (t % Day) \div (Base * Base), min |-> (t \div Base) % Base, sec |-> t % Base]

(***************************************************************************)
(* strptime: the fields are assigned one after the other until the text    *)
(* does not match; %y takes a number below ten, %Y any.                    *)
(***************************************************************************)
RECURSIVE Scan(_, _, _)
Scan(text, format, tm) ==
  IF format = <<>> THEN [tm |-> tm, whole |-> text = <<>>]
  ELSE IF text = <<>> \/ text[1][1] # format[1][1] THEN [tm |-> tm, whole |-> FALSE]
  ELSE IF format[1][1] = "sep"
    THEN IF text[1] = format[1] THEN Scan(Tail(text), Tail(format), tm) ELSE [tm |-> tm, whole |-> FALSE]
  ELSE IF format[1][2] = "y"
    THEN IF text[1][2] < 10 THEN Scan(Tail(text), Tail(format), [tm EXCEPT !.year = text[1][2]])
         ELSE [tm |-> [tm EXCEPT !.year = text[1][2] \div 10], whole |-> FALSE]
  ELSE IF format[1][2] = "Y" THEN Scan(Tail(text), Tail(format), [tm EXCEPT !.year = text[1][2]])
  ELSE Scan(Tail(text), Tail(format), [tm EXCEPT ![format[1][2]] = text[1][2]])

F(field) == <<"num", field>>
S(c) == <<"sep", c>>
YMD(y) == <<F(y), S("-"), F("yday")>>
HM == <<F("hour"), S(":"), F("min")>>
HMS == HM \o <<S(":"), F("sec")>>

\* The formats in the order they are tried, and the fields set to 0 after.
Formats == <<
  <<YMD("y") \o <<S(" ")>> \o HMS, {}>>, <<YMD("Y") \o <<S(" ")>> \o HMS, {}>>,
  <<YMD("y") \o <<S(" ")>> \o HM, {"sec"}>>, <<YMD("Y") \o <<S(" ")>> \o HM, {"sec"}>>,
  <<YMD("y"), {"sec", "min", "hour"}>>, <<YMD("Y"), {"sec", "min", "hour"}>>,
  <<HMS, {}>>, <<HM, {"sec"}>>,
  <<<<F("Y"), F("yday"), F("hour"), F("min"), F("sec")>>, {"sec"}>> >>

Zero(tm, fields) == [f \in DOMAIN tm |-> IF f \in fields THEN 0 ELSE tm[f]]

\* tm = copy, before the next format is tried
Restored(copy, scanned) == copy

RECURSIVE TryFormats(_, _, _, _)
TryFormats(text, n, copy, tm) ==
  IF n > Len(Formats) THEN [rc |-> "EINVAL", tm |-> tm]
  ELSE LET r == Scan(text, Formats[n][1], tm)
       IN  IF r.whole THEN [rc |-> "ok", tm |-> Zero(r.tm, Formats[n][2])]
           ELSE TryFormats(text, n + 1, copy, Restored(copy, r.tm))

Midnight == {"sec", "min", "hour"}

WrongWeekday(weekday, tm) == weekday >= 0 /\ (TimeOf(tm) \div Day) % 7 # weekday

Clamp(t, minus) == IF t > minus THEN t - minus ELSE 0

\* parse_timestamp: t is <<"word", w>>, <<"+" or "-", span>> or
\* <<"date", weekday or -1, text>>.
ParseTimestamp(t) ==
  LET now == LocalTime(Now)
      span == ParseSec(t[2])
      found == TryFormats(t[3], 1, now, now)
      At(tm) == [rc |-> "ok", time |-> TimeOf(tm)]
      Failed == [rc |-> "EINVAL", time |-> 0]
  IN  CASE t[1] = "now" -> At(now)
        [] t[1] = "today" -> At(Zero(now, Midnight))
        [] t[1] = "yesterday" -> At(Zero([now EXCEPT !.yday = @ - 1], Midnight))
        [] t[1] = "tomorrow" -> At(Zero([now EXCEPT !.yday = @ + 1], Midnight))
        [] t[1] \in {"+", "-", "ago"} ->
             IF span.rc # "ok" THEN Failed
             ELSE [rc |-> "ok", time |-> IF t[1] = "+" THEN Now + span.usec ELSE Clamp(Now, span.usec)]
        [] t[1] = "date" -> IF found.rc # "ok" \/ WrongWeekday(t[2], found.tm) THEN Failed ELSE At(found.tm)

(***************************************************************************)
(* format_iso_time: what is written, as the lengths of the pieces, into    *)
(* bufsz bytes; a piece that does not fit is cut, its NUL the last byte.   *)
(***************************************************************************)
Pieces(flags) ==
  (IF "date" \in flags THEN <<10>> ELSE <<>>) \o (IF {"date", "time"} \subseteq flags THEN <<1>> ELSE <<>>)
  \o (IF "time" \in flags THEN <<8>> ELSE <<>>) \o (IF flags \cap {"dot", "comma"} # {} THEN <<7>> ELSE <<>>)
  \o (IF "zone" \in flags THEN <<5>> ELSE <<>>)

RoomLeft(piece, room) == room - piece

RECURSIVE WriteIso(_, _, _)
WriteIso(pieces, room, written) ==
  IF pieces = <<>> THEN [rc |-> 0, written |-> written]
  ELSE IF Head(pieces) > room \/ (Head(pieces) = 5 /\ Head(pieces) >= room)     \* strftime gives 0 when it is cut
    THEN [rc |-> -1, written |-> written + room]
  ELSE WriteIso(Tail(pieces), RoomLeft(Head(pieces), room), written + Head(pieces))

DayNumber(t) == t \div Day

TimeIsToday(t, now) == DayNumber(t) = DayNumber(now)
TimeIsThisyear(t, now) == t \div (Day * YearDays) = now \div (Day * YearDays)

\* strtime_short, in local time: zone is the offset of the zone.
StrtimeShort(t, now, zone) ==
  LET tm == LocalTime(t + zone)
  IN  IF TimeIsToday(t, now) THEN <<"hm", tm.hour, tm.min>>
      ELSE IF TimeIsThisyear(t, now) THEN <<"day", tm.yday>> ELSE <<"year", tm.year, tm.yday>>

Flags == {"date", "time", "dot", "comma", "zone"}
NoAnswer == <<"none">>

Init == call \in {<<"span", s>> : s \in Spans} \cup {<<"stamp", t>> : t \in Stamps}
                 \cup {<<"iso", f>> : f \in SUBSET Flags} \cup {<<"short", now>> : now \in 1..(2 * YearDays * Day)}
        /\ answer = NoAnswer

Span == call[1] = "span" /\ answer' = <<"span", ParseSec(call[2])>>
Stamp == call[1] = "stamp" /\ answer' = <<"stamp", ParseTimestamp(call[2])>>
Iso == call[1] = "iso" /\ \E size \in 1..33 : answer' = <<"iso", size, WriteIso(Pieces(call[2]), size, 0)>>
Short == call[1] = "short" /\ call[2] % 13 = 0 /\ \E zone \in {0, Base * Base} :
           answer' = <<"short", zone, [t \in 1..(2 * YearDays * Day) |-> StrtimeShort(t, call[2], zone)]>>

Next == answer = NoAnswer /\ (Span \/ Stamp \/ Iso \/ Short) /\ UNCHANGED call

Spec == Init /\ [][Next]_vars
-----------------------------------------------------------------------------
\* What a unit means: the entry that is the unit, not one it begins with.
Meaning(unit) == LET e == {i \in DOMAIN Table : Table[i][1] = unit} IN IF e = {} THEN 0 ELSE Table[MinOf(e)][2]
RECURSIVE Total(_, _)
Total(items, scale) == IF items = <<>> THEN 0
  ELSE (Digits(Head(items).int) * scale + Digits(Head(items).frac) * (scale \div 10^Len(Head(items).frac)))
       * Meaning(Head(items).unit) + Total(Tail(items), scale)

(***************************************************************************)
(* A span is taken exactly if each unit is one of the table ("5months" is  *)
(* not five minutes followed by "onths"), and is then worth what its items *)
(* are worth, at most one usec per item less, leading zeros of a fraction  *)
(* included (parse_sec).                                                   *)
(***************************************************************************)
SpansMean ==
  answer[1] = "span" /\ call[2] # <<>> =>
    LET items == call[2]
        proper == \A k \in DOMAIN items : /\ Meaning(items[k].unit) > 0
                                          /\ IF items[k].point THEN items[k].frac # <<>> ELSE items[k].int # <<>>
        exact == Total(items, 100)
    IN  /\ (answer[2].rc = "ok") = proper
        /\ proper => exact - 100 * Len(items) <= 100 * answer[2].usec /\ 100 * answer[2].usec <= exact

\* The fields a text gives, in the order day, hour, minute, second.
Numbers(text) == SelectSeq(text, LAMBDA x : x[1] = "num")
Has(text, c) == \E k \in DOMAIN text : text[k] = S(c)

(***************************************************************************)
(* "16:34:22 (date will be set to today)", "2012-09-22 16:34 (seconds will *)
(* be set to 0)", "2012-09-22 (time will be set to 00:00:00)": the fields  *)
(* a text does not give are those of now or 0, as the comment of           *)
(* parse_timestamp says, whatever formats were tried before.               *)
(***************************************************************************)
StampFields ==
  answer[1] = "stamp" /\ call[2][1] = "date" /\ answer[2].rc = "ok" =>
    LET text == call[2][3] n == Numbers(text) now == LocalTime(Now) got == LocalTime(answer[2].time)
        rest == IF Has(text, "-") THEN SubSeq(n, 3, Len(n)) ELSE n
    IN  Has(text, "-") \/ Has(text, ":") =>
          /\ <<got.year, got.yday>> = IF Has(text, "-") THEN <<n[1][2], n[2][2]>> ELSE <<now.year, now.yday>>
          /\ got.hour = IF rest = <<>> THEN 0 ELSE rest[1][2]
          /\ got.min = IF rest = <<>> THEN 0 ELSE rest[2][2]
          /\ got.sec = IF Len(rest) = 3 THEN rest[3][2] ELSE 0

(***************************************************************************)
(* A date with the name of a day is taken only if it is that day (the test *)
(* behind the label finish), Sunday as any other.                          *)
(***************************************************************************)
WeekdayHolds ==
  answer[1] = "stamp" /\ call[2][1] = "date" /\ call[2][2] >= 0 /\ answer[2].rc = "ok" =>
    (answer[2].time \div Day) % 7 = call[2][2]

(***************************************************************************)
(* The writer stays within the buffer, and says 0 only if everything is    *)
(* there, but for the one byte its NUL takes when the text is exactly as   *)
(* long as the buffer (format_iso_time compares with >).                   *)
(***************************************************************************)
IsoBounded ==
  answer[1] = "iso" =>
    LET size == answer[2] r == answer[3] pieces == Pieces(call[2])
        total == (IF "date" \in call[2] THEN 10 ELSE 0) + (IF {"date", "time"} \subseteq call[2] THEN 1 ELSE 0)
                 + (IF "time" \in call[2] THEN 8 ELSE 0) + (IF call[2] \cap {"dot", "comma"} # {} THEN 7 ELSE 0)
                 + (IF "zone" \in call[2] THEN 5 ELSE 0)
    IN  /\ r.written <= size
        /\ (r.rc = 0) = (total < size \/ (total = size /\ "zone" \notin call[2]))
        /\ size = 32 => r.rc = 0

(***************************************************************************)
(* A short time tells times apart: two times of the same local minute      *)
(* only, where it shows hours and minutes, and two times of the same local *)
(* day, or of the days at both ends of the 365 that are taken for a year,  *)
(* where it shows a day (strtime_short cuts days and years in UTC).        *)
(***************************************************************************)
ShortTimesTell ==
  answer[1] = "short" =>
    LET zone == answer[2] text == answer[3]
    IN  \A t \in DOMAIN text : \A u \in DOMAIN text : text[t] = text[u] /\ t < u =>
          /\ text[t][1] = "hm" => (t + zone) \div Base = (u + zone) \div Base
          /\ text[t][1] = "day" => (u + zone) \div Day - (t + zone) \div Day \in {0, YearDays}
=============================================================================
