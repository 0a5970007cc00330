----------------------------- MODULE LogBuffer ------------------------------
(***************************************************************************)
(* Lines of text on their way into the log: the buffer that splits them    *)
(* off and keeps the last ones, and the parser of klog lines behind it.    *)
(***************************************************************************)
EXTENDS Integers, Sequences, FiniteSets

(***************************************************************************)
(* osbase/logbuffer: a LineBuffer that splits what is written to it into   *)
(* lines, and the LogBuffer that keeps the last Size of them in a ring.    *)
(* The LineBuffer is also the raw logger of a logtree node and the front   *)
(* of the klog and unraw parsers.                                          *)
(*                                                                         *)
(* A byte is "\n" or a letter.  A line is its data and original length.    *)
(***************************************************************************)

CONSTANTS
    Letter,        \* the bytes other than the newline
    MaxLineLength, \* LineBuffer.maxLineLength
    RingSize,      \* len(LogBuffer.content)
    MaxChunk,      \* bound on the length of one Write
    MaxBytes       \* bound on all that is written

VARIABLES
    cur,           \* LineBuffer.cur
    curLength,     \* LineBuffer.length
    lbClosed,      \* LineBuffer.closed
    ring,          \* LogBuffer.content, indexed from 0
    ringLength,    \* LogBuffer.length
    written        \* history: the bytes written

lineVars == <<cur, curLength, lbClosed, ring, ringLength, written>>

Newline == "\n"

Chunk == UNION {[1..n -> Letter \union {Newline}] : n \in 0..MaxChunk}

NoLine == [data |-> <<>>, originalLength |-> 0]

LogBufferInit ==
    /\ cur = <<>>
    /\ curLength = 0
    /\ lbClosed = "no"
    /\ ring = [i \in 0..(RingSize - 1) |-> NoLine]
    /\ ringLength = 0
    /\ written = <<>>

-----------------------------------------------------------------------------
(* The state a Write works on: the current line and the ring. *)

writeLimitedFault(s, data) ==
    LET room == MaxLineLength - Len(s.cur)
    IN  [s EXCEPT !.length = IF Len(data) > room THEN MaxLineLength ELSE @ + Len(data),
                  !.cur = @ \o (IF Len(data) > room THEN SubSeq(data, 1, room) ELSE data)]

(* length counts every byte of the line, cur holds what fits. *)
writeLimited(s, data) ==
    LET room == MaxLineLength - Len(s.cur)
    IN  [s EXCEPT !.length = @ + Len(data),
                  !.cur = @ \o (IF Len(data) > room THEN SubSeq(data, 1, room) ELSE data)]

lineCallback(s, line) ==
    [s EXCEPT !.ring[s.count % RingSize] = line, !.count = @ + 1]

commitLine(s) ==
    [lineCallback(s, [data |-> s.cur, originalLength |-> s.length])
        EXCEPT !.cur = <<>>, !.length = 0]

(* The index of the first newline of data at or after pos, or 0. *)
NextNewline(data, pos) ==
    LET found == {i \in pos..Len(data) : data[i] = Newline}
    IN  IF found = {} THEN 0 ELSE CHOOSE i \in found : \A j \in found : i <= j

(* The loop of Write.  Its early exit compares an offset from pos with the *)
(* end of the data, so that it only ends the loop at a newline that ends a *)
(* Write of one line; otherwise the next turn writes nothing and ends it.  *)
WriteLoop(start, data) ==
    LET turn[n \in 0..Len(data)] ==
            \* the state and the position after n turns
            IF n = 0 THEN [s |-> start, pos |-> 1]
            ELSE LET b == turn[n - 1]
                     nl == NextNewline(data, b.pos)
                 IN  IF nl = 0 THEN b
                     ELSE [s |-> commitLine(writeLimited(b.s, SubSeq(data, b.pos, nl - 1))),
                           pos |-> nl + 1]
        last == turn[Len(data)]
    IN  writeLimited(last.s, SubSeq(data, last.pos, Len(data)))

Working == [cur |-> cur, length |-> curLength, ring |-> ring, count |-> ringLength]

Store(s) ==
    /\ cur' = s.cur
    /\ curLength' = s.length
    /\ ring' = s.ring
    /\ ringLength' = s.count

(* A Write to a closed buffer returns an error and changes nothing. *)
WriteBytes(data) ==
    /\ lbClosed = "no"
    /\ Len(written) + Len(data) <= MaxBytes
    /\ Store(WriteLoop(Working, data))
    /\ written' = written \o data
    /\ UNCHANGED lbClosed

CloseBuffer ==
    /\ lbClosed = "no"
    /\ lbClosed' = "yes"
    /\ Store(IF curLength > 0 THEN commitLine(Working) ELSE Working)
    /\ UNCHANGED written

LogBufferNext ==
    \/ \E data \in Chunk : WriteBytes(data)
    \/ CloseBuffer

capToContentLength(n) ==
    LET m == IF n > ringLength THEN ringLength ELSE n
    IN  IF m > RingSize THEN RingSize ELSE m

ReadLines(n) ==
    LET m == capToContentLength(n)
    IN  [i \in 1..m |-> ring[(ringLength - (m - i + 1)) % RingSize]]

-----------------------------------------------------------------------------

(* The lines of a text, by the places of its newlines: line k lies between *)
(* newline k - 1 and newline k; a rest after the last newline is a line    *)
(* once the buffer is closed.                                              *)
Newlines(text) == {i \in 1..Len(text) : text[i] = Newline}

Upto(text, i) == Cardinality({j \in Newlines(text) : j <= i})

LineBytes(text, k) ==
    SelectSeq([i \in 1..Len(text) |-> [byte |-> text[i], line |-> Upto(text, i) + 1]],
              LAMBDA b : b.line = k /\ b.byte # Newline)

LineOf(text, k) ==
    LET b == LineBytes(text, k)
        kept == IF Len(b) > MaxLineLength THEN MaxLineLength ELSE Len(b)
    IN  [data |-> [i \in 1..kept |-> b[i].byte], originalLength |-> Len(b)]

LineCount(text) ==
    LET n == Cardinality(Newlines(text))
    IN  IF lbClosed = "yes" /\ LineBytes(text, n + 1) # <<>> THEN n + 1 ELSE n

(* However the bytes are cut into Writes, the ring answers for every n     *)
(* with the newest lines of the text written so far, in order, each cut to *)
(* maxLineLength with its full length kept, and none missing or doubled.   *)
LinesExact ==
    LET total == LineCount(written)
    IN  \A n \in 1..(RingSize + 1) :
            LET shown == ReadLines(n)
            IN  /\ Len(shown) = (CHOOSE m \in {n, total, RingSize} :
                                   m <= n /\ m <= total /\ m <= RingSize)
                /\ \A i \in 1..Len(shown) :
                       shown[i] = LineOf(written, total - Len(shown) + i)

-----------------------------------------------------------------------------
(***************************************************************************)
(* The klog parser of osbase/logtree: a klog line carries a month, a day   *)
(* and a time but no year, which parse takes from the clock.               *)
(*                                                                         *)
(* Time is counted in hours from the start of FirstYear.  A date is its    *)
(* place in the calendar of a leap year: 60 is the 29th of February.       *)
(***************************************************************************)

CONSTANTS
    FirstYear,  \* the first year of the model
    LastYear,   \* the last one
    ClockStart, \* the hours at which the clock may start
    MaxElapsed, \* bound on how far it runs, in hours
    MaxKlogLines

VARIABLES
    clock,      \* time.Now()
    started,    \* the hour at which the clock started
    piped,      \* klog lines that have been emitted and not consumed
    consumed    \* the line consumed last, until the next step, with what became of it

klogVars == <<clock, started, piped, consumed>>

Leap(y) == (y % 4 = 0 /\ y % 100 # 0) \/ y % 400 = 0

DaysOf(y) == IF Leap(y) THEN 366 ELSE 365

YearStart[y \in FirstYear..(LastYear + 1)] ==
    IF y = FirstYear THEN 0 ELSE YearStart[y - 1] + 24 * DaysOf(y - 1)

(* The years of the model hold every time it meets. *)
YearOf(t) ==
    CHOOSE y \in FirstYear..LastYear : YearStart[y] <= t /\ t < YearStart[y + 1]

DateOf(t) ==
    LET day == ((t - YearStart[YearOf(t)]) \div 24) + 1
    IN  IF day >= 60 /\ ~Leap(YearOf(t)) THEN day + 1 ELSE day

Rejected == -1

(* time.Parse refuses the 29th of February of a year without one. *)
parseKLogTime(year, date, hour) ==
    IF date = 60 /\ ~Leap(year) THEN Rejected
    ELSE LET day == IF date > 60 /\ ~Leap(year) THEN date - 1 ELSE date
         IN  YearStart[year] + 24 * (day - 1) + hour

Magnitude(d) == IF d < 0 THEN -d ELSE d

parseFault(now, line) == parseKLogTime(YearOf(now), line.date, line.hour)

(* The timestamp of a line, or Rejected.  One that lies ahead of the clock *)
(* by more than an hour is read again with the year before, provided that  *)
(* it lies within two days of 365 days from now.                           *)
parse(now, line) ==
    LET ts == parseKLogTime(YearOf(now), line.date, line.hour)
    IN  IF ts = Rejected \/ ts - now <= 1 THEN ts
        ELSE IF Magnitude(ts - (now + 24 * 365)) < 48
             THEN parseKLogTime(YearOf(now) - 1, line.date, line.hour)
             ELSE Rejected

KlogInit ==
    /\ clock \in ClockStart
    /\ started = clock
    /\ piped = <<>>
    /\ consumed = {}

Tick ==
    /\ clock < started + MaxElapsed
    /\ clock' = clock + 1
    /\ consumed' = {}
    /\ UNCHANGED <<started, piped>>

(* External: a process writes a line to the pipe of its parser. *)
Emit ==
    /\ Len(piped) < MaxKlogLines
    /\ piped' = Append(piped, [date |-> DateOf(clock), hour |-> clock % 24, emitted |-> clock])
    /\ consumed' = {}
    /\ UNCHANGED <<clock, started>>

(* A line that parse refuses is logged as an error instead. *)
consumeLine ==
    /\ piped # <<>>
    /\ piped' = Tail(piped)
    /\ consumed' = {[emitted |-> Head(piped).emitted, at |-> clock,
                     timestamp |-> parse(clock, Head(piped))]}
    /\ UNCHANGED <<clock, started>>

KlogNext == Tick \/ Emit \/ consumeLine

-----------------------------------------------------------------------------

(* A line that is consumed less than two days after it was emitted keeps   *)
(* its time, across the end of a leap year and of any other and on the     *)
(* 29th of February: it is neither dated a year ahead nor refused.         *)
KlogTimeExact ==
    \A l \in consumed : l.at - l.emitted < 48 => l.timestamp = l.emitted
=============================================================================
