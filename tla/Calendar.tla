------------------------------ MODULE Calendar ------------------------------
(***************************************************************************)
(* What rtc.c makes of the registers once rtc_read has a stable reading:   *)
(* BCD and 12-hour decoding, and the days of rtc_now_epoch.  The calendar  *)
(* and the formats of the chip (external) are the reference: 'binary' and  *)
(* 'hour24' are bits 2 and 1 of status register B, and a date is one the   *)
(* two-digit year can stand for.                                           *)
(***************************************************************************)
EXTENDS Rtc

VARIABLE sample     \* the year and format of the chip that is converted, or NoSample

NoSample == [year |-> 0, binary |-> TRUE, hour24 |-> TRUE]

Leap(y) == y % 4 = 0 /\ (y % 100 # 0 \/ y % 400 = 0)
MonthLength(y, m) ==
    IF m = 2 THEN (IF Leap(y) THEN 29 ELSE 28) ELSE IF m \in {4, 6, 9, 11} THEN 30 ELSE 31

Date(y, m, d) == [year |-> y, month |-> m, day |-> d]

Tomorrow(t) ==
    IF t.day < MonthLength(t.year, t.month) THEN Date(t.year, t.month, t.day + 1)
    ELSE IF t.month < 12 THEN Date(t.year, t.month + 1, 1)
    ELSE Date(t.year + 1, 1, 1)
-----------------------------------------------------------------------------
\* How the chip stores a value and an hour: 12 AM is 12 and 12 PM is 12 with the
\* PM bit.
Store(binary, n) == IF binary THEN n ELSE 16 * (n \div 10) + (n % 10)
StoreHour(binary, hour24, h) ==
    IF hour24 THEN Store(binary, h)
    ELSE Store(binary, IF h % 12 = 0 THEN 12 ELSE h % 12) + (IF h >= 12 THEN 128 ELSE 0)

\* (v & 0x0F) + ((v / 16) * 10), for a uint8_t
FromBcd(v) == (v % 16) + (v \div 16) * 10

Decode(binary, v) == IF binary THEN v ELSE FromBcd(v)

\* The hour: its PM bit is set aside around the BCD conversion.
DecodeHour(binary, hour24, v) ==
    LET pm == v >= 128
        h == Decode(binary, v % 128)
    IN  IF ~hour24 /\ pm THEN (h + 12) % 24 ELSE h

\* Mutant of days_from_civil: the year starts in January.
DaysFromJanuary(y0, m, d) ==
    LET era == y0 \div 400
        year_of_era == y0 - era * 400
        day_of_year == (153 * (m + (IF m > 2 THEN -3 ELSE 9)) + 2) \div 5 + d - 1
    IN  era * 146097 + year_of_era * 365 + year_of_era \div 4 - year_of_era \div 100
        + day_of_year - 719468

days_from_civil(y0, m, d) ==
    LET y == IF m <= 2 THEN y0 - 1 ELSE y0
        era == (IF y >= 0 THEN y ELSE y - 399) \div 400
        year_of_era == y - era * 400
        day_of_year == (153 * (m + (IF m > 2 THEN -3 ELSE 9)) + 2) \div 5 + d - 1
    IN  era * 146097 + year_of_era * 365 + year_of_era \div 4 - year_of_era \div 100
        + day_of_year - 719468

\* The date part of rtc_read on what the chip stores for the date t.
rtc_date(binary, t) ==
    LET read(n) == Decode(binary, Store(binary, n))
    IN  Date(2000 + read(t.year % 100), read(t.month), read(t.day))

\* The days in rtc_now_epoch when it is t.
EpochDays(binary, t) ==
    LET date == rtc_date(binary, t) IN days_from_civil(date.year, date.month, date.day)
-----------------------------------------------------------------------------
CalendarInit == Init /\ sample = NoSample

\* The readings of Rtc are symbolic: one of them stands for every year and format.
OneReading == updates = 0 /\ \A f \in Fields : first[f] = 0

\* rtc_now_epoch, after rtc_read: the chip has shown some day of the year.
rtc_now_epoch ==
    /\ pc = "done" /\ OneReading /\ sample = NoSample
    /\ sample' \in [year : 2000 .. 2099, binary : BOOLEAN, hour24 : BOOLEAN]
    /\ UNCHANGED vars

CalendarNext == (Next /\ UNCHANGED sample) \/ rtc_now_epoch
CalendarSpec == CalendarInit /\ [][CalendarNext]_<<vars, sample>> /\ Fairness
-----------------------------------------------------------------------------
DaysOf(y) == {Date(y, m, d) : m \in 1 .. 12, d \in 1 .. 31}
RealDay(t) == t.day <= MonthLength(t.year, t.month)

\* What rtc_now_epoch adds up is the day and the hour it is, in every year and in
\* each of the chip's formats: 1 January 2000 is day 10957 and each following day
\* of the calendar is one more, through every month and leap year; the hour is the
\* hour of the day, PM bit and BCD digits together.  The two hours that a 12-hour
\* clock calls 12 are left out: rtc_read exchanges them.
ReadingIsDecoded ==
    sample # NoSample =>
        /\ EpochDays(sample.binary, Date(2000, 1, 1)) = 10957
        /\ \A t \in {u \in DaysOf(sample.year) : RealDay(u)} :
              Tomorrow(t).year <= 2099 =>
                  EpochDays(sample.binary, Tomorrow(t)) = EpochDays(sample.binary, t) + 1
        /\ \A h \in 0 .. 23 :
              sample.hour24 \/ h % 12 # 0 =>
                  DecodeHour(sample.binary, sample.hour24,
                             StoreHour(sample.binary, sample.hour24, h)) = h
=============================================================================
