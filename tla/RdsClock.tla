------------------------------- MODULE RdsClock -------------------------------
(***************************************************************************)
(* The Clock-Time field of Group 4A (rds_clock.py): a day, an hour that is *)
(* split over two blocks, a minute and a signed number of half hours.      *)
(*                                                                         *)
(* An instant is a number of minutes since the epoch of the Modified       *)
(* Julian Day; a Clock-Time is such an instant and an offset in minutes.   *)
(***************************************************************************)
EXTENDS Integers

DayMinutes == 24 * 60

\* The days that the field has bits for.
FieldDays == 0..131071

\* The days that a decoded Clock-Time may name.
SensibleDays == 15020..88069

ClockTime(utc, offset) == [utc |-> utc, offset |-> offset]

\* datetime_to_mjd; the division is that of timedelta.days, towards the past
Mjd(utc) == utc \div DayMinutes

\* encode_clock_time raises an exception for anything else.
Encodable(clock) ==
    /\ Mjd(clock.utc) \in FieldDays
    /\ clock.offset % 30 = 0 /\ clock.offset \div 30 \in -31..31

\* The three words of a local time; only bits 4..0 of the first are its own.
EncodeClockTime(local, offset) ==
    LET utc == local - offset
        hour == (utc % DayMinutes) \div 60
        magnitude == (IF offset < 0 THEN -offset ELSE offset) \div 30
    IN  [b |-> Mjd(utc) \div 32768,
         c |-> (Mjd(utc) % 32768) * 2 + hour \div 16,
         d |-> (hour % 16) * 4096 + (utc % 60) * 64
               + (IF offset < 0 THEN 32 ELSE 0) + magnitude]

\* Mutant: the hour is read from block D alone.
HourOfD(c, d) == d \div 4096

\* The hour is split: its top bit is the last one of block C.
HourOf(c, d) == (c % 2) * 16 + d \div 4096

\* The Clock-Time of the blocks, as a sequence: an empty one when a field is out of its
\* range, as in the dummy Clock-Times that some stations transmit.
DecodeClockTime(b, c, d) ==
    LET mjd == (b % 4) * 32768 + c \div 2
        hour == HourOf(c, d)
        minute == (d \div 64) % 64
        offset == 30 * (d % 32)
    IN  IF hour < 24 /\ minute < 60 /\ mjd \in SensibleDays
        THEN <<ClockTime(mjd * DayMinutes + hour * 60 + minute,
                         IF (d \div 32) % 2 = 1 THEN -offset ELSE offset)>>
        ELSE <<>>

=============================================================================
