------------------------------ MODULE StayDates ------------------------------
(***************************************************************************)
(* The dates of a stay: utils/dates.py reads them from a message, agents/  *)
(* booking_recovery.py lists the ranges to try when the stay is not        *)
(* available, and BookingAgent asks the backend for one range after the    *)
(* other until four are open.                                              *)
(*                                                                         *)
(* A date is the number of a day up to the last one the calendar has, or   *)
(* Impossible: text such as 2026-02-30, which the pattern of an ISO date   *)
(* accepts and the calendar does not.  Reading or shifting such a date     *)
(* raises ValueError, shifting past the last day OverflowError; nobody     *)
(* catches them.  Days beyond the calendar are never reached by "today".   *)
(***************************************************************************)
EXTENDS Integers, Sequences, FiniteSets

CONSTANTS
    LastDay,     \* the last day of the calendar, 9999-12-31 in the code
    LastToday,   \* bound: days that pass
    Impossible,  \* an ISO-like text of no calendar day
    Nothing,     \* None
    Raised,      \* an exception instead of a value
    Texts        \* what guests may write about dates

Days == 1..LastDay
Dates == Days \cup {Impossible}
Optional(S) == S \cup {Nothing}

Words == {"none", "today", "tomorrow", "weekday", "next weekday"}

\* iso: the ISO dates in order; nights and days: "<n> nights", "<n> days";
\* word: the other expression of a date, day: the weekday it names.
Text ==
    [iso : Seq(Dates), nights : Optional(Nat), days : Optional(Nat),
     word : Words, day : 0..6]

ASSUME CalendarAssumption ==
    /\ LastDay \in Nat /\ LastToday \in Nat
    /\ 1 <= LastToday /\ LastToday + 7 <= LastDay
    /\ Impossible \notin Int /\ Nothing \notin Int /\ Nothing # Impossible
    /\ Raised \notin Int /\ Raised \notin Seq(Dates)
    /\ Texts \subseteq Text /\ Nothing \notin Text

VARIABLES
    today,    \* date.today() of the service
    heard,    \* the text of the last message about dates, Nothing once used
    on,       \* the day it was heard
    dates,    \* what was read in it
    told,     \* the same, completed from the stored dates
    stay,     \* the stored dates: none, the check-in, or it and the check-out
    doing,    \* what the agent is doing
    wide,     \* the wider range was asked for
    asked,    \* offsets of the ranges searched so far
    matches   \* those of them with an open room

vars == <<today, heard, on, dates, told, stay, doing, wide, asked, matches>>

Phases == {"listening", "looking", "told", "handover", "crashed"}

(***************************************************************************)
(* utils/dates.py                                                          *)
(***************************************************************************)
\* Day 1, 2026-05-01, is a Friday.
Weekday(day) == (day + 3) % 7

NamesWeekday(text) == text.word \in {"weekday", "next weekday"}

Duration(text) == IF text.nights # Nothing THEN text.nights ELSE text.days

\* Mutant: a duration of zero is a duration.
LastsUnlessMissing(n) == n # Nothing

\* `if duration_days`: a duration of zero counts as none.
Lasts(n) == n \notin {Nothing, 0}

Shift(date, n) ==
    IF date = Impossible \/ date + n > LastDay THEN Raised ELSE date + n

\* Mutant: a weekday named on that weekday is today.
NextWeekdayOrToday(day, target) == day + ((target - Weekday(day)) % 7)

\* strict makes no difference: both spellings skip today.
NextWeekday(day, target) ==
    LET ahead == (target - Weekday(day)) % 7 IN
    day + (IF ahead = 0 THEN 7 ELSE ahead)

Anchor(text, day) ==
    IF text.word = "today" THEN day
    ELSE IF text.word = "tomorrow" THEN day + 1
    ELSE IF text.word = "none" THEN Nothing
    ELSE NextWeekday(day, text.day)

\* Mutant: the shifted date is not checked.
FromToUnchecked(date, n) == <<date, Shift(date, n)>>

FromTo(date, n) ==
    LET end == Shift(date, n) IN IF end = Raised THEN Raised ELSE <<date, end>>

\* extract_stay_dates: an expression such as "tomorrow" wins over a single
\* ISO date that comes without a duration.
ExtractStayDates(text, day) ==
    LET n      == Duration(text)
        anchor == Anchor(text, day)
    IN
    IF Len(text.iso) >= 2 THEN <<text.iso[1], text.iso[2]>>
    ELSE IF Len(text.iso) = 1 /\ Lasts(n) THEN FromTo(text.iso[1], n)
    ELSE IF anchor = Nothing THEN text.iso
    ELSE IF Lasts(n) THEN FromTo(anchor, n)
    ELSE <<anchor>>

\* _resolve_dates: a stored check-in without a check-out is completed by one
\* date, or by a duration that comes without a date.
ResolveDates(read, n, stored) ==
    IF Len(stored) # 1 \/ Len(read) = 2 THEN read
    ELSE IF Len(read) = 1 THEN <<stored[1], read[1]>>
    ELSE IF Lasts(n) THEN FromTo(stored[1], n) ELSE read

\* What is stored: both dates, or one that is taken for the check-in, whatever
\* check-out is there.
Stored(resolved, stored) ==
    IF Len(resolved) = 1 /\ Len(stored) = 2 THEN <<resolved[1], stored[2]>>
    ELSE IF resolved = <<>> THEN stored ELSE resolved

(***************************************************************************)
(* agents/booking_recovery.py                                              *)
(***************************************************************************)
NearbyOffsets == 1..7

\* Mutant: the wider range starts where the nearby one ends.
ExtendedOffsetsBeyondNearby == {7, 10, 14, 21, 28, 35}

ExtendedOffsets == 1..7 \cup {10, 14, 21, 28, 35}

Offsets(widen) == IF widen THEN ExtendedOffsets ELSE NearbyOffsets

\* Mutant: the day of departure counts as a night.
StayLengthInclusive(s) == s[2] - s[1] + 1

\* max((end - start).days, 1)
StayLength(s) == IF s[2] - s[1] >= 1 THEN s[2] - s[1] ELSE 1

DateRange(s, offset) == <<s[1] + offset, s[1] + offset + StayLength(s)>>

\* Mutant: a stay that ends before it begins raises too.
RangesRaiseOnDisorder(s, widen) ==
    \/ s[1] = Impossible \/ s[2] = Impossible
    \/ s[2] < s[1]
    \/ \E offset \in Offsets(widen) : DateRange(s, offset)[2] > LastDay

\* Building the ranges raises when one of them cannot be written.
RangesRaise(s, widen) ==
    \/ s[1] = Impossible \/ s[2] = Impossible
    \/ \E offset \in Offsets(widen) : DateRange(s, offset)[2] > LastDay

(***************************************************************************)
(* Steps                                                                   *)
(***************************************************************************)
Init ==
    /\ today = 1
    /\ heard = Nothing
    /\ on = 1
    /\ dates = <<>>
    /\ told = <<>>
    /\ stay = <<>>
    /\ doing = "listening"
    /\ wide = FALSE
    /\ asked = {}
    /\ matches = {}

\* A message arrives.  Its dates are completed from the stored ones while a
\* search is the conversation's task.  An exception leaves the service before
\* anything is stored.
Hears(text, searching) ==
    LET read     == ExtractStayDates(text, today)
        resolved == IF searching /\ read # Raised
                    THEN ResolveDates(read, Duration(text), stay) ELSE read
    IN
    /\ doing # "looking"
    /\ heard' = text
    /\ on' = today
    /\ \/ /\ resolved = Raised
          /\ doing' = "crashed"
          /\ dates' = <<>> /\ told' = <<>>
          /\ UNCHANGED stay
       \/ /\ resolved # Raised
          /\ doing' = "listening"
          /\ dates' = read /\ told' = resolved
          /\ stay' = Stored(resolved, stay)
    /\ asked' = {}
    /\ matches' = {}
    /\ UNCHANGED <<today, wide>>

\* _handle_unavailable_follow_up: the stay was not available.
LooksAround(widen) ==
    /\ doing # "looking" /\ Len(stay) = 2
    /\ heard' = Nothing
    /\ dates' = <<>> /\ told' = <<>>
    /\ doing' = IF RangesRaise(stay, widen) THEN "crashed" ELSE "looking"
    /\ wide' = widen
    /\ asked' = {}
    /\ matches' = {}
    /\ UNCHANGED <<today, on, stay>>

\* The search for the next range answers; the fourth match ends the loop.
RangeAnswers(offset, open) ==
    /\ doing = "looking"
    /\ offset \in Offsets(wide) \ asked
    /\ \A other \in Offsets(wide) \ asked : offset <= other
    /\ asked' = asked \cup {offset}
    /\ matches' = IF open THEN matches \cup {offset} ELSE matches
    /\ doing' = IF Cardinality(matches') >= 4 \/ asked' = Offsets(wide)
                THEN "told" ELSE "looking"
    /\ UNCHANGED <<today, heard, on, dates, told, stay, wide>>

\* One failing search ends the whole turn: BackendToolError, handover.
RangeFails ==
    /\ doing = "looking"
    /\ doing' = "handover"
    /\ UNCHANGED <<today, heard, on, dates, told, stay, wide, asked, matches>>

Midnight ==
    /\ today < LastToday
    /\ today' = today + 1
    /\ UNCHANGED <<heard, on, dates, told, stay, doing, wide, asked, matches>>

Next ==
    \/ \E text \in Texts, searching \in BOOLEAN : Hears(text, searching)
    \/ \E widen \in BOOLEAN : LooksAround(widen)
    \/ \E offset \in ExtendedOffsets, open \in BOOLEAN : RangeAnswers(offset, open)
    \/ RangeFails
    \/ Midnight

Spec == Init /\ [][Next]_vars

(***************************************************************************)
(* Properties                                                              *)
(***************************************************************************)
TypeOK ==
    /\ today \in 1..LastToday
    /\ heard \in Optional(Texts)
    /\ on \in 1..today
    /\ dates \in Seq(Dates)
    /\ told \in Seq(Dates)
    /\ stay \in {<<>>} \cup {<<date>> : date \in Dates} \cup Dates \X Dates
    /\ doing \in Phases
    /\ wide \in BOOLEAN
    /\ asked \subseteq Offsets(wide)
    /\ matches \subseteq asked

\* A weekday means the first such day after the day it is said on, within a
\* week of it, and never that day itself, whatever day that is.
WeekdayIsNext ==
    heard # Nothing /\ NamesWeekday(heard) /\ Len(heard.iso) = 0 /\ Len(dates) > 0 =>
        /\ dates[1] > on
        /\ Weekday(dates[1]) = heard.day
        /\ \A day \in Days : on < day /\ day < dates[1] => Weekday(day) # heard.day

\* A check-out the code computes from a duration is after its check-in,
\* whether the check-in is in the same message or was stored by an earlier
\* one: only a guest who writes both dates can make a stay that ends before it
\* begins.
ComputedStayIsOrdered ==
    heard # Nothing /\ Len(told) = 2 /\ Len(heard.iso) < 2 /\ Lasts(Duration(heard)) =>
        told[1] \in Days /\ told[2] \in Days /\ told[1] < told[2]

\* The dates a message is read with: those it writes and those stored.
InPlay == {heard.iso[i] : i \in 1..Len(heard.iso)} \cup {stay[i] : i \in 1..Len(stay)}

\* The service crashes on dates only when a date does not exist or the last
\* day of the calendar is in reach.
CrashNeedsBadDate ==
    doing = "crashed" =>
        \/ heard # Nothing /\ Impossible \in InPlay
        \/ heard # Nothing /\ \E first \in {on} \cup InPlay :
               first + 7 + Duration(heard) > LastDay
        \/ heard = Nothing /\ Impossible \in {stay[1], stay[2]}
        \/ heard = Nothing /\ stay[1] + 35 + StayLength(stay) > LastDay

\* "I checked a wider range ... and still do not see open rooms": each of the
\* nearby ranges was searched too, and none was open.
NothingFoundAfterAll ==
    doing = "told" /\ matches = {} => NearbyOffsets \subseteq asked

\* The ranges searched begin after the stay and are as long as it is, for
\* every stay that ends after it begins.
AlternativesKeepStay ==
    asked # {} /\ stay[1] < stay[2] =>
        \A offset \in asked :
            /\ DateRange(stay, offset)[1] > stay[1]
            /\ DateRange(stay, offset)[2] - DateRange(stay, offset)[1] = stay[2] - stay[1]
            /\ DateRange(stay, offset)[2] <= LastDay
===============================================================================
