--------------------------- MODULE StayDates_proofs ---------------------------
(***************************************************************************)
(* Theorems about the dates of a stay, for every calendar, every day a     *)
(* message may arrive on and everything it may say about dates.            *)
(***************************************************************************)
EXTENDS StayDates, FiniteSetTheorems, TLAPS

\* What was read is what the function reads in the text on its day.
ReadingFits ==
    heard # Nothing =>
        /\ heard \in Texts
        /\ Len(dates) > 0 => dates = ExtractStayDates(heard, on)

\* Ranges are searched in their order, and only when all can be written.
SearchFits ==
    /\ heard # Nothing => asked = {} /\ doing # "looking"
    /\ doing = "looking" \/ asked # {} => Len(stay) = 2 /\ ~RangesRaise(stay, wide)
    /\ doing = "told" /\ matches = {} => asked = Offsets(wide)

IInv == TypeOK /\ ReadingFits /\ SearchFits /\ CrashNeedsBadDate /\ ComputedStayIsOrdered

\* No date, a check-in, or both dates.
Stays == {<<>>} \cup {<<date>> : date \in Dates} \cup Dates \X Dates

-----------------------------------------------------------------------------
(***************************************************************************)
(* The functions on dates.                                                 *)
(***************************************************************************)

\* Sentinels are not dates.
LEMMA Sentinels ==
  /\ LastDay \in Nat /\ LastToday \in Nat
  /\ Nothing \notin Int /\ Impossible \notin Int /\ Raised \notin Int
  /\ Days \subseteq Int /\ \A d \in Days : d # Impossible /\ d # Nothing
  BY CalendarAssumption DEF Days

\* A named weekday is the first such day in the week that follows.
LEMMA NextWeekdayIsFirst ==
  ASSUME NEW day \in Nat, NEW target \in 0..6
  PROVE  /\ NextWeekday(day, target) \in day + 1 .. day + 7
         /\ Weekday(NextWeekday(day, target)) = target
         /\ \A other \in Nat : day < other /\ other < NextWeekday(day, target)
                => Weekday(other) # target
  BY DEF NextWeekday, Weekday

\* An anchor is a day of the week that begins with the day itself.
LEMMA AnchorIsNear ==
  ASSUME NEW text \in Texts, NEW day \in 1..LastToday, Anchor(text, day) # Nothing
  PROVE  Anchor(text, day) \in Days /\ Anchor(text, day) \in day .. day + 7
<1>1. text.word \in Words /\ text.day \in 0..6
  BY CalendarAssumption DEF Text
<1>2. day \in Nat /\ day + 7 <= LastDay /\ day >= 1
  BY CalendarAssumption
<1>3. NextWeekday(day, text.day) \in day + 1 .. day + 7
  BY <1>1, <1>2, NextWeekdayIsFirst
<1> QED  BY <1>1, <1>2, <1>3, CalendarAssumption DEF Anchor, Days

\* A check-out that is computed is later than its check-in.
LEMMA FromToIsOrdered ==
  ASSUME NEW date \in Dates, NEW n \in Nat \ {0}, FromTo(date, n) # Raised
  PROVE  /\ FromTo(date, n) = <<date, date + n>>
         /\ date \in Days /\ date + n \in Days
<1>1. Shift(date, n) # Raised
  BY DEF FromTo
<1>2. date \in Days /\ date + n <= LastDay
  BY <1>1, Sentinels DEF Shift, Dates, Days
<1>3. date + n \in Days /\ Shift(date, n) = date + n
  BY <1>1, <1>2 DEF Shift, Days
<1> QED  BY <1>1, <1>2, <1>3 DEF FromTo

\* The shapes of a stay.
LEMMA StayShapes ==
  ASSUME NEW s \in Stays
  PROVE  /\ s \in Seq(Dates) /\ Len(s) \in 0..2
         /\ Len(s) = 0 => s = <<>>
         /\ Len(s) = 1 => s[1] \in Dates /\ s = <<s[1]>>
         /\ Len(s) = 2 => s \in Dates \X Dates
<1>1. CASE s = <<>>
  BY <1>1
<1>2. CASE \E date \in Dates : s = <<date>>
  BY <1>2
<1>3. CASE s \in Dates \X Dates
  <2>1. PICK in, out \in Dates : s = <<in, out>>
    BY <1>3
  <2> QED  BY <1>3, <2>1
<1> QED  BY <1>1, <1>2, <1>3 DEF Stays

\* A computed pair of dates is a stay in the order of its dates.
LEMMA FromToIsStay ==
  ASSUME NEW date \in Dates, NEW n \in Optional(Nat), Lasts(n), FromTo(date, n) # Raised
  PROVE  /\ FromTo(date, n) \in Stays /\ Len(FromTo(date, n)) = 2
         /\ FromTo(date, n)[1] \in Days /\ FromTo(date, n)[2] \in Days
         /\ FromTo(date, n)[1] < FromTo(date, n)[2]
<1>1. n \in Nat \ {0}
  BY DEF Lasts, Optional
<1>2. /\ FromTo(date, n) = <<date, date + n>>
      /\ date \in Days /\ date + n \in Days
  BY <1>1, FromToIsOrdered
<1>3. date < date + n /\ date + n \in Dates
  BY <1>1, <1>2 DEF Days, Dates
<1> QED  BY <1>2, <1>3 DEF Stays

\* What the function may return.
LEMMA Extracted ==
  ASSUME NEW text \in Texts, NEW day \in 1..LastToday,
         ExtractStayDates(text, day) # Raised
  PROVE  LET read == ExtractStayDates(text, day) IN
         /\ read \in Stays
         /\ Len(text.iso) < 2 /\ Lasts(Duration(text)) /\ read # <<>> =>
               /\ Len(read) = 2
               /\ read[1] \in Days /\ read[2] \in Days /\ read[1] < read[2]
<1> DEFINE n == Duration(text)
           anchor == Anchor(text, day)
           read == ExtractStayDates(text, day)
<1>1. text.iso \in Seq(Dates) /\ Len(text.iso) \in Nat /\ n \in Optional(Nat)
  BY CalendarAssumption DEF Text, Duration
<1>2. CASE Len(text.iso) >= 2
  <2>1. read = <<text.iso[1], text.iso[2]>>
    BY <1>2 DEF ExtractStayDates
  <2>2. text.iso[1] \in Dates /\ text.iso[2] \in Dates
    BY <1>1, <1>2
  <2> QED  BY <1>1, <1>2, <2>1, <2>2 DEF Stays
<1>3. CASE Len(text.iso) = 1 /\ Lasts(n)
  <2>1. read = FromTo(text.iso[1], n)
    BY <1>3 DEF ExtractStayDates
  <2>2. text.iso[1] \in Dates
    BY <1>1, <1>3
  <2> QED  BY <1>1, <1>3, <2>1, <2>2, FromToIsStay
<1>4. CASE Len(text.iso) < 2 /\ ~(Len(text.iso) = 1 /\ Lasts(n)) /\ anchor = Nothing
  <2>1. read = text.iso
    BY <1>1, <1>4 DEF ExtractStayDates
  <2>2. CASE Len(text.iso) = 0
    <3>1. text.iso = <<>>
      BY <1>1, <2>2
    <3> QED  BY <2>1, <3>1 DEF Stays
  <2>3. CASE Len(text.iso) = 1
    <3>1. text.iso = <<text.iso[1]>> /\ text.iso[1] \in Dates
      BY <1>1, <2>3
    <3> QED  BY <1>4, <2>1, <2>3, <3>1 DEF Stays
  <2>4. Len(text.iso) = 0 \/ Len(text.iso) = 1
    <3>1. \A k \in Nat : k < 2 => k = 0 \/ k = 1
      OBVIOUS
    <3>2. Len(text.iso) \in Nat /\ Len(text.iso) < 2
      BY <1>1, <1>4
    <3> QED  BY <3>1, <3>2
  <2> QED  BY <2>2, <2>3, <2>4
<1>5. CASE Len(text.iso) < 2 /\ ~(Len(text.iso) = 1 /\ Lasts(n)) /\ anchor # Nothing
  <2>1. anchor \in Dates
    BY <1>5, AnchorIsNear DEF Dates
  <2>2. CASE Lasts(n)
    <3>1. read = FromTo(anchor, n)
      BY <1>1, <1>5, <2>2 DEF ExtractStayDates
    <3> QED  BY <1>1, <2>1, <2>2, <3>1, FromToIsStay
  <2>3. CASE ~Lasts(n)
    <3>1. read = <<anchor>>
      BY <1>1, <1>5, <2>3 DEF ExtractStayDates
    <3> QED  BY <2>1, <2>3, <3>1 DEF Stays
  <2> QED  BY <2>2, <2>3
<1> QED  BY <1>1, <1>2, <1>3, <1>4, <1>5

\* The stored check-in and what was read make a stay too; a duration with no
\* date makes one in the order of its dates.
LEMMA Resolved ==
  ASSUME NEW read \in Stays, NEW n \in Optional(Nat), NEW stored \in Stays,
         ResolveDates(read, n, stored) # Raised
  PROVE  LET told_ == ResolveDates(read, n, stored) IN
         /\ told_ \in Stays
         /\ \/ told_ = read
            \/ Len(read) = 1
            \/ /\ Lasts(n) /\ Len(told_) = 2
               /\ told_[1] \in Days /\ told_[2] \in Days /\ told_[1] < told_[2]
<1> DEFINE result == ResolveDates(read, n, stored)
<1>1. CASE Len(stored) # 1 \/ Len(read) = 2
  BY <1>1 DEF ResolveDates
<1>2. CASE Len(stored) = 1 /\ Len(read) = 1
  <2>1. result = <<stored[1], read[1]>>
    BY <1>2 DEF ResolveDates
  <2>2. stored[1] \in Dates /\ read[1] \in Dates
    BY <1>2, StayShapes
  <2> HIDE DEF result
  <2>3. result \in Stays
    BY <2>1, <2>2 DEF Stays
  <2> QED  BY <1>2, <2>3 DEF result
<1>3. CASE Len(stored) = 1 /\ Len(read) \notin {1, 2} /\ Lasts(n)
  <2>1. result = FromTo(stored[1], n) /\ stored[1] \in Dates
    BY <1>3, StayShapes DEF ResolveDates
  <2> QED  BY <1>3, <2>1, FromToIsStay
<1>4. CASE Len(stored) = 1 /\ Len(read) \notin {1, 2} /\ ~Lasts(n)
  BY <1>4 DEF ResolveDates
<1> QED  BY <1>1, <1>2, <1>3, <1>4

\* What is stored of it is a stay.
LEMMA StoredIsStay ==
  ASSUME NEW resolved \in Stays, NEW stored \in Stays
  PROVE  Stored(resolved, stored) \in Stays
<1>1. CASE Len(resolved) = 1 /\ Len(stored) = 2
  BY <1>1, StayShapes DEF Stored, Stays
<1>2. CASE ~(Len(resolved) = 1 /\ Len(stored) = 2)
  BY <1>2 DEF Stored
<1> QED  BY <1>1, <1>2

\* Why a computed check-out may raise.
LEMMA FromToRaises ==
  ASSUME NEW date \in Dates, NEW n \in Nat, FromTo(date, n) = Raised
  PROVE  date = Impossible \/ (date \in Days /\ date + n > LastDay)
<1> SUFFICES ASSUME date \in Days, date + n <= LastDay PROVE FALSE
  BY Sentinels DEF Dates, Days
<1>1. Shift(date, n) = date + n /\ date + n \in Dates
  BY Sentinels DEF Shift, Days, Dates
<1>2. <<date, date + n>> \in Seq(Dates)
  BY <1>1
<1>3. FromTo(date, n) = <<date, date + n>>
  BY <1>1, Sentinels DEF FromTo, Days
<1> QED  BY <1>2, <1>3, CalendarAssumption

\* Why the function may raise.
LEMMA ExtractRaises ==
  ASSUME NEW text \in Texts, NEW day \in 1..LastToday,
         ExtractStayDates(text, day) = Raised
  PROVE  \/ \E i \in 1..Len(text.iso) : text.iso[i] = Impossible
         \/ \E first \in {day} \cup {text.iso[i] : i \in 1..Len(text.iso)} :
                first + 7 + Duration(text) > LastDay
<1> DEFINE n == Duration(text)
           anchor == Anchor(text, day)
           read == ExtractStayDates(text, day)
<1>1. /\ text.iso \in Seq(Dates) /\ Len(text.iso) \in Nat
      /\ n \in Optional(Nat) /\ day \in Nat
  BY CalendarAssumption DEF Text, Duration
<1>2. read \notin Seq(Dates)
  BY CalendarAssumption
<1>3. CASE Len(text.iso) >= 2
  <2>1. read = <<text.iso[1], text.iso[2]>> /\ text.iso[1] \in Dates /\ text.iso[2] \in Dates
    BY <1>1, <1>3 DEF ExtractStayDates
  <2>2. read \in Seq(Dates)
    BY <2>1
  <2> QED  BY <1>2, <2>2
<1>4. CASE Len(text.iso) = 1 /\ Lasts(n)
  <2>1. FromTo(text.iso[1], n) = Raised
    BY <1>4 DEF ExtractStayDates
  <2>2. text.iso[1] \in Dates /\ n \in Nat
    BY <1>1, <1>4 DEF Lasts, Optional
  <2>3. text.iso[1] = Impossible \/ (text.iso[1] \in Days /\ text.iso[1] + n > LastDay)
    BY <2>1, <2>2, FromToRaises
  <2>4. text.iso[1] \in Days /\ text.iso[1] + n > LastDay => text.iso[1] + 7 + n > LastDay
    BY <2>2, Sentinels DEF Days
  <2>5. 1 \in 1..Len(text.iso)
    BY <1>1, <1>4
  <2> QED  BY <2>3, <2>4, <2>5
<1>5. CASE Len(text.iso) < 2 /\ ~(Len(text.iso) = 1 /\ Lasts(n)) /\ anchor = Nothing
  <2>1. read = text.iso
    BY <1>1, <1>5 DEF ExtractStayDates
  <2> QED  BY <1>1, <1>2, <2>1
<1>6. CASE Len(text.iso) < 2 /\ ~(Len(text.iso) = 1 /\ Lasts(n)) /\ anchor # Nothing
  <2>1. anchor \in Days /\ anchor \in Dates /\ anchor \in day .. day + 7
    BY <1>6, AnchorIsNear DEF Dates
  <2>2. CASE Lasts(n)
    <3>1. FromTo(anchor, n) = Raised
      BY <1>1, <1>6, <2>2 DEF ExtractStayDates
    <3>2. n \in Nat
      BY <1>1, <2>2 DEF Lasts, Optional
    <3>3. anchor + n > LastDay
      BY <2>1, <3>1, <3>2, FromToRaises, Sentinels
    <3> QED  BY <1>1, <2>1, <3>2, <3>3, Sentinels
  <2>3. CASE ~Lasts(n)
    <3>1. read = <<anchor>> /\ <<anchor>> \in Seq(Dates)
      BY <1>1, <1>6, <2>1, <2>3 DEF ExtractStayDates
    <3> QED  BY <1>2, <3>1
  <2> QED  BY <2>2, <2>3
<1> QED  BY <1>1, <1>3, <1>4, <1>5, <1>6

\* Why the stored check-in cannot be completed.
LEMMA ResolveRaises ==
  ASSUME NEW read \in Stays, NEW n \in Optional(Nat), NEW stored \in Stays,
         ResolveDates(read, n, stored) = Raised
  PROVE  /\ 1 \in 1..Len(stored)
         /\ stored[1] = Impossible \/ stored[1] + 7 + n > LastDay
<1>1. /\ Raised \notin Stays
      /\ \A date \in Dates : <<date>> \in Seq(Dates)
  BY StayShapes, CalendarAssumption
<1>2. read # Raised
  BY <1>1
<1>3. Len(stored) = 1 /\ Len(read) # 2
  BY <1>2 DEF ResolveDates
<1>4. stored = <<stored[1]>> /\ stored[1] \in Dates
  BY <1>3, StayShapes
<1>5. Len(read) # 1
  <2>1. ASSUME Len(read) = 1 PROVE FALSE
    <3>1. ResolveDates(read, n, stored) = <<stored[1], read[1]>>
      BY <1>3, <2>1 DEF ResolveDates
    <3>2. stored[1] \in Dates /\ read[1] \in Dates
      BY <1>3, <2>1, StayShapes
    <3>3. <<stored[1], read[1]>> \in Seq(Dates)
      BY <3>2
    <3> QED  BY <3>1, <3>3, CalendarAssumption
  <2> QED  BY <2>1
<1>6. Lasts(n) /\ FromTo(stored[1], n) = Raised
  BY <1>2, <1>3, <1>5 DEF ResolveDates
<1>7. n \in Nat
  BY <1>6 DEF Lasts, Optional
<1>8. stored[1] = Impossible \/ (stored[1] \in Days /\ stored[1] + n > LastDay)
  BY <1>4, <1>6, <1>7, FromToRaises
<1>9. stored[1] \in Days /\ stored[1] + n > LastDay => stored[1] + 7 + n > LastDay
  BY <1>7, Sentinels DEF Days
<1> QED  BY <1>3, <1>8, <1>9

\* The lengths of the ranges.
LEMMA RangeLength ==
  ASSUME NEW s \in Days \X Days, NEW offset \in ExtendedOffsets
  PROVE  /\ StayLength(s) \in Nat \ {0} /\ offset \in 1..35
         /\ DateRange(s, offset)[1] = s[1] + offset
         /\ DateRange(s, offset)[2] = s[1] + offset + StayLength(s)
         /\ s[1] < s[2] => StayLength(s) = s[2] - s[1]
<1>1. s[1] \in Int /\ s[2] \in Int
  BY Sentinels
<1>2. StayLength(s) \in Nat \ {0} /\ (s[1] < s[2] => StayLength(s) = s[2] - s[1])
  BY <1>1 DEF StayLength
<1>3. offset \in 1..35
  BY DEF ExtendedOffsets
<1> QED  BY <1>2, <1>3 DEF DateRange

\* Why the ranges may raise, and what holds when they do not.
LEMMA WrittenRanges ==
  ASSUME NEW s \in Dates \X Dates, NEW widen \in BOOLEAN
  PROVE  /\ Offsets(widen) \subseteq ExtendedOffsets
         /\ NearbyOffsets \subseteq Offsets(widen)
         /\ RangesRaise(s, widen) =>
               Impossible \in {s[1], s[2]} \/ s[1] + 35 + StayLength(s) > LastDay
         /\ ~RangesRaise(s, widen) =>
               /\ s \in Days \X Days
               /\ \A offset \in Offsets(widen) : DateRange(s, offset)[2] <= LastDay
<1>1. Offsets(widen) \subseteq ExtendedOffsets /\ NearbyOffsets \subseteq Offsets(widen)
  BY DEF Offsets, ExtendedOffsets, NearbyOffsets
<1>2. Impossible \notin {s[1], s[2]} => s \in Days \X Days
  BY DEF Dates
<1>3. ASSUME RangesRaise(s, widen), Impossible \notin {s[1], s[2]}
      PROVE  s[1] + 35 + StayLength(s) > LastDay
  <2>1. PICK offset \in Offsets(widen) : DateRange(s, offset)[2] > LastDay
    BY <1>3 DEF RangesRaise
  <2> QED  BY <1>1, <1>2, <1>3, <2>1, RangeLength, Sentinels DEF Days
<1>4. ASSUME ~RangesRaise(s, widen)
      PROVE  \A offset \in Offsets(widen) : DateRange(s, offset)[2] <= LastDay
  <2>1. s \in Days \X Days
    BY <1>2, <1>4 DEF RangesRaise
  <2> QED  BY <1>1, <1>4, <2>1, RangeLength, Sentinels DEF RangesRaise, Days
<1> QED  BY <1>1, <1>2, <1>3, <1>4 DEF RangesRaise

-----------------------------------------------------------------------------
(***************************************************************************)
(* The inductive invariant.                                                *)
(***************************************************************************)
LEMMA InitIInv == Init => IInv
<1> SUFFICES ASSUME Init PROVE IInv
  OBVIOUS
<1>1. today \in 1..LastToday /\ on \in 1..today
  BY CalendarAssumption DEF Init
<1>2. dates \in Seq(Dates) /\ told \in Seq(Dates)
  BY DEF Init
<1>3. TypeOK
  BY <1>1, <1>2 DEF Init, TypeOK, Optional, Phases
<1> QED  BY <1>3 DEF Init, IInv, ReadingFits, SearchFits, CrashNeedsBadDate, ComputedStayIsOrdered

\* The stay is always of one of the three shapes.
LEMMA StayIsStored ==
  ASSUME TypeOK
  PROVE  stay \in Stays
  BY DEF TypeOK, Stays

\* A message about dates.
LEMMA HearsStep ==
  ASSUME IInv, NEW text \in Texts, NEW searching \in BOOLEAN, Hears(text, searching)
  PROVE  IInv'
<1> DEFINE read     == ExtractStayDates(text, today)
           n        == Duration(text)
           resolved == IF searching /\ read # Raised
                       THEN ResolveDates(read, n, stay) ELSE read
<1>1. /\ today \in 1..LastToday /\ on' = today /\ today' = today /\ heard' = text
      /\ text # Nothing
  BY CalendarAssumption DEF IInv, TypeOK, Hears
<1>2. asked' = {} /\ matches' = {} /\ wide' = wide /\ doing' \in {"listening", "crashed"}
  BY DEF Hears
<1>3. stay \in Stays /\ n \in Optional(Nat)
  BY StayIsStored, CalendarAssumption DEF IInv, Text, Duration
<1>4. CASE resolved = Raised
  <2>1. doing' = "crashed" /\ dates' = <<>> /\ told' = <<>> /\ stay' = stay
    BY <1>4 DEF Hears
  <2>2. TypeOK'
    BY <1>1, <1>2, <2>1 DEF IInv, TypeOK, Phases, Optional
  <2>3. InPlay' = {text.iso[i] : i \in 1..Len(text.iso)} \cup {stay[i] : i \in 1..Len(stay)}
    BY <1>1, <2>1 DEF InPlay
  <2>4. \/ Impossible \in InPlay'
        \/ \E first \in {today} \cup InPlay' : first + 7 + n > LastDay
    <3>1. CASE read = Raised
      <4>1. \/ \E i \in 1..Len(text.iso) : text.iso[i] = Impossible
            \/ \E first \in {today} \cup {text.iso[i] : i \in 1..Len(text.iso)} :
                   first + 7 + n > LastDay
        BY <1>1, <3>1, ExtractRaises
      <4> QED  BY <2>3, <4>1
    <3>2. CASE read # Raised
      <4>1. ResolveDates(read, n, stay) = Raised /\ read \in Stays
        BY <1>1, <1>4, <3>2, Extracted
      <4>2. 1 \in 1..Len(stay) /\ (stay[1] = Impossible \/ stay[1] + 7 + n > LastDay)
        BY <1>3, <4>1, ResolveRaises
      <4> QED  BY <2>3, <4>2
    <3> QED  BY <3>1, <3>2
  <2>5. CrashNeedsBadDate'
    BY <1>1, <2>4 DEF CrashNeedsBadDate
  <2>6. ComputedStayIsOrdered'
    BY <2>1 DEF ComputedStayIsOrdered
  <2> QED  BY <1>1, <1>2, <2>1, <2>2, <2>5, <2>6 DEF IInv, ReadingFits, SearchFits
<1>5. CASE resolved # Raised
  <2>1. /\ doing' = "listening" /\ dates' = read /\ told' = resolved
        /\ stay' = Stored(resolved, stay)
    BY <1>5 DEF Hears
  <2>2. read # Raised
    BY <1>5
  <2>3. /\ read \in Stays
        /\ Len(text.iso) < 2 /\ Lasts(n) /\ read # <<>> =>
               /\ Len(read) = 2
               /\ read[1] \in Days /\ read[2] \in Days /\ read[1] < read[2]
    BY <1>1, <2>2, Extracted
  <2>4. /\ resolved \in Stays
        /\ \/ resolved = read
           \/ Len(read) = 1
           \/ /\ Lasts(n) /\ Len(resolved) = 2
              /\ resolved[1] \in Days /\ resolved[2] \in Days /\ resolved[1] < resolved[2]
    BY <1>3, <1>5, <2>3, Resolved
  <2>5. stay' \in Stays
    BY <1>3, <2>1, <2>4, StoredIsStay
  <2> HIDE DEF read, resolved, n
  <2>6. dates' \in Seq(Dates) /\ told' \in Seq(Dates)
    BY <2>1, <2>3, <2>4, StayShapes
  <2>7. TypeOK'
    BY <1>1, <1>2, <2>1, <2>5, <2>6 DEF IInv, TypeOK, Phases, Optional, Stays
  <2>8. CrashNeedsBadDate'
    BY <2>1 DEF CrashNeedsBadDate
  <2>9. ComputedStayIsOrdered'
    <3>1. heard'.iso = text.iso /\ Duration(heard') = n
      BY <1>1 DEF n
    <3>2. ASSUME Len(resolved) = 2, Len(text.iso) < 2, Lasts(n)
          PROVE  resolved[1] \in Days /\ resolved[2] \in Days /\ resolved[1] < resolved[2]
      <4>1. read = <<>> => Len(read) = 0
        OBVIOUS
      <4> QED  BY <2>3, <2>4, <3>2, <4>1
    <3> QED  BY <2>1, <3>1, <3>2 DEF ComputedStayIsOrdered
  <2> QED  BY <1>1, <1>2, <2>1, <2>7, <2>8, <2>9 DEF IInv, ReadingFits, SearchFits, read
<1> QED  BY <1>4, <1>5

\* The search for other dates begins, or cannot be written.
LEMMA LooksAroundStep ==
  ASSUME IInv, NEW widen \in BOOLEAN, LooksAround(widen)
  PROVE  IInv'
<1>1. /\ Len(stay) = 2 /\ stay' = stay /\ today' = today /\ on' = on
      /\ heard' = Nothing /\ dates' = <<>> /\ told' = <<>> /\ wide' = widen
      /\ asked' = {} /\ matches' = {}
      /\ doing' = IF RangesRaise(stay, widen) THEN "crashed" ELSE "looking"
  BY DEF LooksAround
<1>2. TypeOK'
  BY <1>1 DEF IInv, TypeOK, Phases, Optional
<1>3. ReadingFits' /\ SearchFits'
  <2>1. RangesRaise(stay, wide)' = RangesRaise(stay, widen)
    BY <1>1 DEF RangesRaise, Offsets, DateRange, StayLength
  <2> QED  BY <1>1, <2>1 DEF ReadingFits, SearchFits
<1>4. CrashNeedsBadDate'
  <2>1. stay \in Dates \X Dates
    BY <1>1, StayIsStored, StayShapes DEF IInv
  <2>2. RangesRaise(stay, widen) =>
          Impossible \in {stay[1], stay[2]} \/ stay[1] + 35 + StayLength(stay) > LastDay
    BY <2>1, WrittenRanges
  <2> QED  BY <1>1, <2>2 DEF CrashNeedsBadDate, StayLength
<1>5. ComputedStayIsOrdered'
  BY <1>1 DEF ComputedStayIsOrdered
<1> QED  BY <1>2, <1>3, <1>4, <1>5 DEF IInv

\* One more range is searched.
LEMMA RangeAnswersStep ==
  ASSUME IInv, NEW offset \in ExtendedOffsets, NEW open \in BOOLEAN,
         RangeAnswers(offset, open)
  PROVE  IInv'
<1>1. /\ doing = "looking" /\ offset \in Offsets(wide)
      /\ asked' = asked \cup {offset}
      /\ matches' = IF open THEN matches \cup {offset} ELSE matches
      /\ doing' = IF Cardinality(matches') >= 4 \/ asked' = Offsets(wide)
                  THEN "told" ELSE "looking"
      /\ UNCHANGED <<today, heard, on, dates, told, stay, wide>>
  BY DEF RangeAnswers
<1>2. TypeOK'
  BY <1>1 DEF IInv, TypeOK, Phases, Offsets
<1>3. ReadingFits'
  BY <1>1 DEF IInv, ReadingFits, ExtractStayDates
<1>4. SearchFits'
  <2>1. matches' = {} => Cardinality(matches') = 0
    BY FS_EmptySet
  <2>2. doing' = "told" /\ matches' = {} => asked' = Offsets(wide)
    BY <1>1, <2>1
  <2>3. RangesRaise(stay, wide)' = RangesRaise(stay, wide) /\ Offsets(wide)' = Offsets(wide)
    BY <1>1 DEF RangesRaise, Offsets, DateRange, StayLength
  <2> QED  BY <1>1, <2>2, <2>3 DEF IInv, SearchFits
<1>5. CrashNeedsBadDate'
  BY <1>1 DEF CrashNeedsBadDate
<1>6. ComputedStayIsOrdered'
  BY <1>1 DEF IInv, ComputedStayIsOrdered, Duration
<1> QED  BY <1>2, <1>3, <1>4, <1>5, <1>6 DEF IInv

\* A failing search, a new day, or nothing.
LEMMA OtherStep ==
  ASSUME IInv, RangeFails \/ Midnight \/ UNCHANGED vars
  PROVE  IInv'
<1>1. /\ UNCHANGED <<heard, on, dates, told, stay, wide, asked, matches>>
      /\ doing' = doing \/ doing' = "handover"
      /\ today' = today \/ (today < LastToday /\ today' = today + 1)
  BY DEF RangeFails, Midnight, vars
<1>2. today' \in 1..LastToday /\ on' \in 1..today'
  BY <1>1, CalendarAssumption DEF IInv, TypeOK
<1>3. TypeOK'
  BY <1>1, <1>2 DEF IInv, TypeOK, Phases, Offsets
<1>4. ReadingFits'
  BY <1>1 DEF IInv, ReadingFits, ExtractStayDates, Duration, Anchor, FromTo, Shift,
              NextWeekday, Weekday
<1>5. RangesRaise(stay, wide)' = RangesRaise(stay, wide) /\ Offsets(wide)' = Offsets(wide)
  BY <1>1 DEF RangesRaise, Offsets, DateRange, StayLength
<1>6. SearchFits'
  BY <1>1, <1>5 DEF IInv, SearchFits
<1>7. CrashNeedsBadDate'
  BY <1>1 DEF IInv, CrashNeedsBadDate, Duration, StayLength, InPlay
<1>8. ComputedStayIsOrdered'
  BY <1>1 DEF IInv, ComputedStayIsOrdered, Duration
<1> QED  BY <1>3, <1>4, <1>6, <1>7, <1>8 DEF IInv

\* Hearing, searching and what changes neither keep the invariant.
LEMMA NextIInv == IInv /\ [Next]_vars => IInv'
  BY HearsStep, LooksAroundStep, RangeAnswersStep, OtherStep DEF Next

\* The inductive invariant holds throughout.
THEOREM Invariance == Spec => []IInv
  BY InitIInv, NextIInv, PTL DEF Spec

\* Type correctness: nothing but dates is ever stored as a stay.
THEOREM TypeCorrect == Spec => []TypeOK
<1>1. IInv => TypeOK
  BY DEF IInv
<1> QED  BY <1>1, Invariance, PTL

\* The service crashes on dates only for a date that does not exist or at the
\* end of the calendar.
THEOREM CrashesHaveACause == Spec => []CrashNeedsBadDate
<1>1. IInv => CrashNeedsBadDate
  BY DEF IInv
<1> QED  BY <1>1, Invariance, PTL

\* A message that names a weekday and no ISO date is read as that weekday.
LEMMA WeekdayIsRead ==
  ASSUME NEW text \in Texts, NEW day \in 1..LastToday,
         NamesWeekday(text), Len(text.iso) = 0,
         ExtractStayDates(text, day) # Raised
  PROVE  ExtractStayDates(text, day)[1] = NextWeekday(day, text.day)
<1> DEFINE read == ExtractStayDates(text, day)
           next == NextWeekday(day, text.day)
<1>1. text.day \in 0..6 /\ day \in Nat
  <2>1. text \in Text
    BY CalendarAssumption
  <2>2. text.day \in 0..6
    BY <2>1 DEF Text
  <2>3. day \in Nat
    BY Sentinels
  <2> QED  BY <2>2, <2>3
<1>2. next \in day + 1 .. day + 7
  BY <1>1, NextWeekdayIsFirst
<1>3. Anchor(text, day) = next
  BY DEF Anchor, NamesWeekday
<1>4. next # Nothing
  BY <1>1, <1>2, Sentinels
<1>5. read = IF Lasts(Duration(text)) THEN FromTo(next, Duration(text)) ELSE <<next>>
  BY <1>3, <1>4 DEF ExtractStayDates
<1> HIDE DEF next, read
<1>6. FromTo(next, Duration(text)) # Raised => FromTo(next, Duration(text))[1] = next
  BY DEF FromTo
<1>7. read[1] = next
  BY <1>5, <1>6 DEF read
<1> QED  BY <1>7 DEF read, next

\* On every day of every calendar, a weekday means the first one after today.
THEOREM WeekdaysAreNext == Spec => []WeekdayIsNext
<1>1. ASSUME IInv PROVE WeekdayIsNext
  <2>1. SUFFICES ASSUME heard # Nothing, NamesWeekday(heard),
                        Len(heard.iso) = 0, Len(dates) > 0
                 PROVE  /\ dates[1] > on
                        /\ Weekday(dates[1]) = heard.day
                        /\ \A day \in Days :
                              on < day /\ day < dates[1] => Weekday(day) # heard.day
    BY DEF WeekdayIsNext
  <2>2. heard \in Texts /\ dates = ExtractStayDates(heard, on) /\ dates \in Seq(Dates)
    BY <1>1, <2>1 DEF IInv, ReadingFits, TypeOK
  <2>3. today \in 1..LastToday /\ on \in 1..today
    BY <1>1 DEF IInv, TypeOK
  <2>4. on \in 1..LastToday /\ on \in Nat
    BY <2>3, Sentinels
  <2>5. heard.day \in 0..6
    BY <2>2, CalendarAssumption DEF Text
  <2>6. dates # Raised
    BY <2>2, CalendarAssumption
  <2>7. dates[1] = NextWeekday(on, heard.day)
    BY <2>1, <2>2, <2>4, <2>6, WeekdayIsRead
  <2>8. \A day \in Nat : on < day /\ day < dates[1] => Weekday(day) # heard.day
    BY <2>4, <2>5, <2>7, NextWeekdayIsFirst
  <2>9. Days \subseteq Nat
    BY Sentinels DEF Days
  <2>10. dates[1] > on /\ Weekday(dates[1]) = heard.day
    <3>1. /\ NextWeekday(on, heard.day) \in on + 1 .. on + 7
          /\ Weekday(NextWeekday(on, heard.day)) = heard.day
      BY <2>4, <2>5, NextWeekdayIsFirst
    <3> QED  BY <2>4, <2>7, <3>1
  <2> QED  BY <2>8, <2>9, <2>10
<1> QED  BY <1>1, Invariance, PTL

\* A check-out that is computed is after its check-in, and both are real.
THEOREM ComputedStaysAreOrdered == Spec => []ComputedStayIsOrdered
<1>1. IInv => ComputedStayIsOrdered
  BY DEF IInv
<1> QED  BY <1>1, Invariance, PTL

\* "Still no open rooms" is said after every nearby range was searched.
THEOREM NothingIsFoundAfterAll == Spec => []NothingFoundAfterAll
<1>1. IInv => NothingFoundAfterAll
  BY DEF IInv, SearchFits, NothingFoundAfterAll, Offsets, NearbyOffsets, ExtendedOffsets
<1> QED  BY <1>1, Invariance, PTL

\* The ranges searched for an ordered stay are as long as it is, begin after
\* it and are in the calendar.
THEOREM AlternativesKeepTheStay == Spec => []AlternativesKeepStay
<1>1. ASSUME IInv, asked # {}, stay[1] < stay[2], NEW offset \in asked
      PROVE  /\ DateRange(stay, offset)[1] > stay[1]
             /\ DateRange(stay, offset)[2] - DateRange(stay, offset)[1] = stay[2] - stay[1]
             /\ DateRange(stay, offset)[2] <= LastDay
  <2>1. stay \in Dates \X Dates /\ offset \in Offsets(wide) /\ wide \in BOOLEAN
    BY <1>1, StayIsStored, StayShapes DEF IInv, TypeOK, SearchFits
  <2>2. ~RangesRaise(stay, wide)
    BY <1>1 DEF IInv, SearchFits
  <2>3. /\ stay \in Days \X Days /\ offset \in ExtendedOffsets
        /\ DateRange(stay, offset)[2] <= LastDay
    BY <2>1, <2>2, WrittenRanges
  <2>4. stay[1] \in Int /\ stay[2] \in Int
    BY <2>3, Sentinels
  <2> QED  BY <1>1, <2>3, <2>4, RangeLength
<1>2. IInv => AlternativesKeepStay
  BY <1>1 DEF AlternativesKeepStay
<1> QED  BY <1>2, Invariance, PTL
===============================================================================
