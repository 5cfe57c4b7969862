----------------------------- MODULE MCStayDates -----------------------------
(***************************************************************************)
(* Texts for model checking StayDates.                                     *)
(***************************************************************************)
EXTENDS StayDates

MCText(iso, duration, word, day) ==
    [iso |-> iso, nights |-> duration[1], days |-> duration[2], word |-> word, day |-> day]

\* Durations as <<nights, days>>: none, none at all, short, past the calendar.
MCDurations == {<<Nothing, Nothing>>, <<0, Nothing>>, <<2, Nothing>>, <<Nothing, 60>>, <<2, 60>>}

\* Weekdays: the one of day 1 and the one of day 2.
MCTexts ==
    LET none == <<Nothing, Nothing>>
        two  == <<2, Nothing>>
    IN {MCText(<<>>, duration, "none", 0) : duration \in MCDurations}
       \cup {MCText(<<>>, duration, "today", 0) : duration \in {none, <<0, Nothing>>, two}}
       \cup {MCText(<<>>, duration, "weekday", day) : duration \in {none, two}, day \in {4, 5}}
       \cup {MCText(<<date>>, two, "none", 0) : date \in {20, Impossible}}
       \cup {MCText(<<>>, none, "next weekday", 4), MCText(<<20>>, none, "tomorrow", 0),
             MCText(<<Impossible>>, none, "none", 0), MCText(<<20>>, <<Nothing, 60>>, "none", 0),
             MCText(<<20, 3>>, none, "none", 0), MCText(<<3, Impossible>>, none, "none", 0)}
===============================================================================
