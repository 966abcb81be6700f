----------------------------- MODULE MCWebPage -----------------------------
(***************************************************************************)
(* A page for TLC: three links, a server with three rows, months at both   *)
(* ends of a year and around a leap day, and dates whose parts need care.  *)
(***************************************************************************)
EXTENDS WebPage

MCOffsets == <<2, 4, 6>>

MCCounts ==
    [s \in Searches |-> [f \in Filters |->
        CASE s = "" -> IF f = "all" THEN 3 ELSE 2
          [] OTHER  -> IF f = "all" THEN 1 ELSE 0]]

Month(y, m) == 12 * y + m

MCMonths ==
    {Month(2011, 11), Month(2012, 0), Month(2012, 1), Month(2012, 2), Month(2013, 1),
     Month(2022, 1)}

MCToday == [month |-> Month(2012, 0), day |-> 31]

MCFirstDate == [month |-> Month(2012, 1), day |-> 12]

Date(y, m, d, h, min) == [year |-> y, month |-> m, day |-> d, hour |-> h, minute |-> min]

MCSetDates ==
    {Date(2012, 11, 21, 20, 30), Date(2012, 1, 29, 0, 0), Date(2011, 0, 31, 12, 33),
     Date(2016, 0, 1, 1, 55)}

MCPicks ==
    [year |-> {2011, 2012}, month |-> {0, 1, NaN}, day |-> {29, 31},
     hour |-> {0, 1, 12, 13}, minute |-> {0}]

=============================================================================
