----------------------------- MODULE Combodate -----------------------------
(***************************************************************************)
(* Combodate (combodate.js): a field that is hidden behind one select for  *)
(* each part of a date, with hours to 12 or to 24.  Seconds are left out,  *)
(* as they are in the templates of the pages.                              *)
(***************************************************************************)
EXTENDS Integers, FiniteSets

CONSTANTS
    MinYear, MaxYear,   \* offered
    MinuteStep,
    SetDates,           \* bound: the dates a script sets
    Picks               \* bound: what is picked of each select, a function

(* The parts of a date that moment works with. *)
DateParts == {"year", "month", "day", "hour", "minute"}

(* A select without a selection, by the empty item or as its value was
   not offered, reads as no number. *)
NaN == -1

ASSUME CombodateAssumption ==
    /\ MinYear \in Nat /\ MaxYear \in Nat /\ MinYear <= MaxYear
    /\ MinuteStep \in 1 .. 59
    /\ \A date \in SetDates :
           /\ date \in [DateParts -> Nat]
           /\ date["month"] \in 0 .. 11 /\ date["day"] \in 1 .. 31
           /\ date["hour"] \in 0 .. 23 /\ date["minute"] \in 0 .. 59
    /\ Picks \in [DateParts -> SUBSET (Nat \cup {NaN})]

VARIABLE
    combo   \* selects (their numbers), pm, field (a date, or the empty string as
            \* all parts NaN), h12 (the template has hours to 12)

(* What the selects offer: fillYear, fillMonth and so on. *)
Offered(h12, part) ==
    CASE part = "year"   -> MinYear .. MaxYear
      [] part = "month"  -> 0 .. 11
      [] part = "day"    -> 1 .. 31
      [] part = "hour"   -> IF h12 THEN 1 .. 12 ELSE 0 .. 23
      [] part = "minute" -> {m \in 0 .. 59 : m % MinuteStep = 0}

Empty == [part \in DateParts |-> NaN]

ComboTypeOK ==
    /\ combo.h12 \in BOOLEAN /\ combo.pm \in BOOLEAN
    /\ \A part \in DateParts : combo.selects[part] \in Offered(combo.h12, part) \cup {NaN}
    /\ combo.field \in [DateParts -> Int]

(* Validity is moment's: a day that its month has. *)
ValidDate(date) ==
    LET leap == date.year % 4 = 0 /\ (date.year % 100 # 0 \/ date.year % 400 = 0)
    IN  date.day <= (CASE date.month = 1               -> IF leap THEN 29 ELSE 28
                       [] date.month \in {3, 5, 8, 10} -> 30
                       [] OTHER                        -> 31)

(* Mutant of To24: noon and midnight are not told from other hours. *)
To24Plain(hour, pm) == IF pm THEN hour + 12 ELSE hour

(* Hours to 12 and back: 12 am is midnight, and 12 pm noon. *)
To24(hour, pm) ==
    IF hour = 12 THEN (IF pm THEN 12 ELSE 0) ELSE (IF pm THEN hour + 12 ELSE hour)

To12(hour) == IF hour > 12 THEN hour - 12 ELSE IF hour = 0 THEN 12 ELSE hour

(* getValue: nothing if a select has no selection, or for no valid date. *)
GetValue(c) ==
    LET hour == IF c.h12 THEN To24(c.selects["hour"], c.pm) ELSE c.selects["hour"]
        date == [c.selects EXCEPT !["hour"] = hour]
    IN  IF (\E part \in DateParts : c.selects[part] = NaN) \/ ~ValidDate(date)
        THEN Empty ELSE date

(* getNearest, of the minutes: the first of two that are as near. *)
Nearest(minute) ==
    CHOOSE m \in Offered(FALSE, "minute") :
        \A n \in Offered(FALSE, "minute") :
            LET distance(a) == IF a < minute THEN minute - a ELSE a - minute
            IN  distance(m) < distance(n) \/ (distance(m) = distance(n) /\ m <= n)

(* setValue: the selects show the nearest minutes, and no year that is not
   offered; the field has the date as it is. *)
SetValue(c, date) ==
    LET shown == [date EXCEPT !["hour"] = IF c.h12 THEN To12(@) ELSE @,
                              !["minute"] = Nearest(@),
                              !["year"] = IF @ \in MinYear .. MaxYear THEN @ ELSE NaN]
    IN  [c EXCEPT !.selects = shown, !.pm = date["hour"] >= 12, !.field = date]

ComboInit ==
    \E h12 \in BOOLEAN :
        combo = [h12 |-> h12, selects |-> Empty, pm |-> FALSE, field |-> Empty]

ComboSetValue(date) ==
    /\ ValidDate(date)
    /\ combo' = SetValue(combo, date)

(* Changed: the field takes what the selects say. *)
WithField(c) == [c EXCEPT !.field = GetValue(c)]

ComboPick(part, n) ==
    /\ n \in Picks[part] \cap (Offered(combo.h12, part) \cup {NaN})
    /\ combo' = WithField([combo EXCEPT !.selects[part] = n])

ComboPickAmPm(pm) ==
    /\ combo.h12
    /\ combo' = WithField([combo EXCEPT !.pm = pm])

ComboNext ==
    \/ \E date \in SetDates : ComboSetValue(date)
    \/ \E part \in DateParts : \E n \in Picks[part] : ComboPick(part, n)
    \/ \E pm \in BOOLEAN : ComboPickAmPm(pm)

ComboSpec == ComboInit /\ [][ComboNext]_combo

-----------------------------------------------------------------------------
(***************************************************************************)
(* A date in the field is shown: read back from the selects it is the      *)
(* same, in hours to 12 as in hours to 24, however it got there, if its    *)
(* year and its minutes are offered.  (Of one that is not, the next pick   *)
(* rounds the minutes, or empties the field for want of a year.)           *)
(***************************************************************************)
ComboShowsField ==
    (combo.field["year"] \in MinYear .. MaxYear /\ combo.field["minute"] % MinuteStep = 0) =>
        GetValue(combo) = combo.field

(***************************************************************************)
(* The field is empty or has a date that exists, whatever is picked and in *)
(* whatever order - from the 31st to a month of 30 days, for one.          *)
(***************************************************************************)
ComboFieldIsValid == combo.field = Empty \/ ValidDate(combo.field)

(***************************************************************************)
(* The selects and the field behind them have one date, which exists.      *)
(***************************************************************************)
ComboSafe == ComboShowsField /\ ComboFieldIsValid

=============================================================================
