----------------------------- MODULE Datepicker -----------------------------
(***************************************************************************)
(* The date picker (bootstrap-datepicker.js) on a field: its calendar of   *)
(* 42 days, the views of months and of years, and what is typed into the   *)
(* field.  A month is 12 times its year and its number from 0, and a date  *)
(* a month with a day.                                                     *)
(***************************************************************************)
EXTENDS Integers, FiniteSetsExt

CONSTANTS
    Months,     \* bound: those that can be viewed and typed
    Days,       \* bound: the days that are clicked or typed
    Today,      \* a date, for what cannot be parsed
    FirstDate,  \* what the field holds at first
    WeekStart,  \* first day of the week, Sunday is 0
    MinViewMode,  \* 0 days, 1 months, 2 years: where a selection ends
    StartViewMode \* the view to start with, and again after every hide

(* getDaysInMonth and isLeapYear. *)
IsLeapYear(year) == (year % 4 = 0 /\ year % 100 # 0) \/ year % 400 = 0

DaysInMonth(month) ==
    CASE month % 12 = 1                -> IF IsLeapYear(month \div 12) THEN 29 ELSE 28
      [] month % 12 \in {3, 5, 8, 10}  -> 30
      [] OTHER                         -> 31

DatesOf(months) == {date \in [month : months, day : 1 .. 31] : date.day <= DaysInMonth(date.month)}

(* Date takes a year of two digits for one of the last century. *)
ASSUME DatepickerAssumption ==
    /\ Months \subseteq Nat \ (0 .. 1199) /\ Days \subseteq 1 .. 31
    /\ Today \in DatesOf(Months) /\ FirstDate \in DatesOf(Months)
    /\ WeekStart \in 0 .. 6 /\ {MinViewMode, StartViewMode} \subseteq 0 .. 2

(* Date of the browser, from the year 100 on: a day beyond the end of its month runs into the
   next one, and a day of the week, Sunday 0, counted from the year 0. *)
NewDate(month, day) ==
    IF day <= DaysInMonth(month) THEN [month |-> month, day |-> day]
                                 ELSE [month |-> month + 1, day |-> day - DaysInMonth(month)]

DaysBeforeYear(year) ==
    365 * year + (year + 3) \div 4 - (year + 99) \div 100 + (year + 399) \div 400

DaysBefore(month) ==
    LET year == month \div 12
        days(m) == DaysInMonth(year * 12 + m)
    IN  DaysBeforeYear(year) + MapThenSumSet(days, 0 .. ((month % 12) - 1))

WeekDay(date) == (DaysBefore(date.month) + date.day + 5) % 7

VARIABLE
    picker  \* date, text (of the field: a month and a day as typed, or "none" for
            \* what cannot be parsed), viewDate, viewMode, shown, listens (the
            \* document has a handler that hides it; none is ever removed)

(* parseDate: the day may be beyond the month, as 31-02. *)
ParseDate(text) == IF text.parsed THEN NewDate(text.month, text.day) ELSE Today

Formatted(date) == [parsed |-> TRUE, month |-> date.month, day |-> date.day]

Texts == [parsed : {TRUE}, month : Months, day : Days]
             \cup {[parsed |-> FALSE, month |-> 0, day |-> 0]}

ViewModes == {StartViewMode} \cup MinViewMode .. 2

PickerTypeOK ==
    /\ DOMAIN picker = {"date", "text", "viewDate", "viewMode", "shown", "listens"}
    /\ picker.date \in DatesOf({picker.date.month})
    /\ picker.viewDate \in DatesOf({picker.viewDate.month})
    /\ picker.viewMode \in ViewModes
    /\ {picker.shown, picker.listens} \subseteq BOOLEAN

(* What setValue and update do with a date. *)
Update(p, date) == [p EXCEPT !.date = date, !.viewDate = [month |-> date.month, day |-> 1]]

PickerInit ==
    picker = [date |-> FirstDate, text |-> Formatted(FirstDate),
              viewDate |-> [month |-> FirstDate.month, day |-> 1],
              viewMode |-> StartViewMode, shown |-> FALSE, listens |-> FALSE]

(* The calendar of a month starts on the last first day of a week in the
   month before. *)
FirstDay(month) ==
    LET last == [month |-> month - 1, day |-> DaysInMonth(month - 1)]
    IN  last.day - ((WeekDay(last) - WeekStart + 7) % 7)

CellAt(month, i) ==
    LET inPrevious == NewDate(month - 1, FirstDay(month) + i)
    IN  NewDate(inPrevious.month, inPrevious.day)

(* Mutant of CellClass: the years are not compared. *)
CellClassByMonth(cell, month) ==
    CASE cell.month % 12 < month % 12 -> "old"
      [] cell.month % 12 > month % 12 -> "new"
      [] cell.month % 12 = month % 12 -> ""

(* fill: old and new, by year and month. *)
CellClass(cell, month) ==
    LET sameYear == cell.month \div 12 = month \div 12
    IN  CASE \/ sameYear /\ cell.month % 12 < month % 12
             \/ cell.month \div 12 < month \div 12       -> "old"
          [] \/ sameYear /\ cell.month % 12 > month % 12
             \/ cell.month \div 12 > month \div 12       -> "new"
          [] sameYear /\ cell.month % 12 = month % 12     -> ""

(* click on a day: the month it is taken for, by its class. *)
MonthClicked(class, month) ==
    CASE class = "old" -> month - 1
      [] class = "new" -> month + 1
      [] class = ""    -> month

PickerShow == picker' = [picker EXCEPT !.shown = TRUE, !.listens = TRUE]

(* mousedown elsewhere: hide, shown or not. *)
PickerHide ==
    /\ picker.listens
    /\ picker' = [picker EXCEPT !.shown = FALSE, !.viewMode = StartViewMode]

(* keyup, whatever the field then holds. *)
PickerType(text) ==
    /\ NewDate(text.month, text.day).month \in Months \/ ~text.parsed
    /\ picker' = Update([picker EXCEPT !.text = text], ParseDate(text))

(* The view never has a day that some month has not. *)
ViewDay(day) == Min({28, day})

(* set. *)
Set(p) == [p EXCEPT !.text = Formatted(p.date)]

PickerClickDay(i) ==
    LET cell  == CellAt(picker.viewDate.month, i)
        month == MonthClicked(CellClass(cell, picker.viewDate.month), picker.viewDate.month)
    IN  /\ picker.shown /\ picker.viewMode = 0
        /\ cell.day \in Days /\ month \in Months
        /\ picker' = Set([picker EXCEPT !.date = NewDate(month, cell.day),
                                        !.viewDate = NewDate(month, ViewDay(cell.day))])

(* showMode with a direction. *)
ModeBy(mode, dir) == Max({MinViewMode, Min({2, mode + dir})})

PickerSwitch ==
    /\ picker.shown
    /\ picker' = [picker EXCEPT !.viewMode = ModeBy(@, 1)]

(* Months that prev and next go by in each mode. *)
NavStep(mode) == CASE mode = 0 -> 1 [] mode = 1 -> 12 [] mode = 2 -> 120

(* prev and next: the view moves, the date does not. *)
PickerNavigate(dir) ==
    LET month == picker.viewDate.month + dir * NavStep(picker.viewMode)
    IN  /\ picker.shown
        /\ month \in Months
        /\ picker' = Set([picker EXCEPT !.viewDate = NewDate(month, @.day)])

(* A month or a year is selected: the date takes the day of the view. *)
Selected(month) ==
    Set([picker EXCEPT !.viewDate = NewDate(month, @.day),
                       !.date = NewDate(month, picker.viewDate.day), !.viewMode = ModeBy(@, -1)])

PickerSelectMonth(m) ==
    LET month == (picker.viewDate.month \div 12) * 12 + m
    IN  /\ picker.shown /\ picker.viewMode = 1 /\ month \in Months
        /\ picker' = Selected(month)

(* One of the twelve years around the decade of the view. *)
PickerSelectYear(year) ==
    LET month  == year * 12 + (picker.viewDate.month % 12)
        decade == (picker.viewDate.month \div 120) * 10
    IN  /\ picker.shown /\ picker.viewMode = 2 /\ month \in Months
        /\ year \in (decade - 1) .. (decade + 10)
        /\ picker' = Selected(month)

PickerNext ==
    \/ PickerShow \/ PickerHide \/ PickerSwitch
    \/ \E text \in Texts : PickerType(text)
    \/ \E i \in 0 .. 41 : PickerClickDay(i)
    \/ \E dir \in {-1, 1} : PickerNavigate(dir)
    \/ \E m \in 0 .. 11 : PickerSelectMonth(m)
    \/ \E month \in Months : PickerSelectYear(month \div 12)

PickerSpec == PickerInit /\ [][PickerNext]_picker

-----------------------------------------------------------------------------
(***************************************************************************)
(* The calendar that is shown is right: it has every day of its month, and *)
(* a click on any of the 42 days, from the month before and after as well, *)
(* picks the day it stands for, across the ends of years.                  *)
(***************************************************************************)
PickerPicksCell ==
    LET month == picker.viewDate.month
        cells == [i \in 0 .. 41 |-> CellAt(month, i)]
    IN  picker.shown =>
        /\ \A i \in 0 .. 41 :
               NewDate(MonthClicked(CellClass(cells[i], month), month), cells[i].day) = cells[i]
        /\ DatesOf({month}) \subseteq {cells[i] : i \in 0 .. 41}
        /\ WeekDay(cells[0]) = WeekStart

(***************************************************************************)
(* Going to another month from the view cannot skip it: its day exists in  *)
(* every month, whatever day was clicked before.                           *)
(***************************************************************************)
PickerSkipsNoMonth ==
    \A month \in Months : NewDate(month, picker.viewDate.day).month = month

(***************************************************************************)
(* The field, parsed again, is the date of the picker after anything that  *)
(* is typed, clicked or selected.                                          *)
(***************************************************************************)
PickerFieldAgrees == ParseDate(picker.text) = picker.date

(***************************************************************************)
(* The date picker: a click picks the day it shows, no month is skipped,   *)
(* and the field has the date.                                             *)
(***************************************************************************)
PickerSafe == PickerPicksCell /\ PickerSkipsNoMonth /\ PickerFieldAgrees

=============================================================================
