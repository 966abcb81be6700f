---------------------------- MODULE PickerProofs ----------------------------
(***************************************************************************)
(* Proofs about the widgets that pick dates and numbers (Datepicker,       *)
(* Combodate and Slider), for every bound on what is picked.               *)
(***************************************************************************)
EXTENDS Datepicker, Combodate, Slider, FoldLemmas, TLAPS

(* The smaller of two integers. *)
LEMMA MinOfTwo ==
    ASSUME NEW a \in Int, NEW b \in Int
    PROVE  Min({a, b}) = IF a <= b THEN a ELSE b
<1>1. \A x \in {a, b} : (\A y \in {a, b} : x <= y) <=> x = (IF a <= b THEN a ELSE b)
  OBVIOUS
<1>2. (IF a <= b THEN a ELSE b) \in {a, b}
  OBVIOUS
<1>3. QED BY <1>1, <1>2, Zenon DEF Min

(***************************************************************************)
(* The date picker.                                                        *)
(***************************************************************************)
(* A month has from 28 to 31 days. *)
LEMMA MonthLength ==
    ASSUME NEW month
    PROVE  DaysInMonth(month) \in 28 .. 31
BY DEF DaysInMonth

(* A date that exists, whatever its year. *)
RealDate(date) == date.month \in Int /\ date.day \in 1 .. DaysInMonth(date.month)

(* Running over the end of a month yields a date that exists. *)
LEMMA NewDateIsReal ==
    ASSUME NEW month \in Int, NEW day \in 1 .. 31
    PROVE  /\ RealDate(NewDate(month, day))
           /\ day <= 28 => NewDate(month, day) = [month |-> month, day |-> day]
<1>1. DaysInMonth(month) \in 28 .. 31 /\ DaysInMonth(month + 1) \in 28 .. 31
  BY MonthLength
<1>2. CASE day <= DaysInMonth(month)
  BY <1>1, <1>2 DEF NewDate, RealDate
<1>3. CASE ~(day <= DaysInMonth(month))
  <2>1. NewDate(month, day) = [month |-> month + 1, day |-> day - DaysInMonth(month)]
    BY <1>3 DEF NewDate
  <2>2. RealDate([month |-> month + 1, day |-> day - DaysInMonth(month)])
    BY <1>1, <1>3 DEF RealDate
  <2>3. QED BY <1>1, <1>3, <2>1, <2>2
<1>4. QED BY <1>2, <1>3

(* A date that exists is written and parsed as itself. *)
LEMMA FormattedParses ==
    ASSUME NEW date, date = [month |-> date.month, day |-> date.day], RealDate(date)
    PROVE  ParseDate(Formatted(date)) = date
BY DEF ParseDate, Formatted, NewDate, RealDate

IsDate(date) == date = [month |-> date.month, day |-> date.day] /\ RealDate(date)

(* What NewDate yields is a date. *)
LEMMA NewDateIsDate ==
    ASSUME NEW month \in Int, NEW day \in 1 .. 31
    PROVE  IsDate(NewDate(month, day))
<1>1. NewDate(month, day) = [month |-> NewDate(month, day).month, day |-> NewDate(month, day).day]
  BY DEF NewDate
<1>2. QED BY <1>1, NewDateIsReal DEF IsDate

PickerInv ==
    /\ DOMAIN picker = {"date", "text", "viewDate", "viewMode", "shown", "listens"}
    /\ picker = [field \in DOMAIN picker |-> picker[field]]
    /\ IsDate(picker.date)
    /\ picker.viewDate.month \in Int /\ picker.viewDate.day \in 1 .. 28
    /\ PickerFieldAgrees

(* Both dates of the assumption are dates. *)
LEMMA GivenDates ==
    /\ IsDate(Today) /\ IsDate(FirstDate)
    /\ Months \subseteq Int /\ Days \subseteq 1 .. 31
<1>1. ASSUME NEW date \in DatesOf(Months) PROVE IsDate(date)
  <2>1. date \in [month : Months, day : 1 .. 31] /\ date.day <= DaysInMonth(date.month)
    BY DEF DatesOf
  <2>2. date = [month |-> date.month, day |-> date.day] BY <2>1
  <2>3. date.month \in Int /\ date.day \in 1 .. 31
    <3>1. date.month \in Months /\ date.day \in 1 .. 31 BY <2>1
    <3>2. Months \subseteq Int BY DatepickerAssumption
    <3>3. QED BY ONLY <3>1, <3>2
  <2>4. DaysInMonth(date.month) \in 28 .. 31 BY MonthLength
  <2>5. date.day \in 1 .. DaysInMonth(date.month) BY <2>1, <2>3, <2>4
  <2>6. QED BY <2>2, <2>3, <2>5 DEF IsDate, RealDate
<1>2. QED BY <1>1, DatepickerAssumption

(* A date in both the picker and the field, and a view whose day every month has. *)
LEMMA SetKeeps ==
    ASSUME NEW p, IsDate(p.date), p.viewDate.month \in Int, p.viewDate.day \in 1 .. 28,
           DOMAIN p = {"date", "text", "viewDate", "viewMode", "shown", "listens"},
           p = [field \in DOMAIN p |-> p[field]],
           picker' = Set(p)
    PROVE  PickerInv'
<1>1. /\ DOMAIN picker' = DOMAIN p /\ picker' = [field \in DOMAIN picker' |-> picker'[field]]
      /\ picker'.date = p.date /\ picker'.viewDate = p.viewDate
      /\ picker'.text = Formatted(p.date)
  BY DEF Set
<1>2. ParseDate(Formatted(p.date)) = p.date
  BY FormattedParses DEF IsDate
<1>3. PickerFieldAgrees' BY <1>1, <1>2 DEF PickerFieldAgrees
<1>4. QED BY <1>1, <1>3, Zenon DEF PickerInv

(* A date whose month is selected, or a day of it clicked. *)
LEMMA ViewKept ==
    ASSUME NEW month \in Int, NEW day \in 1 .. 28
    PROVE  NewDate(month, day).month \in Int /\ NewDate(month, day).day \in 1 .. 28
<1>1. day \in 1 .. 31 /\ day <= 28 OBVIOUS
<1>2. NewDate(month, day) = [month |-> month, day |-> day]
  BY <1>1, NewDateIsReal
<1>3. QED BY <1>2

(* PickerInv holds from the first state, and every step keeps it. *)
LEMMA PickerKeeps == PickerSpec => []PickerInv
<1>1. PickerInit => PickerInv
  <2> SUFFICES ASSUME PickerInit PROVE PickerInv
    OBVIOUS
  <2>1. /\ DOMAIN picker = {"date", "text", "viewDate", "viewMode", "shown", "listens"}
        /\ picker = [field \in DOMAIN picker |-> picker[field]]
        /\ picker.date = FirstDate /\ picker.text = Formatted(FirstDate)
        /\ picker.viewDate.month = FirstDate.month /\ picker.viewDate.day = 1
    BY DEF PickerInit
  <2>2. ParseDate(Formatted(FirstDate)) = FirstDate
    BY GivenDates, FormattedParses DEF IsDate
  <2>3. FirstDate.month \in Int BY GivenDates DEF IsDate, RealDate
  <2>4. QED BY <2>1, <2>2, <2>3, GivenDates DEF PickerInv, PickerFieldAgrees
<1>2. PickerInv /\ [PickerNext]_picker => PickerInv'
  <2> SUFFICES ASSUME PickerInv, [PickerNext]_picker PROVE PickerInv'
    OBVIOUS
  <2>1. CASE PickerShow \/ PickerHide \/ PickerSwitch
    <3>1. /\ DOMAIN picker' = DOMAIN picker
          /\ picker' = [field \in DOMAIN picker' |-> picker'[field]]
          /\ picker'.date = picker.date /\ picker'.text = picker.text
          /\ picker'.viewDate = picker.viewDate
      BY <2>1 DEF PickerShow, PickerHide, PickerSwitch, PickerInv
    <3>2. PickerFieldAgrees' BY <3>1 DEF PickerInv, PickerFieldAgrees
    <3>3. QED BY <3>1, <3>2 DEF PickerInv
  <2>2. ASSUME NEW text \in Texts, PickerType(text) PROVE PickerInv'
    <3> DEFINE date == ParseDate(text)
    <3>1. IsDate(date)
      <4>1. CASE text.parsed
        <5>1. text.month \in Int /\ text.day \in 1 .. 31
          <6>1. text \in [parsed : {TRUE}, month : Months, day : Days]
            <7>1. [parsed |-> FALSE, month |-> 0, day |-> 0].parsed = FALSE
              OBVIOUS
            <7>2. QED BY <4>1, <7>1, Zenon DEF Texts
          <6>2. text.month \in Months /\ text.day \in Days BY <6>1
          <6>3. QED BY ONLY <6>2, GivenDates
        <5>2. QED BY <4>1, <5>1, NewDateIsDate DEF ParseDate
      <4>2. CASE ~text.parsed BY <4>2, GivenDates DEF ParseDate
      <4>3. QED BY <4>1, <4>2
    <3>2. picker' = Update([picker EXCEPT !.text = text], date)
      BY <2>2 DEF PickerType
    <3>3. date = ParseDate(text) OBVIOUS
    <3> HIDE DEF date
    <3>4. /\ DOMAIN picker' = DOMAIN picker
          /\ picker' = [field \in DOMAIN picker' |-> picker'[field]]
          /\ picker'.date = date /\ picker'.text = text
          /\ picker'.viewDate.month = date.month /\ picker'.viewDate.day = 1
      BY <3>2 DEF Update, PickerInv
    <3>5. PickerFieldAgrees' BY <3>3, <3>4 DEF PickerFieldAgrees
    <3>6. date.month \in Int BY <3>1 DEF IsDate, RealDate
    <3>7. QED BY <3>1, <3>4, <3>5, <3>6 DEF PickerInv
  <2>3. ASSUME NEW i \in 0 .. 41, PickerClickDay(i) PROVE PickerInv'
    <3> DEFINE cell == CellAt(picker.viewDate.month, i)
               month == MonthClicked(CellClass(cell, picker.viewDate.month), picker.viewDate.month)
               p == [picker EXCEPT !.date = NewDate(month, cell.day),
                                   !.viewDate = NewDate(month, ViewDay(cell.day))]
    <3>1. cell.day \in Days /\ month \in Months /\ picker' = Set(p)
      BY <2>3 DEF PickerClickDay
    <3> HIDE DEF cell, month
    <3>2. month \in Int /\ cell.day \in 1 .. 31 BY <3>1, GivenDates
    <3>3. ViewDay(cell.day) \in 1 .. 28
      <4>1. Min({28, cell.day}) = IF 28 <= cell.day THEN 28 ELSE cell.day
        BY <3>2, MinOfTwo
      <4>2. QED BY <3>2, <4>1 DEF ViewDay
    <3>4. /\ DOMAIN p = {"date", "text", "viewDate", "viewMode", "shown", "listens"}
          /\ p = [field \in DOMAIN p |-> p[field]]
          /\ p.date = NewDate(month, cell.day)
          /\ p.viewDate = NewDate(month, ViewDay(cell.day))
      BY DEF PickerInv
    <3> HIDE DEF p
    <3>5. IsDate(p.date) BY <3>2, <3>4, NewDateIsDate
    <3>6. p.viewDate.month \in Int /\ p.viewDate.day \in 1 .. 28
      BY <3>2, <3>3, <3>4, ViewKept
    <3>7. QED BY <3>1, <3>4, <3>5, <3>6, SetKeeps
  <2>4. ASSUME NEW dir \in {-1, 1}, PickerNavigate(dir) PROVE PickerInv'
    <3> DEFINE month == picker.viewDate.month + dir * NavStep(picker.viewMode)
               p == [picker EXCEPT !.viewDate = NewDate(month, @.day)]
    <3>1. month \in Months /\ picker' = Set(p)
      BY <2>4 DEF PickerNavigate
    <3> HIDE DEF month
    <3>2. /\ DOMAIN p = {"date", "text", "viewDate", "viewMode", "shown", "listens"}
          /\ p = [field \in DOMAIN p |-> p[field]]
          /\ p.date = picker.date /\ p.viewDate = NewDate(month, picker.viewDate.day)
      BY DEF PickerInv
    <3> HIDE DEF p
    <3>3. IsDate(p.date) BY <3>2 DEF PickerInv
    <3>4. p.viewDate.month \in Int /\ p.viewDate.day \in 1 .. 28
      BY <3>1, <3>2, ViewKept, GivenDates DEF PickerInv
    <3>5. QED BY <3>1, <3>2, <3>3, <3>4, SetKeeps
  <2>5. ASSUME NEW month \in Months, picker' = Selected(month) PROVE PickerInv'
    <3> DEFINE p == [picker EXCEPT !.viewDate = NewDate(month, @.day),
                                   !.date = NewDate(month, picker.viewDate.day),
                                   !.viewMode = ModeBy(@, -1)]
    <3>1. picker' = Set(p) BY <2>5 DEF Selected
    <3>2. /\ DOMAIN p = {"date", "text", "viewDate", "viewMode", "shown", "listens"}
          /\ p = [field \in DOMAIN p |-> p[field]]
          /\ p.date = NewDate(month, picker.viewDate.day)
          /\ p.viewDate = NewDate(month, picker.viewDate.day)
      BY DEF PickerInv
    <3> HIDE DEF p
    <3>3. month \in Int /\ picker.viewDate.day \in 1 .. 28 /\ picker.viewDate.day \in 1 .. 31
      BY GivenDates DEF PickerInv
    <3>4. IsDate(p.date) BY <3>2, <3>3, NewDateIsDate
    <3>5. p.viewDate.month \in Int /\ p.viewDate.day \in 1 .. 28
      BY <3>2, <3>3, ViewKept
    <3>6. QED BY <3>1, <3>2, <3>4, <3>5, SetKeeps
  <2>6. ASSUME NEW m \in 0 .. 11, PickerSelectMonth(m) PROVE PickerInv'
    BY <2>5, <2>6, Zenon DEF PickerSelectMonth
  <2>7. ASSUME NEW year, PickerSelectYear(year) PROVE PickerInv'
    BY <2>5, <2>7, Zenon DEF PickerSelectYear
  <2>8. CASE UNCHANGED picker
    BY <2>8 DEF PickerInv, PickerFieldAgrees
  <2>9. QED
    BY <2>1, <2>2, <2>3, <2>4, <2>6, <2>7, <2>8, Zenon DEF PickerNext
<1>3. QED BY <1>1, <1>2, PTL DEF PickerSpec

(***************************************************************************)
(* Going to another month from the view does not skip it                   *)
(* (PickerSkipsNoMonth: bootstrap-datepicker.js, the day of the view).     *)
(***************************************************************************)
THEOREM PickerGoesToMonth == PickerSpec => []PickerSkipsNoMonth
<1>1. PickerInv => PickerSkipsNoMonth
  <2> SUFFICES ASSUME PickerInv, NEW month \in Months
               PROVE  NewDate(month, picker.viewDate.day).month = month
    BY DEF PickerSkipsNoMonth
  <2>1. month \in Int /\ picker.viewDate.day \in 1 .. 31 /\ picker.viewDate.day <= 28
    BY GivenDates DEF PickerInv
  <2>2. NewDate(month, picker.viewDate.day) = [month |-> month, day |-> picker.viewDate.day]
    BY <2>1, NewDateIsReal
  <2>3. QED BY <2>2
<1>2. QED BY <1>1, PickerKeeps, PTL

(***************************************************************************)
(* The field, parsed again, is the date of the picker (PickerFieldAgrees:  *)
(* bootstrap-datepicker.js, setValue, update and the clicks).              *)
(***************************************************************************)
THEOREM PickerFieldIsDate == PickerSpec => []PickerFieldAgrees
<1>1. PickerInv => PickerFieldAgrees BY DEF PickerInv
<1>2. QED BY <1>1, PickerKeeps, PTL

-----------------------------------------------------------------------------
(***************************************************************************)
(* Combodate: every pick reads the field from the selects; the selects     *)
(* that a script's date sets read back as that date.                       *)
(***************************************************************************)
ComboInv ==
    /\ DOMAIN combo = {"selects", "pm", "field", "h12"}
    /\ combo = [part \in DOMAIN combo |-> combo[part]]
    /\ combo.pm \in BOOLEAN /\ combo.h12 \in BOOLEAN
    /\ ComboShowsField /\ ComboFieldIsValid

(* Hours to 12 and back are the same hours, midnight and noon too. *)
LEMMA HoursReturn ==
    ASSUME NEW hour \in 0 .. 23, NEW pm \in BOOLEAN, pm <=> hour >= 12
    PROVE  To24(To12(hour), pm) = hour
<1>1. CASE hour = 0 BY <1>1 DEF To24, To12
<1>2. CASE hour \in 1 .. 11 BY <1>2 DEF To24, To12
<1>3. CASE hour = 12 BY <1>3 DEF To24, To12
<1>4. CASE hour \in 13 .. 23 BY <1>4 DEF To24, To12
<1>5. QED BY <1>1, <1>2, <1>3, <1>4

(* The nearest of the minutes offered to one of them is itself. *)
LEMMA NearestOffered ==
    ASSUME NEW minute \in 0 .. 59, minute % MinuteStep = 0
    PROVE  Nearest(minute) = minute
<1> DEFINE offered == {m \in 0 .. 59 : m % MinuteStep = 0}
           distance(a) == IF a < minute THEN minute - a ELSE a - minute
           IsNearest(m) ==
               \A n \in offered :
                   distance(m) < distance(n) \/ (distance(m) = distance(n) /\ m <= n)
<1>1. Offered(FALSE, "minute") = offered
  BY DEF Offered
<1>2. minute \in offered
  OBVIOUS
<1>3. IsNearest(minute)
  OBVIOUS
<1>4. ASSUME NEW m \in offered, IsNearest(m) PROVE m = minute
  <2>1. distance(m) < distance(minute) \/ distance(m) = distance(minute)
    BY <1>2, <1>4
  <2>2. QED BY <2>1
<1>5. Nearest(minute) = CHOOSE m \in offered : IsNearest(m)
  BY <1>1 DEF Nearest
<1> HIDE DEF offered, IsNearest
<1>6. QED BY <1>2, <1>3, <1>4, <1>5

(* What GetValue reads is nothing, or a date that exists. *)
LEMMA GetValueIsValid ==
    ASSUME NEW c
    PROVE  GetValue(c) = Empty \/ ValidDate(GetValue(c))
BY Zenon DEF GetValue

(* A pick: the field is what the selects say. *)
LEMMA PickKeeps ==
    ASSUME NEW c, DOMAIN c = {"selects", "pm", "field", "h12"},
           c = [part \in DOMAIN c |-> c[part]],
           c.pm \in BOOLEAN, c.h12 \in BOOLEAN, combo' = WithField(c)
    PROVE  ComboInv'
<1>1. /\ DOMAIN combo' = DOMAIN c /\ combo' = [part \in DOMAIN combo' |-> combo'[part]]
      /\ combo'.selects = c.selects /\ combo'.pm = c.pm /\ combo'.h12 = c.h12
      /\ combo'.field = GetValue(c)
  BY DEF WithField
<1>2. GetValue(combo') = GetValue(c) BY <1>1, Zenon DEF GetValue
<1>3. ComboShowsField' BY <1>1, <1>2, Zenon DEF ComboShowsField
<1>4. ComboFieldIsValid' BY <1>1, GetValueIsValid, Zenon DEF ComboFieldIsValid
<1>5. QED BY <1>1, <1>3, <1>4, Zenon DEF ComboInv

(* A date that a script sets. *)
LEMMA SetValueKeeps ==
    ASSUME ComboInv, NEW date \in SetDates, ComboSetValue(date)
    PROVE  ComboInv'
<1>1. /\ date \in [DateParts -> Nat] /\ date["hour"] \in 0 .. 23 /\ date["minute"] \in 0 .. 59
  BY CombodateAssumption
<1>2. ValidDate(date) BY DEF ComboSetValue
<1> DEFINE hour == IF combo.h12 THEN To12(date["hour"]) ELSE date["hour"]
           year == IF date["year"] \in MinYear .. MaxYear THEN date["year"] ELSE NaN
           minute == Nearest(date["minute"])
           shown == [date EXCEPT !["hour"] = hour, !["minute"] = minute, !["year"] = year]
<1>3. /\ DOMAIN combo' = {"selects", "pm", "field", "h12"}
      /\ combo' = [part \in DOMAIN combo' |-> combo'[part]]
      /\ combo'.selects = shown /\ combo'.field = date /\ combo'.h12 = combo.h12
      /\ combo'.pm = (date["hour"] >= 12)
  BY <1>1 DEF ComboSetValue, SetValue, ComboInv, DateParts
<1>4. /\ DOMAIN shown = DateParts /\ shown["hour"] = hour /\ shown["minute"] = minute
      /\ shown["year"] = year /\ shown["month"] = date["month"] /\ shown["day"] = date["day"]
  BY <1>1 DEF DateParts
<1> HIDE DEF shown
<1>5. combo'.pm \in BOOLEAN /\ combo'.h12 \in BOOLEAN
  <2>1. (date["hour"] >= 12) \in BOOLEAN OBVIOUS
  <2>2. combo.h12 \in BOOLEAN BY DEF ComboInv
  <2>3. QED BY <1>3, <2>1, <2>2
<1>6. ASSUME date["year"] \in MinYear .. MaxYear, date["minute"] % MinuteStep = 0
      PROVE  GetValue(combo') = date
  <2>1. minute = date["minute"] /\ year = date["year"]
    BY <1>1, <1>6, NearestOffered
  <2> DEFINE read == IF combo'.h12 THEN To24(combo'.selects["hour"], combo'.pm)
                                   ELSE combo'.selects["hour"]
             taken == [combo'.selects EXCEPT !["hour"] = read]
  <2>2. read = date["hour"]
    <3>1. CASE ~combo.h12 BY <1>3, <1>4, <3>1
    <3>2. CASE combo.h12
      <4>1. combo'.pm <=> date["hour"] >= 12 BY <1>3
      <4>2. To24(To12(date["hour"]), combo'.pm) = date["hour"]
        BY <1>1, <1>5, <4>1, HoursReturn
      <4>3. QED BY <1>3, <1>4, <3>2, <4>2
    <3>3. QED BY <3>1, <3>2
  <2> HIDE DEF read
  <2>3. taken = date
    <3>1. taken = [part \in DateParts |-> IF part = "hour" THEN read ELSE shown[part]]
      BY <1>3, <1>4
    <3>2. \A part \in DateParts : taken[part] = date[part]
      BY <1>4, <2>1, <2>2, <3>1 DEF DateParts
    <3>3. QED BY <1>1, <3>1, <3>2
  <2>4. \A part \in DateParts : combo'.selects[part] # NaN
    <3>1. \A part \in DateParts : date[part] # NaN BY <1>1 DEF NaN
    <3>2. hour # NaN BY <1>1 DEF To12, NaN
    <3>3. QED BY <1>3, <1>4, <2>1, <3>1, <3>2 DEF DateParts
  <2> HIDE DEF taken
  <2>5. GetValue(combo') = taken
    <3>1. GetValue(combo') = IF \/ \E part \in DateParts : combo'.selects[part] = NaN
                                \/ ~ValidDate(taken)
                             THEN Empty ELSE taken
      BY DEF GetValue, taken, read
    <3>2. QED BY <1>2, <2>3, <2>4, <3>1
  <2>6. QED BY <2>3, <2>5
<1>7. ComboShowsField' BY <1>3, <1>6 DEF ComboShowsField
<1>8. ComboFieldIsValid' BY <1>2, <1>3, Zenon DEF ComboFieldIsValid
<1>9. QED BY <1>3, <1>5, <1>7, <1>8, Zenon DEF ComboInv

(* ComboInv holds from the first state, and every step keeps it. *)
LEMMA ComboKeeps == ComboSpec => []ComboInv
<1>1. ComboInit => ComboInv
  <2> SUFFICES ASSUME NEW h12 \in BOOLEAN,
                      combo = [h12 |-> h12, selects |-> Empty, pm |-> FALSE, field |-> Empty]
               PROVE  ComboInv
    BY DEF ComboInit
  <2>1. Empty["year"] = NaN BY DEF Empty, DateParts
  <2>2. NaN \notin MinYear .. MaxYear BY CombodateAssumption DEF NaN
  <2>3. QED BY <2>1, <2>2 DEF ComboInv, ComboShowsField, ComboFieldIsValid
<1>2. ComboInv /\ [ComboNext]_combo => ComboInv'
  <2> SUFFICES ASSUME ComboInv, [ComboNext]_combo PROVE ComboInv'
    OBVIOUS
  <2>1. ASSUME NEW date \in SetDates, ComboSetValue(date) PROVE ComboInv'
    BY <2>1, SetValueKeeps
  <2>2. ASSUME NEW part \in DateParts, NEW n, ComboPick(part, n) PROVE ComboInv'
    <3> DEFINE c == [combo EXCEPT !.selects[part] = n]
    <3>1. combo' = WithField(c) BY <2>2 DEF ComboPick
    <3>2. /\ DOMAIN c = {"selects", "pm", "field", "h12"} /\ c = [f \in DOMAIN c |-> c[f]]
          /\ c.pm \in BOOLEAN /\ c.h12 \in BOOLEAN
      BY DEF ComboInv
    <3> HIDE DEF c
    <3>3. QED BY <3>1, <3>2, PickKeeps
  <2>3. ASSUME NEW pm \in BOOLEAN, ComboPickAmPm(pm) PROVE ComboInv'
    <3> DEFINE c == [combo EXCEPT !.pm = pm]
    <3>1. combo' = WithField(c) BY <2>3 DEF ComboPickAmPm
    <3>2. /\ DOMAIN c = {"selects", "pm", "field", "h12"} /\ c = [f \in DOMAIN c |-> c[f]]
          /\ c.pm \in BOOLEAN /\ c.h12 \in BOOLEAN
      BY DEF ComboInv
    <3> HIDE DEF c
    <3>3. QED BY <3>1, <3>2, PickKeeps
  <2>4. CASE UNCHANGED combo
    BY <2>4, Zenon DEF ComboInv, ComboShowsField, ComboFieldIsValid, GetValue
  <2>5. QED BY <2>1, <2>2, <2>3, <2>4, Zenon DEF ComboNext
<1>3. QED BY <1>1, <1>2, PTL DEF ComboSpec

(***************************************************************************)
(* The field is empty or has a date that exists, and a date in the field   *)
(* reads back from the selects (ComboSafe: combodate.js, setValue and      *)
(* getValue), in hours to 12 and to 24 and for any step of the minutes.    *)
(***************************************************************************)
THEOREM ComboIsSafe == ComboSpec => []ComboSafe
<1>1. ComboInv => ComboSafe BY DEF ComboInv, ComboSafe
<1>2. QED BY <1>1, ComboKeeps, PTL

-----------------------------------------------------------------------------
(***************************************************************************)
(* The slider: rounding keeps the order of handles and of values.          *)
(***************************************************************************)
(* Rounding keeps the order. *)
LEMMA RoundKeepsOrder ==
    ASSUME NEW a \in Int, NEW b \in Int, a <= b, NEW d \in Nat \ {0}
    PROVE  Round(a, d) \in Int /\ Round(a, d) <= Round(b, d)
<1> DEFINE e == 2 * d
           x == 2 * a + d
           y == 2 * b + d
           p == x \div e
           q == y \div e
<1>1. e \in Nat \ {0} /\ x \in Int /\ y \in Int /\ x <= y
  OBVIOUS
<1>2. Round(a, d) = p /\ Round(b, d) = q
  BY DEF Round
<1> HIDE DEF e, x, y
<1>3. /\ p \in Int /\ q \in Int
      /\ e * p <= x /\ y < e * q + e
  BY <1>1, SMTT(30)
<1> HIDE DEF p, q
<1>4. p <= q
  <2> SUFFICES ASSUME q + 1 <= p PROVE FALSE
    BY <1>3
  <2>1. e * (q + 1) <= e * p BY <1>1, <1>3, SMTT(30)
  <2>2. e * (q + 1) = e * q + e BY <1>1, <1>3, SMTT(30)
  <2>3. e * q \in Int /\ e * p \in Int BY <1>1, <1>3
  <2>4. QED BY <1>1, <1>3, <2>1, <2>2, <2>3
<1>5. QED BY <1>2, <1>3, <1>4

SliderFields == {"range", "first", "second", "dragged", "inDrag", "over", "tip", "value", "tied"}

(* A slider of which only the order is open. *)
IsSlider(s) ==
    /\ DOMAIN s = SliderFields /\ s = [field \in SliderFields |-> s[field]]
    /\ s.range \in BOOLEAN /\ s.inDrag \in BOOLEAN /\ s.over \in BOOLEAN /\ s.tip \in BOOLEAN
    /\ s.tied \in BOOLEAN /\ s.dragged \in {0, 1}
    /\ s.first \in Int /\ s.second \in Int
    /\ s.tip <=> (s.over \/ s.inDrag)

(* Handles between the ends, and values in the range if the step divides it. *)
InRange(s) ==
    /\ s.first \in 0 .. Diff /\ s.second \in 0 .. Diff
    /\ Diff % SliderStep = 0 =>
          \A i \in {1, 2} : s.value[i] >= SliderMin /\ s.value[i] <= SliderMax

SliderInv == IsSlider(slider) /\ SliderOrdered /\ InRange(slider)

(* The length of the range, and what rounding nothing gives. *)
LEMMA DiffIsNat == Diff \in Nat /\ Diff \in Int /\ SliderMin + Diff = SliderMax
BY SliderAssumption DEF Diff

LEMMA RoundNothing ==
    ASSUME NEW d \in Nat \ {0}
    PROVE  Round(0, d) = 0
<1> DEFINE e == 2 * d
<1>1. Round(0, d) = d \div e BY DEF Round
<1>2. e \in Nat \ {0} /\ 0 <= d /\ d < e OBVIOUS
<1> HIDE DEF e
<1>3. d \div e = 0 BY <1>2, SMTT(30)
<1>4. QED BY <1>1, <1>3

(* A handle is rounded to a value between the ends, if the step divides the *)
(* range.                                                                   *)
LEMMA ValueIsInRange ==
    ASSUME NEW h \in 0 .. Diff, Diff % SliderStep = 0
    PROVE  /\ SliderMin + Round(h, SliderStep) * SliderStep >= SliderMin
           /\ SliderMin + Round(h, SliderStep) * SliderStep <= SliderMax
<1> DEFINE k == Diff \div SliderStep
           r == Round(h, SliderStep)
<1>1. SliderStep \in Nat \ {0} /\ SliderMin \in Int /\ SliderMax \in Int
  BY SliderAssumption
<1>2. k \in Int /\ Diff = SliderStep * k
  BY <1>1, DiffIsNat, SMTT(30)
<1> HIDE DEF k
<1>3. Round(Diff, SliderStep) = k
  <2> DEFINE e == 2 * SliderStep
             n == 2 * Diff + SliderStep
  <2>1. n = e * k + SliderStep BY <1>1, <1>2, SMTT(30)
  <2>2. e \in Nat \ {0} /\ n \in Int /\ SliderStep < e BY <1>1, DiffIsNat
  <2>3. Round(Diff, SliderStep) = n \div e BY DEF Round
  <2> HIDE DEF e, n
  <2>4. n \div e = k BY <1>1, <1>2, <2>1, <2>2, SMTT(30)
  <2>5. QED BY <2>3, <2>4
<1>4. r \in Int /\ 0 <= r /\ r <= k
  <2>1. Round(h, SliderStep) \in Int /\ Round(h, SliderStep) <= Round(Diff, SliderStep)
    BY <1>1, DiffIsNat, RoundKeepsOrder
  <2>2. Round(0, SliderStep) <= Round(h, SliderStep)
    BY <1>1, DiffIsNat, RoundKeepsOrder
  <2>3. QED BY <1>1, <1>3, <2>1, <2>2, RoundNothing
<1> HIDE DEF r
<1>5. r * SliderStep \in Int /\ 0 <= r * SliderStep /\ r * SliderStep <= SliderStep * k
  BY <1>1, <1>2, <1>4, SMTT(30)
<1>6. SliderMin + r * SliderStep >= SliderMin /\ SliderMin + r * SliderStep <= SliderMax
  BY <1>1, <1>2, <1>5, DiffIsNat
<1>7. QED BY <1>6 DEF r

(* What the mouse points at is between the ends. *)
LEMMA PercentageIsInRange ==
    ASSUME NEW position \in Int
    PROVE  Percentage(position) \in 0 .. Diff
<1> DEFINE steps == IF position < 0 THEN 0 ELSE Round(position, SliderStep)
<1>1. SliderStep \in Nat \ {0} BY SliderAssumption
<1>2. steps \in Int /\ 0 <= steps
  <2>1. CASE position < 0 BY <2>1
  <2>2. CASE 0 <= position
    <3>1. Round(position, SliderStep) \in Int BY <1>1, RoundKeepsOrder
    <3>2. Round(0, SliderStep) <= Round(position, SliderStep)
      BY <1>1, <2>2, RoundKeepsOrder
    <3>3. QED BY <1>1, <2>2, <3>1, <3>2, RoundNothing
  <2>3. QED BY <2>1, <2>2
<1>3. Percentage(position) = Min({Diff, steps * SliderStep})
  BY DEF Percentage
<1> HIDE DEF steps
<1>4. steps * SliderStep \in Int /\ 0 <= steps * SliderStep
  BY <1>1, <1>2, SMTT(30)
<1>5. QED BY <1>3, <1>4, DiffIsNat, MinOfTwo

(* Calculating the values keeps the handles, and orders values as them. *)
LEMMA ValuesAreOrdered ==
    ASSUME NEW s, IsSlider(s), InRange(s), s.range /\ ~s.tied => s.first <= s.second,
           slider' = CalculateValue(s)
    PROVE  SliderInv'
<1> DEFINE value(handle) == SliderMin + Round(handle, SliderStep) * SliderStep
           pair == <<value(s.first), IF s.range THEN value(s.second) ELSE s.value[2]>>
<1>1. slider' = [s EXCEPT !.value = pair]
  BY DEF CalculateValue, IsSlider
<1> HIDE DEF pair
<1>2. /\ DOMAIN slider' = SliderFields /\ slider' = [field \in SliderFields |-> slider'[field]]
      /\ slider'.range = s.range /\ slider'.inDrag = s.inDrag /\ slider'.over = s.over
      /\ slider'.tip = s.tip /\ slider'.tied = s.tied
      /\ slider'.first = s.first /\ slider'.second = s.second /\ slider'.value = pair
      /\ slider'.dragged = s.dragged
  BY <1>1 DEF IsSlider, SliderFields
<1>3. IsSlider(slider)' BY <1>2, Zenon DEF IsSlider
<1>4. ASSUME s.range, ~s.tied PROVE pair[1] <= pair[2]
  <2>1. s.first \in Int /\ s.second \in Int /\ s.first <= s.second
    BY <1>4 DEF IsSlider
  <2> DEFINE low == Round(s.first, SliderStep)
             high == Round(s.second, SliderStep)
  <2>2. low \in Int /\ high \in Int /\ low <= high
    BY <2>1, RoundKeepsOrder, SliderAssumption
  <2>3. pair = <<SliderMin + low * SliderStep, SliderMin + high * SliderStep>>
    BY <1>4 DEF pair
  <2> HIDE DEF low, high
  <2>4. low * SliderStep <= high * SliderStep
    BY <2>2, SliderAssumption, SMTT(30)
  <2>5. low * SliderStep \in Int /\ high * SliderStep \in Int
    BY <2>2, SliderAssumption
  <2>6. SliderMin + low * SliderStep <= SliderMin + high * SliderStep
    BY <2>4, <2>5, SliderAssumption
  <2>7. QED BY <2>3, <2>6
<1>5. SliderOrdered' BY <1>2, <1>4, Zenon DEF SliderOrdered
<1>6. ASSUME Diff % SliderStep = 0, NEW i \in {1, 2}
      PROVE  pair[i] >= SliderMin /\ pair[i] <= SliderMax
  <2>1. s.first \in 0 .. Diff /\ s.second \in 0 .. Diff
        /\ s.value[2] >= SliderMin /\ s.value[2] <= SliderMax
    BY <1>6 DEF InRange
  <2>2. value(s.first) >= SliderMin /\ value(s.first) <= SliderMax
    BY <1>6, <2>1, ValueIsInRange
  <2>3. value(s.second) >= SliderMin /\ value(s.second) <= SliderMax
    BY <1>6, <2>1, ValueIsInRange
  <2> HIDE DEF value
  <2>4. /\ pair[1] = value(s.first)
        /\ pair[2] = IF s.range THEN value(s.second) ELSE s.value[2]
    BY DEF pair
  <2>5. QED BY <2>1, <2>2, <2>3, <2>4
<1>7. InRange(slider)' BY <1>2, <1>6, Zenon DEF InRange
<1>8. QED BY <1>3, <1>5, <1>7 DEF SliderInv

(* A press, of the handle that is nearer. *)
LEMMA PressKeeps ==
    ASSUME SliderInv, NEW position \in Int, SliderPress(position)
    PROVE  SliderInv'
<1> DEFINE p == Percentage(position)
           t == slider.tied \/ Tied(p)
           s == Placed([slider EXCEPT !.inDrag = TRUE, !.tied = slider.tied \/ Tied(p)],
                       Nearer(p), p)
<1>1. p \in Int /\ p \in 0 .. Diff BY PercentageIsInRange, DiffIsNat
<1>2. slider.over /\ slider' = CalculateValue(s)
  BY DEF SliderPress
<1> HIDE DEF p
<1>3. /\ DOMAIN s = SliderFields /\ s = [field \in SliderFields |-> s[field]]
      /\ s.range = slider.range /\ s.over = slider.over /\ s.tip = slider.tip
      /\ s.inDrag = TRUE /\ s.tied = t /\ s.dragged \in {0, 1}
      /\ s.first = IF Nearer(p) = 0 THEN p ELSE slider.first
      /\ s.second = IF Nearer(p) = 0 THEN slider.second ELSE p
      /\ s.value = slider.value
  BY DEF SliderInv, IsSlider, SliderFields, Placed
<1>4. t \in BOOLEAN OBVIOUS
<1> HIDE DEF s, t
<1>5. /\ slider.first \in Int /\ slider.second \in Int
      /\ slider.range \in BOOLEAN /\ slider.over \in BOOLEAN /\ slider.tip \in BOOLEAN
      /\ slider.tip <=> (slider.over \/ slider.inDrag)
  BY DEF SliderInv, IsSlider
<1>6. IsSlider(s)
  <2>1. s.first \in Int /\ s.second \in Int BY <1>1, <1>3, <1>5
  <2>2. s.inDrag \in BOOLEAN /\ s.inDrag BY <1>3
  <2>3. s.tip <=> (s.over \/ s.inDrag) BY <1>2, <1>3, <1>5, <2>2
  <2>4. QED BY <1>3, <1>4, <1>5, <2>1, <2>2, <2>3, Zenon DEF IsSlider
<1>7. ASSUME s.range, ~s.tied PROVE s.first <= s.second
  <2>1. slider.range /\ ~slider.tied /\ ~Tied(p)
    BY <1>3, <1>7 DEF t
  <2>2. slider.first <= slider.second
    BY <2>1 DEF SliderInv, SliderOrdered
  <2>3. slider.first = slider.second => ~(p < slider.first)
    BY <2>1 DEF Tied
  <2>4. Nearer(p) = IF ~(Distance(slider.first, p) < Distance(slider.second, p)) THEN 1 ELSE 0
    BY <2>1 DEF Nearer
  <2>5. QED BY <1>1, <1>3, <1>5, <2>2, <2>3, <2>4 DEF Distance
<1>8. InRange(s) BY <1>1, <1>3, Zenon DEF SliderInv, InRange
<1>9. QED BY <1>2, <1>6, <1>7, <1>8, ValuesAreOrdered

(* A move, of the handle that is dragged, past the other or not. *)
LEMMA MoveKeeps ==
    ASSUME SliderInv, NEW position \in Int, SliderMove(position)
    PROVE  SliderInv'
<1> DEFINE p == Percentage(position)
           s == [Dragged(p) EXCEPT !.tied = FALSE]
<1>1. p \in Int /\ p \in 0 .. Diff BY PercentageIsInRange, DiffIsNat
<1>2. slider' = CalculateValue(s)
  BY DEF SliderMove
<1> HIDE DEF p
<1>3. /\ slider.first \in Int /\ slider.second \in Int
      /\ slider.range \in BOOLEAN /\ slider.over \in BOOLEAN /\ slider.tip \in BOOLEAN
      /\ slider.inDrag \in BOOLEAN
      /\ slider.tip <=> (slider.over \/ slider.inDrag)
  BY DEF SliderInv, IsSlider
<1> DEFINE d == Dragged(p)
<1>4. /\ DOMAIN d = SliderFields /\ d = [field \in SliderFields |-> d[field]]
      /\ d.range = slider.range /\ d.over = slider.over /\ d.tip = slider.tip
      /\ d.inDrag = slider.inDrag /\ d.dragged \in {0, 1}
      /\ d.first \in {slider.first, slider.second, p}
      /\ d.second \in {slider.first, slider.second, p}
      /\ d.value = slider.value
      /\ d.range => d.first <= d.second
  <2> DEFINE up == slider.range /\ slider.dragged = 0 /\ slider.second < p
             down == slider.range /\ slider.dragged = 1 /\ slider.first > p
  <2>1. slider.dragged \in {0, 1} /\ DOMAIN slider = SliderFields
        /\ slider = [field \in SliderFields |-> slider[field]]
    BY DEF SliderInv, IsSlider
  <2>2. CASE up
    <3>1. d = [slider EXCEPT !.first = slider.second, !.second = p, !.dragged = 1]
      BY <2>2 DEF Dragged
    <3> HIDE DEF d
    <3>2. /\ DOMAIN d = SliderFields /\ d = [field \in SliderFields |-> d[field]]
          /\ d.range = slider.range /\ d.over = slider.over /\ d.tip = slider.tip
          /\ d.inDrag = slider.inDrag /\ d.dragged = 1
          /\ d.first = slider.second /\ d.second = p /\ d.value = slider.value
      BY <2>1, <3>1 DEF SliderFields
    <3>3. slider.second <= p BY <1>1, <1>3, <2>2
    <3>4. QED BY <1>1, <1>3, <3>2, <3>3
  <2>3. CASE down
    <3>1. d = [slider EXCEPT !.second = slider.first, !.first = p, !.dragged = 0]
      BY <2>3 DEF Dragged
    <3> HIDE DEF d
    <3>2. /\ DOMAIN d = SliderFields /\ d = [field \in SliderFields |-> d[field]]
          /\ d.range = slider.range /\ d.over = slider.over /\ d.tip = slider.tip
          /\ d.inDrag = slider.inDrag /\ d.dragged = 0
          /\ d.first = p /\ d.second = slider.first /\ d.value = slider.value
      BY <2>1, <3>1 DEF SliderFields
    <3>3. p <= slider.first BY <1>1, <1>3, <2>3
    <3>4. QED BY <1>1, <1>3, <3>2, <3>3
  <2>4. CASE ~up /\ ~down
    <3>1. d = Placed(slider, slider.dragged, p)
      BY <2>4 DEF Dragged
    <3>2. CASE slider.dragged = 0
      <4>1. d = [slider EXCEPT !.dragged = 0, !.first = p]
        BY <3>1, <3>2 DEF Placed
      <4>2. slider.range => p <= slider.second BY <1>1, <1>3, <2>4, <3>2
      <4>3. QED BY <1>1, <1>3, <2>1, <4>1, <4>2 DEF SliderFields
    <3>3. CASE slider.dragged = 1
      <4>1. d = [slider EXCEPT !.dragged = 1, !.second = p]
        BY <3>1, <3>3 DEF Placed
      <4>2. slider.range => slider.first <= p BY <1>1, <1>3, <2>4, <3>3
      <4>3. QED BY <1>1, <1>3, <2>1, <4>1, <4>2 DEF SliderFields
    <3>4. QED BY <2>1, <3>2, <3>3
  <2>5. QED BY <2>2, <2>3, <2>4
<1> HIDE DEF d
<1>5. /\ DOMAIN s = SliderFields /\ s = [field \in SliderFields |-> s[field]]
      /\ s.range = d.range /\ s.over = d.over /\ s.tip = d.tip /\ s.inDrag = d.inDrag
      /\ s.dragged = d.dragged /\ s.first = d.first /\ s.second = d.second /\ s.tied = FALSE
      /\ s.value = d.value
  BY <1>4 DEF d, SliderFields
<1> HIDE DEF s
<1>6. s.tied \in BOOLEAN BY ONLY <1>5
<1>7. s.tip <=> (s.over \/ s.inDrag) BY <1>3, <1>4, <1>5
<1>8. s.first \in Int /\ s.second \in Int BY <1>1, <1>3, <1>4, <1>5
<1>9. IsSlider(s) BY <1>3, <1>4, <1>5, <1>6, <1>7, <1>8, Zenon DEF IsSlider
<1>10. s.range => s.first <= s.second BY <1>4, <1>5
<1>11. InRange(s)
  <2>1. slider.first \in 0 .. Diff /\ slider.second \in 0 .. Diff
    BY DEF SliderInv, InRange
  <2>2. s.first \in 0 .. Diff /\ s.second \in 0 .. Diff
    BY <1>1, <1>4, <1>5, <2>1
  <2>3. s.value = slider.value BY <1>4, <1>5
  <2>4. QED BY <2>2, <2>3, Zenon DEF SliderInv, InRange
<1>12. QED BY <1>2, <1>9, <1>10, <1>11, ValuesAreOrdered

(* SliderInv holds from the first state, and every step keeps it. *)
LEMMA SliderKeeps == SliderSpec => []SliderInv
<1>1. SliderInit => SliderInv
  <2> SUFFICES ASSUME NEW range \in BOOLEAN,
                      slider = [range |-> range, first |-> 0, second |-> Diff, dragged |-> 0,
                                inDrag |-> FALSE, over |-> FALSE, tip |-> FALSE,
                                value |-> <<SliderMin, SliderMax>>, tied |-> FALSE]
               PROVE  SliderInv
    BY DEF SliderInit
  <2>1. /\ DOMAIN slider = SliderFields /\ slider = [field \in SliderFields |-> slider[field]]
        /\ slider.range = range /\ slider.first = 0 /\ slider.second = Diff
        /\ slider.inDrag = FALSE /\ slider.over = FALSE /\ slider.tip = FALSE
        /\ slider.tied = FALSE /\ slider.dragged = 0
        /\ slider.value = <<SliderMin, SliderMax>>
    BY DEF SliderFields
  <2>2. Diff \in Int /\ 0 <= Diff /\ SliderMin <= SliderMax
    BY SliderAssumption DEF Diff
  <2>3. /\ slider.inDrag \in BOOLEAN /\ slider.over \in BOOLEAN /\ slider.tip \in BOOLEAN
        /\ slider.tied \in BOOLEAN /\ slider.range \in BOOLEAN
        /\ slider.tip <=> (slider.over \/ slider.inDrag)
    BY <2>1, Zenon
  <2>4. slider.first \in Int /\ slider.second \in Int /\ slider.dragged \in {0, 1}
    BY <2>1, <2>2
  <2>5. IsSlider(slider) BY <2>1, <2>3, <2>4, Zenon DEF IsSlider
  <2>6. slider.first <= slider.second /\ slider.value[1] <= slider.value[2]
    BY <2>1, <2>2
  <2>7. InRange(slider)
    BY <2>1, SliderAssumption DEF InRange, Diff
  <2>8. QED BY <2>5, <2>6, <2>7 DEF SliderInv, SliderOrdered
<1>2. SliderInv /\ [SliderNext]_slider => SliderInv'
  <2> SUFFICES ASSUME SliderInv, [SliderNext]_slider PROVE SliderInv'
    OBVIOUS
  <2>1. ASSUME NEW position \in Positions, SliderPress(position) PROVE SliderInv'
    <3>1. position \in Int BY SliderAssumption DEF Positions, Diff
    <3>2. QED BY <2>1, <3>1, PressKeeps
  <2>2. ASSUME NEW position \in Positions, SliderMove(position) PROVE SliderInv'
    <3>1. position \in Int BY SliderAssumption DEF Positions, Diff
    <3>2. QED BY <2>2, <3>1, MoveKeeps
  <2>3. CASE SliderRelease
    <3> DEFINE tip == slider.tip /\ slider.over
               s == [slider EXCEPT !.inDrag = FALSE, !.tip = tip]
    <3>1. slider' = CalculateValue(s) BY <2>3 DEF SliderRelease
    <3>2. tip \in BOOLEAN /\ (tip <=> slider.over)
      BY DEF SliderInv, IsSlider
    <3> HIDE DEF tip
    <3>3. /\ DOMAIN s = SliderFields /\ s = [field \in SliderFields |-> s[field]]
          /\ s.range = slider.range /\ s.over = slider.over /\ s.tip = tip
          /\ s.inDrag = FALSE /\ s.dragged = slider.dragged /\ s.tied = slider.tied
          /\ s.first = slider.first /\ s.second = slider.second /\ s.value = slider.value
      BY DEF SliderInv, IsSlider, SliderFields
    <3> HIDE DEF s
    <3>4. s.inDrag \in BOOLEAN /\ (s.tip <=> (s.over \/ s.inDrag))
      BY <3>2, <3>3, Zenon
    <3>5. IsSlider(s) BY <3>2, <3>3, <3>4, Zenon DEF IsSlider, SliderInv
    <3>6. s.range /\ ~s.tied => s.first <= s.second
      BY <3>3, Zenon DEF SliderInv, SliderOrdered
    <3>7. InRange(s) BY <3>3, Zenon DEF SliderInv, InRange
    <3>8. QED BY <3>1, <3>5, <3>6, <3>7, ValuesAreOrdered
  <2>4. CASE SliderEnter \/ SliderLeave
    <3> DEFINE tip == IF SliderEnter THEN TRUE ELSE slider.tip /\ slider.inDrag
               over == IF SliderEnter THEN TRUE ELSE FALSE
    <3>1. slider' = [slider EXCEPT !.tip = tip, !.over = over]
      BY <2>4 DEF SliderEnter, SliderLeave
    <3>2. tip \in BOOLEAN /\ over \in BOOLEAN /\ (tip <=> (over \/ slider.inDrag))
      BY DEF SliderInv, IsSlider
    <3> HIDE DEF tip, over
    <3>3. /\ DOMAIN slider' = SliderFields /\ slider' = [field \in SliderFields |-> slider'[field]]
          /\ slider'.range = slider.range /\ slider'.over = over /\ slider'.tip = tip
          /\ slider'.inDrag = slider.inDrag /\ slider'.dragged = slider.dragged
          /\ slider'.tied = slider.tied /\ slider'.value = slider.value
          /\ slider'.first = slider.first /\ slider'.second = slider.second
      BY <3>1 DEF SliderInv, IsSlider, SliderFields
    <3>4. IsSlider(slider)' BY <3>2, <3>3, Zenon DEF IsSlider, SliderInv
    <3>5. SliderOrdered' BY <3>3, Zenon DEF SliderInv, SliderOrdered
    <3>6. InRange(slider)' BY <3>3, Zenon DEF SliderInv, InRange
    <3>7. QED BY <3>4, <3>5, <3>6 DEF SliderInv
  <2>5. CASE UNCHANGED slider
    BY <2>5, Zenon DEF SliderInv, IsSlider, SliderOrdered, InRange
  <2>6. QED BY <2>1, <2>2, <2>3, <2>4, <2>5, Zenon DEF SliderNext
<1>3. QED BY <1>1, <1>2, PTL DEF SliderSpec

(***************************************************************************)
(* The slider: handles and values of a range in order, values in the range *)
(* if the step divides it, and the tooltip there while the mouse is over   *)
(* the slider or drags it (SliderSafe: bootstrap-slider.js, the mouse's    *)
(* handlers and calculateValue), for any range and any step.               *)
(***************************************************************************)
THEOREM SliderIsSafe == SliderSpec => []SliderSafe
<1>1. SliderInv => SliderOrdered BY DEF SliderInv
<1>2. SliderInv => SliderTooltipFollows
  BY DEF SliderInv, IsSlider, SliderTooltipFollows
<1>3. SliderInv => SliderValueInRange
  BY DEF SliderInv, InRange, SliderValueInRange
<1>4. SliderInv => SliderSafe BY <1>1, <1>2, <1>3 DEF SliderSafe
<1>5. QED BY <1>4, SliderKeeps, PTL

-----------------------------------------------------------------------------
(***************************************************************************)
(* The calendar of the date picker: every cell tells by its class and its day*)
(* the date that a click on it picks.                                       *)
(***************************************************************************)
(* The days before a month and the day of the week are numbers: what is added
   up for the months of the year are their lengths. *)
LEMMA DaysBeforeNumber ==
    ASSUME NEW month \in Int
    PROVE  DaysBefore(month) \in Int
<1> DEFINE year == month \div 12
           days(m) == DaysInMonth(year * 12 + m)
           S == 0 .. ((month % 12) - 1)
           C == [s \in SUBSET S |-> CHOOSE x \in s : TRUE]
           F == [x \in S |-> [v \in Int |-> days(x) + v]]
<1>1. \A x : days(x) \in Int
  BY MonthLength
<1>2. IsFiniteSet(S) /\ Chooses(S, C)
  BY FS_Interval DEF Chooses
<1>3. SetFoldStays(Int, S, F)
  <2> HIDE DEF S, days
  <2>1. QED BY <1>1 DEF SetFoldStays
<1>4. /\ \A s \in SUBSET S : C[s] = CHOOSE x \in s : TRUE
      /\ \A x \in S, v \in Int : F[x][v] = days(x) + v
  <2> HIDE DEF S, days
  <2>1. QED OBVIOUS
<1> DEFINE V == Int
<1>v. 0 \in V /\ SetFoldStays(V, S, F)
  BY <1>3
<1> HIDE DEF S, C, F
<1>5. PICK g : SetFoldSolves(V, 0, S, C, F, g)
  <2> HIDE DEF V
  <2>1. QED BY <1>2, <1>v, SetFoldIsDefined
<1>6. g = [s \in SUBSET S |-> IF s = {} THEN 0
                              ELSE LET x == CHOOSE y \in s : TRUE IN days(x) + g[s \ {x}]]
  <2>1. ASSUME NEW s \in SUBSET S, s # {}
        PROVE  F[C[s]][g[s \ {C[s]}]] =
                  days(CHOOSE y \in s : TRUE) + g[s \ {CHOOSE y \in s : TRUE}]
    <3>1. C[s] \in S /\ g[s \ {C[s]}] \in Int
      BY <1>2, <1>5, <2>1 DEF Chooses, SetFoldSolves
    <3> HIDE DEF days
    <3>2. QED BY <1>4, <3>1
  <2> HIDE DEF days
  <2>2. QED BY <1>5, <2>1 DEF SetFoldSolves
<1>7. PICK it :
         /\ it = [s \in SUBSET S |-> IF s = {} THEN 0
                              ELSE LET x == CHOOSE y \in s : TRUE IN days(x) + it[s \ {x}]]
         /\ DaysBefore(month) = DaysBeforeYear(year) + it[S]
  BY <1>6 DEF DaysBefore, MapThenSumSet, MapThenFoldSet, S
<1>8. SetFoldObeys(Int, 0, S, C, F, it)
  <2>1. it[{}] = 0
    BY <1>7
  <2>2. ASSUME NEW s \in SUBSET S, s # {}, it[s \ {C[s]}] \in Int
        PROVE  it[s] = F[C[s]][it[s \ {C[s]}]]
    <3>1. C[s] \in S
      BY <1>2, <2>2 DEF Chooses
    <3>2. C[s] = CHOOSE y \in s : TRUE
      BY <1>4
    <3>3. it[s] = LET x == CHOOSE y \in s : TRUE IN days(x) + it[s \ {x}]
      BY <1>7, <2>2
    <3> HIDE DEF days
    <3>4. it[s] = days(C[s]) + it[s \ {C[s]}]
      BY <3>2, <3>3
    <3>5. QED BY <1>4, <2>2, <3>1, <3>4
  <2>3. QED BY <2>1, <2>2 DEF SetFoldObeys
<1>9. it[S] \in Int
  BY <1>2, <1>3, <1>8, SetFoldStaysIn
<1>10. DaysBeforeYear(year) \in Int
  BY DEF DaysBeforeYear
<1>11. QED BY <1>7, <1>9, <1>10

(* Where the calendar of a month starts: in the last week of the month before. *)
LEMMA FirstDayBounds ==
    ASSUME NEW month \in Int
    PROVE  /\ FirstDay(month) \in (DaysInMonth(month - 1) - 6) .. DaysInMonth(month - 1)
           /\ WeekDay([month |-> month - 1, day |-> FirstDay(month)]) = WeekStart
<1> DEFINE D == DaysBefore(month - 1)
           L == DaysInMonth(month - 1)
           w == (D + L + 5) % 7
           k == (w - WeekStart + 7) % 7
<1>1. D \in Int /\ L \in 28 .. 31 /\ WeekStart \in 0 .. 6
  BY DaysBeforeNumber, MonthLength, DatepickerAssumption
<1>2. FirstDay(month) = L - k
  BY DEF FirstDay, WeekDay
<1>3. WeekDay([month |-> month - 1, day |-> L - k]) = (D + L - k + 5) % 7
  BY DEF WeekDay
<1> HIDE DEF D, L
<1>4. w \in 0 .. 6 /\ k \in 0 .. 6
  BY <1>1
<1>5. (D + L - k + 5) % 7 = WeekStart
  <2>1. k = w - WeekStart \/ k = w - WeekStart + 7
    BY <1>1, <1>4
  <2> DEFINE q == (D + L + 5) \div 7
  <2>2. q \in Int /\ D + L + 5 = 7 * q + w
    BY <1>1
  <2> HIDE DEF q, w, k
  <2>3. D + L - k + 5 = 7 * q + WeekStart \/ D + L - k + 5 = 7 * (q - 1) + WeekStart
    BY <1>1, <1>4, <2>1, <2>2
  <2>4. \A p \in Int : (7 * p + WeekStart) % 7 = WeekStart
    BY <1>1
  <2>5. q - 1 \in Int
    BY <2>2
  <2>6. CASE D + L - k + 5 = 7 * q + WeekStart
    BY <2>2, <2>4, <2>6
  <2>7. CASE D + L - k + 5 = 7 * (q - 1) + WeekStart
    BY <2>4, <2>5, <2>7
  <2>8. QED BY <2>3, <2>6, <2>7
<1> HIDE DEF k
<1>6. FirstDay(month) \in (L - 6) .. L
  BY <1>1, <1>2, <1>4
<1>7. WeekDay([month |-> month - 1, day |-> FirstDay(month)]) = WeekStart
  BY <1>2, <1>3, <1>5
<1>8. QED BY <1>6, <1>7 DEF L

(* A date is itself when it is not beyond the end of its month. *)
LEMMA NewDateWithin ==
    ASSUME NEW month \in Int, NEW day \in Int
    PROVE  /\ day <= DaysInMonth(month) => NewDate(month, day) = [month |-> month, day |-> day]
           /\ day > DaysInMonth(month) =>
                 NewDate(month, day) = [month |-> month + 1, day |-> day - DaysInMonth(month)]
BY MonthLength DEF NewDate

(* The cells of the calendar: the end of the month before, the month, and the
   start of the month after. *)
LEMMA CellIs ==
    ASSUME NEW month \in Int, NEW i \in 0 .. 41
    PROVE  LET d == FirstDay(month) + i
               L == DaysInMonth(month - 1)
               M == DaysInMonth(month)
           IN  /\ d <= L => CellAt(month, i) = [month |-> month - 1, day |-> d]
               /\ (d > L /\ d <= L + M) => CellAt(month, i) = [month |-> month, day |-> d - L]
               /\ d > L + M => /\ CellAt(month, i) = [month |-> month + 1, day |-> d - L - M]
                              /\ d - L - M \in 1 .. 28
<1> DEFINE d == FirstDay(month) + i
           L == DaysInMonth(month - 1)
           M == DaysInMonth(month)
<1>1. /\ FirstDay(month) \in (L - 6) .. L /\ L \in 28 .. 31 /\ M \in 28 .. 31
      /\ DaysInMonth(month + 1) \in 28 .. 31
  BY FirstDayBounds, MonthLength
<1>2. d \in Int /\ d >= 22 /\ d <= L + 41 /\ month - 1 \in Int /\ month - 1 + 1 = month
  <2> HIDE DEF L
  <2>1. QED BY <1>1
<1>3. CASE d <= L
  <2>1. NewDate(month - 1, d) = [month |-> month - 1, day |-> d]
    BY <1>2, <1>3, NewDateWithin
  <2>2. CellAt(month, i) = NewDate(month - 1, d)
    BY <2>1 DEF CellAt
  <2> HIDE DEF d, L, M
  <2>3. QED BY <1>1, <1>2, <1>3, <2>1, <2>2 DEF d, L, M
<1>4. CASE d > L
  <2>1. NewDate(month - 1, d) = [month |-> month, day |-> d - L]
    BY <1>2, <1>4, NewDateWithin
  <2>2. CellAt(month, i) = NewDate(month, d - L)
    BY <2>1 DEF CellAt
  <2>3. d - L \in Int /\ d - L - M \in Int
    BY <1>1, <1>2
  <2>4. /\ d - L <= M => CellAt(month, i) = [month |-> month, day |-> d - L]
        /\ d - L > M => CellAt(month, i) = [month |-> month + 1, day |-> d - L - M]
    BY <2>2, <2>3, NewDateWithin
  <2> HIDE DEF d, L, M
  <2>5. /\ d <= L + M => d - L <= M
        /\ d > L + M => d - L > M /\ d - L - M \in 1 .. 28
    BY <1>1, <1>2
  <2>6. ~(d <= L)
    BY <1>1, <1>2, <1>4
  <2>7. QED BY <2>4, <2>5, <2>6 DEF d, L, M
<1>5. d <= L \/ d > L
  BY <1>1, <1>2
<1>6. QED BY <1>3, <1>4, <1>5

(* A cell is of the class of its month, and taken for it. *)
LEMMA MonthOfClass ==
    ASSUME NEW month \in Int, NEW cell, cell.month \in {month - 1, month, month + 1}
    PROVE  MonthClicked(CellClass(cell, month), month) = cell.month
<1> DEFINE y == month \div 12
           m == month % 12
<1>1. y \in Int /\ m \in 0 .. 11 /\ month = 12 * y + m
  OBVIOUS
<1>2. CASE cell.month = month
  BY <1>1, <1>2 DEF CellClass, MonthClicked
<1>3. CASE cell.month = month - 1
  <2>1. \/ cell.month \div 12 = y /\ cell.month % 12 = m - 1
        \/ cell.month \div 12 = y - 1 /\ cell.month % 12 = 11
    BY <1>1, <1>3
  <2> DEFINE cy == cell.month \div 12
             cm == cell.month % 12
  <2>a. CellClass(cell, month) =
           CASE (cy = y /\ cm < m) \/ cy < y -> "old"
             [] (cy = y /\ cm > m) \/ cy > y -> "new"
             [] cy = y /\ cm = m -> ""
    BY DEF CellClass
  <2>b. (cy = y /\ cm = m - 1) \/ (cy = y - 1 /\ cm = 11)
    BY <2>1
  <2> HIDE DEF y, m, cy, cm
  <2>c. ((cy = y /\ cm < m) \/ cy < y) /\ ~((cy = y /\ cm > m) \/ cy > y) /\ ~(cy = y /\ cm = m)
    BY <1>1, <2>b
  <2>2. CellClass(cell, month) = "old"
    BY <2>a, <2>c
  <2>3. QED BY <1>3, <2>2 DEF MonthClicked
<1>4. CASE cell.month = month + 1
  <2>1. \/ cell.month \div 12 = y /\ cell.month % 12 = m + 1
        \/ cell.month \div 12 = y + 1 /\ cell.month % 12 = 0
    BY <1>1, <1>4
  <2> DEFINE cy == cell.month \div 12
             cm == cell.month % 12
  <2>a. CellClass(cell, month) =
           CASE (cy = y /\ cm < m) \/ cy < y -> "old"
             [] (cy = y /\ cm > m) \/ cy > y -> "new"
             [] cy = y /\ cm = m -> ""
    BY DEF CellClass
  <2>b. (cy = y /\ cm = m + 1) \/ (cy = y + 1 /\ cm = 0)
    BY <2>1
  <2> HIDE DEF y, m, cy, cm
  <2>c. ((cy = y /\ cm > m) \/ cy > y) /\ ~((cy = y /\ cm < m) \/ cy < y) /\ ~(cy = y /\ cm = m)
    BY <1>1, <2>b
  <2>2. CellClass(cell, month) = "new"
    BY <2>a, <2>c
  <2>3. QED BY <1>4, <2>2 DEF MonthClicked
<1>5. QED BY <1>2, <1>3, <1>4

(***************************************************************************)
(* The calendar is right in every month of every year: each of its 42 days *)
(* is picked as what it stands for, no day of the month is missing, and it *)
(* starts with the first day of the week (PickerPicksCell:                 *)
(* bootstrap-datepicker.js, fill and click).                               *)
(***************************************************************************)
THEOREM PickerCalendarIsRight == PickerSpec => []PickerPicksCell
<1>1. PickerInv => PickerPicksCell
  <2> SUFFICES ASSUME PickerInv PROVE PickerPicksCell
    OBVIOUS
  <2> DEFINE month == picker.viewDate.month
             cells == [i \in 0 .. 41 |-> CellAt(month, i)]
             L == DaysInMonth(month - 1)
             M == DaysInMonth(month)
  <2>1. month \in Int
    BY DEF PickerInv
  <2> HIDE DEF month
  <2>2. /\ FirstDay(month) \in (L - 6) .. L /\ L \in 28 .. 31 /\ M \in 28 .. 31
        /\ DaysInMonth(month + 1) \in 28 .. 31
    BY <2>1, FirstDayBounds, MonthLength
  <2>3. \A i \in 0 .. 41 : cells[i] = CellAt(month, i)
    OBVIOUS
  <2>4. ASSUME NEW i \in 0 .. 41
        PROVE  NewDate(MonthClicked(CellClass(cells[i], month), month), cells[i].day) = cells[i]
    <3> DEFINE d == FirstDay(month) + i
               c == CellAt(month, i)
    <3>1. d \in Int
      <4> HIDE DEF L
      <4>1. QED BY <2>2
    <3>2. /\ d <= L => c = [month |-> month - 1, day |-> d]
          /\ (d > L /\ d <= L + M) => c = [month |-> month, day |-> d - L]
          /\ d > L + M => c = [month |-> month + 1, day |-> d - L - M] /\ d - L - M \in 1 .. 28
      BY <2>1, CellIs
    <3> HIDE DEF d, c, L, M
    <3>3. /\ d <= L \/ (d > L /\ d <= L + M) \/ d > L + M
          /\ d - L \in Int /\ d - L - M \in Int
          /\ d <= L + M => d - L <= M
      BY <2>2, <3>1
    <3>4. /\ c.month \in {month - 1, month, month + 1} /\ c.day \in Int
          /\ c.day <= DaysInMonth(c.month)
          /\ c = [month |-> c.month, day |-> c.day]
      <4>1. CASE d <= L
        BY <3>1, <3>2, <4>1 DEF L
      <4>2. CASE d > L /\ d <= L + M
        BY <3>2, <3>3, <4>2 DEF M
      <4>3. CASE d > L + M
        <5>1. c = [month |-> month + 1, day |-> d - L - M] /\ d - L - M \in 1 .. 28
          BY <3>2, <4>3
        <5> DEFINE e == d - L - M
        <5>2. e \in 1 .. 28 /\ c = [month |-> month + 1, day |-> e]
          BY <5>1
        <5> HIDE DEF e
        <5>3. e <= DaysInMonth(month + 1)
          BY <2>2, <5>2
        <5>4. QED BY <5>2, <5>3
      <4>4. QED BY <3>3, <4>1, <4>2, <4>3
    <3>5. MonthClicked(CellClass(c, month), month) = c.month
      BY <2>1, <3>4, MonthOfClass
    <3>6. NewDate(c.month, c.day) = c
      <4>1. c.month \in Int
        BY <2>1, <3>4
      <4>2. QED BY <3>4, <4>1, NewDateWithin
    <3>7. cells[i] = c
      BY DEF c
    <3> HIDE DEF cells
    <3>8. QED BY <3>5, <3>6, <3>7
  <2>5. ASSUME NEW date \in DatesOf({month}) PROVE date \in {cells[i] : i \in 0 .. 41}
    <3>1. date = [month |-> month, day |-> date.day] /\ date.day \in 1 .. 31 /\ date.day <= M
      BY DEF DatesOf
    <3> DEFINE day == date.day
               i == day + L - FirstDay(month)
    <3>2. day \in 1 .. 31 /\ day <= M /\ date = [month |-> month, day |-> day]
      BY <3>1
    <3> HIDE DEF L, M, day
    <3>3. i \in 0 .. 41 /\ FirstDay(month) + i = day + L
      BY <2>2, <3>2
    <3> HIDE DEF i
    <3>4. day + L > L /\ day + L <= L + M /\ day + L - L = day
      BY <2>2, <3>2
    <3>5. CellAt(month, i) = [month |-> month, day |-> day]
      <4> DEFINE d == FirstDay(month) + i
      <4>1. (d > L /\ d <= L + M) => CellAt(month, i) = [month |-> month, day |-> d - L]
        BY <2>1, <3>3, CellIs DEF L, M
      <4>2. d > L /\ d <= L + M /\ d - L = day
        BY <2>2, <3>2, <3>3, <3>4
      <4>3. QED BY <4>1, <4>2
    <3>6. cells[i] = date
      BY <3>2, <3>3, <3>5
    <3> HIDE DEF cells
    <3>7. QED BY <3>3, <3>6
  <2>6. WeekDay(cells[0]) = WeekStart
    <3>1. FirstDay(month) + 0 <= L /\ FirstDay(month) + 0 = FirstDay(month)
      <4> HIDE DEF L
      <4>1. QED BY <2>2
    <3>2. CellAt(month, 0) = [month |-> month - 1, day |-> FirstDay(month)]
      BY <2>1, <3>1, CellIs
    <3>3. QED BY <2>1, <3>2, FirstDayBounds
  <2> HIDE DEF cells
  <2>7. QED BY <2>4, <2>5, <2>6 DEF PickerPicksCell, month, cells
<1>2. QED BY <1>1, PickerKeeps, PTL

(***************************************************************************)
(* The date picker keeps all it promises: a click picks the day it shows,  *)
(* no month is skipped, and the field has the date.                        *)
(***************************************************************************)
THEOREM PickerIsSafe == PickerSpec => []PickerSafe
BY PickerCalendarIsRight, PickerGoesToMonth, PickerFieldIsDate, PTL DEF PickerSafe

-----------------------------------------------------------------------------
(***************************************************************************)
(* The types of the three, with what their invariants did not need.        *)
(***************************************************************************)
(* What PickerInv does not need: the mode, the flags, and that the view is
   nothing but a month and a day. *)
PickerViews ==
    /\ picker.viewMode \in ViewModes
    /\ picker.shown \in BOOLEAN /\ picker.listens \in BOOLEAN
    /\ picker.viewDate = [month |-> picker.viewDate.month, day |-> picker.viewDate.day]

(* The modes stay between the least and years, but for the one to start with. *)
LEMMA ModeStays ==
    ASSUME NEW mode \in ViewModes, NEW dir \in {-1, 1}
    PROVE  ModeBy(mode, dir) \in ViewModes
<1>1. mode \in Int /\ mode + dir \in Int /\ MinViewMode \in 0 .. 2
  BY DatepickerAssumption DEF ViewModes
<1> DEFINE low == Min({2, mode + dir})
<1>2. low = IF 2 <= mode + dir THEN 2 ELSE mode + dir
  BY <1>1, MinOfTwo
<1>3. low \in Int /\ low <= 2
  BY <1>1, <1>2
<1> HIDE DEF low
<1>4. Max({MinViewMode, low}) = IF low <= MinViewMode THEN MinViewMode ELSE low
  <2> DEFINE most == IF low <= MinViewMode THEN MinViewMode ELSE low
  <2>1. \A x \in {MinViewMode, low} : (\A y \in {MinViewMode, low} : x >= y) <=> x = most
    BY <1>1, <1>3
  <2>2. most \in {MinViewMode, low}
    OBVIOUS
  <2> HIDE DEF most
  <2>3. Max({MinViewMode, low}) = most
    BY <2>1, <2>2 DEF Max
  <2>4. QED BY <2>3 DEF most
<1>5. QED BY <1>1, <1>3, <1>4 DEF ModeBy, ViewModes, low

(* The type of the picker: dates that exist, whatever is typed. *)
LEMMA PickerTyped == PickerSpec => []PickerTypeOK
<1>1. PickerInit => PickerViews
  BY DatepickerAssumption DEF PickerInit, PickerViews, ViewModes
<1>2. PickerInv /\ PickerViews /\ [PickerNext]_picker => PickerViews'
  <2> SUFFICES ASSUME PickerInv, PickerViews, [PickerNext]_picker PROVE PickerViews'
    OBVIOUS
  <2>1. \A month, day : NewDate(month, day)
                            = [month |-> NewDate(month, day).month, day |-> NewDate(month, day).day]
    BY DEF NewDate
  <2>2. StartViewMode \in ViewModes
    BY DEF ViewModes
  <2>3. ModeBy(picker.viewMode, 1) \in ViewModes /\ ModeBy(picker.viewMode, -1) \in ViewModes
    BY ModeStays DEF PickerViews
  <2>4. CASE PickerShow \/ PickerHide \/ PickerSwitch
    BY <2>2, <2>3, <2>4 DEF PickerShow, PickerHide, PickerSwitch, PickerInv, PickerViews
  <2>5. ASSUME NEW text \in Texts, PickerType(text) PROVE PickerViews'
    BY <2>5 DEF PickerType, Update, PickerInv, PickerViews
  <2>6. ASSUME NEW date, NEW month, NEW day, NEW mode \in ViewModes, NEW p,
               p = [picker EXCEPT !.date = date, !.viewDate = NewDate(month, day),
                                  !.viewMode = mode],
               picker' = Set(p)
        PROVE  PickerViews'
    <3>1. /\ picker'.viewMode = mode /\ picker'.viewDate = NewDate(month, day)
          /\ picker'.shown = picker.shown /\ picker'.listens = picker.listens
      BY <2>6 DEF Set, PickerInv
    <3>2. QED BY <2>1, <2>6, <3>1 DEF PickerViews
  <2>7. ASSUME NEW k \in 0 .. 41, PickerClickDay(k) PROVE PickerViews'
    <3> DEFINE cell == CellAt(picker.viewDate.month, k)
               month == MonthClicked(CellClass(cell, picker.viewDate.month), picker.viewDate.month)
               date == NewDate(month, cell.day)
               day == ViewDay(cell.day)
    <3>1. picker' = Set([picker EXCEPT !.date = date, !.viewDate = NewDate(month, day)])
      BY <2>7 DEF PickerClickDay
    <3> HIDE DEF cell, month, date, day
    <3> DEFINE p == [picker EXCEPT !.date = date, !.viewDate = NewDate(month, day)]
    <3>2. p = [picker EXCEPT !.date = date, !.viewDate = NewDate(month, day),
                             !.viewMode = picker.viewMode]
      BY DEF PickerInv
    <3>3. picker' = Set(p) /\ picker.viewMode \in ViewModes
      BY <3>1 DEF PickerViews
    <3> HIDE DEF p
    <3>4. QED BY <2>6, <3>2, <3>3
  <2>8. ASSUME NEW dir \in {-1, 1}, PickerNavigate(dir) PROVE PickerViews'
    <3> DEFINE month == picker.viewDate.month + dir * NavStep(picker.viewMode)
    <3>1. picker' = Set([picker EXCEPT !.viewDate = NewDate(month, picker.viewDate.day)])
      BY <2>8 DEF PickerNavigate
    <3> HIDE DEF month
    <3> DEFINE p == [picker EXCEPT !.viewDate = NewDate(month, picker.viewDate.day)]
    <3>2. p = [picker EXCEPT !.date = picker.date,
                             !.viewDate = NewDate(month, picker.viewDate.day),
                             !.viewMode = picker.viewMode]
      BY DEF PickerInv
    <3>3. picker' = Set(p) /\ picker.viewMode \in ViewModes
      BY <3>1 DEF PickerViews
    <3> HIDE DEF p
    <3>4. QED BY <2>6, <3>2, <3>3
  <2>9. ASSUME NEW month, picker' = Selected(month) PROVE PickerViews'
    <3> DEFINE date == NewDate(month, picker.viewDate.day)
               mode == ModeBy(picker.viewMode, -1)
    <3>1. mode \in ViewModes BY <2>3
    <3>2. [picker EXCEPT !.viewDate = date, !.date = date, !.viewMode = mode]
             = [picker EXCEPT !.date = date, !.viewDate = date, !.viewMode = mode]
      BY DEF PickerInv
    <3>3. picker' = Set([picker EXCEPT !.date = date, !.viewDate = date, !.viewMode = mode])
      BY <2>9, <3>2 DEF Selected
    <3> HIDE DEF mode
    <3>4. QED BY <2>6, <3>1, <3>3
  <2>10. CASE UNCHANGED picker
    BY <2>10 DEF PickerViews
  <2>11. QED
    BY <2>4, <2>5, <2>7, <2>8, <2>9, <2>10, Zenon
       DEF PickerNext, PickerSelectMonth, PickerSelectYear
<1>3. PickerInv /\ PickerViews => PickerTypeOK
  <2> SUFFICES ASSUME PickerInv, PickerViews PROVE PickerTypeOK
    OBVIOUS
  <2>1. ASSUME NEW date, date = [month |-> date.month, day |-> date.day],
               date.month \in Int, date.day \in 1 .. DaysInMonth(date.month)
        PROVE  date \in DatesOf({date.month})
    <3>1. date.day \in 1 .. 31 /\ date.day <= DaysInMonth(date.month)
      BY <2>1, MonthLength
    <3>2. QED BY <2>1, <3>1 DEF DatesOf
  <2>2. picker.date \in DatesOf({picker.date.month})
    BY <2>1 DEF PickerInv, IsDate, RealDate
  <2>3. picker.viewDate \in DatesOf({picker.viewDate.month})
    <3>1. DaysInMonth(picker.viewDate.month) \in 28 .. 31
      BY MonthLength DEF PickerInv
    <3>2. picker.viewDate.day \in 1 .. DaysInMonth(picker.viewDate.month)
      BY <3>1 DEF PickerInv
    <3>3. QED BY <2>1, <3>2 DEF PickerInv, PickerViews
  <2>4. QED BY <2>2, <2>3 DEF PickerInv, PickerViews, PickerTypeOK
<1>4. QED BY <1>1, <1>2, <1>3, PickerKeeps, PTL DEF PickerSpec

(* Of the minutes that are offered one is the nearest. *)
LEMMA NearestIsOffered ==
    ASSUME NEW minute \in 0 .. 59
    PROVE  Nearest(minute) \in Offered(FALSE, "minute")
<1> DEFINE offered == {m \in 0 .. 59 : m % MinuteStep = 0}
           distance(a) == IF a < minute THEN minute - a ELSE a - minute
           IsNearest(m) ==
               \A n \in offered :
                   distance(m) < distance(n) \/ (distance(m) = distance(n) /\ m <= n)
           key(m) == 60 * distance(m) + m
           keys == {key(m) : m \in offered}
<1>1. Offered(FALSE, "minute") = offered
  BY DEF Offered
<1>2. 0 \in offered
  BY CombodateAssumption
<1>3. keys \subseteq Nat /\ keys # {}
  BY <1>2
<1>4. PICK m \in offered : \A n \in offered : key(m) <= key(n)
  <2>1. PICK x \in keys : \A y \in keys : x <= y
    <3> HIDE DEF keys
    <3>1. QED BY <1>3, LeastNatural
  <2>2. PICK m \in offered : x = key(m)
    BY <2>1
  <2>3. ASSUME NEW n \in offered PROVE key(m) <= key(n)
    <3>1. key(n) \in keys OBVIOUS
    <3>2. QED BY <2>1, <2>2, <3>1
  <2>4. QED BY <2>3
<1>5. IsNearest(m)
  <2> SUFFICES ASSUME NEW n \in offered
               PROVE  distance(m) < distance(n) \/ (distance(m) = distance(n) /\ m <= n)
    OBVIOUS
  <2>1. key(m) <= key(n) BY <1>4
  <2>2. /\ m \in 0 .. 59 /\ n \in 0 .. 59
        /\ distance(m) \in Nat /\ distance(n) \in Nat
    OBVIOUS
  <2> HIDE DEF distance, offered
  <2>3. QED BY <2>1, <2>2
<1>6. Nearest(minute) = CHOOSE n \in offered : IsNearest(n)
  BY <1>1 DEF Nearest
<1> HIDE DEF offered, IsNearest
<1>7. QED BY <1>1, <1>4, <1>5, <1>6

(* What the selects show is offered or nothing, and the field has numbers. *)
ComboOffers ==
    /\ combo.selects \in [DateParts -> Int]
    /\ \A part \in DateParts : combo.selects[part] \in Offered(combo.h12, part) \cup {NaN}
    /\ combo.field \in [DateParts -> Int]

(* A pick of what is offered. *)
LEMMA PickOffers ==
    ASSUME NEW c, DOMAIN c = {"selects", "pm", "field", "h12"}, c.pm \in BOOLEAN,
           c.selects \in [DateParts -> Int],
           \A part \in DateParts : c.selects[part] \in Offered(c.h12, part) \cup {NaN},
           combo' = WithField(c)
    PROVE  ComboOffers'
<1>1. combo'.selects = c.selects /\ combo'.h12 = c.h12 /\ combo'.field = GetValue(c)
  BY DEF WithField
<1>2. GetValue(c) \in [DateParts -> Int]
  <2> DEFINE hour == IF c.h12 THEN To24(c.selects["hour"], c.pm) ELSE c.selects["hour"]
             date == [c.selects EXCEPT !["hour"] = hour]
  <2>1. hour \in Int
    <3>1. c.selects["hour"] \in Int BY DEF DateParts
    <3>2. QED BY <3>1 DEF To24
  <2> HIDE DEF hour
  <2>2. date \in [DateParts -> Int] BY <2>1
  <2>3. Empty \in [DateParts -> Int] BY DEF Empty, NaN
  <2>4. GetValue(c) \in {date, Empty} BY DEF GetValue, hour
  <2>5. QED BY <2>2, <2>3, <2>4
<1>3. QED BY <1>1, <1>2 DEF ComboOffers

(* The type of the selects and their field. *)
LEMMA ComboTyped == ComboSpec => []ComboTypeOK
<1>1. ComboInit => ComboOffers
  BY DEF ComboInit, ComboOffers, Empty, NaN
<1>2. ComboInv /\ ComboOffers /\ [ComboNext]_combo => ComboOffers'
  <2> SUFFICES ASSUME ComboInv, ComboOffers, [ComboNext]_combo PROVE ComboOffers'
    OBVIOUS
  <2>1. ASSUME NEW date \in SetDates, ComboSetValue(date) PROVE ComboOffers'
    <3>1. /\ date \in [DateParts -> Nat]
          /\ date["month"] \in 0 .. 11 /\ date["day"] \in 1 .. 31
          /\ date["hour"] \in 0 .. 23 /\ date["minute"] \in 0 .. 59
      BY CombodateAssumption
    <3> DEFINE hour == IF combo.h12 THEN To12(date["hour"]) ELSE date["hour"]
               minute == Nearest(date["minute"])
               year == IF date["year"] \in MinYear .. MaxYear THEN date["year"] ELSE NaN
               shown == [date EXCEPT !["hour"] = hour, !["minute"] = minute, !["year"] = year]
    <3>2. combo'.selects = shown /\ combo'.field = date /\ combo'.h12 = combo.h12
      BY <2>1, <3>1 DEF ComboSetValue, SetValue, ComboInv, DateParts
    <3>3. /\ hour \in Offered(combo.h12, "hour")
      BY <3>1 DEF To12, Offered
    <3>4. minute \in Offered(combo.h12, "minute") /\ minute \in Int
      <4>1. Offered(combo.h12, "minute") = Offered(FALSE, "minute")
        BY DEF Offered
      <4>2. minute \in Offered(FALSE, "minute")
        <5>1. date["minute"] \in 0 .. 59 BY <3>1
        <5>2. QED BY <5>1, NearestIsOffered
      <4> HIDE DEF minute
      <4>3. Offered(FALSE, "minute") \subseteq 0 .. 59
        BY DEF Offered
      <4>4. minute \in Offered(combo.h12, "minute")
        BY <4>1, <4>2
      <4>5. minute \in 0 .. 59
        BY <4>2, <4>3
      <4>6. QED BY <4>4, <4>5
    <3>5. year \in Offered(combo.h12, "year") \cup {NaN}
      BY DEF Offered
    <3>6. date["month"] \in Offered(combo.h12, "month") /\ date["day"] \in Offered(combo.h12, "day")
      BY <3>1 DEF Offered
    <3>7. hour \in Int /\ year \in Int
      BY <3>1 DEF To12, NaN, DateParts
    <3>8. /\ shown["hour"] = hour /\ shown["minute"] = minute /\ shown["year"] = year
          /\ shown["month"] = date["month"] /\ shown["day"] = date["day"]
      BY <3>1 DEF DateParts
    <3> HIDE DEF hour, minute, year
    <3>9. shown \in [DateParts -> Int]
      <4>1. shown = [part \in DateParts |-> shown[part]]
        BY <3>1
      <4>2. date["month"] \in Int /\ date["day"] \in Int
        BY <3>1
      <4> HIDE DEF shown
      <4>3. \A part \in DateParts : shown[part] \in Int
        BY <3>4, <3>7, <3>8, <4>2 DEF DateParts
      <4>4. QED BY <4>1, <4>3
    <3> HIDE DEF shown
    <3>10. \A part \in DateParts : shown[part] \in Offered(combo.h12, part) \cup {NaN}
      BY <3>3, <3>4, <3>5, <3>6, <3>8 DEF DateParts
    <3>11. date \in [DateParts -> Int]
      BY <3>1
    <3>12. QED BY <3>2, <3>9, <3>10, <3>11 DEF ComboOffers
  <2>2. ASSUME NEW part \in DateParts, NEW n, ComboPick(part, n) PROVE ComboOffers'
    <3> DEFINE c == [combo EXCEPT !.selects[part] = n]
    <3>1. n \in Offered(combo.h12, part) \cup {NaN} /\ combo' = WithField(c)
      BY <2>2 DEF ComboPick
    <3>2. n \in Int
      <4>1. n \in Nat \cup {NaN} BY <2>2, CombodateAssumption DEF ComboPick
      <4>2. QED BY <4>1 DEF NaN
    <3>3. /\ DOMAIN c = {"selects", "pm", "field", "h12"} /\ c.pm = combo.pm /\ c.h12 = combo.h12
          /\ c.selects = [combo.selects EXCEPT ![part] = n]
      BY DEF ComboInv
    <3> HIDE DEF c
    <3>4. c.selects \in [DateParts -> Int]
      BY <3>2, <3>3 DEF ComboOffers
    <3>5. \A other \in DateParts : c.selects[other] \in Offered(c.h12, other) \cup {NaN}
      BY <3>1, <3>3 DEF ComboOffers
    <3>6. c.pm \in BOOLEAN BY <3>3 DEF ComboInv
    <3>7. QED BY <3>1, <3>3, <3>4, <3>5, <3>6, PickOffers
  <2>3. ASSUME NEW pm \in BOOLEAN, ComboPickAmPm(pm) PROVE ComboOffers'
    <3> DEFINE c == [combo EXCEPT !.pm = pm]
    <3>1. combo' = WithField(c)
      BY <2>3 DEF ComboPickAmPm
    <3>2. /\ DOMAIN c = {"selects", "pm", "field", "h12"} /\ c.pm = pm /\ c.h12 = combo.h12
          /\ c.selects = combo.selects
      BY DEF ComboInv
    <3> HIDE DEF c
    <3>3. QED BY <3>1, <3>2, PickOffers DEF ComboOffers
  <2>4. CASE UNCHANGED combo
    BY <2>4 DEF ComboOffers
  <2>5. QED BY <2>1, <2>2, <2>3, <2>4, Zenon DEF ComboNext
<1>3. ComboInv /\ ComboOffers => ComboTypeOK
  BY DEF ComboInv, ComboOffers, ComboTypeOK
<1>4. QED BY <1>1, <1>2, <1>3, ComboKeeps, PTL DEF ComboSpec

(* The type of the slider: its values are a pair of numbers. *)
LEMMA SliderTyped == SliderSpec => []SliderTypeOK
<1> DEFINE Pair == slider.value \in Int \X Int
<1>1. SliderInit => Pair
  BY SliderAssumption DEF SliderInit
<1>2. SliderInv /\ Pair /\ [SliderNext]_slider => Pair'
  <2> SUFFICES ASSUME SliderInv, Pair, [SliderNext]_slider PROVE Pair'
    OBVIOUS
  <2>1. ASSUME NEW s, DOMAIN s = SliderFields, s.value = slider.value,
               s.first \in Int, s.second \in Int, slider' = CalculateValue(s)
        PROVE  Pair'
    <3>1. /\ Round(s.first, SliderStep) * SliderStep \in Int
          /\ Round(s.second, SliderStep) * SliderStep \in Int
      <4>1. \A a \in Int : Round(a, SliderStep) \in Int
        BY RoundKeepsOrder, SliderAssumption
      <4>2. Round(s.first, SliderStep) \in Int /\ Round(s.second, SliderStep) \in Int
        BY <2>1, <4>1
      <4>3. QED BY <4>2, SliderAssumption
    <3> DEFINE value(handle) == SliderMin + Round(handle, SliderStep) * SliderStep
               pair == <<value(s.first), IF s.range THEN value(s.second) ELSE s.value[2]>>
    <3>2. slider'.value = pair
      BY <2>1 DEF CalculateValue, SliderFields
    <3>3. value(s.first) \in Int /\ value(s.second) \in Int
      BY <3>1, SliderAssumption
    <3> HIDE DEF value
    <3>4. QED BY <2>1, <3>2, <3>3
  <2>2. slider.first \in Int /\ slider.second \in Int /\ DOMAIN slider = SliderFields
    BY DEF SliderInv, IsSlider
  <2>3. ASSUME NEW position \in Positions, SliderPress(position) PROVE Pair'
    <3> DEFINE p == Percentage(position)
               r == [slider EXCEPT !.inDrag = TRUE, !.tied = @ \/ Tied(p)]
               s == Placed(r, Nearer(p), p)
    <3>1. p \in Int
      <4>1. position \in Int BY SliderAssumption DEF Positions, Diff
      <4>2. p \in 0 .. Diff BY <4>1, PercentageIsInRange
      <4>3. QED BY <4>2, DiffIsNat
    <3>2. slider' = CalculateValue(s) BY <2>3 DEF SliderPress
    <3> HIDE DEF p
    <3>3. /\ DOMAIN r = SliderFields /\ r.first = slider.first /\ r.second = slider.second
          /\ r.value = slider.value
      BY <2>2 DEF SliderFields
    <3> HIDE DEF r
    <3>4. /\ DOMAIN s = SliderFields /\ s.value = slider.value
          /\ s.first \in Int /\ s.second \in Int
      BY <2>2, <3>1, <3>3 DEF Placed, SliderFields
    <3> HIDE DEF s
    <3>5. QED BY <2>1, <3>2, <3>4
  <2>4. ASSUME NEW position \in Positions, SliderMove(position) PROVE Pair'
    <3> DEFINE p == Percentage(position)
               r == Dragged(p)
               s == [r EXCEPT !.tied = FALSE]
    <3>1. p \in Int
      <4>1. position \in Int BY SliderAssumption DEF Positions, Diff
      <4>2. p \in 0 .. Diff BY <4>1, PercentageIsInRange
      <4>3. QED BY <4>2, DiffIsNat
    <3>2. slider' = CalculateValue(s) BY <2>4 DEF SliderMove
    <3> HIDE DEF p
    <3>3. /\ DOMAIN r = SliderFields /\ r.value = slider.value
          /\ r.first \in Int /\ r.second \in Int
      BY <2>2, <3>1 DEF Dragged, Placed, SliderFields
    <3> HIDE DEF r
    <3>4. /\ DOMAIN s = SliderFields /\ s.value = slider.value
          /\ s.first \in Int /\ s.second \in Int
      BY <3>3 DEF SliderFields
    <3> HIDE DEF s
    <3>5. QED BY <2>1, <3>2, <3>4
  <2>5. CASE SliderRelease
    <3> DEFINE s == [slider EXCEPT !.inDrag = FALSE, !.tip = @ /\ slider.over]
    <3>1. slider' = CalculateValue(s) BY <2>5 DEF SliderRelease
    <3>2. /\ DOMAIN s = SliderFields /\ s.value = slider.value
          /\ s.first \in Int /\ s.second \in Int
      BY <2>2 DEF SliderFields
    <3> HIDE DEF s
    <3>3. QED BY <2>1, <3>1, <3>2
  <2>6. CASE SliderEnter \/ SliderLeave
    BY <2>2, <2>6 DEF SliderEnter, SliderLeave, SliderFields
  <2>7. CASE UNCHANGED slider
    BY <2>7
  <2>8. QED BY <2>3, <2>4, <2>5, <2>6, <2>7, Zenon DEF SliderNext
<1>3. SliderInv /\ Pair => SliderTypeOK
  <2> SUFFICES ASSUME SliderInv, Pair PROVE SliderTypeOK
    OBVIOUS
  <2>1. /\ slider = [field \in SliderFields |-> slider[field]]
        /\ slider.range \in BOOLEAN /\ slider.inDrag \in BOOLEAN /\ slider.over \in BOOLEAN
        /\ slider.tip \in BOOLEAN /\ slider.tied \in BOOLEAN /\ slider.dragged \in {0, 1}
        /\ slider.first \in 0 .. Diff /\ slider.second \in 0 .. Diff
    BY DEF SliderInv, IsSlider, InRange
  <2>2. slider = [range |-> slider.range, first |-> slider.first, second |-> slider.second,
                  dragged |-> slider.dragged, inDrag |-> slider.inDrag, over |-> slider.over,
                  tip |-> slider.tip, value |-> slider.value, tied |-> slider.tied]
    BY <2>1 DEF SliderFields
  <2>3. QED BY <2>1, <2>2 DEF SliderTypeOK
<1>4. QED BY <1>1, <1>2, <1>3, SliderKeeps, PTL DEF SliderSpec

=============================================================================
