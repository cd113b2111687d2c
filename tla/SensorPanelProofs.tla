-------------------------- MODULE SensorPanelProofs --------------------------
(***************************************************************************)
(* The curve of the sparkline stays inside its plot, for every size of the *)
(* plot, every length of the window and every temperature; a search of the *)
(* sensors finds what was there, for every number of places; and what is   *)
(* shown is what was read, for every text and every number of digits.      *)
(***************************************************************************)
EXTENDS SensorPanel, NumbersProofs, TLAPS

LEMMA ProductLeq ==
    ASSUME NEW a \in Nat, NEW b \in Nat, NEW c \in Nat, b <= c
    PROVE  a * b <= a * c
  BY SMT

LEMMA DivLeq ==
    ASSUME NEW a \in Nat, NEW b \in Nat, NEW q \in Nat, b > 0, a <= b * q
    PROVE  a \div b <= q
  BY SMT

\* A share s of r of a length is within the length.
LEMMA ShareInside ==
    ASSUME NEW d \in Nat, NEW r \in Nat, r > 0, NEW s \in 0..r
    PROVE  CDiv(d * s, r) \in 0..d
  <1>1. d * s \in Nat /\ d * s <= r * d
    BY ProductLeq, SMT
  <1>2. (d * s) \div r \in Nat
    BY <1>1, DivBounds
  <1>3. (d * s) \div r <= d
    BY ONLY <1>1, DivLeq, d \in Nat, r \in Nat, r > 0
  <1> QED
    BY <1>1, <1>2, <1>3 DEF CDiv

LEMMA ShareInsideDown ==
    ASSUME NEW d \in Nat, NEW r \in Nat, r > 0, NEW s \in 0..r
    PROVE  CDiv(-(d * s), r) \in -d..0
  <1>1. d * s \in Nat /\ d * s <= r * d
    BY ProductLeq, SMT
  <1>2. (d * s) \div r \in Nat
    BY <1>1, DivBounds
  <1>3. (d * s) \div r <= d
    BY ONLY <1>1, DivLeq, d \in Nat, r \in Nat, r > 0
  <1>4. 0 \div r = 0
    BY ONLY DivBounds, DivLeq, r \in Nat, r > 0
  <1>5. CASE d * s = 0
    BY <1>4, <1>5 DEF CDiv
  <1>6. CASE d * s > 0
    <2>1. CDiv(-(d * s), r) = -((d * s) \div r)
      BY <1>1, <1>6 DEF CDiv
    <2> QED
      BY <2>1, <1>2, <1>3
  <1> QED
    BY <1>1, <1>5, <1>6

\* A line never leaves the range of its two ends.
LEMMA AlongInside ==
    ASSUME NEW lo \in Int, NEW hi \in Int, NEW from \in lo..hi, NEW to \in lo..hi,
           NEW steps \in Nat, steps > 0, NEW s \in 0..steps
    PROVE  Along(from, to, s, steps) \in lo..hi
  <1>1. CASE from <= to
    <2> DEFINE d == to - from
    <2>1. d \in Nat
      BY <1>1
    <2> HIDE DEF d
    <2>2. CDiv(d * s, steps) \in 0..d
      BY <2>1, ShareInside
    <2>3. Along(from, to, s, steps) = from + CDiv(d * s, steps)
      BY DEF Along, d
    <2>4. from + d = to
      BY DEF d
    <2> QED
      BY <2>1, <2>2, <2>3, <2>4
  <1>2. CASE to < from
    <2> DEFINE d == from - to
    <2>1. d \in Nat
      BY <1>2
    <2>2. (to - from) * s = -(d * s)
      BY SMT
    <2>3. Along(from, to, s, steps) = from + CDiv(-(d * s), steps)
      BY <2>2 DEF Along
    <2> HIDE DEF d
    <2>4. CDiv(-(d * s), steps) \in -d..0
      BY <2>1, ShareInsideDown
    <2>5. from - d = to
      BY DEF d
    <2> QED
      BY <2>1, <2>3, <2>4, <2>5
  <1> QED
    BY <1>1, <1>2

LEMMA CDivInt ==
    ASSUME NEW a \in Int, NEW b \in Nat, b > 0
    PROVE  CDiv(a, b) \in Int
  <1>1. CASE a >= 0
    BY <1>1, DivBounds DEF CDiv
  <1>2. CASE a < 0
    <2>1. -a \in Nat
      BY <1>2
    <2>2. (-a) \div b \in Nat
      BY <2>1, DivBounds
    <2> QED
      BY <1>2, <2>2 DEF CDiv
  <1> QED
    BY <1>1, <1>2

\* Widening around the middle keeps both ends, rounded as it is.
LEMMA Middle ==
    ASSUME NEW lo \in Int, NEW hi \in Int, lo <= hi, hi - lo < 40
    PROVE  /\ CDiv(hi + lo, 2) \in Int
           /\ CDiv(hi + lo, 2) - 20 <= lo
           /\ hi <= CDiv(hi + lo, 2) + 20
  BY SMT DEF CDiv

----------------------------------------------------------------------------
(* The extents cover the window with room between them.                    *)

Covers(h, low, high) ==
    /\ low \in Int /\ high \in Int
    /\ h # <<>> => high - low >= 40
    /\ \A n \in 1..Len(h) : h[n] \in low..high

Window ==
    /\ temp_hist \in Seq(Int) /\ Len(temp_hist) <= SPARK_N
    /\ Covers(temp_hist, temp_hist_min, temp_hist_max)

LEMMA ShiftedInWindow ==
    ASSUME NEW h \in Seq(Int), Len(h) <= SPARK_N, NEW v \in Int
    PROVE  Shifted(h, v) \in Seq(Int) /\ Len(Shifted(h, v)) <= SPARK_N
  <1>1. CASE Len(h) < SPARK_N
    BY <1>1, PlotAssumption DEF Shifted
  <1>2. CASE Len(h) = SPARK_N
    <2>1. h # <<>>
      BY <1>2, PlotAssumption
    <2>2. Tail(h) \in Seq(Int) /\ Len(Tail(h)) = Len(h) - 1
      BY <2>1
    <2> QED
      BY <1>2, <2>2, PlotAssumption DEF Shifted
  <1> QED
    BY <1>1, <1>2, PlotAssumption

LEMMA PushKeepsWindow ==
    ASSUME Window, NEW v \in Int, HistPush(v)
    PROVE  Window'
  <1>1. temp_hist' \in Seq(Int) /\ Len(temp_hist') <= SPARK_N
    BY ShiftedInWindow DEF Window, HistPush
  <1>2. PICK lo \in Values(temp_hist'), hi \in Values(temp_hist') :
          /\ Bounds(temp_hist', lo, hi)
          /\ IF hi - lo < 40
             THEN /\ temp_hist_min' = CDiv(hi + lo, 2) - 20
                  /\ temp_hist_max' = CDiv(hi + lo, 2) + 20
             ELSE temp_hist_min' = lo /\ temp_hist_max' = hi
    BY DEF HistPush
  <1>3. lo \in Int /\ hi \in Int
    BY <1>1 DEF Values
  <1>4. \A n \in 1..Len(temp_hist') : lo <= temp_hist'[n] /\ temp_hist'[n] <= hi
    BY <1>2 DEF Bounds, Values
  <1>5. lo <= hi
    BY <1>2 DEF Bounds
  <1>6. \A n \in 1..Len(temp_hist') : temp_hist'[n] \in Int
    BY <1>1
  <1>7. CASE hi - lo < 40
    <2>1. /\ CDiv(hi + lo, 2) \in Int
          /\ CDiv(hi + lo, 2) - 20 <= lo
          /\ hi <= CDiv(hi + lo, 2) + 20
      BY <1>3, <1>5, <1>7, Middle
    <2> DEFINE mid == CDiv(hi + lo, 2)
    <2>2. temp_hist_min' = mid - 20 /\ temp_hist_max' = mid + 20
      BY <1>2, <1>7
    <2> HIDE DEF mid
    <2>3. mid \in Int /\ mid - 20 <= lo /\ hi <= mid + 20
      BY <2>1 DEF mid
    <2>4. temp_hist_min' \in Int /\ temp_hist_max' \in Int /\ temp_hist_max' - temp_hist_min' >= 40
      BY ONLY <2>2, <2>3
    <2>5. \A n \in 1..Len(temp_hist') : temp_hist'[n] \in temp_hist_min'..temp_hist_max'
      BY ONLY <1>3, <1>4, <1>6, <2>2, <2>3
    <2> QED
      BY <1>1, <2>4, <2>5 DEF Window, Covers
  <1>8. CASE hi - lo >= 40
    <2>1. temp_hist_min' = lo /\ temp_hist_max' = hi
      BY <1>2, <1>3, <1>8
    <2>2. \A n \in 1..Len(temp_hist') : temp_hist'[n] \in temp_hist_min'..temp_hist_max'
      BY ONLY <1>3, <1>4, <1>6, <2>1
    <2> QED
      BY <1>1, <1>3, <1>8, <2>1, <2>2 DEF Window, Covers
  <1> QED
    BY <1>3, <1>7, <1>8

LEMMA CentiInt ==
    ASSUME NEW t \in Temps
    PROVE  Centi(t) \in Int
  <1>1. ParseInt(t) \in Int
    BY TextsAssumption, ParseInts
  <1> QED
    BY <1>1, CDivInt DEF Centi

LEMMA WindowInductive == Window /\ [Next]_vars => Window'
  <1> SUFFICES ASSUME Window, [Next]_vars PROVE Window'
    OBVIOUS
  <1>1. CASE UNCHANGED histVars
    BY <1>1 DEF histVars, Window, Covers
  <1>2. CASE Frame
    <2>1. PICK t \in Held(bme680_dir, Temps) :
            IF IsText(t) THEN HistPush(Centi(t)) ELSE UNCHANGED histVars
      BY <1>2 DEF Frame
    <2>2. CASE IsText(t)
      <3>1. t \in Temps
        BY <2>2 DEF Held, IsText
      <3> QED
        BY <2>1, <2>2, <3>1, CentiInt, PushKeepsWindow
    <2>3. CASE ~IsText(t)
      BY <2>1, <2>3, <1>1
    <2> QED
      BY <2>2, <2>3
  <1> QED
    BY <1>1, <1>2 DEF Next, vars, Appears, ScanBegins, ScansFirst, ScansAgain, ScansSecond, ScanEnds, ReadsScale

----------------------------------------------------------------------------
(* What the extents mean for the plot.                                     *)

LEMMA PointXInside ==
    ASSUME NEW n \in 1..SPARK_N
    PROVE  PointX(n) \in 2..(SPARK_W - 2)
  <1> DEFINE d == SPARK_W - 4  r == SPARK_N - 1  s == n - 1
  <1>1. d \in Nat /\ r \in Nat /\ r > 0 /\ s \in 0..r
    BY PlotAssumption
  <1>2. s * d = d * s
    BY <1>1
  <1>3. PointX(n) = CDiv(d * s, r) + 2
    BY <1>2 DEF PointX
  <1>4. d + 2 = SPARK_W - 2
    BY PlotAssumption
  <1> HIDE DEF d, r, s
  <1>5. CDiv(d * s, r) \in 0..d
    BY <1>1, ShareInside
  <1> QED
    BY ONLY <1>1, <1>3, <1>4, <1>5

LEMMA PointYInside ==
    ASSUME Window, NEW n \in 1..Len(temp_hist)
    PROVE  PointY(temp_hist[n]) \in 4..(SPARK_H - 4)
  <1> DEFINE d == SPARK_H - 8  r == temp_hist_max - temp_hist_min  s == temp_hist[n] - temp_hist_min
  <1>1. temp_hist_min \in Int /\ temp_hist_max \in Int /\ r >= 40
    BY DEF Window, Covers
  <1>2. temp_hist[n] \in temp_hist_min..temp_hist_max
    BY DEF Window, Covers
  <1>3. d \in Nat /\ r \in Nat /\ r > 0 /\ s \in 0..r
    BY <1>1, <1>2, PlotAssumption
  <1>4. PlotRange = r
    BY <1>1 DEF PlotRange
  <1>5. s * d = d * s
    BY <1>3
  <1>6. PointY(temp_hist[n]) = SPARK_H - 4 - CDiv(d * s, r)
    BY <1>4, <1>5 DEF PointY
  <1>7. SPARK_H - 4 - d = 4 /\ SPARK_H \in Nat
    BY PlotAssumption
  <1> HIDE DEF d, r, s
  <1>8. CDiv(d * s, r) \in 0..d
    BY <1>3, ShareInside
  <1> QED
    BY ONLY <1>3, <1>6, <1>7, <1>8

LEMMA StepsPositive ==
    ASSUME NEW dx \in Int, NEW dy \in Int
    PROVE  LineSteps(dx, dy) \in Nat /\ LineSteps(dx, dy) > 0
  BY DEF LineSteps, Magnitude

LEMMA LineInside ==
    ASSUME NEW x0 \in 2..(SPARK_W - 2), NEW x1 \in 2..(SPARK_W - 2),
           NEW y0 \in 4..(SPARK_H - 4), NEW y1 \in 4..(SPARK_H - 4),
           NEW s \in 0..LineSteps(x1 - x0, y1 - y0)
    PROVE  LET steps == LineSteps(x1 - x0, y1 - y0)
           IN  InPlot(Along(x0, x1, s, steps), Along(y0, y1, s, steps))
  <1> DEFINE steps == LineSteps(x1 - x0, y1 - y0)
  <1>1. SPARK_W \in Nat /\ SPARK_H \in Nat
    BY PlotAssumption
  <1>2. x1 - x0 \in Int /\ y1 - y0 \in Int
    BY <1>1
  <1>3. steps \in Nat /\ steps > 0
    BY <1>2, StepsPositive
  <1>4. s \in 0..steps
    OBVIOUS
  <1> HIDE DEF steps
  <1>5. 2 \in Int /\ SPARK_W - 2 \in Int /\ 4 \in Int /\ SPARK_H - 4 \in Int
    BY <1>1
  <1>6. Along(x0, x1, s, steps) \in 2..(SPARK_W - 2)
    BY <1>3, <1>4, <1>5, AlongInside
  <1>7. Along(y0, y1, s, steps) \in 4..(SPARK_H - 4)
    BY <1>3, <1>4, <1>5, AlongInside
  <1>8. InPlot(Along(x0, x1, s, steps), Along(y0, y1, s, steps))
    BY <1>1, <1>6, <1>7 DEF InPlot
  <1> QED
    BY <1>8 DEF steps

LEMMA WindowInPlot == Window => PlotInside
  <1> SUFFICES ASSUME Window, NEW n \in 2..Len(temp_hist)
               PROVE  /\ PointX(n - 1) \in 2..(SPARK_W - 2)
                      /\ PointX(n) \in 2..(SPARK_W - 2)
                      /\ PointY(temp_hist[n - 1]) \in 4..(SPARK_H - 4)
                      /\ PointY(temp_hist[n]) \in 4..(SPARK_H - 4)
    BY LineInside DEF PlotInside
  <1>1. Len(temp_hist) \in Nat /\ Len(temp_hist) <= SPARK_N
    BY DEF Window
  <1>2. /\ n \in 1..SPARK_N /\ n - 1 \in 1..SPARK_N
        /\ n \in 1..Len(temp_hist) /\ n - 1 \in 1..Len(temp_hist)
    BY <1>1, PlotAssumption
  <1>3. PointX(n - 1) \in 2..(SPARK_W - 2) /\ PointX(n) \in 2..(SPARK_W - 2)
    BY <1>2, PointXInside
  <1>4. PointY(temp_hist[n - 1]) \in 4..(SPARK_H - 4) /\ PointY(temp_hist[n]) \in 4..(SPARK_H - 4)
    BY <1>2, PointYInside
  <1> QED
    BY <1>3, <1>4

\* Whatever the sensors say and however the plot is sized, the curve is drawn
\* inside it (sensorpanel.c:401-451).
THEOREM CurveInside == Spec => []PlotInside
  <1>1. Init => Window
    BY PlotAssumption DEF Init, Window, Covers
  <1> QED
    BY <1>1, WindowInductive, WindowInPlot, PTL DEF Spec

----------------------------------------------------------------------------
(* The search.  What a pass has still to find lies ahead of it.            *)

Ahead(name) == \E d \in 0..(Slots - 1) : i <= d /\ iio[d] = name

Places ==
    /\ iio \in [0..(Slots - 1) -> Sensors \cup {"other", "none"}]
    /\ there \subseteq Sensors
    /\ \A name \in there : \E d \in 0..(Slots - 1) : iio[d] = name
    /\ bme680_dir \in Dirs /\ bmi270_dir \in Dirs

Progress ==
    /\ pc = "first pass" =>
          /\ i \in 0..Slots
          /\ "bmi270" \in there => bmi270_dir # Nowhere \/ Ahead("bmi270")
          /\ bme680_dir # Nowhere => iio[bme680_dir] = "bme680"
    /\ pc = "second pass" =>
          /\ i \in 0..Slots
          /\ bme680_dir = Nowhere
          /\ "bmi270" \in there => bmi270_dir # Nowhere
          /\ "bme680" \in there => Ahead("bme680")
    /\ pc \in {"search", "first pass", "second pass", "scanned", "scale", "loop"}

SearchInv == Places /\ Progress /\ ScanFinds

LEMMA DirsHold ==
    ASSUME NEW d \in Dirs, d # Nowhere
    PROVE  d \in 0..(Slots - 1)
  BY DEF Dirs

LEMMA SlotIsDir ==
    ASSUME NEW d \in 0..(Slots - 1)
    PROVE  d \in Dirs /\ d # Nowhere
  BY SlotsAssumption DEF Dirs, Nowhere

LEMMA PlacesAhead ==
    ASSUME NEW name, i' = 0, \E d \in 0..(Slots - 1) : iio'[d] = name
    PROVE  Ahead(name)'
  BY DEF Ahead

LEMMA NothingAhead ==
    ASSUME i \in Nat, Slots \in Nat, ~(i < Slots), NEW name
    PROVE  ~Ahead(name)
  BY DEF Ahead

LEMMA SearchInductive == SearchInv /\ [Next]_vars => SearchInv'
  <1> SUFFICES ASSUME SearchInv, [Next]_vars PROVE SearchInv'
    OBVIOUS
  <1>0. Slots \in Nat /\ 0 \in 0..Slots
    BY SlotsAssumption
  <1>1. CASE Appears
    <2>1. PICK d \in DOMAIN iio, name \in Sensors \cup {"other"} :
            iio[d] = "none" /\ iio' = [iio EXCEPT ![d] = name]
      BY <1>1 DEF Appears
    <2>2. UNCHANGED <<pc, scanVars>>
      BY <1>1 DEF Appears
    <2>3. /\ iio' \in [0..(Slots - 1) -> Sensors \cup {"other", "none"}]
          /\ \A e \in 0..(Slots - 1) : iio[e] # "none" => iio'[e] = iio[e]
      BY <2>1 DEF SearchInv, Places
    <2>4. Places'
      <3>1. \A n \in there : n # "none"
        BY DEF SearchInv, Places, Sensors
      <3> QED
        BY <2>2, <2>3, <3>1 DEF SearchInv, Places, scanVars
    <2>5. Progress'
      BY <2>2, <2>3, <1>0, DirsHold DEF SearchInv, Places, Progress, Ahead, scanVars
    <2>6. ScanFinds'
      BY <2>2, <2>3, <1>0, DirsHold DEF SearchInv, Places, ScanFinds, scanVars
    <2> QED
      BY <2>4, <2>5, <2>6 DEF SearchInv
  <1>2. CASE ScanBegins
    <2>1. Places'
      BY <1>2 DEF SearchInv, Places, ScanBegins, Present, Dirs
    <2>2. Progress'
      <3>1. "bmi270" \in there' => Ahead("bmi270")'
        BY <1>2, <2>1, PlacesAhead DEF ScanBegins, Places
      <3>2. i' \in 0..Slots
        <4>1. i' = 0
          BY <1>2 DEF ScanBegins
        <4> QED
          BY ONLY <1>0, <4>1
      <3>3. pc' = "first pass" /\ bme680_dir' = Nowhere
        BY <1>2 DEF ScanBegins
      <3> QED
        BY ONLY <3>1, <3>2, <3>3 DEF Progress
    <2>3. ScanFinds'
      BY <1>2 DEF ScanBegins, ScanFinds
    <2> QED
      BY <2>1, <2>2, <2>3 DEF SearchInv
  <1>3. CASE ScansFirst
    <2>0. i \in 0..Slots /\ i < Slots /\ i' = i + 1
      BY <1>3 DEF ScansFirst, SearchInv, Progress
    <2>1. i \in 0..(Slots - 1) /\ i + 1 \in 0..Slots /\ i' = i + 1
      BY ONLY <1>0, <2>0
    <2>2. Places'
      BY <1>3, <2>1, SlotIsDir DEF ScansFirst, SearchInv, Places, Dirs
    <2>3. "bmi270" \in there' => bmi270_dir' # Nowhere \/ Ahead("bmi270")'
      <3>1. CASE bmi270_dir # Nowhere
        BY <1>3, <2>1, <3>1, SlotIsDir DEF ScansFirst
      <3>2. CASE iio[i] = "bmi270"
        BY <1>3, <2>1, <3>2, SlotIsDir DEF ScansFirst
      <3>3. CASE bmi270_dir = Nowhere /\ iio[i] # "bmi270"
        <4>1. "bmi270" \in there => Ahead("bmi270")
          BY <1>3, <3>3 DEF ScansFirst, SearchInv, Progress
        <4>2. ASSUME NEW d \in 0..(Slots - 1), i <= d, iio[d] = "bmi270"
              PROVE  i + 1 <= d
          BY <2>1, <3>3, <4>2
        <4> QED
          BY <1>3, <2>1, <4>1, <4>2 DEF ScansFirst, Ahead
      <3> QED
        BY <3>1, <3>2, <3>3
    <2>4. Progress'
      BY <1>3, <2>1, <2>3 DEF ScansFirst, Progress
    <2>5. ScanFinds'
      BY <1>3, <2>1, SlotIsDir DEF ScansFirst, SearchInv, ScanFinds
    <2> QED
      BY <2>2, <2>4, <2>5 DEF SearchInv
  <1>4. CASE ScansAgain
    <2>1. Places'
      BY <1>4 DEF ScansAgain, SearchInv, Places
    <2>2. "bmi270" \in there => bmi270_dir # Nowhere
      <3>1. i = Slots
        BY <1>4 DEF ScansAgain
      <3>2. pc = "first pass"
        BY <1>4 DEF ScansAgain
      <3>3. ~Ahead("bmi270")
        <4>1. i \in Nat /\ ~(i < Slots)
          BY ONLY <1>0, <3>1
        <4> QED
          BY <1>0, <4>1, NothingAhead
      <3> QED
        BY <3>2, <3>3 DEF SearchInv, Progress
    <2>3. "bme680" \in there => Ahead("bme680")'
      BY <1>4, <2>1, PlacesAhead DEF ScansAgain, Places
    <2>4. Progress'
      <3>1. i' \in 0..Slots
        <4>1. i' = 0
          BY <1>4 DEF ScansAgain
        <4> QED
          BY ONLY <1>0, <4>1
      <3>2. "bmi270" \in there' => bmi270_dir' # Nowhere
        BY <1>4, <2>2 DEF ScansAgain
      <3>3. CASE bme680_dir = Nowhere
        <4>1. pc' = "second pass" /\ bme680_dir' = Nowhere /\ there' = there
          BY <1>4, <3>3 DEF ScansAgain
        <4> QED
          BY ONLY <2>3, <3>1, <3>2, <4>1 DEF Progress
      <3>4. CASE bme680_dir # Nowhere
        <4>1. pc' = "scanned"
          BY <1>4, <3>4 DEF ScansAgain
        <4> QED
          BY ONLY <4>1 DEF Progress
      <3> QED
        BY <3>3, <3>4
    <2>5. ScanFinds'
      BY <1>4, <2>2 DEF ScansAgain, SearchInv, Progress, ScanFinds
    <2> QED
      BY <2>1, <2>4, <2>5 DEF SearchInv
  <1>5. CASE ScansSecond
    <2>1. CASE i < Slots
      <3>0. i \in 0..Slots /\ i' = i + 1
        BY <1>5, <2>1 DEF ScansSecond, SearchInv, Progress
      <3>1. i \in 0..(Slots - 1) /\ i + 1 \in 0..Slots /\ i' = i + 1
        BY ONLY <1>0, <2>1, <3>0
      <3>2. Places'
        BY <1>5, <2>1, <3>1, SlotIsDir DEF ScansSecond, SearchInv, Places, Dirs
      <3>3. CASE iio[i] = "bme680"
        <4>1. pc' = "scanned" /\ bme680_dir' = i
          BY <1>5, <2>1, <3>3 DEF ScansSecond
        <4>2. Progress'
          BY <4>1 DEF Progress
        <4>3. ScanFinds'
          BY <1>5, <3>1, <3>3, <4>1, SlotIsDir DEF ScansSecond, SearchInv, Progress, ScanFinds
        <4> QED
          BY <3>2, <4>2, <4>3 DEF SearchInv
      <3>4. CASE iio[i] # "bme680"
        <4>1. bme680_dir' = Nowhere /\ pc' = "second pass"
          BY <1>5, <2>1, <3>4 DEF ScansSecond
        <4>2. ASSUME NEW d \in 0..(Slots - 1), i <= d, iio[d] = "bme680"
              PROVE  i + 1 <= d
          BY <3>1, <3>4, <4>2
        <4>3. "bme680" \in there' => Ahead("bme680")'
          BY <1>5, <3>1, <4>2 DEF ScansSecond, SearchInv, Progress, Ahead
        <4>4. Progress'
          BY <1>5, <3>1, <4>1, <4>3 DEF ScansSecond, SearchInv, Progress
        <4>5. ScanFinds'
          BY <1>5, <4>1 DEF ScansSecond, SearchInv, ScanFinds
        <4> QED
          BY <3>2, <4>4, <4>5 DEF SearchInv
      <3> QED
        BY <3>3, <3>4
    <2>2. CASE ~(i < Slots)
      <3>1. ~Ahead("bme680")
        <4>1. i \in 0..Slots
          BY <1>5 DEF ScansSecond, SearchInv, Progress
        <4> QED
          BY <1>0, <2>2, <4>1, NothingAhead
      <3>2. Places'
        BY <1>5, <2>2 DEF ScansSecond, SearchInv, Places
      <3>3. Progress'
        BY <1>5, <2>2 DEF ScansSecond, Progress
      <3>4. ScanFinds'
        BY <1>5, <2>2, <3>1 DEF ScansSecond, SearchInv, Progress, ScanFinds
      <3> QED
        BY <3>2, <3>3, <3>4 DEF SearchInv
    <2> QED
      BY <2>1, <2>2
  <1>6. CASE ScanEnds
    <2>1. Places' /\ Progress'
      BY <1>6 DEF ScanEnds, SearchInv, Places, Progress
    <2>2. ScanFinds'
      BY <1>6 DEF ScanEnds, SearchInv, ScanFinds
    <2> QED
      BY <2>1, <2>2 DEF SearchInv
  <1>7. CASE ReadsScale
    <2>1. Places' /\ Progress'
      BY <1>7 DEF ReadsScale, SearchInv, Places, Progress
    <2>2. ScanFinds'
      BY <1>7 DEF ReadsScale, SearchInv, ScanFinds
    <2> QED
      BY <2>1, <2>2 DEF SearchInv
  <1>8. CASE Frame \/ UNCHANGED vars
    <2>1. UNCHANGED <<iio, pc, scanVars>>
      BY <1>8 DEF Frame, vars
    <2> QED
      BY <2>1 DEF SearchInv, Places, Progress, ScanFinds, Ahead, scanVars
  <1> QED
    BY <1>1, <1>2, <1>3, <1>4, <1>5, <1>6, <1>7, <1>8 DEF Next

\* A search finds every sensor that was there when it began and mistakes none,
\* for every number of places and order of arrivals (sensorpanel.c:326-379).
THEOREM SearchComplete == Spec => []ScanFinds
  <1>1. Init => SearchInv
    BY SlotsAssumption DEF Init, SearchInv, Places, Progress, ScanFinds, Dirs, Sensors
  <1>2. SearchInv => ScanFinds
    BY DEF SearchInv
  <1> QED
    BY <1>1, <1>2, SearchInductive, PTL DEF Spec

----------------------------------------------------------------------------
(* What is shown.                                                          *)

LEMMA TextHeld ==
    ASSUME NEW x \in Texts, IsText(x)
    PROVE  x \in TextForm
  BY TextsAssumption DEF Texts, IsText

LEMMA FormattedShows ==
    ASSUME NEW value \in Int, NEW k \in 1..3, NEW num, NEW den, CutOf(num, den, value)
    PROVE  Shows(FmtFixed(value, k), k, num, den)
  <1> DEFINE text == FmtFixed(value, k)
  <1>1. Len(text.frac) = k
    BY FormatReads
  <1>2. Signed(text.neg, ParseFixed([text EXCEPT !.neg = FALSE], k)) = value
    BY FormatReads
  <1> HIDE DEF text
  <1>3. Shows(text, k, num, den)
    BY <1>1, <1>2 DEF Shows, CutOf
  <1> QED
    BY <1>3 DEF text

LEMMA ZeroCut == ASSUME NEW den \in Nat \ {0} PROVE CutOf(0, den, 0)
  BY DEF CutOf, Magnitude

LEMMA HumidityShown ==
    ASSUME NEW x \in Texts
    PROVE  Shows(FmtFixed(Or0(x, ParseFixed(x, 2)), 2), 2, Or0(x, ParseFixed(x, 4)), 100)
  <1>1. CASE IsText(x)
    <2>1. x \in TextForm
      BY <1>1, TextHeld
    <2>2. CutOf(ParseFixed(x, 2 + 2), 100, ParseFixed(x, 2)) /\ ParseFixed(x, 2) \in Int
      BY <2>1, FewerDigits, ParseInts
    <2>3. 2 + 2 = 4 /\ 2 \in 1..3
      OBVIOUS
    <2>4. Or0(x, ParseFixed(x, 2)) = ParseFixed(x, 2) /\ Or0(x, ParseFixed(x, 4)) = ParseFixed(x, 4)
      BY <1>1 DEF Or0
    <2> QED
      BY <2>2, <2>3, <2>4, FormattedShows
  <1>2. CASE ~IsText(x)
    <2>1. Or0(x, ParseFixed(x, 2)) = 0 /\ Or0(x, ParseFixed(x, 4)) = 0
      BY <1>2 DEF Or0
    <2>2. 2 \in 1..3 /\ 0 \in Int /\ CutOf(0, 100, 0)
      BY ZeroCut
    <2> QED
      BY <2>1, <2>2, FormattedShows
  <1> QED
    BY <1>1, <1>2

LEMMA PressureShown ==
    ASSUME NEW x \in Texts
    PROVE  Shows(FmtFixed(Or0(x, ParseFixed(x, 1)), 1), 1, Or0(x, ParseFixed(x, 4)), 1000)
  <1>1. CASE IsText(x)
    <2>1. x \in TextForm
      BY <1>1, TextHeld
    <2>2. CutOf(ParseFixed(x, 1 + 3), 1000, ParseFixed(x, 1)) /\ ParseFixed(x, 1) \in Int
      BY <2>1, FewerDigits, ParseInts
    <2>3. 1 + 3 = 4 /\ 1 \in 1..3
      OBVIOUS
    <2>4. Or0(x, ParseFixed(x, 1)) = ParseFixed(x, 1) /\ Or0(x, ParseFixed(x, 4)) = ParseFixed(x, 4)
      BY <1>1 DEF Or0
    <2> QED
      BY <2>2, <2>3, <2>4, FormattedShows
  <1>2. CASE ~IsText(x)
    <2>1. Or0(x, ParseFixed(x, 1)) = 0 /\ Or0(x, ParseFixed(x, 4)) = 0
      BY <1>2 DEF Or0
    <2>2. 1 \in 1..3 /\ 0 \in Int /\ CutOf(0, 1000, 0)
      BY ZeroCut
    <2> QED
      BY <2>1, <2>2, FormattedShows
  <1> QED
    BY <1>1, <1>2

LEMMA TemperatureShown ==
    ASSUME NEW x \in Texts, IsText(x)
    PROVE  Shows(FmtFixed(Centi(x), 2), 2, ParseInt(x), 10)
  <1>1. ParseInt(x) \in Int /\ 10 \in Nat \ {0} /\ 2 \in 1..3
    BY TextHeld, ParseInts
  <1>2. Centi(x) \in Int /\ CutOf(ParseInt(x), 10, Centi(x))
    BY <1>1, CDivCuts DEF Centi
  <1> QED
    BY <1>1, <1>2, FormattedShows

LEMMA AccelerationShown ==
    ASSUME NEW x \in Texts, accel_scale_micro \in Nat \ {0}
    PROVE  Shows(FmtFixed(Mg(Or0(x, ParseInt(x))), 3), 3, Or0(x, ParseInt(x)) * accel_scale_micro, 9807)
  <1>1. Or0(x, ParseInt(x)) \in Int
    <2>1. CASE IsText(x)
      BY <2>1, TextHeld, ParseInts DEF Or0
    <2>2. CASE ~IsText(x)
      BY <2>2 DEF Or0
    <2> QED
      BY <2>1, <2>2
  <1>2. PICK a : a = Or0(x, ParseInt(x)) * accel_scale_micro
    OBVIOUS
  <1>3. a \in Int /\ 9807 \in Nat \ {0} /\ 3 \in 1..3
    BY <1>1, <1>2
  <1>4. CDiv(a, 9807) \in Int /\ CutOf(a, 9807, CDiv(a, 9807))
    BY <1>3, CDivCuts
  <1>5. Shows(FmtFixed(CDiv(a, 9807), 3), 3, a, 9807)
    BY <1>3, <1>4, FormattedShows
  <1> QED
    BY <1>2, <1>5 DEF Mg

LEMMA ItemsSay ==
    /\ \A x : Shows(x, 2, ParseInt(reading.t), 10) => Says(<<"t", x>>)
    /\ \A x : Shows(x, 2, Or0(reading.rh, ParseFixed(reading.rh, 4)), 100) => Says(<<"rh", x>>)
    /\ \A x : Shows(x, 1, Or0(reading.p, ParseFixed(reading.p, 4)), 1000) => Says(<<"p", x>>)
    /\ \A axis \in Axes : \A x :
          Shows(x, 3, Or0(reading.acc[axis], ParseInt(reading.acc[axis])) * accel_scale_micro, 9807)
              => Says(<<axis, x>>)
    /\ \A x : ~IsText(reading.t) => Says(<<"BME680", x>>)
    /\ \A x : ~IsText(reading.acc["ax"]) => Says(<<"BMI270", x>>)
  BY DEF Says, Axes

Readings == [t : Texts, rh : Texts, p : Texts, acc : [Axes -> Texts]]

LEMMA DrawnSays ==
    ASSUME reading \in Readings, accel_scale_micro \in Nat \ {0},
           NEW item \in Drawn(reading)
    PROVE  Says(item)
  <1>1. reading.t \in Texts /\ reading.rh \in Texts /\ reading.p \in Texts
        /\ \A axis \in Axes : reading.acc[axis] \in Texts
    BY DEF Readings
  <1>2. CASE item = <<"t", FmtFixed(Centi(reading.t), 2)>> /\ IsText(reading.t)
    <2>1. Shows(FmtFixed(Centi(reading.t), 2), 2, ParseInt(reading.t), 10)
      BY <1>1, <1>2, TemperatureShown
    <2>2. Says(<<"t", FmtFixed(Centi(reading.t), 2)>>)
      BY ONLY <2>1, ItemsSay
    <2> QED
      BY <1>2, <2>2, Zenon
  <1>3. CASE item = <<"rh", FmtFixed(Or0(reading.rh, ParseFixed(reading.rh, 2)), 2)>>
    <2>1. Shows(FmtFixed(Or0(reading.rh, ParseFixed(reading.rh, 2)), 2), 2, Or0(reading.rh, ParseFixed(reading.rh, 4)), 100)
      BY <1>1, <1>3, HumidityShown
    <2>2. Says(<<"rh", FmtFixed(Or0(reading.rh, ParseFixed(reading.rh, 2)), 2)>>)
      BY ONLY <2>1, ItemsSay
    <2> QED
      BY <1>3, <2>2, Zenon
  <1>4. CASE item = <<"p", FmtFixed(Or0(reading.p, ParseFixed(reading.p, 1)), 1)>>
    <2>1. Shows(FmtFixed(Or0(reading.p, ParseFixed(reading.p, 1)), 1), 1, Or0(reading.p, ParseFixed(reading.p, 4)), 1000)
      BY <1>1, <1>4, PressureShown
    <2>2. Says(<<"p", FmtFixed(Or0(reading.p, ParseFixed(reading.p, 1)), 1)>>)
      BY ONLY <2>1, ItemsSay
    <2> QED
      BY <1>4, <2>2, Zenon
  <1>5. ASSUME NEW axis \in Axes,
               item = <<axis, FmtFixed(Mg(Or0(reading.acc[axis], ParseInt(reading.acc[axis]))), 3)>>
        PROVE  Says(item)
    <2>1. Shows(FmtFixed(Mg(Or0(reading.acc[axis], ParseInt(reading.acc[axis]))), 3), 3,
                Or0(reading.acc[axis], ParseInt(reading.acc[axis])) * accel_scale_micro, 9807)
      BY <1>1, AccelerationShown
    <2>2. Says(<<axis, FmtFixed(Mg(Or0(reading.acc[axis], ParseInt(reading.acc[axis]))), 3)>>)
      BY ONLY axis \in Axes, <2>1, ItemsSay
    <2> QED
      BY <1>5, <2>2, Zenon
  <1>6. CASE item = <<"BME680", NoText>> /\ ~IsText(reading.t)
    <2>1. Says(<<"BME680", NoText>>)
      BY ONLY <1>6, ItemsSay
    <2> QED
      BY <1>6, <2>1, Zenon
  <1>7. CASE item = <<"BMI270", NoText>> /\ ~IsText(reading.acc["ax"])
    <2>1. Says(<<"BMI270", NoText>>)
      BY ONLY <1>7, ItemsSay
    <2> QED
      BY <1>7, <2>1, Zenon
  <1> QED
    BY <1>2, <1>3, <1>4, <1>5, <1>6, <1>7 DEF Drawn

\* Nothing is shown before the loop, and then what the last frame read.
Panel ==
    /\ reading \in Readings
    /\ accel_scale_micro \in Nat \ {0}
    /\ pc # "loop" => shadow = {}
    /\ shadow = {} \/ shadow = Drawn(reading)

LEMMA PanelShows == Panel => ShownTrue
  <1> SUFFICES ASSUME Panel, NEW item \in shadow PROVE Says(item)
    BY DEF ShownTrue
  <1> QED
    BY DrawnSays DEF Panel

LEMMA ScaleNatural ==
    ASSUME NEW text \in TextForm
    PROVE  (LET micro == CDiv(ParseFixed(text, 9), 1000) IN IF micro < 1 THEN 1 ELSE micro) \in Nat \ {0}
  <1>1. PICK n : n = ParseFixed(text, 9)
    OBVIOUS
  <1>2. n \in Int
    BY <1>1, ParseInts
  <1>3. CDiv(n, 1000) \in Int
    BY <1>2, CDivInt
  <1> QED
    BY <1>1, <1>3

LEMMA FrameReads ==
    ASSUME Frame
    PROVE  reading' \in Readings /\ shadow' = Drawn(reading)'
  <1>1. PICK t \in Held(bme680_dir, Temps), rh \in Held(bme680_dir, Hums),
             p \in Held(bme680_dir, Press), acc \in [Axes -> Held(bmi270_dir, Raws)] :
          reading' = [t |-> t, rh |-> rh, p |-> p, acc |-> acc] /\ RenderFrame(reading')
    BY DEF Frame
  <1>2. t \in Texts /\ rh \in Texts /\ p \in Texts /\ acc \in [Axes -> Texts]
    BY DEF Held, Texts
  <1>3. reading' \in Readings
    BY <1>1, <1>2 DEF Readings
  <1>4. accel_scale_micro' = accel_scale_micro
    BY DEF Frame
  <1>5. shadow' = Drawn(reading)'
    BY <1>1, <1>4 DEF RenderFrame, Drawn, Mg
  <1> QED
    BY <1>3, <1>5

LEMMA PanelInductive == Panel /\ [Next]_vars => Panel'
  <1> SUFFICES ASSUME Panel, [Next]_vars PROVE Panel'
    OBVIOUS
  <1>1. CASE Frame
    <2>1. pc' = "loop" /\ accel_scale_micro' = accel_scale_micro
      BY <1>1 DEF Frame
    <2> QED
      BY <1>1, <2>1, FrameReads DEF Panel, Readings, Texts
  <1>2. CASE ReadsScale
    <2>1. pc' = "loop" /\ pc # "loop" /\ UNCHANGED <<reading, shadow>>
      BY <1>2 DEF ReadsScale
    <2>2. accel_scale_micro' \in Nat \ {0}
      <3>1. PICK text \in Scales \cup {NoText} :
              accel_scale_micro' =
                  IF bmi270_dir # Nowhere /\ IsText(text)
                  THEN LET micro == CDiv(ParseFixed(text, 9), 1000)
                       IN  IF micro < 1 THEN 1 ELSE micro
                  ELSE accel_scale_micro
        BY <1>2 DEF ReadsScale
      <3>2. CASE bmi270_dir # Nowhere /\ IsText(text)
        <4>1. text \in TextForm
          BY <3>2, TextsAssumption DEF IsText
        <4> QED
          BY <3>1, <3>2, <4>1, ScaleNatural
      <3>3. CASE ~(bmi270_dir # Nowhere /\ IsText(text))
        BY <3>1, <3>3 DEF Panel
      <3> QED
        BY <3>2, <3>3
    <2> QED
      BY <2>1, <2>2 DEF Panel, Readings, Texts
  <1>3. CASE ScanBegins \/ ScansFirst \/ ScansAgain \/ ScansSecond \/ ScanEnds
    <2>1. pc # "loop" /\ UNCHANGED <<accel_scale_micro, reading, shadow>>
      BY <1>3 DEF ScanBegins, ScansFirst, ScansAgain, ScansSecond, ScanEnds
    <2> QED
      BY <2>1 DEF Panel, Readings, Texts
  <1>4. CASE Appears \/ UNCHANGED vars
    <2>1. UNCHANGED <<pc, accel_scale_micro, reading, shadow>>
      BY <1>4 DEF Appears, vars
    <2> QED
      BY <2>1 DEF Panel, Readings, Texts, Drawn, Mg
  <1> QED
    BY <1>1, <1>2, <1>3, <1>4 DEF Next

LEMMA PanelInit == Init => Panel
  BY DEF Init, Panel, Readings, Texts, NoReading

\* Whatever the attributes hold, what the panel shows is what they said in this very
\* frame, cut towards zero and with its sign (sensorpanel.c:260-324, 462-540, 620-680).
THEOREM ShownSafe == Spec => []ShownTrue
  BY PanelInit, PanelInductive, PanelShows, PTL DEF Spec

----------------------------------------------------------------------------
(* Types.                                                                  *)

Typed ==
    /\ SearchInv /\ Window /\ Panel
    /\ i \in 0..Slots /\ attempts \in 0..Attempts

LEMMA TypedInductive == Typed /\ [Next]_vars => Typed'
  <1> SUFFICES ASSUME Typed, [Next]_vars PROVE i' \in 0..Slots /\ attempts' \in 0..Attempts
    BY SearchInductive, WindowInductive, PanelInductive DEF Typed
  <1>1. Slots \in Nat /\ Attempts \in Nat /\ i \in 0..Slots /\ attempts \in 0..Attempts
    BY SlotsAssumption DEF Typed
  <1>2. CASE ScanBegins
    <2>1. i' = 0 /\ attempts > 0 /\ attempts' = attempts - 1
      BY <1>2 DEF ScanBegins
    <2> QED
      BY ONLY <1>1, <2>1
  <1>3. CASE ScansFirst \/ ScansSecond
    <2>1. (i < Slots /\ i' = i + 1) \/ i' = i
      BY <1>3 DEF ScansFirst, ScansSecond
    <2>2. attempts' = attempts
      BY <1>3 DEF ScansFirst, ScansSecond
    <2> QED
      BY ONLY <1>1, <2>1, <2>2
  <1>4. CASE ScansAgain \/ ScanEnds \/ ReadsScale
    <2>1. i' = 0 /\ (attempts' = attempts \/ attempts' = 0)
      BY <1>4 DEF ScansAgain, ScanEnds, ReadsScale
    <2> QED
      BY ONLY <1>1, <2>1
  <1>5. CASE Appears \/ Frame \/ UNCHANGED vars
    <2>1. i' = i /\ attempts' = attempts
      BY <1>5 DEF Appears, Frame, vars, scanVars
    <2> QED
      BY ONLY <1>1, <2>1
  <1> QED
    BY <1>2, <1>3, <1>4, <1>5 DEF Next

\* The panel's state stays within its types: a directory that was found, a scale that
\* is not zero, a window of its length (sensorpanel.c:326-421, 603-680).
THEOREM TypeCorrect == Spec => []TypeOK
  <1>1. Init => Typed
    <2> SUFFICES ASSUME Init PROVE Typed
      OBVIOUS
    <2>1. SearchInv
      BY SlotsAssumption DEF Init, SearchInv, Places, Progress, ScanFinds, Dirs, Sensors
    <2>2. Window
      BY PlotAssumption DEF Init, Window, Covers
    <2>3. i = 0 /\ attempts = Attempts
      BY DEF Init
    <2>4. i \in 0..Slots /\ attempts \in 0..Attempts
      BY ONLY <2>3, SlotsAssumption
    <2> QED
      BY <2>1, <2>2, <2>4, PanelInit DEF Typed
  <1>2. Typed => TypeOK
    <2> SUFFICES ASSUME Typed PROVE TypeOK
      OBVIOUS
    <2>1. pc \in {"search", "first pass", "second pass", "scanned", "scale", "loop"}
      BY DEF Typed, SearchInv, Progress
    <2>2. /\ iio \in [0..(Slots - 1) -> Sensors \cup {"other", "none"}]
          /\ bme680_dir \in Dirs /\ bmi270_dir \in Dirs /\ there \subseteq Sensors
      BY DEF Typed, SearchInv, Places
    <2>3. /\ temp_hist \in Seq(Int) /\ Len(temp_hist) <= SPARK_N
          /\ temp_hist_min \in Int /\ temp_hist_max \in Int
      BY DEF Typed, Window, Covers
    <2> QED
      BY <2>1, <2>2, <2>3 DEF Typed, TypeOK, Panel, Readings
  <1> QED
    BY <1>1, <1>2, TypedInductive, PTL DEF Spec
=============================================================================
