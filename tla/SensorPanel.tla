----------------------------- MODULE SensorPanel -----------------------------
(***************************************************************************)
(* sensorpanel.c: it looks for two sensors whose places are not known and  *)
(* which may show up late, reads them for ever, keeps a window of          *)
(* temperatures and draws.  The positions of texts and their fonts are     *)
(* left out; the sparkline is drawn in coordinates of its own plot.        *)
(***************************************************************************)
EXTENDS Numbers

CONSTANTS
    Slots,       \* iio:device0 up to this number (excluded): 10
    Attempts,    \* 20
    SPARK_N,     \* samples in the window: 20
    SPARK_W,     \* plot: 600 by 80
    SPARK_H,
    Temps, Hums, Press, Scales,   \* texts the attributes may hold
    Raws         \* accelerometer readings

ASSUME PlotAssumption ==
    /\ SPARK_N \in Nat /\ SPARK_N >= 2
    /\ SPARK_W \in Nat /\ SPARK_W >= 4
    /\ SPARK_H \in Nat /\ SPARK_H >= 8

ASSUME SlotsAssumption == Slots \in Nat /\ Attempts \in Nat

ASSUME TextsAssumption ==
    Temps \cup Hums \cup Press \cup Scales \cup Raws \subseteq TextForm

Nowhere == -1
Dirs    == 0..(Slots - 1) \cup {Nowhere}
Sensors == {"bme680", "bmi270"}
Axes    == {"ax", "ay", "az"}

VARIABLES
    iio,         \* the name each device directory holds, or "none"
    pc,
    i,           \* the directory that is looked at next
    attempts,    \* left
    bme680_dir, bmi270_dir,
    there,       \* sensors that were there when the last search began
    accel_scale_micro,
    reading,     \* what the attributes held in this frame
    temp_hist, temp_hist_min, temp_hist_max,
    shadow       \* what the shadow buffer shows

scanVars == <<i, attempts, bme680_dir, bmi270_dir, there>>
histVars == <<temp_hist, temp_hist_min, temp_hist_max>>
vars     == <<iio, pc, scanVars, accel_scale_micro, reading, histVars, shadow>>

----------------------------------------------------------------------------
(* Devices appear (external), in any order and place, and stay.  Nothing   *)
(* looks for one that comes after the search.                              *)

Present == {iio[d] : d \in DOMAIN iio}

Appears ==
    \E d \in DOMAIN iio, name \in Sensors \cup {"other"} :
        /\ pc # "loop"
        /\ iio[d] = "none" /\ name \notin Present
        /\ iio' = [iio EXCEPT ![d] = name]
        /\ UNCHANGED <<pc, scanVars, accel_scale_micro, reading, histVars, shadow>>

----------------------------------------------------------------------------
(* find_iio_devs, one name at a time.                                      *)

ScanBegins ==
    /\ pc = "search" /\ attempts > 0
    /\ pc' = "first pass"
    /\ attempts' = attempts - 1
    /\ i' = 0
    /\ bme680_dir' = Nowhere /\ bmi270_dir' = Nowhere
    /\ there' = Present \cap Sensors
    /\ UNCHANGED <<iio, accel_scale_micro, reading, histVars, shadow>>

\* The directory of the BME680 doubles as the path that is tried, so the first
\* pass keeps it only if nothing is looked at after it.
ScansFirst ==
    /\ pc = "first pass" /\ i < Slots
    /\ bme680_dir' = IF iio[i] = "bme680" THEN i ELSE Nowhere
    /\ bmi270_dir' = IF iio[i] = "bmi270" THEN i ELSE bmi270_dir
    /\ i' = i + 1
    /\ UNCHANGED <<iio, pc, attempts, there, accel_scale_micro, reading, histVars, shadow>>

\* Mutant: the first pass is taken for enough.
ScanOnce ==
    /\ pc = "first pass" /\ i = Slots
    /\ i' = 0 /\ pc' = "scanned"
    /\ UNCHANGED <<iio, attempts, bme680_dir, bmi270_dir, there, accel_scale_micro, reading, histVars, shadow>>

ScansAgain ==
    /\ pc = "first pass" /\ i = Slots
    /\ i' = 0
    /\ pc' = IF bme680_dir = Nowhere THEN "second pass" ELSE "scanned"
    /\ UNCHANGED <<iio, attempts, bme680_dir, bmi270_dir, there, accel_scale_micro, reading, histVars, shadow>>

ScansSecond ==
    /\ pc = "second pass"
    /\ IF i < Slots
       THEN /\ i' = i + 1
            /\ IF iio[i] = "bme680"
               THEN bme680_dir' = i /\ pc' = "scanned"
               ELSE bme680_dir' = Nowhere /\ UNCHANGED pc
       ELSE pc' = "scanned" /\ UNCHANGED <<i, bme680_dir>>
    /\ UNCHANGED <<iio, attempts, bmi270_dir, there, accel_scale_micro, reading, histVars, shadow>>

ScanEnds ==
    /\ pc = "scanned"
    /\ i' = 0
    /\ pc' = IF Nowhere \in {bme680_dir, bmi270_dir} /\ attempts > 0 THEN "search" ELSE "scale"
    /\ UNCHANGED <<iio, attempts, bme680_dir, bmi270_dir, there, accel_scale_micro, reading, histVars, shadow>>

\* in_accel_scale, read once: nano units are cut to micro units.
ReadsScale ==
    /\ pc = "scale"
    /\ \E text \in Scales \cup {NoText} :
          accel_scale_micro' =
              IF bmi270_dir # Nowhere /\ IsText(text)
              THEN LET micro == CDiv(ParseFixed(text, 9), 1000)
                   IN  IF micro < 1 THEN 1 ELSE micro
              ELSE accel_scale_micro
    /\ pc' = "loop"
    /\ attempts' = 0 /\ there' = {} /\ i' = 0
    /\ UNCHANGED <<iio, bme680_dir, bmi270_dir, reading, histVars, shadow>>

----------------------------------------------------------------------------
(* One frame.                                                              *)

Held(dir, texts) == IF dir = Nowhere THEN {NoText} ELSE texts \cup {NoText}
NoReading == [t |-> NoText, rh |-> NoText, p |-> NoText,
              acc |-> [axis \in Axes |-> NoText]]
Or0(text, value) == IF IsText(text) THEN value ELSE 0

Values(h) == {h[n] : n \in 1..Len(h)}
Bounds(h, lo, hi) ==
    /\ lo \in Values(h) /\ hi \in Values(h)
    /\ \A v \in Values(h) : lo <= v /\ v <= hi

\* Mutant: the window never slides.
ShiftedGrows(h, v) == Append(h, v)

Shifted(h, v) == IF Len(h) < SPARK_N THEN Append(h, v) ELSE Append(Tail(h), v)

\* Mutant: the extents are those of the window before.
PushExtentsFirst(v) ==
    /\ temp_hist' = Shifted(temp_hist, v)
    /\ IF temp_hist = <<>>
       THEN temp_hist_min' = v - 20 /\ temp_hist_max' = v + 20
       ELSE \E lo, hi \in Values(temp_hist) :
              /\ Bounds(temp_hist, lo, hi)
              /\ IF hi - lo < 40
                 THEN /\ temp_hist_min' = CDiv(hi + lo, 2) - 20
                      /\ temp_hist_max' = CDiv(hi + lo, 2) + 20
                 ELSE temp_hist_min' = lo /\ temp_hist_max' = hi

\* A window without spread is widened around its middle.
HistPush(v) ==
    /\ temp_hist' = Shifted(temp_hist, v)
    /\ \E lo, hi \in Values(temp_hist') :
          /\ Bounds(temp_hist', lo, hi)
          /\ IF hi - lo < 40
             THEN /\ temp_hist_min' = CDiv(hi + lo, 2) - 20
                  /\ temp_hist_max' = CDiv(hi + lo, 2) + 20
             ELSE temp_hist_min' = lo /\ temp_hist_max' = hi

Mg(raw) == CDiv(raw * accel_scale_micro, 9807)
Centi(t) == CDiv(ParseInt(t), 10)

\* The values a frame shows.  have_bmi is set by the x axis alone: with it an
\* axis that failed is a zero, without it the others are not shown either.
Drawn(r) ==
    (IF IsText(r.t)
     THEN {<<"t", FmtFixed(Centi(r.t), 2)>>,
           <<"rh", FmtFixed(Or0(r.rh, ParseFixed(r.rh, 2)), 2)>>,
           <<"p", FmtFixed(Or0(r.p, ParseFixed(r.p, 1)), 1)>>}
     ELSE {<<"BME680", NoText>>})
    \cup
    (IF IsText(r.acc["ax"])
     THEN {<<axis, FmtFixed(Mg(Or0(r.acc[axis], ParseInt(r.acc[axis]))), 3)>> : axis \in Axes}
     ELSE {<<"BMI270", NoText>>})

\* Mutant: the background is not cleared.
DrawOver(r) == shadow' = shadow \cup Drawn(r)

RenderFrame(r) == shadow' = Drawn(r)

\* Each attribute may fail by itself; the locals of the loop start from zero.
\* A write that falls short is only reported.
Frame ==
    /\ pc = "loop"
    /\ \E t \in Held(bme680_dir, Temps), rh \in Held(bme680_dir, Hums),
          p \in Held(bme680_dir, Press), acc \in [Axes -> Held(bmi270_dir, Raws)] :
          /\ reading' = [t |-> t, rh |-> rh, p |-> p, acc |-> acc]
          /\ IF IsText(t) THEN HistPush(Centi(t)) ELSE UNCHANGED histVars
          /\ RenderFrame(reading')
    /\ UNCHANGED <<iio, pc, scanVars, accel_scale_micro>>

Init ==
    /\ iio = [d \in 0..(Slots - 1) |-> "none"]
    /\ pc = "search" /\ i = 0 /\ attempts = Attempts
    /\ bme680_dir = Nowhere /\ bmi270_dir = Nowhere /\ there = {}
    /\ accel_scale_micro = 598
    /\ reading = NoReading
    /\ temp_hist = <<>> /\ temp_hist_min = 0 /\ temp_hist_max = 0
    /\ shadow = {}

Next ==
    \/ Appears
    \/ ScanBegins \/ ScansFirst \/ ScansAgain \/ ScansSecond \/ ScanEnds
    \/ ReadsScale \/ Frame

Spec == Init /\ [][Next]_vars

----------------------------------------------------------------------------
(* draw_sparkline: the point of a sample, the points of the line between   *)
(* two of them, and the 3 by 3 brush around each.                          *)

PlotRange == LET range == temp_hist_max - temp_hist_min IN IF range < 1 THEN 1 ELSE range
PointX(n) == CDiv((n - 1) * (SPARK_W - 4), SPARK_N - 1) + 2
PointY(v) == SPARK_H - 4 - CDiv((v - temp_hist_min) * (SPARK_H - 8), PlotRange)

LineSteps(dx, dy) ==
    LET longer == IF Magnitude(dx) > Magnitude(dy) THEN Magnitude(dx) ELSE Magnitude(dy)
    IN  IF longer < 1 THEN 1 ELSE longer
Along(from, to, s, steps) == from + CDiv((to - from) * s, steps)

InPlot(x, y) ==
    /\ x - 1 >= 0 /\ x + 1 < SPARK_W
    /\ y - 1 >= 0 /\ y + 1 < SPARK_H

\* Whatever the temperatures are, the curve stays inside its plot: the extents
\* hold every sample of the window at every frame (sensorpanel.c:401-451).
PlotInside ==
    \A n \in 2..Len(temp_hist) :
        LET x0 == PointX(n - 1)  y0 == PointY(temp_hist[n - 1])
            x1 == PointX(n)      y1 == PointY(temp_hist[n])
            steps == LineSteps(x1 - x0, y1 - y0)
        IN  \A s \in 0..steps : InPlot(Along(x0, x1, s, steps), Along(y0, y1, s, steps))

\* A search finds every sensor that was there when it began, whatever appears
\* while it runs, and takes no device for another (sensorpanel.c:326-379).
ScanFinds ==
    /\ pc \in {"scanned", "scale", "loop"} =>
          /\ "bme680" \in there => bme680_dir # Nowhere
          /\ "bmi270" \in there => bmi270_dir # Nowhere
          /\ bme680_dir # Nowhere => iio[bme680_dir] = "bme680"
    /\ bmi270_dir # Nowhere => iio[bmi270_dir] = "bmi270"

\* A text that shows n units of 10^-k, cut towards zero, for num / den of them.
Shows(text, k, num, den) ==
    LET n == Signed(text.neg, ParseFixed([text EXCEPT !.neg = FALSE], k))
    IN  /\ Len(text.frac) = k
        /\ den * Magnitude(n) <= Magnitude(num)
        /\ Magnitude(num) < den * (Magnitude(n) + 1)
        /\ n # 0 => (n < 0 <=> num < 0)

\* What one item on the screen says of the sensors.
Says(item) ==
    CASE item[1] = "t"  -> Shows(item[2], 2, ParseInt(reading.t), 10)
      [] item[1] = "rh" -> Shows(item[2], 2, Or0(reading.rh, ParseFixed(reading.rh, 4)), 100)
      [] item[1] = "p"  -> Shows(item[2], 1, Or0(reading.p, ParseFixed(reading.p, 4)), 1000)
      [] item[1] \in Axes -> LET raw == reading.acc[item[1]]
                             IN  Shows(item[2], 3, Or0(raw, ParseInt(raw)) * accel_scale_micro, 9807)
      [] item[1] = "BME680" -> ~IsText(reading.t)
      [] item[1] = "BMI270" -> ~IsText(reading.acc["ax"])

\* What the panel shows is what the sensors said in this very frame, rounded
\* towards zero and with its sign, or a zero or N/A where a read failed
\* (sensorpanel.c:260-324, 462-540, 620-680).
ShownTrue == \A item \in shadow : Says(item)

Texts == Temps \cup Hums \cup Press \cup Raws \cup {NoText}
TypeOK ==
    /\ iio \in [0..(Slots - 1) -> Sensors \cup {"other", "none"}]
    /\ pc \in {"search", "first pass", "second pass", "scanned", "scale", "loop"}
    /\ i \in 0..Slots /\ attempts \in 0..Attempts
    /\ bme680_dir \in Dirs /\ bmi270_dir \in Dirs /\ there \subseteq Sensors
    /\ accel_scale_micro \in Nat \ {0}
    /\ reading \in [t : Texts, rh : Texts, p : Texts, acc : [Axes -> Texts]]
    /\ temp_hist \in Seq(Int) /\ Len(temp_hist) <= SPARK_N
    /\ temp_hist_min \in Int /\ temp_hist_max \in Int
=============================================================================
