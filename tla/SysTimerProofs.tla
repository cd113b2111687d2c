--------------------------- MODULE SysTimerProofs ---------------------------
(***************************************************************************)
(* The tick never dies and no read is torn, for every width of the halves  *)
(* of the counter and every distance of the alarms.                        *)
(***************************************************************************)
EXTENDS SysTimer, TLAPS

----------------------------------------------------------------------------
(* Remainders.                                                             *)

\* A multiple of S smaller than S is none.
LEMMA SmallMultiple ==
    ASSUME NEW S \in Nat \ {0}, NEW k \in Int, -S < S * k, S * k < S
    PROVE  k = 0
<1>1. CASE k >= 1
  <2>1. S * k >= S
    BY <1>1
  <2> QED
    BY <2>1
<1>2. CASE k <= -1
  <2>1. S * k <= -S
    BY <1>2
  <2> QED
    BY <2>1
<1> QED
  BY <1>1, <1>2

\* Numbers that differ by a multiple of S have the same remainder.
LEMMA SameRemainder ==
    ASSUME NEW S \in Nat \ {0}, NEW a \in Nat, NEW b \in Nat, NEW k \in Int,
           a - b = S * k
    PROVE  a % S = b % S
<1> DEFINE qa == a \div S
           qb == b \div S
<1>1. /\ qa \in Int /\ a % S \in 0..(S - 1) /\ a = S * qa + (a % S)
      /\ qb \in Int /\ b % S \in 0..(S - 1) /\ b = S * qb + (b % S)
  OBVIOUS
<1> HIDE DEF qa, qb
<1>2. S * (k - qa + qb) = (a % S) - (b % S)
  <2>1. S * (k - qa + qb) = S * k - S * qa + S * qb
    BY <1>1
  <2> DEFINE ra == a % S
             rb == b % S
  <2>2. ra \in Int /\ rb \in Int /\ a = S * qa + ra /\ b = S * qb + rb
    BY <1>1
  <2> HIDE DEF ra, rb
  <2>3. S * k \in Int /\ S * qa \in Int /\ S * qb \in Int
    BY <1>1
  <2>4. S * k - S * qa + S * qb = ra - rb
    BY <2>2, <2>3
  <2> QED
    BY <2>1, <2>4 DEF ra, rb
<1>3. k - qa + qb = 0
  BY <1>1, <1>2, SmallMultiple
<1> QED
  BY <1>1, <1>2, <1>3

\* The number of values of the counter.
LEMMA SpanPositive == Span \in Nat \ {0}
  BY SysTimerAssumption DEF Span

\* What is added to the counter and to the time agrees on the counter.
LEMMA CounterAdds ==
    ASSUME NEW n \in Nat, NEW d \in Nat
    PROVE  /\ n % Span \in 0..(Span - 1)
           /\ ((n % Span) + d) % Span = (n + d) % Span
<1> DEFINE q == n \div Span
           r == n % Span
<1>1. q \in Int /\ r \in 0..(Span - 1) /\ n = Span * q + r
  BY SpanPositive
<1> HIDE DEF q, r
<1>2. (n + d) - (r + d) = Span * q
  BY <1>1, SpanPositive
<1>3. r + d \in Nat /\ n + d \in Nat
  BY <1>1, SpanPositive
<1>4. (n + d) % Span = (r + d) % Span
  BY <1>1, <1>2, <1>3, SpanPositive, SameRemainder
<1> QED
  BY <1>1, <1>4 DEF r

----------------------------------------------------------------------------
(* The invariant.                                                          *)

\* The types the argument needs.
Times ==
    /\ now \in Nat /\ target \in Nat /\ goal \in Nat
    /\ en \in BOOLEAN /\ raw \in BOOLEAN /\ isr \in BOOLEAN
    /\ behind \in BOOLEAN /\ wrapped \in BOOLEAN

\* The comparator holds the time the alarm stands for.
Aimed == target % Span = goal % Span

\* The alarm is ahead, or its interrupt has come.
Ahead == raw \/ (en /\ goal > now)

\* What the programming has established when it gets to an access.
Progress ==
    /\ prog \in {"verify", "raw"} => en
    /\ prog = "raw" => behind \/ wrapped \/ Ahead
    /\ prog = "idle" /\ ~isr /\ ~wrapped => Ahead

TickInv == Times /\ Aimed /\ Progress

\* The invariant holds when the driver programs its first event.
LEMMA TickInit == Init => TickInv
<1> SUFFICES ASSUME Init PROVE TickInv
  OBVIOUS
<1>1. now \in Nat
  BY SpanPositive DEF Init
<1> QED
  BY <1>1 DEF Init, TickInv, Times, Aimed, Progress

\* The counter is a natural number.
LEMMA CounterNat ==
    ASSUME Times
    PROVE  Counter \in Nat
<1>1. now % Span \in 0..(Span - 1)
  BY CounterAdds, SpanPositive DEF Times
<1>2. now % Span \in Nat
  BY ONLY <1>1, SpanPositive
<1> QED
  BY <1>2 DEF Counter

\* A target that was not found behind the counter is ahead of the time.
LEMMA VerifiedAhead ==
    ASSUME Times, goal - target = Lap(now), target - Counter > 0
    PROVE  goal > now
<1>1. now % Span \in Nat
  BY CounterNat DEF Counter
<1> QED
  BY <1>1 DEF Times, Lap, Counter

\* Every step keeps the invariant.
LEMMA TickStep == TickInv /\ [Next]_vars => TickInv'
<1> SUFFICES ASSUME TickInv, [Next]_vars PROVE TickInv'
  OBVIOUS
<1> USE DEF TickInv, Times
<1>1. CASE Passes
  <2>1. /\ now' = now + 1
        /\ raw' = (raw \/ (en /\ (now + 1) % Span = target % Span))
        /\ UNCHANGED <<en, target, goal, prog, behind, wrapped, isr>>
    BY <1>1 DEF Passes
  <2>2. Times' /\ Aimed'
    BY <2>1 DEF Aimed
  <2>3. Ahead => Ahead'
    <3>1. CASE goal = now + 1
      <4>1. (now + 1) % Span = target % Span
        BY <3>1 DEF Aimed
      <4> QED
        BY <2>1, <4>1 DEF Ahead
    <3>2. CASE goal # now + 1
      <4>1. goal > now => goal > now + 1
        BY <3>2
      <4> QED
        BY <2>1, <4>1 DEF Ahead
    <3> QED
      BY <3>1, <3>2
  <2> QED
    BY <2>1, <2>2, <2>3 DEF Progress
<1>2. CASE DisablesAlarm
  BY <1>2 DEF DisablesAlarm, Aimed, Progress
<1>3. CASE LoadsTarget
  <2>1. PICK delta \in 1..MaxDelta : target' = Counter + delta /\ goal' = now + delta
    BY <1>3 DEF LoadsTarget
  <2>2. delta \in Nat
    BY <2>1, SysTimerAssumption
  <2>3. prog' = "enable" /\ UNCHANGED <<now, en, raw, behind, wrapped, isr>>
    BY <1>3 DEF LoadsTarget
  <2>4. Counter \in Nat /\ (Counter + delta) % Span = (now + delta) % Span
    <3>1. ((now % Span) + delta) % Span = (now + delta) % Span
      BY <2>2, CounterAdds
    <3> QED
      BY <3>1, CounterNat DEF Counter
  <2>5. Times' /\ Aimed'
    BY <2>1, <2>2, <2>3, <2>4 DEF Aimed
  <2> QED
    BY <2>3, <2>5 DEF Progress
<1>4. CASE EnablesAlarm
  <2>1. /\ prog' = "verify" /\ en' = TRUE /\ raw' \in BOOLEAN
        /\ UNCHANGED <<now, target, goal, behind, wrapped, isr>>
    BY <1>4 DEF EnablesAlarm
  <2> QED
    BY <2>1 DEF Aimed, Progress
<1>5. CASE VerifiesTarget
  <2>1. /\ prog = "verify" /\ prog' = "raw"
        /\ behind' = (target - Counter <= 0)
        /\ wrapped' = (goal - target # Lap(now))
        /\ UNCHANGED <<now, en, raw, target, goal, isr>>
    BY <1>5 DEF VerifiesTarget
  <2>2. Times' /\ Aimed'
    BY <2>1 DEF Aimed
  <2>3. behind' \/ wrapped' \/ goal > now
    <3> SUFFICES ASSUME ~behind', ~wrapped' PROVE goal > now
      OBVIOUS
    <3>1. Counter \in Nat
      BY CounterNat
    <3>2. goal - target = Lap(now) /\ ~(target - Counter <= 0)
      <4>1. behind' = (target - Counter <= 0) /\ wrapped' = (goal - target # Lap(now))
        BY <2>1
      <4> QED
        BY ONLY <4>1, ~behind', ~wrapped'
    <3>3. target - Counter > 0
      BY <3>1, <3>2
    <3> QED
      BY <3>2, <3>3, VerifiedAhead
  <2> QED
    BY <2>1, <2>2, <2>3 DEF Progress, Ahead
<1>6. CASE Returns
  <2>1. /\ prog = "raw" /\ UNCHANGED <<now, en, raw, target, goal, behind, wrapped>>
        /\ \/ prog' = "disable" /\ isr' = isr
           \/ prog' = "idle" /\ isr' = FALSE /\ ~(behind /\ ~raw)
    BY <1>6 DEF Returns
  <2>2. Times' /\ Aimed'
    BY <2>1 DEF Aimed
  <2> QED
    BY <2>1, <2>2 DEF Progress, Ahead
<1>7. CASE Programs
  BY <1>7 DEF Programs, Aimed, Progress
<1>8. CASE Interrupts
  BY <1>8 DEF Interrupts, Aimed, Progress
<1>9. CASE HandlerReads
  BY <1>9 DEF HandlerReads, alarmVars, Aimed, Progress, Ahead
<1>10. CASE HandlerPrograms
  BY <1>10 DEF HandlerPrograms, Aimed, Progress
<1>11. ASSUME Read64 \/ UNCHANGED vars PROVE TickInv'
  <2>1. UNCHANGED <<now, alarmVars>>
    BY <1>11 DEF Read64, Latches, ReadsHi, ReadsLo, ReadsHiAgain, Uses, vars
  <2> QED
    BY <2>1 DEF alarmVars, Aimed, Progress, Ahead
<1> QED
  BY <1>1, <1>2, <1>3, <1>4, <1>5, <1>6, <1>7, <1>8, <1>9, <1>10, <1>11
  DEF Next, SetNext

\* Whenever interrupts are on, the alarm is armed ahead of the time or its
\* interrupt is on its way, for every width of the counter and however long the
\* programming takes, unless the counter wraps inside it.
THEOREM TickSafe == Spec => []TickArmed
<1>1. TickInv => TickArmed
  BY DEF TickInv, Progress, Ahead, TickArmed
<1> QED
  BY TickInit, TickStep, <1>1, PTL DEF Spec

----------------------------------------------------------------------------
(* The two halves of the counter.                                          *)

\* Quotient and remainder are unique.
LEMMA Division ==
    ASSUME NEW S \in Nat \ {0}, NEW a \in Nat, NEW q \in Int, NEW r \in 0..(S - 1),
           a = S * q + r
    PROVE  a \div S = q /\ a % S = r
<1> DEFINE qa == a \div S
           ra == a % S
<1>1. qa \in Int /\ ra \in 0..(S - 1) /\ a = S * qa + ra
  OBVIOUS
<1> HIDE DEF qa, ra
<1>2. S * (q - qa) = S * q - S * qa
  BY <1>1
<1>3. S * q \in Int /\ S * qa \in Int
  BY <1>1
<1>4. S * (q - qa) = ra - r
  BY <1>1, <1>2, <1>3
<1>5. q - qa = 0
  BY <1>1, <1>4, SmallMultiple
<1>6. qa = q /\ ra = r
  BY <1>1, <1>5
<1> QED
  BY <1>6 DEF qa, ra

\* Division keeps the order.
LEMMA DivisionOrdered ==
    ASSUME NEW S \in Nat \ {0}, NEW a \in Nat, NEW b \in Nat, a <= b
    PROVE  a \div S \in Nat /\ a \div S <= b \div S
<1> DEFINE qa == a \div S
           qb == b \div S
           ra == a % S
           rb == b % S
<1>1. /\ qa \in Nat /\ ra \in 0..(S - 1) /\ a = S * qa + ra
      /\ qb \in Nat /\ rb \in 0..(S - 1) /\ b = S * qb + rb
  OBVIOUS
<1> HIDE DEF qa, qb, ra, rb
<1>2. ~(qa - qb >= 1)
  <2> SUFFICES ASSUME qa - qb >= 1 PROVE FALSE
    OBVIOUS
  <2>1. S * (qa - qb) >= S
    BY <1>1
  <2>2. S * (qa - qb) = S * qa - S * qb /\ S * qa \in Int /\ S * qb \in Int
    BY <1>1
  <2> QED
    BY <1>1, <2>1, <2>2
<1>3. qa <= qb
  BY <1>1, <1>2
<1> QED
  BY <1>1, <1>3 DEF qa, qb

\* The halves of what the counter shows at a time.
LEMMA Halves ==
    ASSUME NEW n \in Nat
    PROVE  /\ Hi(n % Span) = (n \div LoSpan) % HiSpan
           /\ n % Span = Hi(n % Span) * LoSpan + Lo(n % Span)
<1> DEFINE q == n \div LoSpan
           r == n % LoSpan
           u == q \div HiSpan
           v == q % HiSpan
<1>1. HiSpan \in Nat \ {0} /\ LoSpan \in Nat \ {0}
  BY SysTimerAssumption
<1>2. q \in Nat /\ r \in 0..(LoSpan - 1) /\ n = LoSpan * q + r
  BY <1>1
<1>3. u \in Nat /\ v \in 0..(HiSpan - 1) /\ q = HiSpan * u + v
  <2> HIDE DEF q
  <2> QED
    BY <1>1, <1>2
<1> HIDE DEF q, r, u, v
<1>4. LoSpan * v + r \in 0..(Span - 1)
  <2>1. LoSpan * v >= 0 /\ LoSpan * v \in Int
    BY <1>1, <1>3
  <2>2. LoSpan * v <= LoSpan * (HiSpan - 1)
    BY <1>1, <1>3
  <2>3. LoSpan * (HiSpan - 1) = Span - LoSpan /\ Span \in Nat
    BY <1>1 DEF Span
  <2> QED
    BY <1>1, <1>2, <2>1, <2>2, <2>3
<1>5. n = Span * u + (LoSpan * v + r)
  BY <1>1, <1>2, <1>3 DEF Span
<1>6. n % Span = LoSpan * v + r
  BY <1>3, <1>4, <1>5, SpanPositive, Division
<1>7. /\ (LoSpan * v + r) \div LoSpan = v
      /\ (LoSpan * v + r) % LoSpan = r
  <2>1. LoSpan * v + r \in Nat /\ v \in Int
    BY <1>3, <1>4, SpanPositive
  <2> QED
    BY <1>1, <1>2, <2>1, Division
<1>8. Hi(n % Span) = v /\ Lo(n % Span) = r
  BY <1>6, <1>7 DEF Hi, Lo
<1>9. LoSpan * v = v * LoSpan
  BY <1>1, <1>3
<1> QED
  BY <1>6, <1>8, <1>9 DEF v, q

\* Between two moments that show the same high half, and are less than a lap of
\* it apart, the high half did not change.
LEMMA SameHigh ==
    ASSUME NEW a \in Nat, NEW b \in Nat, NEW c \in Nat, a <= b, b <= c,
           c - a < (HiSpan - 1) * LoSpan, Hi(a % Span) = Hi(c % Span)
    PROVE  Hi(b % Span) = Hi(a % Span)
<1> DEFINE qa == a \div LoSpan
           qb == b \div LoSpan
           qc == c \div LoSpan
           ra == a % LoSpan
           rc == c % LoSpan
<1>1. HiSpan \in Nat \ {0} /\ LoSpan \in Nat \ {0}
  BY SysTimerAssumption
<1>2. qa \in Nat /\ qb \in Nat /\ qc \in Nat /\ qa <= qb /\ qb <= qc
  <2>1. qa \in Nat /\ qa <= qb
    BY <1>1, DivisionOrdered
  <2>2. qb \in Nat /\ qb <= qc
    BY <1>1, DivisionOrdered
  <2>3. c <= c
    OBVIOUS
  <2>4. qc \in Nat
    BY <1>1, <2>3, DivisionOrdered
  <2> QED
    BY <2>1, <2>2, <2>4
<1>3. /\ ra \in 0..(LoSpan - 1) /\ a = LoSpan * qa + ra
      /\ rc \in 0..(LoSpan - 1) /\ c = LoSpan * qc + rc
  BY <1>1
<1>4. qa % HiSpan = qc % HiSpan
  BY Halves
<1>5. qa % HiSpan = qb % HiSpan => Hi(b % Span) = Hi(a % Span)
  BY Halves
<1> HIDE DEF qa, qb, qc, ra, rc
<1>6. qc - qa < HiSpan
  <2> SUFFICES ASSUME qc - qa >= HiSpan PROVE FALSE
    BY <1>1, <1>2
  <2>1. LoSpan * (qc - qa) >= LoSpan * HiSpan
    BY <1>1, <1>2
  <2>2. LoSpan * (qc - qa) = LoSpan * qc - LoSpan * qa
    BY <1>1, <1>2
  <2>3. (HiSpan - 1) * LoSpan = LoSpan * HiSpan - LoSpan
    BY <1>1
  <2>4. LoSpan * qc \in Int /\ LoSpan * qa \in Int /\ LoSpan * HiSpan \in Int
    BY <1>1, <1>2
  <2>5. c - a = LoSpan * qc - LoSpan * qa + rc - ra
    BY <1>3, <2>4
  <2> QED
    BY <1>1, <1>3, <2>1, <2>2, <2>3, <2>4, <2>5
<1>7. qa = qc
  <2> DEFINE da == qa \div HiSpan
             dc == qc \div HiSpan
             m  == qa % HiSpan
  <2>1. /\ da \in Int /\ m \in 0..(HiSpan - 1) /\ qa = HiSpan * da + m
        /\ dc \in Int /\ qc = HiSpan * dc + m
    BY <1>1, <1>2, <1>4
  <2> HIDE DEF da, dc, m
  <2>2. HiSpan * (dc - da) = HiSpan * dc - HiSpan * da
    BY <1>1, <2>1
  <2>3. HiSpan * dc \in Int /\ HiSpan * da \in Int
    BY <1>1, <2>1
  <2>4. HiSpan * (dc - da) = qc - qa
    BY <2>1, <2>2, <2>3
  <2>5. dc - da = 0
    BY <1>1, <1>2, <1>6, <2>1, <2>4, SmallMultiple
  <2> QED
    BY <2>1, <2>5
<1>8. qb = qa
  BY <1>2, <1>7
<1> QED
  BY <1>5, <1>8

----------------------------------------------------------------------------
(* The reader.                                                             *)

\* The moments the halves of a read are of: a and b those of the high and the
\* low half, c that of what the latch holds or, at the end, of the high half
\* that was read again.
Moments(a, b, c) ==
    /\ began <= a /\ a <= b /\ b <= c /\ c <= now
    /\ reader # "got" => latched = c % Span
    /\ reader \in {"lo", "hi again", "got"} => hi = Hi(a % Span)
    /\ reader \in {"hi again", "got"} => lo = Lo(b % Span)
    /\ reader = "got" => hi = Hi(c % Span)

ReadInv ==
    /\ now \in Nat /\ began \in Nat
    /\ reader # "none" => \E a, b, c \in Nat : Moments(a, b, c)

\* Nobody reads when the driver programs its first event.
LEMMA ReadInit == Init => ReadInv
<1> SUFFICES ASSUME Init PROVE ReadInv
  OBVIOUS
<1>1. now \in Nat
  BY SpanPositive DEF Init
<1> QED
  BY <1>1 DEF Init, ReadInv

\* A step that latches the counter again, or nothing, keeps the invariant.
LEMMA RelatchKeeps ==
    ASSUME ReadInv, UNCHANGED <<now, readVars>>, latched' \in {latched, Counter}
    PROVE  ReadInv'
<1>1. UNCHANGED <<now, reader, hi, lo, began>>
  BY DEF readVars
<1> SUFFICES ASSUME reader # "none" PROVE \E a, b, c \in Nat : Moments(a, b, c)'
  BY <1>1 DEF ReadInv
<1>2. PICK a \in Nat, b \in Nat, c \in Nat : Moments(a, b, c)
  BY DEF ReadInv
<1>3. CASE latched' = latched
  <2>1. Moments(a, b, c)'
    BY <1>1, <1>2, <1>3 DEF Moments
  <2> QED
    BY <2>1
<1>4. CASE latched' = Counter /\ reader # "got"
  <2>1. b <= now /\ now <= now /\ now \in Nat
    <3>1. b <= c /\ c <= now
      BY <1>2 DEF Moments
    <3>2. now \in Nat
      BY DEF ReadInv
    <3> QED
      BY <3>1, <3>2
  <2>2. Moments(a, b, now)'
    BY <1>1, <1>2, <1>4, <2>1 DEF Moments, Counter
  <2> QED
    BY <2>1, <2>2
<1>5. CASE reader = "got"
  <2>1. Moments(a, b, c)'
    BY <1>1, <1>2, <1>5 DEF Moments
  <2> QED
    BY <2>1
<1> QED
  BY <1>3, <1>4, <1>5

\* Every step keeps the invariant.
LEMMA ReadStep == ReadInv /\ [Next]_vars => ReadInv'
<1> SUFFICES ASSUME ReadInv, [Next]_vars PROVE ReadInv'
  OBVIOUS
<1>1. CASE Passes
  <2>1. now' = now + 1 /\ now' \in Nat /\ UNCHANGED <<latched, reader, hi, lo, began>>
    BY <1>1 DEF Passes, readVars, ReadInv
  <2>2. ASSUME reader # "none" PROVE \E a, b, c \in Nat : Moments(a, b, c)'
    <3>1. PICK a \in Nat, b \in Nat, c \in Nat : Moments(a, b, c)
      BY <2>2 DEF ReadInv
    <3>2. c <= now'
      <4>1. c <= now
        BY <3>1 DEF Moments
      <4>2. now \in Nat
        BY DEF ReadInv
      <4> QED
        BY <2>1, <4>1, <4>2
    <3>3. Moments(a, b, c)'
      BY <2>1, <3>1, <3>2 DEF Moments
    <3> QED
      BY <3>3
  <2> QED
    BY <2>1, <2>2 DEF ReadInv
<1>2. CASE SetNext \/ Programs \/ Interrupts \/ HandlerReads \/ HandlerPrograms
           \/ UNCHANGED vars
  <2>1. UNCHANGED <<now, readVars>> /\ latched' \in {latched, Counter}
    BY <1>2 DEF SetNext, DisablesAlarm, LoadsTarget, EnablesAlarm, VerifiesTarget, Returns,
                Programs, Interrupts, HandlerReads, HandlerPrograms, vars
  <2> QED
    BY <2>1, RelatchKeeps
<1>3. CASE Latches
  <2>1. /\ reader' = "hi" /\ latched' = Counter /\ began' = now /\ now' = now
        /\ now \in Nat /\ now <= now
    BY <1>3 DEF Latches, ReadInv
  <2>2. Moments(now, now, now)'
    BY <2>1 DEF Moments, Counter
  <2> QED
    BY <2>1, <2>2 DEF ReadInv
<1>4. CASE ReadsHi
  <2>1. /\ reader = "hi" /\ reader' = "lo" /\ hi' = Hi(latched)
        /\ UNCHANGED <<now, latched, lo, began>>
    BY <1>4 DEF ReadsHi
  <2>2. PICK a \in Nat, b \in Nat, c \in Nat : Moments(a, b, c)
    BY <2>1 DEF ReadInv
  <2>3. began <= c /\ c <= c /\ c <= now /\ latched = c % Span
    BY <2>1, <2>2 DEF Moments, ReadInv
  <2>4. Moments(c, c, c)'
    BY <2>1, <2>3 DEF Moments
  <2> QED
    BY <2>1, <2>4 DEF ReadInv
<1>5. CASE ReadsLo
  <2>1. /\ reader = "lo" /\ reader' = "hi again" /\ lo' = Lo(latched)
        /\ UNCHANGED <<now, latched, hi, began>>
    BY <1>5 DEF ReadsLo
  <2>2. PICK a \in Nat, b \in Nat, c \in Nat : Moments(a, b, c)
    BY <2>1 DEF ReadInv
  <2>3. /\ began <= a /\ a <= c /\ c <= c /\ c <= now
        /\ latched = c % Span /\ hi = Hi(a % Span)
    <3>1. began <= a /\ a <= b /\ b <= c /\ c <= now
      BY <2>2 DEF Moments
    <3>2. a <= c /\ c <= c
      BY <3>1
    <3>3. latched = c % Span /\ hi = Hi(a % Span)
      BY <2>1, <2>2 DEF Moments
    <3> QED
      BY <3>1, <3>2, <3>3
  <2>4. Moments(a, c, c)'
    BY <2>1, <2>3 DEF Moments
  <2> QED
    BY <2>1, <2>4 DEF ReadInv
<1>6. CASE ReadsHiAgain
  <2>1. /\ reader = "hi again"
        /\ \/ reader' = "got" /\ hi = Hi(latched)
           \/ reader' = "hi"
        /\ UNCHANGED <<now, latched, hi, lo, began>>
    BY <1>6 DEF ReadsHiAgain
  <2>2. PICK a \in Nat, b \in Nat, c \in Nat : Moments(a, b, c)
    BY <2>1 DEF ReadInv
  <2>3. Moments(a, b, c)'
    BY <2>1, <2>2 DEF Moments
  <2> QED
    BY <2>1, <2>3 DEF ReadInv
<1>7. CASE Uses
  BY <1>7 DEF Uses, ReadInv
<1> QED
  BY <1>1, <1>2, <1>3, <1>4, <1>5, <1>6, <1>7 DEF Next, Read64

\* A read returns what the counter was at some moment of the read, for every
\* width of both halves and whatever interrupts latch the counter in between,
\* unless the high half comes round within the read.
THEOREM ReadSafe == Spec => []ReadTrue
<1>1. ReadInv => ReadTrue
  <2> SUFFICES ASSUME ReadInv, reader = "got", now - began < (HiSpan - 1) * LoSpan
               PROVE  \E t \in began..now : hi * LoSpan + lo = t % Span
    BY DEF ReadTrue
  <2>1. PICK a \in Nat, b \in Nat, c \in Nat : Moments(a, b, c)
    BY DEF ReadInv
  <2>2. /\ began <= a /\ a <= b /\ b <= c /\ c <= now
        /\ hi = Hi(a % Span) /\ hi = Hi(c % Span) /\ lo = Lo(b % Span)
    BY <2>1 DEF Moments
  <2>3. b \in began..now
    BY <2>2 DEF ReadInv
  <2>4. c - a < (HiSpan - 1) * LoSpan
    <3>1. (HiSpan - 1) * LoSpan \in Int
      BY SysTimerAssumption
    <3> QED
      BY <2>2, <3>1 DEF ReadInv
  <2>5. hi = Hi(b % Span)
    BY <2>2, <2>4, SameHigh
  <2>6. hi * LoSpan + lo = b % Span
    BY <2>2, <2>5, Halves
  <2> QED
    BY <2>3, <2>6
<1> QED
  BY ReadInit, ReadStep, <1>1, PTL DEF Spec

----------------------------------------------------------------------------
(* Types.                                                                  *)

\* The counter fits its two halves.
LEMMA HalvesTyped ==
    ASSUME NEW v \in 0..(Span - 1)
    PROVE  Hi(v) \in 0..(HiSpan - 1) /\ Lo(v) \in 0..(LoSpan - 1)
<1>1. HiSpan \in Nat \ {0} /\ LoSpan \in Nat \ {0} /\ v \in Nat
  BY SysTimerAssumption, SpanPositive
<1> DEFINE q == v \div LoSpan
           r == v % LoSpan
<1>2. q \in Nat /\ r \in 0..(LoSpan - 1) /\ v = LoSpan * q + r
  BY <1>1
<1> HIDE DEF q, r
<1>3. ~(q >= HiSpan)
  <2> SUFFICES ASSUME q >= HiSpan PROVE FALSE
    OBVIOUS
  <2>1. LoSpan * q >= LoSpan * HiSpan
    BY <1>1, <1>2
  <2>2. LoSpan * HiSpan = Span /\ Span \in Nat /\ LoSpan * q \in Nat
    BY <1>1, <1>2 DEF Span
  <2>3. v < Span
    BY <2>2
  <2> QED
    BY <1>1, <1>2, <2>1, <2>2, <2>3
<1>4. q \in 0..(HiSpan - 1)
  BY <1>1, <1>2, <1>3
<1> QED
  BY <1>2, <1>4 DEF q, r, Hi, Lo

\* Every step keeps the types.
LEMMA TypeStep == TypeOK /\ [Next]_vars => TypeOK'
<1> SUFFICES ASSUME TypeOK, [Next]_vars PROVE TypeOK'
  OBVIOUS
<1>0. now \in Nat
  BY DEF TypeOK
<1>1. Counter \in 0..(Span - 1)
  <2>1. now % Span \in 0..(Span - 1)
    BY ONLY <1>0, SpanPositive
  <2> QED
    BY <2>1 DEF Counter
<1>2. CASE Passes
  <2>1. now' = now + 1 /\ raw' = (raw \/ (en /\ (now + 1) % Span = target % Span))
    BY <1>2 DEF Passes
  <2>2. now' \in Nat
    BY ONLY <1>0, <2>1
  <2>3. raw' \in BOOLEAN
    BY ONLY <2>1, Zenon
  <2> QED
    BY <1>2, <2>2, <2>3 DEF Passes, readVars, TypeOK
<1>3. CASE DisablesAlarm
  BY <1>3 DEF DisablesAlarm, readVars, TypeOK
<1>4. CASE LoadsTarget
  <2>1. PICK delta \in 1..MaxDelta : target' = Counter + delta /\ goal' = now + delta
    BY <1>4 DEF LoadsTarget
  <2>2. now \in Nat /\ Span \in Nat /\ MaxDelta \in Nat /\ Counter \in Nat /\ Counter <= Span - 1
    BY ONLY <1>0, <1>1, SpanPositive, SysTimerAssumption
  <2>3. target' \in 0..(Span + MaxDelta) /\ goal' \in Nat
    BY ONLY <2>1, <2>2, delta \in 1..MaxDelta
  <2>4. /\ latched' \in 0..(Span - 1) /\ prog' = "enable"
        /\ UNCHANGED <<now, en, raw, behind, wrapped, isr, readVars>>
    BY <1>1, <1>4 DEF LoadsTarget
  <2> QED
    BY <2>3, <2>4 DEF readVars, TypeOK
<1>5. CASE EnablesAlarm
  <2>1. raw' \in {raw, raw \/ Counter = target % Span} /\ raw \in BOOLEAN
    BY <1>5 DEF EnablesAlarm, TypeOK
  <2>2. raw' \in BOOLEAN
    BY ONLY <2>1, Zenon
  <2> QED
    BY <1>5, <2>2 DEF EnablesAlarm, readVars, TypeOK
<1>6. CASE VerifiesTarget
  <2>1. behind' \in BOOLEAN /\ wrapped' \in BOOLEAN
    <3>1. behind' = (target - Counter <= 0) /\ wrapped' = (goal - target # Lap(now))
      BY <1>6 DEF VerifiesTarget
    <3>2. behind' \in BOOLEAN
      BY ONLY <3>1
    <3>3. wrapped' \in BOOLEAN
      BY ONLY <3>1, Zenon
    <3> QED
      BY <3>2, <3>3
  <2>2. /\ latched' \in 0..(Span - 1) /\ prog' = "raw"
        /\ UNCHANGED <<now, en, raw, target, goal, isr, readVars>>
    BY <1>1, <1>6 DEF VerifiesTarget
  <2> QED
    BY <2>1, <2>2 DEF readVars, TypeOK
<1>7. CASE Returns
  BY <1>7 DEF Returns, readVars, TypeOK
<1>8. CASE Programs \/ Interrupts \/ HandlerPrograms
  BY <1>8 DEF Programs, Interrupts, HandlerPrograms, readVars, TypeOK
<1>9. CASE HandlerReads \/ Latches
  BY <1>1, <1>9 DEF HandlerReads, Latches, alarmVars, readVars, TypeOK
<1>10. CASE ReadsHi \/ ReadsLo
  <2>1. Hi(latched) \in 0..(HiSpan - 1) /\ Lo(latched) \in 0..(LoSpan - 1)
    BY HalvesTyped DEF TypeOK
  <2> QED
    BY <1>10, <2>1 DEF ReadsHi, ReadsLo, alarmVars, TypeOK
<1>11. CASE ReadsHiAgain
  BY <1>11 DEF ReadsHiAgain, alarmVars, TypeOK
<1>12. CASE Uses
  BY <1>12, SysTimerAssumption DEF Uses, alarmVars, TypeOK
<1>13. CASE UNCHANGED vars
  BY <1>13 DEF vars, alarmVars, readVars, TypeOK
<1> QED
  BY <1>2, <1>3, <1>4, <1>5, <1>6, <1>7, <1>8, <1>9, <1>10, <1>11, <1>12, <1>13
  DEF Next, SetNext, Read64

\* Every register and every local variable of the driver keeps its width: the
\* latch holds a value of the counter, the halves fit theirs, and the target
\* exceeds the counter by no more than the longest alarm.
THEOREM TypeCorrect == Spec => []TypeOK
<1>1. Init => TypeOK
  <2> SUFFICES ASSUME Init PROVE TypeOK
    OBVIOUS
  <2>1. now \in Nat
    BY SpanPositive DEF Init
  <2>2. 0 \in 0..(Span - 1) /\ 0 \in 0..(Span + MaxDelta) /\ 0 \in 0..(HiSpan - 1)
        /\ 0 \in 0..(LoSpan - 1)
    BY SpanPositive, SysTimerAssumption
  <2> QED
    BY <2>1, <2>2 DEF Init, TypeOK
<1> QED
  BY <1>1, TypeStep, PTL DEF Spec
=============================================================================
