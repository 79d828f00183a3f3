------------------------ MODULE ThresholdGateProofs ------------------------
(***************************************************************************)
(* For every rule, table size, lateness and order of arrival: the gate's   *)
(* windows, with their resets and what is discarded when there are too     *)
(* many, report what numbering every match would; and a replay is counted  *)
(* in its own order.                                                       *)
(***************************************************************************)
EXTENDS ThresholdGate, TLAPS, WellFoundedInduction

-----------------------------------------------------------------------------
(* Counting modulo a count, one at a time. *)

LEMMA Remainder ==
  ASSUME NEW n \in Nat, NEW k \in Nat \ {0}
  PROVE  (n + 1) % k = IF (n % k) + 1 >= k THEN 0 ELSE (n % k) + 1
<1> DEFINE q == n \div k
           r == n % k
<1>1. q \in Nat /\ r \in 0 .. k - 1 /\ n = k * q + r
  OBVIOUS
<1>2. \A m \in Nat, p \in Nat, s \in 0 .. k - 1 : m = k * p + s => m % k = s
  OBVIOUS
<1> HIDE DEF q, r
<1>3. CASE r + 1 >= k
  <2>1. n + 1 = k * (q + 1) + 0
    BY <1>1, <1>3
  <2>2. (n + 1) % k = 0
    BY <1>1, <1>2, <2>1
  <2> QED BY <1>3, <2>2 DEF r
<1>4. CASE r + 1 < k
  <2>1. n + 1 = k * q + (r + 1) /\ r + 1 \in 0 .. k - 1
    BY <1>1, <1>4
  <2>2. (n + 1) % k = r + 1
    BY <1>1, <1>2, <2>1
  <2> QED BY <1>1, <1>4, <2>2 DEF r
<1> QED
  BY <1>1, <1>3, <1>4

-----------------------------------------------------------------------------
(* A window and the numbers of the matches in it. *)

AllCounters == Sids \X (Sources \cup {None})
Numbered == [start : Nat, n : Nat \ {0}]

Agrees(c, w, m) ==
  /\ w.start = m.start
  /\ w.count = IF Rule[c[1]].kind = "every" THEN m.n % Rule[c[1]].count ELSE m.n
  /\ w.reported <=> Rule[c[1]].kind = "both" /\ m.n >= Rule[c[1]].count

(* The gate as w and t: what it counts is what the ghosts count, and what  *)
(* it has discarded is too old to matter.                                  *)
Follows(w, nn, rr, t) ==
  /\ t \in Nat
  /\ w \in [DOMAIN w -> Window]
  /\ DOMAIN nn \subseteq AllCounters /\ nn \in [DOMAIN nn -> Numbered]
  /\ DOMAIN rr = DOMAIN nn /\ \A c \in DOMAIN nn : rr[c] \in Nat
  /\ \A c \in DOMAIN w : c \in DOMAIN nn /\ Agrees(c, w[c], nn[c])
  /\ \A c \in DOMAIN nn : c \in DOMAIN w \/ t - nn[c].start >= Longest

(* RateControl's match, from numbers and reports that may not be the       *)
(* current ones.                                                           *)
In(c, t, nn) == c \in DOMAIN nn /\ t < nn[c].start + Rule[c[1]].span
Next_n(c, t, nn) == IF In(c, t, nn) THEN nn[c].n + 1 ELSE 1
Start(c, t, nn) == IF In(c, t, nn) THEN nn[c].start ELSE t
Told(c, n) == Rate!Reports(Rule[c[1]].kind, Rule[c[1]].count, n)

Matched(c, t, nn, rr) ==
  /\ numbered' = Put(nn, c, [start |-> Start(c, t, nn), n |-> Next_n(c, t, nn)])
  /\ reports' = Put(rr, c, LET r == IF In(c, t, nn) THEN rr[c] ELSE 0
                           IN  IF Told(c, Next_n(c, t, nn)) THEN r + 1 ELSE r)

(* The rule of an alert, and the alert itself. *)
LEMMA AlertIs ==
  ASSUME setting \in Settings, NEW a \in Alert
  PROVE  /\ a.ts \in Nat /\ a.sid \in Sids /\ a.src \in Sources /\ a.ts \in Times
         /\ Rule[a.sid].kind \in {"limit", "every", "both", "over", None}
         /\ Rule[a.sid].count \in Nat \ {0} /\ Rule[a.sid].span \in Nat \ {0}
         /\ Counter(a) \in AllCounters /\ Counter(a)[1] = a.sid
         /\ Lateness(setting) \in Nat /\ Lateness(setting) + Rule[a.sid].span <= Longest
         /\ Longest \in Nat
<1>1. /\ setting \in Setting /\ a.ts \in Times /\ a.sid \in setting.sids /\ a.src \in setting.sources
  BY GateAssumption DEF Alert
<1>2. setting.sids \subseteq Sids /\ setting.sources \subseteq Sources /\ setting.late \in Nat
  BY <1>1 DEF Setting
<1>3. Rule[a.sid] \in Rules
  BY <1>1, <1>2, GateAssumption
<1>4. Counter(a) \in AllCounters /\ Counter(a)[1] = a.sid
  BY <1>1, <1>2 DEF Counter, Key, AllCounters
<1>5. Lateness(setting) \in Nat
  BY <1>2 DEF Lateness
<1>6. Lateness(setting) + Rule[a.sid].span <= Longest
  BY <1>1, SpanAssumption
<1> QED
  BY <1>1, <1>2, <1>3, <1>4, <1>5, <1>6, GateAssumption DEF Rules

-----------------------------------------------------------------------------
(* admit(), for an alert that is not later than it may be. *)

(* What is left of the windows; and the window the alert is counted in is  *)
(* the one its number is in.                                               *)
LEMMA CurrentIs ==
  ASSUME setting \in Settings, NEW a \in Alert, NEW w, NEW nn, NEW rr, NEW t,
         Follows(w, nn, rr, t), a.ts >= t - Lateness(setting),
         NEW now, now = Newer(t, a.ts), NEW w1, w1 = KeptWindows(w, now)
  PROVE  LET c == Counter(a)
             win == Current(w1, a)
             n == Next_n(c, a.ts, nn) - 1
         IN  /\ now \in Nat /\ now >= t
             /\ DOMAIN w1 \subseteq DOMAIN w /\ \A d \in DOMAIN w1 : w1[d] = w[d]
             /\ \A d \in DOMAIN w : d \in DOMAIN w1 \/ now - w[d].start >= Longest
             /\ n \in Nat /\ win.start = Start(c, a.ts, nn)
             /\ win.count = IF Rule[a.sid].kind = "every" THEN n % Rule[a.sid].count ELSE n
             /\ win.reported <=> Rule[a.sid].kind = "both" /\ n >= Rule[a.sid].count
<1> DEFINE c == Counter(a)
           win == Current(w1, a)
           n == Next_n(c, a.ts, nn) - 1
<1>1. /\ a.ts \in Nat /\ Rule[a.sid].count \in Nat \ {0} /\ Rule[a.sid].span \in Nat \ {0}
      /\ c \in AllCounters /\ c[1] = a.sid
      /\ Lateness(setting) \in Nat /\ Lateness(setting) + Rule[a.sid].span <= Longest
      /\ Longest \in Nat
  BY AlertIs
<1>2. /\ t \in Nat
      /\ \A d \in DOMAIN w : w[d] \in Window
      /\ \A d \in DOMAIN nn : nn[d] \in Numbered
      /\ \A d \in DOMAIN w : d \in DOMAIN nn /\ Agrees(d, w[d], nn[d])
      /\ \A d \in DOMAIN nn : d \in DOMAIN w \/ t - nn[d].start >= Longest
  BY DEF Follows
<1>3. now \in Nat /\ now >= t /\ (now = t \/ now = a.ts)
  BY <1>1, <1>2 DEF Newer
<1>4. /\ DOMAIN w1 \subseteq DOMAIN w /\ \A d \in DOMAIN w1 : w1[d] = w[d]
      /\ \A d \in DOMAIN w : d \in DOMAIN w1 \/ ~(now - w[d].start < Longest)
  BY DEF KeptWindows, Restricted
<1>5. \A d \in DOMAIN w : w[d].start \in Nat
  BY <1>2 DEF Window
<1>6. \A d \in DOMAIN w : d \in DOMAIN w1 \/ now - w[d].start >= Longest
  BY <1>1, <1>3, <1>4, <1>5
<1>7. \A d \in DOMAIN nn : nn[d].start \in Nat /\ nn[d].n \in Nat \ {0}
  BY <1>2 DEF Numbered
<1>8. \A d \in DOMAIN w : w[d].start = nn[d].start
  BY <1>2 DEF Agrees
<1>9. In(c, a.ts, nn) <=> c \in DOMAIN w1 /\ a.ts < w1[c].start + Rule[a.sid].span
  <2> HIDE DEF c
  <2>1. ASSUME In(c, a.ts, nn)
        PROVE  c \in DOMAIN w1 /\ a.ts < w1[c].start + Rule[a.sid].span
    <3>1. c \in DOMAIN nn /\ a.ts < nn[c].start + Rule[a.sid].span
      BY <1>1, <2>1 DEF In
    <3>2. ~(t - nn[c].start >= Longest) /\ ~(now - nn[c].start >= Longest)
      BY <1>1, <1>2, <1>3, <1>7, <3>1
    <3>3. c \in DOMAIN w
      BY <1>2, <3>1, <3>2
    <3>4. c \in DOMAIN w1
      BY <1>6, <1>8, <3>2, <3>3
    <3> QED BY <1>4, <1>8, <3>1, <3>3, <3>4
  <2>2. ASSUME c \in DOMAIN w1, a.ts < w1[c].start + Rule[a.sid].span
        PROVE  In(c, a.ts, nn)
    BY <1>1, <1>2, <1>4, <1>8, <2>2 DEF In
  <2> QED BY <2>1, <2>2
<1>10. CASE In(c, a.ts, nn)
  <2> HIDE DEF c
  <2>1. c \in DOMAIN w1 /\ c \in DOMAIN w /\ Current(w1, a) = w[c]
    BY <1>4, <1>9, <1>10 DEF Current, c
  <2>2. Agrees(c, w[c], nn[c]) /\ c \in DOMAIN nn
    BY <1>2, <2>1
  <2>3. Next_n(c, a.ts, nn) = nn[c].n + 1 /\ Start(c, a.ts, nn) = nn[c].start
    BY <1>10 DEF Next_n, Start
  <2>4. n = nn[c].n /\ n \in Nat
    BY <1>7, <2>2, <2>3
  <2>5. /\ win.start = Start(c, a.ts, nn)
        /\ win.count = IF Rule[a.sid].kind = "every" THEN n % Rule[a.sid].count ELSE n
        /\ win.reported <=> Rule[a.sid].kind = "both" /\ n >= Rule[a.sid].count
    BY <1>1, <2>1, <2>2, <2>3, <2>4 DEF Agrees
  <2> QED BY <1>3, <1>4, <1>6, <2>4, <2>5 DEF c
<1>11. CASE ~In(c, a.ts, nn)
  <2>1. Current(w1, a) = Fresh(a.ts)
    BY <1>9, <1>11 DEF Current
  <2>2. Next_n(c, a.ts, nn) = 1 /\ Start(c, a.ts, nn) = a.ts
    BY <1>11 DEF Next_n, Start
  <2>3. n = 0 /\ 0 % Rule[a.sid].count = 0 /\ ~(0 >= Rule[a.sid].count)
    BY <1>1, <2>2
  <2>4. win.start = a.ts /\ win.count = 0 /\ ~win.reported
    BY <2>1 DEF Fresh
  <2> QED BY <1>3, <1>4, <1>6, <2>2, <2>3, <2>4
<1> QED
  BY <1>10, <1>11

(* What counting one more owes: the verdict and the window after it.       *)
CountsRight(r, c, win, n) ==
  LET next == Counted(r, win.count + 1, win)
  IN  /\ Verdict(r, win.count + 1, win) <=> Told(c, n + 1)
      /\ next.start = win.start /\ next.count \in Nat /\ next.reported \in BOOLEAN
      /\ next.count = IF r.kind = "every" THEN (n + 1) % r.count ELSE n + 1
      /\ next.reported <=> r.kind = "both" /\ n + 1 >= r.count

(* The verdict is the one the number gives, and the window is counted on.  *)
LEMMA CountIs ==
  ASSUME setting \in Settings, NEW a \in Alert, Rule[a.sid].kind # None,
         NEW win, NEW n \in Nat,
         win.count = (IF Rule[a.sid].kind = "every" THEN n % Rule[a.sid].count ELSE n),
         win.reported <=> Rule[a.sid].kind = "both" /\ n >= Rule[a.sid].count
  PROVE  CountsRight(Rule[a.sid], Counter(a), win, n)
<1> DEFINE r == Rule[a.sid]
           next == Counted(r, win.count + 1, win)
<1>1. r.count \in Nat \ {0} /\ Counter(a)[1] = a.sid
  BY AlertIs
<1>2. r.kind \in {"limit", "every", "both", "over"}
  BY AlertIs
<1>3. Told(Counter(a), n + 1) <=> \/ r.kind = "limit" /\ n + 1 <= r.count
                                  \/ r.kind = "every" /\ (n + 1) % r.count = 0
                                  \/ r.kind = "both"  /\ n + 1 = r.count
                                  \/ r.kind = "over"  /\ n + 1 > r.count
  BY <1>1 DEF Told, Rate!Reports
<1>4. /\ next.start = win.start
      /\ next.count = IF r.kind = "every" /\ win.count + 1 >= r.count THEN 0 ELSE win.count + 1
      /\ next.reported = (win.reported \/ (r.kind = "both" /\ win.count + 1 >= r.count))
  BY DEF Counted
<1>5. Verdict(r, win.count + 1, win) <=>
        \/ r.kind = "limit" /\ win.count + 1 <= r.count
        \/ r.kind = "every" /\ win.count + 1 >= r.count
        \/ r.kind = "both"  /\ win.count + 1 >= r.count /\ ~win.reported
        \/ r.kind = "over"  /\ win.count + 1 > r.count
  BY DEF Verdict
<1> HIDE DEF r, next
<1>6. win.reported <=> r.kind = "both" /\ n >= r.count
  BY DEF r
<1>7. CASE r.kind = "every"
  <2>1. win.count = n % r.count /\ n % r.count \in Nat
    BY <1>1, <1>7 DEF r
  <2>2. (n + 1) % r.count = IF (n % r.count) + 1 >= r.count THEN 0 ELSE (n % r.count) + 1
    BY <1>1, Remainder DEF r
  <2>3. win.count + 1 >= r.count <=> (n + 1) % r.count = 0
    BY <1>1, <2>1, <2>2 DEF r
  <2>4. next.count = (n + 1) % r.count
    BY <1>4, <1>7, <2>1, <2>2
  <2>5. next.reported = FALSE
    BY <1>4, <1>6, <1>7
  <2>6. Verdict(r, win.count + 1, win) <=> Told(Counter(a), n + 1)
    BY <1>3, <1>5, <1>7, <2>3 DEF r
  <2>7. (n + 1) % r.count \in Nat
    BY <2>1, <2>2
  <2> QED BY <1>4, <1>7, <2>4, <2>5, <2>6, <2>7 DEF r, next, CountsRight
<1>8. CASE r.kind # "every"
  <2>1. win.count = n /\ r.count \in Nat
    BY <1>1, <1>8 DEF r
  <2>2. next.count = n + 1 /\ next.start = win.start
    BY <1>4, <1>8, <2>1
  <2>3. next.reported <=> r.kind = "both" /\ n + 1 >= r.count
    <3>1. next.reported <=> win.reported \/ (r.kind = "both" /\ n + 1 >= r.count)
      BY <1>4, <2>1, Zenon
    <3>2. n >= r.count => n + 1 >= r.count
      BY <2>1
    <3> QED BY <1>6, <3>1, <3>2, Zenon
  <2>4. next.reported \in BOOLEAN
    BY <1>4
  <2>5. Verdict(r, win.count + 1, win) <=> Told(Counter(a), n + 1)
    BY <1>2, <1>3, <1>5, <1>6, <1>8, <2>1 DEF r
  <2> QED BY <1>8, <2>1, <2>2, <2>3, <2>4, <2>5 DEF r, next, CountsRight
<1> QED
  BY <1>7, <1>8

(* admit() as a whole. *)
LEMMA AdmitIs ==
  ASSUME setting \in Settings, NEW a \in Alert, Rule[a.sid].kind # None,
         NEW w, NEW nn, NEW rr, NEW t,
         Follows(w, nn, rr, t), a.ts >= t - Lateness(setting),
         NEW now, now = Newer(t, a.ts), NEW w1, w1 = KeptWindows(w, now),
         NEW win, win = Current(w1, a),
         windows' = Put(w1, Counter(a), Counted(Rule[a.sid], win.count + 1, win)),
         Number(nn, rr, a, Verdict(Rule[a.sid], win.count + 1, win)),
         newest' = now
  PROVE  Follows(windows', numbered', reports', newest') /\ Matched(Counter(a), a.ts, nn, rr)
<1> DEFINE c == Counter(a)
           n == Next_n(c, a.ts, nn) - 1
           next == Counted(Rule[a.sid], win.count + 1, win)
           m == [start |-> Start(c, a.ts, nn), n |-> Next_n(c, a.ts, nn)]
           told == Told(c, Next_n(c, a.ts, nn))
           r == IF In(c, a.ts, nn) THEN rr[c] ELSE 0
<1>1. /\ now \in Nat /\ now >= t
      /\ DOMAIN w1 \subseteq DOMAIN w /\ \A d \in DOMAIN w1 : w1[d] = w[d]
      /\ \A d \in DOMAIN w : d \in DOMAIN w1 \/ now - w[d].start >= Longest
  BY CurrentIs
<1>2. n \in Nat /\ win.start = Start(c, a.ts, nn)
  BY CurrentIs
<1>3. win.count = (IF Rule[a.sid].kind = "every" THEN n % Rule[a.sid].count ELSE n)
  BY CurrentIs
<1>4. win.reported <=> Rule[a.sid].kind = "both" /\ n >= Rule[a.sid].count
  BY CurrentIs
<1>5. /\ Verdict(Rule[a.sid], win.count + 1, win) <=> Told(c, n + 1)
      /\ next.start = win.start /\ next.count \in Nat /\ next.reported \in BOOLEAN
      /\ next.count = IF Rule[a.sid].kind = "every" THEN (n + 1) % Rule[a.sid].count ELSE n + 1
      /\ next.reported <=> Rule[a.sid].kind = "both" /\ n + 1 >= Rule[a.sid].count
  <2> HIDE DEF n
  <2>1. CountsRight(Rule[a.sid], Counter(a), win, n)
    BY <1>2, <1>3, <1>4, CountIs
  <2> QED BY <2>1 DEF CountsRight
<1>6. /\ a.ts \in Nat /\ c \in AllCounters /\ c[1] = a.sid /\ Longest \in Nat
  BY AlertIs
<1>7. /\ t \in Nat
      /\ \A d \in DOMAIN w : w[d] \in Window
      /\ DOMAIN nn \subseteq AllCounters /\ \A d \in DOMAIN nn : nn[d] \in Numbered
      /\ DOMAIN rr = DOMAIN nn /\ \A d \in DOMAIN nn : rr[d] \in Nat
      /\ \A d \in DOMAIN w : d \in DOMAIN nn /\ Agrees(d, w[d], nn[d])
      /\ \A d \in DOMAIN nn : d \in DOMAIN w \/ t - nn[d].start >= Longest
  BY DEF Follows
<1>8. \A d \in DOMAIN nn : nn[d].start \in Nat /\ nn[d].n \in Nat
  BY <1>7 DEF Numbered
<1>9. Next_n(c, a.ts, nn) \in Nat \ {0} /\ Next_n(c, a.ts, nn) = n + 1 /\ Start(c, a.ts, nn) \in Nat
  <2> HIDE DEF c
  <2>1. CASE In(c, a.ts, nn)
    BY <1>8, <2>1 DEF Next_n, Start, In
  <2>2. CASE ~In(c, a.ts, nn)
    BY <1>6, <2>2 DEF Next_n, Start
  <2> QED BY <2>1, <2>2
<1>10. m \in Numbered
  BY <1>9 DEF Numbered
<1>11. numbered' = Put(nn, c, m)
  <2>1. numbered' = Put(nn, c, IF In(c, a.ts, nn) THEN [nn[c] EXCEPT !.n = @ + 1]
                                                  ELSE [start |-> a.ts, n |-> 1])
    BY <1>6 DEF Number, In
  <2>2. ASSUME In(c, a.ts, nn)
        PROVE  [nn[c] EXCEPT !.n = @ + 1] = [start |-> nn[c].start, n |-> nn[c].n + 1]
    <3>1. nn[c] \in Numbered
      BY <1>7, <2>2 DEF In
    <3> HIDE DEF c
    <3> QED BY <3>1 DEF Numbered
  <2> HIDE DEF c
  <2> QED BY <2>1, <2>2 DEF Next_n, Start
<1>12. r \in Nat
  BY <1>7 DEF In
<1>13. reports' = Put(rr, c, IF told THEN r + 1 ELSE r)
  <2>1. reports' = Put(rr, c, r + (IF Verdict(Rule[a.sid], win.count + 1, win) THEN 1 ELSE 0))
    BY <1>6 DEF Number, In
  <2>2. Verdict(Rule[a.sid], win.count + 1, win) <=> told
    BY <1>5, <1>9
  <2>3. r + (IF told THEN 1 ELSE 0) = IF told THEN r + 1 ELSE r
    <3> HIDE DEF r, told
    <3> QED BY <1>12
  <2> HIDE DEF r, told, c
  <2> QED BY <2>1, <2>2, <2>3, Zenon
<1>14. Matched(c, a.ts, nn, rr)
  BY <1>11, <1>13 DEF Matched
<1>15. next \in Window
  <2>1. next = [start |-> next.start, count |-> next.count, reported |-> next.reported]
    BY DEF Counted
  <2>2. next.start \in Nat
    BY <1>2, <1>5, <1>9
  <2> HIDE DEF next
  <2> QED BY <1>5, <2>1, <2>2, Zenon DEF Window
<1>16. Agrees(c, next, m)
  <2>1. next.start = m.start /\ m.n = n + 1
    BY <1>2, <1>5, <1>9
  <2> HIDE DEF next, m, n
  <2> QED BY <1>5, <1>6, <2>1 DEF Agrees
<1> HIDE DEF next, m, told, r, c
<1>17. windows' = Put(w1, c, next)
  BY DEF next, c
<1>18. /\ DOMAIN windows' = DOMAIN w1 \cup {c}
       /\ \A d \in DOMAIN windows' : windows'[d] = IF d = c THEN next ELSE w[d]
  BY <1>1, <1>17 DEF Put
<1>19. /\ DOMAIN numbered' = DOMAIN nn \cup {c}
       /\ \A d \in DOMAIN numbered' : numbered'[d] = IF d = c THEN m ELSE nn[d]
  BY <1>11 DEF Put
<1>20. /\ DOMAIN reports' = DOMAIN rr \cup {c}
       /\ \A d \in DOMAIN reports' : reports'[d] \in Nat
  BY <1>7, <1>12, <1>13 DEF Put
<1>21. windows' \in [DOMAIN windows' -> Window]
  <2>1. \A d \in DOMAIN windows' : windows'[d] \in Window
    BY <1>1, <1>7, <1>15, <1>18
  <2> QED BY <1>17, <2>1 DEF Put
<1>22. numbered' \in [DOMAIN numbered' -> Numbered]
  <2>1. \A d \in DOMAIN numbered' : numbered'[d] \in Numbered
    BY <1>7, <1>10, <1>19
  <2> QED BY <1>11, <2>1 DEF Put
<1>23. \A d \in DOMAIN windows' : d \in DOMAIN numbered' /\ Agrees(d, windows'[d], numbered'[d])
  BY <1>1, <1>7, <1>16, <1>18, <1>19
<1>24. \A d \in DOMAIN numbered' : d \in DOMAIN windows' \/ newest' - numbered'[d].start >= Longest
  <2>1. ASSUME NEW d \in DOMAIN nn, d # c, d \notin DOMAIN w1
        PROVE  now - nn[d].start >= Longest
    <3>1. CASE d \in DOMAIN w
      BY <1>1, <1>7, <2>1, <3>1 DEF Agrees
    <3>2. CASE d \notin DOMAIN w
      BY <1>1, <1>6, <1>7, <1>8, <2>1, <3>2
    <3> QED BY <3>1, <3>2
  <2> QED BY <1>18, <1>19, <2>1
<1>25. DOMAIN numbered' \subseteq AllCounters /\ DOMAIN reports' = DOMAIN numbered' /\ newest' \in Nat
  BY <1>1, <1>6, <1>7, <1>19, <1>20 DEF c
<1> QED
  BY <1>14, <1>20, <1>21, <1>22, <1>23, <1>24, <1>25 DEF Follows, c

-----------------------------------------------------------------------------
(* settle(): an alert that is not counted leaves the windows alone.        *)

Stays(nn, rr) == numbered' = nn /\ reports' = rr

LEMMA LaterFollows ==
  ASSUME NEW w, NEW nn, NEW rr, NEW t, NEW now \in Nat, Follows(w, nn, rr, t), now >= t
  PROVE  Follows(w, nn, rr, now)
<1>1. t \in Nat /\ \A c \in DOMAIN nn : nn[c].start \in Nat
  BY DEF Follows, Numbered
<1>2. Longest \in Nat
  BY GateAssumption
<1>3. \A c \in DOMAIN nn : t - nn[c].start >= Longest => now - nn[c].start >= Longest
  BY <1>1, <1>2
<1> QED
  BY <1>3 DEF Follows

LEMMA SettleIs ==
  ASSUME setting \in Settings, passed \in Nat, withheld \in Nat, NEW a \in Alert,
         NEW w, NEW b, NEW t, NEW nn, NEW rr, NEW ab,
         Follows(w, nn, rr, t), a.ts >= t - Lateness(setting),
         Settle(a, w, b, t, nn, rr, ab)
  PROVE  /\ Follows(windows', numbered', reports', newest')
         /\ Stays(nn, rr) \/ Matched(Counter(a), a.ts, nn, rr)
         /\ newest' = t \/ newest' = Newer(t, a.ts)
         /\ Rule[a.sid].kind = None /\ Rule[a.sid].ops = <<>> => newest' = t
         /\ passed' \in Nat /\ withheld' \in Nat
<1> DEFINE r == Rule[a.sid]
           now == Newer(t, a.ts)
           w1 == KeptWindows(w, now)
           win == Current(w1, a)
<1>1. a.ts \in Nat /\ t \in Nat /\ now \in Nat /\ now >= t
  BY AlertIs DEF Follows, Newer
<1>2. Follows(w, nn, rr, t) /\ Follows(w, nn, rr, now)
  BY <1>1, LaterFollows
<1>3. \/ windows' = w /\ Stays(nn, rr) /\ (newest' = t \/ newest' = now)
      \/ /\ ~r.noalert /\ r.kind # None /\ newest' = now
         /\ windows' = Put(w1, Counter(a), Counted(r, win.count + 1, win))
         /\ Number(nn, rr, a, Verdict(r, win.count + 1, win))
  BY DEF Settle, Stays
<1>4. r.kind = None /\ r.ops = <<>> => newest' = t
  BY DEF Settle
<1>5. passed' \in Nat /\ withheld' \in Nat
  BY DEF Settle, stats
<1>6. CASE windows' = w /\ Stays(nn, rr) /\ (newest' = t \/ newest' = now)
  BY <1>2, <1>4, <1>5, <1>6 DEF Stays
<1>7. CASE /\ ~r.noalert /\ r.kind # None /\ newest' = now
           /\ windows' = Put(w1, Counter(a), Counted(r, win.count + 1, win))
           /\ Number(nn, rr, a, Verdict(r, win.count + 1, win))
  <2>1. Follows(windows', numbered', reports', newest') /\ Matched(Counter(a), a.ts, nn, rr)
    BY <1>7, AdmitIs
  <2> QED BY <1>5, <1>7, <2>1
<1> QED
  BY <1>3, <1>6, <1>7

-----------------------------------------------------------------------------
(* The state of the gate. *)

StateOK ==
  /\ setting \in Settings
  /\ pc \in {"run", "batch", "end", "done"}
  /\ reloads \in Nat /\ generation \in Nat /\ passed \in Nat /\ withheld \in Nat
  /\ clock \in Nat /\ arrived \in Nat /\ arrived <= MaxAlerts
  /\ held \in Seq(Alert) /\ log \in Seq(Alert)
  /\ pc = "run" => Len(held) < setting.maxHeld
  /\ Len(held) <= setting.maxHeld

(* No alert that waits is later than it may be. *)
InTime ==
  /\ newest <= clock
  /\ \A i \in DOMAIN held : held[i].ts <= clock /\ held[i].ts >= newest - Lateness(setting)

(* What is held when, and what a replay that is one batch has settled. *)
Waiting ==
  /\ ~setting.ordered => held = <<>> /\ log = <<>>
  /\ OneBatch(setting) =>
       /\ Len(held) <= arrived /\ pc # "batch"
       /\ pc = "run" => newest = 0 /\ log = <<>>

LogFirst ==
  OneBatch(setting) =>
    /\ \A i, j \in DOMAIN log : i < j => ~Before(log[j], log[i])
    /\ \A i \in DOMAIN log, j \in DOMAIN held : ~Before(held[j], log[i])

IInv ==
  /\ StateOK
  /\ Follows(windows, numbered, reports, newest)
  /\ InTime
  /\ Waiting
  /\ LogFirst

(* Sorting is by a total order of the fields. *)
LEMMA BeforeOrder ==
  ASSUME setting \in Settings, NEW a \in Alert, NEW b \in Alert, NEW c \in Alert,
         ~Before(b, a), ~Before(c, b)
  PROVE  ~Before(c, a) /\ ~Before(a, a)
<1>1. /\ a.ts \in Nat /\ b.ts \in Nat /\ c.ts \in Nat
      /\ a.sid \in Nat /\ b.sid \in Nat /\ c.sid \in Nat
      /\ a.src \in Nat /\ b.src \in Nat /\ c.src \in Nat
  BY AlertIs, GateAssumption
<1> QED
  BY <1>1 DEF Before

(* What stands at a place of two sequences joined. *)
LEMMA JoinedAt ==
  ASSUME NEW S, NEW x \in Seq(S), NEW y \in Seq(S), NEW j \in 1 .. Len(x) + Len(y)
  PROVE  (x \o y)[j] = IF j <= Len(x) THEN x[j] ELSE y[j - Len(x)]
OBVIOUS

(* A sequence less one place has one fewer, each of them its own.          *)
LEMMA RemoveAtIs ==
  ASSUME NEW S, NEW s \in Seq(S), NEW i \in DOMAIN s
  PROVE  /\ RemoveAt(s, i) \in Seq(S) /\ Len(RemoveAt(s, i)) = Len(s) - 1
         /\ \A j \in DOMAIN RemoveAt(s, i) : \E k \in DOMAIN s : RemoveAt(s, i)[j] = s[k]
<1> DEFINE x == SubSeq(s, 1, i - 1)
           y == SubSeq(s, i + 1, Len(s))
<1>1. i \in 1 .. Len(s) /\ Len(s) \in Nat
  OBVIOUS
<1>2. x \in Seq(S) /\ Len(x) = i - 1 /\ \A j \in 1 .. i - 1 : x[j] = s[j]
  BY <1>1
<1>3. y \in Seq(S) /\ Len(y) = Len(s) - i /\ \A j \in 1 .. Len(s) - i : y[j] = s[i + j]
  BY <1>1
<1>4. RemoveAt(s, i) = x \o y
  BY DEF RemoveAt
<1> HIDE DEF x, y
<1>5. x \o y \in Seq(S) /\ Len(x \o y) = Len(s) - 1
  BY <1>1, <1>2, <1>3
<1>6. ASSUME NEW j \in 1 .. Len(s) - 1
      PROVE  \E k \in DOMAIN s : (x \o y)[j] = s[k]
  <2>0. /\ i \in Nat /\ j \in Nat /\ Len(s) \in Nat /\ DOMAIN s = 1 .. Len(s)
        /\ 1 <= i /\ i <= Len(s) /\ 1 <= j /\ j <= Len(s) - 1
    BY <1>1
  <2>a. (x \o y)[j] = IF j <= Len(x) THEN x[j] ELSE y[j - Len(x)]
    <3>1. j \in 1 .. Len(x) + Len(y) /\ x \in Seq(S) /\ y \in Seq(S)
      BY <1>2, <1>3, <2>0
    <3> QED BY <3>1, JoinedAt
  <2>1. CASE j <= i - 1
    <3>1. (x \o y)[j] = x[j] /\ j \in 1 .. i - 1
      BY <1>2, <2>0, <2>1, <2>a
    <3>2. j \in DOMAIN s
      BY <2>0
    <3> QED BY <1>2, <3>1, <3>2
  <2>2. CASE j > i - 1
    <3> DEFINE k == j - (i - 1)
    <3>1. k \in 1 .. Len(s) - i /\ i + k = j + 1 /\ j + 1 \in DOMAIN s
      BY <2>0, <2>2
    <3>2. (x \o y)[j] = y[k]
      BY <1>2, <2>0, <2>2, <2>a
    <3> HIDE DEF k
    <3>3. y[k] = s[j + 1]
      BY <1>3, <3>1
    <3> QED BY <3>1, <3>2, <3>3
  <2>3. j <= i - 1 \/ j > i - 1
    BY <1>1
  <2> QED BY <2>1, <2>2, <2>3
<1>7. DOMAIN (x \o y) = 1 .. Len(s) - 1
  BY <1>5
<1> QED
  BY <1>4, <1>5, <1>6, <1>7

(* One step of the gate is a match of RateControl's, a match after it has  *)
(* started over, its starting over, or nothing it sees.                    *)
RateStep ==
  \/ \E a \in Alert : Matched(Counter(a), a.ts, numbered, reports)
  \/ \E a \in Alert : Matched(Counter(a), a.ts, <<>>, <<>>)
  \/ Stays(<<>>, <<>>)
  \/ Stays(numbered, reports)

LEMMA EmptyFollows == Follows(<<>>, <<>>, <<>>, 0)
BY DEF Follows

LEMMA ReloadKeeps ==
  ASSUME IInv, Reload
  PROVE  IInv' /\ RateStep
<1>1. /\ reloads' = reloads + 1
      /\ UNCHANGED <<setting, pc, generation, windows, bits, newest, held, passed, withheld>>
      /\ UNCHANGED <<arrived, clock, log, numbered, reports, allBits>>
  BY DEF Reload, gate, stats, ghost
<1>2. StateOK'
  BY <1>1 DEF IInv, StateOK, Alert
<1>3. InTime' /\ Waiting' /\ LogFirst' /\ Follows(windows, numbered, reports, newest)'
  BY <1>1 DEF IInv, InTime, Waiting, LogFirst
<1> QED
  BY <1>1, <1>2, <1>3 DEF IInv, RateStep, Stays

LEMMA DisconnectedKeeps ==
  ASSUME IInv, Disconnected
  PROVE  IInv' /\ RateStep
<1>1. /\ pc = "run" /\ pc' = "end"
      /\ UNCHANGED <<setting, reloads, generation, windows, bits, newest, held, passed, withheld>>
      /\ UNCHANGED <<arrived, clock, log, numbered, reports, allBits>>
  BY DEF Disconnected, gate, stats, ghost
<1>2. StateOK'
  BY <1>1 DEF IInv, StateOK, Alert
<1>3. InTime' /\ Waiting' /\ LogFirst' /\ Follows(windows, numbered, reports, newest)'
  BY <1>1 DEF IInv, InTime, Waiting, LogFirst
<1> QED
  BY <1>1, <1>2, <1>3 DEF IInv, RateStep, Stays

LEMMA SettledKeeps ==
  ASSUME IInv, Settled
  PROVE  IInv' /\ RateStep
<1>1. /\ pc \in {"batch", "end"} /\ held = <<>> /\ pc' = IF pc = "batch" THEN "run" ELSE "done"
      /\ UNCHANGED <<setting, reloads, generation, windows, bits, newest, held, passed, withheld>>
      /\ UNCHANGED <<arrived, clock, log, numbered, reports, allBits>>
  BY DEF Settled, gate, stats, ghost
<1>2. StateOK'
  <2>1. setting.maxHeld \in Nat \ {0}
    BY GateAssumption DEF IInv, StateOK, Setting
  <2> QED BY <1>1, <2>1 DEF IInv, StateOK, Alert
<1>3. InTime' /\ LogFirst' /\ Follows(windows, numbered, reports, newest)'
  BY <1>1 DEF IInv, InTime, LogFirst
<1>4. Waiting'
  BY <1>1 DEF IInv, Waiting
<1> QED
  BY <1>1, <1>2, <1>3, <1>4 DEF IInv, RateStep, Stays

LEMMA SettleHeldKeeps ==
  ASSUME IInv, SettleHeld
  PROVE  IInv' /\ RateStep
<1>1. PICK i \in DOMAIN held :
        /\ \A j \in DOMAIN held : ~Before(held[j], held[i])
        /\ Settle(held[i], windows, bits, newest, numbered, reports, allBits)
        /\ held' = RemoveAt(held, i)
        /\ log' = Append(log, held[i])
  BY DEF SettleHeld
<1> DEFINE a == held[i]
<1>2. /\ pc \in {"batch", "end"}
      /\ UNCHANGED <<setting, pc, reloads, generation, arrived, clock>>
  BY DEF SettleHeld
<1>3. /\ setting \in Settings /\ passed \in Nat /\ withheld \in Nat
      /\ held \in Seq(Alert) /\ log \in Seq(Alert)
      /\ Len(held) <= setting.maxHeld /\ setting.maxHeld \in Nat \ {0}
  BY GateAssumption DEF IInv, StateOK, Setting
<1>4. a \in Alert /\ \A j \in DOMAIN held : held[j] \in Alert
  BY <1>3
<1>5. /\ newest <= clock /\ newest \in Nat /\ clock \in Nat
      /\ \A j \in DOMAIN held : held[j].ts <= clock /\ held[j].ts >= newest - Lateness(setting)
  BY DEF IInv, InTime, Follows, StateOK
<1>6. \A j \in DOMAIN held : held[j].ts \in Nat /\ Lateness(setting) \in Nat
  BY <1>3, <1>4, AlertIs
<1>7. /\ Follows(windows', numbered', reports', newest')
      /\ Stays(numbered, reports) \/ Matched(Counter(a), a.ts, numbered, reports)
      /\ newest' = newest \/ newest' = Newer(newest, a.ts)
      /\ passed' \in Nat /\ withheld' \in Nat
  BY <1>1, <1>3, <1>4, <1>5, SettleIs DEF IInv
<1>8. /\ held' \in Seq(Alert) /\ Len(held') = Len(held) - 1
      /\ \A j \in DOMAIN held' : \E k \in DOMAIN held : held'[j] = held[k]
  BY <1>1, <1>3, RemoveAtIs
<1>9. /\ log' \in Seq(Alert) /\ Len(log') = Len(log) + 1 /\ Len(log) \in Nat
      /\ \A j \in 1 .. Len(log) : log'[j] = log[j]
      /\ log'[Len(log) + 1] = a
  BY <1>1, <1>3, <1>4
<1> HIDE DEF a
<1>10. StateOK'
  <2>1. Len(held) \in Nat
    BY <1>3
  <2>2. held' \in Seq(Alert)' /\ log' \in Seq(Alert)'
    BY <1>2, <1>8, <1>9 DEF Alert
  <2> QED BY <1>2, <1>3, <1>7, <1>8, <2>1, <2>2 DEF IInv, StateOK
<1>11. InTime'
  <2>1. a.ts \in Nat /\ a.ts <= clock
    BY <1>5, <1>6 DEF a
  <2>2. newest' <= clock
    BY <1>5, <1>7, <2>1 DEF Newer
  <2>3. \A j \in DOMAIN held : held[j].ts >= a.ts
    <3>1. \A j \in DOMAIN held : ~(held[j].ts < a.ts)
      BY <1>1 DEF Before, a
    <3> QED BY <1>6, <2>1, <3>1
  <2>4. \A j \in DOMAIN held : held[j].ts >= newest' - Lateness(setting)
    BY <1>5, <1>6, <1>7, <2>1, <2>3 DEF Newer
  <2>5. \A j \in DOMAIN held' : held'[j].ts <= clock /\ held'[j].ts >= newest' - Lateness(setting)
    BY <1>5, <1>8, <2>4
  <2> QED BY <1>2, <2>2, <2>5 DEF InTime, Lateness, OneBatch
<1>12. Waiting'
  <2>1. Len(held') <= Len(held) /\ Len(held) \in Nat /\ Len(held') \in Nat
    BY <1>3, <1>8
  <2>2. setting.ordered
    BY <1>1 DEF IInv, Waiting
  <2> QED BY <1>2, <2>1, <2>2 DEF IInv, Waiting, StateOK, OneBatch
<1>13. LogFirst'
  <2> SUFFICES ASSUME OneBatch(setting)
               PROVE  /\ \A j, k \in DOMAIN log' : j < k => ~Before(log'[k], log'[j])
                      /\ \A j \in DOMAIN log', k \in DOMAIN held' : ~Before(held'[k], log'[j])
    BY <1>2 DEF LogFirst, OneBatch
  <2>1. /\ \A j, k \in DOMAIN log : j < k => ~Before(log[k], log[j])
        /\ \A j \in DOMAIN log, k \in DOMAIN held : ~Before(held[k], log[j])
    BY DEF IInv, LogFirst
  <2>2. DOMAIN log = 1 .. Len(log) /\ DOMAIN log' = 1 .. Len(log) + 1
    BY <1>3, <1>9
  <2>3. \A j \in DOMAIN log : ~Before(a, log[j])
    BY <2>1 DEF a
  <2>4. \A k \in DOMAIN held : ~Before(held[k], a)
    BY <1>1 DEF a
  <2>5. ASSUME NEW j \in DOMAIN log', NEW k \in DOMAIN log', j < k
        PROVE  ~Before(log'[k], log'[j])
    <3>1. j \in 1 .. Len(log) /\ k \in 1 .. Len(log) + 1
      BY <1>9, <2>2, <2>5
    <3>2. CASE k = Len(log) + 1
      BY <1>9, <2>2, <2>3, <3>1, <3>2
    <3>3. CASE k # Len(log) + 1
      BY <1>9, <2>1, <2>2, <2>5, <3>1, <3>3
    <3> QED BY <3>2, <3>3
  <2>6. ASSUME NEW j \in DOMAIN log', NEW k \in DOMAIN held
        PROVE  ~Before(held[k], log'[j])
    <3>1. CASE j = Len(log) + 1
      BY <1>9, <2>4, <3>1
    <3>2. CASE j # Len(log) + 1
      BY <1>9, <2>1, <2>2, <3>2
    <3> QED BY <3>1, <3>2
  <2> QED BY <1>8, <2>5, <2>6
<1>14. RateStep
  BY <1>4, <1>7 DEF RateStep, a
<1> QED
  BY <1>7, <1>10, <1>11, <1>12, <1>13, <1>14 DEF IInv

(* An alert is settled, or held, as it comes: the gate is as it was, or    *)
(* has started over.                                                       *)
LEMMA ArrivalInTime ==
  ASSUME IInv, NEW a \in Alert, pc = "run", a.ts >= clock - setting.late
  PROVE  a.ts >= newest - Lateness(setting) /\ a.ts >= 0 - Lateness(setting)
<1>1. /\ a.ts \in Nat /\ Lateness(setting) \in Nat
  BY AlertIs DEF IInv, StateOK
<1>2. setting.late \in Nat
  BY GateAssumption DEF IInv, StateOK, Setting
<1>3. newest \in Nat /\ clock \in Nat /\ newest <= clock
  BY DEF IInv, StateOK, InTime, Follows
<1>4. CASE OneBatch(setting)
  BY <1>1, <1>4 DEF IInv, Waiting
<1>5. CASE ~OneBatch(setting)
  BY <1>1, <1>2, <1>3, <1>5 DEF Lateness
<1> QED
  BY <1>4, <1>5

LEMMA ReceiveKeeps ==
  ASSUME IInv, NEW a \in Alert, Receive(a)
  PROVE  IInv' /\ RateStep
<1> DEFINE again == generation # reloads
           free == Rule[a.sid].kind = None /\ Rule[a.sid].ops = <<>>
<1>1. /\ pc = "run" /\ arrived < MaxAlerts /\ a.ts >= clock - setting.late
      /\ arrived' = arrived + 1 /\ clock' = Newer(clock, a.ts) /\ generation' = reloads
      /\ UNCHANGED <<setting, reloads, log>>
  BY DEF Receive
<1>2. /\ setting \in Settings /\ passed \in Nat /\ withheld \in Nat
      /\ arrived \in Nat /\ arrived <= MaxAlerts /\ MaxAlerts \in Nat /\ clock \in Nat
      /\ reloads \in Nat /\ held \in Seq(Alert) /\ log \in Seq(Alert)
      /\ Len(held) < setting.maxHeld /\ setting.maxHeld \in Nat \ {0} /\ Len(held) \in Nat
  BY <1>1, GateAssumption DEF IInv, StateOK, Setting
<1>3. a.ts \in Nat /\ Lateness(setting) \in Nat
  BY <1>2, AlertIs
<1>4. /\ newest <= clock /\ newest \in Nat
      /\ \A j \in DOMAIN held : held[j].ts <= clock /\ held[j].ts >= newest - Lateness(setting)
  BY DEF IInv, InTime, Follows
<1>5. \A j \in DOMAIN held : held[j].ts \in Nat
  BY <1>2, AlertIs
<1>6. a.ts >= newest - Lateness(setting) /\ a.ts >= 0 - Lateness(setting)
  BY <1>1, ArrivalInTime
<1>7. clock' \in Nat /\ clock' >= clock /\ clock' >= a.ts
  BY <1>1, <1>2, <1>3 DEF Newer
<1>8. CASE /\ setting.ordered /\ ~free
           /\ held' = Append(held, a)
           /\ pc' = IF Batch THEN "batch" ELSE pc
           /\ IF again
                THEN /\ windows' = <<>> /\ bits' = <<>> /\ newest' = 0
                     /\ numbered' = <<>> /\ reports' = <<>> /\ allBits' = <<>>
                ELSE UNCHANGED <<gate, numbered, reports, allBits>>
           /\ UNCHANGED stats
  <2>1. /\ Follows(windows', numbered', reports', newest') /\ RateStep
        /\ newest' = 0 \/ newest' = newest
    <3>1. CASE again
      <4>1. windows' = <<>> /\ numbered' = <<>> /\ reports' = <<>> /\ newest' = 0
        BY <1>8, <3>1
      <4> QED BY <4>1, EmptyFollows DEF RateStep, Stays
    <3>2. CASE ~again
      <4>1. UNCHANGED <<windows, numbered, reports, newest>>
        BY <1>8, <3>2 DEF gate
      <4> QED BY <4>1 DEF IInv, RateStep, Stays
    <3> QED BY <3>1, <3>2
  <2>2. /\ Len(held') = Len(held) + 1 /\ held' \in Seq(Alert)
        /\ \A j \in DOMAIN held' : (j \in DOMAIN held /\ held'[j] = held[j]) \/ held'[j] = a
    BY <1>2, <1>8
  <2>3. StateOK'
    <3>1. pc' = IF Len(held) + 1 >= setting.maxHeld THEN "batch" ELSE "run"
      BY <1>1, <1>8 DEF Batch
    <3>2. held' \in Seq(Alert)' /\ log' \in Seq(Alert)'
      BY <1>1, <1>2, <2>2 DEF Alert
    <3>3. passed' \in Nat /\ withheld' \in Nat
      BY <1>2, <1>8 DEF stats
    <3> QED BY <1>1, <1>2, <1>7, <2>2, <3>1, <3>2, <3>3 DEF StateOK
  <2>4. InTime'
    <3>1. \A j \in DOMAIN held : held[j].ts >= newest' - Lateness(setting)
      BY <1>3, <1>4, <1>5, <2>1
    <3>2. a.ts >= newest' - Lateness(setting)
      BY <1>6, <2>1
    <3>3. \A j \in DOMAIN held' : held'[j].ts <= clock' /\ held'[j].ts >= newest' - Lateness(setting)
      <4>1. \A j \in DOMAIN held : held[j].ts <= clock'
        BY <1>2, <1>4, <1>5, <1>7
      <4> QED BY <1>7, <2>2, <3>1, <3>2, <4>1
    <3>4. newest' <= clock'
      BY <1>2, <1>4, <1>7, <2>1
    <3> QED BY <1>1, <3>3, <3>4 DEF InTime, Lateness, OneBatch
  <2>5. Waiting' /\ LogFirst'
    <3>1. OneBatch(setting) => /\ Len(held) <= arrived /\ newest = 0 /\ log = <<>>
                               /\ MaxAlerts < setting.maxHeld
      BY <1>1 DEF IInv, Waiting, OneBatch
    <3>2. OneBatch(setting) => Len(held') <= arrived' /\ ~Batch
      BY <1>1, <1>2, <2>2, <3>1 DEF Batch
    <3>3. OneBatch(setting) => pc' = "run" /\ newest' = 0 /\ log' = <<>>
      BY <1>1, <1>8, <2>1, <3>1, <3>2
    <3>4. Waiting'
      BY <1>1, <1>8, <3>2, <3>3 DEF Waiting, OneBatch
    <3> QED BY <1>1, <3>3, <3>4 DEF LogFirst, OneBatch
  <2> QED BY <2>1, <2>3, <2>4, <2>5 DEF IInv
<1>9. CASE /\ ~setting.ordered \/ free
           /\ IF again THEN Settle(a, <<>>, <<>>, 0, <<>>, <<>>, <<>>)
                       ELSE Settle(a, windows, bits, newest, numbered, reports, allBits)
           /\ UNCHANGED <<pc, held>>
  <2>1. /\ Follows(windows', numbered', reports', newest') /\ RateStep
        /\ newest' <= clock' /\ newest' \in Nat /\ passed' \in Nat /\ withheld' \in Nat
        /\ free => newest' = 0 \/ newest' = newest
    <3>1. CASE again
      <4>1. Settle(a, <<>>, <<>>, 0, <<>>, <<>>, <<>>) /\ Follows(<<>>, <<>>, <<>>, 0)
        BY <1>9, <3>1, EmptyFollows
      <4>2. /\ Follows(windows', numbered', reports', newest')
            /\ Stays(<<>>, <<>>) \/ Matched(Counter(a), a.ts, <<>>, <<>>)
            /\ newest' = 0 \/ newest' = Newer(0, a.ts)
            /\ free => newest' = 0
            /\ passed' \in Nat /\ withheld' \in Nat
        BY <1>2, <1>6, <4>1, SettleIs
      <4>3. newest' \in Nat /\ newest' <= clock'
        BY <1>3, <1>7, <4>2 DEF Newer
      <4> QED BY <4>2, <4>3 DEF RateStep
    <3>2. CASE ~again
      <4>1. /\ Settle(a, windows, bits, newest, numbered, reports, allBits)
            /\ Follows(windows, numbered, reports, newest)
        BY <1>9, <3>2 DEF IInv
      <4>2. /\ Follows(windows', numbered', reports', newest')
            /\ Stays(numbered, reports) \/ Matched(Counter(a), a.ts, numbered, reports)
            /\ newest' = newest \/ newest' = Newer(newest, a.ts)
            /\ free => newest' = newest
            /\ passed' \in Nat /\ withheld' \in Nat
        BY <1>2, <1>6, <4>1, SettleIs
      <4>3. newest' \in Nat /\ newest' <= clock'
        BY <1>2, <1>3, <1>4, <1>7, <4>2 DEF Newer
      <4> QED BY <4>2, <4>3 DEF RateStep
    <3> QED BY <3>1, <3>2
  <2>2. ~setting.ordered => held = <<>> /\ log = <<>>
    BY DEF IInv, Waiting
  <2>3. StateOK'
    <3>1. held' \in Seq(Alert)' /\ log' \in Seq(Alert)'
      BY <1>1, <1>2, <1>9 DEF Alert
    <3> QED BY <1>1, <1>2, <1>7, <1>9, <2>1, <3>1 DEF StateOK
  <2>4. InTime'
    <3>1. \A j \in DOMAIN held : held[j].ts <= clock' /\ held[j].ts >= newest' - Lateness(setting)
      <4>1. CASE free
        BY <1>2, <1>3, <1>4, <1>5, <1>7, <2>1, <4>1
      <4>2. CASE ~setting.ordered
        BY <2>2, <4>2
      <4> QED BY <1>9, <4>1, <4>2
    <3> QED BY <1>1, <1>9, <2>1, <3>1 DEF InTime, Lateness, OneBatch
  <2>5. Waiting'
    <3>1. OneBatch(setting) => Len(held) <= arrived /\ newest = 0 /\ log = <<>> /\ setting.ordered
      BY <1>1 DEF IInv, Waiting, OneBatch
    <3>2. OneBatch(setting) => newest' = 0
      BY <1>9, <2>1, <3>1
    <3>3. Len(held) <= arrived => Len(held) <= arrived'
      BY <1>1, <1>2
    <3> QED BY <1>1, <1>9, <2>2, <3>1, <3>2, <3>3 DEF Waiting, OneBatch
  <2>6. LogFirst'
    BY <1>1, <1>9 DEF IInv, LogFirst, OneBatch
  <2> QED BY <2>1, <2>3, <2>4, <2>5, <2>6 DEF IInv
<1> QED
  BY <1>8, <1>9 DEF Receive

LEMMA StepKeeps ==
  ASSUME IInv, Next
  PROVE  IInv' /\ RateStep
BY ReloadKeeps, ReceiveKeeps, DisconnectedKeeps, SettleHeldKeeps, SettledKeeps DEF Next

-----------------------------------------------------------------------------
(* What RateControl makes of a match. *)

LEMMA MatchIs ==
  ASSUME setting \in Settings, NEW a \in Alert,
         Matched(Counter(a), a.ts, numbered, reports)
  PROVE  Rate!Match(Counter(a), a.ts)
<1> DEFINE c == Counter(a)
<1>1. c \in Sids \X (Sources \cup {None})
  BY AlertIs DEF AllCounters
<1> HIDE DEF c
<1>2. /\ [d \in Sids \X (Sources \cup {None}) |-> Rule[d[1]].kind][c] = Rule[c[1]].kind
      /\ [d \in Sids \X (Sources \cup {None}) |-> Rule[d[1]].count][c] = Rule[c[1]].count
      /\ [d \in Sids \X (Sources \cup {None}) |-> Rule[d[1]].span][c] = Rule[c[1]].span
  BY <1>1
<1>3. Rate!Same(c, a.ts) <=> In(c, a.ts, numbered)
  BY <1>2 DEF Rate!Same, In
<1>4. \A f, v : Rate!Put(f, c, v) = Put(f, c, v)
  BY DEF Rate!Put, Put
<1>5. Matched(c, a.ts, numbered, reports)
  BY DEF c
<1>6. Rate!Match(c, a.ts)
  BY <1>2, <1>3, <1>4, <1>5, Zenon DEF Rate!Match, Matched, Next_n, Start, Told
<1> QED
  BY <1>6 DEF c

LEMMA AgainIs ==
  ASSUME setting \in Settings, NEW a \in Alert, Matched(Counter(a), a.ts, <<>>, <<>>)
  PROVE  Rate!Again(Counter(a), a.ts)
<1> DEFINE c == Counter(a)
<1>1. c \in Sids \X (Sources \cup {None})
  BY AlertIs DEF AllCounters
<1>2. Matched(c, a.ts, <<>>, <<>>)
  OBVIOUS
<1> HIDE DEF c
<1>3. /\ [d \in Sids \X (Sources \cup {None}) |-> Rule[d[1]].kind][c] = Rule[c[1]].kind
      /\ [d \in Sids \X (Sources \cup {None}) |-> Rule[d[1]].count][c] = Rule[c[1]].count
  BY <1>1
<1>4. \A v : Put(<<>>, c, v) = [d \in {c} |-> v]
  BY DEF Put
<1>5. ~In(c, a.ts, <<>>)
  BY DEF In
<1>6. numbered' = [d \in {c} |-> [start |-> a.ts, n |-> 1]]
  BY <1>2, <1>4, <1>5 DEF Matched, Next_n, Start
<1>7. reports' = [d \in {c} |-> IF Told(c, 1) THEN 1 ELSE 0]
  BY <1>2, <1>4, <1>5 DEF Matched, Next_n
<1>8. Rate!Again(c, a.ts)
  BY <1>3, <1>6, <1>7 DEF Rate!Again, Told
<1> QED
  BY <1>8 DEF c

LEMMA RateSteps ==
  ASSUME setting \in Settings, RateStep
  PROVE  [Rate!Next]_(Rate!vars)
<1>1. ASSUME NEW a \in Alert, Matched(Counter(a), a.ts, numbered, reports)
      PROVE  Rate!Next
  <2>1. Rate!Match(Counter(a), a.ts)
    BY <1>1, MatchIs
  <2>2. Counter(a) \in Sids \X (Sources \cup {None}) /\ a.ts \in Times
    BY AlertIs DEF AllCounters
  <2> QED BY <2>1, <2>2 DEF Rate!Next
<1>2. ASSUME NEW a \in Alert, Matched(Counter(a), a.ts, <<>>, <<>>)
      PROVE  Rate!Next
  <2>1. Rate!Again(Counter(a), a.ts)
    BY <1>2, AgainIs
  <2>2. Counter(a) \in Sids \X (Sources \cup {None}) /\ a.ts \in Times
    BY AlertIs DEF AllCounters
  <2> QED BY <2>1, <2>2 DEF Rate!Next
<1>3. Stays(<<>>, <<>>) => Rate!Next
  BY DEF Stays, Rate!Next, Rate!StartOver
<1>4. Stays(numbered, reports) => UNCHANGED Rate!vars
  BY DEF Stays, Rate!vars
<1> QED
  BY <1>1, <1>2, <1>3, <1>4 DEF RateStep

-----------------------------------------------------------------------------

LEMMA Starts ==
  ASSUME Init
  PROVE  IInv
<1>1. setting.maxHeld \in Nat \ {0} /\ MaxAlerts \in Nat
  BY GateAssumption DEF Init, Setting
<1>2. StateOK
  BY <1>1 DEF Init, StateOK
<1> QED
  BY <1>2, EmptyFollows DEF Init, IInv, InTime, Waiting, LogFirst

LEMMA Rests ==
  ASSUME IInv, UNCHANGED vars
  PROVE  IInv'
<1>1. /\ UNCHANGED <<setting, pc, reloads, generation, windows, bits, newest, held>>
      /\ UNCHANGED <<passed, withheld, arrived, clock, log, numbered, reports, allBits>>
  BY DEF vars, gate, stats, ghost
<1> QED
  BY <1>1 DEF IInv, StateOK, Alert, InTime, Waiting, LogFirst

LEMMA Always == Spec => []IInv
<1>1. Init => IInv
  BY Starts
<1>2. IInv /\ [Next]_vars => IInv'
  BY StepKeeps, Rests
<1> QED
  BY <1>1, <1>2, PTL DEF Spec

(* The README's table of forms: whatever the rules, the order of arrival   *)
(* and the reloads, and however often the gate discards windows, it        *)
(* reports the matches whose number in their window calls for it.          *)
THEOREM CountsAsPromised == Spec => ImplementsRateControl
<1>1. Init => Rate!Init
  BY DEF Init, Rate!Init
<1>2. IInv /\ [Next]_vars => [Rate!Next]_(Rate!vars)
  <2>1. IInv /\ Next => [Rate!Next]_(Rate!vars)
    BY StepKeeps, RateSteps DEF IInv, StateOK
  <2>2. UNCHANGED vars => UNCHANGED Rate!vars
    BY DEF vars, ghost, Rate!vars
  <2> QED BY <2>1, <2>2
<1> QED
  BY <1>1, <1>2, Always, PTL DEF Spec, ImplementsRateControl, Rate!Spec

(* "The same capture always gives the same alerts": a replay that is one   *)
(* batch is counted in the order of its alerts' own fields, whatever order *)
(* the workers sent them in.                                               *)
THEOREM ReplayInOrder == Spec => []CountedInOrder
<1>1. IInv => CountedInOrder
  <2>1. IInv /\ ~setting.ordered => log = <<>>
    BY DEF IInv, Waiting
  <2>2. IInv /\ MaxAlerts < setting.maxHeld /\ setting.ordered =>
          \A i, j \in DOMAIN log : i < j => ~Before(log[j], log[i])
    BY DEF IInv, LogFirst, OneBatch
  <2> QED BY <2>1, <2>2 DEF CountedInOrder
<1> QED
  BY <1>1, Always, PTL

-----------------------------------------------------------------------------
(* The bits.  A rule's operations are taken in turn, so what they do is by *)
(* induction on how many have been: a least one that fails is not there.   *)

LEMMA NoneFails ==
  ASSUME NEW S \in SUBSET Nat, 0 \notin S, \A n \in Nat : n + 1 \in S => n \in S
  PROVE  S = {}
<1> SUFFICES ASSUME S # {}
             PROVE  FALSE
  OBVIOUS
<1>1. PICK m \in S : \A y \in S : <<y, m>> \notin OpToRel(<, Nat)
  BY NatLessThanWellFounded, WFMin
<1>2. \A y \in S : ~(y < m)
  BY <1>1 DEF OpToRel
<1>3. m \in Nat /\ m # 0
  OBVIOUS
<1>4. m - 1 \in Nat /\ (m - 1) + 1 = m
  BY <1>3
<1> QED
  BY <1>2, <1>3, <1>4

(* xbits_apply() has a state for each number of operations done. *)
Turns(f, b, a, n) ==
  f = [i \in 0 .. n |-> IF i = 0 THEN b ELSE Effect(f[i - 1], a, Rule[a.sid].ops[i])]

LEMMA TurnsExist ==
  ASSUME NEW b, NEW a, NEW n \in Nat
  PROVE  \E f : Turns(f, b, a, n)
<1> DEFINE S == {m \in Nat : ~ \E f : Turns(f, b, a, m)}
<1>1. 0 \notin S
  <2>1. Turns([i \in 0 .. 0 |-> b], b, a, 0)
    BY DEF Turns
  <2> QED BY <2>1
<1>2. ASSUME NEW m \in Nat, m \notin S
      PROVE  m + 1 \notin S
  <2>1. PICK f : Turns(f, b, a, m)
    BY <1>2
  <2> DEFINE g == [i \in 0 .. m + 1 |->
                     IF i <= m THEN f[i] ELSE Effect(f[m], a, Rule[a.sid].ops[m + 1])]
  <2>2. ASSUME NEW i \in 0 .. m + 1
        PROVE  g[i] = IF i = 0 THEN b ELSE Effect(g[i - 1], a, Rule[a.sid].ops[i])
    <3>1. CASE i = 0
      BY <2>1, <3>1 DEF Turns
    <3>2. CASE i # 0 /\ i <= m
      <4>1. i - 1 \in 0 .. m /\ i \in 0 .. m /\ i - 1 \in 0 .. m + 1
        BY <3>2
      <4>2. g[i - 1] = f[i - 1] /\ g[i] = f[i]
        BY <3>2, <4>1
      <4>3. f[i] = Effect(f[i - 1], a, Rule[a.sid].ops[i])
        BY <2>1, <3>2, <4>1 DEF Turns
      <4> HIDE DEF g
      <4> QED BY <3>2, <4>2, <4>3
    <3>3. CASE i = m + 1
      <4>1. g[i - 1] = f[m] /\ g[i] = Effect(f[m], a, Rule[a.sid].ops[m + 1])
        BY <3>3
      <4> HIDE DEF g
      <4> QED BY <3>3, <4>1
    <3> QED BY <3>1, <3>2, <3>3
  <2>3. g = [i \in 0 .. m + 1 |-> IF i = 0 THEN b ELSE Effect(g[i - 1], a, Rule[a.sid].ops[i])]
    <3>1. g = [i \in 0 .. m + 1 |-> g[i]]
      OBVIOUS
    <3> HIDE DEF g
    <3> QED BY <2>2, <3>1
  <2>4. Turns(g, b, a, m + 1)
    BY <2>3 DEF Turns
  <2> HIDE DEF g
  <2> QED BY <2>4
<1> HIDE DEF S
<1>3. \A m \in Nat : m + 1 \in S => m \in S
  BY <1>2
<1>4. S = {}
  BY <1>1, <1>3, NoneFails DEF S
<1> QED
  BY <1>4 DEF S

LEMMA AppliedIs ==
  ASSUME NEW b, NEW a, Len(Rule[a.sid].ops) \in Nat
  PROVE  \E f : Turns(f, b, a, Len(Rule[a.sid].ops)) /\ Applied(b, a) = f[Len(Rule[a.sid].ops)]
<1> DEFINE n == Len(Rule[a.sid].ops)
           h == CHOOSE f : Turns(f, b, a, n)
<1>1. Turns(h, b, a, n)
  BY TurnsExist
<1>2. Applied(b, a) = h[n]
  BY DEF Applied, Turns
<1> QED
  BY <1>1, <1>2

BitTable(b) == b \in [DOMAIN b -> Nat]

(* What is left of the bits is what they were, and what is missing is off. *)
Alike(b, ab, t) ==
  /\ \A k \in DOMAIN b : k \in DOMAIN ab /\ b[k] = ab[k]
  /\ \A k \in DOMAIN ab : ab[k] > t => k \in DOMAIN b

LEMMA EffectKeeps ==
  ASSUME NEW a, a.ts \in Nat, NEW op \in Ops, NEW b, NEW ab, BitTable(b), BitTable(ab)
  PROVE  /\ BitTable(Effect(b, a, op))
         /\ Alike(b, ab, a.ts) => Alike(Effect(b, a, op), Effect(ab, a, op), a.ts)
<1> DEFINE k == BitKey(a, op)
           until == a.ts + op.expire
           raised(x) == Put(x, k, until)
           cleared(x) == Restricted(x, DOMAIN x \ {k})
           Effected(x) == IF op.verb = "set" THEN raised(x)
                          ELSE IF op.verb = "unset" THEN cleared(x)
                          ELSE IF op.verb = "toggle" THEN IF IsSet(x, a, op) THEN cleared(x) ELSE raised(x)
                          ELSE x
<1>1. until \in Nat /\ op.verb \in Verbs
  BY DEF Ops
<1>2. \A x : Effect(x, a, op) = Effected(x)
  BY <1>1 DEF Effect, Verbs
<1>3. \A x : IsSet(x, a, op) <=> k \in DOMAIN x /\ a.ts < x[k]
  BY DEF IsSet
<1> HIDE DEF k, until
<1>4. \A x : BitTable(x) => BitTable(raised(x))
  BY <1>1 DEF BitTable, Put
<1>5. \A x : BitTable(x) => BitTable(cleared(x))
  BY DEF BitTable, Restricted
<1>6. Alike(b, ab, a.ts) => Alike(raised(b), raised(ab), a.ts)
  BY DEF Alike, Put
<1>7. Alike(b, ab, a.ts) => Alike(cleared(b), cleared(ab), a.ts)
  BY DEF Alike, Restricted
<1>8. Alike(b, ab, a.ts) => (IsSet(b, a, op) <=> IsSet(ab, a, op))
  <2>1. \A j \in DOMAIN ab : ab[j] \in Nat
    BY DEF BitTable
  <2> QED BY <1>3, <2>1 DEF Alike
<1> HIDE DEF raised, cleared
<1>9. BitTable(Effected(b)) /\ BitTable(Effected(ab))
  BY <1>4, <1>5
<1>10. Alike(b, ab, a.ts) => Alike(Effected(b), Effected(ab), a.ts)
  BY <1>6, <1>7, <1>8
<1> HIDE DEF Effected
<1> QED
  BY <1>2, <1>9, <1>10

LEMMA AppliedKeeps ==
  ASSUME NEW a, a.ts \in Nat, Rule[a.sid].ops \in Seq(Ops), NEW b, NEW ab, BitTable(b), BitTable(ab)
  PROVE  /\ BitTable(Applied(b, a)) /\ BitTable(Applied(ab, a))
         /\ Alike(b, ab, a.ts) => Alike(Applied(b, a), Applied(ab, a), a.ts)
<1> DEFINE ops == Rule[a.sid].ops
           n == Len(ops)
<1>1. n \in Nat /\ \A i \in 1 .. n : ops[i] \in Ops
  OBVIOUS
<1>2. PICK f : Turns(f, b, a, n) /\ Applied(b, a) = f[n]
  BY <1>1, AppliedIs
<1>3. PICK g : Turns(g, ab, a, n) /\ Applied(ab, a) = g[n]
  BY <1>1, AppliedIs
<1> HIDE DEF n
<1>4. /\ f[0] = b /\ g[0] = ab
      /\ \A i \in 1 .. n : f[i] = Effect(f[i - 1], a, ops[i]) /\ g[i] = Effect(g[i - 1], a, ops[i])
  <2>1. /\ f = [i \in 0 .. n |-> IF i = 0 THEN b ELSE Effect(f[i - 1], a, ops[i])]
        /\ g = [i \in 0 .. n |-> IF i = 0 THEN ab ELSE Effect(g[i - 1], a, ops[i])]
    BY <1>2, <1>3 DEF Turns
  <2> HIDE DEF ops
  <2>2. 0 \in 0 .. n /\ \A i \in 1 .. n : i \in 0 .. n /\ i # 0
    BY <1>1
  <2> QED BY <2>1, <2>2
<1> DEFINE Kept(x, y) == BitTable(x) /\ BitTable(y) /\ (Alike(b, ab, a.ts) => Alike(x, y, a.ts))
           S == {i \in 0 .. n : ~Kept(f[i], g[i])}
<1>5. 0 \notin S
  BY <1>4
<1>6. ASSUME NEW i \in Nat, i + 1 \in S
      PROVE  i \in S
  <2>1. i \in 0 .. n /\ i + 1 \in 1 .. n /\ (i + 1) - 1 = i
    BY <1>1, <1>6
  <2>2. SUFFICES ASSUME Kept(f[i], g[i])
                 PROVE  FALSE
    BY <2>1
  <2>3. ops[i + 1] \in Ops /\ f[i + 1] = Effect(f[i], a, ops[i + 1]) /\ g[i + 1] = Effect(g[i], a, ops[i + 1])
    BY <1>1, <1>4, <2>1
  <2>4. BitTable(f[i]) /\ BitTable(g[i]) /\ (Alike(b, ab, a.ts) => Alike(f[i], g[i], a.ts))
    BY <2>2
  <2>5. BitTable(Effect(f[i], a, ops[i + 1])) /\ BitTable(Effect(g[i], a, ops[i + 1]))
    BY <2>3, <2>4, EffectKeeps
  <2>6. Alike(f[i], g[i], a.ts) => Alike(Effect(f[i], a, ops[i + 1]), Effect(g[i], a, ops[i + 1]), a.ts)
    BY <2>3, <2>4, EffectKeeps
  <2> QED BY <1>6, <2>3, <2>4, <2>5, <2>6
<1>7. S = {}
  <2>1. S \in SUBSET Nat
    BY <1>1
  <2> HIDE DEF S
  <2> QED BY <1>5, <1>6, <2>1, NoneFails
<1>8. Kept(f[n], g[n])
  BY <1>1, <1>7
<1> QED
  BY <1>2, <1>3, <1>8

(* A rule without operations does nothing to them. *)
LEMMA AppliedNone ==
  ASSUME NEW a, NEW b, Rule[a.sid].ops = <<>>
  PROVE  Applied(b, a) = b
<1>1. Len(Rule[a.sid].ops) = 0
  OBVIOUS
<1>2. PICK f : Turns(f, b, a, 0) /\ Applied(b, a) = f[0]
  BY <1>1, AppliedIs
<1> QED
  BY <1>2 DEF Turns

BitsInv ==
  /\ BitTable(bits) /\ BitTable(allBits)
  /\ setting.late = 0 => Alike(bits, allBits, newest)

(* settle(): bits are discarded only once they have run out. *)
LEMMA SettleBits ==
  ASSUME setting \in Settings, NEW a \in Alert,
         NEW w, NEW b, NEW t \in Nat, NEW nn, NEW rr, NEW ab, BitTable(b), BitTable(ab),
         setting.late = 0 => Alike(b, ab, t) /\ a.ts >= t,
         Settle(a, w, b, t, nn, rr, ab)
  PROVE  /\ BitTable(bits') /\ BitTable(allBits')
         /\ setting.late = 0 => Alike(bits', allBits', newest')
<1> DEFINE r == Rule[a.sid]
           now == Newer(t, a.ts)
           kept == KeptBits(b, now)
<1>1. a.ts \in Nat /\ now \in Nat /\ now >= t /\ r.ops \in Seq(Ops)
  <2>1. a.ts \in Nat /\ a.sid \in Sids
    BY AlertIs
  <2>2. r \in Rules
    BY <2>1, GateAssumption
  <2> HIDE DEF r
  <2>3. r.ops \in Seq(Ops)
    BY <2>2 DEF Rules
  <2> QED BY <2>1, <2>3 DEF Newer
<1>2. \A k \in DOMAIN b : b[k] \in Nat
  BY DEF BitTable
<1>3. \A k \in DOMAIN ab : ab[k] \in Nat
  BY DEF BitTable
<1>4. /\ BitTable(kept)
      /\ Alike(b, ab, t) => Alike(kept, ab, now)
  <2>1. BitTable(kept)
    BY DEF BitTable, KeptBits, Restricted
  <2>2. \A k \in DOMAIN kept : k \in DOMAIN b /\ kept[k] = b[k]
    BY DEF KeptBits, Restricted
  <2>3. \A k \in DOMAIN b : b[k] > now => k \in DOMAIN kept
    BY DEF KeptBits, Restricted
  <2> HIDE DEF kept, now
  <2>4. \A k \in DOMAIN ab : ab[k] > now => ab[k] > t
    BY <1>1, <1>3
  <2> QED BY <2>1, <2>2, <2>3, <2>4 DEF Alike
<1>5. Alike(b, ab, t) => Alike(b, ab, now)
  <2> HIDE DEF now
  <2>1. \A k \in DOMAIN ab : ab[k] > now => ab[k] > t
    BY <1>1, <1>3
  <2> QED BY <2>1 DEF Alike
<1>6. setting.late = 0 => now = a.ts
  BY <1>1 DEF Newer
<1>7. \/ bits' = b /\ newest' = t /\ allBits' = ab
      \/ /\ bits' = (IF r.ops # <<>> THEN Applied(kept, a) ELSE b)
         /\ allBits' = Applied(ab, a)
         /\ newest' = (IF r.ops # <<>> \/ (r.kind # None /\ ~r.noalert) THEN now ELSE t)
  BY DEF Settle
<1>8. CASE bits' = b /\ newest' = t /\ allBits' = ab
  BY <1>8
<1>9. CASE /\ bits' = (IF r.ops # <<>> THEN Applied(kept, a) ELSE b)
           /\ allBits' = Applied(ab, a)
           /\ newest' = (IF r.ops # <<>> \/ (r.kind # None /\ ~r.noalert) THEN now ELSE t)
  <2>1. CASE r.ops = <<>>
    <3>1. bits' = b /\ allBits' = ab /\ (newest' = now \/ newest' = t)
      BY <1>9, <2>1, AppliedNone
    <3> QED BY <1>5, <3>1
  <2>2. CASE r.ops # <<>>
    <3> HIDE DEF kept
    <3>1. bits' = Applied(kept, a) /\ allBits' = Applied(ab, a) /\ newest' = now
      BY <1>9, <2>2
    <3>2. BitTable(Applied(kept, a)) /\ BitTable(Applied(ab, a))
      BY <1>1, <1>4, AppliedKeeps
    <3>3. Alike(kept, ab, a.ts) => Alike(Applied(kept, a), Applied(ab, a), a.ts)
      BY <1>1, <1>4, AppliedKeeps
    <3> HIDE DEF now
    <3> QED BY <1>4, <1>6, <3>1, <3>2, <3>3
  <2> QED BY <2>1, <2>2
<1> QED
  BY <1>7, <1>8, <1>9

LEMMA BitsKeep ==
  ASSUME IInv, BitsInv, Next
  PROVE  BitsInv'
<1>1. /\ setting \in Settings /\ newest \in Nat /\ setting' = setting
      /\ held \in Seq(Alert)
  <2>1. setting' = setting
    BY DEF Next, Reload, Receive, Disconnected, SettleHeld, Settled
  <2> QED BY <2>1 DEF IInv, StateOK, Follows
<1>2. BitTable(<<>>) /\ Alike(<<>>, <<>>, 0)
  BY DEF BitTable, Alike
<1>3. setting.late = 0 => Lateness(setting) = 0
  BY DEF Lateness
<1>4. CASE UNCHANGED <<gate, ghost>>
  BY <1>1, <1>4 DEF BitsInv, gate, ghost
<1>5. ASSUME NEW a \in Alert, Receive(a)
      PROVE  BitsInv'
  <2>1. a.ts \in Nat /\ (setting.late = 0 => a.ts >= newest)
    <3>1. pc = "run" /\ a.ts >= clock - setting.late
      BY <1>5 DEF Receive
    <3>2. a.ts >= newest - Lateness(setting)
      BY <3>1, ArrivalInTime
    <3>3. a.ts \in Nat
      BY <1>1, AlertIs
    <3> QED BY <1>1, <1>3, <3>2, <3>3
  <2>2. \/ windows' = <<>> /\ bits' = <<>> /\ newest' = 0 /\ allBits' = <<>>
        \/ bits' = bits /\ newest' = newest /\ allBits' = allBits
        \/ Settle(a, <<>>, <<>>, 0, <<>>, <<>>, <<>>)
        \/ Settle(a, windows, bits, newest, numbered, reports, allBits)
    BY <1>5 DEF Receive, gate
  <2>3. CASE windows' = <<>> /\ bits' = <<>> /\ newest' = 0 /\ allBits' = <<>>
    BY <1>2, <2>3 DEF BitsInv
  <2>4. CASE bits' = bits /\ newest' = newest /\ allBits' = allBits
    BY <1>1, <2>4 DEF BitsInv
  <2>5. CASE Settle(a, <<>>, <<>>, 0, <<>>, <<>>, <<>>)
    <3>1. /\ BitTable(bits') /\ BitTable(allBits')
          /\ setting.late = 0 => Alike(bits', allBits', newest')
      BY <1>1, <1>2, <2>1, <2>5, SettleBits
    <3> QED BY <1>1, <3>1 DEF BitsInv
  <2>6. CASE Settle(a, windows, bits, newest, numbered, reports, allBits)
    <3>1. /\ BitTable(bits') /\ BitTable(allBits')
          /\ setting.late = 0 => Alike(bits', allBits', newest')
      BY <1>1, <2>1, <2>6, SettleBits DEF BitsInv
    <3> QED BY <1>1, <3>1 DEF BitsInv
  <2> QED BY <2>2, <2>3, <2>4, <2>5, <2>6
<1>6. CASE SettleHeld
  <2>1. PICK i \in DOMAIN held : Settle(held[i], windows, bits, newest, numbered, reports, allBits)
    BY <1>6 DEF SettleHeld
  <2>2. held[i] \in Alert
    BY <1>1
  <2>3. held[i].ts \in Nat /\ held[i].ts >= newest - Lateness(setting)
    BY <1>1, <2>2, AlertIs DEF IInv, InTime
  <2>4. setting.late = 0 => held[i].ts >= newest
    BY <1>1, <1>3, <2>3
  <2>5. /\ BitTable(bits') /\ BitTable(allBits')
        /\ setting.late = 0 => Alike(bits', allBits', newest')
    BY <1>1, <2>1, <2>2, <2>4, SettleBits DEF BitsInv
  <2> QED BY <1>1, <2>5 DEF BitsInv
<1>7. Reload \/ Disconnected \/ Settled => UNCHANGED <<gate, ghost>>
  BY DEF Reload, Disconnected, Settled
<1> QED
  BY <1>4, <1>5, <1>6, <1>7 DEF Next

LEMMA BitsAlways == Spec => []BitsInv
<1>1. Init => BitsInv
  BY DEF Init, BitsInv, BitTable, Alike
<1>2. IInv /\ BitsInv /\ [Next]_vars => BitsInv'
  <2>1. IInv /\ BitsInv /\ Next => BitsInv'
    BY BitsKeep
  <2>2. BitsInv /\ UNCHANGED vars => BitsInv'
    BY DEF BitsInv, vars, gate, ghost
  <2> QED BY <2>1, <2>2
<1> QED
  BY <1>1, <1>2, Always, PTL DEF Spec

(* The gate's state is sound at every moment: its windows and bits are of  *)
(* their types, no bit that is still on has been discarded while alerts    *)
(* come in order, and a replay is counted in its own order.                *)
THEOREM AlwaysSound == Spec => []GateSound
<1>1. IInv /\ BitsInv => TypeOK
  BY DEF IInv, StateOK, Follows, BitsInv, BitTable, TypeOK
<1>2. BitsInv => BitsKept
  BY DEF BitsInv, Alike, BitsKept
<1> QED
  BY <1>1, <1>2, Always, BitsAlways, ReplayInOrder, PTL DEF GateSound
=============================================================================
