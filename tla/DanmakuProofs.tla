---------------------------- MODULE DanmakuProofs ----------------------------
(***************************************************************************)
(* Proofs about the danmaku path, for any messages, users, texts, words,   *)
(* limits, traffic configuration that Load accepts, and number of crashes. *)
(*                                                                         *)
(* The argument: what has barred an author since his request arrived is    *)
(* still in force when its read comes, so the read finds it (BarsFound),   *)
(* and a request is at a step only if it passed the checks before it       *)
(* (ChecksPassed); the consumer commits past a record only when that is in *)
(* the archive (NothingIsSkipped).  The limiter's key counts the requests  *)
(* since its window began, and it began with one (WindowCounted): so a     *)
(* span of one window's length meets at most two windows, and misses the   *)
(* first request of the older one.                                         *)
(***************************************************************************)
EXTENDS Danmaku, FiniteSetTheorems, TLAPS

-----------------------------------------------------------------------------
(* The hot-room policy *)

LEMMA TimesMonotone ==
    ASSUME NEW a \in Nat, NEW b \in Nat, NEW c \in Nat, NEW d \in Nat, a <= b, c <= d
    PROVE  a * c <= b * d
<1>1. a * c <= b * c
  OBVIOUS
<1>2. b * c <= b * d
  OBVIOUS
<1>3. a * c \in Nat /\ b * c \in Nat /\ b * d \in Nat
  OBVIOUS
<1> QED BY <1>1, <1>2, <1>3

LEMMA DivBounds ==
    ASSUME NEW a \in Nat, NEW b \in Nat \ {0}
    PROVE  a \div b \in Nat /\ b * (a \div b) <= a /\ a < b * (a \div b) + b
  OBVIOUS

LEMMA CeilDivBounds ==
    ASSUME NEW a \in Nat, NEW b \in Nat \ {0}
    PROVE  CeilDiv(a, b) \in Nat /\ a <= b * CeilDiv(a, b) /\ b * (CeilDiv(a, b) - 1) < a
<1>1. a + b - 1 \in Nat
  OBVIOUS
<1> DEFINE q == (a + b - 1) \div b
<1>2. q \in Nat /\ b * q <= a + b - 1 /\ a + b - 1 < b * q + b
  BY <1>1, DivBounds
<1> HIDE DEF q
<1>3. b * (q - 1) = b * q - b
  BY <1>2
<1>4. b * q \in Nat
  BY <1>2
<1> QED BY <1>2, <1>3, <1>4 DEF CeilDiv, q

\* A larger divisor gives no larger quotient.
LEMMA CeilDivAntitone ==
    ASSUME NEW a \in Nat, NEW b \in Nat \ {0}, NEW c \in Nat \ {0}, b <= c
    PROVE  CeilDiv(a, c) <= CeilDiv(a, b)
<1> DEFINE q == CeilDiv(a, b)
           r == CeilDiv(a, c)
<1>1. q \in Nat /\ a <= b * q
  BY CeilDivBounds
<1>2. r \in Nat /\ c * (r - 1) < a
  BY CeilDivBounds
<1> HIDE DEF q, r
<1>3. b * q <= c * q
  BY <1>1, TimesMonotone
<1>4. c * (r - 1) < c * q
  BY <1>1, <1>2, <1>3
<1>5. r - 1 < q
  <2> SUFFICES ASSUME q <= r - 1 PROVE FALSE
    BY <1>1, <1>2
  <2>1. r - 1 \in Nat
    BY <1>1, <1>2
  <2>2. c * q <= c * (r - 1)
    BY <1>1, <2>1, TimesMonotone
  <2> QED BY <1>1, <1>2, <1>4, <2>1, <2>2
<1> QED BY <1>1, <1>2, <1>5 DEF q, r

Pressure == [viewers: Nat, observed: Nat]

\* Under more pressure a room is in no lighter mode.
LEMMA ModeIsMonotone ==
    ASSUME NEW cfg \in TrafficConfigs, ValidConfig(cfg), NEW p \in Pressure, NEW q \in Pressure,
           p.viewers <= q.viewers, p.observed <= q.observed
    PROVE  /\ Mode(cfg, p) \in {"NORMAL", "HOT", "PROTECT"} /\ Mode(cfg, q) \in {"NORMAL", "HOT", "PROTECT"}
           /\ Mode(cfg, p) = "PROTECT" => Mode(cfg, q) = "PROTECT"
           /\ Mode(cfg, p) # "NORMAL" => Mode(cfg, q) # "NORMAL"
<1> DEFINE Reaches(x, viewers, rate, fanout) ==
              \/ x.viewers >= viewers
              \/ x.observed >= rate
              \/ x.viewers * x.observed >= fanout * cfg.window
<1>1. /\ p.viewers \in Nat /\ p.observed \in Nat /\ q.viewers \in Nat /\ q.observed \in Nat
      /\ cfg.window \in Nat
  BY DEF Pressure, TrafficConfigs
<1>2. p.viewers * p.observed <= q.viewers * q.observed
  BY <1>1, TimesMonotone
<1>3. p.viewers * p.observed \in Nat /\ q.viewers * q.observed \in Nat
  BY <1>1
<1>4. ASSUME NEW viewers \in Nat, NEW rate \in Nat, NEW fanout \in Nat, Reaches(p, viewers, rate, fanout)
      PROVE  Reaches(q, viewers, rate, fanout)
  <2>1. fanout * cfg.window \in Nat
    BY <1>1
  <2> QED BY <1>1, <1>2, <1>3, <1>4, <2>1
<1>5. ASSUME NEW x \in {p, q}
      PROVE  Mode(cfg, x) = IF Reaches(x, cfg.protectViewers, cfg.protectRate, cfg.protectFanout) THEN "PROTECT"
                            ELSE IF Reaches(x, cfg.hotViewers, cfg.hotRate, cfg.hotFanout) THEN "HOT"
                            ELSE "NORMAL"
  BY DEF Mode
<1>6. /\ cfg.protectViewers \in Nat /\ cfg.protectRate \in Nat /\ cfg.protectFanout \in Nat
      /\ cfg.hotViewers \in Nat /\ cfg.hotRate \in Nat /\ cfg.hotFanout \in Nat
  BY DEF TrafficConfigs
<1>7. /\ Reaches(p, cfg.protectViewers, cfg.protectRate, cfg.protectFanout)
           => Reaches(q, cfg.protectViewers, cfg.protectRate, cfg.protectFanout)
      /\ Reaches(p, cfg.hotViewers, cfg.hotRate, cfg.hotFanout)
           => Reaches(q, cfg.hotViewers, cfg.hotRate, cfg.hotFanout)
  BY <1>4, <1>6
<1> HIDE DEF Reaches
<1> QED BY <1>5, <1>7

LEMMA SampleBounds ==
    ASSUME NEW cfg \in TrafficConfigs, ValidConfig(cfg), NEW p \in Pressure
    PROVE  Sample(cfg, p) \in Nat /\ Sample(cfg, p) <= Buckets
<1> DEFINE fanout == p.viewers * p.observed
           load == Buckets * cfg.target * cfg.window
<1>1. fanout \in Nat /\ load \in Nat
  BY DEF Pressure, TrafficConfigs, Buckets
<1>2. ASSUME fanout > 0 PROVE CeilDiv(load, fanout) \in Nat
  <2> HIDE DEF fanout, load
  <2> QED BY <1>1, <1>2, CeilDivBounds
<1>3. /\ cfg.minSample \in Nat /\ cfg.protectSample \in Nat /\ cfg.hotSample \in Nat
      /\ cfg.protectSample <= cfg.hotSample /\ cfg.hotSample <= Buckets /\ Buckets \in Nat
  BY DEF TrafficConfigs, ValidConfig, Buckets
<1>4. Sample(cfg, p) = IF Mode(cfg, p) = "NORMAL" THEN Buckets
                       ELSE IF cfg.adaptive /\ fanout > 0
                            THEN AtMost(AtLeast(CeilDiv(load, fanout), cfg.minSample), Buckets)
                            ELSE IF Mode(cfg, p) = "PROTECT" THEN cfg.protectSample ELSE cfg.hotSample
  BY DEF Sample
<1> HIDE DEF fanout, load
<1> QED BY <1>1, <1>2, <1>3, <1>4 DEF AtMost, AtLeast

\* More pressure never raises the rate, for every configuration that Load accepts and
\* every two pressures of a room with viewers: a message that a busy room keeps, a
\* calmer one keeps too, across the change of mode and from fixed to adaptive rates.
THEOREM PolicyLowersRate ==
    ASSUME NEW cfg \in TrafficConfigs, ValidConfig(cfg), NEW p \in Pressure, NEW q \in Pressure
    PROVE  PressureLowersRate(cfg, p, q)
<1> DEFINE load == Buckets * cfg.target * cfg.window
           f == p.viewers * p.observed
           g == q.viewers * q.observed
<1> SUFFICES ASSUME Lighter(p, q) PROVE Sample(cfg, q) <= Sample(cfg, p)
  BY DEF PressureLowersRate
<1>1. /\ p.viewers \in Nat \ {0} /\ p.observed \in Nat \ {0} /\ q.viewers \in Nat /\ q.observed \in Nat
      /\ p.viewers <= q.viewers /\ p.observed <= q.observed
  BY DEF Lighter, Pressure
<1>2. f <= g /\ f \in Nat /\ g \in Nat
  BY <1>1, TimesMonotone
<1>3. 0 < f
  <2>1. 1 * 1 <= p.viewers * p.observed
    BY <1>1, TimesMonotone
  <2> QED BY <1>2, <2>1
<1>4. load \in Nat
  BY DEF TrafficConfigs, Buckets
<1>5. /\ Mode(cfg, p) \in {"NORMAL", "HOT", "PROTECT"} /\ Mode(cfg, q) \in {"NORMAL", "HOT", "PROTECT"}
      /\ Mode(cfg, p) = "PROTECT" => Mode(cfg, q) = "PROTECT"
      /\ Mode(cfg, p) # "NORMAL" => Mode(cfg, q) # "NORMAL"
  BY <1>1, ModeIsMonotone
<1>6. /\ Sample(cfg, p) = IF Mode(cfg, p) = "NORMAL" THEN Buckets
                          ELSE IF cfg.adaptive /\ f > 0
                               THEN AtMost(AtLeast(CeilDiv(load, f), cfg.minSample), Buckets)
                               ELSE IF Mode(cfg, p) = "PROTECT" THEN cfg.protectSample ELSE cfg.hotSample
      /\ Sample(cfg, q) = IF Mode(cfg, q) = "NORMAL" THEN Buckets
                          ELSE IF cfg.adaptive /\ g > 0
                               THEN AtMost(AtLeast(CeilDiv(load, g), cfg.minSample), Buckets)
                               ELSE IF Mode(cfg, q) = "PROTECT" THEN cfg.protectSample ELSE cfg.hotSample
  BY DEF Sample
<1>7. /\ cfg.minSample \in Nat /\ cfg.protectSample \in Nat /\ cfg.hotSample \in Nat
      /\ cfg.protectSample <= cfg.hotSample /\ Buckets \in Nat
  BY DEF TrafficConfigs, ValidConfig, Buckets
<1>8. Sample(cfg, q) \in Nat /\ Sample(cfg, q) <= Buckets
  BY SampleBounds
<1> HIDE DEF f, g, load
<1>9. CeilDiv(load, g) <= CeilDiv(load, f) /\ CeilDiv(load, f) \in Nat /\ CeilDiv(load, g) \in Nat
  BY <1>2, <1>3, <1>4, CeilDivAntitone, CeilDivBounds
<1> QED
  <2>1. CASE Mode(cfg, p) = "NORMAL"
    BY <1>6, <1>8, <2>1
  <2>2. CASE Mode(cfg, p) # "NORMAL" /\ cfg.adaptive
    BY <1>2, <1>3, <1>5, <1>6, <1>7, <1>9, <2>2 DEF AtMost, AtLeast
  <2>3. CASE Mode(cfg, p) # "NORMAL" /\ ~cfg.adaptive
    BY <1>5, <1>6, <1>7, <2>3
  <2> QED BY <2>1, <2>2, <2>3

\* The adaptive policy holds the kept fan-out at the target, up to one bucket or the
\* configured floor, for every configuration that Load accepts and every pressure.
THEOREM PolicyCapsFanout ==
    ASSUME NEW cfg \in TrafficConfigs, ValidConfig(cfg), NEW p \in Pressure
    PROVE  FanoutIsCapped(cfg, p)
<1> DEFINE load == Buckets * cfg.target * cfg.window
           f == p.viewers * p.observed
           share == CeilDiv(load, f)
<1> SUFFICES ASSUME cfg.adaptive, f # 0, ~(f < cfg.hotFanout * cfg.window), Sample(cfg, p) # cfg.minSample
             PROVE  f * (Sample(cfg, p) - 1) < load
  BY DEF FanoutIsCapped
<1>1. f \in Nat \ {0} /\ load \in Nat
  BY DEF Pressure, TrafficConfigs, Buckets
<1>2. Mode(cfg, p) # "NORMAL"
  <2>1. f >= cfg.hotFanout * cfg.window
    BY <1>1 DEF TrafficConfigs
  <2> QED BY <2>1 DEF Mode
<1>3. Sample(cfg, p) = AtMost(AtLeast(share, cfg.minSample), Buckets)
  BY <1>1, <1>2 DEF Sample
<1>4. cfg.minSample \in Nat /\ cfg.minSample <= Buckets /\ Buckets \in Nat
  BY DEF TrafficConfigs, ValidConfig, Buckets
<1> HIDE DEF f, load
<1>5. share \in Nat /\ f * (share - 1) < load
  BY <1>1, CeilDivBounds
<1> HIDE DEF share
<1>6. Sample(cfg, p) \in Nat /\ Sample(cfg, p) <= share
  BY <1>3, <1>4, <1>5 DEF AtMost, AtLeast
<1>7. f * (Sample(cfg, p) - 1) <= f * (share - 1)
  <2>1. CASE Sample(cfg, p) = 0
    <3>1. cfg.minSample = 0
      BY <1>3, <1>4, <1>5, <2>1 DEF AtMost, AtLeast
    <3> QED BY <2>1, <3>1
  <2>2. CASE Sample(cfg, p) # 0
    <3>1. Sample(cfg, p) - 1 \in Nat /\ share - 1 \in Nat /\ Sample(cfg, p) - 1 <= share - 1
      BY <1>5, <1>6, <2>2
    <3> QED BY <1>1, <3>1, TimesMonotone
  <2> QED BY <2>1, <2>2
<1>8. f * (Sample(cfg, p) - 1) \in Int /\ f * (share - 1) \in Int
  BY <1>1, <1>5, <1>6
<1> QED BY <1>1, <1>5, <1>7, <1>8

-----------------------------------------------------------------------------
(* The filter *)

Letter == DOMAIN Lower
Small == {Lower[l] : l \in Letter}

LEMMA SameSeq ==
    ASSUME NEW S, NEW a \in Seq(S), NEW b \in Seq(S), Len(a) = Len(b), \A n \in 1..Len(a) : a[n] = b[n]
    PROVE  a = b
  OBVIOUS

LEMMA LowerSeq ==
    ASSUME NEW t \in Seq(Letter)
    PROVE  /\ ToLower(t) \in Seq(Small) /\ Len(ToLower(t)) = Len(t)
           /\ \A n \in 1..Len(t) : ToLower(t)[n] = Lower[t[n]]
<1>1. Len(t) \in Nat /\ DOMAIN t = 1..Len(t) /\ \A n \in 1..Len(t) : t[n] \in Letter
  OBVIOUS
<1>2. ToLower(t) = [n \in 1..Len(t) |-> Lower[t[n]]]
  BY <1>1 DEF ToLower
<1>3. \A n \in 1..Len(t) : Lower[t[n]] \in Small
  BY <1>1 DEF Small
<1>4. ToLower(t) \in [1..Len(t) -> Small]
  BY <1>2, <1>3
<1>5. ToLower(t) \in Seq(Small) /\ Len(ToLower(t)) = Len(t)
  BY <1>1, <1>4
<1> QED BY <1>2, <1>5

LEMMA SubSeqFacts ==
    ASSUME NEW S, NEW t \in Seq(S), NEW i \in 1..Len(t), NEW j \in i..Len(t)
    PROVE  /\ SubSeq(t, i, j) \in Seq(S) /\ Len(SubSeq(t, i, j)) = j - i + 1
           /\ \A n \in 1..j - i + 1 : SubSeq(t, i, j)[n] = t[i + n - 1]
  OBVIOUS

\* The trie finds a sensitive word in a text exactly when some configured word occurs
\* in it, in whatever case: Contains restarts at every letter and misses nothing.
THEOREM FilterFindsWords ==
    ASSUME NEW words \in SUBSET Seq(Letter), NEW raw \in Seq(Letter)
    PROVE  Contains(Trie(words), raw) <=> Occurs(words, raw)
<1> DEFINE t == ToLower(raw)
           kept == {ToLower(w) : w \in words \ {<<>>}}
           nodes == UNION {{SubSeq(w, 1, n) : n \in 1..Len(w)} : w \in kept}
<1>1. t \in Seq(Small) /\ Len(t) = Len(raw) /\ Len(raw) \in Nat /\ \A n \in 1..Len(raw) : t[n] = Lower[raw[n]]
  BY LowerSeq
<1>2. Trie(words).nodes = nodes /\ Trie(words).terminal = kept
  BY DEF Trie
<1>3. DOMAIN t = 1..Len(t)
  BY <1>1
<1>4. Contains(Trie(words), raw)
        <=> \E i \in 1..Len(t) : \E j \in i..Len(t) :
              /\ \A k \in i..j : SubSeq(t, i, k) \in nodes
              /\ SubSeq(t, i, j) \in kept
  BY <1>2, <1>3 DEF Contains
<1>5. ASSUME NEW w \in words \ {<<>>}
      PROVE  /\ w \in Seq(Letter) /\ Len(w) \in Nat /\ Len(w) > 0 /\ DOMAIN w = 1..Len(w)
             /\ ToLower(w) \in Seq(Small) /\ Len(ToLower(w)) = Len(w)
             /\ \A n \in 1..Len(w) : ToLower(w)[n] = Lower[w[n]]
  BY LowerSeq
<1>9. Len(t) \in Nat /\ Len(t) = Len(raw)
  BY <1>1
<1>10. \A w \in words \ {<<>>} : ToLower(w) \in kept
  OBVIOUS
<1>11. \A x \in kept : \E w \in words \ {<<>>} : x = ToLower(w)
  OBVIOUS
<1>12. \A x \in kept : \A n \in 1..Len(x) : SubSeq(x, 1, n) \in nodes
  OBVIOUS
<1> HIDE DEF t, kept, nodes
<1>6. ASSUME Contains(Trie(words), raw) PROVE Occurs(words, raw)
  <2>1. PICK i \in 1..Len(t) : \E j \in i..Len(t) : SubSeq(t, i, j) \in kept
    BY <1>4, <1>6
  <2>2. PICK j \in i..Len(t) : SubSeq(t, i, j) \in kept
    BY <2>1
  <2>3. PICK w \in words \ {<<>>} : SubSeq(t, i, j) = ToLower(w)
    BY <1>11, <2>2
  <2>4. Len(w) = j - i + 1
    <3>1. Len(SubSeq(t, i, j)) = j - i + 1
      BY <1>1, SubSeqFacts
    <3>2. Len(ToLower(w)) = Len(w)
      BY <1>5
    <3> QED BY <2>3, <3>1, <3>2
  <2>5. i - 1 \in 0..Len(raw) - Len(w)
    BY <1>1, <2>4
  <2>6. ASSUME NEW n \in DOMAIN w PROVE Lower[w[n]] = Lower[raw[i - 1 + n]]
    <3>1. n \in 1..Len(w) /\ n \in 1..j - i + 1
      BY <1>5, <2>4
    <3>2. ToLower(w)[n] = Lower[w[n]]
      BY <1>5, <3>1
    <3>3. SubSeq(t, i, j)[n] = t[i + n - 1]
      BY <1>1, <3>1, SubSeqFacts
    <3>4. i + n - 1 \in 1..Len(raw) /\ i + n - 1 = i - 1 + n
      BY <1>9, <3>1
    <3> QED BY <1>1, <2>3, <3>2, <3>3, <3>4
  <2> QED BY <2>5, <2>6 DEF Occurs
<1>7. ASSUME Occurs(words, raw) PROVE Contains(Trie(words), raw)
  <2>1. PICK w \in words \ {<<>>} : \E i \in 0..Len(raw) - Len(w) : \A n \in DOMAIN w : Lower[w[n]] = Lower[raw[i + n]]
    BY <1>7 DEF Occurs
  <2>2. PICK i \in 0..Len(raw) - Len(w) : \A n \in DOMAIN w : Lower[w[n]] = Lower[raw[i + n]]
    BY <2>1
  <2>3. /\ Len(w) \in Nat /\ Len(w) > 0 /\ DOMAIN w = 1..Len(w)
        /\ ToLower(w) \in Seq(Small) /\ Len(ToLower(w)) = Len(w) /\ \A n \in 1..Len(w) : ToLower(w)[n] = Lower[w[n]]
    BY <1>5
  <2>4. i + 1 \in 1..Len(t) /\ i + Len(w) \in i + 1..Len(t)
    BY <1>1, <2>3
  <2>5. ASSUME NEW k \in 1..Len(w) PROVE SubSeq(t, i + 1, i + k) = SubSeq(ToLower(w), 1, k)
    <3> DEFINE a == SubSeq(t, i + 1, i + k)
               b == SubSeq(ToLower(w), 1, k)
    <3>1. i + k \in i + 1..Len(t) /\ 1 \in 1..Len(ToLower(w)) /\ k \in 1..Len(ToLower(w))
      BY <1>1, <2>3
    <3>2. a \in Seq(Small) /\ Len(a) = k /\ \A n \in 1..k : a[n] = t[i + n]
      <4>1. /\ a \in Seq(Small) /\ Len(a) = i + k - (i + 1) + 1
            /\ \A n \in 1..i + k - (i + 1) + 1 : a[n] = t[i + 1 + n - 1]
        BY <1>1, <2>4, <3>1, SubSeqFacts
      <4>2. i + k - (i + 1) + 1 = k /\ \A n \in 1..k : i + 1 + n - 1 = i + n
        OBVIOUS
      <4> HIDE DEF a
      <4> QED BY <4>1, <4>2
    <3>3. b \in Seq(Small) /\ Len(b) = k /\ \A n \in 1..k : b[n] = ToLower(w)[n]
      <4>1. b \in Seq(Small) /\ Len(b) = k - 1 + 1 /\ \A n \in 1..k - 1 + 1 : b[n] = ToLower(w)[1 + n - 1]
        BY <2>3, <3>1, SubSeqFacts
      <4>2. k - 1 + 1 = k /\ \A n \in 1..k : 1 + n - 1 = n
        OBVIOUS
      <4> HIDE DEF b
      <4> QED BY <4>1, <4>2
    <3> HIDE DEF a, b
    <3>4. ASSUME NEW n \in 1..k PROVE a[n] = b[n]
      <4>1. n \in 1..Len(w) /\ i + n \in 1..Len(raw)
        BY <1>1, <2>3
      <4>2. a[n] = t[i + n] /\ b[n] = ToLower(w)[n]
        BY <3>2, <3>3
      <4>3. t[i + n] = Lower[raw[i + n]]
        BY <1>1, <4>1
      <4>4. ToLower(w)[n] = Lower[w[n]] /\ Lower[w[n]] = Lower[raw[i + n]]
        BY <2>2, <2>3, <4>1
      <4> QED BY <4>2, <4>3, <4>4
    <3>5. a = b
      BY <3>2, <3>3, <3>4, SameSeq
    <3> QED BY <3>5 DEF a, b
  <2>6. ToLower(w) = SubSeq(ToLower(w), 1, Len(w))
    <3> DEFINE b == SubSeq(ToLower(w), 1, Len(w))
    <3>1. b \in Seq(Small) /\ Len(b) = Len(w) - 1 + 1 /\ \A n \in 1..Len(w) - 1 + 1 : b[n] = ToLower(w)[1 + n - 1]
      BY <2>3, SubSeqFacts
    <3>2. Len(w) - 1 + 1 = Len(w) /\ \A n \in 1..Len(w) : 1 + n - 1 = n
      BY <2>3
    <3> HIDE DEF b
    <3>3. b = ToLower(w)
      BY <2>3, <3>1, <3>2, SameSeq
    <3> QED BY <3>3 DEF b
  <2>7. ToLower(w) \in kept
    BY <1>10
  <2>8. SubSeq(t, i + 1, i + Len(w)) \in kept
    <3>1. Len(w) \in 1..Len(w)
      BY <2>3
    <3>2. SubSeq(t, i + 1, i + Len(w)) = SubSeq(ToLower(w), 1, Len(w))
      BY <2>5, <3>1
    <3> QED BY <2>6, <2>7, <3>2
  <2>9. ASSUME NEW k \in i + 1..i + Len(w) PROVE SubSeq(t, i + 1, k) \in nodes
    <3>1. k - i \in 1..Len(w) /\ i + (k - i) = k
      BY <2>3
    <3>2. SubSeq(t, i + 1, k) = SubSeq(ToLower(w), 1, k - i)
      BY <2>5, <3>1
    <3> QED BY <1>12, <2>3, <2>7, <3>1, <3>2
  <2> QED BY <1>4, <2>4, <2>8, <2>9
<1> QED BY <1>6, <1>7

-----------------------------------------------------------------------------
(* The inductive invariant *)

Finite == IsFiniteSet(buffer) /\ IsFiniteSet(rolling) /\ IsFiniteSet(passed)

\* What has barred the author all along is in force, and what of it was read was found.
BarsFound(m) ==
    /\ pc[m] \in {"room", "ban", "mute"} => always[m] \subseteq Bars(author[m])
    /\ pc[m] \in {"ban", "mute"} /\ "room" \in always[m] => "room" \in access[m]
    /\ pc[m] = "mute" /\ "ban" \in always[m] => "ban" \in access[m]

Filtered(m) == Len(text[m]) \in 1..MaxLength /\ ~Contains(Trie(Words), text[m])

\* A request has passed the checks that come before its step, and only one that was
\* decided is on screen.
ChecksPassed(m) ==
    /\ pc[m] \in {"room", "ban", "mute", "limit"} => Len(text[m]) \in 1..MaxLength
    /\ pc[m] = "limit" => always[m] = {}
    /\ pc[m] \in {"decide", "publish", "produce", "ok"} \/ m \in screen => always[m] = {} /\ Filtered(m)
    /\ m \in screen => pc[m] \in {"produce", "ok", "failed"}

Kept(m) == Keep(Bucket[m], Sample(Traffic, decision[m]))

\* The steps after the decision follow it, and a decision counts its own message.
DecisionFollowed(m) ==
    /\ pc[m] = "publish" => Kept(m)
    /\ pc[m] \in {"produce", "ok"} => (m \in screen <=> Kept(m))
    /\ pc[m] \in {"publish", "produce", "ok"} => decision[m].observed >= 1

RequestsAreSound == \A m \in Messages : BarsFound(m) /\ ChecksPassed(m) /\ DecisionFollowed(m)

\* The archive's side: what reached it was answered, and nothing is skipped.
NothingIsSkipped ==
    /\ \A m \in Recorded : pc[m] = "ok"
    /\ \A m \in Messages :
          pc[m] = "ok" => \/ m \in lost \cup buffer \cup archive
                          \/ \E i \in offset + 1..Len(topic) : topic[i] = m
    /\ cpc = "commit" => topic[offset + 1] \in archive

\* A request meets the limiter once.
TriedOnce ==
    \A p \in passed \cup refused :
        pc[p[1]] \in {"decide", "publish", "produce", "ok", "rejected", "failed"}

Used(u, from, to) == Cardinality(Within(passed, u, from, to))

\* A key lives for the rest of its window.  It counts what passed since the window
\* began, with a request; and what passed in the length of a window before that is less
\* than the limit, as it is up to now where there is no key.
WindowCounted(u) ==
    LET start == limit[u].expires - UserRateWindow IN
    IF limit[u].count = 0
    THEN /\ Within(passed, u, now, now) = {}
         /\ Used(u, now - UserRateWindow + 1, now) <= UserRateLimit - 1
    ELSE /\ limit[u].expires \in now + 1..now + UserRateWindow
         /\ Used(u, start, now) = limit[u].count
         /\ Within(passed, u, start, start) # {}
         /\ Used(u, start - UserRateWindow + 1, start - 1) <= UserRateLimit - 1

WindowsAreCounted == \A u \in Users : WindowCounted(u)

IndInv ==
    /\ TypeOK /\ Finite
    /\ RequestsAreSound /\ NothingIsSkipped
    /\ TriedOnce /\ WindowsAreCounted /\ LimiterIsRight

-----------------------------------------------------------------------------
(* Types *)

PcValues == {"new", "room", "ban", "mute", "limit", "decide", "publish", "produce", "ok", "rejected", "failed"}

LEMMA GotoType ==
    ASSUME TypeOK, NEW m \in Messages, NEW step \in PcValues, Goto(m, step)
    PROVE  /\ pc' \in [Messages -> PcValues] /\ pc'[m] = step
           /\ \A n \in Messages : n # m => pc'[n] = pc[n]
  BY DEF TypeOK, Goto, PcValues

\* What the rolling window holds after a message was counted.
LEMMA RecentFacts ==
    ASSUME TypeOK, Finite, NEW m \in Messages
    PROVE  /\ Recent(m) \subseteq Messages \X (0..now) /\ IsFiniteSet(Recent(m))
           /\ Cardinality(Recent(m)) \in Nat /\ Cardinality(Recent(m)) >= 1
<1> DEFINE old == {r \in rolling : r[2] > now - Traffic.window}
<1>1. now \in Nat /\ now \in 0..now /\ rolling \subseteq Messages \X (0..now)
  BY DanmakuAssumption DEF TypeOK
<1>2. old \subseteq Messages \X (0..now) /\ <<m, now>> \in Messages \X (0..now)
  BY <1>1
<1>3. IsFiniteSet(old)
  BY FS_Subset DEF Finite
<1>4. Recent(m) = old \cup {<<m, now>>}
  BY DEF Recent
<1> HIDE DEF old
<1>5. IsFiniteSet(Recent(m))
  BY <1>3, <1>4, FS_AddElement
<1>6. Cardinality(Recent(m)) \in Nat /\ Cardinality(Recent(m)) # 0
  BY <1>4, <1>5, FS_CardinalityType, FS_EmptySet
<1> QED BY <1>2, <1>4, <1>5, <1>6

LEMMA BarsType ==
    ASSUME NEW u PROVE Bars(u) \subseteq {"room", "ban", "mute"}
  BY DEF Bars

LEMMA FollowType ==
    ASSUME TypeOK, Follow
    PROVE  /\ always' \in [Messages -> SUBSET {"room", "ban", "mute"}]
           /\ \A m \in Messages : always'[m] \subseteq always[m]
           /\ \A m \in Messages : pc[m] \notin {"rejected", "failed"} => always'[m] = always[m] \cap Bars(author[m])'
  BY DEF TypeOK, Follow

LEMMA InitType ==
    ASSUME Init PROVE TypeOK /\ Finite
<1> USE DanmakuAssumption
<1>1. (CHOOSE u \in Users : TRUE) \in Users
  OBVIOUS
<1>2. IsFiniteSet({}) /\ Cardinality({}) = 0
  BY FS_EmptySet
<1>3. mutes \in [Users -> Nat \cup {Unmuted}]
  <2>1. mutes \in [Users -> {Unmuted} \cup (Durations \ {0})]
    BY DEF Init
  <2> QED BY <2>1
<1>4. limit \in [Users -> [count: 0..UserRateLimit, expires: Nat]]
  BY DEF Init, NoKey
<1>5. decision \in [Messages -> [viewers: Nat, observed: Nat]]
  BY DEF Init, NoPressure
<1>6. author \in [Messages -> Users] /\ text \in [Messages -> Texts \cup {<<>>}]
  BY <1>1 DEF Init
<1>7. topic \in Seq(Messages) /\ offset \in 0..Len(topic)
  BY DEF Init
<1>8. /\ pc \in [Messages -> {"new", "room", "ban", "mute", "limit", "decide", "publish", "produce",
                            "ok", "rejected", "failed"}]
      /\ access \in [Messages -> SUBSET {"room", "ban", "mute"}]
      /\ always \in [Messages -> SUBSET {"room", "ban", "mute"}]
  BY DEF Init
<1> QED BY <1>2, <1>3, <1>4, <1>5, <1>6, <1>7, <1>8 DEF Init, TypeOK, Finite

\* Admitting a request counts it, below the limit.
LEMMA ConsumeType ==
    ASSUME TypeOK, NEW u \in Users, Allowed(u, 1), Consume(u, 1)
    PROVE  /\ limit' \in [Users -> [count: 0..UserRateLimit, expires: Nat]]
           /\ limit'[u].count = limit[u].count + 1
           /\ limit'[u].expires = IF limit[u].count = 0 THEN now + UserRateWindow ELSE limit[u].expires
           /\ \A v \in Users : v # u => limit'[v] = limit[v]
<1> USE DanmakuAssumption
<1>1. limit[u].count \in 0..UserRateLimit /\ limit[u].expires \in Nat /\ now \in Nat
  BY DEF TypeOK
<1>2. limit[u].count + 1 \in 0..UserRateLimit
  BY <1>1 DEF Allowed
<1> QED BY <1>1, <1>2 DEF TypeOK, Consume

\* A finite set with an element more or less.
LEMMA OneMore ==
    ASSUME NEW S, NEW x, IsFiniteSet(S)
    PROVE  /\ IsFiniteSet(S \cup {x}) /\ Cardinality(S) \in Nat
           /\ Cardinality(S \cup {x}) <= Cardinality(S) + 1 /\ Cardinality(S \cup {x}) \in Nat
           /\ x \notin S => Cardinality(S \cup {x}) = Cardinality(S) + 1
<1>1. Cardinality(S) \in Nat
  BY FS_CardinalityType
<1>2. IsFiniteSet(S \cup {x}) /\ Cardinality(S \cup {x}) = IF x \in S THEN Cardinality(S) ELSE Cardinality(S) + 1
  BY FS_AddElement
<1> QED BY <1>1, <1>2

LEMMA OneLess ==
    ASSUME NEW S, NEW x, IsFiniteSet(S)
    PROVE  /\ IsFiniteSet(S \ {x}) /\ Cardinality(S) \in Nat
           /\ Cardinality(S \ {x}) <= Cardinality(S) /\ Cardinality(S \ {x}) \in Nat
           /\ x \in S => Cardinality(S \ {x}) = Cardinality(S) - 1
<1>1. Cardinality(S) \in Nat
  BY FS_CardinalityType
<1>2. IsFiniteSet(S \ {x}) /\ Cardinality(S \ {x}) = IF x \in S THEN Cardinality(S) - 1 ELSE Cardinality(S)
  BY FS_RemoveElement
<1>3. Cardinality(S \ {x}) \in Nat
  BY <1>2, FS_CardinalityType
<1> QED BY <1>1, <1>2, <1>3

\* The types, in four parts.
RoomType ==
    /\ now \in 0..MaxTime
    /\ status \in {"LIVING", "CLOSED"} /\ banned \subseteq Users
    /\ mutes \in [Users -> Nat \cup {Unmuted}] /\ changes \in 0..MaxChanges

RedisType ==
    /\ limit \in [Users -> [count: 0..UserRateLimit, expires: Nat]]
    /\ rolling \subseteq Messages \X (0..now) /\ IsFiniteSet(rolling)
    /\ passed \subseteq Messages \X (0..now) /\ IsFiniteSet(passed)
    /\ refused \subseteq Messages \X (0..now)

RequestType ==
    /\ pc \in [Messages -> PcValues]
    /\ author \in [Messages -> Users] /\ text \in [Messages -> Texts \cup {<<>>}]
    /\ access \in [Messages -> SUBSET {"room", "ban", "mute"}]
    /\ decision \in [Messages -> [viewers: Nat, observed: Nat]]
    /\ screen \subseteq Messages /\ lost \subseteq Messages
    /\ always \in [Messages -> SUBSET {"room", "ban", "mute"}]

ArchiveType ==
    /\ buffer \subseteq Messages /\ IsFiniteSet(buffer) /\ Cardinality(buffer) <= BufferSize
    /\ topic \in Seq(Messages) /\ offset \in 0..Len(topic) /\ archive \subseteq Messages
    /\ cpc \in {"poll", "insert", "commit"} /\ (cpc # "poll" => offset < Len(topic))
    /\ crashes \in 0..MaxCrashes

Types == RoomType /\ RedisType /\ RequestType /\ ArchiveType

LEMMA TypesAreTypeOK == Types <=> TypeOK /\ Finite
  BY DEF Types, RoomType, RedisType, RequestType, ArchiveType, TypeOK, Finite, PcValues

\* Every step of a request keeps the types.
LEMMA SendType ==
    ASSUME Types, NEW m \in Messages, Send(m)
    PROVE  Types'
<1> USE DanmakuAssumption
<1>0. TypeOK /\ Finite /\ RoomType /\ RedisType /\ RequestType /\ ArchiveType
  BY TypesAreTypeOK DEF Types
<1> SUFFICES RoomType' /\ RedisType' /\ RequestType' /\ ArchiveType'
  BY DEF Types
<1>1. ASSUME NEW u \in Users, NEW content \in Texts, Arrive(m, u, content)
      PROVE  RoomType' /\ RedisType' /\ RequestType' /\ ArchiveType'
  BY <1>0, <1>1, BarsType DEF RoomType, RedisType, RequestType, ArchiveType, PcValues, Arrive, Goto, vars, roomVars, redisVars, requestVars, inputVars, archiveVars, historyVars
<1>2. ASSUME NEW bar \in {"room", "ban"}, NEW next \in {"ban", "mute"}, ReadAccess(m, bar, next)
      PROVE  RoomType' /\ RedisType' /\ RequestType' /\ ArchiveType'
  BY <1>0, <1>2, BarsType DEF RoomType, RedisType, RequestType, ArchiveType, PcValues, ReadAccess, Goto, vars, roomVars, redisVars, requestVars, inputVars, archiveVars, historyVars
<1>3. CASE ReadMute(m)
  BY <1>0, <1>3 DEF RoomType, RedisType, RequestType, ArchiveType, PcValues, ReadMute, Goto, vars, roomVars, redisVars, requestVars, inputVars, archiveVars, historyVars
<1>4. CASE CheckLimit(m)
  <2>0. /\ author[m] \in Users /\ IsFiniteSet(passed \cup {<<m, now>>})
        /\ <<m, now>> \in Messages \X (0..now) /\ now' = now
    <3>1. IsFiniteSet(passed \cup {<<m, now>>})
      <4>1. IsFiniteSet(passed)
        BY <1>0 DEF RedisType
      <4> QED BY <4>1, OneMore
    <3> QED BY <1>0, <1>4, <3>1 DEF RequestType, RedisType, RoomType, CheckLimit
  <2>1. RoomType'
    BY <1>0, <1>4 DEF RoomType, CheckLimit, Goto, vars, roomVars, redisVars, requestVars, inputVars, archiveVars, historyVars
  <2>2. RedisType'
    <3>1. CASE Allowed(author[m], 1)
      <4>1. limit' \in [Users -> [count: 0..UserRateLimit, expires: Nat]]
        BY <1>0, <1>4, <2>0, <3>1, ConsumeType DEF CheckLimit
      <4> QED BY <1>0, <1>4, <2>0, <3>1, <4>1 DEF RedisType, CheckLimit
    <3>2. CASE ~Allowed(author[m], 1)
      BY <1>0, <1>4, <2>0, <3>2 DEF RedisType, CheckLimit
    <3> QED BY <3>1, <3>2
  <2>3. RequestType'
    BY <1>0, <1>4 DEF RequestType, CheckLimit, Goto, vars, roomVars, redisVars, requestVars, inputVars, archiveVars, historyVars, PcValues
  <2>4. ArchiveType'
    BY <1>0, <1>4 DEF ArchiveType, CheckLimit, Goto, vars, roomVars, redisVars, requestVars, inputVars, archiveVars, historyVars
  <2> QED BY <2>1, <2>2, <2>3, <2>4
<1>5. ASSUME NEW viewers \in Audience, Decide(m, viewers)
      PROVE  RoomType' /\ RedisType' /\ RequestType' /\ ArchiveType'
  <2>1. RoomType'
    BY <1>0, <1>5 DEF RoomType, Decide, Goto, vars, roomVars, redisVars, requestVars, inputVars, archiveVars, historyVars
  <2>2. RedisType'
    BY <1>0, <1>5, RecentFacts DEF RedisType, Decide, Goto, vars, roomVars, redisVars, requestVars, inputVars, archiveVars, historyVars
  <2>3. RequestType'
    BY <1>0, <1>5, RecentFacts DEF RequestType, Decide, Goto, vars, roomVars, redisVars, requestVars, inputVars, archiveVars, historyVars, PcValues
  <2>4. ArchiveType'
    BY <1>0, <1>5 DEF ArchiveType, Decide, Goto, vars, roomVars, redisVars, requestVars, inputVars, archiveVars, historyVars
  <2> QED BY <2>1, <2>2, <2>3, <2>4
<1>6. CASE Publish(m)
  BY <1>0, <1>6 DEF RoomType, RedisType, RequestType, ArchiveType, PcValues, Publish, Goto, vars, roomVars, redisVars, requestVars, inputVars, archiveVars, historyVars
<1>7. CASE PublishFailed(m)
  BY <1>0, <1>7 DEF RoomType, RedisType, RequestType, ArchiveType, PcValues, PublishFailed, Goto, vars, roomVars, redisVars, requestVars, inputVars, archiveVars, historyVars
<1>8. CASE ProduceDanmaku(m)
  <2>1. RoomType'
    BY <1>0, <1>8 DEF RoomType, ProduceDanmaku, Goto, vars, roomVars, redisVars, requestVars, inputVars, archiveVars, historyVars
  <2>2. RedisType'
    BY <1>0, <1>8 DEF RedisType, ProduceDanmaku, Goto, vars, roomVars, redisVars, requestVars, inputVars, archiveVars, historyVars
  <2>3. RequestType'
    BY <1>0, <1>8 DEF RequestType, ProduceDanmaku, Goto, vars, roomVars, redisVars, requestVars, inputVars, archiveVars, historyVars, PcValues
  <2>4. ArchiveType'
    <3>1. CASE Cardinality(buffer) < BufferSize
      <4>1. IsFiniteSet(buffer \cup {m}) /\ Cardinality(buffer \cup {m}) <= BufferSize
        <5>1. IsFiniteSet(buffer) /\ BufferSize \in Nat
          BY <1>0 DEF ArchiveType
        <5>2. /\ IsFiniteSet(buffer \cup {m}) /\ Cardinality(buffer \cup {m}) <= Cardinality(buffer) + 1
              /\ Cardinality(buffer) \in Nat /\ Cardinality(buffer \cup {m}) \in Nat
          BY <5>1, OneMore
        <5> QED BY <3>1, <5>1, <5>2
      <4> QED BY <1>0, <1>8, <3>1, <4>1 DEF ArchiveType, ProduceDanmaku
    <3>2. CASE ~(Cardinality(buffer) < BufferSize)
      BY <1>0, <1>8, <3>2 DEF ArchiveType, ProduceDanmaku
    <3> QED BY <3>1, <3>2
  <2> QED BY <2>1, <2>2, <2>3, <2>4
<1>9. CASE CallFailed(m)
  <2>0. /\ author[m] \in Users /\ IsFiniteSet(passed \cup {<<m, now>>})
        /\ <<m, now>> \in Messages \X (0..now) /\ now' = now
    <3>1. IsFiniteSet(passed \cup {<<m, now>>})
      <4>1. IsFiniteSet(passed)
        BY <1>0 DEF RedisType
      <4> QED BY <4>1, OneMore
    <3> QED BY <1>0, <1>9, <3>1 DEF RequestType, RedisType, RoomType, CallFailed
  <2>1. RoomType'
    BY <1>0, <1>9 DEF RoomType, CallFailed, Goto, vars, roomVars, redisVars, requestVars, inputVars, archiveVars, historyVars
  <2>2. RedisType'
    <3>1. CASE UNCHANGED <<limit, rolling, passed>>
      BY <1>0, <1>9, <2>0, <3>1 DEF RedisType, CallFailed
    <3>2. CASE Allowed(author[m], 1) /\ Consume(author[m], 1) /\ passed' = passed \cup {<<m, now>>} /\ UNCHANGED rolling
      <4>1. limit' \in [Users -> [count: 0..UserRateLimit, expires: Nat]]
        BY <1>0, <2>0, <3>2, ConsumeType
      <4> QED BY <1>0, <1>9, <2>0, <3>2, <4>1 DEF RedisType, CallFailed
    <3>3. CASE rolling' = Recent(m) /\ UNCHANGED <<limit, passed>>
      BY <1>0, <1>9, <2>0, <3>3, RecentFacts DEF RedisType, CallFailed
    <3> QED BY <1>9, <3>1, <3>2, <3>3 DEF CallFailed
  <2>3. RequestType'
    BY <1>0, <1>9 DEF RequestType, CallFailed, Goto, vars, roomVars, redisVars, requestVars, inputVars, archiveVars, historyVars, PcValues
  <2>4. ArchiveType'
    BY <1>0, <1>9 DEF ArchiveType, CallFailed, Goto, vars, roomVars, redisVars, requestVars, inputVars, archiveVars, historyVars
  <2> QED BY <2>1, <2>2, <2>3, <2>4
<1> QED BY <1>1, <1>2, <1>3, <1>4, <1>5, <1>6, <1>7, <1>8, <1>9 DEF Send

\* Every step of the system keeps the types.
LEMMA NextType ==
    ASSUME Types, [Next]_vars PROVE Types'
<1> USE DanmakuAssumption
<1>0. TypeOK /\ Finite /\ RoomType /\ RedisType /\ RequestType /\ ArchiveType
  BY TypesAreTypeOK DEF Types
<1> SUFFICES RoomType' /\ RedisType' /\ RequestType' /\ ArchiveType'
  BY DEF Types
<1>1. ASSUME NEW m \in Messages, Deliver(m)
      PROVE  RoomType' /\ RedisType' /\ RequestType' /\ ArchiveType'
  <2>1. RoomType'
    BY <1>0, <1>1 DEF RoomType, Deliver, vars, roomVars, redisVars, requestVars, inputVars, archiveVars, historyVars
  <2>2. RedisType'
    BY <1>0, <1>1 DEF RedisType, Deliver, vars, roomVars, redisVars, requestVars, inputVars, archiveVars, historyVars
  <2>3. RequestType'
    BY <1>0, <1>1 DEF RequestType, Deliver, vars, roomVars, redisVars, requestVars, inputVars, archiveVars, historyVars, PcValues
  <2>4. ArchiveType'
    <3>1. IsFiniteSet(buffer \ {m}) /\ Cardinality(buffer \ {m}) <= BufferSize
      <4>1. IsFiniteSet(buffer) /\ Cardinality(buffer) <= BufferSize /\ BufferSize \in Nat
        BY <1>0 DEF ArchiveType
      <4>2. /\ IsFiniteSet(buffer \ {m}) /\ Cardinality(buffer \ {m}) <= Cardinality(buffer)
            /\ Cardinality(buffer) \in Nat /\ Cardinality(buffer \ {m}) \in Nat
        BY <4>1, OneLess
      <4> QED BY <4>1, <4>2
    <3> QED BY <1>0, <1>1, <3>1 DEF ArchiveType, Deliver
  <2> QED BY <2>1, <2>2, <2>3, <2>4
<1>2. ASSUME NEW m \in Messages, DeliveryFailed(m)
      PROVE  RoomType' /\ RedisType' /\ RequestType' /\ ArchiveType'
  <2>1. RoomType'
    BY <1>0, <1>2 DEF RoomType, DeliveryFailed, vars, roomVars, redisVars, requestVars, inputVars, archiveVars, historyVars
  <2>2. RedisType'
    BY <1>0, <1>2 DEF RedisType, DeliveryFailed, vars, roomVars, redisVars, requestVars, inputVars, archiveVars, historyVars
  <2>3. RequestType'
    BY <1>0, <1>2 DEF RequestType, ArchiveType, PcValues, DeliveryFailed, vars, roomVars, redisVars, requestVars, inputVars, archiveVars, historyVars
  <2>4. ArchiveType'
    <3>1. IsFiniteSet(buffer \ {m}) /\ Cardinality(buffer \ {m}) <= BufferSize
      <4>1. IsFiniteSet(buffer) /\ Cardinality(buffer) <= BufferSize /\ BufferSize \in Nat
        BY <1>0 DEF ArchiveType
      <4>2. /\ IsFiniteSet(buffer \ {m}) /\ Cardinality(buffer \ {m}) <= Cardinality(buffer)
            /\ Cardinality(buffer) \in Nat /\ Cardinality(buffer \ {m}) \in Nat
        BY <4>1, OneLess
      <4> QED BY <4>1, <4>2
    <3> QED BY <1>0, <1>2, <3>1 DEF ArchiveType, DeliveryFailed
  <2> QED BY <2>1, <2>2, <2>3, <2>4
<1>3. CASE InteractionCrashes
  <2>1. RoomType'
    BY <1>0, <1>3 DEF RoomType, InteractionCrashes, vars, roomVars, redisVars, requestVars, inputVars, archiveVars, historyVars
  <2>2. RedisType'
    BY <1>0, <1>3 DEF RedisType, InteractionCrashes, vars, roomVars, redisVars, requestVars, inputVars, archiveVars, historyVars
  <2>3. RequestType'
    BY <1>0, <1>3 DEF RequestType, ArchiveType, PcValues, InteractionCrashes, vars, roomVars, redisVars, requestVars, inputVars, archiveVars, historyVars
  <2>4. ArchiveType'
    BY <1>0, <1>3, FS_EmptySet DEF ArchiveType, InteractionCrashes, vars, roomVars, redisVars, requestVars, inputVars, archiveVars, historyVars
  <2> QED BY <2>1, <2>2, <2>3, <2>4
<1>4. CASE Poll
  <2>1. RoomType'
    BY <1>0, <1>4 DEF RoomType, Poll, vars, roomVars, redisVars, requestVars, inputVars, archiveVars, historyVars
  <2>2. RedisType'
    BY <1>0, <1>4 DEF RedisType, Poll, vars, roomVars, redisVars, requestVars, inputVars, archiveVars, historyVars
  <2>3. RequestType'
    BY <1>0, <1>4 DEF RequestType, Poll, vars, roomVars, redisVars, requestVars, inputVars, archiveVars, historyVars, PcValues
  <2>4. ArchiveType'
    BY <1>0, <1>4 DEF ArchiveType, Poll, vars, roomVars, redisVars, requestVars, inputVars, archiveVars, historyVars
  <2> QED BY <2>1, <2>2, <2>3, <2>4
<1>5. CASE Persist
  <2>1. RoomType'
    BY <1>0, <1>5 DEF RoomType, Persist, vars, roomVars, redisVars, requestVars, inputVars, archiveVars, historyVars
  <2>2. RedisType'
    BY <1>0, <1>5 DEF RedisType, Persist, vars, roomVars, redisVars, requestVars, inputVars, archiveVars, historyVars
  <2>3. RequestType'
    BY <1>0, <1>5 DEF RequestType, Persist, vars, roomVars, redisVars, requestVars, inputVars, archiveVars, historyVars, PcValues
  <2>4. ArchiveType'
    BY <1>0, <1>5 DEF ArchiveType, Persist, vars, roomVars, redisVars, requestVars, inputVars, archiveVars, historyVars
  <2> QED BY <2>1, <2>2, <2>3, <2>4
<1>6. CASE CommitOffset
  <2>1. RoomType'
    BY <1>0, <1>6 DEF RoomType, CommitOffset, vars, roomVars, redisVars, requestVars, inputVars, archiveVars, historyVars
  <2>2. RedisType'
    BY <1>0, <1>6 DEF RedisType, CommitOffset, vars, roomVars, redisVars, requestVars, inputVars, archiveVars, historyVars
  <2>3. RequestType'
    BY <1>0, <1>6 DEF RequestType, CommitOffset, vars, roomVars, redisVars, requestVars, inputVars, archiveVars, historyVars, PcValues
  <2>4. ArchiveType'
    BY <1>0, <1>6 DEF ArchiveType, CommitOffset, vars, roomVars, redisVars, requestVars, inputVars, archiveVars, historyVars
  <2> QED BY <2>1, <2>2, <2>3, <2>4
<1>7. CASE ConsumerCrashes
  <2>1. RoomType'
    BY <1>0, <1>7 DEF RoomType, ConsumerCrashes, vars, roomVars, redisVars, requestVars, inputVars, archiveVars, historyVars
  <2>2. RedisType'
    BY <1>0, <1>7 DEF RedisType, ConsumerCrashes, vars, roomVars, redisVars, requestVars, inputVars, archiveVars, historyVars
  <2>3. RequestType'
    BY <1>0, <1>7 DEF RequestType, ConsumerCrashes, vars, roomVars, redisVars, requestVars, inputVars, archiveVars, historyVars, PcValues
  <2>4. ArchiveType'
    BY <1>0, <1>7 DEF ArchiveType, ConsumerCrashes, vars, roomVars, redisVars, requestVars, inputVars, archiveVars, historyVars
  <2> QED BY <2>1, <2>2, <2>3, <2>4
<1>8. CASE Govern
  <2>1. RoomType'
    <3>1. now' = now /\ changes' \in 0..MaxChanges
      BY <1>0, <1>8 DEF RoomType, Govern
    <3>2. CASE Stop
      BY <1>0, <3>1, <3>2 DEF RoomType, Stop
    <3>3. ASSUME NEW u \in Governed, SetBan(banned \cup {u}) \/ SetBan(banned \ {u}) PROVE RoomType'
      BY <1>0, <3>1, <3>3 DEF RoomType, SetBan
    <3>4. ASSUME NEW u \in Governed, Unmute(u) PROVE RoomType'
      BY <1>0, <3>1, <3>4 DEF RoomType, Unmute
    <3>5. ASSUME NEW u \in Governed, NEW d \in Durations, Mute(u, d) PROVE RoomType'
      BY <1>0, <3>1, <3>5 DEF RoomType, Mute, Forever
    <3> QED BY <1>8, <3>2, <3>3, <3>4, <3>5 DEF Govern
  <2>2. RedisType'
    BY <1>0, <1>8 DEF RedisType, Govern, vars, roomVars, redisVars, requestVars, inputVars, archiveVars, historyVars
  <2>3. RequestType'
    <3>1. always' \in [Messages -> SUBSET {"room", "ban", "mute"}]
      BY <1>0, <1>8, FollowType DEF Govern
    <3> QED BY <1>0, <1>8, <3>1 DEF RequestType, Govern, requestVars, inputVars
  <2>4. ArchiveType'
    BY <1>0, <1>8 DEF ArchiveType, Govern, vars, roomVars, redisVars, requestVars, inputVars, archiveVars, historyVars
  <2> QED BY <2>1, <2>2, <2>3, <2>4
<1>9. CASE Tick
  <2>1. RoomType'
    BY <1>0, <1>9 DEF RoomType, Tick, vars, roomVars, redisVars, requestVars, inputVars, archiveVars, historyVars
  <2>2. RedisType'
    <3>1. now' \in Nat /\ now \in Nat /\ now' = now + 1
      BY <1>0, <1>9 DEF RoomType, Tick
    <3>2. limit' \in [Users -> [count: 0..UserRateLimit, expires: Nat]]
      BY <1>0, <1>9, <3>1 DEF RedisType, Tick, NoKey
    <3>3. 0..now \subseteq 0..now'
      BY <3>1
    <3>4. UNCHANGED <<rolling, passed, refused>>
      BY <1>9 DEF Tick
    <3> QED BY <1>0, <3>2, <3>3, <3>4 DEF RedisType
  <2>3. RequestType'
    <3>1. always' \in [Messages -> SUBSET {"room", "ban", "mute"}]
      BY <1>0, <1>9, FollowType DEF Tick
    <3> QED BY <1>0, <1>9, <3>1 DEF RequestType, Tick, requestVars, inputVars
  <2>4. ArchiveType'
    BY <1>0, <1>9 DEF ArchiveType, Tick, vars, roomVars, redisVars, requestVars, inputVars, archiveVars, historyVars
  <2> QED BY <2>1, <2>2, <2>3, <2>4
<1>10. CASE UNCHANGED vars
  <2>1. RoomType'
    BY <1>0, <1>10 DEF RoomType, vars, roomVars, redisVars, requestVars, inputVars, archiveVars, historyVars
  <2>2. RedisType'
    BY <1>0, <1>10 DEF RedisType, vars, roomVars, redisVars, requestVars, inputVars, archiveVars, historyVars
  <2>3. RequestType'
    BY <1>0, <1>10 DEF RequestType, vars, roomVars, redisVars, requestVars, inputVars, archiveVars, historyVars, PcValues
  <2>4. ArchiveType'
    BY <1>0, <1>10 DEF ArchiveType, vars, roomVars, redisVars, requestVars, inputVars, archiveVars, historyVars
  <2> QED BY <2>1, <2>2, <2>3, <2>4
<1> QED BY <1>1, <1>2, <1>3, <1>4, <1>5, <1>6, <1>7, <1>8, <1>9, <1>10, SendType DEF Next, Types

-----------------------------------------------------------------------------
(* Requests *)

\* Nothing about a request changes, nor what may bar its author.
Untouched(n) ==
    /\ pc'[n] = pc[n] /\ author'[n] = author[n] /\ text'[n] = text[n] /\ access'[n] = access[n]
    /\ decision'[n] = decision[n] /\ always'[n] = always[n] /\ (n \in screen' <=> n \in screen)
    /\ UNCHANGED <<now, status, banned, mutes>>

LEMMA UntouchedIsSound ==
    ASSUME NEW n \in Messages, BarsFound(n), ChecksPassed(n), DecisionFollowed(n), Untouched(n)
    PROVE  BarsFound(n)' /\ ChecksPassed(n)' /\ DecisionFollowed(n)'
<1>1. Bars(author[n])' = Bars(author[n])
  BY DEF Untouched, Bars, IsMuted
<1>2. BarsFound(n)'
  BY <1>1 DEF Untouched, BarsFound
<1>3. ChecksPassed(n)'
  BY DEF Untouched, ChecksPassed, Filtered
<1>4. DecisionFollowed(n)'
  BY DEF Untouched, DecisionFollowed, Kept
<1> QED BY <1>2, <1>3, <1>4

\* A step of one request touches no other.
LEMMA SendTouchesOne ==
    ASSUME RequestType, NEW m \in Messages, NEW n \in Messages, n # m, Send(m)
    PROVE  Untouched(n)
<1> USE DEF Untouched, RequestType, Goto, roomVars, redisVars, inputVars, requestVars, archiveVars, historyVars
<1>1. ASSUME NEW u \in Users, NEW content \in Texts, Arrive(m, u, content) PROVE Untouched(n)
  BY <1>1 DEF Arrive
<1>2. ASSUME NEW bar, NEW next, ReadAccess(m, bar, next) PROVE Untouched(n)
  BY <1>2 DEF ReadAccess
<1>3. CASE ReadMute(m)
  BY <1>3 DEF ReadMute
<1>4. CASE CheckLimit(m)
  BY <1>4 DEF CheckLimit
<1>5. ASSUME NEW viewers \in Audience, Decide(m, viewers) PROVE Untouched(n)
  BY <1>5 DEF Decide
<1>6. CASE Publish(m)
  BY <1>6 DEF Publish
<1>7. CASE PublishFailed(m)
  BY <1>7 DEF PublishFailed
<1>8. CASE ProduceDanmaku(m)
  BY <1>8 DEF ProduceDanmaku
<1>9. CASE CallFailed(m)
  BY <1>9 DEF CallFailed
<1> QED BY <1>1, <1>2, <1>3, <1>4, <1>5, <1>6, <1>7, <1>8, <1>9 DEF Send

\* A request's own step keeps it sound: what has barred its author since it arrived is
\* found by the read of it, and then the request ends.
LEMMA SendIsSound ==
    ASSUME Types, NEW m \in Messages, Send(m), BarsFound(m), ChecksPassed(m), DecisionFollowed(m)
    PROVE  BarsFound(m)' /\ ChecksPassed(m)' /\ DecisionFollowed(m)'
<1>0. RequestType /\ TypeOK /\ Finite
  BY TypesAreTypeOK DEF Types
<1>1. ASSUME NEW u \in Users, NEW content \in Texts, Arrive(m, u, content)
      PROVE  BarsFound(m)' /\ ChecksPassed(m)' /\ DecisionFollowed(m)'
  <2>1. BarsFound(m)'
    BY <1>0, <1>1 DEF BarsFound, ChecksPassed, Arrive, Bars, IsMuted, RequestType, PcValues, Goto, roomVars, inputVars, historyVars
  <2>2. ChecksPassed(m)'
    BY <1>0, <1>1 DEF ChecksPassed, BarsFound, Filtered, Arrive, Bars, IsMuted, RequestType, PcValues, Goto, roomVars, inputVars, historyVars
  <2>3. DecisionFollowed(m)'
    BY <1>0, <1>1 DEF DecisionFollowed, ChecksPassed, Kept, Arrive, Bars, IsMuted, RequestType, PcValues, Goto, roomVars, inputVars, historyVars
  <2> QED BY <2>1, <2>2, <2>3
<1>2. ASSUME NEW bar, NEW next, <<bar, next>> \in {<<"room", "ban">>, <<"ban", "mute">>}, ReadAccess(m, bar, next)
      PROVE  BarsFound(m)' /\ ChecksPassed(m)' /\ DecisionFollowed(m)'
  <2>1. BarsFound(m)'
    BY <1>0, <1>2 DEF BarsFound, ChecksPassed, ReadAccess, Bars, IsMuted, RequestType, PcValues, Goto, roomVars, inputVars, historyVars
  <2>2. ChecksPassed(m)'
    BY <1>0, <1>2 DEF ChecksPassed, BarsFound, Filtered, ReadAccess, Bars, IsMuted, RequestType, PcValues, Goto, roomVars, inputVars, historyVars
  <2>3. DecisionFollowed(m)'
    BY <1>0, <1>2 DEF DecisionFollowed, ChecksPassed, Kept, ReadAccess, Bars, IsMuted, RequestType, PcValues, Goto, roomVars, inputVars, historyVars
  <2> QED BY <2>1, <2>2, <2>3
<1>3. CASE ReadMute(m)
  <2>1. BarsFound(m)'
    BY <1>0, <1>3 DEF BarsFound, ChecksPassed, ReadMute, Bars, IsMuted, RequestType, PcValues, Goto, roomVars, inputVars, historyVars
  <2>2. ChecksPassed(m)'
    BY <1>0, <1>3 DEF ChecksPassed, BarsFound, Filtered, ReadMute, Bars, IsMuted, RequestType, PcValues, Goto, roomVars, inputVars, historyVars
  <2>3. DecisionFollowed(m)'
    BY <1>0, <1>3 DEF DecisionFollowed, ChecksPassed, Kept, ReadMute, Bars, IsMuted, RequestType, PcValues, Goto, roomVars, inputVars, historyVars
  <2> QED BY <2>1, <2>2, <2>3
<1>4. CASE CheckLimit(m)
  <2>1. BarsFound(m)'
    BY <1>0, <1>4 DEF BarsFound, ChecksPassed, CheckLimit, RequestType, PcValues, Goto, roomVars, inputVars, historyVars
  <2>2. ChecksPassed(m)'
    BY <1>0, <1>4 DEF ChecksPassed, BarsFound, Filtered, CheckLimit, RequestType, PcValues, Goto, roomVars, inputVars, historyVars
  <2>3. DecisionFollowed(m)'
    BY <1>0, <1>4 DEF DecisionFollowed, ChecksPassed, Kept, CheckLimit, RequestType, PcValues, Goto, roomVars, inputVars, historyVars
  <2> QED BY <2>1, <2>2, <2>3
<1>5. ASSUME NEW viewers \in Audience, Decide(m, viewers)
      PROVE  BarsFound(m)' /\ ChecksPassed(m)' /\ DecisionFollowed(m)'
  <2>1. BarsFound(m)'
    BY <1>0, <1>5, RecentFacts DEF BarsFound, ChecksPassed, Decide, RequestType, PcValues, Goto, roomVars, inputVars, historyVars
  <2>2. ChecksPassed(m)'
    BY <1>0, <1>5, RecentFacts DEF ChecksPassed, BarsFound, Filtered, Decide, RequestType, PcValues, Goto, roomVars, inputVars, historyVars
  <2>3. DecisionFollowed(m)'
    BY <1>0, <1>5, RecentFacts DEF DecisionFollowed, ChecksPassed, Kept, Decide, RequestType, PcValues, Goto, roomVars, inputVars, historyVars
  <2> QED BY <2>1, <2>2, <2>3
<1>6. CASE Publish(m)
  <2>1. BarsFound(m)'
    BY <1>0, <1>6 DEF BarsFound, ChecksPassed, Publish, RequestType, PcValues, Goto, roomVars, inputVars, historyVars
  <2>2. ChecksPassed(m)'
    BY <1>0, <1>6 DEF ChecksPassed, BarsFound, Filtered, Publish, RequestType, PcValues, Goto, roomVars, inputVars, historyVars
  <2>3. DecisionFollowed(m)'
    BY <1>0, <1>6 DEF DecisionFollowed, ChecksPassed, Kept, Publish, RequestType, PcValues, Goto, roomVars, inputVars, historyVars
  <2> QED BY <2>1, <2>2, <2>3
<1>7. CASE PublishFailed(m)
  <2>1. BarsFound(m)'
    BY <1>0, <1>7 DEF BarsFound, ChecksPassed, PublishFailed, RequestType, PcValues, Goto, roomVars, inputVars, historyVars
  <2>2. ChecksPassed(m)'
    BY <1>0, <1>7 DEF ChecksPassed, BarsFound, Filtered, PublishFailed, RequestType, PcValues, Goto, roomVars, inputVars, historyVars
  <2>3. DecisionFollowed(m)'
    BY <1>0, <1>7 DEF DecisionFollowed, ChecksPassed, Kept, PublishFailed, RequestType, PcValues, Goto, roomVars, inputVars, historyVars
  <2> QED BY <2>1, <2>2, <2>3
<1>8. CASE ProduceDanmaku(m)
  <2>1. BarsFound(m)'
    BY <1>0, <1>8 DEF BarsFound, ChecksPassed, ProduceDanmaku, RequestType, PcValues, Goto, roomVars, inputVars, historyVars
  <2>2. ChecksPassed(m)'
    BY <1>0, <1>8 DEF ChecksPassed, BarsFound, Filtered, ProduceDanmaku, RequestType, PcValues, Goto, roomVars, inputVars, historyVars
  <2>3. DecisionFollowed(m)'
    BY <1>0, <1>8 DEF DecisionFollowed, ChecksPassed, Kept, ProduceDanmaku, RequestType, PcValues, Goto, roomVars, inputVars, historyVars
  <2> QED BY <2>1, <2>2, <2>3
<1>9. CASE CallFailed(m)
  <2>1. BarsFound(m)'
    BY <1>0, <1>9 DEF BarsFound, ChecksPassed, CallFailed, RequestType, PcValues, Goto, roomVars, inputVars, historyVars
  <2>2. ChecksPassed(m)'
    BY <1>0, <1>9 DEF ChecksPassed, BarsFound, Filtered, CallFailed, RequestType, PcValues, Goto, roomVars, inputVars, historyVars
  <2>3. DecisionFollowed(m)'
    BY <1>0, <1>9 DEF DecisionFollowed, ChecksPassed, Kept, CallFailed, RequestType, PcValues, Goto, roomVars, inputVars, historyVars
  <2> QED BY <2>1, <2>2, <2>3
<1> QED BY <1>1, <1>2, <1>3, <1>4, <1>5, <1>6, <1>7, <1>8, <1>9 DEF Send

\* When the room changes or time passes, a bar that goes leaves the history too.
LEMMA FollowIsSound ==
    ASSUME Types, NEW n \in Messages, BarsFound(n), ChecksPassed(n), DecisionFollowed(n),
           Follow, UNCHANGED <<requestVars, screen>>
    PROVE  BarsFound(n)' /\ ChecksPassed(n)' /\ DecisionFollowed(n)'
<1>0. RequestType /\ TypeOK /\ Finite
  BY TypesAreTypeOK DEF Types
<1>1. /\ always'[n] \subseteq always[n]
      /\ pc[n] \notin {"rejected", "failed"} => always'[n] = always[n] \cap Bars(author[n])'
  BY <1>0, FollowType
<1>2. UNCHANGED <<pc, author, text, access, decision, screen>>
  BY DEF requestVars, inputVars
<1>3. BarsFound(n)'
  BY <1>1, <1>2 DEF BarsFound
<1>4. ChecksPassed(n)'
  BY <1>1, <1>2 DEF ChecksPassed, Filtered
<1>5. DecisionFollowed(n)'
  BY <1>2 DEF DecisionFollowed, Kept
<1> QED BY <1>3, <1>4, <1>5

LEMMA RequestsStep ==
    ASSUME Types, RequestsAreSound, [Next]_vars PROVE RequestsAreSound'
<1>0. RequestType
  BY DEF Types
<1> SUFFICES ASSUME NEW n \in Messages PROVE BarsFound(n)' /\ ChecksPassed(n)' /\ DecisionFollowed(n)'
  BY DEF RequestsAreSound
<1>s. BarsFound(n) /\ ChecksPassed(n) /\ DecisionFollowed(n)
  BY DEF RequestsAreSound
<1>1. ASSUME NEW m \in Messages, Send(m) PROVE BarsFound(n)' /\ ChecksPassed(n)' /\ DecisionFollowed(n)'
  <2>1. CASE n = m
    BY <1>1, <1>s, <2>1, SendIsSound
  <2>2. CASE n # m
    BY <1>0, <1>1, <1>s, <2>2, SendTouchesOne, UntouchedIsSound
  <2> QED BY <2>1, <2>2
<1>2. CASE InteractionCrashes
  <2>1. /\ pc'[n] = IF pc[n] \in {"new", "ok", "rejected"} THEN pc[n] ELSE "failed"
        /\ UNCHANGED <<author, text, decision, screen, always>>
    BY <1>2 DEF InteractionCrashes, inputVars
  <2>2. BarsFound(n)'
    BY <2>1 DEF BarsFound
  <2>3. ChecksPassed(n)'
    BY <1>s, <2>1 DEF ChecksPassed, Filtered
  <2>4. DecisionFollowed(n)'
    BY <1>s, <2>1 DEF DecisionFollowed, Kept
  <2> QED BY <2>2, <2>3, <2>4
<1>3. CASE Govern \/ Tick
  <2>1. Follow /\ UNCHANGED <<requestVars, screen>>
    BY <1>3 DEF Govern, Tick
  <2> QED BY <1>s, <2>1, FollowIsSound
<1>4. CASE (\E m \in Messages : Deliver(m) \/ DeliveryFailed(m)) \/ Poll \/ Persist \/ CommitOffset \/ ConsumerCrashes
  <2>1. UNCHANGED <<now, roomVars, requestVars, screen, always>>
    BY <1>4 DEF Deliver, DeliveryFailed, Poll, Persist, CommitOffset, ConsumerCrashes, historyVars
  <2>2. Untouched(n)
    BY <2>1 DEF Untouched, roomVars, requestVars, inputVars
  <2> QED BY <1>s, <2>2, UntouchedIsSound
<1>5. CASE UNCHANGED vars
  <2>1. Untouched(n)
    BY <1>5 DEF Untouched, vars, roomVars, redisVars, requestVars, inputVars, archiveVars, historyVars
  <2> QED BY <1>s, <2>1, UntouchedIsSound
<1> QED BY <1>1, <1>2, <1>3, <1>4, <1>5 DEF Next

-----------------------------------------------------------------------------
(* The archive *)

\* The steps before the hand-over to Kafka leave the archive's side alone.
LEMMA BeforeProduce ==
    ASSUME RequestType, NEW m \in Messages, Send(m), ~ProduceDanmaku(m)
    PROVE  /\ UNCHANGED <<archiveVars, lost>>
           /\ \A n \in Messages : pc'[n] = "ok" <=> pc[n] = "ok"
<1> USE DEF RequestType, Goto, historyVars
<1>1. ASSUME NEW u \in Users, NEW content \in Texts, Arrive(m, u, content)
      PROVE  UNCHANGED <<archiveVars, lost>> /\ \A n \in Messages : pc'[n] = "ok" <=> pc[n] = "ok"
  BY <1>1 DEF Arrive
<1>2. CASE ReadAccess(m, "room", "ban") \/ ReadAccess(m, "ban", "mute")
  BY <1>2 DEF ReadAccess
<1>3. CASE ReadMute(m)
  BY <1>3 DEF ReadMute
<1>4. CASE CheckLimit(m)
  BY <1>4 DEF CheckLimit
<1>5. ASSUME NEW viewers \in Audience, Decide(m, viewers)
      PROVE  UNCHANGED <<archiveVars, lost>> /\ \A n \in Messages : pc'[n] = "ok" <=> pc[n] = "ok"
  BY <1>5 DEF Decide
<1>6. CASE Publish(m)
  BY <1>6 DEF Publish
<1>7. CASE PublishFailed(m)
  BY <1>7 DEF PublishFailed
<1>8. CASE CallFailed(m)
  BY <1>8 DEF CallFailed
<1> QED BY <1>1, <1>2, <1>3, <1>4, <1>5, <1>6, <1>7, <1>8 DEF Send

\* Where nothing of the archive's side changes, nothing is skipped.
LEMMA ArchiveStutters ==
    ASSUME NothingIsSkipped, Types, UNCHANGED <<archiveVars, lost>>,
           \A n \in Messages : pc'[n] = "ok" <=> pc[n] = "ok"
    PROVE  NothingIsSkipped'
<1>1. UNCHANGED <<buffer, topic, offset, cpc, archive, lost>>
  BY DEF archiveVars
<1>2. Recorded' = Recorded
  BY <1>1 DEF Recorded
<1>3. Recorded \subseteq Messages
  BY DEF Recorded, Types, ArchiveType
<1> QED BY <1>1, <1>2, <1>3 DEF NothingIsSkipped

OnItsWay(m) == \/ m \in lost \cup buffer \cup archive
               \/ \E i \in offset + 1..Len(topic) : topic[i] = m

LEMMA SkippedParts ==
    NothingIsSkipped <=> /\ \A m \in Recorded : pc[m] = "ok"
                         /\ \A m \in Messages : pc[m] = "ok" => OnItsWay(m)
                         /\ cpc = "commit" => topic[offset + 1] \in archive
  BY DEF NothingIsSkipped, OnItsWay

LEMMA ArchiveStep ==
    ASSUME Types, NothingIsSkipped, [Next]_vars PROVE NothingIsSkipped'
<1>0. RequestType /\ ArchiveType /\ offset \in Nat /\ Len(topic) \in Nat
  BY DEF Types, ArchiveType
<1>s. /\ \A m \in Recorded : pc[m] = "ok"
      /\ \A m \in Messages : pc[m] = "ok" => OnItsWay(m)
      /\ cpc = "commit" => topic[offset + 1] \in archive
  BY SkippedParts
<1>1. ASSUME NEW m \in Messages, Send(m), ~ProduceDanmaku(m) PROVE NothingIsSkipped'
  BY <1>0, <1>1, BeforeProduce, ArchiveStutters
<1>2. ASSUME NEW m \in Messages, ProduceDanmaku(m) PROVE NothingIsSkipped'
  <2>1. /\ UNCHANGED <<topic, offset, cpc, archive>> /\ pc' = [pc EXCEPT ![m] = "ok"]
        /\ buffer \subseteq buffer' /\ buffer' \subseteq buffer \cup {m} /\ lost \subseteq lost' /\ m \in buffer' \cup lost'
    BY <1>2 DEF ProduceDanmaku, Goto
  <2>2. \A n \in Recorded' : n = m \/ n \in Recorded
    BY <2>1 DEF Recorded
  <2>3. \A n \in Recorded' : pc'[n] = "ok"
    BY <1>0, <1>s, <2>1, <2>2 DEF RequestType, ArchiveType, Recorded
  <2>4. ASSUME NEW n \in Messages, pc'[n] = "ok" PROVE OnItsWay(n)'
    BY <1>0, <1>s, <2>1, <2>4 DEF OnItsWay, RequestType
  <2> QED BY <1>s, <2>1, <2>3, <2>4 DEF NothingIsSkipped, OnItsWay
<1>3. ASSUME NEW m \in Messages, Deliver(m) PROVE NothingIsSkipped'
  <2>1. /\ UNCHANGED <<pc, offset, cpc, archive, lost>> /\ buffer' = buffer \ {m} /\ m \in buffer
        /\ topic' = Append(topic, m)
    BY <1>3 DEF Deliver, requestVars, historyVars
  <2>2. /\ Len(topic') = Len(topic) + 1 /\ topic'[Len(topic) + 1] = m /\ DOMAIN topic' = 1..Len(topic) + 1
        /\ \A i \in 1..Len(topic) : topic'[i] = topic[i]
    BY <1>0, <2>1 DEF ArchiveType
  <2>3. Recorded' \subseteq Recorded
    BY <1>0, <2>1, <2>2 DEF Recorded, ArchiveType
  <2>4. ASSUME NEW n \in Messages, pc'[n] = "ok" PROVE OnItsWay(n)'
    <3>1. OnItsWay(n)
      BY <1>s, <2>1, <2>4
    <3>2. CASE n = m
      <4>1. Len(topic) + 1 \in offset + 1..Len(topic')
        BY <1>0, <2>2 DEF ArchiveType
      <4> QED BY <2>1, <2>2, <3>2, <4>1 DEF OnItsWay
    <3>3. CASE n # m /\ n \in lost \cup buffer \cup archive
      BY <2>1, <3>3 DEF OnItsWay
    <3>4. CASE \E i \in offset + 1..Len(topic) : topic[i] = n
      BY <1>0, <2>1, <2>2, <3>4 DEF OnItsWay
    <3> QED BY <3>1, <3>2, <3>3, <3>4 DEF OnItsWay
  <2>5. cpc' = "commit" => topic'[offset' + 1] \in archive'
    BY <1>0, <1>s, <2>1, <2>2 DEF ArchiveType
  <2> QED BY <1>s, <2>1, <2>3, <2>4, <2>5 DEF NothingIsSkipped, OnItsWay
<1>4. ASSUME NEW m \in Messages, DeliveryFailed(m) PROVE NothingIsSkipped'
  <2>1. /\ UNCHANGED <<pc, topic, offset, cpc, archive>> /\ buffer' = buffer \ {m} /\ lost' = lost \cup {m}
    BY <1>4 DEF DeliveryFailed, requestVars
  <2>2. Recorded' \subseteq Recorded
    BY <2>1 DEF Recorded
  <2>3. ASSUME NEW n \in Messages, pc'[n] = "ok" PROVE OnItsWay(n)'
    BY <1>s, <2>1, <2>3 DEF OnItsWay
  <2> QED BY <1>s, <2>1, <2>2, <2>3 DEF NothingIsSkipped, OnItsWay
<1>5. CASE InteractionCrashes
  <2>1. /\ UNCHANGED <<topic, offset, cpc, archive>> /\ buffer' = {} /\ lost' = lost \cup buffer
        /\ \A n \in Messages : pc'[n] = "ok" <=> pc[n] = "ok"
    BY <1>5 DEF InteractionCrashes
  <2>2. Recorded' \subseteq Recorded /\ Recorded \subseteq Messages
    BY <1>0, <2>1 DEF Recorded, ArchiveType
  <2>3. ASSUME NEW n \in Messages, pc'[n] = "ok" PROVE OnItsWay(n)'
    BY <1>s, <2>1, <2>3 DEF OnItsWay
  <2> QED BY <1>s, <2>1, <2>2, <2>3 DEF NothingIsSkipped, OnItsWay
<1>6. CASE Poll \/ ConsumerCrashes
  <2>1. UNCHANGED <<pc, buffer, topic, offset, archive, lost>> /\ cpc' # "commit"
    BY <1>6 DEF Poll, ConsumerCrashes, requestVars, historyVars
  <2>2. Recorded' = Recorded
    BY <2>1 DEF Recorded
  <2> QED BY <1>s, <2>1, <2>2 DEF NothingIsSkipped, OnItsWay
<1>7. CASE Persist
  <2>1. UNCHANGED <<pc, buffer, topic, offset, lost>> /\ archive' = archive \cup {topic[offset + 1]} /\ cpc = "insert"
    BY <1>7 DEF Persist, requestVars, historyVars
  <2>2. offset + 1 \in DOMAIN topic
    BY <1>0, <2>1 DEF ArchiveType
  <2>3. Recorded' \subseteq Recorded
    BY <2>1, <2>2 DEF Recorded
  <2>4. ASSUME NEW n \in Messages, pc'[n] = "ok" PROVE OnItsWay(n)'
    BY <1>s, <2>1, <2>4 DEF OnItsWay
  <2> QED BY <1>s, <2>1, <2>3, <2>4 DEF NothingIsSkipped, OnItsWay
<1>8. CASE CommitOffset
  <2>1. UNCHANGED <<pc, buffer, topic, archive, lost>> /\ offset' = offset + 1 /\ cpc = "commit" /\ cpc' = "poll"
    BY <1>8 DEF CommitOffset, requestVars, historyVars
  <2>2. Recorded' = Recorded
    BY <2>1 DEF Recorded
  <2>3. ASSUME NEW n \in Messages, pc'[n] = "ok" PROVE OnItsWay(n)'
    <3>1. CASE n \in lost \cup buffer \cup archive
      BY <2>1, <3>1 DEF OnItsWay
    <3>2. CASE \E i \in offset + 1..Len(topic) : topic[i] = n
      <4>1. PICK i \in offset + 1..Len(topic) : topic[i] = n
        BY <3>2
      <4>2. CASE i = offset + 1
        BY <1>s, <2>1, <4>1, <4>2 DEF OnItsWay
      <4>3. CASE i # offset + 1
        <5>1. i \in offset' + 1..Len(topic')
          <6>1. offset' = offset + 1 /\ Len(topic') = Len(topic)
            BY <2>1
          <6> QED BY <1>0, <4>3, <6>1
        <5> QED BY <2>1, <4>1, <5>1 DEF OnItsWay
      <4> QED BY <4>2, <4>3
    <3> QED BY <1>s, <2>1, <2>3, <3>1, <3>2 DEF OnItsWay
  <2> QED BY <1>s, <2>1, <2>2, <2>3 DEF NothingIsSkipped, OnItsWay
<1>9. CASE Govern \/ Tick \/ UNCHANGED vars
  <2>1. UNCHANGED <<archiveVars, lost, pc>>
    BY <1>9 DEF Govern, Tick, vars, roomVars, redisVars, requestVars, inputVars, archiveVars, historyVars
  <2> QED BY <2>1, ArchiveStutters
<1> QED BY <1>1, <1>2, <1>3, <1>4, <1>5, <1>6, <1>7, <1>8, <1>9 DEF Next

-----------------------------------------------------------------------------
(* The limiter *)

Late == {"decide", "publish", "produce", "ok", "rejected", "failed"}

\* A request that has met the limiter does not come back to it.
LEMMA LateStaysLate ==
    ASSUME Types, [Next]_vars, NEW n \in Messages, pc[n] \in Late
    PROVE  pc'[n] \in Late
<1>0. RequestType
  BY DEF Types
<1>1. ASSUME NEW m \in Messages, Send(m) PROVE pc'[n] \in Late
  <2>1. CASE n # m
    BY <1>0, <1>1, <2>1, SendTouchesOne DEF Untouched
  <2>2. CASE n = m
    BY <1>0, <1>1, <2>2 DEF Send, Arrive, ReadAccess, ReadMute, CheckLimit, Decide, Publish, PublishFailed,
       ProduceDanmaku, CallFailed, Goto, Late, RequestType
  <2> QED BY <2>1, <2>2
<1>2. CASE InteractionCrashes
  BY <1>2 DEF InteractionCrashes, Late
<1>3. CASE \/ \E m \in Messages : Deliver(m) \/ DeliveryFailed(m)
           \/ Poll \/ Persist \/ CommitOffset \/ ConsumerCrashes \/ Govern \/ Tick \/ UNCHANGED vars
  <2>1. UNCHANGED pc
    BY <1>3 DEF Deliver, DeliveryFailed, Poll, Persist, CommitOffset, ConsumerCrashes, Govern, Tick, requestVars, vars
  <2> QED BY <2>1
<1> QED BY <1>1, <1>2, <1>3 DEF Next

\* The limiter admits a request, or refuses it.
Admits(m) ==
    /\ pc[m] = "limit" /\ pc'[m] \in Late
    /\ Allowed(author[m], 1) /\ Consume(author[m], 1)
    /\ passed' = passed \cup {<<m, now>>}
    /\ UNCHANGED <<now, author, refused>>

Refuses(m) ==
    /\ pc[m] = "limit" /\ pc'[m] \in Late
    /\ ~Allowed(author[m], 1)
    /\ refused' = refused \cup {<<m, now>>}
    /\ UNCHANGED <<now, author, limit, passed>>

\* A step of others; a request that arrives has not met the limiter.
PassesBy ==
    /\ UNCHANGED <<now, limit, passed, refused>>
    /\ \A p \in passed \cup refused : author'[p[1]] = author[p[1]]

LEMMA LimiterCases ==
    ASSUME Types, TriedOnce, [Next]_vars
    PROVE  PassesBy \/ Tick \/ \E m \in Messages : Admits(m) \/ Refuses(m)
<1>0. RequestType /\ RedisType
  BY DEF Types
<1>1. ASSUME NEW m \in Messages, Send(m) PROVE PassesBy \/ Admits(m) \/ Refuses(m)
  <2>1. ASSUME NEW u \in Users, NEW content \in Texts, Arrive(m, u, content) PROVE PassesBy
    <3>1. UNCHANGED <<now, limit, passed, refused>> /\ pc[m] = "new" /\ author' = [author EXCEPT ![m] = u]
      BY <2>1 DEF Arrive, redisVars
    <3>2. ASSUME NEW p \in passed \cup refused PROVE author'[p[1]] = author[p[1]]
      <4>1. p[1] \in Messages /\ pc[p[1]] # "new"
        BY <1>0 DEF TriedOnce, RedisType
      <4> QED BY <1>0, <3>1, <4>1 DEF RequestType
    <3> QED BY <3>1, <3>2 DEF PassesBy
  <2>2. CASE CheckLimit(m)
    BY <1>0, <2>2 DEF CheckLimit, Goto, Admits, Refuses, Late, RequestType, inputVars
  <2>3. CASE CallFailed(m)
    <3>1. UNCHANGED <<now, author, refused>> /\ pc'[m] = "failed"
      BY <1>0, <2>3 DEF CallFailed, Goto, RequestType, inputVars
    <3>2. CASE UNCHANGED <<limit, passed>>
      BY <3>1, <3>2 DEF PassesBy
    <3>3. CASE /\ pc[m] = "limit" /\ Allowed(author[m], 1) /\ Consume(author[m], 1)
               /\ passed' = passed \cup {<<m, now>>}
      BY <3>1, <3>3 DEF Admits, Late
    <3> QED BY <2>3, <3>2, <3>3 DEF CallFailed
  <2>4. CASE \/ ReadAccess(m, "room", "ban") \/ ReadAccess(m, "ban", "mute") \/ ReadMute(m)
             \/ \E viewers \in Audience : Decide(m, viewers)
             \/ Publish(m) \/ PublishFailed(m) \/ ProduceDanmaku(m)
    BY <2>4 DEF PassesBy, ReadAccess, ReadMute, Decide, Publish, PublishFailed, ProduceDanmaku,
       redisVars, inputVars, historyVars
  <2> QED BY <1>1, <2>1, <2>2, <2>3, <2>4 DEF Send
<1>2. CASE \/ \E m \in Messages : Deliver(m) \/ DeliveryFailed(m)
           \/ InteractionCrashes \/ Poll \/ Persist \/ CommitOffset \/ ConsumerCrashes \/ Govern \/ UNCHANGED vars
  <2>1. UNCHANGED <<now, limit, passed, refused, author>>
    BY <1>2 DEF Deliver, DeliveryFailed, InteractionCrashes, Poll, Persist, CommitOffset, ConsumerCrashes, Govern,
       vars, roomVars, redisVars, requestVars, inputVars, archiveVars, historyVars
  <2> QED BY <2>1 DEF PassesBy
<1> QED BY <1>1, <1>2 DEF Next

LEMMA TriedOnceStep ==
    ASSUME Types, TriedOnce, [Next]_vars PROVE TriedOnce'
<1>0. RedisType /\ Types'
  BY NextType DEF Types
<1> SUFFICES ASSUME NEW p \in passed' \cup refused' PROVE pc'[p[1]] \in Late
  BY DEF TriedOnce, Late
<1>1. CASE p \in passed \cup refused
  <2>1. p[1] \in Messages /\ pc[p[1]] \in Late
    BY <1>0, <1>1 DEF TriedOnce, RedisType, Late
  <2> QED BY <2>1, LateStaysLate
<1>2. CASE p \notin passed \cup refused
  <2>1. PICK m \in Messages : (Admits(m) \/ Refuses(m)) /\ p = <<m, now>>
    <3>1. CASE PassesBy \/ Tick
      BY <1>2, <3>1 DEF PassesBy, Tick
    <3>2. ASSUME NEW m \in Messages, Admits(m) \/ Refuses(m) PROVE p = <<m, now>>
      BY <1>2, <3>2 DEF Admits, Refuses
    <3> QED BY <3>1, <3>2, LimiterCases
  <2> QED BY <2>1 DEF Admits, Refuses
<1> QED BY <1>1, <1>2

\* The requests of u in a history h with the authors a, from one time to another.
Span(h, a, u, from, to) == {p \in h : a[p[1]] = u /\ p[2] \in from..to}
Size(h, a, u, from, to) == Cardinality(Span(h, a, u, from, to))

LEMMA SpanFinite ==
    ASSUME NEW h, NEW a, NEW u, NEW from, NEW to, IsFiniteSet(h)
    PROVE  IsFiniteSet(Span(h, a, u, from, to)) /\ Size(h, a, u, from, to) \in Nat
<1>1. Span(h, a, u, from, to) \subseteq h
  BY DEF Span
<1> QED BY <1>1, FS_Subset, FS_CardinalityType DEF Size

\* A wider span of a longer history holds no less.
LEMMA SpanMonotone ==
    ASSUME NEW g, NEW h, NEW a, NEW u, NEW from, NEW to, NEW from2, NEW to2, IsFiniteSet(h),
           Span(g, a, u, from, to) \subseteq Span(h, a, u, from2, to2)
    PROVE  Size(g, a, u, from, to) <= Size(h, a, u, from2, to2)
<1>1. IsFiniteSet(Span(h, a, u, from2, to2))
  BY SpanFinite
<1> QED BY <1>1, FS_Subset DEF Size

\* A new request counts once where it falls into the span, and not at all elsewhere.
LEMMA SpanGrows ==
    ASSUME NEW h, NEW a, NEW u, NEW from, NEW to, IsFiniteSet(h), NEW m, NEW t, <<m, t>> \notin h
    PROVE  /\ a[m] = u /\ t \in from..to
                => Size(h \cup {<<m, t>>}, a, u, from, to) = Size(h, a, u, from, to) + 1
           /\ ~(a[m] = u /\ t \in from..to)
                => Span(h \cup {<<m, t>>}, a, u, from, to) = Span(h, a, u, from, to)
<1>1. CASE a[m] = u /\ t \in from..to
  <2>1. Span(h \cup {<<m, t>>}, a, u, from, to) = Span(h, a, u, from, to) \cup {<<m, t>>}
    BY <1>1 DEF Span
  <2>2. <<m, t>> \notin Span(h, a, u, from, to)
    BY DEF Span
  <2>3. IsFiniteSet(Span(h, a, u, from, to))
    BY SpanFinite
  <2> QED BY <1>1, <2>1, <2>2, <2>3, OneMore DEF Size
<1>2. CASE ~(a[m] = u /\ t \in from..to)
  BY <1>2 DEF Span
<1> QED BY <1>1, <1>2

\* A span is covered by its two parts.
LEMMA SpanSplits ==
    ASSUME NEW h, NEW a, NEW u, NEW from, NEW to, NEW first, NEW mid, IsFiniteSet(h),
           Span(h, a, u, from, to) \subseteq Span(h, a, u, first, mid - 1) \cup Span(h, a, u, mid, to)
    PROVE  Size(h, a, u, from, to) <= Size(h, a, u, first, mid - 1) + Size(h, a, u, mid, to)
<1> DEFINE S == Span(h, a, u, first, mid - 1)
           T == Span(h, a, u, mid, to)
           R == Span(h, a, u, from, to)
<1>1. IsFiniteSet(S) /\ IsFiniteSet(T) /\ IsFiniteSet(R)
  BY SpanFinite
<1> HIDE DEF S, T, R
<1>2. /\ IsFiniteSet(S \cup T) /\ Cardinality(S \cup T) = Cardinality(S) + Cardinality(T) - Cardinality(S \cap T)
      /\ IsFiniteSet(S \cap T)
  BY <1>1, FS_Union, FS_Intersection
<1>3. /\ Cardinality(S) \in Nat /\ Cardinality(T) \in Nat /\ Cardinality(S \cap T) \in Nat /\ Cardinality(R) \in Nat
      /\ Cardinality(S \cup T) \in Nat
  BY <1>1, <1>2, FS_CardinalityType
<1>4. R \subseteq S \cup T
  BY DEF R, S, T
<1>5. Cardinality(R) <= Cardinality(S \cup T)
  BY <1>2, <1>4, FS_Subset
<1>6. Cardinality(R) <= Cardinality(S) + Cardinality(T)
  BY <1>2, <1>3, <1>5
<1> QED BY <1>6 DEF Size, R, S, T

\* A span without its first moment, at which something happened, holds less.
LEMMA SpanLosesFirst ==
    ASSUME NEW h, NEW a, NEW u, NEW from \in Int, NEW to \in Int, from <= to, IsFiniteSet(h),
           Span(h, a, u, from, from) # {}
    PROVE  Size(h, a, u, from + 1, to) <= Size(h, a, u, from, to) - 1
<1>1. PICK p \in Span(h, a, u, from, from) : TRUE
  OBVIOUS
<1>2. p \in Span(h, a, u, from, to) /\ p \notin Span(h, a, u, from + 1, to)
  BY <1>1 DEF Span
<1>3. Span(h, a, u, from + 1, to) \subseteq Span(h, a, u, from, to) \ {p}
  BY <1>2 DEF Span
<1>4. /\ IsFiniteSet(Span(h, a, u, from, to) \ {p})
      /\ Cardinality(Span(h, a, u, from, to) \ {p}) = Cardinality(Span(h, a, u, from, to)) - 1
  BY <1>2, SpanFinite, OneLess
<1> QED BY <1>3, <1>4, FS_Subset DEF Size

\* What the limiter's properties say, over spans.
Counted(k, h, a, u, t) ==
    LET start == k.expires - UserRateWindow IN
    IF k.count = 0
    THEN /\ Span(h, a, u, t, t) = {}
         /\ Size(h, a, u, t - UserRateWindow + 1, t) <= UserRateLimit - 1
    ELSE /\ k.expires \in t + 1..t + UserRateWindow
         /\ Size(h, a, u, start, t) = k.count
         /\ Span(h, a, u, start, start) # {}
         /\ Size(h, a, u, start - UserRateWindow + 1, start - 1) <= UserRateLimit - 1

Bounded(h, a, u, t) ==
    \A x \in 0..t : Size(h, a, u, x - UserRateWindow + 1, x) <= 2 * UserRateLimit - 1

LEMMA CountedIsCounted ==
    /\ WindowsAreCounted <=> \A u \in Users : Counted(limit[u], passed, author, u, now)
    /\ RateIsBounded <=> \A u \in Users : Bounded(passed, author, u, now)
    /\ RefusedOnlyAtLimit
         <=> \A p \in refused : Size(passed, author, author[p[1]], p[2] - UserRateWindow + 1, p[2]) >= UserRateLimit
  BY DEF WindowsAreCounted, WindowCounted, Counted, RateIsBounded, Bounded, RefusedOnlyAtLimit, Within, Used, Span, Size

\* A request that passes is counted, in a new window or in the one that is open; and a
\* span that ends with it holds what is left of the last window and this one.
LEMMA AdmitCounts ==
    ASSUME NEW h, IsFiniteSet(h), NEW a, NEW u, NEW m, NEW t \in Nat, <<m, t>> \notin h, a[m] = u,
           NEW k \in [count: 0..UserRateLimit, expires: Nat], NEW l \in [count: 0..UserRateLimit, expires: Nat],
           k.count + 1 <= UserRateLimit, l.count = k.count + 1,
           l.expires = IF k.count = 0 THEN t + UserRateWindow ELSE k.expires,
           Counted(k, h, a, u, t), Bounded(h, a, u, t)
    PROVE  Counted(l, h \cup {<<m, t>>}, a, u, t) /\ Bounded(h \cup {<<m, t>>}, a, u, t)
<1> DEFINE W == UserRateWindow
           L == UserRateLimit
           g == h \cup {<<m, t>>}
<1>0. /\ W \in Nat \ {0} /\ L \in Nat \ {0} /\ k.count \in Nat /\ k.expires \in Nat /\ l.count # 0
      /\ IsFiniteSet(g)
  <2>1. IsFiniteSet(g)
    BY OneMore
  <2> QED BY <2>1, DanmakuAssumption
<1>1. ASSUME NEW from, NEW to
      PROVE  /\ Size(h, a, u, from, to) \in Nat /\ Size(g, a, u, from, to) \in Nat
             /\ t \in from..to => Size(g, a, u, from, to) = Size(h, a, u, from, to) + 1
             /\ t \notin from..to => Size(g, a, u, from, to) = Size(h, a, u, from, to)
  BY <1>0, SpanFinite, SpanGrows DEF Size
<1>2. ASSUME NEW x \in 0..t, x # t PROVE Size(g, a, u, x - W + 1, x) <= 2 * L - 1
  <2>1. t \notin x - W + 1..x
    BY <1>0, <1>2
  <2> QED BY <1>1, <2>1 DEF Bounded
<1>3. t \in t - W + 1..t /\ t \in t..t
  BY <1>0
<1> HIDE DEF g
<1>4. CASE k.count = 0
  <2>1. Span(h, a, u, t, t) = {} /\ Size(h, a, u, t - W + 1, t) <= L - 1
    BY <1>4 DEF Counted
  <2>2. l.expires = t + W /\ l.expires - W = t /\ l.count = 1
    BY <1>0, <1>4
  <2>3. Size(g, a, u, t, t) = 1
    <3>1. Size(h, a, u, t, t) = 0
      BY <2>1, FS_EmptySet DEF Size
    <3> QED BY <1>1, <1>3, <3>1
  <2>4. Span(g, a, u, t, t) # {}
    <3>1. <<m, t>> \in Span(g, a, u, t, t)
      BY <1>3 DEF Span, g
    <3> QED BY <3>1
  <2>5. Size(g, a, u, t - W + 1, t - 1) <= L - 1
    <3>1. t \notin t - W + 1..t - 1
      OBVIOUS
    <3>2. Span(h, a, u, t - W + 1, t - 1) \subseteq Span(h, a, u, t - W + 1, t)
      <4>1. t - W + 1..t - 1 \subseteq t - W + 1..t
        BY <1>0
      <4> QED BY <4>1 DEF Span
    <3>3. Size(h, a, u, t - W + 1, t - 1) <= Size(h, a, u, t - W + 1, t)
      BY <3>2, SpanMonotone
    <3> QED BY <1>0, <1>1, <2>1, <3>1, <3>3
  <2>6. Counted(l, g, a, u, t)
    <3>1. l.expires \in t + 1..t + W
      BY <1>0, <2>2
    <3> QED BY <1>0, <2>2, <2>3, <2>4, <2>5, <3>1 DEF Counted
  <2>7. Size(g, a, u, t - W + 1, t) <= 2 * L - 1
    BY <1>0, <1>1, <1>3, <2>1
  <2> QED BY <1>2, <2>6, <2>7 DEF Bounded, g
<1>5. CASE k.count # 0
  <2> DEFINE s == k.expires - W
  <2>1. /\ k.expires \in t + 1..t + W /\ Size(h, a, u, s, t) = k.count /\ Span(h, a, u, s, s) # {}
        /\ Size(h, a, u, s - W + 1, s - 1) <= L - 1
    BY <1>5 DEF Counted
  <2>2. s \in Int /\ s <= t /\ t <= s + W - 1 /\ l.expires = k.expires
    BY <1>0, <1>5, <2>1
  <2> HIDE DEF s
  <2>3. Size(g, a, u, s, t) = l.count
    <3>1. t \in s..t
      BY <2>2
    <3> QED BY <1>1, <2>1, <3>1
  <2>4. Span(g, a, u, s, s) # {}
    BY <2>1 DEF Span, g
  <2>5. Size(g, a, u, s - W + 1, s - 1) <= L - 1
    <3>1. t \notin s - W + 1..s - 1
      BY <1>0, <2>2
    <3> QED BY <1>1, <2>1, <3>1
  <2>6. Counted(l, g, a, u, t)
    BY <1>0, <2>1, <2>2, <2>3, <2>4, <2>5 DEF Counted, s
  <2>7. Size(h, a, u, t - W + 1, t) <= (L - 1) + k.count
    <3>1. Span(h, a, u, t - W + 1, t) \subseteq Span(h, a, u, s - W + 1, s - 1) \cup Span(h, a, u, s, t)
      <4>1. \A x \in t - W + 1..t : x \in s - W + 1..s - 1 \/ x \in s..t
        BY <1>0, <2>2
      <4> QED BY <4>1 DEF Span
    <3>2. Size(h, a, u, t - W + 1, t) <= Size(h, a, u, s - W + 1, s - 1) + Size(h, a, u, s, t)
      BY <3>1, SpanSplits
    <3> QED BY <1>0, <1>1, <2>1, <3>2
  <2>8. Size(g, a, u, t - W + 1, t) <= 2 * L - 1
    BY <1>0, <1>1, <1>3, <2>7
  <2> QED BY <1>2, <2>6, <2>8 DEF Bounded, g
<1> QED BY <1>4, <1>5

\* Time passes: a window that ends leaves less than the limit behind it, since it
\* began with a request.
LEMMA TickCounts ==
    ASSUME NEW h, IsFiniteSet(h), NEW a, NEW u, NEW t \in Nat, NEW n \in Nat, n = t + 1, \A p \in h : p[2] \in 0..t,
           NEW k \in [count: 0..UserRateLimit, expires: Nat],
           Counted(k, h, a, u, t), Bounded(h, a, u, t)
    PROVE  /\ Counted(IF k.expires <= n THEN NoKey ELSE k, h, a, u, n)
           /\ Bounded(h, a, u, n)
<1> DEFINE W == UserRateWindow
           L == UserRateLimit
           l == IF k.expires <= n THEN NoKey ELSE k
<1>0. W \in Nat \ {0} /\ L \in Nat \ {0} /\ k.count \in 0..L /\ k.expires \in Nat
  BY DanmakuAssumption
<1>1. \A from, to : Size(h, a, u, from, to) \in Nat
  BY SpanFinite
<1>2. Span(h, a, u, n, n) = {}
  BY DEF Span
<1>3. ASSUME NEW from \in Int PROVE Span(h, a, u, from, n) = Span(h, a, u, from, t)
  <2>1. \A x \in 0..t : x \in from..n <=> x \in from..t
    OBVIOUS
  <2> QED BY <2>1 DEF Span
<1>4. Size(h, a, u, n - W + 1, n) <= Size(h, a, u, t - W + 1, t)
  <2>1. Span(h, a, u, n - W + 1, n) \subseteq Span(h, a, u, t - W + 1, t)
    <3>1. \A x \in 0..t : x \in n - W + 1..n => x \in t - W + 1..t
      BY <1>0
    <3> QED BY <3>1 DEF Span
  <2> QED BY <2>1, SpanMonotone
<1>5. Bounded(h, a, u, n)
  <2>1. Size(h, a, u, t - W + 1, t) <= 2 * L - 1
    <3>1. t \in 0..t
      OBVIOUS
    <3> QED BY <3>1 DEF Bounded
  <2>2. Size(h, a, u, n - W + 1, n) <= 2 * L - 1
    BY <1>0, <1>1, <1>4, <2>1
  <2>3. \A x \in 0..n : x \in 0..t \/ x = n
    OBVIOUS
  <2>4. ASSUME NEW x \in 0..n PROVE Size(h, a, u, x - W + 1, x) <= 2 * L - 1
    <3>1. CASE x \in 0..t
      BY <3>1 DEF Bounded
    <3>2. CASE x = n
      BY <2>2, <3>2
    <3> QED BY <2>3, <3>1, <3>2
  <2> QED BY <2>4 DEF Bounded
<1>6. CASE k.count = 0
  <2>1. Size(h, a, u, t - W + 1, t) <= L - 1
    BY <1>6 DEF Counted
  <2>2. l.count = 0
    BY <1>6 DEF NoKey
  <2>3. Size(h, a, u, n - W + 1, n) <= L - 1
    BY <1>0, <1>1, <1>4, <2>1
  <2> HIDE DEF l
  <2>4. Counted(l, h, a, u, n)
    BY <1>2, <2>2, <2>3 DEF Counted
  <2> QED BY <1>5, <2>4 DEF l
<1>7. CASE k.count # 0
  <2> DEFINE s == k.expires - W
  <2>1. /\ k.expires \in t + 1..t + W /\ Size(h, a, u, s, t) = k.count /\ Span(h, a, u, s, s) # {}
        /\ Size(h, a, u, s - W + 1, s - 1) <= L - 1
    BY <1>7 DEF Counted
  <2>2. s \in Int /\ s <= t
    BY <1>0, <2>1
  <2>3. CASE k.expires <= n
    <3>1. k.expires = n /\ s + 1 = n - W + 1
      BY <1>0, <2>1, <2>3
    <3>2. Size(h, a, u, s + 1, t) <= Size(h, a, u, s, t) - 1
      <4> HIDE DEF s
      <4> QED BY <2>1, <2>2, SpanLosesFirst
    <3>3. Size(h, a, u, n - W + 1, n) = Size(h, a, u, s + 1, t)
      <4>1. n - W + 1 \in Int
        BY <1>0
      <4> QED BY <1>3, <3>1, <4>1 DEF Size
    <3>4. Size(h, a, u, n - W + 1, n) <= L - 1
      <4> HIDE DEF s
      <4> QED BY <1>0, <1>1, <2>1, <3>2, <3>3
    <3>5. l = NoKey /\ l.count = 0
      BY <2>3 DEF NoKey
    <3> HIDE DEF l
    <3>6. Counted(l, h, a, u, n)
      BY <1>2, <3>4, <3>5 DEF Counted
    <3> QED BY <1>5, <3>6 DEF l
  <2>4. CASE ~(k.expires <= n)
    <3>1. l = k /\ k.expires \in n + 1..n + W
      BY <1>0, <2>1, <2>4
    <3>2. Size(h, a, u, s, n) = k.count
      <4> HIDE DEF s
      <4> QED BY <1>3, <2>1, <2>2 DEF Size
    <3>3. Counted(k, h, a, u, n)
      BY <1>7, <2>1, <3>1, <3>2 DEF Counted
    <3> QED BY <1>5, <3>1, <3>3
  <2> QED BY <2>3, <2>4
<1> QED BY <1>6, <1>7

LEMMA CountedNext ==
    /\ WindowsAreCounted' <=> \A u \in Users : Counted(limit'[u], passed', author', u, now')
    /\ RateIsBounded' <=> \A u \in Users : Bounded(passed', author', u, now')
    /\ RefusedOnlyAtLimit'
         <=> \A p \in refused' : Size(passed', author', author'[p[1]], p[2] - UserRateWindow + 1, p[2]) >= UserRateLimit
  BY DEF WindowsAreCounted, WindowCounted, Counted, RateIsBounded, Bounded, RefusedOnlyAtLimit, Within, Used, Span, Size

\* Where the authors of a history stay, so do its spans.
LEMMA SameSpans ==
    ASSUME NEW h, NEW a, NEW b, \A p \in h : b[p[1]] = a[p[1]]
    PROVE  \A u, from, to : Span(h, b, u, from, to) = Span(h, a, u, from, to)
  BY DEF Span

\* The limiter stays right, whatever step is taken.
LEMMA LimiterStep ==
    ASSUME Types, TriedOnce, WindowsAreCounted, LimiterIsRight, [Next]_vars
    PROVE  WindowsAreCounted' /\ LimiterIsRight'
<1>0. /\ RequestType /\ RedisType /\ RoomType /\ TypeOK /\ now \in Nat
      /\ UserRateLimit \in Nat \ {0} /\ UserRateWindow \in Nat \ {0}
  BY TypesAreTypeOK, DanmakuAssumption DEF Types, RoomType
<1>1. /\ \A u \in Users : Counted(limit[u], passed, author, u, now)
      /\ \A u \in Users : Bounded(passed, author, u, now)
      /\ \A p \in refused : Size(passed, author, author[p[1]], p[2] - UserRateWindow + 1, p[2]) >= UserRateLimit
  BY CountedIsCounted DEF LimiterIsRight
<1>2. IsFiniteSet(passed) /\ passed \subseteq Messages \X (0..now) /\ refused \subseteq Messages \X (0..now)
  BY <1>0 DEF RedisType
<1> SUFFICES
      /\ \A u \in Users : Counted(limit'[u], passed', author', u, now') /\ Bounded(passed', author', u, now')
      /\ \A p \in refused' : Size(passed', author', author'[p[1]], p[2] - UserRateWindow + 1, p[2]) >= UserRateLimit
  BY CountedNext DEF LimiterIsRight
<1>3. CASE PassesBy
  <2>1. UNCHANGED <<now, limit, passed, refused>> /\ \A p \in passed \cup refused : author'[p[1]] = author[p[1]]
    BY <1>3 DEF PassesBy
  <2>2. \A u, from, to : Span(passed, author', u, from, to) = Span(passed, author, u, from, to)
    BY <2>1, SameSpans
  <2>3. \A u, from, to : Size(passed, author', u, from, to) = Size(passed, author, u, from, to)
    BY <2>2 DEF Size
  <2>4. ASSUME NEW u \in Users PROVE Counted(limit'[u], passed', author', u, now') /\ Bounded(passed', author', u, now')
    <3>1. Counted(limit[u], passed, author', u, now)
      BY <1>1, <2>2, <2>3 DEF Counted
    <3>2. Bounded(passed, author', u, now)
      BY <1>1, <2>3 DEF Bounded
    <3> QED BY <2>1, <3>1, <3>2
  <2> QED BY <1>1, <2>1, <2>3, <2>4
<1>4. ASSUME NEW m \in Messages, Admits(m)
      PROVE  /\ \A u \in Users : Counted(limit'[u], passed', author', u, now') /\ Bounded(passed', author', u, now')
             /\ \A p \in refused' : Size(passed', author', author'[p[1]], p[2] - UserRateWindow + 1, p[2]) >= UserRateLimit
  <2> DEFINE u == author[m]
             g == passed \cup {<<m, now>>}
  <2>1. u \in Users /\ passed' = g /\ UNCHANGED <<now, author, refused>> /\ Allowed(u, 1) /\ Consume(u, 1)
    BY <1>0, <1>4 DEF Admits, RequestType
  <2>2. <<m, now>> \notin passed
    <3>1. pc[m] = "limit"
      BY <1>4 DEF Admits
    <3> QED BY <3>1 DEF TriedOnce
  <2>3. /\ limit' \in [Users -> [count: 0..UserRateLimit, expires: Nat]]
        /\ limit'[u].count = limit[u].count + 1
        /\ limit'[u].expires = IF limit[u].count = 0 THEN now + UserRateWindow ELSE limit[u].expires
        /\ \A v \in Users : v # u => limit'[v] = limit[v]
    BY <1>0, <2>1, ConsumeType
  <2>4. Counted(limit'[u], g, author, u, now) /\ Bounded(g, author, u, now)
    <3>1. limit[u] \in [count: 0..UserRateLimit, expires: Nat] /\ limit'[u] \in [count: 0..UserRateLimit, expires: Nat]
      BY <1>0, <2>1, <2>3 DEF RedisType
    <3>2. limit[u].count + 1 <= UserRateLimit
      BY <2>1 DEF Allowed
    <3> HIDE DEF g
    <3> QED BY <1>0, <1>1, <1>2, <2>1, <2>2, <2>3, <3>1, <3>2, AdmitCounts DEF g
  <2>5. ASSUME NEW v \in Users, v # u PROVE Counted(limit'[v], g, author, v, now) /\ Bounded(g, author, v, now)
    <3>1. \A from, to : Span(g, author, v, from, to) = Span(passed, author, v, from, to)
      BY <1>2, <2>2, <2>5, SpanGrows
    <3>2. \A from, to : Size(g, author, v, from, to) = Size(passed, author, v, from, to)
      BY <3>1 DEF Size
    <3> HIDE DEF g
    <3>3. Counted(limit[v], g, author, v, now)
      BY <1>1, <3>1, <3>2 DEF Counted
    <3>4. Bounded(g, author, v, now)
      BY <1>1, <3>2 DEF Bounded
    <3> QED BY <2>3, <2>5, <3>3, <3>4
  <2>6. ASSUME NEW from, NEW to, NEW v PROVE Size(g, author, v, from, to) >= Size(passed, author, v, from, to)
    <3>1. IsFiniteSet(g)
      BY <1>2, OneMore
    <3>2. Span(passed, author, v, from, to) \subseteq Span(g, author, v, from, to)
      BY DEF Span
    <3>3. Size(passed, author, v, from, to) <= Size(g, author, v, from, to)
      BY <3>1, <3>2, SpanMonotone
    <3>4. Size(passed, author, v, from, to) \in Nat /\ Size(g, author, v, from, to) \in Nat
      BY <1>2, <3>1, SpanFinite
    <3> QED BY <3>3, <3>4
  <2> HIDE DEF g, u
  <2>7. ASSUME NEW p \in refused PROVE Size(g, author, author[p[1]], p[2] - UserRateWindow + 1, p[2]) >= UserRateLimit
    <3> DEFINE n == Size(g, author, author[p[1]], p[2] - UserRateWindow + 1, p[2])
               k == Size(passed, author, author[p[1]], p[2] - UserRateWindow + 1, p[2])
    <3>1. n >= k /\ k >= UserRateLimit
      BY <1>1, <2>6
    <3>2. k \in Nat /\ n \in Nat
      <4>1. IsFiniteSet(g)
        BY <1>2, OneMore DEF g
      <4> QED BY <1>2, <4>1, SpanFinite
    <3> HIDE DEF n, k
    <3>3. n >= UserRateLimit
      BY <1>0, <3>1, <3>2
    <3> QED BY <3>3 DEF n
  <2>8. \A v \in Users : Counted(limit'[v], g, author, v, now) /\ Bounded(g, author, v, now)
    BY <2>4, <2>5
  <2> QED BY <2>1, <2>7, <2>8
<1>5. ASSUME NEW m \in Messages, Refuses(m)
      PROVE  /\ \A u \in Users : Counted(limit'[u], passed', author', u, now') /\ Bounded(passed', author', u, now')
             /\ \A p \in refused' : Size(passed', author', author'[p[1]], p[2] - UserRateWindow + 1, p[2]) >= UserRateLimit
  <2> DEFINE u == author[m]
             k == limit[u]
             s == k.expires - UserRateWindow
  <2>1. /\ u \in Users /\ UNCHANGED <<now, author, limit, passed>> /\ ~Allowed(u, 1)
        /\ refused' = refused \cup {<<m, now>>}
    BY <1>0, <1>5 DEF Refuses, RequestType
  <2>2. k.count \in 0..UserRateLimit /\ k.expires \in Nat
    BY <1>0, <2>1 DEF RedisType
  <2>3. k.count = UserRateLimit /\ k.count # 0
    BY <1>0, <2>1, <2>2 DEF Allowed
  <2>4. k.expires \in now + 1..now + UserRateWindow /\ Size(passed, author, u, s, now) = k.count
    BY <1>1, <2>1, <2>3 DEF Counted
  <2>5. Span(passed, author, u, s, now) \subseteq Span(passed, author, u, now - UserRateWindow + 1, now)
    <3>1. s..now \subseteq now - UserRateWindow + 1..now
      BY <1>0, <2>2, <2>4
    <3> QED BY <3>1 DEF Span
  <2>6. Size(passed, author, u, now - UserRateWindow + 1, now) >= UserRateLimit
    <3>1. Size(passed, author, u, s, now) <= Size(passed, author, u, now - UserRateWindow + 1, now)
      BY <1>2, <2>5, SpanMonotone
    <3>2. Size(passed, author, u, now - UserRateWindow + 1, now) \in Nat
      BY <1>2, SpanFinite
    <3> QED BY <1>0, <2>3, <2>4, <3>1, <3>2
  <2>7. <<m, now>>[1] = m /\ <<m, now>>[2] = now
    OBVIOUS
  <2> QED BY <1>1, <2>1, <2>6, <2>7
<1>6. CASE Tick
  <2>1. now' = now + 1 /\ now' \in Nat /\ UNCHANGED <<author, passed, refused>>
    BY <1>0, <1>6 DEF Tick, requestVars, inputVars
  <2>2. ASSUME NEW u \in Users PROVE Counted(limit'[u], passed', author', u, now') /\ Bounded(passed', author', u, now')
    <3>1. limit'[u] = IF limit[u].expires <= now' THEN NoKey ELSE limit[u]
      BY <1>6 DEF Tick
    <3>2. limit[u] \in [count: 0..UserRateLimit, expires: Nat] /\ \A p \in passed : p[2] \in 0..now
      BY <1>0, <1>2 DEF RedisType
    <3>3. /\ Counted(IF limit[u].expires <= now' THEN NoKey ELSE limit[u], passed, author, u, now')
          /\ Bounded(passed, author, u, now')
      BY <1>0, <1>1, <1>2, <2>1, <3>2, TickCounts
    <3> QED BY <2>1, <3>1, <3>3
  <2> QED BY <1>1, <2>1, <2>2
<1> QED BY <1>3, <1>4, <1>5, <1>6, LimiterCases

-----------------------------------------------------------------------------
(* The theorems *)

LEMMA InitInd ==
    ASSUME Init PROVE IndInv
<1>1. TypeOK /\ Finite
  BY InitType
<1>2. \A m \in Messages : pc[m] = "new" /\ m \notin screen
  BY DEF Init
<1>3. RequestsAreSound
  BY <1>2 DEF RequestsAreSound, BarsFound, ChecksPassed, DecisionFollowed
<1>4. Recorded = {} /\ cpc = "poll"
  BY DEF Init, Recorded
<1>5. NothingIsSkipped
  BY <1>2, <1>4 DEF NothingIsSkipped
<1>6. passed = {} /\ refused = {} /\ \A u \in Users : limit[u].count = 0
  BY DEF Init, NoKey
<1>7. TriedOnce
  BY <1>6 DEF TriedOnce
<1>8. \A u, from, to : Within(passed, u, from, to) = {}
  BY <1>6 DEF Within
<1>9. UserRateLimit \in Nat \ {0} /\ Cardinality({}) = 0
  BY DanmakuAssumption, FS_EmptySet
<1>10. WindowsAreCounted
  <2>1. 0 <= UserRateLimit - 1
    BY <1>9
  <2> QED BY <1>6, <1>8, <1>9, <2>1 DEF WindowsAreCounted, WindowCounted, Used
<1>11. LimiterIsRight
  <2>1. 0 <= 2 * UserRateLimit - 1
    BY <1>9
  <2> QED BY <1>6, <1>8, <1>9, <2>1 DEF LimiterIsRight, RateIsBounded, RefusedOnlyAtLimit
<1> QED BY <1>1, <1>3, <1>5, <1>7, <1>10, <1>11 DEF IndInv

LEMMA NextInd ==
    ASSUME IndInv, [Next]_vars PROVE IndInv'
<1>1. Types
  BY TypesAreTypeOK DEF IndInv
<1>2. Types' /\ TypeOK' /\ Finite'
  <2>1. Types'
    BY <1>1, NextType
  <2> QED BY <2>1 DEF Types, RoomType, RedisType, RequestType, ArchiveType, TypeOK, Finite, PcValues
<1>3. RequestsAreSound'
  BY <1>1, RequestsStep DEF IndInv
<1>4. NothingIsSkipped'
  BY <1>1, ArchiveStep DEF IndInv
<1>5. TriedOnce'
  BY <1>1, TriedOnceStep DEF IndInv
<1>6. WindowsAreCounted' /\ LimiterIsRight'
  BY <1>1, LimiterStep DEF IndInv
<1> QED BY <1>2, <1>3, <1>4, <1>5, <1>6 DEF IndInv

\* The inductive invariant: what each step of Send has established by the time it is
\* reached, what the limiter's keys count, and what the archive still has to do.
THEOREM DanmakuInductive == Spec => []IndInv
<1> USE DEF Spec
<1>1. Init => IndInv
  BY InitInd
<1>2. IndInv /\ [Next]_vars => IndInv'
  BY NextInd
<1> QED BY <1>1, <1>2, PTL

\* What reached the room or Kafka had passed every check: neither a closed room, nor a
\* ban or a mute that was in force all along, is overlooked by the three reads of
\* GetRoomAccess, and no text with a sensitive word, or too long, gets through.
THEOREM DanmakuInvariant == Spec => []DanmakuInv
<1>1. IndInv => DanmakuInv
  <2> SUFFICES ASSUME IndInv PROVE DanmakuInv
    OBVIOUS
  <2>1. TypeOK /\ RequestsAreSound /\ NothingIsSkipped /\ Types
    BY TypesAreTypeOK DEF IndInv
  <2>2. ASSUME NEW m \in screen \cup Recorded PROVE m \in Messages /\ always[m] = {} /\ Filtered(m)
    <3>1. m \in Messages
      BY <2>1 DEF Types, RequestType, ArchiveType, Recorded
    <3>2. m \in screen \/ pc[m] = "ok"
      BY <2>1 DEF NothingIsSkipped
    <3> QED BY <2>1, <3>1, <3>2 DEF RequestsAreSound, ChecksPassed
  <2>3. BarredIsSilent
    BY <2>2 DEF BarredIsSilent
  <2>4. ASSUME NEW m \in Messages PROVE text[m] \in Seq(Letter) /\ Words \in SUBSET Seq(Letter)
    <3>1. Texts \subseteq Seq(Letter) /\ Words \subseteq Seq(Letter) /\ <<>> \in Seq(Letter)
      BY DanmakuAssumption DEF Letter
    <3> QED BY <2>1, <3>1 DEF TypeOK
  <2>5. FilterHolds
    BY <2>2, <2>4, FilterFindsWords DEF FilterHolds, Filtered
  <2> QED BY <2>1, <2>3, <2>5 DEF DanmakuInv
<1> QED BY <1>1, DanmakuInductive, PTL

\* The limiter is right both ways, under parallel requests and lost answers, for any
\* limit and window: no span of a window lets 2 * limit requests of a user pass, and a
\* user is refused only when he has used up his limit within the last window.
THEOREM LimiterAlwaysRight == Spec => []LimiterIsRight
<1>1. IndInv => LimiterIsRight
  BY DEF IndInv
<1> QED BY <1>1, DanmakuInductive, PTL

\* A success was broadcast or sampled out, and is archived, on its way or given up by
\* the producer, however often the services crash; and only a success is handed to Kafka.
THEOREM SuccessAlwaysTrue == Spec => []SuccessIsTrue
<1>1. IndInv => SuccessIsTrue
  BY DEF IndInv, RequestsAreSound, DecisionFollowed, NothingIsSkipped, SuccessIsTrue, Kept
<1> QED BY <1>1, DanmakuInductive, PTL

\* Of two decided messages, the one under less pressure and with the lower bucket is
\* kept whenever the other is.
THEOREM DecisionsAreMonotone == Spec => []SamplingIsMonotone
<1>1. IndInv => SamplingIsMonotone
  <2> SUFFICES ASSUME IndInv, NEW m \in Decided, NEW n \in Decided,
                      decision[m].viewers \in 1..decision[n].viewers,
                      decision[m].observed <= decision[n].observed,
                      Bucket[m] <= Bucket[n], Keep(Bucket[n], Sample(Traffic, decision[n]))
               PROVE  Keep(Bucket[m], Sample(Traffic, decision[m]))
    BY DEF SamplingIsMonotone
  <2>1. /\ m \in Messages /\ n \in Messages /\ decision[m] \in Pressure /\ decision[n] \in Pressure
        /\ Bucket[m] \in Nat /\ Bucket[n] \in Nat
    <3>1. m \in Messages /\ n \in Messages
      BY DEF Decided
    <3>2. decision \in [Messages -> Pressure]
      BY DEF IndInv, TypeOK, Pressure
    <3>3. Bucket \in [Messages -> 0..Buckets - 1]
      BY DanmakuAssumption
    <3>4. Buckets \in Nat
      BY DEF Buckets
    <3> QED BY <3>1, <3>2, <3>3, <3>4
  <2>2. decision[m].observed >= 1
    BY <2>1 DEF IndInv, RequestsAreSound, DecisionFollowed, Decided
  <2>3. Lighter(decision[m], decision[n])
    BY <2>1, <2>2 DEF Lighter, Pressure
  <2>4. Traffic \in TrafficConfigs /\ ValidConfig(Traffic)
    BY DanmakuAssumption
  <2>5. Sample(Traffic, decision[n]) <= Sample(Traffic, decision[m])
    BY <2>1, <2>3, <2>4, PolicyLowersRate DEF PressureLowersRate
  <2>6. Sample(Traffic, decision[n]) \in Nat /\ Sample(Traffic, decision[m]) \in Nat
    BY <2>1, <2>4, SampleBounds
  <2> QED BY <2>1, <2>5, <2>6 DEF Keep
<1> QED BY <1>1, DanmakuInductive, PTL
=============================================================================
