---------------------------- MODULE TrafficPolicy ----------------------------
(***************************************************************************)
(* The hot-room policy of internal/traffic: from the viewers of a room and *)
(* the danmaku of its last window to a mode and a sampling rate.           *)
(*                                                                         *)
(* A rate is a number of hash buckets out of Buckets.  A message is kept   *)
(* when its bucket, an integer, is below the rate, so rounding a rate up   *)
(* to an integer decides the same; the rounding of float64 is left out.    *)
(* The estimated fan-out is viewers * observed / window: the comparisons   *)
(* are multiplied out by the window.                                       *)
(***************************************************************************)
EXTENDS Integers

Buckets == 10000

\* Counts, thresholds and rates.
TrafficConfigs ==
    [hotViewers: Nat, protectViewers: Nat, hotRate: Nat, protectRate: Nat, hotSample: Nat,
     protectSample: Nat, window: Nat, adaptive: BOOLEAN, target: Nat, hotFanout: Nat,
     protectFanout: Nat, minSample: Nat]

\* What Load accepts.
ValidConfig(cfg) ==
    /\ 0 < cfg.hotViewers /\ cfg.hotViewers <= cfg.protectViewers
    /\ 0 < cfg.hotRate /\ cfg.hotRate <= cfg.protectRate
    /\ 0 < cfg.protectSample /\ cfg.protectSample <= cfg.hotSample /\ cfg.hotSample <= Buckets
    /\ 0 < cfg.window
    /\ 0 < cfg.target /\ cfg.target <= cfg.hotFanout /\ cfg.hotFanout <= cfg.protectFanout
    /\ 0 < cfg.minSample /\ cfg.minSample <= Buckets

\* A pressure is what DanmakuPressure returns.
Mode(cfg, pressure) ==
    LET Reaches(viewers, rate, fanout) ==
            \/ pressure.viewers >= viewers
            \/ pressure.observed >= rate
            \/ pressure.viewers * pressure.observed >= fanout * cfg.window
    IN  IF Reaches(cfg.protectViewers, cfg.protectRate, cfg.protectFanout) THEN "PROTECT"
        ELSE IF Reaches(cfg.hotViewers, cfg.hotRate, cfg.hotFanout) THEN "HOT" ELSE "NORMAL"

AtMost(n, bound) == IF n < bound THEN n ELSE bound
AtLeast(n, bound) == IF n > bound THEN n ELSE bound
CeilDiv(a, b) == (a + b - 1) \div b

\* The rate a pressure leads to.  Without fan-out there is nothing to adapt to.
Sample(cfg, pressure) ==
    LET fanout == pressure.viewers * pressure.observed
        mode == Mode(cfg, pressure)
    IN  IF mode = "NORMAL" THEN Buckets
        ELSE IF cfg.adaptive /\ fanout > 0
             THEN AtMost(AtLeast(CeilDiv(Buckets * cfg.target * cfg.window, fanout), cfg.minSample), Buckets)
             ELSE IF mode = "PROTECT" THEN cfg.protectSample ELSE cfg.hotSample

\* Mutant: the buckets below the rate are dropped instead of kept.
Keep_Above(bucket, sample) == bucket >= sample

\* bucket is the FNV hash of the message id, modulo Buckets.
Keep(bucket, sample) == bucket < sample

-----------------------------------------------------------------------------
(* What the policy promises, for one configuration and two pressures *)

Lighter(p, q) == p.viewers \in 1..q.viewers /\ p.observed \in 1..q.observed

\* More pressure never raises the rate: a message a busy room keeps is also kept
\* when the room is calmer.
PressureLowersRate(cfg, p, q) == Lighter(p, q) => Sample(cfg, q) <= Sample(cfg, p)

\* The adaptive policy holds what it lets through near the target: the room is below
\* the hot fan-out, or sampled at the floor, or the kept share of the fan-out exceeds
\* the target by less than one bucket.
FanoutIsCapped(cfg, p) ==
    LET fanout == p.viewers * p.observed IN
    \/ ~cfg.adaptive \/ fanout = 0
    \/ fanout < cfg.hotFanout * cfg.window
    \/ Sample(cfg, p) = cfg.minSample
    \/ fanout * (Sample(cfg, p) - 1) < Buckets * cfg.target * cfg.window
=============================================================================
