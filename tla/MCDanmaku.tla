----------------------------- MODULE MCDanmaku -----------------------------
(* Danmaku for TLC, and its pure parts, without a state, against their references. *)
EXTENDS Danmaku

CONSTANTS m1, m2

Letters == {"a", "A", "b"}
MCLower == [l \in Letters |-> IF l = "A" THEN "a" ELSE l]
MCWords == {<<"a", "b">>, <<"A", "a">>}
\* One that passes, one with a sensitive word, an empty one and one that is too long.
MCTexts == {<<"b", "a">>, <<"b", "a", "A">>, <<>>, <<"b", "b", "b", "b">>}

\* Both buckets lie between the rates the audience leads to, 10000, 5000, 2500 and 1250:
\* whether a message is kept depends on the pressure it meets.
MCBucket == [m \in Messages |-> IF m = m1 THEN 3000 ELSE 4000]
MCTraffic ==
    [hotViewers |-> 2, protectViewers |-> 4, hotRate |-> 2, protectRate |-> 3, hotSample |-> 5000,
     protectSample |-> 2000, window |-> 1, adaptive |-> TRUE, target |-> 1, hotFanout |-> 2,
     protectFanout |-> 4, minSample |-> 500]

TextsUpTo(n) == UNION {[1..k -> Letters] : k \in 0..n}
FiltersAgree ==
    \A v, w \in TextsUpTo(2), t \in TextsUpTo(3) : Contains(Trie({v, w}), t) <=> Occurs({v, w}, t)

\* The trie finds a word in a text of up to three letters exactly when plain search
\* does, for every filter of two words.
ASSUME FilterIsSearch == FiltersAgree

Configs ==
    {cfg \in [hotViewers: {2}, protectViewers: {2, 4}, hotRate: {2}, protectRate: {2, 3},
              hotSample: {5000, 10000}, protectSample: {2000, 5000}, window: {1, 2},
              adaptive: BOOLEAN, target: {1, 2}, hotFanout: {2, 3}, protectFanout: {3, 4},
              minSample: {500, 6000}] : ValidConfig(cfg)}
Pressures == [viewers: 0..4, observed: 1..4]
PoliciesHold ==
    \A cfg \in Configs : \A p \in Pressures :
        FanoutIsCapped(cfg, p) /\ \A q \in Pressures : PressureLowersRate(cfg, p, q)

\* Every configuration Load accepts, in a grid around its boundaries, lowers the rate
\* with the pressure and caps the fan-out.
ASSUME PolicyIsSound == PoliciesHold
=============================================================================
