----------------------------- MODULE MCRecommend -----------------------------
(* A small instance of Recommend: a "MiB" of 3 bytes and 16-bit integers,   *)
(* with the inputs on both sides of every limit and of every overflow.      *)
EXTENDS Recommend

MCBandwidths == {0, 1, 2, 3, 5, 10, 20, 50, 99, 100, 101}
MCDelays     == {0, 1, 2, 3, 5, 10, 19, 20, 21}
MCMemories   == {127, 128, 129, 160, 256, 1024, 4096, 8191, 8192, 8193, 10922, 10923, 16384, 30000}
=============================================================================
