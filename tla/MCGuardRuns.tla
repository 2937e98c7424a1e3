---------------------------- MODULE MCGuardRuns ----------------------------
(* One lock run after another, one or two harvests and a hand-started sync, *)
(* on two days that cost one credit each.                                   *)
EXTENDS GuardRuns, TLC

McSubs == {1}
McSubs2 == {1, 2}
McSlugOf == [s \in McSubs |-> s]
McSlugOf2 == [s \in McSubs2 |-> s]
McLevelOf == [s \in McSubs |-> "Easy"]
McLevelOf2 == [s \in McSubs2 |-> "Easy"]

\* The other machine settled day 0.
McCharge ==
  {[id |-> <<"charge", 0>>, kind |-> "charge", day |-> 0, amount |-> 1,
    device |-> "other", signed |-> TRUE, source |-> "leetcode"]}
McNoCloud == {}

McHarvesters == Permutations(Harvesters)
=============================================================================
