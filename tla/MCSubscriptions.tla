--------------------------- MODULE MCSubscriptions ---------------------------
(***************************************************************************)
(* Two small instances of Subscriptions in one.  Two subscriptions share a *)
(* worker while events are inserted, two because a snapshot must be able   *)
(* to find the channel full of another event: one after the other, or both *)
(* at once as long as there is one subscription.  And while there is no    *)
(* event, four subscriptions share two workers: the fourth request is the  *)
(* first that can wait in a batch of its own.                              *)
(***************************************************************************)
EXTENDS Subscriptions, TLC

CONSTANTS s1, s2, s3, s4

SubSymmetry == Permutations({s1, s2}) \cup Permutations(Events)

NoInserts == \A e \in Events : insert[e] = "new"
AFew ==
  /\ life[s3] = "new" /\ idle # <<>> /\ Head(idle) = 2
  /\ worker[2] = "waiting" \/ worker = <<"gone", "gone">>
  /\ \/ Cardinality({e \in Events : insert[e] \in {"stored", "sending"}}) <= 1
     \/ \E s \in {s1, s2} : life[s] = "new"

\* Any subscription may be the third: it is called s3.
Named ==
  /\ life[s3] # "new" => life[s1] # "new" /\ life[s2] # "new"
  /\ life[s4] # "new" => life[s3] # "new"

MCNext == Next /\ (Named /\ (NoInserts \/ AFew))'
MCSpec == Init /\ [][MCNext]_vars
=============================================================================
