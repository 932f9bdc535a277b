------------------------------ MODULE PoseFeed ------------------------------
(***************************************************************************)
(* What a co-op session promises about the picture of the peer: there is   *)
(* at most one avatar of the peer at a time, it shows poses the peer has   *)
(* sent, and it goes from a pose only to the same or a newer one.  Poses   *)
(* may be skipped; an avatar may lose what it shows, or leave and be       *)
(* replaced by one that has shown nothing yet.                             *)
(***************************************************************************)
EXTENDS Integers

CONSTANT Avatar

VARIABLES
    sent,  \* poses the peer has sent; the k-th is the number k
    feed   \* by avatar that is there: the newest pose it was given, and the
           \* two poses it moves between; 0 where there is none

NoPose == [newest |-> 0, from |-> 0, to |-> 0]

FeedInit == sent = 0 /\ feed = [a \in {} |-> NoPose]

Send == sent' = sent + 1 /\ UNCHANGED feed

Appear(a) ==
    /\ DOMAIN feed = {}
    /\ feed' = [b \in {a} |-> NoPose]
    /\ UNCHANGED sent

Disappear(a) ==
    /\ a \in DOMAIN feed
    /\ feed' = [b \in DOMAIN feed \ {a} |-> feed[b]]
    /\ UNCHANGED sent

\* The peer's k-th pose becomes the one to move to.
Show(a, k) ==
    /\ a \in DOMAIN feed
    /\ k \in 1 .. sent /\ k >= feed[a].newest
    /\ feed' = [feed EXCEPT ![a] = [newest |-> k, from |-> feed[a].to, to |-> k]]
    /\ UNCHANGED sent

Blank(a) ==
    /\ a \in DOMAIN feed
    /\ feed' = [feed EXCEPT ![a] = [NoPose EXCEPT !.newest = feed[a].newest]]
    /\ UNCHANGED sent

FeedNext ==
    \/ Send
    \/ \E a \in Avatar : Appear(a) \/ Disappear(a) \/ Blank(a)
    \/ \E a \in Avatar : \E k \in 1 .. sent : Show(a, k)

FeedSpec == FeedInit /\ [][FeedNext]_<<sent, feed>>
=============================================================================
