---------------------------- MODULE ReleaseLines ----------------------------
(***************************************************************************)
(* What the release tags of the remote promise their users, one           *)
(* major.minor line at a time.  head[L] is the newest version of line L   *)
(* published so far.  A line only moves up, one step at a time:          *)
(*   a new line starts at its first alpha (x.y.0-alpha.0);                *)
(*   a prerelease is followed by the next prerelease of its level, by     *)
(*   the start of the next level, or (from rc) by its final release;      *)
(*   a final release is followed by the first alpha of the next micro.    *)
(* Maintainers may also publish a final release above the head by hand.   *)
(***************************************************************************)
EXTENDS Versions

CONSTANTS
    Lines,         \* <<major, minor>> pairs
    HandVersions   \* the final releases maintainers may make by hand

VARIABLE head      \* the newest version of each line that has one

InLine(v, L) == <<v.major, v.minor>> = L

\* The versions a line whose newest version is h may move to.
Succ(h) ==
    IF IsPre(h)
    THEN {[h EXCEPT !.pre = <<h.pre[1], h.pre[2] + 1>>],
          IF NextLevel[h.pre[1]] = "stable"
          THEN [h EXCEPT !.pre = Stable]
          ELSE [h EXCEPT !.pre = <<NextLevel[h.pre[1]], 0>>]}
    ELSE {[h EXCEPT !.micro = @ + 1, !.pre = <<"a", 0>>]}

TypeOK ==
    /\ DOMAIN head \subseteq Lines
    /\ \A L \in DOMAIN head : head[L] \in VersionType /\ InLine(head[L], L)

Init == TypeOK

\* The tooling publishes the next version of line L.
Advance(L) ==
    \/ /\ L \notin DOMAIN head
       /\ head' = head @@ (L :> Ver(L[1], L[2], 0, <<"a", 0>>))
    \/ /\ L \in DOMAIN head
       /\ \E v \in Succ(head[L]) : head' = [head EXCEPT ![L] = v]

\* A maintainer publishes a final release v of line L above its newest version.
HandRelease(L, v) ==
    /\ InLine(v, L) /\ ~IsPre(v)
    /\ L \in DOMAIN head => VersionLess(head[L], v)
    /\ head' = [M \in DOMAIN head \cup {L} |-> IF M = L THEN v ELSE head[M]]

Next == \E L \in Lines : Advance(L) \/ \E v \in HandVersions : HandRelease(L, v)

\* No line moves.  [Next]_head allows this step already; naming it first
\* lets TLC settle the many steps of an implementation that leave the
\* heads alone without evaluating Next.
Unmoved == head' = head

Spec == Init /\ [][Unmoved \/ Next]_head

=============================================================================
