----------------------------- MODULE PushSorted -----------------------------
(***************************************************************************)
(* Array.prototype.push_sorted of user_timeline_service.js, by which a     *)
(* post enters a timeline, and the page that read_user_timeline returns.   *)
(*                                                                         *)
(* The comparison function answers a Boolean, never a negative number, so  *)
(* the branch that would go on searching to the left is dead: the search   *)
(* moves right while the new post is newer and stops at the first post it  *)
(* looks at that is not older.                                             *)
(***************************************************************************)
EXTENDS Integers, SequencesExt

CONSTANTS
    Posts,      \* post ids
    Timestamp   \* Timestamp[p]: when p was composed

ASSUME TimestampAssumption == Timestamp \in [Posts -> Nat]

(* comp: is a newer than b?                                                *)
comp(a, b) == Timestamp[a] > Timestamp[b]

(* The loop of push_sorted on `list', from m: the (0-based) index at which *)
(* e is spliced in.                                                        *)
Search(list, e) ==
    LET last == Len(list) - 1
        from[m \in 0 .. Len(list)] ==
            IF m > last THEN m
            ELSE LET k == (last + m) \div 2
                 IN  IF comp(e, list[k + 1]) THEN from[k + 1] ELSE k
    IN  from[0]

(* How much of n elements is left to search when the loop turns right,     *)
(* right, ...: each time the half behind k, rounded down.                  *)
Halvings[n \in Nat] == IF n = 0 THEN {} ELSE {n} \cup Halvings[n \div 2]

(* Variant: the search ends when one element is left.                      *)
ProbesButLast(n) == {n - 1 - (r \div 2) : r \in Halvings[n] \ {1}}

(* The indices that the loop can look at in an array of length n.          *)
Probes(n) == {n - 1 - (r \div 2) : r \in Halvings[n]}

(* Where the loop stops, without the loop.                                 *)
Stops(list, e) ==
    {k \in 0 .. Len(list) - 1 : k \in Probes(Len(list)) /\ ~comp(e, list[k + 1])}

(* Variant: behind the element that is not older.                          *)
PositionBehind(list, e) ==
    IF Stops(list, e) = {} THEN Len(list) ELSE Min(Stops(list, e)) + 1

Position(list, e) ==
    IF Stops(list, e) = {} THEN Len(list) ELSE Min(Stops(list, e))

(* this.splice(position, 0, e)                                             *)
push_sorted(list, e) == InsertAt(list, Position(list, e) + 1, e)

-----------------------------------------------------------------------------
Smaller(a, b) == IF a < b THEN a ELSE b

(* Variant: the end is exclusive.                                          *)
SliceOpen(list, start, end) ==
    SubSeq(list, Smaller(start, Len(list)) + 1, Smaller(end, Len(list)))

(* arr.slice(Math.min(start, length), Math.min(end, length) + 1) ...       *)
Slice(list, start, end) ==
    SubSeq(list, Smaller(start, Len(list)) + 1, Smaller(end + 1, Len(list)))

(* ... and the loop that counts through it but reads arr, not range.       *)
Page(list, start, end) == SubSeq(list, 1, Len(Slice(list, start, end)))

(* Oldest first; equal timestamps in any order.                            *)
Sorted(list) ==
    \A i, j \in DOMAIN list : i < j => Timestamp[list[i]] <= Timestamp[list[j]]
=============================================================================
