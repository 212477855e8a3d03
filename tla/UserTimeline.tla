---------------------------- MODULE UserTimeline ----------------------------
(***************************************************************************)
(* One user's timeline as user_timeline_service.js keeps it when nothing   *)
(* interferes: posts come in in any order, each once, and pages are read.  *)
(* Module Timelines is about many writers.                                 *)
(***************************************************************************)
EXTENDS PushSorted, FiniteSets

VARIABLES
    posts,  \* the stored array
    page    \* what the last read_user_timeline passed to read_posts

timelineVars == <<posts, page>>

TimelineInit == posts = << >> /\ page = << >>

(* write_user_timeline                                                     *)
write_user_timeline(p) ==
    /\ p \notin ToSet(posts)
    /\ posts' = push_sorted(posts, p)
    /\ page' = page

(* read_user_timeline                                                      *)
read_user_timeline(start, end) ==
    /\ page' = Page(posts, start, end)
    /\ posts' = posts

TimelineNext ==
    \/ \E p \in Posts : write_user_timeline(p)
    \/ \E start, end \in 0 .. Cardinality(Posts) : read_user_timeline(start, end)

TimelineSpec == TimelineInit /\ [][TimelineNext]_timelineVars

(* The index that Position computes is the one the loop of push_sorted     *)
(* ends at, on every array a timeline can become and for every new post.   *)
PositionIsSearch == \A p \in Posts : Position(posts, p) = Search(posts, p)

Newer(p) == {i \in DOMAIN posts : comp(posts[i], p)}

(* push_sorted keeps a sorted timeline sorted for a post that is overtaken *)
(* by at most two newer ones on its way to the timeline.  (By three it does*)
(* not: the search never turns left.)                                      *)
SortedUnlessLate ==
    [][\A p \in Posts :
          write_user_timeline(p) /\ Sorted(posts) /\ Cardinality(Newer(p)) <= 2
              => Sorted(posts')]_timelineVars

(* A page from the start of the timeline is the range that was asked for;  *)
(* any page has its length.                                                *)
PageFromStart ==
    \A start, end \in 0 .. Cardinality(Posts) :
        LET wanted == {i \in DOMAIN posts : start <= i - 1 /\ i - 1 <= end}
        IN  /\ Len(Page(posts, start, end)) = Cardinality(wanted)
            /\ start = 0 => Page(posts, start, end) =
                               [i \in wanted |-> posts[i]]
=============================================================================
