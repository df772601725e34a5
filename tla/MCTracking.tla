----------------------------- MODULE MCTracking -----------------------------
(***************************************************************************)
(* Instances of Tracking for TLC, and the insertion of Projection compared *)
(* with its definition in the code, a stable sort of the appended list.    *)
(***************************************************************************)
EXTENDS Tracking, TLC

CONSTANTS pp1, a1

OneNumber  == {pp1}
NoReader   == {}
OneReader  == {a1}

\* The shortest way to DELIVERED, and one with a status in between.
ShortTypes == {"RETURNED", "DELIVERED"}
RoadTypes  == {"RETURNED", "OUT_FOR_DELIVERY", "DELIVERED"}

Once        == {1}
OnceOrTwice == {0, 1, 2}

NoFaults       == {}
ConsumerFaults == {"redis", "smtp", "connection", "crash"}
ReaderFaults   == {"redis", "upstream", "expiry", "publisher"}

-----------------------------------------------------------------------------
\* t is s sorted by time, events of the same time in their order in s.
IsStableSort(s, t) ==
  \E p \in Permutations(DOMAIN s) :
    /\ t = [i \in DOMAIN s |-> s[p[i]]]
    /\ \A i, j \in DOMAIN s :
         i < j => \/ t[i].at < t[j].at
                  \/ t[i].at = t[j].at /\ p[i] < p[j]

SmallEvents == [at : 1..3, status : {"x"}, type : {"e", "f"}]

SortedTimelines ==
  {s \in UNION {[1..n -> SmallEvents] : n \in 0..3} :
     \A i, j \in DOMAIN s : i < j => s[i].at <= s[j].at}

\* What append and sort.SliceStable make of a sorted timeline (projection.go:89-92).
ASSUME InsertedIsStableSort ==
  \A s \in SortedTimelines, ev \in SmallEvents :
    IsStableSort(Append(s, ev), Inserted(s, ev))
=============================================================================
