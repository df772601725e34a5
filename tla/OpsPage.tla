------------------------------- MODULE OpsPage -------------------------------
(***************************************************************************)
(* The operations page (web/src/pages/OpsPage.tsx): a list that is asked   *)
(* for every five seconds and after each successful submit, and two forms  *)
(* whose submits are answered later.  Requests are in flight side by side, *)
(* nothing cancels one, and answers come in any order.                     *)
(*                                                                         *)
(* A list is known by its version, the number of writes it shows.          *)
(***************************************************************************)
EXTENDS Naturals, FiniteSets

CONSTANTS Lists,      \* bound: list requests in flight
          Posts,      \* bound: submits in flight
          MaxWrites,  \* bound on the writes, this page's and others'
          MaxFailures \* bound on failed requests

ASSUME OpsPageAssumption ==
  /\ IsFiniteSet(Lists)
  /\ MaxWrites \in Nat \ {0}
  /\ MaxFailures \in Nat

VARIABLES db,      \* the version of the shipments in shipments-service
          shown,   \* the version in `shipments`, 0 before the first answer
          lists,   \* the list requests
          posts,   \* the submits
          form,    \* something is typed into the form of a new shipment
          scanFor, \* the form of a scan is open
          error,   \* the message shown
          failures

vars == <<db, shown, lists, posts, form, scanFor, error, failures>>

Free == [pc |-> "free"]

\* `version` is what the server has read, `known` (history) the newest version the
\* page knew of when it asked.
List == [pc : {"asked", "read", "failed"}, version : Nat, known : Nat]

\* `version` is the one that a recorded submit has made.
Kinds == {"create", "scan"}
Post == [pc : {"sent", "recorded", "failed"}, kind : Kinds, version : Nat]

TypeOK ==
  /\ db \in 1..MaxWrites
  /\ shown \in 0..db
  /\ lists \in [Lists -> {Free} \cup List]
  /\ posts \in [Posts -> {Free} \cup Post]
  /\ form \in BOOLEAN
  /\ scanFor \in BOOLEAN
  /\ error \in {"", "load"} \cup Kinds
  /\ failures \in 0..MaxFailures

Init ==
  /\ db = 1
  /\ shown = 0
  /\ lists = [s \in Lists |-> Free]
  /\ posts = [p \in Posts |-> Free]
  /\ form = FALSE
  /\ scanFor = FALSE
  /\ error = ""
  /\ failures = 0

-----------------------------------------------------------------------------
\* refresh.
Ask(s, known) ==
  /\ lists[s] = Free
  /\ lists' = [lists EXCEPT ![s] = [pc |-> "asked", version |-> 0, known |-> known]]

\* A slip: the list is loaded once.
PollOnce(s) ==
  /\ shown = 0
  /\ Ask(s, shown)
  /\ UNCHANGED <<db, shown, posts, form, scanFor, error, failures>>

\* On mounting, and then from the interval timer, answered or not.
Poll(s) ==
  /\ Ask(s, shown)
  /\ UNCHANGED <<db, shown, posts, form, scanFor, error, failures>>

ListAnswered(s) ==
  /\ lists[s].pc = "read"
  /\ shown' = lists[s].version
  /\ lists' = [lists EXCEPT ![s] = Free]
  /\ UNCHANGED <<db, posts, form, scanFor, error, failures>>

\* The message stays until the next submit, whatever later polls bring.
ListFailed(s) ==
  /\ lists[s].pc = "failed"
  /\ error' = "load"
  /\ lists' = [lists EXCEPT ![s] = Free]
  /\ UNCHANGED <<db, shown, posts, form, scanFor, failures>>

\* What the operator does between submits.
TypeForm ==
  /\ form' = TRUE
  /\ UNCHANGED <<db, shown, lists, posts, scanFor, error, failures>>

OpenScan ==
  /\ shown > 0
  /\ scanFor' = TRUE
  /\ UNCHANGED <<db, shown, lists, posts, form, error, failures>>

CancelScan ==
  /\ scanFor' = FALSE
  /\ UNCHANGED <<db, shown, lists, posts, form, error, failures>>

\* A slip: the list shows the write before the server has it.
SubmitOptimistic(p, kind) ==
  /\ posts[p] = Free
  /\ IF kind = "create" THEN form ELSE scanFor
  /\ posts' = [posts EXCEPT ![p] = [pc |-> "sent", kind |-> kind, version |-> 0]]
  /\ error' = ""
  /\ shown' = shown + 1
  /\ UNCHANGED <<db, lists, form, scanFor, failures>>

\* Nothing disables the button: a form can be submitted again while it is in flight.
Submit(p, kind) ==
  /\ posts[p] = Free
  /\ IF kind = "create" THEN form ELSE scanFor
  /\ posts' = [posts EXCEPT ![p] = [pc |-> "sent", kind |-> kind, version |-> 0]]
  /\ error' = ""
  /\ UNCHANGED <<db, shown, lists, form, scanFor, failures>>

Newer(v, w) == IF v > w THEN v ELSE w

\* A slip: a list request that is under way already will do.
PostAnsweredShared(p, s) ==
  /\ posts[p].pc = "recorded"
  /\ \/ Ask(s, Newer(shown, posts[p].version))
     \/ /\ lists[s] # Free
        /\ lists' = [lists EXCEPT ![s].known = Newer(@, posts[p].version)]
  /\ posts' = [posts EXCEPT ![p] = Free]
  /\ form' = IF posts[p].kind = "create" THEN FALSE ELSE form
  /\ scanFor' = IF posts[p].kind = "scan" THEN FALSE ELSE scanFor
  /\ UNCHANGED <<db, shown, error, failures>>

\* The form is emptied or closed, whatever it holds by now, and the list asked for.
PostAnswered(p, s) ==
  /\ posts[p].pc = "recorded"
  /\ Ask(s, Newer(shown, posts[p].version))
  /\ posts' = [posts EXCEPT ![p] = Free]
  /\ form' = IF posts[p].kind = "create" THEN FALSE ELSE form
  /\ scanFor' = IF posts[p].kind = "scan" THEN FALSE ELSE scanFor
  /\ UNCHANGED <<db, shown, error, failures>>

PostFailed(p) ==
  /\ posts[p].pc = "failed"
  /\ error' = posts[p].kind
  /\ posts' = [posts EXCEPT ![p] = Free]
  /\ UNCHANGED <<db, shown, lists, form, scanFor, failures>>

-----------------------------------------------------------------------------
\* The other end: shipments-service behind the gateway.
ServeList(s) ==
  /\ lists[s].pc = "asked"
  /\ lists' = [lists EXCEPT ![s].pc = "read", ![s].version = db]
  /\ UNCHANGED <<db, shown, posts, form, scanFor, error, failures>>

FailList(s) ==
  /\ lists[s].pc = "asked"
  /\ failures < MaxFailures
  /\ failures' = failures + 1
  /\ lists' = [lists EXCEPT ![s].pc = "failed"]
  /\ UNCHANGED <<db, shown, posts, form, scanFor, error>>

\* A submit is recorded; its answer comes back, or is lost.
Record(p) ==
  /\ posts[p].pc = "sent"
  /\ db < MaxWrites
  /\ db' = db + 1
  /\ \/ /\ posts' = [posts EXCEPT ![p].pc = "recorded", ![p].version = db']
        /\ UNCHANGED failures
     \/ /\ failures < MaxFailures
        /\ failures' = failures + 1
        /\ posts' = [posts EXCEPT ![p].pc = "failed"]
  /\ UNCHANGED <<shown, lists, form, scanFor, error>>

\* 409, 422, or no answer at all.
Refuse(p) ==
  /\ posts[p].pc = "sent"
  /\ posts' = [posts EXCEPT ![p].pc = "failed"]
  /\ UNCHANGED <<db, shown, lists, form, scanFor, error, failures>>

OthersWrite ==
  /\ db < MaxWrites
  /\ db' = db + 1
  /\ UNCHANGED <<shown, lists, posts, form, scanFor, error, failures>>

-----------------------------------------------------------------------------
Next ==
  \/ \E s \in Lists :
       \/ Poll(s) \/ ListAnswered(s) \/ ListFailed(s)
       \/ ServeList(s) \/ FailList(s)
  \/ TypeForm \/ OpenScan \/ CancelScan
  \/ \E p \in Posts :
       \/ \E kind \in Kinds : Submit(p, kind)
       \/ \E s \in Lists : PostAnswered(p, s)
       \/ PostFailed(p) \/ Record(p) \/ Refuse(p)
  \/ OthersWrite

Spec == Init /\ [][Next]_vars

\* The timer ticks while the page is open, and every fetch ends.
FairSpec ==
  /\ Spec
  /\ WF_vars(\E s \in Lists : Poll(s))
  /\ \A s \in Lists : WF_vars(ServeList(s)) /\ WF_vars(ListAnswered(s) \/ ListFailed(s))

-----------------------------------------------------------------------------
\* "watch statuses update (polls every 5s)" (docs/architecture.md:15-16): once nobody
\* writes any more the page comes to show the last version and stays with it, although
\* older answers are still on their way and some requests fail (OpsPage.tsx:16-28).
PageCatchesUp == <>[](shown = db)

\* The list that an answer brings is never older than what the page knew when it asked:
\* the refresh after a submit shows that submit's write, a poll nothing older than the
\* list it found.  So the list goes back only when a later request's answer has overtaken
\* this one's (OpsPage.tsx:18, 34-36, 46-49).
AnswersKeepUp ==
  [][\A s \in Lists : ListAnswered(s) => shown' >= lists[s].known]_vars
=============================================================================
