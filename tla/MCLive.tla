-------------------------------- MODULE MCLive --------------------------------
(* A small instance of Live, with the patches of LiveDiff: one page, one topic *)
(* and two connections, so that one may be wound up while the other serves.    *)
EXTENDS Live

CONSTANTS t1, c1, c2

D == INSTANCE LiveDiff

MCTopic == {t1}
MCConn == {c1, c2}

\* A queue of jobs, each with an id and a state, that moves on.
Job(id, is) == D!Object([k \in {"id", "is"} |-> IF k = "id" THEN D!Scalar(id) ELSE D!Scalar(is)])
Queue(jobs) == D!Object([k \in {"jobs"} |-> D!Array(jobs)])
MCValue == {Queue(<<Job("a", "new"), Job("b", "new")>>), Queue(<<Job("b", "new"), Job("a", "old")>>)}

Lists(elements) == UNION {[1..n -> elements] : n \in 0..3}

\* A patch turns any of these values into any other, whether the elements of an
\* array have ids, repeat, move or change (Diff, applyOps).
ASSUME DiffRoundTrip ==
  LET docs == {D!Array(s) : s \in Lists({Job(id, is) : id \in {"a", "b"}, is \in {"new", "old"}})}
              \cup {D!Array(s) : s \in Lists({D!Scalar("new"), D!Scalar("old")})}
              \cup {Queue(s) : s \in Lists({Job("a", "new"), Job("b", "new")})} \cup {D!Scalar("new")}
  IN \A a, b \in docs : D!Apply(a, D!Diff(a, b)) = b

MCOps(a, b) == D!Diff(a, b)
MCApplyOps(a, ops) == D!Apply(a, ops)

\* Bound: it shows this at first; a write can make it anything else.
MCFirst == {Queue(<<Job("a", "new"), Job("b", "new")>>)}
==============================================================================
