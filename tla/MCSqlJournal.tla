----------------------------- MODULE MCSqlJournal -----------------------------
(* One stream of one source, two processes, four ways of using the journal. *)
EXTENDS SqlJournal

CONSTANTS p1, p2, r1, s1

MCHome == [r \in Readers |-> p1]

\* Two owners, one of them with a lossy producer, over a lease that moves.
MCFenced ==
    [types |-> {"log"}, overflow |-> "reject", capacity |-> 1, batchSize |-> 1,
     cacheSize |-> 1, maxSafe |-> 2, named |-> {0}, fenced |-> TRUE, lossy |-> {p1},
     durable |-> {p1, p2}, stops |-> {p1}, flushes |-> FALSE, compacts |-> FALSE,
     streams |-> {}]

\* One writes and streams, the other compacts.
MCCompacted ==
    [types |-> {"fold", "snap"}, overflow |-> "reject", capacity |-> 1, batchSize |-> 1,
     cacheSize |-> 1, maxSafe |-> 3, named |-> {}, fenced |-> FALSE, lossy |-> {},
     durable |-> {p1}, stops |-> {}, flushes |-> FALSE, compacts |-> TRUE,
     streams |-> {r1}]

\* Evictions and losses under a flush.
MCFlushed ==
    [types |-> {"log"}, overflow |-> "drop-oldest", capacity |-> 2, batchSize |-> 2,
     cacheSize |-> 2, maxSafe |-> 4, named |-> {}, fenced |-> FALSE, lossy |-> {p1},
     durable |-> {}, stops |-> {p1}, flushes |-> TRUE, compacts |-> FALSE,
     streams |-> {}]

\* A lossy producer and its stream beside a durable writer elsewhere.
MCFollowed ==
    [types |-> {"log"}, overflow |-> "reject", capacity |-> 1, batchSize |-> 1,
     cacheSize |-> 1, maxSafe |-> 2, named |-> {}, fenced |-> FALSE, lossy |-> {p1},
     durable |-> {p2}, stops |-> {}, flushes |-> TRUE, compacts |-> FALSE,
     streams |-> {r1}]

MCSettings == {MCFenced, MCCompacted, MCFlushed, MCFollowed}
===============================================================================
