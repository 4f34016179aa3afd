----------------------------- MODULE MCSessions -----------------------------
(* Three requests on one session with a turn, an empty one and a backup of   *)
(* a third that is not in the database.                                      *)
EXTENDS Sessions

CONSTANTS r1, r2, r3, s1, s2, s3, t1, t2, d1, d2, k1

MCRows == [s \in {s1, s2} |-> IF s = s1 THEN [sum |-> {}, last |-> t1] ELSE EmptyRow]
MCStored == [s \in {s1, s2, s3} |-> IF s = s1 THEN <<t1>> ELSE <<>>]
MCTodos == [s \in {s1, s2, s3} |-> IF s = s1 THEN [d \in {d1} |-> None] ELSE <<>>]

\* Exports of s1 before its first turn, and of s3, taken in another database.
MCBackups ==
  {[ses |-> s1, row |-> EmptyRow, turns |-> <<>>, events |-> {}, todos |-> <<>>,
    items |-> <<>>, stale |-> FALSE],
   [ses |-> s3, row |-> [sum |-> {}, last |-> t2], turns |-> <<t2>>, events |-> {t2},
    todos |-> [d \in {d2} |-> None],
    items |-> [k \in {<<"checkpoint", k1>>, <<"artifact", k1>>} |-> t2], stale |-> FALSE]}

Run(s)  == [do |-> "run", ses |-> s]
Import(s, o) == [do |-> "import", as |-> s, overwrite |-> o]

Core == {Run(s1), [do |-> "compact", ses |-> s1, checkpoint |-> TRUE],
         [do |-> "export", ses |-> s1], Import(None, TRUE)}
Todo == {[do |-> "upsert", ses |-> s1, todo |-> d2], [do |-> "drop", ses |-> s1, todo |-> d1],
         [do |-> "put", ses |-> s1, todos |-> {d2}]}
Rest == {[do |-> "create"], Run(None), [do |-> "fork", ses |-> s1, at |-> None], [do |-> "fork", ses |-> s2, at |-> None],
         [do |-> "fork", ses |-> s1, at |-> t1], [do |-> "fork", ses |-> s2, at |-> t1],
         Import(None, FALSE), Import(s3, FALSE), Run(s2), Run(s3),
         [do |-> "upsert", ses |-> s3, todo |-> d2],
         [do |-> "checkpoint", ses |-> s2, id |-> k1, turn |-> None],
         [do |-> "artifact", ses |-> s1, id |-> k1, turn |-> t1],
         [do |-> "artifact", ses |-> s1, id |-> k1, turn |-> r1],
         [do |-> "remove", id |-> k1], [do |-> "prune", ses |-> s1]}
MCServes == [x \in {r1, r2, r3} |-> CASE x = r1 -> Core
                                   [] x = r2 -> Core \cup Todo \cup Rest
                                   [] x = r3 -> Todo \cup {Run(s1), Import(None, TRUE)}]
=============================================================================
