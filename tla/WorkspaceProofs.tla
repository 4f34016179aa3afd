--------------------------- MODULE WorkspaceProofs ---------------------------
(***************************************************************************)
(* Theorems about Workspace, for every finite set of paths, every set of   *)
(* workers and requests, and every tree to start from.  The argument:      *)
(*   - every file system call turns a tree into a tree, and the calls of a *)
(*     request are calls on the paths it names (the lemmas on Effect and   *)
(*     Calls);                                                             *)
(*   - each action changes one worker in a known way (the Step lemmas);    *)
(*   - a call of a restore moves every path to what it was at the snapshot *)
(*     or leaves it (UndoCall), and a call of the request itself touches  *)
(*     nothing that was a file and is not recorded (OwnKeeps): from      *)
(*     these the parts of IInv that speak of the last snapshot follow;     *)
(*   - the theorems at the end follow from IInv by temporal logic.         *)
(***************************************************************************)
EXTENDS Workspace, TLAPS, FiniteSetTheorems, SequenceTheorems,
        WellFoundedInduction

-----------------------------------------------------------------------------
(* The invariant: shapes                                                    *)

FsCalls == [call : {"mkdir"}, path : Paths \cup {<<>>}]
      \cup [call : {"put"}, path : Paths, text : Texts]
      \cup [call : {"unlink", "removeAll"}, path : Paths]
      \cup [call : {"rename"}, path : Paths, to : Paths]

EntrySets == UNION {[S -> Nodes] : S \in SUBSET Paths}

PCs == Ended \cup {"idle", "snapped", "saved", "calling", "pruning"}

Requests == Changes \cup {NoRequest} \cup [do : {"restore", "drop", "prune"}]

WorkerRecord ==
  [pc : PCs, req : Requests, id : Nat, entries : EntrySets, calls : Seq(FsCalls),
   left : SUBSET (Paths \cup Nat)]

\* What is true of a worker at each of its program counters.
Shape(wk, m, known) ==
  /\ wk.id <= m
  /\ wk.id # 0 => wk.req \in Changes \/ wk.req.do = "restore"
  /\ wk.pc = "idle" => wk = Idle
  /\ wk.pc \in {"snapped", "saved", "calling"} => wk.id # 0
  /\ wk.pc \in {"snapped", "saved"} => wk.req \in Changes /\ wk.left = {}
  /\ wk.pc = "snapped" => DOMAIN wk.entries # {}
  /\ wk.pc = "calling" =>
       \/ wk.req \in Changes /\ wk.left = {} /\ wk.calls # <<>>
       \/ /\ wk.req.do = "restore" /\ wk.left \subseteq DOMAIN wk.entries
          /\ wk.calls = <<>> => wk.left # {}
  /\ wk.pc = "pruning" => wk.id = 0 /\ wk.left \subseteq known /\ wk.left # {}

\* The fields of the state one by one.
TypeInv ==
  /\ tree \in [Paths -> Nodes] /\ IsTree(tree)
  /\ made \in Nat
  /\ DOMAIN cps \subseteq saved /\ saved \subseteq 1..made /\ dropped \subseteq 1..made
  /\ \A i \in DOMAIN cps : cps[i] \in EntrySets /\ DOMAIN cps[i] # {}
  /\ w \in [Workers -> WorkerRecord]
  /\ \A a \in Workers : Shape(w[a], made, saved)
  /\ base.id \in 0..made /\ base.undone \in BOOLEAN
  /\ base = [id |-> base.id, tree |-> base.tree, undone |-> base.undone]
  /\ base.id # 0 => base.tree \in [Paths -> Nodes] /\ IsTree(base.tree)
  /\ base.undone => base.id # 0

\* A checkpoint that a prune may delete.
Spare(i, known) == \E keep \in Keeps : Cardinality({j \in known : j > i}) >= keep

\* A pruning worker deletes only what has enough newer ones.
PruneInv ==
  /\ PruneKeepsNewest
  /\ \A a \in Workers : w[a].pc = "pruning" => \A i \in w[a].left : Spare(i, saved)

-----------------------------------------------------------------------------
(* The invariant: the last snapshot                                         *)

\* The worker that took the snapshot b speaks of, and one that restores it.
Owns(wk, b)   == b.id # 0 /\ wk.id = b.id /\ wk.req \in Changes
Undoes(wk, b) == b.id # 0 /\ wk.id = b.id /\ wk.req.do = "restore"

\* What the snapshot of the tree bt recorded for request r.
Recorded(r, bt) == Snapshot(bt, Named(r))

\* A file the undo promises to keep: WalkDir does not pass it by.
Kept(bt, q) == IsFile(bt, q) /\ \A s \in Upto(q) : ~PassedBy(bt, s)

\* A request that replaces nothing: it turns no file into a directory and no
\* directory into a file.
Mild(r) == r.do \in {"write", "edit", "delete"} \/ (r.do = "move" /\ ~r.overwrite)

\* The calls a request makes, seen from the tree bt it was checked on.
OwnCall(c, r, bt) ==
  \/ c.call = "mkdir" /\ \E p \in Named(r) : c.path = Parent(p)
  \/ c.call = "put" /\ c.path \in Named(r) /\ r.do \in {"write", "edit", "patch"}
  \/ /\ c.call \in {"unlink", "removeAll"} /\ c.path \in Named(r)
     /\ \/ r.do \in {"delete", "patch"}
        \/ r.do = "move" /\ r.overwrite
  \/ /\ c.call = "rename" /\ r.do = "move" /\ c.path = r.path /\ c.to = r.to
     /\ r.overwrite \/ bt[r.to] = Absent

\* The calls of a restore that are left for path p, in the tree t.
UndoCalls(calls, t, bt, p) ==
  \/ calls = RestoreCalls(p, bt[p])
  \/ IsFile(bt, p) /\ calls = <<Put(p, bt[p])>> /\ ParentIsDir(t, p)

\* The owner was accepted before it changed anything.
OwnerShape(wk, t, bt) ==
  /\ \A p \in Named(wk.req) : Reaches(bt, p)
  /\ wk.pc = "snapped" => wk.entries = Recorded(wk.req, bt)
  /\ wk.pc \in {"snapped", "saved"} => t = bt
  /\ wk.pc = "calling" => \A i \in DOMAIN wk.calls : OwnCall(wk.calls[i], wk.req, bt)

\* What a restore has done so far is there: r is the request it undoes.
UndoShape(r, wk, t, bt) ==
  wk.pc = "calling" =>
    /\ wk.entries = Recorded(r, bt)
    /\ wk.calls = <<>> => \A q \in DOMAIN Recorded(r, bt) \ wk.left : t[q] = bt[q]
    /\ wk.calls # <<>> => \E p \in DOMAIN Recorded(r, bt) \ wk.left :
         /\ UndoCalls(wk.calls, t, bt, p)
         /\ \A q \in DOMAIN Recorded(r, bt) \ (wk.left \cup {p}) : t[q] = bt[q]

\* What the undo promises.
Promise(r, t, bt) == \A q \in Paths \ DOMAIN Recorded(r, bt) : Kept(bt, q) => t[q] = bt[q]
AllBack(r, t, bt) == \A q \in DOMAIN Recorded(r, bt) : t[q] = bt[q]

\* Nothing a mild request does stops a restore.
Kinds(r, t, bt) ==
  Mild(r) => \A q \in Paths :
    /\ bt[q] = Dir => ~IsFile(t, q)
    /\ IsFile(bt, q) => t[q] # Dir
    /\ \A p \in Named(r) : q \in Above(p) => ~IsFile(t, q)
    /\ r.do \in {"write", "edit"} /\ bt[q] # Absent => t[q] # Absent

\* Every checkpoint was taken by one worker.
IdsInv ==
  /\ base.id # 0 => \E a \in Workers : Owns(w[a], base)
  /\ \A a, b \in Workers :
       /\ w[a].req \in Changes /\ w[b].req \in Changes /\ w[a].id = w[b].id /\ w[a].id # 0
       => a = b

OwnerInv ==
  \A a \in Workers : Owns(w[a], base) =>
    /\ OwnerShape(w[a], tree, base.tree)
    /\ base.id \in DOMAIN cps => cps[base.id] = Recorded(w[a].req, base.tree)

UndoInv ==
  \A a, u \in Workers : Owns(w[a], base) /\ Undoes(w[u], base) =>
    /\ UndoShape(w[a].req, w[u], tree, base.tree)
    /\ Mild(w[a].req) => w[u].pc # "failed"

TreeInv ==
  \A a \in Workers : Owns(w[a], base) =>
    /\ Promise(w[a].req, tree, base.tree) /\ Kinds(w[a].req, tree, base.tree)
    /\ base.undone => AllBack(w[a].req, tree, base.tree)

IInv == TypeInv /\ PruneInv /\ IdsInv /\ OwnerInv /\ UndoInv /\ TreeInv

-----------------------------------------------------------------------------
(* Paths                                                                    *)

\* A prefix, position by position.
LEMMA PrefixAt ==
  ASSUME NEW s \in Seq(Nat), NEW t \in Seq(Nat)
  PROVE  IsPrefix(s, t) <=> Len(s) <= Len(t) /\ \A i \in 1..Len(s) : s[i] = t[i]
<1>1. Len(s) \in Nat /\ Len(t) \in Nat
  OBVIOUS
<1>2. ASSUME Len(s) <= Len(t)
      PROVE  SubSeq(s, 1, Len(s)) = SubSeq(t, 1, Len(s))
               <=> \A i \in 1..Len(s) : s[i] = t[i]
  <2>1. /\ SubSeq(s, 1, Len(s)) = [i \in 1..Len(s) |-> s[i]]
        /\ SubSeq(t, 1, Len(s)) = [i \in 1..Len(s) |-> t[i]]
    BY <1>1, <1>2
  <2> QED BY <2>1
<1> QED BY <1>1, <1>2 DEF IsPrefix

\* Prefixes are ordered, and those of one path are comparable.
LEMMA PrefixOrder ==
  ASSUME NEW p \in Seq(Nat), NEW q \in Seq(Nat), NEW r \in Seq(Nat)
  PROVE  /\ IsPrefix(p, p)
         /\ IsPrefix(p, q) /\ IsPrefix(q, r) => IsPrefix(p, r)
         /\ IsPrefix(p, q) /\ IsPrefix(q, p) => p = q
         /\ IsPrefix(p, r) /\ IsPrefix(q, r) => IsPrefix(p, q) \/ IsPrefix(q, p)
<1>1. Len(p) \in Nat /\ Len(q) \in Nat /\ Len(r) \in Nat
  OBVIOUS
<1>2. IsPrefix(p, p)
  BY <1>1, PrefixAt
<1>3. ASSUME IsPrefix(p, q), IsPrefix(q, r) PROVE IsPrefix(p, r)
  <2>1. /\ Len(p) <= Len(q) /\ \A i \in 1..Len(p) : p[i] = q[i]
        /\ Len(q) <= Len(r) /\ \A i \in 1..Len(q) : q[i] = r[i]
    BY <1>3, PrefixAt
  <2>2. Len(p) <= Len(r)
    BY <1>1, <2>1
  <2>3. ASSUME NEW i \in 1..Len(p) PROVE p[i] = r[i]
    <3>1. i \in 1..Len(q)
      BY <1>1, <2>1
    <3> QED BY <2>1, <3>1
  <2> QED BY <2>2, <2>3, PrefixAt
<1>4. ASSUME IsPrefix(p, q), IsPrefix(q, p) PROVE p = q
  <2>1. Len(p) = Len(q) /\ \A i \in 1..Len(p) : p[i] = q[i]
    BY <1>1, <1>4, PrefixAt
  <2> QED BY <2>1, SeqEqual
<1>5. ASSUME IsPrefix(p, r), IsPrefix(q, r) PROVE IsPrefix(p, q) \/ IsPrefix(q, p)
  <2>1. /\ Len(p) <= Len(r) /\ \A i \in 1..Len(p) : p[i] = r[i]
        /\ Len(q) <= Len(r) /\ \A i \in 1..Len(q) : q[i] = r[i]
    BY <1>5, PrefixAt
  <2>2. CASE Len(p) <= Len(q)
    <3>1. \A i \in 1..Len(p) : p[i] = q[i]
      BY <1>1, <2>1, <2>2
    <3> QED BY <2>2, <3>1, PrefixAt
  <2>3. CASE Len(q) <= Len(p)
    <3>1. \A i \in 1..Len(q) : q[i] = p[i]
      BY <1>1, <2>1, <2>3
    <3> QED BY <2>3, <3>1, PrefixAt
  <2> QED BY <1>1, <2>2, <2>3
<1> QED BY <1>2, <1>3, <1>4, <1>5

\* A path has at least one name.
LEMMA PathFacts ==
  ASSUME WorkspaceAssumption, NEW p \in Paths
  PROVE  p \in Seq(Nat) /\ p # <<>> /\ Len(p) \in Nat /\ Len(p) >= 1 /\ <<>> \notin Paths
<1>1. p \in Seq(Nat) /\ p # <<>> /\ <<>> \notin Paths
  BY DEF WorkspaceAssumption
<1> QED BY <1>1

\* A prefix of p with a name in it is among Upto(p).
LEMMA PrefixUpto ==
  ASSUME NEW p \in Seq(Nat), NEW q \in Seq(Nat), Len(q) >= 1, IsPrefix(q, p)
  PROVE  q \in Upto(p)
<1>1. Len(p) \in Nat /\ Len(q) \in Nat
  OBVIOUS
<1>2. Len(q) <= Len(p) /\ \A i \in 1..Len(q) : q[i] = p[i]
  BY PrefixAt
<1>3. SubSeq(p, 1, Len(q)) = [i \in 1..Len(q) |-> p[i]]
  BY <1>1, <1>2
<1>4. q = [i \in 1..Len(q) |-> q[i]]
  OBVIOUS
<1>5. SubSeq(p, 1, Len(q)) = q
  BY <1>2, <1>3, <1>4
<1>6. Len(q) \in 1..Len(p)
  BY <1>1, <1>2
<1> QED BY <1>5, <1>6 DEF Upto

\* The paths up to p are its prefixes; those above it the strict ones.
LEMMA UptoPrefix ==
  ASSUME WorkspaceAssumption, NEW p \in Paths
  PROVE  /\ Upto(p) = {q \in Paths : IsPrefix(q, p)}
         /\ Above(p) = {q \in Paths : IsPrefix(q, p) /\ q # p}
         /\ p \in Upto(p)
<1>1. p \in Seq(Nat) /\ Len(p) \in Nat /\ Len(p) >= 1
  BY PathFacts
<1>2. ASSUME NEW q \in Upto(p) PROVE q \in Paths /\ IsPrefix(q, p)
  <2>1. PICK n \in 1..Len(p) : q = SubSeq(p, 1, n)
    BY <1>2 DEF Upto
  <2>2. q \in Paths
    BY <1>2 DEF WorkspaceAssumption
  <2>3. q = [i \in 1..n |-> p[i]]
    BY <1>1, <2>1
  <2>4. q \in Seq(Nat) /\ Len(q) = n /\ \A i \in 1..Len(q) : q[i] = p[i]
    BY <2>2, <2>3, <1>1, PathFacts
  <2> QED BY <1>1, <2>2, <2>4, PrefixAt
<1>3. ASSUME NEW q \in Paths, IsPrefix(q, p) PROVE q \in Upto(p)
  <2>1. q \in Seq(Nat) /\ Len(q) >= 1
    BY PathFacts
  <2> QED BY <1>1, <1>3, <2>1, PrefixUpto
<1>4. Upto(p) = {q \in Paths : IsPrefix(q, p)}
  BY <1>2, <1>3
<1> QED BY <1>1, <1>4, PrefixOrder DEF Above

\* The parent of p is the longest path above it, or the root.
LEMMA UptoParent ==
  ASSUME WorkspaceAssumption, NEW p \in Paths
  PROVE  /\ Upto(Parent(p)) = Above(p)
         /\ Parent(p) \in Paths \cup {<<>>}
<1>1. p \in Seq(Nat) /\ Len(p) \in Nat /\ Len(p) >= 1
  BY PathFacts
<1> DEFINE n == Len(p) - 1
<1>2. /\ Parent(p) = [i \in 1..n |-> p[i]] /\ n \in Nat
  BY <1>1 DEF Parent, Front
<1>3. Parent(p) \in Seq(Nat) /\ Len(Parent(p)) = n
      /\ \A i \in 1..n : Parent(p)[i] = p[i]
  BY <1>1, <1>2
<1>4. ASSUME NEW k \in 1..n PROVE SubSeq(Parent(p), 1, k) = SubSeq(p, 1, k)
  <2>1. /\ SubSeq(Parent(p), 1, k) = [i \in 1..k |-> Parent(p)[i]]
        /\ SubSeq(p, 1, k) = [i \in 1..k |-> p[i]]
    BY <1>1, <1>3, <1>4
  <2>2. \A i \in 1..k : Parent(p)[i] = p[i]
    BY <1>2, <1>3, <1>4
  <2> QED BY <2>1, <2>2
<1>5. Upto(Parent(p)) = {SubSeq(p, 1, k) : k \in 1..n}
  BY <1>3, <1>4 DEF Upto
<1>6. Above(p) = {SubSeq(p, 1, k) : k \in 1..n}
  <2>1. ASSUME NEW k \in 1..n PROVE SubSeq(p, 1, k) \in Above(p)
    <3>1. Len(SubSeq(p, 1, k)) = k /\ k # Len(p) /\ k \in 1..Len(p)
      BY <1>1, <2>1
    <3>2. SubSeq(p, 1, k) # p
      BY <3>1
    <3> QED BY <3>1, <3>2 DEF Above, Upto
  <2>2. ASSUME NEW q \in Above(p) PROVE \E k \in 1..n : q = SubSeq(p, 1, k)
    <3>1. PICK k \in 1..Len(p) : q = SubSeq(p, 1, k)
      BY <2>2 DEF Above, Upto
    <3>2. k # Len(p)
      <4>1. SubSeq(p, 1, Len(p)) = p
        BY <1>1
      <4> QED BY <2>2, <3>1, <4>1 DEF Above
    <3>3. k \in 1..n
      BY <1>1, <3>2
    <3> QED BY <3>1, <3>3
  <2> QED BY <2>1, <2>2
<1>7. Parent(p) \in Paths \cup {<<>>}
  <2>1. CASE n = 0
    BY <1>2, <2>1
  <2>2. CASE n # 0
    <3>1. n \in 1..n
      <4> HIDE DEF n
      <4> QED BY <1>2, <2>2
    <3>2. SubSeq(p, 1, n) \in Upto(p)
      BY <1>6, <3>1 DEF Above
    <3>3. SubSeq(p, 1, n) = Parent(p)
      BY DEF Parent, Front
    <3> QED BY <3>2, <3>3 DEF WorkspaceAssumption
  <2> QED BY <2>1, <2>2
<1> QED BY <1>5, <1>6, <1>7

\* Nothing is above or at the root.
LEMMA UptoRoot == Upto(<<>>) = {}
BY DEF Upto

\* The prefixes of a path or of the root.
LEMMA UptoDown ==
  ASSUME WorkspaceAssumption, NEW p \in Paths \cup {<<>>}, NEW q \in Upto(p)
  PROVE  /\ q \in Paths /\ Upto(q) \subseteq Upto(p) /\ Above(q) \subseteq Upto(p)
         /\ p \in Paths
<1>1. p \in Paths
  BY UptoRoot
<1>2. q \in Paths /\ IsPrefix(q, p)
  BY <1>1, UptoPrefix
<1>3. ASSUME NEW r \in Upto(q) PROVE r \in Upto(p)
  <2>1. r \in Paths /\ IsPrefix(r, q)
    BY <1>2, <1>3, UptoPrefix
  <2>2. IsPrefix(r, p)
    BY <1>1, <1>2, <2>1, PrefixOrder, PathFacts
  <2> QED BY <1>1, <2>1, <2>2, UptoPrefix
<1> QED BY <1>1, <1>2, <1>3 DEF Above

\* IsTree in terms of prefixes.
LEMMA TreePrefix ==
  ASSUME WorkspaceAssumption, NEW t
  PROVE  IsTree(t) <=> \A p, q \in Paths :
           t[p] # Absent /\ IsPrefix(q, p) /\ q # p => t[q] = Dir
BY UptoPrefix DEF IsTree

-----------------------------------------------------------------------------
(* File system calls                                                        *)

\* What a path can be: absent, a directory, or a file with one of the texts.
LEMMA NodeFacts ==
  ASSUME WorkspaceAssumption
  PROVE  /\ Absent \in Nodes /\ Dir \in Nodes /\ Absent # Dir
         /\ \A s \in Texts : s \in Nodes /\ s # Absent /\ s # Dir
         /\ \A s \in Nodes : s # Absent /\ s # Dir => s \in Texts
         /\ {} \in Texts
BY DEF WorkspaceAssumption, Nodes, Texts

\* The paths strictly below p, in terms of prefixes.
LEMMA BelowPrefix ==
  ASSUME NEW p
  PROVE  Below(p) = {q \in Paths : IsPrefix(p, q) /\ q # p}
BY DEF Below, IsStrictPrefix

\* Each call, path by path.
LEMMA EffectAt ==
  ASSUME WorkspaceAssumption, NEW t \in [Paths -> Nodes], NEW c \in FsCalls
  PROVE  /\ Effect(c, t) \in [Paths -> Nodes]
         /\ c.call \in {"mkdir", "put", "unlink", "removeAll", "rename"}
         /\ c.path \in Paths \cup {<<>>}
         /\ c.call # "mkdir" => c.path \in Paths
         /\ c.call = "put" => c.text \in Texts
         /\ c.call = "rename" => c.to \in Paths
         /\ c.call = "mkdir" => \A q \in Paths :
              Effect(c, t)[q] = IF q \in Upto(c.path) THEN Dir ELSE t[q]
         /\ c.call = "put" => \A q \in Paths :
              Effect(c, t)[q] = IF q = c.path THEN c.text ELSE t[q]
         /\ c.call = "unlink" => \A q \in Paths :
              Effect(c, t)[q] = IF q = c.path THEN Absent ELSE t[q]
         /\ c.call = "removeAll" => \A q \in Paths :
              Effect(c, t)[q] = IF IsPrefix(c.path, q) THEN Absent ELSE t[q]
         /\ c.call = "rename" => \A q \in Paths :
              Effect(c, t)[q] = IF IsPrefix(c.to, q) THEN Moved(t, c.path, c.to, q)
                                ELSE IF IsPrefix(c.path, q) THEN Absent ELSE t[q]
<1>1. CASE c \in [call : {"mkdir"}, path : Paths \cup {<<>>}]
  <2>1. c.call = "mkdir" /\ c.path \in Paths \cup {<<>>}
    BY <1>1
  <2>2. Effect(c, t) = [q \in Paths |-> IF q \in Upto(c.path) THEN Dir ELSE t[q]]
    BY <2>1 DEF Effect
  <2> QED BY <2>1, <2>2, NodeFacts
<1>2. CASE c \in [call : {"put"}, path : Paths, text : Texts]
  <2>1. c.call = "put" /\ c.path \in Paths /\ c.text \in Texts
    BY <1>2
  <2>2. Effect(c, t) = [t EXCEPT ![c.path] = c.text]
    BY <2>1 DEF Effect
  <2> QED BY <2>1, <2>2, NodeFacts
<1>3. CASE c \in [call : {"unlink", "removeAll"}, path : Paths]
  <2>1. c.call \in {"unlink", "removeAll"} /\ c.path \in Paths
    BY <1>3
  <2>2. CASE c.call = "unlink"
    <3>1. Effect(c, t) = [t EXCEPT ![c.path] = Absent]
      BY <2>2 DEF Effect
    <3> QED BY <2>1, <2>2, <3>1, NodeFacts
  <2>3. CASE c.call = "removeAll"
    <3>1. Effect(c, t) = [q \in Paths |-> IF IsPrefix(c.path, q) THEN Absent ELSE t[q]]
      BY <2>3 DEF Effect
    <3> QED BY <2>1, <2>3, <3>1, NodeFacts
  <2> QED BY <2>1, <2>2, <2>3
<1>4. CASE c \in [call : {"rename"}, path : Paths, to : Paths]
  <2>1. c.call = "rename" /\ c.path \in Paths /\ c.to \in Paths
    BY <1>4
  <2>2. Effect(c, t) = [q \in Paths |->
                         IF IsPrefix(c.to, q) THEN Moved(t, c.path, c.to, q)
                         ELSE IF IsPrefix(c.path, q) THEN Absent ELSE t[q]]
    BY <2>1 DEF Effect
  <2>3. \A q \in Paths : Moved(t, c.path, c.to, q) \in Nodes
    BY NodeFacts DEF Moved
  <2> QED BY <2>1, <2>2, <2>3, NodeFacts
<1> QED BY <1>1, <1>2, <1>3, <1>4 DEF FsCalls

\* What a deletion does.
LEMMA RemovedAt ==
  ASSUME WorkspaceAssumption, NEW t \in [Paths -> Nodes], NEW c \in FsCalls
  PROVE  /\ c.call = "unlink" => \A q \in Paths :
              Effect(c, t)[q] = IF q = c.path THEN Absent ELSE t[q]
         /\ c.call = "removeAll" => \A q \in Paths :
              Effect(c, t)[q] = IF IsPrefix(c.path, q) THEN Absent ELSE t[q]
BY SMTT(30), EffectAt

\* What a rename does.
LEMMA RenamedAt ==
  ASSUME WorkspaceAssumption, NEW t \in [Paths -> Nodes], NEW c \in FsCalls,
         c.call = "rename"
  PROVE  /\ Effect(c, t) \in [Paths -> Nodes] /\ c.path \in Paths /\ c.to \in Paths
         /\ \A q \in Paths :
              Effect(c, t)[q] = IF IsPrefix(c.to, q) THEN Moved(t, c.path, c.to, q)
                                ELSE IF IsPrefix(c.path, q) THEN Absent ELSE t[q]
BY SMTT(30), EffectAt

\* A subtree keeps its shape when it is moved.
LEMMA ShiftedPrefix ==
  ASSUME NEW p \in Seq(Nat), NEW to \in Seq(Nat), NEW q \in Seq(Nat), NEW r \in Seq(Nat),
         IsPrefix(to, q), IsPrefix(q, r), q # r
  PROVE  LET f(s) == p \o SubSeq(s, Len(to) + 1, Len(s))
         IN  /\ f(q) \in Seq(Nat) /\ f(r) \in Seq(Nat)
             /\ IsPrefix(f(q), f(r)) /\ f(q) # f(r)
<1> DEFINE f(s) == p \o SubSeq(s, Len(to) + 1, Len(s))
<1>1. /\ Len(p) \in Nat /\ Len(to) \in Nat /\ Len(q) \in Nat /\ Len(r) \in Nat
  OBVIOUS
<1>2. IsPrefix(to, r)
  BY PrefixOrder
<1>3. Len(to) <= Len(q) /\ Len(q) <= Len(r) /\ \A i \in 1..Len(q) : q[i] = r[i]
  BY PrefixAt
<1>4. Len(q) # Len(r)
  BY <1>3, SeqEqual
<1>5. ASSUME NEW s \in Seq(Nat), Len(to) <= Len(s)
      PROVE  /\ f(s) \in Seq(Nat) /\ Len(f(s)) = Len(p) + Len(s) - Len(to)
             /\ \A i \in 1..Len(p) : f(s)[i] = p[i]
             /\ \A i \in (Len(p) + 1)..(Len(p) + Len(s) - Len(to)) :
                  f(s)[i] = s[i - Len(p) + Len(to)]
  <2> DEFINE m == SubSeq(s, Len(to) + 1, Len(s))
  <2>1. m \in Seq(Nat) /\ Len(m) = Len(s) - Len(to)
        /\ \A i \in 1..Len(m) : m[i] = s[i + Len(to)]
    BY <1>1, <1>5
  <2>2. f(s) = p \o m
    OBVIOUS
  <2>3. Len(s) \in Nat
    OBVIOUS
  <2> HIDE DEF f, m
  <2>4. /\ f(s) \in Seq(Nat) /\ Len(f(s)) = Len(p) + Len(s) - Len(to)
        /\ \A i \in 1..Len(p) : f(s)[i] = p[i]
    <3>1. p \o m \in Seq(Nat) /\ Len(p \o m) = Len(p) + Len(m)
      BY <2>1, ConcatProperties
    <3>2. ASSUME NEW i \in 1..Len(p) PROVE (p \o m)[i] = p[i]
      <4>1. i \in 1..(Len(p) + Len(m)) /\ i <= Len(p)
        BY <1>1, <2>1
      <4> QED BY <2>1, <4>1, ConcatProperties
    <3>3. Len(p) + Len(m) = Len(p) + Len(s) - Len(to)
      BY <1>1, <2>1, <2>3
    <3> QED BY <2>2, <3>1, <3>2, <3>3
  <2>5. ASSUME NEW i \in (Len(p) + 1)..(Len(p) + Len(s) - Len(to))
        PROVE  f(s)[i] = s[i - Len(p) + Len(to)]
    <3>1. i - Len(p) \in 1..Len(m)
      BY <1>1, <2>1, <2>3
    <3>2. f(s)[i] = m[i - Len(p)]
      <4>1. i \in (Len(p) + 1)..(Len(p) + Len(m)) /\ i \in 1..(Len(p) + Len(m)) /\ i > Len(p)
        BY <1>1, <2>1, <2>3
      <4>2. (p \o m)[i] = IF i <= Len(p) THEN p[i] ELSE m[i - Len(p)]
        BY <2>1, <4>1, ConcatProperties
      <4> QED BY <1>1, <2>2, <4>1, <4>2
    <3> QED BY <2>1, <3>1, <3>2
  <2> QED BY <2>4, <2>5
<1>6. Len(to) <= Len(r)
  BY <1>1, <1>3
<1>7. f(q) \in Seq(Nat) /\ f(r) \in Seq(Nat)
  BY <1>3, <1>5, <1>6
<1>8. Len(f(q)) < Len(f(r)) /\ Len(f(q)) = Len(p) + Len(q) - Len(to)
  <2>1. Len(f(q)) = Len(p) + Len(q) - Len(to) /\ Len(f(r)) = Len(p) + Len(r) - Len(to)
    BY <1>3, <1>5, <1>6
  <2> HIDE DEF f
  <2> QED BY <1>1, <1>3, <1>4, <2>1
<1>9. ASSUME NEW i \in 1..Len(f(q)) PROVE f(q)[i] = f(r)[i]
  <2>1. CASE i \in 1..Len(p)
    BY <1>3, <1>5, <1>6, <2>1
  <2>2. CASE i \notin 1..Len(p)
    <3>1. /\ i \in (Len(p) + 1)..(Len(p) + Len(q) - Len(to))
          /\ i \in (Len(p) + 1)..(Len(p) + Len(r) - Len(to))
          /\ i - Len(p) + Len(to) \in 1..Len(q)
      <4> HIDE DEF f
      <4>1. i \in Nat /\ i <= Len(p) + Len(q) - Len(to) /\ i > Len(p)
        BY <1>1, <1>3, <1>8, <1>9, <2>2
      <4> QED BY <1>1, <1>3, <4>1
    <3>2. f(q)[i] = q[i - Len(p) + Len(to)] /\ f(r)[i] = r[i - Len(p) + Len(to)]
      BY <1>3, <1>5, <1>6, <3>1
    <3> HIDE DEF f
    <3> QED BY <1>3, <3>1, <3>2
  <2> QED BY <2>1, <2>2
<1>10. IsPrefix(f(q), f(r)) /\ f(q) # f(r)
  <2>1. Len(f(q)) \in Nat /\ Len(f(r)) \in Nat
    <3> HIDE DEF f
    <3> QED BY <1>7
  <2>2. Len(f(q)) <= Len(f(r)) /\ Len(f(q)) # Len(f(r))
    <3> HIDE DEF f
    <3> QED BY <1>8, <2>1
  <2>3. \A i \in 1..Len(f(q)) : f(q)[i] = f(r)[i]
    BY <1>9
  <2> HIDE DEF f
  <2>4. IsPrefix(f(q), f(r))
    BY <1>7, <2>2, <2>3, PrefixAt
  <2> QED BY <2>2, <2>4
<1> QED BY <1>7, <1>10

\* What is put before a moved name makes it no shorter.
LEMMA ShiftedLen ==
  ASSUME NEW p \in Seq(Nat), NEW to \in Seq(Nat), NEW q \in Seq(Nat), IsPrefix(to, q)
  PROVE  Len(p \o SubSeq(q, Len(to) + 1, Len(q))) >= Len(p)
<1>1. Len(p) \in Nat /\ Len(to) \in Nat /\ Len(q) \in Nat
  OBVIOUS
<1>2. Len(to) <= Len(q)
  BY PrefixAt
<1>3. SubSeq(q, Len(to) + 1, Len(q)) \in Seq(Nat)
  BY <1>1, <1>2
<1> DEFINE m == SubSeq(q, Len(to) + 1, Len(q))
<1> HIDE DEF m
<1>4. Len(p \o m) = Len(p) + Len(m) /\ Len(m) \in Nat
  BY <1>3 DEF m
<1> QED BY <1>1, <1>4 DEF m

\* Every call turns a tree into a tree.
LEMMA EffectTree ==
  ASSUME WorkspaceAssumption, NEW t \in [Paths -> Nodes], IsTree(t),
         NEW c \in FsCalls, Works(c, t)
  PROVE  Effect(c, t) \in [Paths -> Nodes] /\ IsTree(Effect(c, t))
<1> DEFINE s == Effect(c, t)
<1>1. s \in [Paths -> Nodes]
  BY EffectAt
<1> SUFFICES ASSUME NEW p \in Paths, s[p] # Absent, NEW q \in Above(p)
             PROVE  s[q] = Dir
  BY <1>1 DEF IsTree
<1>2. q \in Paths /\ IsPrefix(q, p) /\ q # p
  BY UptoPrefix
<1>3. \A r \in Paths : r \in Seq(Nat)
  BY PathFacts
<1>4. t[p] # Absent => t[q] = Dir
  BY DEF IsTree
<1>5. CASE c.call = "mkdir"
  <2>1. c.path \in Paths \cup {<<>>}
    BY EffectAt
  <2>2. \A r \in Paths : s[r] = IF r \in Upto(c.path) THEN Dir ELSE t[r]
    BY <1>5, EffectAt
  <2>3. p \in Upto(c.path) => q \in Upto(c.path)
    BY <2>1, UptoDown
  <2> QED BY <1>2, <1>4, <2>2, <2>3
<1>6. CASE c.call = "put"
  <2>1. c.path \in Paths
    BY <1>6, EffectAt
  <2>2. \A r \in Paths : s[r] = IF r = c.path THEN c.text ELSE t[r]
    BY <1>6, EffectAt
  <2>3. ParentIsDir(t, c.path) /\ t[c.path] # Dir
    BY <1>6 DEF Works
  <2>4. t[q] = Dir
    BY <1>2, <1>4, <2>2, <2>3 DEF ParentIsDir
  <2> QED BY <1>2, <2>2, <2>3, <2>4
<1>7. CASE c.call = "unlink"
  <2>1. c.path \in Paths
    BY <1>7, EffectAt
  <2>2. \A r \in Paths : s[r] = IF r = c.path THEN Absent ELSE t[r]
    BY <1>7, RemovedAt
  <2>3. \A r \in Below(c.path) : t[r] = Absent
    BY <1>7 DEF Works
  <2>4. p # c.path /\ t[p] # Absent
    BY <2>2
  <2>5. q # c.path
    BY <1>2, <2>3, <2>4, BelowPrefix
  <2> QED BY <1>2, <1>4, <2>2, <2>4, <2>5
<1>8. CASE c.call = "removeAll"
  <2>1. c.path \in Paths
    BY <1>8, EffectAt
  <2>2. \A r \in Paths : s[r] = IF IsPrefix(c.path, r) THEN Absent ELSE t[r]
    BY <1>8, RemovedAt
  <2>3. ~IsPrefix(c.path, p) /\ t[p] # Absent
    BY <2>2
  <2>4. ~IsPrefix(c.path, q)
    BY <1>2, <1>3, <2>1, <2>3, PrefixOrder
  <2> QED BY <1>2, <1>4, <2>2, <2>3, <2>4
<1>9. CASE c.call = "rename"
  <2>1. c.path \in Paths /\ c.to \in Paths
    BY <1>9, RenamedAt
  <2>2. \A r \in Paths : s[r] = IF IsPrefix(c.to, r) THEN Moved(t, c.path, c.to, r)
                                ELSE IF IsPrefix(c.path, r) THEN Absent ELSE t[r]
    BY <1>9, RenamedAt
  <2>3. ParentIsDir(t, c.to) /\ ~IsPrefix(c.path, c.to)
    BY <1>9 DEF Works
  <2> HIDE DEF s
  <2>4. CASE IsPrefix(c.to, p) /\ IsPrefix(c.to, q)
    <3> DEFINE f(r) == c.path \o SubSeq(r, Len(c.to) + 1, Len(r))
    <3>1. s[p] = Moved(t, c.path, c.to, p) /\ s[q] = Moved(t, c.path, c.to, q)
      BY <1>2, <2>2, <2>4
    <3>2. /\ f(q) \in Seq(Nat) /\ f(p) \in Seq(Nat)
          /\ IsPrefix(f(q), f(p)) /\ f(q) # f(p)
      BY <1>2, <1>3, <2>1, <2>4, ShiftedPrefix
    <3>3. Moved(t, c.path, c.to, p) = IF f(p) \in Paths THEN t[f(p)] ELSE Absent
      BY DEF Moved
    <3>4. Moved(t, c.path, c.to, q) = IF f(q) \in Paths THEN t[f(q)] ELSE Absent
      BY DEF Moved
    <3> HIDE DEF f
    <3>5. f(p) \in Paths /\ t[f(p)] # Absent
      BY <3>1, <3>3
    <3>6. f(q) \in Paths
      <4>1. Len(f(q)) \in Nat /\ Len(f(p)) \in Nat /\ Len(f(q)) >= 1
        <5>1. Len(c.path) >= 1 /\ Len(c.path) \in Nat
          BY <2>1, PathFacts
        <5>2. Len(f(q)) >= Len(c.path)
          <6>1. c.path \in Seq(Nat) /\ c.to \in Seq(Nat) /\ q \in Seq(Nat)
            BY <1>2, <1>3, <2>1, PathFacts
          <6> QED BY <2>4, <6>1, ShiftedLen DEF f
        <5>3. Len(f(q)) \in Nat /\ Len(f(p)) \in Nat
          BY <3>2
        <5> QED BY <5>1, <5>2, <5>3
      <4>2. f(q) \in Upto(f(p))
        BY <3>2, <3>5, <4>1, PrefixUpto
      <4> QED BY <3>5, <4>2, UptoDown
    <3>7. t[f(q)] = Dir
      BY <3>2, <3>5, <3>6, TreePrefix
    <3> QED BY <3>1, <3>4, <3>6, <3>7
  <2>5. CASE IsPrefix(c.to, p) /\ ~IsPrefix(c.to, q)
    <3>1. IsPrefix(q, c.to) /\ q # c.to
      BY <1>2, <1>3, <2>1, <2>5, PrefixOrder
    <3>2. t[q] = Dir
      BY <1>2, <2>1, <2>3, <3>1, UptoPrefix DEF ParentIsDir
    <3>3. ~IsPrefix(c.path, q)
      BY <1>2, <1>3, <2>1, <2>3, <3>1, PrefixOrder
    <3> QED BY <1>2, <2>2, <2>5, <3>2, <3>3
  <2>6. CASE ~IsPrefix(c.to, p)
    <3>1. ~IsPrefix(c.path, p) /\ s[p] = t[p]
      BY <2>2, <2>6
    <3>2. ~IsPrefix(c.to, q) /\ ~IsPrefix(c.path, q)
      BY <1>2, <1>3, <2>1, <2>6, <3>1, PrefixOrder
    <3> QED BY <1>2, <1>4, <2>2, <3>1, <3>2
  <2> QED BY <2>4, <2>5, <2>6
<1> QED BY <1>5, <1>6, <1>7, <1>8, <1>9, EffectAt

-----------------------------------------------------------------------------
(* Requests                                                                 *)

\* A non-empty set of numbers has a least one.
LEMMA LeastNumber ==
  ASSUME NEW T \in SUBSET Nat, T # {}
  PROVE  \E x \in T : \A y \in T : x <= y
<1> DEFINE R == OpToRel(<, Nat)
<1>1. IsWellFoundedOn(R, Nat)
  BY NatLessThanWellFounded
<1>2. \E x \in T : \A y \in T : ~ (<<y, x>> \in R)
  <2> HIDE DEF R
  <2> QED BY <1>1, WFMin
<1>3. PICK x \in T : \A y \in T : ~ (<<y, x>> \in R)
  BY <1>2
<1>4. ASSUME NEW y \in T PROVE x <= y
  <2>1. ~ (y < x)
    <3> SUFFICES ASSUME y < x PROVE FALSE
      OBVIOUS
    <3>1. <<y, x>> \in R
      BY DEF OpToRel
    <3> QED BY <3>1, <1>3
  <2> QED BY <2>1
<1> QED BY <1>3, <1>4

\* Sequences of S put one after the other are a sequence of S.
LEMMA FlattenType ==
  ASSUME NEW S, NEW ss \in Seq(Seq(S)), ss # <<>>
  PROVE  FlattenSeq(ss) \in Seq(S)
<1> DEFINE N == Len(ss)
           Flat(f, n) == f = [i \in 1..n |-> IF i = 1 THEN ss[i] ELSE f[i - 1] \o ss[i]]
<1>1. N \in Nat /\ N >= 1 /\ \A i \in 1..N : ss[i] \in Seq(S)
  OBVIOUS
<1>2. \A n \in 1..N : \E f : Flat(f, n)
  <2> DEFINE T == {n \in 1..N : ~ \E f : Flat(f, n)}
  <2> SUFFICES ASSUME T # {} PROVE FALSE
    OBVIOUS
  <2>1. T \subseteq Nat
    <3>1. T \subseteq 1..N
      OBVIOUS
    <3>2. 1..N \subseteq Nat
      OBVIOUS
    <3> HIDE DEF T
    <3> QED BY <3>1, <3>2
  <2>2. PICK m \in T : \A y \in T : m <= y
    <3> HIDE DEF T
    <3> QED BY <2>1, LeastNumber
  <2>3. m \in 1..N /\ ~ \E f : Flat(f, m)
    OBVIOUS
  <2>4. CASE m = 1
    <3>1. Flat([i \in 1..1 |-> ss[i]], 1)
      OBVIOUS
    <3> HIDE DEF Flat
    <3> QED BY <2>3, <2>4, <3>1
  <2>5. CASE m # 1
    <3>1. m - 1 \in 1..N /\ ~(m <= m - 1)
      BY <1>1, <2>3, <2>5
    <3>2. m - 1 \notin T
      <4> HIDE DEF T
      <4> QED BY <2>2, <3>1
    <3>3. PICK f : Flat(f, m - 1)
      BY <3>1, <3>2
    <3> DEFINE g == [i \in 1..m |-> IF i = m THEN f[m - 1] \o ss[m] ELSE f[i]]
    <3>4. \A i \in 1..m : g[i] = IF i = 1 THEN ss[i] ELSE g[i - 1] \o ss[i]
      <4> SUFFICES ASSUME NEW i \in 1..m
                   PROVE  g[i] = IF i = 1 THEN ss[i] ELSE g[i - 1] \o ss[i]
        OBVIOUS
      <4>1. CASE i = m
        <5>1. m - 1 \in 1..m /\ m - 1 # m /\ i # 1
          BY <2>3, <2>5, <4>1
        <5>2. g[i] = f[m - 1] \o ss[m] /\ g[m - 1] = f[m - 1]
          BY <4>1, <5>1
        <5> HIDE DEF g
        <5> QED BY <4>1, <5>1, <5>2
      <4>2. CASE i # m
        <5>1. i \in 1..(m - 1)
          BY <2>3, <4>2
        <5>2. f[i] = IF i = 1 THEN ss[i] ELSE f[i - 1] \o ss[i]
          BY <3>3, <5>1
        <5>3. g[i] = f[i]
          BY <4>2
        <5>4. i # 1 => g[i - 1] = f[i - 1]
          BY <2>3, <5>1
        <5> HIDE DEF g
        <5> QED BY <5>2, <5>3, <5>4
      <4> QED BY <4>1, <4>2
    <3>5. g = [i \in 1..m |-> g[i]]
      OBVIOUS
    <3>6. Flat(g, m)
      <4> HIDE DEF g
      <4> QED BY <3>4, <3>5
    <3> HIDE DEF Flat
    <3> QED BY <2>3, <3>6
  <2> QED BY <2>4, <2>5
<1> DEFINE F == CHOOSE f : Flat(f, N)
<1>3. Flat(F, N)
  <2>1. \E f : Flat(f, N)
    <3> HIDE DEF Flat, N
    <3>1. N \in 1..N
      BY <1>1
    <3> QED BY <1>2, <3>1
  <2> HIDE DEF Flat
  <2> QED BY <2>1
<1>4. FlattenSeq(ss) = F[N]
  BY <1>1 DEF FlattenSeq
<1>5. \A i \in 1..N : F[i] \in Seq(S)
  <2> DEFINE T == {i \in 1..N : F[i] \notin Seq(S)}
  <2> SUFFICES ASSUME T # {} PROVE FALSE
    OBVIOUS
  <2>1. T \subseteq Nat
    <3>1. T \subseteq 1..N
      OBVIOUS
    <3>2. 1..N \subseteq Nat
      OBVIOUS
    <3> HIDE DEF T
    <3> QED BY <3>1, <3>2
  <2>2. PICK m \in T : \A y \in T : m <= y
    <3> HIDE DEF T
    <3> QED BY <2>1, LeastNumber
  <2>3. m \in 1..N /\ F[m] \notin Seq(S)
    OBVIOUS
  <2>4. F[m] = IF m = 1 THEN ss[m] ELSE F[m - 1] \o ss[m]
    <3> HIDE DEF F
    <3> QED BY <1>3, <2>3
  <2>5. m # 1
    <3> HIDE DEF F
    <3> QED BY <1>1, <2>3, <2>4
  <2>6. m - 1 \in 1..N /\ ~(m <= m - 1)
    BY <1>1, <2>3, <2>5
  <2>7. F[m - 1] \in Seq(S)
    <3>1. m - 1 \notin T
      <4> HIDE DEF T
      <4> QED BY <2>2, <2>6
    <3> HIDE DEF F
    <3> QED BY <2>6, <3>1
  <2>8. F[m - 1] \o ss[m] \in Seq(S)
    <3> HIDE DEF F
    <3> QED BY <1>1, <2>3, <2>7, ConcatProperties
  <2> QED BY <2>3, <2>4, <2>5, <2>8
<1>6. N \in 1..N
  <2> HIDE DEF N
  <2> QED BY <1>1
<1> HIDE DEF F, N
<1> QED BY <1>4, <1>5, <1>6

\* The fields of each kind of request, and the paths it names.
LEMMA RequestKinds ==
  ASSUME WorkspaceAssumption, NEW r \in Changes
  PROVE  /\ r.do \in {"write", "edit", "delete", "move", "patch"}
         /\ r.do # "patch" => r.path \in Paths
         /\ r.do = "write" => r.text \in Texts /\ Named(r) = {r.path}
         /\ r.do = "edit" => r.mark \in Marks /\ Named(r) = {r.path}
         /\ r.do = "delete" => r.recursive \in BOOLEAN /\ Named(r) = {r.path}
         /\ r.do = "move" => r.to \in Paths /\ r.overwrite \in BOOLEAN /\ Named(r) = {r.path, r.to}
         /\ r.do = "patch" => /\ r.ops \in Seq(PatchOps) /\ r.ops # <<>>
                              /\ Named(r) = {r.ops[i].path : i \in DOMAIN r.ops}
         /\ Named(r) \subseteq Paths /\ Named(r) # {}
<1>1. r \in Request
  BY DEF WorkspaceAssumption
<1>2. CASE r \in [do : {"write"}, path : Paths, text : Texts]
  BY <1>2 DEF Named
<1>3. CASE r \in [do : {"edit"}, path : Paths, mark : Marks]
  BY <1>3 DEF Named
<1>4. CASE r \in [do : {"delete"}, path : Paths, recursive : BOOLEAN]
  BY <1>4 DEF Named
<1>5. CASE r \in [do : {"move"}, path : Paths, to : Paths, overwrite : BOOLEAN]
  BY <1>5 DEF Named
<1>6. CASE r \in [do : {"patch"}, ops : Seq(PatchOps) \ {<<>>}]
  <2>1. r.do = "patch" /\ r.ops \in Seq(PatchOps) /\ r.ops # <<>>
    BY <1>6
  <2>2. Named(r) = {r.ops[i].path : i \in DOMAIN r.ops}
    BY <2>1 DEF Named
  <2>3. \A op \in PatchOps : op.path \in Paths
    BY DEF PatchOps
  <2>4. \A i \in DOMAIN r.ops : r.ops[i] \in PatchOps
    BY <2>1
  <2>5. 1 \in DOMAIN r.ops
    <3>1. DOMAIN r.ops = 1..Len(r.ops) /\ Len(r.ops) \in Nat /\ Len(r.ops) # 0
      BY <2>1
    <3> QED BY <3>1
  <2>6. Named(r) \subseteq Paths
    BY <2>2, <2>3, <2>4
  <2>7. r.ops[1].path \in Named(r)
    BY <2>2, <2>5
  <2> QED BY <2>1, <2>2, <2>6, <2>7
<1> QED BY <1>1, <1>2, <1>3, <1>4, <1>5, <1>6 DEF Request

\* The calls of the model, one by one.
LEMMA CallFields ==
  ASSUME WorkspaceAssumption, NEW p \in Paths, NEW to \in Paths, NEW text \in Texts
  PROVE  /\ Mkdir(Parent(p)) \in FsCalls /\ Mkdir(Parent(p)).call = "mkdir"
         /\ Mkdir(Parent(p)).path = Parent(p)
         /\ Mkdir(p) \in FsCalls /\ Mkdir(p).call = "mkdir" /\ Mkdir(p).path = p
         /\ Put(p, text) \in FsCalls /\ Put(p, text).call = "put"
         /\ Put(p, text).path = p /\ Put(p, text).text = text
         /\ Unlink(p) \in FsCalls /\ Unlink(p).call = "unlink" /\ Unlink(p).path = p
         /\ RemoveAll(p) \in FsCalls /\ RemoveAll(p).call = "removeAll" /\ RemoveAll(p).path = p
         /\ Rename(p, to) \in FsCalls /\ Rename(p, to).call = "rename"
         /\ Rename(p, to).path = p /\ Rename(p, to).to = to
<1>1. Parent(p) \in Paths \cup {<<>>}
  BY UptoParent
<1>2. Mkdir(Parent(p)) \in [call : {"mkdir"}, path : Paths \cup {<<>>}]
  BY <1>1 DEF Mkdir
<1>3. Mkdir(p) \in [call : {"mkdir"}, path : Paths \cup {<<>>}]
  BY DEF Mkdir
<1>4. Put(p, text) \in [call : {"put"}, path : Paths, text : Texts]
  BY DEF Put
<1>5. /\ Unlink(p) \in [call : {"unlink", "removeAll"}, path : Paths]
      /\ RemoveAll(p) \in [call : {"unlink", "removeAll"}, path : Paths]
  BY DEF Unlink, RemoveAll
<1>6. Rename(p, to) \in [call : {"rename"}, path : Paths, to : Paths]
  BY DEF Rename
<1>7. /\ Mkdir(Parent(p)).call = "mkdir" /\ Mkdir(Parent(p)).path = Parent(p)
      /\ Mkdir(p).call = "mkdir" /\ Mkdir(p).path = p
  BY DEF Mkdir
<1>8. Put(p, text).call = "put" /\ Put(p, text).path = p /\ Put(p, text).text = text
  BY DEF Put
<1>9. /\ Unlink(p).call = "unlink" /\ Unlink(p).path = p
      /\ RemoveAll(p).call = "removeAll" /\ RemoveAll(p).path = p
  BY DEF Unlink, RemoveAll
<1>10. Rename(p, to).call = "rename" /\ Rename(p, to).path = p /\ Rename(p, to).to = to
  BY DEF Rename
<1> QED BY <1>2, <1>3, <1>4, <1>5, <1>6, <1>7, <1>8, <1>9, <1>10 DEF FsCalls

\* What a request does, it does to the paths it names.
LEMMA OwnCalls ==
  ASSUME WorkspaceAssumption, NEW t \in [Paths -> Nodes], NEW r \in Changes, Accepted(r, t)
  PROVE  /\ Calls(r, t) \in Seq(FsCalls)
         /\ \A i \in DOMAIN Calls(r, t) : OwnCall(Calls(r, t)[i], r, t)
<1> DEFINE S == {c \in FsCalls : OwnCall(c, r, t)}
<1>1. SUFFICES Calls(r, t) \in Seq(S)
  <2>1. \A s \in Seq(S) : s \in Seq(FsCalls) /\ \A i \in DOMAIN s : s[i] \in S
    OBVIOUS
  <2>2. \A c \in S : OwnCall(c, r, t)
    OBVIOUS
  <2> HIDE DEF S
  <2> QED BY <1>1, <2>1, <2>2
<1>2. \A a, b \in S : <<>> \in Seq(S) /\ <<a>> \in Seq(S) /\ <<a, b>> \in Seq(S)
  <2> HIDE DEF S
  <2> QED OBVIOUS
<1>3. ASSUME NEW p \in Named(r), NEW text \in Texts, r.do \in {"write", "edit", "patch"}
      PROVE  WriteCalls(p, text) \in Seq(S)
  <2>1. p \in Paths
    BY RequestKinds
  <2>2. /\ Mkdir(Parent(p)) \in FsCalls /\ Mkdir(Parent(p)).call = "mkdir"
        /\ Mkdir(Parent(p)).path = Parent(p)
        /\ Put(p, text) \in FsCalls /\ Put(p, text).call = "put" /\ Put(p, text).path = p
    BY <2>1, CallFields
  <2>3. OwnCall(Mkdir(Parent(p)), r, t) /\ OwnCall(Put(p, text), r, t)
    BY <1>3, <2>2 DEF OwnCall
  <2>4. Mkdir(Parent(p)) \in S /\ Put(p, text) \in S
    BY <2>2, <2>3
  <2> HIDE DEF S
  <2> QED BY <1>2, <2>4 DEF WriteCalls
<1>4. ASSUME NEW p \in Paths, NEW mark \in Marks, CanEdit(t, p, mark)
      PROVE  t[p] \cup {mark} \in Texts
  <2>1. t[p] \in Texts
    BY <1>4, NodeFacts DEF CanEdit, IsFile
  <2> QED BY <2>1 DEF Texts
<1>5. CASE r.do = "write"
  <2>1. Calls(r, t) = WriteCalls(r.path, r.text)
    BY <1>5 DEF Calls
  <2> QED BY <1>3, <1>5, <2>1, RequestKinds
<1>6. CASE r.do = "edit"
  <2>1. Calls(r, t) = WriteCalls(r.path, t[r.path] \cup {r.mark})
    BY <1>6 DEF Calls
  <2>2. CanEdit(t, r.path, r.mark)
    BY <1>6 DEF Accepted
  <2>3. t[r.path] \cup {r.mark} \in Texts
    BY <1>4, <1>6, <2>2, RequestKinds
  <2> QED BY <1>3, <1>6, <2>1, <2>3, RequestKinds
<1>7. CASE r.do = "delete"
  <2>1. Calls(r, t) = <<IF r.recursive THEN RemoveAll(r.path) ELSE Unlink(r.path)>>
    BY <1>7 DEF Calls
  <2>2. r.path \in Paths /\ r.path \in Named(r)
    BY <1>7, RequestKinds
  <2>3. /\ RemoveAll(r.path) \in FsCalls /\ RemoveAll(r.path).call = "removeAll"
        /\ RemoveAll(r.path).path = r.path
        /\ Unlink(r.path) \in FsCalls /\ Unlink(r.path).call = "unlink"
        /\ Unlink(r.path).path = r.path
    BY <2>2, CallFields, NodeFacts
  <2>4. OwnCall(RemoveAll(r.path), r, t) /\ OwnCall(Unlink(r.path), r, t)
    BY <1>7, <2>2, <2>3 DEF OwnCall
  <2>5. RemoveAll(r.path) \in S /\ Unlink(r.path) \in S
    BY <2>3, <2>4
  <2> HIDE DEF S
  <2> QED BY <1>2, <2>1, <2>5
<1>8. CASE r.do = "move"
  <2>1. r.path \in Paths /\ r.to \in Paths /\ r.to \in Named(r)
    BY <1>8, RequestKinds
  <2>2. Calls(r, t) = MoveCalls(r, t)
    BY <1>8 DEF Calls
  <2>3. CASE r.path = r.to
    <3>1. Calls(r, t) = <<>>
      BY <2>2, <2>3 DEF MoveCalls
    <3> HIDE DEF S
    <3> QED BY <3>1
  <2>4. CASE r.path # r.to
    <3>1. t[r.to] # Absent => r.overwrite
      BY <1>8, <2>4 DEF Accepted
    <3>2. /\ RemoveAll(r.to) \in FsCalls /\ RemoveAll(r.to).call = "removeAll"
          /\ RemoveAll(r.to).path = r.to
          /\ Mkdir(Parent(r.to)) \in FsCalls /\ Mkdir(Parent(r.to)).call = "mkdir"
          /\ Mkdir(Parent(r.to)).path = Parent(r.to)
          /\ Rename(r.path, r.to) \in FsCalls /\ Rename(r.path, r.to).call = "rename"
          /\ Rename(r.path, r.to).path = r.path /\ Rename(r.path, r.to).to = r.to
      <4>1. RemoveAll(r.to) \in FsCalls /\ RemoveAll(r.to).call = "removeAll"
            /\ RemoveAll(r.to).path = r.to
        BY SMTT(30), <2>1, CallFields, NodeFacts
      <4>2. Mkdir(Parent(r.to)) \in FsCalls /\ Mkdir(Parent(r.to)).call = "mkdir"
            /\ Mkdir(Parent(r.to)).path = Parent(r.to)
        BY SMTT(30), <2>1, CallFields, NodeFacts
      <4>3. Rename(r.path, r.to) \in FsCalls /\ Rename(r.path, r.to).call = "rename"
            /\ Rename(r.path, r.to).path = r.path /\ Rename(r.path, r.to).to = r.to
        BY SMTT(30), <2>1, CallFields, NodeFacts
      <4> QED BY <4>1, <4>2, <4>3
    <3>3. OwnCall(Mkdir(Parent(r.to)), r, t) /\ OwnCall(Rename(r.path, r.to), r, t)
      BY <1>8, <2>1, <3>1, <3>2 DEF OwnCall
    <3>4. t[r.to] # Absent => OwnCall(RemoveAll(r.to), r, t)
      BY <1>8, <2>1, <3>1, <3>2 DEF OwnCall
    <3> DEFINE first == IF t[r.to] # Absent THEN <<RemoveAll(r.to)>> ELSE <<>>
               rest == <<Mkdir(Parent(r.to)), Rename(r.path, r.to)>>
    <3>5. first \in Seq(S) /\ rest \in Seq(S)
      <4>1. /\ Mkdir(Parent(r.to)) \in S /\ Rename(r.path, r.to) \in S
            /\ t[r.to] # Absent => RemoveAll(r.to) \in S
        BY <3>2, <3>3, <3>4
      <4> HIDE DEF S
      <4> QED BY <1>2, <4>1
    <3>6. Calls(r, t) = first \o rest
      BY <2>2, <2>4 DEF MoveCalls
    <3> HIDE DEF S, first, rest
    <3> QED BY <3>5, <3>6
  <2> QED BY <2>3, <2>4
<1>9. CASE r.do = "patch"
  <2> DEFINE ss == [i \in DOMAIN r.ops |-> PatchCalls(r.ops[i], t)]
  <2>1. r.ops \in Seq(PatchOps) /\ r.ops # <<>> /\ Named(r) = {r.ops[i].path : i \in DOMAIN r.ops}
    BY <1>9, RequestKinds
  <2>2. ASSUME NEW i \in DOMAIN r.ops PROVE PatchCalls(r.ops[i], t) \in Seq(S)
    <3> DEFINE op == r.ops[i]
    <3>1. op \in PatchOps /\ op.path \in Named(r) /\ op.path \in Paths
      BY <2>1, RequestKinds
    <3>2. /\ op.do = "update" => CanEdit(t, op.path, op.mark)
      BY <1>9 DEF Accepted
    <3> HIDE DEF op, S
    <3>3. CASE op \in [do : {"add"}, path : Paths, text : Texts]
      <4>1. op.do = "add" /\ op.text \in Texts
        BY <3>3
      <4>2. PatchCalls(op, t) = WriteCalls(op.path, op.text)
        BY <4>1 DEF PatchCalls
      <4> QED BY <1>3, <1>9, <3>1, <4>1, <4>2 DEF op
    <3>4. CASE op \in [do : {"update"}, path : Paths, mark : Marks]
      <4>1. op.do = "update" /\ op.mark \in Marks
        BY <3>4
      <4>2. PatchCalls(op, t) = WriteCalls(op.path, t[op.path] \cup {op.mark})
        BY <4>1 DEF PatchCalls
      <4>3. t[op.path] \cup {op.mark} \in Texts
        BY <1>4, <3>1, <3>2, <4>1
      <4> QED BY <1>3, <1>9, <3>1, <4>2, <4>3 DEF op
    <3>5. CASE op \in [do : {"delete"}, path : Paths]
      <4>1. op.do = "delete"
        BY <3>5
      <4>2. PatchCalls(op, t) = <<Unlink(op.path)>>
        BY <4>1 DEF PatchCalls
      <4>3. Unlink(op.path) \in FsCalls /\ Unlink(op.path).call = "unlink"
            /\ Unlink(op.path).path = op.path
        BY <3>1, CallFields, NodeFacts
      <4>4. OwnCall(Unlink(op.path), r, t)
        BY <1>9, <3>1, <4>3 DEF OwnCall
      <4>5. Unlink(op.path) \in S
        BY <4>3, <4>4 DEF S
      <4> QED BY <1>2, <4>2, <4>5 DEF op
    <3> QED BY <3>1, <3>3, <3>4, <3>5 DEF PatchOps
  <2>3. ss \in Seq(Seq(S)) /\ ss # <<>>
    <3>1. /\ \A i \in DOMAIN r.ops : ss[i] \in Seq(S)
          /\ DOMAIN ss = DOMAIN r.ops
      BY <2>2
    <3>2. DOMAIN r.ops = 1..Len(r.ops) /\ Len(r.ops) \in Nat /\ Len(r.ops) >= 1
      BY <2>1
    <3>3. ss \in [1..Len(r.ops) -> Seq(S)]
      <4> HIDE DEF S
      <4> QED BY <2>2, <3>2
    <3> HIDE DEF ss, S
    <3>4. ss \in Seq(Seq(S))
      <4> DEFINE T == Seq(S)
                 k == Len(r.ops)
      <4>1. k \in Nat /\ ss \in [1..k -> T]
        BY <3>2, <3>3
      <4> HIDE DEF T, k
      <4>2. ss \in Seq(T)
        BY <4>1
      <4> QED BY <4>2 DEF T
    <3>5. Len(ss) = Len(r.ops)
      BY <3>1, <3>2, <3>4
    <3> QED BY <3>2, <3>4, <3>5
  <2>4. Calls(r, t) = FlattenSeq(ss)
    BY <1>9 DEF Calls
  <2> HIDE DEF ss, S
  <2> QED BY <2>3, <2>4, FlattenType
<1> QED BY <1>5, <1>6, <1>7, <1>8, <1>9, RequestKinds

-----------------------------------------------------------------------------
(* The order of a checkpoint's entries                                      *)

\* Two sequences that begin alike, position by position.
LEMMA SameStart ==
  ASSUME NEW p \in Seq(Nat), NEW q \in Seq(Nat), NEW n \in Nat, n <= Len(p), n <= Len(q)
  PROVE  SubSeq(p, 1, n) = SubSeq(q, 1, n) <=> \A i \in 1..n : p[i] = q[i]
<1>1. /\ SubSeq(p, 1, n) = [i \in 1..n |-> p[i]]
      /\ SubSeq(q, 1, n) = [i \in 1..n |-> q[i]]
  OBVIOUS
<1> QED BY <1>1

\* Where two paths first differ.
Differ(p, q, n) ==
  /\ n \in Nat /\ 1 <= n /\ n <= Len(p) /\ n <= Len(q) /\ p[n] < q[n]
  /\ \A i \in Nat : 1 <= i /\ i < n => p[i] = q[i]

\* Numbers are ordered.
LEMMA LessTransitive ==
  \A x, y, z \in Nat : x < y /\ y < z => x < z
OBVIOUS

\* One path comes before another by the first name in which they differ.
LEMMA BeforeAt ==
  ASSUME NEW p \in Seq(Nat), NEW q \in Seq(Nat)
  PROVE  Before(p, q) <=> (IsPrefix(p, q) /\ p # q) \/ \E n \in Nat : Differ(p, q, n)
<1>1. Len(p) \in Nat /\ Len(q) \in Nat
  OBVIOUS
<1>2. DOMAIN p = 1..Len(p) /\ DOMAIN q = 1..Len(q)
  OBVIOUS
<1>3. ASSUME NEW n \in DOMAIN p \cap DOMAIN q
      PROVE  /\ n \in Nat /\ 1 <= n /\ n <= Len(p) /\ n <= Len(q)
             /\ SubSeq(p, 1, n - 1) = SubSeq(q, 1, n - 1)
                  <=> \A i \in Nat : 1 <= i /\ i < n => p[i] = q[i]
  <2>1. n \in Nat /\ 1 <= n /\ n <= Len(p) /\ n <= Len(q) /\ n - 1 \in Nat
    BY <1>1, <1>2
  <2>2. SubSeq(p, 1, n - 1) = SubSeq(q, 1, n - 1) <=> \A i \in 1..(n - 1) : p[i] = q[i]
    <3>1. n - 1 <= Len(p) /\ n - 1 <= Len(q)
      BY <1>1, <2>1
    <3> QED BY <2>1, <3>1, SameStart
  <2>3. \A i : i \in 1..(n - 1) <=> i \in Nat /\ 1 <= i /\ i < n
    BY <2>1
  <2> QED BY <2>1, <2>2, <2>3
<1>4. ASSUME NEW n \in Nat, Differ(p, q, n) PROVE n \in DOMAIN p \cap DOMAIN q
  BY <1>1, <1>2, <1>4 DEF Differ
<1>5. (\E n \in DOMAIN p \cap DOMAIN q : p[n] < q[n] /\ SubSeq(p, 1, n - 1) = SubSeq(q, 1, n - 1))
        <=> \E n \in Nat : Differ(p, q, n)
  <2>1. ASSUME NEW n \in DOMAIN p \cap DOMAIN q, p[n] < q[n],
               SubSeq(p, 1, n - 1) = SubSeq(q, 1, n - 1)
        PROVE  n \in Nat /\ Differ(p, q, n)
    BY <1>3, <2>1 DEF Differ
  <2>2. ASSUME NEW n \in Nat, Differ(p, q, n)
        PROVE  p[n] < q[n] /\ SubSeq(p, 1, n - 1) = SubSeq(q, 1, n - 1)
    BY <1>3, <1>4, <2>2 DEF Differ
  <2> QED BY <1>4, <2>1, <2>2
<1> QED BY <1>5 DEF Before, IsStrictPrefix

\* Any two paths are ordered.
LEMMA BeforeTotal ==
  ASSUME NEW p \in Seq(Nat), NEW q \in Seq(Nat), p # q
  PROVE  Before(p, q) \/ Before(q, p)
<1>1. Len(p) \in Nat /\ Len(q) \in Nat
  OBVIOUS
<1>2. CASE IsPrefix(p, q) \/ IsPrefix(q, p)
  BY <1>2, BeforeAt
<1>3. CASE ~IsPrefix(p, q) /\ ~IsPrefix(q, p)
  <2> DEFINE T == {n \in Nat : 1 <= n /\ n <= Len(p) /\ n <= Len(q) /\ p[n] # q[n]}
  <2>1. T # {}
    <3>1. CASE Len(p) <= Len(q)
      <4>1. PICK i \in 1..Len(p) : p[i] # q[i]
        BY <1>3, <3>1, PrefixAt
      <4>2. i \in T
        BY <1>1, <3>1, <4>1
      <4> QED BY <4>2
    <3>2. CASE Len(q) <= Len(p)
      <4>1. PICK i \in 1..Len(q) : q[i] # p[i]
        BY <1>3, <3>2, PrefixAt
      <4>2. i \in T
        BY <1>1, <3>2, <4>1
      <4> QED BY <4>2
    <3> QED BY <1>1, <3>1, <3>2
  <2>2. PICK n \in T : \A m \in T : n <= m
    <3>1. T \subseteq Nat
      OBVIOUS
    <3> HIDE DEF T
    <3> QED BY <2>1, <3>1, LeastNumber
  <2>3. n \in Nat /\ 1 <= n /\ n <= Len(p) /\ n <= Len(q) /\ p[n] # q[n]
    OBVIOUS
  <2>4. \A i \in Nat : 1 <= i /\ i < n => p[i] = q[i]
    <3> SUFFICES ASSUME NEW i \in Nat, 1 <= i, i < n, p[i] # q[i] PROVE FALSE
      OBVIOUS
    <3>1. i \in T
      BY <1>1, <2>3
    <3>2. n <= i
      <4> HIDE DEF T
      <4> QED BY <2>2, <3>1
    <3> QED BY <2>3, <3>2
  <2>5. p[n] \in Nat /\ q[n] \in Nat
    BY <1>1, <2>3
  <2>6. Differ(p, q, n) \/ Differ(q, p, n)
    <3>1. p[n] < q[n] \/ q[n] < p[n]
      BY <2>3, <2>5
    <3> QED BY <2>3, <2>4, <3>1 DEF Differ
  <2> QED BY <2>3, <2>6, BeforeAt
<1> QED BY <1>2, <1>3

\* Coming before is transitive.
LEMMA BeforeTransitive ==
  ASSUME NEW p \in Seq(Nat), NEW q \in Seq(Nat), NEW r \in Seq(Nat),
         Before(p, q), Before(q, r)
  PROVE  Before(p, r)
<1>1. Len(p) \in Nat /\ Len(q) \in Nat /\ Len(r) \in Nat
  OBVIOUS
<1>2. CASE IsPrefix(p, q) /\ p # q /\ IsPrefix(q, r) /\ q # r
  <2>1. IsPrefix(p, r) /\ p # r
    BY <1>2, PrefixOrder
  <2> QED BY <2>1, BeforeAt
<1>3. ASSUME IsPrefix(p, q), NEW n \in Nat, Differ(q, r, n) PROVE Before(p, r)
  <2>1. /\ Len(p) <= Len(q)
        /\ \A i \in Nat : 1 <= i /\ i <= Len(p) => p[i] = q[i]
    <3>1. \A i \in Nat : 1 <= i /\ i <= Len(p) => i \in 1..Len(p)
      BY <1>1
    <3> QED BY <1>3, <3>1, PrefixAt
  <2>2. CASE n <= Len(p)
    <3>1. p[n] = q[n] /\ \A i \in Nat : 1 <= i /\ i < n => p[i] = r[i]
      BY <1>1, <1>3, <2>1, <2>2 DEF Differ
    <3>2. Differ(p, r, n)
      BY <1>3, <2>2, <3>1 DEF Differ
    <3> QED BY <3>2, BeforeAt
  <2>3. CASE ~(n <= Len(p))
    <3>1. Len(p) < n /\ n <= Len(r)
      BY <1>1, <1>3, <2>3 DEF Differ
    <3>2. \A i \in 1..Len(p) : p[i] = r[i]
      <4> SUFFICES ASSUME NEW i \in 1..Len(p) PROVE p[i] = r[i]
        OBVIOUS
      <4>1. i \in Nat /\ 1 <= i /\ i <= Len(p) /\ i < n
        BY <1>1, <3>1
      <4> QED BY <1>3, <2>1, <4>1 DEF Differ
    <3>3. Len(p) <= Len(r) /\ Len(p) # Len(r)
      BY <1>1, <1>3, <3>1
    <3>4. IsPrefix(p, r) /\ p # r
      BY <3>2, <3>3, PrefixAt
    <3> QED BY <3>4, BeforeAt
  <2> QED BY <2>2, <2>3
<1>4. ASSUME NEW n \in Nat, Differ(p, q, n), IsPrefix(q, r) PROVE Before(p, r)
  <2>1. /\ Len(q) <= Len(r)
        /\ \A i \in Nat : 1 <= i /\ i <= Len(q) => q[i] = r[i]
    <3>1. \A i \in Nat : 1 <= i /\ i <= Len(q) => i \in 1..Len(q)
      BY <1>1
    <3> QED BY <1>4, <3>1, PrefixAt
  <2>2. /\ n \in Nat /\ 1 <= n /\ n <= Len(p) /\ n <= Len(q) /\ p[n] < q[n]
        /\ \A i \in Nat : 1 <= i /\ i < n => p[i] = q[i]
    BY <1>4 DEF Differ
  <2>4. q[n] = r[n] /\ n <= Len(r)
    BY <1>1, <2>1, <2>2
  <2>5. ASSUME NEW i \in Nat, 1 <= i, i < n PROVE p[i] = r[i]
    <3>1. p[i] = q[i]
      BY <2>2, <2>5
    <3>2. i <= Len(q)
      BY <1>1, <2>2, <2>5
    <3> QED BY <2>1, <2>5, <3>1, <3>2
  <2>3. Differ(p, r, n)
    BY <2>2, <2>4, <2>5 DEF Differ
  <2> QED BY <2>3, BeforeAt
<1>5. ASSUME NEW n \in Nat, Differ(p, q, n), NEW m \in Nat, Differ(q, r, m)
      PROVE  Before(p, r)
  <2>0. /\ n \in 1..Len(p) /\ n \in 1..Len(q) /\ m \in 1..Len(q) /\ m \in 1..Len(r)
        /\ p[n] < q[n] /\ q[m] < r[m]
        /\ \A i \in Nat : 1 <= i /\ i < n => p[i] = q[i]
        /\ \A i \in Nat : 1 <= i /\ i < m => q[i] = r[i]
    BY <1>1, <1>5 DEF Differ
  <2>1. p[n] \in Nat /\ q[n] \in Nat /\ q[m] \in Nat /\ r[m] \in Nat
    <3>1. \A s \in Seq(Nat) : \A i \in 1..Len(s) : s[i] \in Nat
      OBVIOUS
    <3> QED BY <2>0, <3>1
  <2>2. CASE n < m
    <3>1. q[n] = r[n] /\ n <= Len(r) /\ 1 <= n /\ n <= Len(p)
      BY <1>1, <1>5, <2>0, <2>2
    <3>2. \A i \in Nat : 1 <= i /\ i < n => p[i] = r[i]
      <4> SUFFICES ASSUME NEW i \in Nat, 1 <= i, i < n PROVE p[i] = r[i]
        OBVIOUS
      <4>1. i < m
        BY <1>5, <2>2
      <4> QED BY <2>0, <4>1
    <3>3. Differ(p, r, n)
      BY <1>5, <2>0, <3>1, <3>2 DEF Differ
    <3> QED BY <3>3, BeforeAt
  <2>3. CASE m < n
    <3>1. p[m] = q[m] /\ m <= Len(p) /\ 1 <= m /\ m <= Len(r)
      BY <1>1, <1>5, <2>0, <2>3
    <3>2. \A i \in Nat : 1 <= i /\ i < m => p[i] = r[i]
      <4> SUFFICES ASSUME NEW i \in Nat, 1 <= i, i < m PROVE p[i] = r[i]
        OBVIOUS
      <4>1. i < n
        BY <1>5, <2>3
      <4> QED BY <2>0, <4>1
    <3>3. Differ(p, r, m)
      BY <1>5, <2>0, <3>1, <3>2 DEF Differ
    <3> QED BY <3>3, BeforeAt
  <2>4. CASE m = n
    <3>1. p[n] < r[n]
      <4>1. p[n] \in Nat /\ q[n] \in Nat /\ r[n] \in Nat
        BY <2>1, <2>4
      <4>2. p[n] < q[n] /\ q[n] < r[n]
        BY <2>0, <2>4
      <4> QED BY <4>1, <4>2, LessTransitive
    <3>2. \A i \in Nat : 1 <= i /\ i < n => p[i] = r[i]
      <4> SUFFICES ASSUME NEW i \in Nat, 1 <= i, i < n PROVE p[i] = r[i]
        OBVIOUS
      <4>1. p[i] = q[i]
        BY <2>0
      <4>2. q[i] = r[i]
        BY <2>0, <2>4
      <4> QED BY <4>1, <4>2
    <3>3. n \in 1..Len(p) /\ n \in 1..Len(r)
      BY <2>0, <2>4
    <3>4. Differ(p, r, n)
      BY <3>1, <3>2, <3>3 DEF Differ
    <3> QED BY <3>4, BeforeAt
  <2> QED BY <2>2, <2>3, <2>4
<1> QED BY <1>2, <1>3, <1>4, <1>5, BeforeAt

\* The first entry to restore exists.
LEMMA FirstPath ==
  ASSUME NEW S \in SUBSET Seq(Nat), IsFiniteSet(S), S # {}
  PROVE  \E p \in S : \A q \in S \ {p} : Before(p, q)
<1> DEFINE First(R) == \E p \in R : \A q \in R \ {p} : Before(p, q)
           Bad == {R \in SUBSET S : R # {} /\ ~First(R)}
           Sizes == {Cardinality(R) : R \in Bad}
<1> SUFFICES ASSUME ~First(S) PROVE FALSE
  OBVIOUS
<1>1. \A R \in SUBSET S : IsFiniteSet(R) /\ Cardinality(R) \in Nat
  BY FS_Subset, FS_CardinalityType
<1>2. S \in Bad
  OBVIOUS
<1>3. Sizes \subseteq Nat /\ Sizes # {}
  <2>1. Bad \subseteq SUBSET S
    OBVIOUS
  <2> HIDE DEF Bad
  <2> QED BY <1>1, <1>2, <2>1
<1>4. PICK n \in Sizes : \A m \in Sizes : n <= m
  <2> HIDE DEF Sizes
  <2> QED BY <1>3, LeastNumber
<1>5. PICK R \in Bad : n = Cardinality(R)
  OBVIOUS
<1>6. R \in SUBSET S /\ R # {} /\ ~First(R)
  OBVIOUS
<1>7. PICK x \in R : TRUE
  BY <1>6
<1>8. R \ {x} \in SUBSET S /\ Cardinality(R \ {x}) = n - 1 /\ n \in Nat
  BY <1>1, <1>5, <1>6, <1>7, FS_RemoveElement
<1>9. R \ {x} \notin Bad
  <2>1. Cardinality(R \ {x}) \notin Sizes
    <3> HIDE DEF Sizes
    <3> QED BY <1>4, <1>8
  <2> HIDE DEF Bad
  <2> QED BY <2>1
<1>10. CASE R \ {x} = {}
  <2>1. First(R)
    BY <1>7, <1>10
  <2> QED BY <1>6, <2>1
<1>11. CASE R \ {x} # {}
  <2>1. First(R \ {x})
    BY <1>8, <1>9, <1>11
  <2>2. PICK y \in R \ {x} : \A z \in (R \ {x}) \ {y} : Before(y, z)
    BY <2>1
  <2>3. x \in Seq(Nat) /\ y \in Seq(Nat) /\ x # y
    BY <1>6, <1>7
  <2>4. CASE Before(x, y)
    <3>1. \A z \in R \ {x} : Before(x, z)
      <4> SUFFICES ASSUME NEW z \in R \ {x} PROVE Before(x, z)
        OBVIOUS
      <4>1. z = y \/ Before(y, z)
        BY <2>2
      <4>2. z \in Seq(Nat)
        BY <1>6
      <4> QED BY <2>3, <2>4, <4>1, <4>2, BeforeTransitive
    <3> QED BY <1>6, <1>7, <3>1
  <2>5. CASE Before(y, x)
    <3>1. \A z \in R \ {y} : Before(y, z)
      BY <2>2, <2>5
    <3> QED BY <1>6, <2>2, <3>1
  <2> QED BY <2>3, <2>4, <2>5, BeforeTotal
<1> QED BY <1>10, <1>11

-----------------------------------------------------------------------------
(* What each action does                                                    *)

\* What a worker that replies is left with.
Replied(wk, old, pc) ==
  /\ wk.pc = pc /\ wk.req = old.req /\ wk.id = old.id
  /\ wk.entries = NoEntries /\ wk.calls = <<>> /\ wk.left = {}

\* Every other worker stays as it is.
Others(a) == w' \in [Workers -> WorkerRecord] /\ \A b \in Workers \ {a} : w'[b] = w[b]

\* No entries are entries.
LEMMA NoEntriesType == NoEntries \in EntrySets /\ DOMAIN NoEntries = {}
<1>1. DOMAIN NoEntries = {} /\ NoEntries \in [{} -> Nodes]
  BY DEF NoEntries
<1> QED BY <1>1 DEF EntrySets

\* Entries are nodes by path.
LEMMA EntrySetFacts ==
  ASSUME NEW e
  PROVE  e \in EntrySets <=> DOMAIN e \subseteq Paths /\ e \in [DOMAIN e -> Nodes]
BY DEF EntrySets

\* An idle worker has the fields of a worker.
LEMMA IdleType == Idle \in WorkerRecord
<1>1. NoEntries \in EntrySets /\ <<>> \in Seq(FsCalls)
  BY NoEntriesType
<1> QED BY <1>1 DEF Idle, WorkerRecord, PCs, Requests

\* A snapshot records the named paths and what is below them, as they are.
LEMMA SnapshotFacts ==
  ASSUME NEW t \in [Paths -> Nodes], NEW ps \in SUBSET Paths, ps # {}
  PROVE  /\ Snapshot(t, ps) \in EntrySets /\ DOMAIN Snapshot(t, ps) # {}
         /\ ps \subseteq DOMAIN Snapshot(t, ps) /\ DOMAIN Snapshot(t, ps) \subseteq Paths
         /\ DOMAIN Snapshot(t, ps) = UNION {Walk(t, p) : p \in ps}
         /\ \A q \in DOMAIN Snapshot(t, ps) : Snapshot(t, ps)[q] = t[q]
<1> DEFINE D == UNION {Walk(t, p) : p \in ps}
<1>1. \A p \in Paths : Walk(t, p) \subseteq Paths /\ p \in Walk(t, p)
  BY DEF Walk, Below
<1>2. D \subseteq Paths /\ ps \subseteq D /\ D # {}
  BY <1>1
<1>3. Snapshot(t, ps) = [q \in D |-> t[q]]
  BY DEF Snapshot
<1> HIDE DEF D
<1>4. Snapshot(t, ps) \in [D -> Nodes] /\ DOMAIN Snapshot(t, ps) = D
      /\ \A q \in D : Snapshot(t, ps)[q] = t[q]
  BY <1>2, <1>3
<1> QED BY <1>2, <1>4 DEF D, EntrySets

\* A shape does not depend on ids and checkpoints that come later.
LEMMA ShapeGrows ==
  ASSUME NEW m \in Nat, NEW n \in Nat, m <= n, NEW S, NEW T, S \subseteq T,
         NEW wk \in WorkerRecord, Shape(wk, m, S)
  PROVE  Shape(wk, n, T)
<1>1. wk.id \in Nat
  BY DEF WorkerRecord
<1>2. wk.id <= n
  BY <1>1 DEF Shape
<1> QED BY <1>2 DEF Shape

\* What a reply is made of.
LEMMA ReplyFacts ==
  ASSUME NEW wk \in WorkerRecord, NEW pc \in Ended, NEW m \in Nat, wk.id <= m, NEW S,
         wk.id # 0 => wk.req \in Changes \/ wk.req.do = "restore"
  PROVE  /\ Reply(wk, pc) \in WorkerRecord /\ Shape(Reply(wk, pc), m, S)
         /\ Replied(Reply(wk, pc), wk, pc)
<1> DEFINE r == Reply(wk, pc)
<1>1. r = [wk EXCEPT !.pc = pc, !.entries = NoEntries, !.calls = <<>>, !.left = {}]
  BY DEF Reply
<1>2. Replied(r, wk, pc)
  BY <1>1 DEF WorkerRecord, Replied
<1>3. NoEntries \in EntrySets /\ <<>> \in Seq(FsCalls)
  BY NoEntriesType
<1>4. r \in WorkerRecord
  BY <1>1, <1>3 DEF WorkerRecord, PCs
<1> HIDE DEF r
<1>5. /\ r.pc \notin {"idle", "snapped", "saved", "calling", "pruning"} /\ r.id <= m
      /\ r.id # 0 => r.req \in Changes \/ r.req.do = "restore"
  BY <1>2 DEF Replied, Ended
<1>6. Shape(r, m, S)
  BY <1>5 DEF Shape
<1> QED BY <1>2, <1>4, <1>6 DEF r

\* One worker changes.
LEMMA OneWorker ==
  ASSUME w \in [Workers -> WorkerRecord], NEW a \in Workers, NEW r \in WorkerRecord,
         w' = [w EXCEPT ![a] = r]
  PROVE  Others(a) /\ w'[a] = r
BY DEF Others

\* What TypeInv says of the workers, field by field.
LEMMA Typed ==
  ASSUME TypeInv
  PROVE  /\ made \in Nat /\ w \in [Workers -> WorkerRecord]
         /\ \A a \in Workers : /\ w[a] \in WorkerRecord /\ Shape(w[a], made, saved)
                               /\ w[a].pc \in PCs /\ w[a].req \in Requests /\ w[a].id \in Nat
                               /\ w[a].id <= made /\ w[a].entries \in EntrySets
                               /\ w[a].calls \in Seq(FsCalls)
                               /\ w[a].id # 0 => \/ w[a].req \in Changes
                                                \/ w[a].req.do = "restore"
         /\ saved \subseteq Nat /\ IsFiniteSet(saved)
<1>1. /\ made \in Nat /\ w \in [Workers -> WorkerRecord] /\ saved \subseteq 1..made
      /\ \A a \in Workers : Shape(w[a], made, saved)
  BY DEF TypeInv
<1>2. \A a \in Workers : w[a] \in WorkerRecord
  BY <1>1
<1>3. \A wk \in WorkerRecord : /\ wk.pc \in PCs /\ wk.req \in Requests /\ wk.id \in Nat
                               /\ wk.entries \in EntrySets /\ wk.calls \in Seq(FsCalls)
  BY DEF WorkerRecord
<1>4. \A a \in Workers : /\ w[a].id <= made
                         /\ w[a].id # 0 => w[a].req \in Changes \/ w[a].req.do = "restore"
  BY <1>1 DEF Shape
<1>5. IsFiniteSet(saved)
  <2>1. IsFiniteSet(1..made)
    BY <1>1, FS_Interval
  <2> QED BY <1>1, <2>1, FS_Subset
<1>6. saved \subseteq Nat
  BY <1>1
<1> QED BY <1>1, <1>2, <1>3, <1>4, <1>5, <1>6

\* An idle worker has done nothing yet.
LEMMA IdleFields ==
  ASSUME TypeInv, NEW a \in Workers, w[a].pc = "idle"
  PROVE  /\ w[a] = Idle /\ w[a].req = NoRequest /\ w[a].id = 0
         /\ w[a].calls = <<>> /\ w[a].left = {} /\ w[a].entries = NoEntries
<1>1. w[a] = Idle
  BY Typed DEF Shape
<1>2. /\ Idle.req = NoRequest /\ Idle.id = 0
      /\ Idle.calls = <<>> /\ Idle.left = {} /\ Idle.entries = NoEntries
  BY DEF Idle
<1> QED BY <1>1, <1>2

\* The requests of the workers are told apart by what they do.
LEMMA RequestDo ==
  ASSUME WorkspaceAssumption
  PROVE  /\ \A r \in Changes : r.do \in {"write", "edit", "delete", "move", "patch"}
         /\ NoRequest.do = "none" /\ NoRequest \notin Changes
         /\ \A d \in {"restore", "drop", "prune"} :
              /\ [do |-> d].do = d /\ [do |-> d] \notin Changes /\ [do |-> d] \in Requests
<1>1. \A r \in Changes : r.do \in {"write", "edit", "delete", "move", "patch"}
  BY RequestKinds
<1>2. NoRequest.do = "none"
  BY DEF NoRequest
<1>3. \A d \in {"restore", "drop", "prune"} : [do |-> d].do = d
  OBVIOUS
<1>4. \A d \in {"restore", "drop", "prune"} : [do |-> d] \in Requests
  BY DEF Requests
<1> QED BY <1>1, <1>2, <1>3, <1>4

\* TakeSnapshot: refused, or a new checkpoint of the named paths.
LEMMA SnapshotStep ==
  ASSUME WorkspaceAssumption, TypeInv, NEW a \in Workers, NEW r \in Changes, TakeSnapshot(a, r)
  PROVE  /\ Others(a) /\ Shape(w'[a], made', saved') /\ w[a] = Idle
         /\ UNCHANGED <<tree, cps, saved, dropped>>
         /\ w'[a].req = r
         /\ \/ /\ \A p \in Named(r) : Reaches(tree, p)
               /\ made' = made + 1 /\ base' = [id |-> made + 1, tree |-> tree, undone |-> FALSE]
               /\ w'[a].pc = "snapped" /\ w'[a].id = made + 1
               /\ w'[a].entries = Snapshot(tree, Named(r)) /\ w'[a].calls = <<>>
            \/ /\ UNCHANGED <<made, base>>
               /\ w'[a].pc = "failed" /\ w'[a].id = 0
<1>1. w[a] = Idle /\ w[a].req = NoRequest /\ w[a].id = 0 /\ w[a].calls = <<>> /\ w[a].left = {}
  <2>1. w[a].pc = "idle"
    BY DEF TakeSnapshot
  <2> QED BY <2>1, IdleFields
<1>2. r \in Requests /\ w[a] \in WorkerRecord /\ made \in Nat /\ w \in [Workers -> WorkerRecord]
  BY Typed DEF Requests
<1>3. CASE \A p \in Named(r) : Reaches(tree, p)
  <2> DEFINE e == Snapshot(tree, Named(r))
             wk == [w[a] EXCEPT !.pc = "snapped", !.req = r, !.id = made + 1, !.entries = e]
  <2>1. e \in EntrySets /\ DOMAIN e # {}
    BY SnapshotFacts, RequestKinds DEF TypeInv
  <2>2. /\ made' = made + 1 /\ w' = [w EXCEPT ![a] = wk]
        /\ base' = [id |-> made + 1, tree |-> tree, undone |-> FALSE]
        /\ UNCHANGED <<tree, cps, saved, dropped>>
    BY <1>3 DEF TakeSnapshot
  <2> HIDE DEF e
  <2>3. /\ wk.pc = "snapped" /\ wk.req = r /\ wk.id = made + 1 /\ wk.entries = e
        /\ wk.calls = <<>> /\ wk.left = {}
    BY <1>1, <1>2 DEF WorkerRecord
  <2>4. wk \in WorkerRecord
    <3>1. "snapped" \in PCs /\ made + 1 \in Nat
      BY <1>2 DEF PCs
    <3> QED BY <1>2, <2>1, <3>1 DEF WorkerRecord
  <2> HIDE DEF wk
  <2>5. Others(a) /\ w'[a] = wk
    BY <1>2, <2>2, <2>4, OneWorker
  <2>6. Shape(wk, made', saved')
    BY <1>2, <2>1, <2>2, <2>3 DEF Shape
  <2> QED BY <1>1, <1>3, <2>2, <2>3, <2>5, <2>6 DEF e
<1>4. CASE ~ \A p \in Named(r) : Reaches(tree, p)
  <2> DEFINE wk == [w[a] EXCEPT !.req = r]
  <2>1. /\ w' = [w EXCEPT ![a] = Reply(wk, "failed")] /\ UNCHANGED <<made, base>>
        /\ UNCHANGED <<tree, cps, saved, dropped>>
    BY <1>4 DEF TakeSnapshot
  <2>2. wk \in WorkerRecord /\ wk.req = r /\ wk.id = 0
    BY <1>1, <1>2 DEF WorkerRecord
  <2> HIDE DEF wk
  <2>3. /\ Reply(wk, "failed") \in WorkerRecord /\ Shape(Reply(wk, "failed"), made, saved)
        /\ Replied(Reply(wk, "failed"), wk, "failed")
    <3>1. wk.id <= made /\ "failed" \in Ended
      BY <1>2, <2>2 DEF Ended
    <3> QED BY <1>2, <2>2, <3>1, ReplyFacts
  <2>4. Others(a) /\ w'[a] = Reply(wk, "failed")
    BY <1>2, <2>1, <2>3, OneWorker
  <2> QED BY <1>1, <2>1, <2>2, <2>3, <2>4 DEF Replied
<1> QED BY <1>3, <1>4

\* SaveCheckpoint: the snapshot becomes a checkpoint.
LEMMA SaveStep ==
  ASSUME WorkspaceAssumption, TypeInv, NEW a \in Workers, SaveCheckpoint(a)
  PROVE  /\ Others(a) /\ Shape(w'[a], made', saved')
         /\ UNCHANGED <<tree, made, dropped, base>>
         /\ w[a].pc = "snapped" /\ w[a].id \in 1..made
         /\ w'[a].pc = "saved" /\ w'[a].req = w[a].req /\ w'[a].id = w[a].id
         /\ saved' = saved \cup {w[a].id} /\ DOMAIN cps' = DOMAIN cps \cup {w[a].id}
         /\ \A i \in DOMAIN cps' : cps'[i] = IF i = w[a].id THEN w[a].entries ELSE cps[i]
<1> DEFINE wk == [w[a] EXCEPT !.pc = "saved", !.entries = NoEntries]
<1>1. /\ w[a].pc = "snapped" /\ UNCHANGED <<tree, made, dropped, base>>
      /\ saved' = saved \cup {w[a].id} /\ DOMAIN cps' = DOMAIN cps \cup {w[a].id}
      /\ \A i \in DOMAIN cps' : cps'[i] = IF i = w[a].id THEN w[a].entries ELSE cps[i]
  BY DEF SaveCheckpoint
<1>2. /\ w[a] \in WorkerRecord /\ w \in [Workers -> WorkerRecord] /\ made \in Nat
      /\ w[a].id \in Nat /\ w[a].id <= made /\ Shape(w[a], made, saved)
  BY Typed
<1>3. w[a].id # 0 /\ w[a].req \in Changes /\ w[a].left = {}
  BY <1>1, <1>2 DEF Shape
<1>4. w' = [w EXCEPT ![a] = wk]
  BY <1>2 DEF SaveCheckpoint
<1>5. wk.pc = "saved" /\ wk.req = w[a].req /\ wk.id = w[a].id /\ wk.left = w[a].left
  BY <1>2 DEF WorkerRecord
<1>6. wk \in WorkerRecord
  <2>1. "saved" \in PCs /\ NoEntries \in EntrySets
    BY NoEntriesType DEF PCs
  <2> QED BY <1>2, <2>1 DEF WorkerRecord
<1> HIDE DEF wk
<1>7. Others(a) /\ w'[a] = wk
  BY <1>2, <1>4, <1>6, OneWorker
<1>8. Shape(wk, made', saved')
  BY <1>1, <1>2, <1>3, <1>5 DEF Shape
<1>9. w[a].id \in 1..made
  BY <1>2, <1>3
<1> QED BY <1>1, <1>5, <1>7, <1>8, <1>9

\* Check: the request is refused, has nothing to do, or is about to begin.
LEMMA CheckStep ==
  ASSUME WorkspaceAssumption, TypeInv, NEW a \in Workers, Check(a)
  PROVE  /\ Others(a) /\ Shape(w'[a], made', saved')
         /\ UNCHANGED <<tree, made, cps, saved, dropped, base>>
         /\ w[a].pc = "saved" /\ w[a].req \in Changes
         /\ w'[a].req = w[a].req /\ w'[a].id = w[a].id
         /\ \/ w'[a].pc \in {"done", "failed"}
            \/ /\ Accepted(w[a].req, tree)
               /\ w'[a].pc = "calling" /\ w'[a].calls = Calls(w[a].req, tree)
<1> DEFINE r == w[a].req
           wk == [w[a] EXCEPT !.pc = "calling", !.calls = Calls(r, tree)]
<1>1. w[a].pc = "saved" /\ UNCHANGED <<tree, made, cps, saved, dropped, base>>
  BY DEF Check
<1>2. /\ w[a] \in WorkerRecord /\ w \in [Workers -> WorkerRecord] /\ made \in Nat
      /\ w[a].id \in Nat /\ w[a].id <= made /\ Shape(w[a], made, saved)
  BY Typed
<1>3. w[a].id # 0 /\ w[a].req \in Changes /\ w[a].left = {}
  BY <1>1, <1>2 DEF Shape
<1>4. ASSUME NEW pc \in {"done", "failed"}, w' = [w EXCEPT ![a] = Reply(w[a], pc)]
      PROVE  /\ Others(a) /\ Shape(w'[a], made', saved')
             /\ Replied(w'[a], w[a], pc)
  <2>1. pc \in Ended
    BY DEF Ended
  <2>2. /\ Reply(w[a], pc) \in WorkerRecord /\ Shape(Reply(w[a], pc), made, saved)
        /\ Replied(Reply(w[a], pc), w[a], pc)
    BY <1>2, <2>1, Typed, ReplyFacts
  <2> QED BY <1>1, <1>2, <1>4, <2>2, OneWorker
<1>5. CASE ~Accepted(r, tree)
  <2>1. w' = [w EXCEPT ![a] = Reply(w[a], "failed")]
    BY <1>5 DEF Check
  <2> QED BY <1>1, <1>3, <1>4, <2>1 DEF Replied
<1>6. CASE Accepted(r, tree) /\ Calls(r, tree) = <<>>
  <2>1. w' = [w EXCEPT ![a] = Reply(w[a], "done")]
    BY <1>6 DEF Check
  <2> QED BY <1>1, <1>3, <1>4, <2>1 DEF Replied
<1>7. CASE Accepted(r, tree) /\ Calls(r, tree) # <<>>
  <2>1. w' = [w EXCEPT ![a] = wk]
    BY <1>7 DEF Check
  <2>2. Calls(r, tree) \in Seq(FsCalls)
    BY <1>3, <1>7, OwnCalls DEF TypeInv
  <2>3. /\ wk.pc = "calling" /\ wk.req = r /\ wk.id = w[a].id /\ wk.left = w[a].left
        /\ wk.calls = Calls(r, tree)
    BY <1>2 DEF WorkerRecord
  <2>4. wk \in WorkerRecord
    <3>1. "calling" \in PCs
      BY DEF PCs
    <3> HIDE DEF r
    <3> QED BY <1>2, <2>2, <3>1 DEF WorkerRecord
  <2> HIDE DEF wk
  <2>5. Others(a) /\ w'[a] = wk
    BY <1>2, <2>1, <2>4, OneWorker
  <2>6. Shape(wk, made', saved')
    BY <1>1, <1>2, <1>3, <1>7, <2>3 DEF Shape
  <2> QED BY <1>1, <1>3, <1>7, <2>3, <2>5, <2>6
<1> QED BY <1>5, <1>6, <1>7

\* Call: the call fails and ends the request, or changes the tree.
LEMMA CallStep ==
  ASSUME WorkspaceAssumption, TypeInv, NEW a \in Workers, Call(a)
  PROVE  LET c == Head(w[a].calls)
         IN  /\ Others(a) /\ Shape(w'[a], made', saved')
             /\ UNCHANGED <<made, cps, saved, dropped>>
             /\ w[a].pc = "calling" /\ w[a].calls # <<>> /\ c \in FsCalls
             /\ w'[a].req = w[a].req /\ w'[a].id = w[a].id
             /\ \/ /\ Works(c, tree) /\ tree' = Effect(c, tree)
                   /\ base' = BaseAfter(a, Effect(c, tree))
                   /\ \/ LastCall(a) /\ w'[a].pc = "done"
                      \/ /\ ~LastCall(a) /\ w'[a].pc = "calling"
                         /\ w'[a].calls = Tail(w[a].calls)
                         /\ w'[a].entries = w[a].entries /\ w'[a].left = w[a].left
                \/ /\ ~Works(c, tree) /\ UNCHANGED <<tree, base>>
                   /\ w'[a].pc = "failed"
<1> DEFINE c == Head(w[a].calls)
           wk == [w[a] EXCEPT !.calls = Tail(w[a].calls)]
<1>1. /\ w[a].pc = "calling" /\ w[a].calls # <<>>
      /\ UNCHANGED <<made, cps, saved, dropped>>
  BY DEF Call
<1>2. /\ w[a] \in WorkerRecord /\ w \in [Workers -> WorkerRecord] /\ made \in Nat
      /\ w[a].id \in Nat /\ w[a].id <= made /\ Shape(w[a], made, saved)
      /\ w[a].calls \in Seq(FsCalls)
  BY Typed
<1>3. c \in FsCalls /\ Tail(w[a].calls) \in Seq(FsCalls)
  BY <1>1, <1>2
<1>4. ASSUME NEW pc \in {"done", "failed"}, w' = [w EXCEPT ![a] = Reply(w[a], pc)]
      PROVE  /\ Others(a) /\ Shape(w'[a], made', saved')
             /\ Replied(w'[a], w[a], pc)
  <2>1. pc \in Ended
    BY DEF Ended
  <2>2. /\ Reply(w[a], pc) \in WorkerRecord /\ Shape(Reply(w[a], pc), made, saved)
        /\ Replied(Reply(w[a], pc), w[a], pc)
    BY <1>2, <2>1, Typed, ReplyFacts
  <2> QED BY <1>1, <1>2, <1>4, <2>2, OneWorker
<1> HIDE DEF c
<1>5. CASE ~Works(c, tree)
  <2>1. w' = [w EXCEPT ![a] = Reply(w[a], "failed")] /\ UNCHANGED <<tree, base>>
    BY <1>5 DEF Call, c
  <2> QED BY <1>1, <1>3, <1>4, <1>5, <2>1 DEF Replied, c
<1>6. CASE Works(c, tree) /\ LastCall(a)
  <2>1. /\ w' = [w EXCEPT ![a] = Reply(w[a], "done")]
        /\ tree' = Effect(c, tree) /\ base' = BaseAfter(a, Effect(c, tree))
    BY <1>6 DEF Call, c
  <2> QED BY <1>1, <1>3, <1>4, <1>6, <2>1 DEF Replied, c
<1>7. CASE Works(c, tree) /\ ~LastCall(a)
  <2>1. /\ w' = [w EXCEPT ![a] = wk]
        /\ tree' = Effect(c, tree) /\ base' = BaseAfter(a, Effect(c, tree))
    <3>1. /\ w' = [w EXCEPT ![a] = IF LastCall(a) THEN Reply(w[a], "done")
                                    ELSE [w[a] EXCEPT !.calls = Tail(w[a].calls)]]
      BY <1>7 DEF Call, c
    <3>2. tree' = Effect(c, tree) /\ base' = BaseAfter(a, Effect(c, tree))
      BY <1>7 DEF Call, c
    <3> QED BY <1>7, <3>1, <3>2
  <2>2. /\ wk.pc = w[a].pc /\ wk.req = w[a].req /\ wk.id = w[a].id /\ wk.left = w[a].left
        /\ wk.calls = Tail(w[a].calls) /\ wk.entries = w[a].entries
    BY <1>2 DEF WorkerRecord
  <2>3. wk \in WorkerRecord
    BY <1>2, <1>3 DEF WorkerRecord
  <2> HIDE DEF wk
  <2>4. Others(a) /\ w'[a] = wk
    BY <1>2, <2>1, <2>3, OneWorker
  <2>5. wk.calls = <<>> => w[a].left # {}
    <3>1. Len(w[a].calls) # 1 => Tail(w[a].calls) # <<>>
      <4>1. Len(Tail(w[a].calls)) = Len(w[a].calls) - 1 /\ Len(w[a].calls) \in Nat
        BY <1>1, <1>2
      <4> DEFINE rest == Tail(w[a].calls)
      <4> HIDE DEF rest
      <4>2. Len(rest) = 0 => Len(w[a].calls) = 1
        BY <4>1 DEF rest
      <4>3. rest = <<>> => Len(rest) = 0
        OBVIOUS
      <4> QED BY <4>2, <4>3 DEF rest
    <3> QED BY <1>7, <2>2, <3>1 DEF LastCall
  <2>6. Shape(wk, made', saved')
    BY <1>1, <1>2, <2>2, <2>5 DEF Shape
  <2> QED BY <1>1, <1>3, <1>7, <2>1, <2>2, <2>4, <2>6 DEF c
<1> QED BY <1>5, <1>6, <1>7

\* LoadCheckpoint: a restore begins with every entry left, or finds nothing.
LEMMA LoadStep ==
  ASSUME WorkspaceAssumption, TypeInv, NEW a \in Workers, NEW id \in 1..made,
         LoadCheckpoint(a, id)
  PROVE  /\ Others(a) /\ Shape(w'[a], made', saved') /\ w[a] = Idle
         /\ UNCHANGED <<tree, made, cps, saved, dropped, base>>
         /\ w'[a].req = [do |-> "restore"]
         /\ \/ /\ id \in DOMAIN cps /\ w'[a].pc = "calling" /\ w'[a].id = id
               /\ w'[a].entries = cps[id] /\ w'[a].left = DOMAIN cps[id]
               /\ w'[a].calls = <<>>
            \/ w'[a].pc = "failed" /\ w'[a].id = 0
<1>1. /\ w[a] = Idle /\ w[a].req = NoRequest /\ w[a].id = 0
      /\ w[a].calls = <<>> /\ w[a].left = {}
  <2>1. w[a].pc = "idle"
    BY DEF LoadCheckpoint
  <2> QED BY <2>1, IdleFields
<1>2. w[a] \in WorkerRecord /\ made \in Nat /\ w \in [Workers -> WorkerRecord]
  BY Typed
<1>3. [do |-> "restore"] \in Requests /\ [do |-> "restore"].do = "restore"
  BY RequestDo
<1> DEFINE rq == [do |-> "restore"]
<1> HIDE DEF rq
<1>4. CASE id \in DOMAIN cps
  <2> DEFINE wk == [w[a] EXCEPT !.pc = "calling", !.req = rq, !.id = id,
                                !.entries = cps[id], !.left = DOMAIN cps[id]]
  <2>1. w' = [w EXCEPT ![a] = wk] /\ UNCHANGED <<tree, made, cps, saved, dropped, base>>
    BY <1>4 DEF LoadCheckpoint, rq
  <2>2. cps[id] \in EntrySets /\ DOMAIN cps[id] # {} /\ DOMAIN cps[id] \subseteq Paths
    BY <1>4, EntrySetFacts DEF TypeInv
  <2>3. /\ wk.pc = "calling" /\ wk.req = rq /\ wk.id = id /\ wk.entries = cps[id]
        /\ wk.left = DOMAIN cps[id] /\ wk.calls = <<>>
    BY <1>1, <1>2 DEF WorkerRecord
  <2>4. wk \in WorkerRecord
    <3>1. "calling" \in PCs /\ id \in Nat /\ rq \in Requests
      BY <1>2, <1>3 DEF PCs, rq
    <3>2. DOMAIN cps[id] \in SUBSET (Paths \cup Nat)
      BY <2>2
    <3> QED BY <1>2, <2>2, <3>1, <3>2 DEF WorkerRecord
  <2> HIDE DEF wk
  <2>5. Others(a) /\ w'[a] = wk
    BY <1>2, <2>1, <2>4, OneWorker
  <2>6. id <= made /\ id # 0 /\ rq.do = "restore"
    BY <1>2, <1>3 DEF rq
  <2>7. Shape(wk, made', saved')
    BY <2>1, <2>2, <2>3, <2>6 DEF Shape
  <2> QED BY <1>1, <1>4, <2>1, <2>3, <2>5, <2>7 DEF rq
<1>5. CASE id \notin DOMAIN cps
  <2> DEFINE wk == [w[a] EXCEPT !.req = rq]
  <2>1. /\ w' = [w EXCEPT ![a] = Reply(wk, "failed")]
        /\ UNCHANGED <<tree, made, cps, saved, dropped, base>>
    BY <1>5 DEF LoadCheckpoint, rq
  <2>2. wk \in WorkerRecord /\ wk.req = rq /\ wk.id = 0
    BY <1>1, <1>2, <1>3 DEF WorkerRecord, rq
  <2> HIDE DEF wk
  <2>3. /\ Reply(wk, "failed") \in WorkerRecord /\ Shape(Reply(wk, "failed"), made, saved)
        /\ Replied(Reply(wk, "failed"), wk, "failed")
    <3>1. wk.id <= made /\ "failed" \in Ended
      BY <1>2, <2>2 DEF Ended
    <3> QED BY <1>2, <2>2, <3>1, ReplyFacts
  <2>4. Others(a) /\ w'[a] = Reply(wk, "failed")
    BY <1>2, <2>1, <2>3, OneWorker
  <2> QED BY <1>1, <2>1, <2>2, <2>3, <2>4 DEF Replied, rq
<1> QED BY <1>4, <1>5

\* What a restore does for one path, as calls.
LEMMA RestoreCallsType ==
  ASSUME WorkspaceAssumption, NEW p \in Paths, NEW n \in Nodes
  PROVE  RestoreCalls(p, n) \in Seq(FsCalls) /\ RestoreCalls(p, n) # <<>>
<1>1. \A c, d \in FsCalls : /\ <<c>> \in Seq(FsCalls) /\ <<c>> # <<>>
                            /\ <<c, d>> \in Seq(FsCalls) /\ <<c, d>> # <<>>
  OBVIOUS
<1>2. RemoveAll(p) \in FsCalls /\ Mkdir(p) \in FsCalls /\ Mkdir(Parent(p)) \in FsCalls
  BY CallFields, NodeFacts
<1>3. CASE n = Absent
  BY <1>1, <1>2, <1>3 DEF RestoreCalls
<1>4. CASE n # Absent /\ n = Dir
  BY <1>1, <1>2, <1>4 DEF RestoreCalls
<1>5. CASE n # Absent /\ n # Dir
  <2>1. n \in Texts
    BY <1>5, NodeFacts
  <2>2. Put(p, n) \in FsCalls
    BY <2>1, CallFields
  <2> QED BY <1>1, <1>2, <1>5, <2>2 DEF RestoreCalls, WriteCalls
<1> QED BY <1>3, <1>4, <1>5

\* RestoreEntry: the first entry that is left is turned into calls.
LEMMA RestoreStep ==
  ASSUME WorkspaceAssumption, TypeInv, NEW a \in Workers, RestoreEntry(a)
  PROVE  /\ Others(a) /\ Shape(w'[a], made', saved')
         /\ UNCHANGED <<tree, made, cps, saved, dropped, base>>
         /\ w[a].pc = "calling" /\ w[a].calls = <<>> /\ w[a].req.do = "restore"
         /\ w'[a].pc = "calling" /\ w'[a].req = w[a].req /\ w'[a].id = w[a].id
         /\ w'[a].entries = w[a].entries /\ w[a].left \subseteq DOMAIN w[a].entries
         /\ \E p \in w[a].left : /\ w'[a].left = w[a].left \ {p} /\ w'[a].calls # <<>>
                                 /\ w'[a].calls = RestoreCalls(p, w[a].entries[p])
<1>1. /\ w[a].pc = "calling" /\ w[a].calls = <<>>
      /\ UNCHANGED <<tree, made, cps, saved, dropped, base>>
  BY DEF RestoreEntry
<1>2. /\ w[a] \in WorkerRecord /\ w \in [Workers -> WorkerRecord] /\ made \in Nat
      /\ w[a].id \in Nat /\ w[a].id <= made /\ Shape(w[a], made, saved)
      /\ w[a].entries \in EntrySets
  BY Typed
<1>3. /\ w[a].req.do = "restore" /\ w[a].left \subseteq DOMAIN w[a].entries
      /\ w[a].left # {} /\ w[a].id # 0
  BY <1>1, <1>2 DEF Shape
<1> DEFINE p == CHOOSE p \in w[a].left : \A q \in w[a].left \ {p} : Before(p, q)
           wk == [w[a] EXCEPT !.calls = RestoreCalls(p, w[a].entries[p]),
                              !.left = w[a].left \ {p}]
<1>4. p \in w[a].left
  <2>1. w[a].left \subseteq Paths
    BY <1>2, <1>3, EntrySetFacts
  <2>2. Paths \subseteq Seq(Nat) /\ IsFiniteSet(Paths)
    BY DEF WorkspaceAssumption
  <2>3. w[a].left \in SUBSET Seq(Nat) /\ IsFiniteSet(w[a].left)
    BY <2>1, <2>2, FS_Subset
  <2> QED BY <1>3, <2>3, FirstPath
<1>5. w' = [w EXCEPT ![a] = wk]
  BY DEF RestoreEntry
<1> HIDE DEF p
<1>6. p \in Paths /\ w[a].entries[p] \in Nodes
  BY <1>2, <1>3, <1>4, EntrySetFacts
<1> DEFINE cs == RestoreCalls(p, w[a].entries[p])
<1>7. cs \in Seq(FsCalls) /\ cs # <<>>
  BY <1>6, RestoreCallsType
<1>8. /\ wk.pc = w[a].pc /\ wk.req = w[a].req /\ wk.id = w[a].id
      /\ wk.entries = w[a].entries /\ wk.left = w[a].left \ {p} /\ wk.calls = cs
  BY <1>2 DEF WorkerRecord
<1>9. wk \in WorkerRecord
  <2> HIDE DEF cs
  <2>1. wk = [w[a] EXCEPT !.calls = cs, !.left = w[a].left \ {p}]
    BY DEF cs
  <2>2. w[a].left \ {p} \in SUBSET (Paths \cup Nat)
    BY <1>2 DEF WorkerRecord
  <2> HIDE DEF wk
  <2> QED BY <1>2, <1>7, <2>1, <2>2 DEF WorkerRecord
<1> HIDE DEF wk, cs
<1>10. Others(a) /\ w'[a] = wk
  BY <1>2, <1>5, <1>9, OneWorker
<1>11. Shape(wk, made', saved')
  BY <1>1, <1>2, <1>3, <1>7, <1>8 DEF Shape
<1> QED BY <1>1, <1>3, <1>4, <1>7, <1>8, <1>10, <1>11 DEF cs

\* DeleteCheckpoint: one checkpoint is gone, by name.
LEMMA DropStep ==
  ASSUME WorkspaceAssumption, TypeInv, NEW a \in Workers, NEW id \in 1..made,
         DeleteCheckpoint(a, id)
  PROVE  /\ Others(a) /\ Shape(w'[a], made', saved') /\ w[a] = Idle
         /\ UNCHANGED <<tree, made, saved, base>>
         /\ dropped' = dropped \cup {id} /\ DOMAIN cps' = DOMAIN cps \ {id}
         /\ \A i \in DOMAIN cps' : cps'[i] = cps[i]
         /\ w'[a].pc \in {"done", "failed"} /\ w'[a].req = [do |-> "drop"] /\ w'[a].id = 0
<1>1. w[a] = Idle /\ w[a].id = 0
  <2>1. w[a].pc = "idle"
    BY DEF DeleteCheckpoint
  <2> QED BY <2>1, IdleFields
<1>2. w[a] \in WorkerRecord /\ made \in Nat /\ w \in [Workers -> WorkerRecord]
  BY Typed
<1> DEFINE rq == [do |-> "drop"]
           wk == [w[a] EXCEPT !.req = rq]
           pc == IF id \in DOMAIN cps THEN "done" ELSE "failed"
<1>3. rq \in Requests
  BY RequestDo
<1> HIDE DEF rq
<1>4. /\ UNCHANGED <<tree, made, saved, base>> /\ dropped' = dropped \cup {id}
      /\ cps' = Without(id) /\ w' = [w EXCEPT ![a] = Reply(wk, pc)]
  BY DEF DeleteCheckpoint, rq
<1>5. wk \in WorkerRecord /\ wk.req = rq /\ wk.id = 0
  BY <1>1, <1>2, <1>3 DEF WorkerRecord
<1>6. pc \in {"done", "failed"} /\ pc \in Ended
  BY DEF Ended
<1> HIDE DEF wk, pc
<1>7. /\ Reply(wk, pc) \in WorkerRecord /\ Shape(Reply(wk, pc), made, saved)
      /\ Replied(Reply(wk, pc), wk, pc)
  <2>1. wk.id <= made
    BY <1>2, <1>5
  <2> QED BY <1>2, <1>5, <1>6, <2>1, ReplyFacts
<1>8. Others(a) /\ w'[a] = Reply(wk, pc)
  BY <1>2, <1>4, <1>7, OneWorker
<1>9. DOMAIN cps' = DOMAIN cps \ {id} /\ \A i \in DOMAIN cps' : cps'[i] = cps[i]
  BY <1>4 DEF Without
<1> QED BY <1>1, <1>4, <1>5, <1>6, <1>7, <1>8, <1>9 DEF Replied, rq

\* ListCheckpoints: a prune finds what is past the first `keep`, if anything.
LEMMA ListStep ==
  ASSUME WorkspaceAssumption, TypeInv, NEW a \in Workers, NEW keep \in Keeps,
         ListCheckpoints(a, keep)
  PROVE  /\ Others(a) /\ Shape(w'[a], made', saved') /\ w[a] = Idle
         /\ UNCHANGED <<tree, made, cps, saved, dropped, base>>
         /\ w'[a].req = [do |-> "prune"] /\ w'[a].id = 0
         /\ \/ w'[a].pc = "done"
            \/ w'[a].pc = "pruning" /\ w'[a].left = Outdated(DOMAIN cps, keep)
<1>1. w[a] = Idle /\ w[a].id = 0
  <2>1. w[a].pc = "idle"
    BY DEF ListCheckpoints
  <2> QED BY <2>1, IdleFields
<1>2. w[a] \in WorkerRecord /\ made \in Nat /\ w \in [Workers -> WorkerRecord]
  BY Typed
<1> DEFINE rq == [do |-> "prune"]
           old == Outdated(DOMAIN cps, keep)
           wk == [w[a] EXCEPT !.req = rq]
           busy == [wk EXCEPT !.pc = "pruning", !.left = old]
<1>3. rq \in Requests
  BY RequestDo
<1>4. UNCHANGED <<tree, made, cps, saved, dropped, base>>
  BY DEF ListCheckpoints
<1>5. old \subseteq saved /\ old \subseteq Nat
  BY Typed DEF Outdated, TypeInv
<1>6. w' = [w EXCEPT ![a] = IF old = {} THEN Reply(wk, "done") ELSE busy]
  BY DEF ListCheckpoints
<1> HIDE DEF rq, old
<1>7. wk \in WorkerRecord /\ wk.req = rq /\ wk.id = 0
  BY <1>1, <1>2, <1>3 DEF WorkerRecord
<1>8. CASE old = {}
  <2> HIDE DEF wk, busy
  <2>1. /\ Reply(wk, "done") \in WorkerRecord /\ Shape(Reply(wk, "done"), made, saved)
        /\ Replied(Reply(wk, "done"), wk, "done")
    <3>1. wk.id <= made /\ "done" \in Ended
      BY <1>2, <1>7 DEF Ended
    <3> QED BY <1>2, <1>7, <3>1, ReplyFacts
  <2>2. Others(a) /\ w'[a] = Reply(wk, "done")
    BY <1>2, <1>6, <1>8, <2>1, OneWorker
  <2> QED BY <1>1, <1>4, <1>7, <2>1, <2>2 DEF Replied, rq
<1>9. CASE old # {}
  <2> HIDE DEF wk
  <2>1. /\ busy.pc = "pruning" /\ busy.left = old /\ busy.req = wk.req /\ busy.id = wk.id
    BY <1>7 DEF WorkerRecord
  <2>2. busy \in WorkerRecord
    <3>1. "pruning" \in PCs /\ old \in SUBSET (Paths \cup Nat)
      BY <1>5 DEF PCs
    <3> QED BY <1>7, <3>1 DEF WorkerRecord
  <2> HIDE DEF busy
  <2>3. Others(a) /\ w'[a] = busy
    BY <1>2, <1>6, <1>9, <2>2, OneWorker
  <2>4. busy.id = 0 /\ busy.id <= made
    BY <1>2, <1>7, <2>1
  <2>5. Shape(busy, made', saved')
    BY <1>4, <1>5, <1>9, <2>1, <2>4 DEF Shape
  <2> QED BY <1>1, <1>4, <1>7, <2>1, <2>3, <2>5 DEF rq, old
<1> QED BY <1>8, <1>9

\* A non-empty set of ids has a largest one.
LEMMA LargestId ==
  ASSUME NEW n \in Nat, NEW S \in SUBSET (1..n), S # {}
  PROVE  Max(S) \in S
<1> DEFINE T == {n - k : k \in S}
<1>1. T \subseteq Nat /\ T # {}
  <2>1. \A k \in 1..n : n - k \in Nat
    OBVIOUS
  <2> QED BY <2>1
<1>2. PICK x \in T : \A y \in T : x <= y
  <2> HIDE DEF T
  <2> QED BY <1>1, LeastNumber
<1>3. PICK m \in S : x = n - m
  OBVIOUS
<1>4. \A k \in S : m >= k
  <2> SUFFICES ASSUME NEW k \in S PROVE m >= k
    OBVIOUS
  <2>1. n - k \in T
    OBVIOUS
  <2>2. n - m <= n - k
    <3> HIDE DEF T
    <3> QED BY <1>2, <1>3, <2>1
  <2> QED BY <2>2
<1> QED BY <1>4 DEF Max

\* PruneNext: one checkpoint of the list is gone, or was gone already.
LEMMA PruneStep ==
  ASSUME WorkspaceAssumption, TypeInv, NEW a \in Workers, PruneNext(a)
  PROVE  /\ Others(a) /\ Shape(w'[a], made', saved')
         /\ UNCHANGED <<tree, made, saved, dropped, base>>
         /\ w[a].pc = "pruning" /\ w'[a].req = w[a].req /\ w'[a].id = w[a].id
         /\ \E id \in w[a].left : DOMAIN cps' = DOMAIN cps \ {id}
         /\ \A i \in DOMAIN cps' : cps'[i] = cps[i]
         /\ \/ w'[a].pc \in {"done", "failed"}
            \/ w'[a].pc = "pruning" /\ w'[a].left \subseteq w[a].left
<1>1. w[a].pc = "pruning" /\ UNCHANGED <<tree, made, saved, dropped, base>>
  BY DEF PruneNext
<1>2. /\ w[a] \in WorkerRecord /\ w \in [Workers -> WorkerRecord] /\ made \in Nat
      /\ w[a].id \in Nat /\ w[a].id <= made /\ Shape(w[a], made, saved)
  BY Typed
<1>3. w[a].left \subseteq saved /\ w[a].left # {} /\ w[a].left \in SUBSET (1..made)
  <2>1. w[a].left \subseteq saved /\ w[a].left # {}
    BY <1>1, <1>2 DEF Shape
  <2> QED BY <2>1 DEF TypeInv
<1> DEFINE id == Max(w[a].left)
           wk == [w[a] EXCEPT !.left = w[a].left \ {id}]
<1>4. id \in w[a].left
  BY <1>2, <1>3, LargestId
<1>5. /\ cps' = Without(id)
      /\ w' = [w EXCEPT ![a] = IF id \notin DOMAIN cps THEN Reply(w[a], "failed")
                               ELSE IF w[a].left = {id} THEN Reply(w[a], "done") ELSE wk]
  BY DEF PruneNext
<1> HIDE DEF id
<1>6. DOMAIN cps' = DOMAIN cps \ {id} /\ \A i \in DOMAIN cps' : cps'[i] = cps[i]
  BY <1>5 DEF Without
<1>7. ASSUME NEW pc \in {"done", "failed"}, w' = [w EXCEPT ![a] = Reply(w[a], pc)]
      PROVE  /\ Others(a) /\ Shape(w'[a], made', saved')
             /\ Replied(w'[a], w[a], pc)
  <2>1. pc \in Ended
    BY DEF Ended
  <2>2. /\ Reply(w[a], pc) \in WorkerRecord /\ Shape(Reply(w[a], pc), made, saved)
        /\ Replied(Reply(w[a], pc), w[a], pc)
    BY <1>2, <2>1, Typed, ReplyFacts
  <2> QED BY <1>1, <1>2, <1>7, <2>2, OneWorker
<1>8. CASE id \notin DOMAIN cps
  <2>1. w' = [w EXCEPT ![a] = Reply(w[a], "failed")]
    BY <1>5, <1>8
  <2> QED BY <1>1, <1>4, <1>6, <1>7, <2>1 DEF Replied
<1>9. CASE id \in DOMAIN cps /\ w[a].left = {id}
  <2>1. w' = [w EXCEPT ![a] = Reply(w[a], "done")]
    BY <1>5, <1>9
  <2> QED BY <1>1, <1>4, <1>6, <1>7, <2>1 DEF Replied
<1>10. CASE id \in DOMAIN cps /\ w[a].left # {id}
  <2>1. w' = [w EXCEPT ![a] = wk]
    BY <1>5, <1>10
  <2>2. /\ wk.pc = w[a].pc /\ wk.req = w[a].req /\ wk.id = w[a].id
        /\ wk.left = w[a].left \ {id}
    BY <1>2 DEF WorkerRecord
  <2>3. wk \in WorkerRecord
    <3>1. w[a].left \ {id} \in SUBSET (Paths \cup Nat)
      BY <1>2 DEF WorkerRecord
    <3> QED BY <1>2, <3>1 DEF WorkerRecord
  <2> HIDE DEF wk
  <2>4. Others(a) /\ w'[a] = wk
    BY <1>2, <2>1, <2>3, OneWorker
  <2>5. wk.left # {} /\ wk.left \subseteq saved
    BY <1>3, <1>4, <1>10, <2>2
  <2>6. Shape(wk, made', saved')
    BY <1>1, <1>2, <2>2, <2>5 DEF Shape
  <2> QED BY <1>1, <1>4, <1>6, <2>2, <2>4, <2>6
<1> QED BY <1>8, <1>9, <1>10

\* Crash: whoever was busy is killed, and some puts leave an empty file.
LEMMA CrashStep ==
  ASSUME WorkspaceAssumption, TypeInv, Crash
  PROVE  /\ w' \in [Workers -> WorkerRecord] /\ UNCHANGED <<made, cps, saved, dropped>>
         /\ \A a \in Workers :
              /\ Shape(w'[a], made', saved') /\ w'[a].req = w[a].req /\ w'[a].id = w[a].id
              /\ \/ w'[a] = w[a] /\ w[a].pc \in Ended \cup {"idle"}
                 \/ w'[a].pc = "killed"
         /\ \E torn \in SUBSET Workers :
              /\ \A a \in torn : /\ w[a].pc = "calling" /\ w[a].calls # <<>>
                                 /\ Head(w[a].calls) \in FsCalls
                                 /\ Head(w[a].calls).call = "put"
                                 /\ Works(Head(w[a].calls), tree)
              /\ tree' \in [Paths -> Nodes] /\ IsTree(tree')
              /\ \A p \in Paths :
                   tree'[p] = IF \E a \in torn : p = Head(w[a].calls).path THEN {} ELSE tree[p]
              /\ base' = IF tree' = tree THEN base
                         ELSE IF \E a \in torn : w[a].id # base.id THEN NoBase
                         ELSE [base EXCEPT !.undone = FALSE]
<1>1. /\ w' = [a \in Workers |-> IF a \in Busy THEN Reply(w[a], "killed") ELSE w[a]]
      /\ UNCHANGED <<made, cps, saved, dropped>>
  BY DEF Crash
<1>2. ASSUME NEW a \in Workers
      PROVE  /\ w'[a] \in WorkerRecord
             /\ Shape(w'[a], made', saved') /\ w'[a].req = w[a].req /\ w'[a].id = w[a].id
             /\ \/ w'[a] = w[a] /\ w[a].pc \in Ended \cup {"idle"}
                \/ w'[a].pc = "killed"
  <2>1. w[a] \in WorkerRecord /\ made \in Nat /\ w[a].id <= made /\ Shape(w[a], made, saved)
    BY Typed
  <2>2. CASE a \in Busy
    <3>1. w'[a] = Reply(w[a], "killed")
      BY <1>1, <2>2
    <3>2. /\ Reply(w[a], "killed") \in WorkerRecord
          /\ Shape(Reply(w[a], "killed"), made, saved)
          /\ Replied(Reply(w[a], "killed"), w[a], "killed")
      BY <2>1, Typed, ReplyFacts DEF Ended
    <3> QED BY <1>1, <3>1, <3>2 DEF Replied
  <2>3. CASE a \notin Busy
    <3>1. w'[a] = w[a]
      BY <1>1, <2>3
    <3>2. w[a].pc \in Ended \cup {"idle"}
      BY <2>3 DEF Busy
    <3> QED BY <1>1, <2>1, <3>1, <3>2
  <2> QED BY <2>2, <2>3
<1>3. w' \in [Workers -> WorkerRecord]
  BY <1>1, <1>2
<1>4. PICK torn \in SUBSET {a \in Busy : /\ w[a].pc = "calling" /\ w[a].calls # <<>>
                                         /\ Head(w[a].calls).call = "put"
                                         /\ Works(Head(w[a].calls), tree)} :
        LET cut == {Head(w[a].calls).path : a \in torn}
        IN  /\ tree' = [p \in Paths |-> IF p \in cut THEN {} ELSE tree[p]]
            /\ base' = IF tree' = tree THEN base
                       ELSE IF \E a \in torn : w[a].id # base.id THEN NoBase
                       ELSE [base EXCEPT !.undone = FALSE]
  BY DEF Crash
<1> DEFINE Cut(p) == \E a \in torn : p = Head(w[a].calls).path
<1>5. \A p \in Paths : tree'[p] = IF Cut(p) THEN {} ELSE tree[p]
  BY <1>4
<1>6. torn \in SUBSET Workers
  BY <1>4 DEF Busy
<1>7. ASSUME NEW a \in torn
      PROVE  /\ w[a].pc = "calling" /\ w[a].calls # <<>> /\ Head(w[a].calls) \in FsCalls
             /\ Head(w[a].calls).call = "put" /\ Works(Head(w[a].calls), tree)
  <2>1. w[a].calls \in Seq(FsCalls)
    BY <1>6, Typed
  <2> QED BY <1>4, <2>1
<1>8. tree \in [Paths -> Nodes] /\ IsTree(tree)
  BY DEF TypeInv
<1>9. tree' \in [Paths -> Nodes]
  BY <1>4, <1>8, NodeFacts
<1>10. ASSUME NEW p \in Paths, Cut(p) PROVE ParentIsDir(tree, p) /\ tree[p] # Dir
  <2>1. PICK a \in torn : p = Head(w[a].calls).path
    BY <1>10
  <2> QED BY <1>7, <2>1 DEF Works
<1>11. IsTree(tree')
  <2> SUFFICES ASSUME NEW p \in Paths, tree'[p] # Absent, NEW q \in Above(p)
               PROVE  tree'[q] = Dir
    BY DEF IsTree
  <2>1. q \in Paths
    BY UptoPrefix
  <2>2. tree[q] = Dir
    BY <1>5, <1>8, <1>10 DEF IsTree, ParentIsDir
  <2> QED BY <1>5, <1>10, <2>1, <2>2
<1>12. base' = IF tree' = tree THEN base
               ELSE IF \E a \in torn : w[a].id # base.id THEN NoBase
               ELSE [base EXCEPT !.undone = FALSE]
  BY <1>4
<1> QED BY <1>1, <1>2, <1>3, <1>5, <1>6, <1>7, <1>9, <1>11, <1>12

-----------------------------------------------------------------------------
(* Types                                                                    *)

\* The history of the last snapshot is kept, marked, or given up.
SameBase(b) == b.id = base.id /\ b.tree = base.tree
           /\ b = [id |-> b.id, tree |-> b.tree, undone |-> b.undone]

\* Marking the history keeps its tree; giving it up forgets the id.
LEMMA BaseFields ==
  ASSUME TypeInv, NEW x \in BOOLEAN
  PROVE  /\ base.undone \in BOOLEAN /\ SameBase(base)
         /\ SameBase([base EXCEPT !.undone = x]) /\ [base EXCEPT !.undone = x].undone = x
         /\ NoBase.id = 0 /\ NoBase.undone = FALSE
         /\ NoBase = [id |-> NoBase.id, tree |-> NoBase.tree, undone |-> NoBase.undone]
<1>1. /\ base.undone \in BOOLEAN
      /\ base = [id |-> base.id, tree |-> base.tree, undone |-> base.undone]
  BY DEF TypeInv
<1> DEFINE i == base.id
           t == base.tree
           u == base.undone
<1>2. base = [id |-> i, tree |-> t, undone |-> u]
  BY <1>1
<1> HIDE DEF i, t, u
<1>3. [base EXCEPT !.undone = x] = [id |-> i, tree |-> t, undone |-> x]
  BY <1>2
<1>4. /\ [id |-> i, tree |-> t, undone |-> x].id = i
      /\ [id |-> i, tree |-> t, undone |-> x].tree = t
      /\ [id |-> i, tree |-> t, undone |-> x].undone = x
  OBVIOUS
<1>5. SameBase([base EXCEPT !.undone = x]) /\ [base EXCEPT !.undone = x].undone = x
  BY <1>3, <1>4 DEF SameBase, i, t
<1>6. /\ NoBase.id = 0 /\ NoBase.undone = FALSE
      /\ NoBase = [id |-> NoBase.id, tree |-> NoBase.tree, undone |-> NoBase.undone]
  BY DEF NoBase
<1> QED BY <1>1, <1>5, <1>6 DEF SameBase

\* A call that changes the tree gives the history up, unless it is one of the
\* request that took the snapshot or of a restore of it.
LEMMA BaseAfterFacts ==
  ASSUME TypeInv, NEW a \in Workers, NEW t
  PROVE  \/ BaseAfter(a, t) = NoBase
         \/ /\ SameBase(BaseAfter(a, t))
            /\ t # tree => /\ w[a].id = base.id
                           /\ IsUndo(a) \/ \A b \in Busy : ~(IsUndo(b) /\ w[b].id = base.id)
            /\ BaseAfter(a, t).undone =
                 ((w[a].id = base.id /\ IsUndo(a) /\ LastCall(a)) \/ (base.undone /\ t = tree))
<1>1. base.undone \in BOOLEAN
  BY DEF TypeInv
<1> DEFINE mine == w[a].id = base.id
           rival == ~IsUndo(a) /\ \E b \in Busy : IsUndo(b) /\ w[b].id = base.id
           last == IsUndo(a) /\ LastCall(a)
<1>2. CASE t # tree /\ (~mine \/ rival)
  <2>1. BaseAfter(a, t) = NoBase
    BY <1>2 DEF BaseAfter
  <2> QED BY <2>1
<1>3. CASE ~(t # tree /\ (~mine \/ rival)) /\ mine /\ last
  <2>1. BaseAfter(a, t) = [base EXCEPT !.undone = TRUE]
    BY <1>3 DEF BaseAfter
  <2>2. SameBase(BaseAfter(a, t)) /\ BaseAfter(a, t).undone = TRUE
    BY <2>1, BaseFields
  <2> QED BY <1>1, <1>3, <2>2
<1>4. CASE ~(t # tree /\ (~mine \/ rival)) /\ ~(mine /\ last)
  <2> DEFINE x == base.undone /\ t = tree
  <2>1. BaseAfter(a, t) = [base EXCEPT !.undone = x]
    BY <1>4 DEF BaseAfter
  <2>2. x \in BOOLEAN
    BY <1>1
  <2> HIDE DEF x
  <2>3. SameBase(BaseAfter(a, t)) /\ BaseAfter(a, t).undone = x
    BY <2>1, <2>2, BaseFields
  <2> QED BY <1>1, <1>4, <2>3 DEF x
<1> QED BY <1>2, <1>3, <1>4

\* What TypeInv says of base, for any history that is kept or given up.
BaseTyped(b, m) ==
  /\ b.id \in 0..m /\ b.undone \in BOOLEAN
  /\ b = [id |-> b.id, tree |-> b.tree, undone |-> b.undone]
  /\ b.id # 0 => b.tree \in [Paths -> Nodes] /\ IsTree(b.tree)
  /\ b.undone => b.id # 0

\* A history that is kept or given up has its type.
LEMMA BaseStaysTyped ==
  ASSUME TypeInv, NEW b, b.undone \in BOOLEAN,
         b = NoBase \/ (SameBase(b) /\ (b.undone => base.id # 0))
  PROVE  BaseTyped(b, made)
<1>1. CASE b = NoBase
  <2>1. b.id = 0 /\ b.undone = FALSE
        /\ b = [id |-> b.id, tree |-> b.tree, undone |-> b.undone]
    BY <1>1, BaseFields
  <2>2. 0 \in 0..made
    BY Typed
  <2> QED BY <2>1, <2>2 DEF BaseTyped
<1>2. CASE SameBase(b) /\ (b.undone => base.id # 0)
  BY <1>2 DEF BaseTyped, SameBase, TypeInv
<1> QED BY <1>1, <1>2

\* What is left to show when one worker takes a step.
LEMMA TypeFrom ==
  ASSUME TypeInv, NEW a \in Workers, Others(a), Shape(w'[a], made', saved'),
         made' \in Nat, made <= made', saved \subseteq saved',
         tree' \in [Paths -> Nodes], IsTree(tree'),
         DOMAIN cps' \subseteq saved', saved' \subseteq 1..made', dropped' \subseteq 1..made',
         \A i \in DOMAIN cps' : cps'[i] \in EntrySets /\ DOMAIN cps'[i] # {},
         BaseTyped(base', made')
  PROVE  TypeInv'
<1>1. \A b \in Workers : Shape(w'[b], made', saved')
  <2> SUFFICES ASSUME NEW b \in Workers \ {a} PROVE Shape(w'[b], made', saved')
    OBVIOUS
  <2>1. w'[b] = w[b] /\ w[b] \in WorkerRecord /\ Shape(w[b], made, saved) /\ made \in Nat
    BY Typed DEF Others
  <2> QED BY <2>1, ShapeGrows
<1>2. w' \in [Workers -> WorkerRecord]
  BY DEF Others
<1> QED BY <1>1, <1>2 DEF TypeInv, BaseTyped

\* The types hold at the start ...
LEMMA TypeInit ==
  ASSUME WorkspaceAssumption, Init
  PROVE  TypeInv
<1>1. tree \in [Paths -> Nodes] /\ IsTree(tree)
  BY DEF Init, WorkspaceAssumption
<1>2. /\ made = 0 /\ saved = {} /\ dropped = {} /\ DOMAIN cps = {}
      /\ w = [a \in Workers |-> Idle]
  BY NoEntriesType DEF Init
<1>3. Shape(Idle, made, saved)
  <2>1. Idle.pc = "idle" /\ Idle.id = 0
    BY DEF Idle
  <2> QED BY <1>2, <2>1 DEF Shape
<1>4. w \in [Workers -> WorkerRecord] /\ \A a \in Workers : Shape(w[a], made, saved)
  BY <1>2, <1>3, IdleType
<1>5. /\ base.id = 0 /\ base.undone = FALSE
      /\ base = [id |-> base.id, tree |-> base.tree, undone |-> base.undone]
  BY DEF Init, NoBase
<1>6. base.id \in 0..made
  BY <1>2, <1>5
<1> QED BY <1>1, <1>2, <1>4, <1>5, <1>6 DEF TypeInv

\* What does not change keeps its type.
LEMMA StaysTyped ==
  ASSUME TypeInv
  PROVE  /\ made \in Nat /\ made <= made /\ tree \in [Paths -> Nodes] /\ IsTree(tree)
         /\ DOMAIN cps \subseteq saved /\ saved \subseteq 1..made /\ dropped \subseteq 1..made
         /\ \A i \in DOMAIN cps : cps[i] \in EntrySets /\ DOMAIN cps[i] # {}
         /\ BaseTyped(base, made)
BY DEF TypeInv, BaseTyped

\* ... and after every step.
LEMMA TypeStep ==
  ASSUME WorkspaceAssumption, TypeInv, [Next]_vars
  PROVE  TypeInv'
<1>1. ASSUME NEW a \in Workers, NEW r \in Changes, TakeSnapshot(a, r) PROVE TypeInv'
  <2>1. /\ Others(a) /\ Shape(w'[a], made', saved')
        /\ UNCHANGED <<tree, cps, saved, dropped>>
        /\ \/ made' = made + 1 /\ base' = [id |-> made + 1, tree |-> tree, undone |-> FALSE]
           \/ UNCHANGED <<made, base>>
    BY <1>1, SnapshotStep
  <2>2. CASE made' = made + 1 /\ base' = [id |-> made + 1, tree |-> tree, undone |-> FALSE]
    <3>1. made' \in Nat /\ made <= made' /\ made' \in 0..made' /\ 1..made \subseteq 1..made'
      BY <2>2, StaysTyped
    <3>2. base'.id = made' /\ base'.tree = tree /\ base'.undone = FALSE
          /\ base' = [id |-> base'.id, tree |-> base'.tree, undone |-> base'.undone]
      BY <2>2
    <3>3. BaseTyped(base', made')
      BY <3>1, <3>2, StaysTyped DEF BaseTyped
    <3> QED BY <2>1, <3>1, <3>3, StaysTyped, TypeFrom
  <2>3. CASE UNCHANGED <<made, base>>
    BY <2>1, <2>3, StaysTyped, TypeFrom
  <2> QED BY <2>1, <2>2, <2>3
<1>2. ASSUME NEW a \in Workers, SaveCheckpoint(a) PROVE TypeInv'
  <2>1. /\ Others(a) /\ Shape(w'[a], made', saved')
        /\ UNCHANGED <<tree, made, dropped, base>>
        /\ w[a].pc = "snapped" /\ w[a].id \in 1..made
        /\ saved' = saved \cup {w[a].id} /\ DOMAIN cps' = DOMAIN cps \cup {w[a].id}
        /\ \A i \in DOMAIN cps' : cps'[i] = IF i = w[a].id THEN w[a].entries ELSE cps[i]
    BY <1>2, SaveStep
  <2>2. w[a].entries \in EntrySets /\ DOMAIN w[a].entries # {}
    BY <2>1, Typed DEF Shape
  <2>3. \A i \in DOMAIN cps' : cps'[i] \in EntrySets /\ DOMAIN cps'[i] # {}
    BY <2>1, <2>2, StaysTyped
  <2>4. DOMAIN cps' \subseteq saved' /\ saved' \subseteq 1..made' /\ saved \subseteq saved'
    BY <2>1, StaysTyped
  <2> QED BY <2>1, <2>3, <2>4, StaysTyped, TypeFrom
<1>3. ASSUME NEW a \in Workers, Check(a) PROVE TypeInv'
  BY <1>3, CheckStep, StaysTyped, TypeFrom
<1>4. ASSUME NEW a \in Workers, Call(a) PROVE TypeInv'
  <2> DEFINE c == Head(w[a].calls)
  <2>1. /\ Others(a) /\ Shape(w'[a], made', saved')
        /\ UNCHANGED <<made, cps, saved, dropped>> /\ c \in FsCalls /\ w[a].pc = "calling"
        /\ \/ /\ Works(c, tree) /\ tree' = Effect(c, tree)
              /\ base' = BaseAfter(a, Effect(c, tree))
           \/ UNCHANGED <<tree, base>>
    BY <1>4, CallStep
  <2> HIDE DEF c
  <2>2. CASE /\ Works(c, tree) /\ tree' = Effect(c, tree)
             /\ base' = BaseAfter(a, Effect(c, tree))
    <3>1. tree' \in [Paths -> Nodes] /\ IsTree(tree')
      BY <2>1, <2>2, StaysTyped, EffectTree
    <3> DEFINE b == BaseAfter(a, Effect(c, tree))
    <3>2. b.undone \in BOOLEAN /\ (b = NoBase \/ (SameBase(b) /\ (b.undone => base.id # 0)))
      <4>1. w[a].id # 0
        BY <2>1, Typed DEF Shape
      <4>2. base.undone => base.id # 0
        BY DEF TypeInv
      <4>3. base.undone \in BOOLEAN
        BY DEF TypeInv
      <4>4. CASE b = NoBase
        BY <4>4, BaseFields
      <4>5. CASE SameBase(b) /\ b.undone = ((w[a].id = base.id /\ IsUndo(a) /\ LastCall(a))
                                             \/ (base.undone /\ Effect(c, tree) = tree))
        <5> HIDE DEF b
        <5> QED BY <4>1, <4>2, <4>3, <4>5
      <4> QED BY <4>4, <4>5, BaseAfterFacts
    <3>3. BaseTyped(base', made')
      <4> HIDE DEF b
      <4>1. BaseTyped(b, made)
        BY <3>2, BaseStaysTyped
      <4> QED BY <2>1, <2>2, <4>1 DEF b
    <3> QED BY <2>1, <3>1, <3>3, StaysTyped, TypeFrom
  <2>3. CASE UNCHANGED <<tree, base>>
    BY <2>1, <2>3, StaysTyped, TypeFrom
  <2> QED BY <2>1, <2>2, <2>3
<1>5. ASSUME NEW a \in Workers, NEW id \in 1..made, LoadCheckpoint(a, id) PROVE TypeInv'
  BY <1>5, LoadStep, StaysTyped, TypeFrom
<1>6. ASSUME NEW a \in Workers, NEW id \in 1..made, DeleteCheckpoint(a, id) PROVE TypeInv'
  <2>1. /\ Others(a) /\ Shape(w'[a], made', saved')
        /\ UNCHANGED <<tree, made, saved, base>>
        /\ dropped' = dropped \cup {id} /\ DOMAIN cps' = DOMAIN cps \ {id}
        /\ \A i \in DOMAIN cps' : cps'[i] = cps[i]
    BY <1>6, DropStep
  <2>2. /\ dropped' \subseteq 1..made' /\ DOMAIN cps' \subseteq saved'
        /\ \A i \in DOMAIN cps' : cps'[i] \in EntrySets /\ DOMAIN cps'[i] # {}
    BY <2>1, StaysTyped
  <2> QED BY <2>1, <2>2, StaysTyped, TypeFrom
<1>7. ASSUME NEW a \in Workers, RestoreEntry(a) PROVE TypeInv'
  <2>1. /\ Others(a) /\ Shape(w'[a], made', saved')
        /\ UNCHANGED <<tree, made, cps, saved, dropped, base>>
    BY <1>7, RestoreStep
  <2> QED BY <2>1, StaysTyped, TypeFrom
<1>8. ASSUME NEW a \in Workers, NEW keep \in Keeps, ListCheckpoints(a, keep) PROVE TypeInv'
  BY <1>8, ListStep, StaysTyped, TypeFrom
<1>9. ASSUME NEW a \in Workers, PruneNext(a) PROVE TypeInv'
  <2>1. /\ Others(a) /\ Shape(w'[a], made', saved')
        /\ UNCHANGED <<tree, made, saved, dropped, base>>
        /\ \E id \in w[a].left : DOMAIN cps' = DOMAIN cps \ {id}
        /\ \A i \in DOMAIN cps' : cps'[i] = cps[i]
    BY <1>9, PruneStep
  <2>2. /\ DOMAIN cps' \subseteq saved'
        /\ \A i \in DOMAIN cps' : cps'[i] \in EntrySets /\ DOMAIN cps'[i] # {}
    BY <2>1, StaysTyped
  <2> QED BY <2>1, <2>2, StaysTyped, TypeFrom
<1>10. ASSUME Crash PROVE TypeInv'
  <2>1. /\ w' \in [Workers -> WorkerRecord] /\ UNCHANGED <<made, cps, saved, dropped>>
        /\ \A a \in Workers : Shape(w'[a], made', saved')
        /\ tree' \in [Paths -> Nodes] /\ IsTree(tree')
        /\ base' \in {base, NoBase, [base EXCEPT !.undone = FALSE]}
    BY <1>10, CrashStep
  <2>2. BaseTyped(base', made')
    <3>1. BaseTyped(base, made)
      BY StaysTyped
    <3>2. BaseTyped(NoBase, made)
      <4>1. NoBase.undone \in BOOLEAN
        BY BaseFields
      <4> QED BY <4>1, BaseStaysTyped
    <3> DEFINE b == [base EXCEPT !.undone = FALSE]
    <3>3. BaseTyped(b, made)
      <4>1. b.undone = FALSE /\ SameBase(b)
        BY BaseFields
      <4> HIDE DEF b
      <4>2. b.undone \in BOOLEAN /\ ~b.undone
        BY <4>1
      <4> QED BY <4>1, <4>2, BaseStaysTyped
    <3> QED BY <2>1, <3>1, <3>2, <3>3
  <2> QED BY <2>1, <2>2, StaysTyped DEF TypeInv, BaseTyped
<1>11. CASE UNCHANGED vars
  BY <1>11 DEF vars, TypeInv, Shape, Idle, NoRequest
<1> QED BY <1>1, <1>2, <1>3, <1>4, <1>5, <1>6, <1>7, <1>8, <1>9, <1>10, <1>11 DEF Next

-----------------------------------------------------------------------------
(* What a prune may delete                                                  *)

\* A checkpoint that may be deleted still may when more have been saved.
LEMMA SpareGrows ==
  ASSUME NEW S, NEW T, S \subseteq T, IsFiniteSet(T), WorkspaceAssumption,
         NEW i, Spare(i, S)
  PROVE  Spare(i, T)
<1>1. PICK keep \in Keeps : Cardinality({j \in S : j > i}) >= keep
  BY DEF Spare
<1> DEFINE A == {j \in S : j > i}
           B == {j \in T : j > i}
<1>2. A \subseteq B /\ B \subseteq T
  OBVIOUS
<1> HIDE DEF A, B
<1>3. IsFiniteSet(B) /\ IsFiniteSet(A)
  BY <1>2, FS_Subset
<1>4. Cardinality(A) <= Cardinality(B) /\ Cardinality(A) \in Nat /\ Cardinality(B) \in Nat
  BY <1>2, <1>3, FS_Subset, FS_CardinalityType
<1>5. keep \in Nat /\ Cardinality(A) >= keep
  BY <1>1 DEF WorkspaceAssumption, A
<1>6. Cardinality(B) >= keep
  BY <1>4, <1>5
<1> QED BY <1>6 DEF Spare, B

\* What is left to show of a step.
LEMMA PruneFrom ==
  ASSUME WorkspaceAssumption, TypeInv', PruneInv, saved \subseteq saved',
         \A i \in saved' \ (DOMAIN cps' \cup dropped') :
           i \in saved \ (DOMAIN cps \cup dropped) \/ Spare(i, saved),
         \A a \in Workers : w'[a].pc = "pruning" => \A i \in w'[a].left : Spare(i, saved)
  PROVE  PruneInv'
<1>1. IsFiniteSet(saved')
  <2>1. made' \in Nat /\ saved' \subseteq 1..made'
    BY DEF TypeInv
  <2>2. IsFiniteSet(1..made')
    BY <2>1, FS_Interval
  <2> QED BY <2>1, <2>2, FS_Subset
<1>2. \A i : Spare(i, saved) => Spare(i, saved')
  BY <1>1, SpareGrows
<1>3. \A i \in saved \ (DOMAIN cps \cup dropped) : Spare(i, saved)
  BY DEF PruneInv, PruneKeepsNewest, Spare
<1>4. \A i \in saved' \ (DOMAIN cps' \cup dropped') : Spare(i, saved')
  BY <1>2, <1>3
<1>5. PruneKeepsNewest'
  BY <1>4 DEF PruneKeepsNewest, Spare
<1>6. \A a \in Workers : w'[a].pc = "pruning" => \A i \in w'[a].left : Spare(i, saved')
  BY <1>2
<1> QED BY <1>5, <1>6 DEF PruneInv

\* Nothing is pruned at the start.
LEMMA PruneInit ==
  ASSUME WorkspaceAssumption, Init
  PROVE  PruneInv
<1>1. saved = {} /\ \A a \in Workers : w[a].pc = "idle"
  BY DEF Init, Idle
<1> QED BY <1>1 DEF PruneInv, PruneKeepsNewest

\* Every step keeps what a prune may delete.
LEMMA PruneInvStep ==
  ASSUME WorkspaceAssumption, TypeInv, TypeInv', PruneInv, [Next]_vars
  PROVE  PruneInv'
<1>0. \A a \in Workers : w[a].pc = "pruning" => \A i \in w[a].left : Spare(i, saved)
  BY DEF PruneInv
<1>1. ASSUME NEW a \in Workers, Others(a), UNCHANGED <<cps, saved, dropped>>,
             w'[a].pc # "pruning"
      PROVE  PruneInv'
  BY <1>0, <1>1, PruneFrom DEF Others
<1>2. ASSUME NEW a \in Workers, NEW r \in Changes, TakeSnapshot(a, r) PROVE PruneInv'
  BY <1>1, <1>2, SnapshotStep
<1>3. ASSUME NEW a \in Workers, SaveCheckpoint(a) PROVE PruneInv'
  <2>1. /\ Others(a) /\ UNCHANGED dropped /\ w'[a].pc = "saved"
        /\ saved' = saved \cup {w[a].id} /\ DOMAIN cps' = DOMAIN cps \cup {w[a].id}
    BY <1>3, SaveStep
  <2> QED BY <1>0, <2>1, PruneFrom DEF Others
<1>4. ASSUME NEW a \in Workers, Check(a) PROVE PruneInv'
  BY <1>1, <1>4, CheckStep
<1>5. ASSUME NEW a \in Workers, Call(a) PROVE PruneInv'
  BY <1>1, <1>5, CallStep
<1>6. ASSUME NEW a \in Workers, NEW id \in 1..made, LoadCheckpoint(a, id) PROVE PruneInv'
  BY <1>1, <1>6, LoadStep
<1>7. ASSUME NEW a \in Workers, NEW id \in 1..made, DeleteCheckpoint(a, id) PROVE PruneInv'
  <2>1. /\ Others(a) /\ UNCHANGED saved /\ w'[a].pc # "pruning"
        /\ dropped' = dropped \cup {id} /\ DOMAIN cps' = DOMAIN cps \ {id}
    BY <1>7, DropStep
  <2> QED BY <1>0, <2>1, PruneFrom DEF Others
<1>8. ASSUME NEW a \in Workers, RestoreEntry(a) PROVE PruneInv'
  BY <1>1, <1>8, RestoreStep
<1>9. ASSUME NEW a \in Workers, NEW keep \in Keeps, ListCheckpoints(a, keep) PROVE PruneInv'
  <2>1. /\ Others(a) /\ UNCHANGED <<cps, saved, dropped>>
        /\ w'[a].pc = "pruning" => w'[a].left = Outdated(DOMAIN cps, keep)
    BY <1>9, ListStep
  <2>2. ASSUME NEW i \in Outdated(DOMAIN cps, keep) PROVE Spare(i, saved)
    <3>1. Cardinality({j \in DOMAIN cps : j > i}) >= keep
      BY <2>2 DEF Outdated
    <3>2. Spare(i, DOMAIN cps)
      BY <3>1 DEF Spare
    <3>3. DOMAIN cps \subseteq saved /\ IsFiniteSet(saved)
      BY Typed, StaysTyped
    <3> QED BY <3>2, <3>3, SpareGrows
  <2> QED BY <1>0, <2>1, <2>2, PruneFrom DEF Others
<1>10. ASSUME NEW a \in Workers, PruneNext(a) PROVE PruneInv'
  <2>1. /\ Others(a) /\ UNCHANGED <<saved, dropped>> /\ w[a].pc = "pruning"
        /\ \E id \in w[a].left : DOMAIN cps' = DOMAIN cps \ {id}
        /\ w'[a].pc = "pruning" => w'[a].left \subseteq w[a].left
    BY <1>10, PruneStep
  <2> QED BY <1>0, <2>1, PruneFrom DEF Others
<1>11. ASSUME Crash PROVE PruneInv'
  <2>1. /\ UNCHANGED <<cps, saved, dropped>>
        /\ \A a \in Workers : w'[a].pc # "pruning"
    <3>1. \A pc \in Ended \cup {"idle"} : pc # "pruning"
      BY DEF Ended
    <3> QED BY <1>11, <3>1, CrashStep
  <2> QED BY <2>1, PruneFrom
<1>12. CASE UNCHANGED vars
  BY <1>0, <1>12, PruneFrom DEF vars
<1> QED BY <1>2, <1>3, <1>4, <1>5, <1>6, <1>7, <1>8, <1>9, <1>10, <1>11, <1>12 DEF Next

-----------------------------------------------------------------------------
(* The calls of a restore                                                   *)

\* A call of a restore moves every path to what it was, or leaves it.
Mover(c, t, bt) ==
  Works(c, t) => \A q \in Paths : Effect(c, t)[q] \in {t[q], bt[q]}

\* What a restore still has to do for p, call by call.
LEMMA UndoCall ==
  ASSUME WorkspaceAssumption, NEW t \in [Paths -> Nodes], IsTree(t),
         NEW bt \in [Paths -> Nodes], IsTree(bt),
         NEW p \in Paths, NEW calls \in Seq(FsCalls), calls # <<>>, UndoCalls(calls, t, bt, p)
  PROVE  LET c == Head(calls)
             s == Effect(c, t)
         IN  /\ Mover(c, t, bt)
             /\ Works(c, t) /\ Tail(calls) = <<>> => s[p] = bt[p]
             /\ Works(c, t) /\ Tail(calls) # <<>> => UndoCalls(Tail(calls), s, bt, p)
             /\ c.call = "put" => c.path = p /\ IsFile(bt, p)
             /\ /\ \A q \in Paths : bt[q] = Dir => ~IsFile(t, q)
                /\ IsFile(bt, p) => t[p] # Dir
                /\ bt[p] = Absent => Reaches(t, p)
                => Works(c, t)
<1> DEFINE c == Head(calls)
           s == Effect(c, t)
<1>1. bt[p] \in Nodes /\ \A q \in Above(p) : q \in Paths /\ (bt[p] # Absent => bt[q] = Dir)
  BY UptoPrefix DEF IsTree
<1>2. ASSUME bt[p] = Absent, calls = <<RemoveAll(p)>>
      PROVE  /\ Mover(c, t, bt)
             /\ Works(c, t) => s[p] = bt[p]
             /\ Tail(calls) = <<>> /\ c.call # "put"
             /\ Reaches(t, p) => Works(c, t)
  <2>0. c = RemoveAll(p) /\ Tail(calls) = <<>>
    BY <1>2
  <2>1. c \in FsCalls /\ c.call = "removeAll" /\ c.path = p
    BY <2>0, CallFields, NodeFacts
  <2> HIDE DEF c
  <2>2. \A q \in Paths : s[q] = IF IsPrefix(p, q) THEN Absent ELSE t[q]
    <3>1. \A q \in Paths : s[q] = IF IsPrefix(c.path, q) THEN Absent ELSE t[q]
      BY <2>1, EffectAt
    <3> QED BY <2>1, <3>1
  <2>3. \A q \in Paths : IsPrefix(p, q) => bt[q] = Absent
    BY <1>2, NodeFacts, TreePrefix
  <2>4. IsPrefix(p, p)
    BY PathFacts, PrefixOrder
  <2>5. Reaches(t, p) => Works(c, t)
    BY <2>1 DEF Works
  <2> HIDE DEF s
  <2>6. \A q \in Paths : s[q] \in {t[q], bt[q]}
    BY <2>2, <2>3
  <2> QED BY <1>2, <2>0, <2>1, <2>2, <2>4, <2>5, <2>6 DEF Mover, s
<1>3. ASSUME bt[p] = Dir, calls = <<Mkdir(p)>>
      PROVE  /\ Mover(c, t, bt)
             /\ Works(c, t) => s[p] = bt[p]
             /\ Tail(calls) = <<>> /\ c.call # "put"
             /\ (\A q \in Paths : bt[q] = Dir => ~IsFile(t, q)) => Works(c, t)
  <2>0. c = Mkdir(p) /\ Tail(calls) = <<>>
    BY <1>3
  <2>1. c \in FsCalls /\ c.call = "mkdir" /\ c.path = p
    BY <2>0, CallFields, NodeFacts
  <2> HIDE DEF c
  <2>2. \A q \in Paths : s[q] = IF q \in Upto(p) THEN Dir ELSE t[q]
    <3>1. \A q \in Paths : s[q] = IF q \in Upto(c.path) THEN Dir ELSE t[q]
      BY <2>1, EffectAt
    <3> QED BY <2>1, <3>1
  <2>3. \A q \in Upto(p) : q \in Paths /\ bt[q] = Dir
    BY <1>1, <1>3, NodeFacts DEF Above
  <2>4. p \in Upto(p)
    BY UptoPrefix
  <2>5. (\A q \in Paths : bt[q] = Dir => ~IsFile(t, q)) => Works(c, t)
    BY <2>1, <2>3 DEF Works
  <2> HIDE DEF s
  <2>6. \A q \in Paths : s[q] \in {t[q], bt[q]}
    BY <2>2, <2>3
  <2> QED BY <1>3, <2>0, <2>1, <2>2, <2>4, <2>5, <2>6 DEF Mover, s
<1>4. ASSUME IsFile(bt, p), calls = <<Put(p, bt[p])>>, ParentIsDir(t, p)
      PROVE  /\ Mover(c, t, bt)
             /\ Works(c, t) => s[p] = bt[p]
             /\ Tail(calls) = <<>> /\ c.path = p
             /\ t[p] # Dir => Works(c, t)
  <2>1. bt[p] \in Texts
    BY <1>1, <1>4, NodeFacts DEF IsFile
  <2>0. c = Put(p, bt[p]) /\ Tail(calls) = <<>>
    BY <1>4
  <2>2. c \in FsCalls /\ c.call = "put" /\ c.path = p /\ c.text = bt[p]
    BY <2>0, <2>1, CallFields
  <2> HIDE DEF c
  <2>3. \A q \in Paths : s[q] = IF q = p THEN bt[p] ELSE t[q]
    <3>1. \A q \in Paths : s[q] = IF q = c.path THEN c.text ELSE t[q]
      BY <2>2, EffectAt
    <3> QED BY <2>2, <3>1
  <2>4. t[p] # Dir => Works(c, t)
    BY <1>4, <2>2 DEF Works
  <2> HIDE DEF s
  <2>5. \A q \in Paths : s[q] \in {t[q], bt[q]}
    BY <2>3
  <2> QED BY <1>4, <2>0, <2>2, <2>3, <2>4, <2>5 DEF Mover, s
<1>5. ASSUME IsFile(bt, p), calls = WriteCalls(p, bt[p])
      PROVE  /\ Mover(c, t, bt)
             /\ Works(c, t) => UndoCalls(Tail(calls), s, bt, p)
             /\ Tail(calls) # <<>> /\ c.call # "put"
             /\ (\A q \in Paths : bt[q] = Dir => ~IsFile(t, q)) => Works(c, t)
  <2>1. bt[p] # Absent
    BY <1>5 DEF IsFile
  <2>2. /\ c = Mkdir(Parent(p)) /\ Tail(calls) = <<Put(p, bt[p])>>
    BY <1>5 DEF WriteCalls
  <2>3. c \in FsCalls /\ c.call = "mkdir" /\ c.path = Parent(p)
    BY <2>2, CallFields, NodeFacts
  <2>4. Upto(Parent(p)) = Above(p)
    BY UptoParent
  <2> HIDE DEF c
  <2>5. \A q \in Paths : s[q] = IF q \in Above(p) THEN Dir ELSE t[q]
    <3>1. \A q \in Paths : s[q] = IF q \in Upto(c.path) THEN Dir ELSE t[q]
      BY <2>3, EffectAt
    <3> QED BY <2>3, <2>4, <3>1
  <2>6. (\A q \in Paths : bt[q] = Dir => ~IsFile(t, q)) => Works(c, t)
    BY <1>1, <2>1, <2>3, <2>4 DEF Works
  <2> HIDE DEF s
  <2>7. \A q \in Paths : s[q] \in {t[q], bt[q]}
    BY <1>1, <2>1, <2>5
  <2>8. ParentIsDir(s, p)
    BY <1>1, <2>5 DEF ParentIsDir
  <2>9. Tail(calls) # <<>>
    <3>1. \A x : <<x>> # <<>>
      OBVIOUS
    <3>2. <<Put(p, bt[p])>> # <<>>
      BY <3>1, Zenon
    <3> QED BY <2>2, <3>2, Zenon
  <2> QED BY <1>5, <2>2, <2>3, <2>6, <2>7, <2>8, <2>9 DEF Mover, UndoCalls, s
<1>6. \/ bt[p] = Absent /\ calls = <<RemoveAll(p)>>
      \/ bt[p] = Dir /\ calls = <<Mkdir(p)>>
      \/ IsFile(bt, p) /\ calls = <<Put(p, bt[p])>> /\ ParentIsDir(t, p)
      \/ IsFile(bt, p) /\ calls = WriteCalls(p, bt[p])
  BY DEF UndoCalls, RestoreCalls, IsFile
<1>7. bt[p] = Absent => ~IsFile(bt, p)
  BY DEF IsFile
<1>8. bt[p] = Dir => ~IsFile(bt, p)
  BY DEF IsFile
<1> HIDE DEF c, s
<1>9. CASE bt[p] = Absent /\ calls = <<RemoveAll(p)>>
  BY <1>2, <1>9 DEF c, s
<1>10. CASE bt[p] = Dir /\ calls = <<Mkdir(p)>>
  BY <1>3, <1>10 DEF c, s
<1>11. CASE IsFile(bt, p) /\ calls = <<Put(p, bt[p])>> /\ ParentIsDir(t, p)
  BY <1>4, <1>11 DEF c, s
<1>12. CASE IsFile(bt, p) /\ calls = WriteCalls(p, bt[p])
  BY <1>5, <1>12 DEF c, s
<1> QED BY <1>6, <1>9, <1>10, <1>11, <1>12

-----------------------------------------------------------------------------
(* The calls of the request                                                 *)

\* A kept file at or below a named path is recorded.
LEMMA Covered ==
  ASSUME WorkspaceAssumption, NEW bt \in [Paths -> Nodes], NEW r \in Changes,
         NEW p \in Named(r), NEW q \in Paths, IsPrefix(p, q), Kept(bt, q)
  PROVE  q \in DOMAIN Recorded(r, bt)
<1>1. Named(r) \subseteq Paths /\ Named(r) # {}
  BY RequestKinds
<1>2. DOMAIN Recorded(r, bt) = UNION {Walk(bt, s) : s \in Named(r)}
  BY <1>1, SnapshotFacts DEF Recorded
<1>3. q \in Walk(bt, p)
  <2>1. CASE q = p
    BY <2>1 DEF Walk
  <2>2. CASE q # p
    <3>1. q \in Below(p)
      BY <2>2, BelowPrefix
    <3>2. bt[q] # Absent /\ \A s \in Upto(q) : ~PassedBy(bt, s)
      BY DEF Kept, IsFile
    <3> QED BY <3>1, <3>2 DEF Walk
  <2> QED BY <2>1, <2>2
<1> QED BY <1>2, <1>3

\* A call of the request touches no kept file that is not recorded.
LEMMA OwnKeeps ==
  ASSUME WorkspaceAssumption, NEW t \in [Paths -> Nodes], NEW bt \in [Paths -> Nodes],
         NEW r \in Changes, \A p \in Named(r) : Reaches(bt, p),
         NEW c \in FsCalls, OwnCall(c, r, bt), Promise(r, t, bt)
  PROVE  Promise(r, Effect(c, t), bt)
<1> SUFFICES ASSUME NEW q \in Paths \ DOMAIN Recorded(r, bt), Kept(bt, q)
             PROVE  Effect(c, t)[q] = t[q]
  BY DEF Promise
<1>1. Named(r) \subseteq Paths /\ Named(r) # {}
  BY RequestKinds
<1>2. \A p \in Named(r) : ~IsPrefix(p, q)
  BY Covered
<1>3. \A p \in Named(r) : q # p
  BY <1>1, <1>2, PathFacts, PrefixOrder
<1>4. CASE c.call = "mkdir" /\ \E p \in Named(r) : c.path = Parent(p)
  <2>1. PICK p \in Named(r) : c.path = Parent(p)
    BY <1>4
  <2>2. Upto(c.path) = Above(p)
    BY <1>1, <2>1, UptoParent
  <2>3. q \notin Above(p)
    BY DEF Reaches, Kept
  <2>4. Effect(c, t)[q] = IF q \in Upto(c.path) THEN Dir ELSE t[q]
    <3>1. \A x \in Paths : Effect(c, t)[x] = IF x \in Upto(c.path) THEN Dir ELSE t[x]
      BY <1>4, EffectAt
    <3> QED BY <3>1
  <2> QED BY <2>2, <2>3, <2>4
<1>5. CASE c.call = "put" /\ c.path \in Named(r)
  <2>1. Effect(c, t)[q] = IF q = c.path THEN c.text ELSE t[q]
    <3>1. \A x \in Paths : Effect(c, t)[x] = IF x = c.path THEN c.text ELSE t[x]
      BY <1>5, EffectAt
    <3> QED BY <3>1
  <2> QED BY <1>3, <1>5, <2>1
<1>6. CASE c.call = "unlink" /\ c.path \in Named(r)
  <2>1. Effect(c, t)[q] = IF q = c.path THEN Absent ELSE t[q]
    <3>1. \A x \in Paths : Effect(c, t)[x] = IF x = c.path THEN Absent ELSE t[x]
      BY <1>6, RemovedAt
    <3> QED BY <3>1
  <2> QED BY <1>3, <1>6, <2>1
<1>7. CASE c.call = "removeAll" /\ c.path \in Named(r)
  <2>1. Effect(c, t)[q] = IF IsPrefix(c.path, q) THEN Absent ELSE t[q]
    <3>1. \A x \in Paths : Effect(c, t)[x] = IF IsPrefix(c.path, x) THEN Absent ELSE t[x]
      BY <1>7, RemovedAt
    <3> QED BY <3>1
  <2> QED BY <1>2, <1>7, <2>1
<1>8. CASE c.call = "rename" /\ r.do = "move" /\ c.path = r.path /\ c.to = r.to
  <2>1. Effect(c, t)[q] = IF IsPrefix(c.to, q) THEN Moved(t, c.path, c.to, q)
                          ELSE IF IsPrefix(c.path, q) THEN Absent ELSE t[q]
    <3>1. \A x \in Paths :
            Effect(c, t)[x] = IF IsPrefix(c.to, x) THEN Moved(t, c.path, c.to, x)
                              ELSE IF IsPrefix(c.path, x) THEN Absent ELSE t[x]
      BY <1>8, RenamedAt
    <3> QED BY <3>1
  <2>2. c.path \in Named(r) /\ c.to \in Named(r)
    BY <1>8, RequestKinds
  <2> QED BY <1>2, <2>1, <2>2
<1> QED BY <1>4, <1>5, <1>6, <1>7, <1>8 DEF OwnCall

\* A mild request writes neither over a directory nor above a path it names.
LEMMA MildPut ==
  ASSUME WorkspaceAssumption, NEW t \in [Paths -> Nodes], NEW bt \in [Paths -> Nodes],
         NEW r \in Changes, Mild(r), Kinds(r, t, bt),
         NEW c \in FsCalls, OwnCall(c, r, bt), c.call = "put", Works(c, t)
  PROVE  bt[c.path] # Dir /\ \A p \in Named(r) : c.path \notin Above(p)
<1>1. c.path \in Named(r) /\ r.do \in {"write", "edit"}
  BY DEF OwnCall, Mild
<1>2. Named(r) = {c.path} /\ c.path \in Paths
  <2>1. Named(r) = {r.path} /\ r.path \in Paths
    BY <1>1, RequestKinds
  <2> QED BY <1>1, <2>1
<1>3. t[c.path] # Dir
  BY DEF Works
<1>4. bt[c.path] # Dir
  <2> SUFFICES ASSUME bt[c.path] = Dir PROVE FALSE
    OBVIOUS
  <2>1. ~IsFile(t, c.path) /\ t[c.path] # Absent
    BY <1>1, <1>2, NodeFacts DEF Kinds
  <2> QED BY <1>3, <2>1 DEF IsFile
<1>5. c.path \notin Above(c.path)
  BY DEF Above
<1> QED BY <1>2, <1>4, <1>5

\* What a call does to one path keeps what a restore needs of it.
LEMMA KindsKept ==
  ASSUME WorkspaceAssumption, NEW t, NEW bt, NEW r, Kinds(r, t, bt), NEW s,
         Mild(r) => \A q \in Paths :
           \/ s[q] = t[q]
           \/ s[q] = Absent /\ r.do \notin {"write", "edit"}
           \/ s[q] = Dir /\ ~IsFile(bt, q)
           \/ s[q] \in Texts /\ bt[q] # Dir /\ \A p \in Named(r) : q \notin Above(p)
  PROVE  Kinds(r, s, bt)
<1> SUFFICES ASSUME Mild(r), NEW q \in Paths
             PROVE  /\ bt[q] = Dir => ~IsFile(s, q)
                    /\ IsFile(bt, q) => s[q] # Dir
                    /\ \A p \in Named(r) : q \in Above(p) => ~IsFile(s, q)
                    /\ r.do \in {"write", "edit"} /\ bt[q] # Absent => s[q] # Absent
  BY DEF Kinds
<1>1. /\ bt[q] = Dir => ~IsFile(t, q)
      /\ IsFile(bt, q) => t[q] # Dir
      /\ \A p \in Named(r) : q \in Above(p) => ~IsFile(t, q)
      /\ r.do \in {"write", "edit"} /\ bt[q] # Absent => t[q] # Absent
  BY DEF Kinds
<1>2. Absent # Dir /\ \A x \in Texts : x # Absent /\ x # Dir
  BY NodeFacts
<1>3. CASE s[q] = t[q]
  BY <1>1, <1>3 DEF IsFile
<1>4. CASE s[q] = Absent /\ r.do \notin {"write", "edit"}
  BY <1>2, <1>4 DEF IsFile
<1>5. CASE s[q] = Dir /\ ~IsFile(bt, q)
  BY <1>2, <1>5 DEF IsFile
<1>6. CASE s[q] \in Texts /\ bt[q] # Dir /\ \A p \in Named(r) : q \notin Above(p)
  BY <1>2, <1>6
<1> QED BY <1>3, <1>4, <1>5, <1>6

\* A call of a mild request leaves what a restore needs to work.
LEMMA OwnKinds ==
  ASSUME WorkspaceAssumption, NEW t \in [Paths -> Nodes], IsTree(t),
         NEW bt \in [Paths -> Nodes], IsTree(bt),
         NEW r \in Changes, \A p \in Named(r) : Reaches(bt, p), Kinds(r, t, bt),
         NEW c \in FsCalls, OwnCall(c, r, bt), Works(c, t)
  PROVE  Kinds(r, Effect(c, t), bt)
<1> DEFINE s == Effect(c, t)
<1>1. SUFFICES ASSUME Mild(r), NEW q \in Paths
               PROVE  \/ s[q] = t[q]
                      \/ s[q] = Absent /\ r.do \notin {"write", "edit"}
                      \/ s[q] = Dir /\ ~IsFile(bt, q)
                      \/ /\ s[q] \in Texts /\ bt[q] # Dir
                         /\ \A p \in Named(r) : q \notin Above(p)
  <2> HIDE DEF s
  <2>1. Kinds(r, s, bt)
    BY <1>1, KindsKept
  <2> QED BY <2>1 DEF s
<1>2. Named(r) \subseteq Paths /\ Named(r) # {}
  BY RequestKinds
<1>3. CASE c.call = "mkdir" /\ \E p \in Named(r) : c.path = Parent(p)
  <2>1. PICK p \in Named(r) : c.path = Parent(p)
    BY <1>3
  <2>2. Upto(c.path) = Above(p)
    BY <1>2, <2>1, UptoParent
  <2>3. s[q] = IF q \in Upto(c.path) THEN Dir ELSE t[q]
    BY <1>3, EffectAt
  <2>4. q \in Above(p) => ~IsFile(bt, q)
    BY DEF Reaches
  <2> HIDE DEF s
  <2> QED BY <2>2, <2>3, <2>4
<1>4. CASE c.call = "put" /\ c.path \in Named(r)
  <2>1. s[q] = (IF q = c.path THEN c.text ELSE t[q]) /\ c.text \in Texts
    BY <1>4, EffectAt
  <2>2. bt[c.path] # Dir /\ \A p \in Named(r) : c.path \notin Above(p)
    BY <1>1, <1>4, MildPut
  <2> HIDE DEF s
  <2> QED BY <2>1, <2>2
<1>5. CASE /\ c.call \in {"unlink", "removeAll"}
           /\ (r.do \in {"delete", "patch"} \/ (r.do = "move" /\ r.overwrite))
  <2>1. s[q] = t[q] \/ s[q] = Absent
    <3>1. c.call = "unlink" => s[q] = IF q = c.path THEN Absent ELSE t[q]
      BY RemovedAt
    <3>2. c.call = "removeAll" =>
            \A x \in Paths : s[x] = IF IsPrefix(c.path, x) THEN Absent ELSE t[x]
      BY RemovedAt
    <3> HIDE DEF s
    <3> QED BY <1>5, <3>1, <3>2
  <2> HIDE DEF s
  <2> QED BY <1>5, <2>1
<1>6. CASE /\ c.call = "rename" /\ r.do = "move" /\ c.path = r.path /\ c.to = r.to
           /\ (r.overwrite \/ bt[r.to] = Absent)
  <2>1. s[q] = IF IsPrefix(c.to, q) THEN Moved(t, c.path, c.to, q)
               ELSE IF IsPrefix(c.path, q) THEN Absent ELSE t[q]
    <3>1. \A x \in Paths : s[x] = IF IsPrefix(c.to, x) THEN Moved(t, c.path, c.to, x)
                               ELSE IF IsPrefix(c.path, x) THEN Absent ELSE t[x]
      BY <1>6, RenamedAt
    <3> QED BY <3>1
  <2>2. s \in [Paths -> Nodes] /\ c.to \in Paths /\ c.path \in Paths
    BY <1>6, RenamedAt
  <2>3. Named(r) = {c.path, c.to}
    BY <1>6, RequestKinds
  <2>4. bt[c.to] = Absent
    BY <1>1, <1>6 DEF Mild
  <2>5. t[c.path] # Absent /\ t[c.to] # Dir
    BY <1>6 DEF Works
  <2> HIDE DEF s
  <2>6. CASE IsPrefix(c.to, q)
    <3>1. bt[q] = Absent
      BY <2>2, <2>4, <2>6, NodeFacts, TreePrefix
    <3>2. q \notin Above(c.to)
      <4> SUFFICES ASSUME q \in Above(c.to) PROVE FALSE
        OBVIOUS
      <4>1. IsPrefix(q, c.to) /\ q # c.to
        BY <2>2, UptoPrefix
      <4>2. q \in Seq(Nat) /\ c.to \in Seq(Nat)
        BY <2>2, PathFacts
      <4> QED BY <2>6, <4>1, <4>2, PrefixOrder
    <3>3. q \notin Above(c.path)
      <4> SUFFICES ASSUME q \in Above(c.path) PROVE FALSE
        OBVIOUS
      <4>1. IsPrefix(q, c.path) /\ q # c.path
        BY <2>2, UptoPrefix
      <4>2. IsPrefix(c.to, c.path)
        BY <2>2, <2>6, <4>1, PathFacts, PrefixOrder
      <4>3. c.to # c.path
        BY <2>2, <2>6, <4>1, PathFacts, PrefixOrder
      <4>4. t[c.to] = Dir
        BY <2>2, <2>5, <4>2, <4>3, TreePrefix
      <4> QED BY <2>5, <4>4
    <3>4. s[q] \in Nodes
      BY <2>2
    <3>5. s[q] = Absent \/ s[q] = Dir \/ s[q] \in Texts
      BY <3>4, NodeFacts
    <3>6. ~IsFile(bt, q) /\ bt[q] # Dir
      BY <3>1, NodeFacts DEF IsFile
    <3> QED BY <1>6, <2>3, <3>2, <3>3, <3>5, <3>6
  <2>7. CASE ~IsPrefix(c.to, q)
    BY <1>6, <2>1, <2>7
  <2> QED BY <2>6, <2>7
<1> QED BY <1>3, <1>4, <1>5, <1>6 DEF OwnCall

-----------------------------------------------------------------------------
(* The last snapshot: steps that leave the tree alone                       *)

\* Who a worker is does not change once it has begun.
Role(b) ==
  \/ w'[b].id = w[b].id /\ w'[b].req = w[b].req
  \/ w[b].id = 0 /\ (w'[b].id = 0 \/ w'[b].req.do = "restore")

\* The history goes on, or was given up.
BaseGoesOn == base' = NoBase \/ SameBase(base')

\* Who took the snapshot, and for which request, does not change.
LEMMA RoleFacts ==
  ASSUME WorkspaceAssumption, NEW b \in Workers, Role(b)
  PROVE  /\ SameBase(base') => /\ Owns(w'[b], base') <=> Owns(w[b], base)
                               /\ Owns(w[b], base) => w'[b].req = w[b].req /\ w'[b].id = w[b].id
         /\ w'[b].req \in Changes /\ w'[b].id # 0
              => w'[b].id = w[b].id /\ w'[b].req = w[b].req
         /\ ~Owns(w'[b], NoBase) /\ ~Undoes(w'[b], NoBase)
<1>1. w'[b].req.do = "restore" => w'[b].req \notin Changes
  BY RequestDo
<1>2. NoBase.id = 0
  BY DEF NoBase
<1> QED BY <1>1, <1>2 DEF Role, Owns, Undoes, SameBase

\* Every checkpoint has one owner after a step that changes no role.
LEMMA IdsKept ==
  ASSUME WorkspaceAssumption, IdsInv, \A b \in Workers : Role(b), BaseGoesOn
  PROVE  IdsInv'
<1>1. \A a, b \in Workers :
        w'[a].req \in Changes /\ w'[b].req \in Changes /\ w'[a].id = w'[b].id /\ w'[a].id # 0
        => a = b
  <2> SUFFICES ASSUME NEW a \in Workers, NEW b \in Workers,
                      w'[a].req \in Changes, w'[b].req \in Changes,
                      w'[a].id = w'[b].id, w'[a].id # 0
               PROVE  a = b
    OBVIOUS
  <2>1. w'[a].id = w[a].id /\ w'[a].req = w[a].req /\ w'[b].id = w[b].id /\ w'[b].req = w[b].req
    BY RoleFacts
  <2> QED BY <2>1 DEF IdsInv
<1>2. base'.id # 0 => \E a \in Workers : Owns(w'[a], base')
  <2>1. CASE base' = NoBase
    BY <2>1 DEF NoBase
  <2>2. CASE SameBase(base')
    <3>1. base'.id = base.id
      BY <2>2 DEF SameBase
    <3>2. \A a \in Workers : Owns(w'[a], base') <=> Owns(w[a], base)
      BY <2>2, RoleFacts
    <3> QED BY <3>1, <3>2 DEF IdsInv
  <2> QED BY <2>1, <2>2 DEF BaseGoesOn
<1> QED BY <1>1, <1>2 DEF IdsInv

\* Nothing is said of a history that was given up.
LEMMA NoBaseHolds ==
  ASSUME base' = NoBase
  PROVE  OwnerInv' /\ UndoInv' /\ TreeInv'
<1>1. base'.id = 0
  BY DEF NoBase
<1> QED BY <1>1 DEF OwnerInv, UndoInv, TreeInv, Owns

\* A step of one worker that does not change the tree.
LEMMA CalmStep ==
  ASSUME WorkspaceAssumption, OwnerInv, UndoInv, TreeInv, NEW a \in Workers, Others(a), Role(a),
         UNCHANGED <<tree, base>>,
         Owns(w[a], base) => OwnerShape(w'[a], tree, base.tree),
         \A b \in Workers : Owns(w[b], base) /\ Undoes(w'[a], base) =>
           /\ UndoShape(w[b].req, w'[a], tree, base.tree)
           /\ Mild(w[b].req) => w'[a].pc # "failed",
         \A b \in Workers : Owns(w[b], base) /\ base.id \in DOMAIN cps' =>
           cps'[base.id] = Recorded(w[b].req, base.tree)
  PROVE  OwnerInv' /\ UndoInv' /\ TreeInv'
<1>1. \A b \in Workers : Role(b)
  BY DEF Others, Role
<1>2. \A b \in Workers : /\ Owns(w'[b], base) <=> Owns(w[b], base)
                         /\ Owns(w[b], base) => w'[b].req = w[b].req
  <2>1. base' = base
    OBVIOUS
  <2> SUFFICES ASSUME NEW b \in Workers
               PROVE  /\ Owns(w'[b], base) <=> Owns(w[b], base)
                      /\ Owns(w[b], base) => w'[b].req = w[b].req
    OBVIOUS
  <2>2. w'[b].req.do = "restore" => w'[b].req \notin Changes
    BY RequestDo
  <2> QED BY <1>1, <2>2 DEF Role, Owns
<1>3. OwnerInv'
  <2> SUFFICES ASSUME NEW b \in Workers, Owns(w'[b], base)
               PROVE  /\ OwnerShape(w'[b], tree, base.tree)
                      /\ base.id \in DOMAIN cps' =>
                           cps'[base.id] = Recorded(w'[b].req, base.tree)
    BY DEF OwnerInv
  <2>1. Owns(w[b], base) /\ w'[b].req = w[b].req
    BY <1>2
  <2>2. OwnerShape(w'[b], tree, base.tree)
    BY <2>1 DEF Others, OwnerInv
  <2> QED BY <2>1, <2>2
<1>4. UndoInv'
  <2> SUFFICES ASSUME NEW b \in Workers, NEW u \in Workers,
                      Owns(w'[b], base), Undoes(w'[u], base)
               PROVE  /\ UndoShape(w'[b].req, w'[u], tree, base.tree)
                      /\ Mild(w'[b].req) => w'[u].pc # "failed"
    BY DEF UndoInv
  <2>1. Owns(w[b], base) /\ w'[b].req = w[b].req
    BY <1>2
  <2>2. CASE u = a
    BY <2>1, <2>2
  <2>3. CASE u # a
    <3>1. w'[u] = w[u]
      BY <2>3 DEF Others
    <3> QED BY <2>1, <3>1 DEF UndoInv
  <2> QED BY <2>2, <2>3
<1>5. TreeInv'
  <2> SUFFICES ASSUME NEW b \in Workers, Owns(w'[b], base)
               PROVE  /\ Promise(w'[b].req, tree, base.tree) /\ Kinds(w'[b].req, tree, base.tree)
                      /\ base.undone => AllBack(w'[b].req, tree, base.tree)
    BY DEF TreeInv
  <2>1. Owns(w[b], base) /\ w'[b].req = w[b].req
    BY <1>2
  <2> QED BY <2>1 DEF TreeInv
<1> QED BY <1>3, <1>4, <1>5

\* A worker that says nothing more of the snapshot, and no change of a
\* checkpoint: the case of most steps.
LEMMA QuietStep ==
  ASSUME WorkspaceAssumption, OwnerInv, UndoInv, TreeInv, NEW a \in Workers, Others(a), Role(a),
         UNCHANGED <<tree, base>>,
         w'[a].pc \notin {"snapped", "saved", "calling"},
         w'[a].pc = "failed" =>
           \A b \in Workers : Owns(w[b], base) /\ Undoes(w'[a], base) => ~Mild(w[b].req),
         DOMAIN cps' \subseteq DOMAIN cps, \A i \in DOMAIN cps' : cps'[i] = cps[i]
  PROVE  OwnerInv' /\ UndoInv' /\ TreeInv'
<1>1. Owns(w[a], base) => OwnerShape(w'[a], tree, base.tree)
  <2> SUFFICES ASSUME Owns(w[a], base) PROVE OwnerShape(w'[a], tree, base.tree)
    OBVIOUS
  <2>1. w'[a].req = w[a].req
    BY DEF Role, Owns
  <2>2. OwnerShape(w[a], tree, base.tree)
    BY DEF OwnerInv
  <2> QED BY <2>1, <2>2 DEF OwnerShape
<1>2. \A b \in Workers : Owns(w[b], base) /\ Undoes(w'[a], base) =>
        /\ UndoShape(w[b].req, w'[a], tree, base.tree)
        /\ Mild(w[b].req) => w'[a].pc # "failed"
  BY DEF UndoShape, Undoes
<1>3. \A b \in Workers : Owns(w[b], base) /\ base.id \in DOMAIN cps' =>
        cps'[base.id] = Recorded(w[b].req, base.tree)
  BY DEF OwnerInv
<1> QED BY <1>1, <1>2, <1>3, CalmStep

\* The four parts that speak of the last snapshot.
BaseInv == IdsInv /\ OwnerInv /\ UndoInv /\ TreeInv

\* The same, of a step of one worker.
LEMMA IdsStay ==
  ASSUME WorkspaceAssumption, IdsInv, NEW a \in Workers, Others(a), Role(a),
         UNCHANGED base \/ BaseGoesOn, TypeInv
  PROVE  IdsInv'
<1>1. \A b \in Workers : Role(b)
  BY DEF Others, Role
<1>2. SameBase(base)
  BY BaseFields
<1>3. BaseGoesOn
  BY <1>2 DEF BaseGoesOn, SameBase
<1> QED BY <1>1, <1>3, IdsKept

\* A tree compared with itself.
LEMMA SameTree ==
  ASSUME WorkspaceAssumption, NEW t \in [Paths -> Nodes], NEW r \in Changes,
         \A p \in Named(r) : Reaches(t, p)
  PROVE  Promise(r, t, t) /\ Kinds(r, t, t) /\ AllBack(r, t, t)
<1>1. Promise(r, t, t) /\ AllBack(r, t, t)
  BY DEF Promise, AllBack
<1>2. Kinds(r, t, t)
  BY DEF Kinds, IsFile, Reaches
<1> QED BY <1>1, <1>2

\* TakeSnapshot: a new history begins, and nothing has been done yet.
LEMMA SnapshotBase ==
  ASSUME WorkspaceAssumption, TypeInv, BaseInv, NEW a \in Workers, NEW r \in Changes,
         TakeSnapshot(a, r)
  PROVE  BaseInv'
<1>1. /\ Others(a) /\ w[a] = Idle /\ UNCHANGED <<tree, cps, saved, dropped>>
      /\ w'[a].req = r
      /\ \/ /\ \A p \in Named(r) : Reaches(tree, p)
            /\ made' = made + 1 /\ base' = [id |-> made + 1, tree |-> tree, undone |-> FALSE]
            /\ w'[a].pc = "snapped" /\ w'[a].id = made + 1
            /\ w'[a].entries = Snapshot(tree, Named(r)) /\ w'[a].calls = <<>>
         \/ /\ UNCHANGED <<made, base>>
            /\ w'[a].pc = "failed" /\ w'[a].id = 0
  BY SnapshotStep
<1>2. r.do # "restore" /\ w[a].id = 0
  BY <1>1, RequestDo DEF Idle
<1>3. CASE UNCHANGED <<made, base>> /\ w'[a].pc = "failed" /\ w'[a].id = 0
  <2>1. Role(a)
    BY <1>2, <1>3 DEF Role
  <2>2. IdsInv'
    BY <1>1, <1>3, <2>1, IdsStay DEF BaseInv
  <2>3. ~Undoes(w'[a], base)
    BY <1>1, <1>2 DEF Undoes
  <2>4. OwnerInv' /\ UndoInv' /\ TreeInv'
    BY <1>1, <1>3, <2>1, <2>3, QuietStep DEF BaseInv
  <2> QED BY <2>2, <2>4 DEF BaseInv
<1>4. CASE /\ \A p \in Named(r) : Reaches(tree, p)
           /\ made' = made + 1 /\ base' = [id |-> made + 1, tree |-> tree, undone |-> FALSE]
           /\ w'[a].pc = "snapped" /\ w'[a].id = made + 1
           /\ w'[a].entries = Snapshot(tree, Named(r)) /\ w'[a].calls = <<>>
  <2>1. base'.id = made + 1 /\ base'.tree = tree /\ base'.undone = FALSE
    BY <1>4
  <2>2. made \in Nat /\ made + 1 # 0 /\ \A b \in Workers : w[b].id # made + 1
    BY Typed
  <2>3. \A b \in Workers : w'[b].id = made + 1 => b = a
    BY <1>1, <2>2 DEF Others
  <2>4. Owns(w'[a], base') /\ \A b \in Workers : Owns(w'[b], base') => b = a
    BY <1>1, <1>4, <2>1, <2>2, <2>3 DEF Owns
  <2>5. \A u \in Workers : ~Undoes(w'[u], base')
    BY <1>1, <1>2, <2>1, <2>3 DEF Undoes
  <2>6. IdsInv'
    <3> SUFFICES ASSUME NEW b \in Workers, NEW d \in Workers,
                        w'[b].req \in Changes, w'[d].req \in Changes,
                        w'[b].id = w'[d].id, w'[b].id # 0
                 PROVE  b = d
      BY <2>4 DEF IdsInv
    <3>1. CASE b = a \/ d = a
      BY <1>4, <2>3, <3>1
    <3>2. CASE b # a /\ d # a
      BY <1>1, <3>2 DEF Others, BaseInv, IdsInv
    <3> QED BY <3>1, <3>2
  <2>7. OwnerShape(w'[a], tree, tree)
    BY <1>1, <1>4 DEF OwnerShape, Recorded
  <2>8. made + 1 \notin DOMAIN cps
    BY <2>2 DEF TypeInv
  <2>9. OwnerInv'
    BY <1>1, <2>1, <2>4, <2>7, <2>8 DEF OwnerInv
  <2>10. UndoInv'
    BY <2>5 DEF UndoInv
  <2>11. Promise(r, tree, tree) /\ Kinds(r, tree, tree)
    BY <1>4, SameTree DEF TypeInv
  <2>12. TreeInv'
    BY <1>1, <2>1, <2>4, <2>11 DEF TreeInv
  <2> QED BY <2>6, <2>9, <2>10, <2>12 DEF BaseInv
<1> QED BY <1>1, <1>3, <1>4

\* SaveCheckpoint: the checkpoint of the snapshot is what was recorded.
LEMMA SaveBase ==
  ASSUME WorkspaceAssumption, TypeInv, BaseInv, NEW a \in Workers, SaveCheckpoint(a)
  PROVE  BaseInv'
<1>1. /\ Others(a) /\ UNCHANGED <<tree, base>>
      /\ w[a].pc = "snapped" /\ w[a].id \in 1..made
      /\ w'[a].pc = "saved" /\ w'[a].req = w[a].req /\ w'[a].id = w[a].id
      /\ DOMAIN cps' = DOMAIN cps \cup {w[a].id}
      /\ \A i \in DOMAIN cps' : cps'[i] = IF i = w[a].id THEN w[a].entries ELSE cps[i]
  BY SaveStep
<1>2. w[a].req \in Changes
  BY <1>1, Typed DEF Shape
<1>3. Role(a)
  BY <1>1 DEF Role
<1>4. Owns(w[a], base) => OwnerShape(w'[a], tree, base.tree)
  <2> SUFFICES ASSUME Owns(w[a], base) PROVE OwnerShape(w'[a], tree, base.tree)
    OBVIOUS
  <2>1. OwnerShape(w[a], tree, base.tree)
    BY DEF BaseInv, OwnerInv
  <2> QED BY <1>1, <2>1 DEF OwnerShape
<1>5. ~Undoes(w'[a], base)
  BY <1>1, <1>2, RequestDo DEF Undoes
<1>6. \A b \in Workers : Owns(w[b], base) /\ base.id \in DOMAIN cps' =>
        cps'[base.id] = Recorded(w[b].req, base.tree)
  <2> SUFFICES ASSUME NEW b \in Workers, Owns(w[b], base), base.id \in DOMAIN cps'
               PROVE  cps'[base.id] = Recorded(w[b].req, base.tree)
    OBVIOUS
  <2>1. CASE base.id = w[a].id
    <3>1. a = b
      BY <1>2, <2>1 DEF Owns, BaseInv, IdsInv
    <3>2. w[a].entries = Recorded(w[a].req, base.tree)
      BY <1>1, <3>1 DEF BaseInv, OwnerInv, OwnerShape
    <3> QED BY <1>1, <2>1, <3>1, <3>2
  <2>2. CASE base.id # w[a].id
    BY <1>1, <2>2 DEF BaseInv, OwnerInv
  <2> QED BY <2>1, <2>2
<1>7. IdsInv'
  BY <1>1, <1>3, IdsStay DEF BaseInv
<1>8. OwnerInv' /\ UndoInv' /\ TreeInv'
  BY <1>1, <1>3, <1>4, <1>5, <1>6, CalmStep DEF BaseInv
<1> QED BY <1>7, <1>8 DEF BaseInv

\* Check: the calls of the request are calls on the paths it names.
LEMMA CheckBase ==
  ASSUME WorkspaceAssumption, TypeInv, BaseInv, NEW a \in Workers, Check(a)
  PROVE  BaseInv'
<1>1. /\ Others(a) /\ UNCHANGED <<tree, made, cps, saved, dropped, base>>
      /\ w[a].pc = "saved" /\ w[a].req \in Changes
      /\ w'[a].req = w[a].req /\ w'[a].id = w[a].id
      /\ \/ w'[a].pc \in {"done", "failed"}
         \/ /\ Accepted(w[a].req, tree)
            /\ w'[a].pc = "calling" /\ w'[a].calls = Calls(w[a].req, tree)
  BY CheckStep
<1>2. Role(a)
  BY <1>1 DEF Role
<1>3. Owns(w[a], base) => OwnerShape(w'[a], tree, base.tree)
  <2> SUFFICES ASSUME Owns(w[a], base) PROVE OwnerShape(w'[a], tree, base.tree)
    OBVIOUS
  <2>1. OwnerShape(w[a], tree, base.tree)
    BY DEF BaseInv, OwnerInv
  <2>2. tree = base.tree
    BY <1>1, <2>1 DEF OwnerShape
  <2>3. w'[a].pc = "calling" =>
          \A i \in DOMAIN w'[a].calls : OwnCall(w'[a].calls[i], w'[a].req, base.tree)
    BY <1>1, <2>2, OwnCalls DEF TypeInv
  <2> QED BY <1>1, <2>1, <2>3 DEF OwnerShape
<1>4. ~Undoes(w'[a], base)
  BY <1>1, RequestDo DEF Undoes
<1>5. IdsInv'
  BY <1>1, <1>2, IdsStay DEF BaseInv
<1>6. \A b \in Workers : Owns(w[b], base) /\ base.id \in DOMAIN cps' =>
        cps'[base.id] = Recorded(w[b].req, base.tree)
  BY <1>1 DEF BaseInv, OwnerInv
<1>7. OwnerInv' /\ UndoInv' /\ TreeInv'
  BY <1>1, <1>2, <1>3, <1>4, <1>6, CalmStep DEF BaseInv
<1> QED BY <1>5, <1>7 DEF BaseInv

\* LoadCheckpoint: a restore begins with what was recorded.
LEMMA LoadBase ==
  ASSUME WorkspaceAssumption, TypeInv, BaseInv, NEW a \in Workers, NEW id \in 1..made,
         LoadCheckpoint(a, id)
  PROVE  BaseInv'
<1>1. /\ Others(a) /\ w[a] = Idle /\ UNCHANGED <<tree, made, cps, saved, dropped, base>>
      /\ w'[a].req = [do |-> "restore"]
      /\ \/ /\ id \in DOMAIN cps /\ w'[a].pc = "calling" /\ w'[a].id = id
            /\ w'[a].entries = cps[id] /\ w'[a].left = DOMAIN cps[id]
            /\ w'[a].calls = <<>>
         \/ w'[a].pc = "failed" /\ w'[a].id = 0
  BY LoadStep
<1>2. w[a].id = 0 /\ w'[a].req.do = "restore"
  BY <1>1, RequestDo DEF Idle
<1>3. Role(a)
  BY <1>2 DEF Role
<1>4. ~Owns(w[a], base)
  BY <1>2 DEF Owns
<1>5. \A b \in Workers : Owns(w[b], base) /\ Undoes(w'[a], base) =>
        /\ UndoShape(w[b].req, w'[a], tree, base.tree)
        /\ Mild(w[b].req) => w'[a].pc # "failed"
  <2> SUFFICES ASSUME NEW b \in Workers, Owns(w[b], base), Undoes(w'[a], base)
               PROVE  /\ UndoShape(w[b].req, w'[a], tree, base.tree)
                      /\ Mild(w[b].req) => w'[a].pc # "failed"
    OBVIOUS
  <2>1. /\ w'[a].id # 0 /\ w'[a].id = base.id
    BY DEF Undoes
  <2>2. /\ id = base.id /\ id \in DOMAIN cps /\ w'[a].pc = "calling" /\ w'[a].calls = <<>>
        /\ w'[a].entries = cps[id] /\ w'[a].left = DOMAIN cps[id]
    BY <1>1, <2>1
  <2>3. cps[id] = Recorded(w[b].req, base.tree)
    BY <2>2 DEF BaseInv, OwnerInv
  <2> QED BY <2>2, <2>3 DEF UndoShape
<1>6. IdsInv'
  BY <1>1, <1>3, IdsStay DEF BaseInv
<1>7. \A b \in Workers : Owns(w[b], base) /\ base.id \in DOMAIN cps' =>
        cps'[base.id] = Recorded(w[b].req, base.tree)
  BY <1>1 DEF BaseInv, OwnerInv
<1>8. OwnerInv' /\ UndoInv' /\ TreeInv'
  BY <1>1, <1>3, <1>4, <1>5, <1>7, CalmStep DEF BaseInv
<1> QED BY <1>6, <1>8 DEF BaseInv

\* RestoreEntry: the restore turns to one more path.
LEMMA RestoreBase ==
  ASSUME WorkspaceAssumption, TypeInv, BaseInv, NEW a \in Workers, RestoreEntry(a)
  PROVE  BaseInv'
<1>1. /\ Others(a) /\ UNCHANGED <<tree, made, cps, saved, dropped, base>>
      /\ w[a].pc = "calling" /\ w[a].calls = <<>> /\ w[a].req.do = "restore"
      /\ w'[a].pc = "calling" /\ w'[a].req = w[a].req /\ w'[a].id = w[a].id
      /\ w'[a].entries = w[a].entries /\ w[a].left \subseteq DOMAIN w[a].entries
  BY RestoreStep
<1>2. PICK p \in w[a].left : /\ w'[a].left = w[a].left \ {p} /\ w'[a].calls # <<>>
                             /\ w'[a].calls = RestoreCalls(p, w[a].entries[p])
  BY RestoreStep
<1>3. Role(a) /\ ~Owns(w[a], base)
  BY <1>1, RequestDo DEF Role, Owns
<1>4. \A b \in Workers : Owns(w[b], base) /\ Undoes(w'[a], base) =>
        /\ UndoShape(w[b].req, w'[a], tree, base.tree)
        /\ Mild(w[b].req) => w'[a].pc # "failed"
  <2> SUFFICES ASSUME NEW b \in Workers, Owns(w[b], base), Undoes(w'[a], base)
               PROVE  UndoShape(w[b].req, w'[a], tree, base.tree)
    BY <1>1
  <2> DEFINE rec == Recorded(w[b].req, base.tree)
  <2>1. UndoShape(w[b].req, w[a], tree, base.tree)
    BY <1>1 DEF Undoes, BaseInv, UndoInv
  <2>2. /\ w[a].entries = rec
        /\ \A q \in DOMAIN rec \ w[a].left : tree[q] = base.tree[q]
    BY <1>1, <2>1 DEF UndoShape
  <2>3. rec[p] = base.tree[p] /\ p \in DOMAIN rec
    <3>1. p \in DOMAIN rec
      BY <1>1, <1>2, <2>2
    <3>2. /\ base.tree \in [Paths -> Nodes]
          /\ Named(w[b].req) \subseteq Paths /\ Named(w[b].req) # {}
      BY RequestKinds DEF Owns, TypeInv
    <3> DEFINE ps == Named(w[b].req)
               bt == base.tree
    <3>3. rec = Snapshot(bt, ps) /\ bt \in [Paths -> Nodes] /\ ps \in SUBSET Paths /\ ps # {}
      BY <3>2 DEF Recorded
    <3> HIDE DEF rec, ps
    <3>4. \A q \in DOMAIN rec : rec[q] = bt[q]
      <4> HIDE DEF bt
      <4> QED BY <3>3, SnapshotFacts
    <3> QED BY <3>1, <3>4
  <2>4. UndoCalls(w'[a].calls, tree, base.tree, p)
    BY <1>2, <2>2, <2>3 DEF UndoCalls
  <2>5. p \in DOMAIN rec \ w'[a].left
        /\ DOMAIN rec \ (w'[a].left \cup {p}) \subseteq DOMAIN rec \ w[a].left
    BY <1>2, <2>3
  <2> HIDE DEF rec
  <2>6. /\ w'[a].calls # <<>>
        /\ \A q \in DOMAIN rec \ (w'[a].left \cup {p}) : tree[q] = base.tree[q]
    BY <1>2, <2>2, <2>5
  <2> QED BY <1>1, <2>2, <2>4, <2>5, <2>6 DEF UndoShape, rec
<1>5. IdsInv'
  BY <1>1, <1>3, IdsStay DEF BaseInv
<1>6. \A b \in Workers : Owns(w[b], base) /\ base.id \in DOMAIN cps' =>
        cps'[base.id] = Recorded(w[b].req, base.tree)
  BY <1>1 DEF BaseInv, OwnerInv
<1>7. OwnerInv' /\ UndoInv' /\ TreeInv'
  BY <1>1, <1>3, <1>4, <1>6, CalmStep DEF BaseInv
<1> QED BY <1>5, <1>7 DEF BaseInv

\* Deleting and pruning checkpoints says nothing new of the snapshot.
LEMMA OtherBase ==
  ASSUME WorkspaceAssumption, TypeInv, BaseInv, NEW a \in Workers,
         \/ \E id \in 1..made : DeleteCheckpoint(a, id)
         \/ \E keep \in Keeps : ListCheckpoints(a, keep)
         \/ PruneNext(a)
  PROVE  BaseInv'
<1>1. /\ Others(a) /\ UNCHANGED <<tree, base>>
      /\ w'[a].pc \notin {"snapped", "saved", "calling"}
      /\ DOMAIN cps' \subseteq DOMAIN cps /\ \A i \in DOMAIN cps' : cps'[i] = cps[i]
      /\ w'[a].pc = "failed" => w'[a].id = 0
      /\ Role(a)
  <2>1. CASE \E id \in 1..made : DeleteCheckpoint(a, id)
    <3>1. PICK id \in 1..made : DeleteCheckpoint(a, id)
      BY <2>1
    <3>2. /\ Others(a) /\ UNCHANGED <<tree, base>> /\ w[a] = Idle
          /\ DOMAIN cps' = DOMAIN cps \ {id} /\ \A i \in DOMAIN cps' : cps'[i] = cps[i]
          /\ w'[a].pc \in {"done", "failed"} /\ w'[a].id = 0
      BY <3>1, DropStep
    <3>3. w[a].id = 0
      BY <3>2 DEF Idle
    <3> QED BY <3>2, <3>3 DEF Role
  <2>2. CASE \E keep \in Keeps : ListCheckpoints(a, keep)
    <3>1. /\ Others(a) /\ UNCHANGED <<tree, cps, base>> /\ w[a] = Idle
          /\ w'[a].pc \in {"done", "pruning"} /\ w'[a].id = 0
      BY <2>2, ListStep
    <3>2. w[a].id = 0
      BY <3>1 DEF Idle
    <3> QED BY <3>1, <3>2 DEF Role
  <2>3. CASE PruneNext(a)
    <3>1. /\ Others(a) /\ UNCHANGED <<tree, base>> /\ w[a].pc = "pruning"
          /\ w'[a].req = w[a].req /\ w'[a].id = w[a].id
          /\ DOMAIN cps' \subseteq DOMAIN cps /\ \A i \in DOMAIN cps' : cps'[i] = cps[i]
          /\ w'[a].pc \in {"done", "failed", "pruning"}
      BY <2>3, PruneStep
    <3>2. w'[a].id = 0
      BY <3>1, Typed DEF Shape
    <3> QED BY <3>1, <3>2 DEF Role
  <2> QED BY <2>1, <2>2, <2>3
<1>2. IdsInv'
  BY <1>1, IdsStay DEF BaseInv
<1>3. w'[a].pc = "failed" => ~Undoes(w'[a], base)
  BY <1>1 DEF Undoes
<1>4. OwnerInv' /\ UndoInv' /\ TreeInv'
  BY <1>1, <1>3, QuietStep DEF BaseInv
<1> QED BY <1>2, <1>4 DEF BaseInv

-----------------------------------------------------------------------------
(* The last snapshot: steps that change the tree                            *)

\* What is to be shown of a step that goes on with the snapshot of base.
Followed(b, t, undone) ==
  /\ OwnerShape(w'[b], t, base.tree)
  /\ Promise(w[b].req, t, base.tree) /\ Kinds(w[b].req, t, base.tree)
  /\ undone => AllBack(w[b].req, t, base.tree)
  /\ \A u \in Workers : Undoes(w'[u], base) =>
       /\ UndoShape(w[b].req, w'[u], t, base.tree)
       /\ Mild(w[b].req) => w'[u].pc # "failed"

\* It is enough to follow the owner of the snapshot.
LEMMA TreeStep ==
  ASSUME WorkspaceAssumption, BaseInv, UNCHANGED cps, \A b \in Workers : Role(b),
         SameBase(base'), \A b \in Workers : Owns(w[b], base) => Followed(b, tree', base'.undone)
  PROVE  BaseInv'
<1>1. base'.id = base.id /\ base'.tree = base.tree
  BY DEF SameBase
<1>2. \A b \in Workers : /\ Owns(w'[b], base') => Owns(w[b], base) /\ w'[b].req = w[b].req
                         /\ Undoes(w'[b], base') => Undoes(w'[b], base)
  <2>1. \A b \in Workers : Owns(w'[b], base') => Owns(w'[b], base)
    BY <1>1 DEF Owns
  <2>2. \A b \in Workers : Undoes(w'[b], base') => Undoes(w'[b], base)
    BY <1>1 DEF Undoes
  <2> QED BY <2>1, <2>2, RoleFacts
<1>3. IdsInv'
  BY IdsKept DEF BaseInv, BaseGoesOn
<1>4. OwnerInv'
  <2> SUFFICES ASSUME NEW b \in Workers, Owns(w'[b], base')
               PROVE  /\ OwnerShape(w'[b], tree', base'.tree)
                      /\ base'.id \in DOMAIN cps' =>
                           cps'[base'.id] = Recorded(w'[b].req, base'.tree)
    BY DEF OwnerInv
  <2>1. Owns(w[b], base) /\ w'[b].req = w[b].req
    BY <1>2
  <2>2. OwnerShape(w'[b], tree', base.tree)
    BY <2>1 DEF Followed
  <2>3. base.id \in DOMAIN cps => cps[base.id] = Recorded(w[b].req, base.tree)
    BY <2>1 DEF BaseInv, OwnerInv
  <2> QED BY <1>1, <2>1, <2>2, <2>3
<1>5. UndoInv'
  <2> SUFFICES ASSUME NEW b \in Workers, NEW u \in Workers,
                      Owns(w'[b], base'), Undoes(w'[u], base')
               PROVE  /\ UndoShape(w'[b].req, w'[u], tree', base'.tree)
                      /\ Mild(w'[b].req) => w'[u].pc # "failed"
    BY DEF UndoInv
  <2>1. Owns(w[b], base) /\ w'[b].req = w[b].req /\ Undoes(w'[u], base)
    BY <1>2
  <2>2. /\ UndoShape(w[b].req, w'[u], tree', base.tree)
        /\ Mild(w[b].req) => w'[u].pc # "failed"
    BY <2>1 DEF Followed
  <2> QED BY <1>1, <2>1, <2>2
<1>6. TreeInv'
  <2> SUFFICES ASSUME NEW b \in Workers, Owns(w'[b], base')
               PROVE  /\ Promise(w'[b].req, tree', base'.tree)
                      /\ Kinds(w'[b].req, tree', base'.tree)
                      /\ base'.undone => AllBack(w'[b].req, tree', base'.tree)
    BY DEF TreeInv
  <2>1. Owns(w[b], base) /\ w'[b].req = w[b].req
    BY <1>2
  <2> QED BY <1>1, <2>1 DEF Followed
<1> QED BY <1>3, <1>4, <1>5, <1>6 DEF BaseInv

\* From the tree t to the tree s, every path goes to what it was or stays.
Toward(s, t, bt) == \A q \in Paths : s[q] \in {t[q], bt[q]}

\* A step that moves every path to what it was keeps what a restore has done.
LEMMA UndoShapeMoves ==
  ASSUME WorkspaceAssumption, NEW bt \in [Paths -> Nodes], IsTree(bt), NEW r \in Changes,
         NEW t, NEW s, Toward(s, t, bt),
         NEW wk, UndoShape(r, wk, t, bt)
  PROVE  UndoShape(r, wk, s, bt)
<1> DEFINE D == DOMAIN Recorded(r, bt)
<1>1. D \subseteq Paths
  <2>1. Named(r) \in SUBSET Paths /\ Named(r) # {}
    BY RequestKinds
  <2> QED BY <2>1, SnapshotFacts DEF Recorded
<1> SUFFICES ASSUME wk.pc = "calling"
             PROVE  /\ wk.entries = Recorded(r, bt)
                    /\ wk.calls = <<>> => \A q \in D \ wk.left : s[q] = bt[q]
                    /\ wk.calls # <<>> => \E p \in D \ wk.left :
                         /\ UndoCalls(wk.calls, s, bt, p)
                         /\ \A q \in D \ (wk.left \cup {p}) : s[q] = bt[q]
  BY DEF UndoShape
<1>2. /\ wk.entries = Recorded(r, bt)
      /\ wk.calls = <<>> => \A q \in D \ wk.left : t[q] = bt[q]
      /\ wk.calls # <<>> => \E p \in D \ wk.left :
           /\ UndoCalls(wk.calls, t, bt, p)
           /\ \A q \in D \ (wk.left \cup {p}) : t[q] = bt[q]
  BY DEF UndoShape
<1> HIDE DEF D
<1>3. \A q \in D : t[q] = bt[q] => s[q] = bt[q]
  BY <1>1 DEF Toward
<1>4. ASSUME NEW p \in D, UndoCalls(wk.calls, t, bt, p) PROVE UndoCalls(wk.calls, s, bt, p)
  <2>1. CASE wk.calls = RestoreCalls(p, bt[p])
    BY <2>1 DEF UndoCalls
  <2>2. CASE IsFile(bt, p) /\ wk.calls = <<Put(p, bt[p])>> /\ ParentIsDir(t, p)
    <3>1. p \in Paths /\ bt[p] # Absent
      BY <1>1, <2>2 DEF IsFile
    <3>2. \A q \in Above(p) : q \in Paths /\ bt[q] = Dir /\ t[q] = Dir
      BY <2>2, <3>1, UptoPrefix DEF IsTree, ParentIsDir
    <3>3. ParentIsDir(s, p)
      BY <3>2 DEF ParentIsDir, Toward
    <3> QED BY <2>2, <3>3 DEF UndoCalls
  <2> QED BY <1>4, <2>1, <2>2 DEF UndoCalls
<1>5. ASSUME wk.calls # <<>>
      PROVE  \E p \in D \ wk.left : /\ UndoCalls(wk.calls, s, bt, p)
                                    /\ \A q \in D \ (wk.left \cup {p}) : s[q] = bt[q]
  <2>1. PICK p \in D \ wk.left : /\ UndoCalls(wk.calls, t, bt, p)
                                 /\ \A q \in D \ (wk.left \cup {p}) : t[q] = bt[q]
    BY <1>2, <1>5
  <2> QED BY <1>3, <1>4, <2>1
<1> QED BY <1>2, <1>3, <1>5

\* What moves every path to what it was keeps the promises of the undo.
LEMMA MoveKeeps ==
  ASSUME WorkspaceAssumption, NEW bt \in [Paths -> Nodes], NEW r \in Changes,
         \A p \in Named(r) : Reaches(bt, p),
         NEW t \in [Paths -> Nodes], NEW s \in [Paths -> Nodes],
         Toward(s, t, bt)
  PROVE  /\ Promise(r, t, bt) => Promise(r, s, bt)
         /\ Kinds(r, t, bt) => Kinds(r, s, bt)
<1>1. Promise(r, t, bt) => Promise(r, s, bt)
  BY DEF Promise, Toward
<1>2. Kinds(r, t, bt) => Kinds(r, s, bt)
  <2>1. Kinds(r, bt, bt)
    BY SameTree
  <2> SUFFICES ASSUME Kinds(r, t, bt), Mild(r), NEW q \in Paths
               PROVE  /\ bt[q] = Dir => ~IsFile(s, q)
                      /\ IsFile(bt, q) => s[q] # Dir
                      /\ \A p \in Named(r) : q \in Above(p) => ~IsFile(s, q)
                      /\ r.do \in {"write", "edit"} /\ bt[q] # Absent => s[q] # Absent
    BY DEF Kinds
  <2>2. CASE s[q] = t[q]
    BY <2>2 DEF Kinds, IsFile
  <2>3. CASE s[q] = bt[q]
    BY <2>1, <2>3 DEF Kinds, IsFile
  <2>4. s[q] = t[q] \/ s[q] = bt[q]
    BY DEF Toward
  <2> QED BY <2>2, <2>3, <2>4
<1> QED BY <1>1, <1>2

\* What the snapshot recorded, and what is known of the tree it was taken of.
LEMMA OwnerFacts ==
  ASSUME WorkspaceAssumption, TypeInv, BaseInv, NEW b \in Workers, Owns(w[b], base)
  PROVE  /\ w[b].req \in Changes /\ base.id # 0
         /\ base.tree \in [Paths -> Nodes] /\ IsTree(base.tree)
         /\ Named(w[b].req) \in SUBSET Paths /\ Named(w[b].req) # {}
         /\ Named(w[b].req) \subseteq DOMAIN Recorded(w[b].req, base.tree)
         /\ DOMAIN Recorded(w[b].req, base.tree) \subseteq Paths
         /\ \A p \in Named(w[b].req) : Reaches(base.tree, p)
         /\ OwnerShape(w[b], tree, base.tree)
         /\ Promise(w[b].req, tree, base.tree) /\ Kinds(w[b].req, tree, base.tree)
         /\ base.undone => AllBack(w[b].req, tree, base.tree)
         /\ \A a \in Workers : Owns(w[a], base) => a = b
<1>1. w[b].req \in Changes /\ base.id # 0 /\ w[b].id = base.id
  BY DEF Owns
<1>2. base.tree \in [Paths -> Nodes] /\ IsTree(base.tree)
  BY <1>1 DEF TypeInv
<1> DEFINE ps == Named(w[b].req)
           bt == base.tree
<1>3. ps \in SUBSET Paths /\ ps # {}
  BY <1>1, RequestKinds
<1>4. ps \subseteq DOMAIN Recorded(w[b].req, bt) /\ DOMAIN Recorded(w[b].req, bt) \subseteq Paths
  <2>1. Recorded(w[b].req, bt) = Snapshot(bt, ps)
    BY DEF Recorded
  <2> HIDE DEF ps, bt
  <2>2. bt \in [Paths -> Nodes]
    BY <1>2 DEF bt
  <2> QED BY <1>3, <2>1, <2>2, SnapshotFacts
<1>5. /\ OwnerShape(w[b], tree, base.tree)
      /\ Promise(w[b].req, tree, base.tree) /\ Kinds(w[b].req, tree, base.tree)
      /\ base.undone => AllBack(w[b].req, tree, base.tree)
  BY DEF BaseInv, OwnerInv, TreeInv
<1>6. \A p \in Named(w[b].req) : Reaches(base.tree, p)
  BY <1>5 DEF OwnerShape
<1>7. \A a \in Workers : Owns(w[a], base) => a = b
  BY DEF Owns, BaseInv, IdsInv
<1> QED BY <1>1, <1>2, <1>3, <1>4, <1>5, <1>6, <1>7

\* The path a restore is at, and what its next call does.
LEMMA UndoerFacts ==
  ASSUME WorkspaceAssumption, TypeInv, BaseInv, NEW b \in Workers, Owns(w[b], base),
         NEW a \in Workers, Undoes(w[a], base), w[a].pc = "calling", w[a].calls # <<>>
  PROVE  LET c   == Head(w[a].calls)
             s   == Effect(c, tree)
             rec == Recorded(w[b].req, base.tree)
         IN  /\ w[a].entries = rec
             /\ \E p \in DOMAIN rec \ w[a].left :
                  /\ \A q \in DOMAIN rec \ (w[a].left \cup {p}) : tree[q] = base.tree[q]
                  /\ Works(c, tree) /\ Tail(w[a].calls) = <<>> => s[p] = base.tree[p]
                  /\ Works(c, tree) /\ Tail(w[a].calls) # <<>> =>
                       UndoCalls(Tail(w[a].calls), s, base.tree, p)
                  /\ c.call = "put" => c.path = p /\ IsFile(base.tree, p)
             /\ Mover(c, tree, base.tree)
             /\ Mild(w[b].req) => Works(c, tree)
<1> DEFINE r == w[b].req
           bt == base.tree
           calls == w[a].calls
           c == Head(calls)
           s == Effect(c, tree)
           D == DOMAIN Recorded(r, bt)
<1>1. /\ r \in Changes /\ bt \in [Paths -> Nodes] /\ IsTree(bt)
      /\ Named(r) \in SUBSET Paths /\ Named(r) # {} /\ D \subseteq Paths
      /\ Kinds(r, tree, bt)
  BY OwnerFacts
<1>2. UndoShape(r, w[a], tree, bt)
  BY DEF BaseInv, UndoInv
<1>3. w[a].entries = Recorded(r, bt)
  BY <1>2 DEF UndoShape
<1>4. PICK p \in D \ w[a].left :
        /\ UndoCalls(calls, tree, bt, p)
        /\ \A q \in D \ (w[a].left \cup {p}) : tree[q] = bt[q]
  BY <1>2 DEF UndoShape
<1>5. p \in Paths /\ calls \in Seq(FsCalls) /\ tree \in [Paths -> Nodes] /\ IsTree(tree)
  BY <1>1, <1>4, Typed DEF TypeInv
<1>6. D = UNION {Walk(bt, x) : x \in Named(r)}
  <2>1. Recorded(r, bt) = Snapshot(bt, Named(r))
    BY DEF Recorded
  <2> DEFINE ps == Named(r)
  <2>2. ps \in SUBSET Paths /\ ps # {}
    BY <1>1
  <2> HIDE DEF r, bt, ps
  <2>3. DOMAIN Snapshot(bt, ps) = UNION {Walk(bt, x) : x \in ps}
    BY <1>1, <2>2, SnapshotFacts
  <2> QED BY <2>1, <2>3 DEF ps
<1> HIDE DEF r, bt, calls
<1>7. /\ Mover(c, tree, bt)
      /\ Works(c, tree) /\ Tail(calls) = <<>> => s[p] = bt[p]
      /\ Works(c, tree) /\ Tail(calls) # <<>> => UndoCalls(Tail(calls), s, bt, p)
      /\ c.call = "put" => c.path = p /\ IsFile(bt, p)
      /\ /\ \A q \in Paths : bt[q] = Dir => ~IsFile(tree, q)
         /\ IsFile(bt, p) => tree[p] # Dir
         /\ bt[p] = Absent => Reaches(tree, p)
         => Works(c, tree)
  <2>1. calls # <<>>
    BY DEF calls
  <2> QED BY <1>1, <1>4, <1>5, <2>1, UndoCall
<1>8. ASSUME Mild(r) PROVE Works(c, tree)
  <2>1. /\ \A q \in Paths : bt[q] = Dir => ~IsFile(tree, q)
        /\ IsFile(bt, p) => tree[p] # Dir
    BY <1>1, <1>5, <1>8 DEF Kinds
  <2>2. bt[p] = Absent => p \in Named(r)
    BY <1>4, <1>6 DEF Walk
  <2>3. bt[p] = Absent => Reaches(tree, p)
    <3>1. \A q \in Above(p) : q \in Paths
      BY <1>5, UptoPrefix
    <3> QED BY <1>1, <1>8, <2>2, <3>1 DEF Kinds, Reaches
  <2> QED BY <1>7, <2>1, <2>3
<1> HIDE DEF c, s, D
<1>9. /\ w[a].entries = Recorded(r, bt)
      /\ \E x \in D \ w[a].left :
                  /\ \A q \in D \ (w[a].left \cup {x}) : tree[q] = bt[q]
                  /\ Works(c, tree) /\ Tail(calls) = <<>> => s[x] = bt[x]
                  /\ Works(c, tree) /\ Tail(calls) # <<>> => UndoCalls(Tail(calls), s, bt, x)
                  /\ c.call = "put" => c.path = x /\ IsFile(bt, x)
      /\ Mover(c, tree, bt)
      /\ Mild(r) => Works(c, tree)
  BY <1>3, <1>4, <1>7, <1>8
<1> QED BY <1>9 DEF r, bt, calls, c, s, D

\* A call that fails ends its request; that of a restore fails for a request
\* that is not mild.
LEMMA CallFails ==
  ASSUME WorkspaceAssumption, TypeInv, BaseInv, NEW a \in Workers, Others(a),
         UNCHANGED <<tree, cps, base>>, w[a].pc = "calling", w[a].calls # <<>>,
         ~Works(Head(w[a].calls), tree),
         w'[a].pc = "failed", w'[a].req = w[a].req, w'[a].id = w[a].id
  PROVE  BaseInv'
<1>1. Role(a)
  BY DEF Role
<1>2. IdsInv'
  BY <1>1, IdsStay DEF BaseInv
<1>3. \A b \in Workers : Owns(w[b], base) /\ Undoes(w'[a], base) => ~Mild(w[b].req)
  <2> SUFFICES ASSUME NEW b \in Workers, Owns(w[b], base), Undoes(w'[a], base)
               PROVE  ~Mild(w[b].req)
    OBVIOUS
  <2>1. Undoes(w[a], base)
    BY DEF Undoes
  <2> QED BY <2>1, UndoerFacts
<1>4. OwnerInv' /\ UndoInv' /\ TreeInv'
  BY <1>1, <1>3, QuietStep DEF BaseInv
<1> QED BY <1>2, <1>4 DEF BaseInv

\* The next call of a restore.
LEMMA UndoerMoves ==
  ASSUME WorkspaceAssumption, TypeInv, BaseInv, NEW b \in Workers, Owns(w[b], base),
         NEW a \in Workers, Undoes(w[a], base), w[a].pc = "calling", w[a].calls # <<>>,
         Others(a), w'[a].req = w[a].req, w'[a].id = w[a].id,
         Works(Head(w[a].calls), tree), NEW s, s = Effect(Head(w[a].calls), tree),
         \/ LastCall(a) /\ w'[a].pc = "done"
         \/ /\ ~LastCall(a) /\ w'[a].pc = "calling" /\ w'[a].calls = Tail(w[a].calls)
            /\ w'[a].entries = w[a].entries /\ w'[a].left = w[a].left,
         NEW undone \in BOOLEAN, undone = (LastCall(a) \/ (base.undone /\ s = tree))
  PROVE  Followed(b, s, undone)
<1> DEFINE r == w[b].req
           bt == base.tree
           calls == w[a].calls
           D == DOMAIN Recorded(r, bt)
<1>1. /\ r \in Changes /\ bt \in [Paths -> Nodes] /\ IsTree(bt) /\ D \subseteq Paths
      /\ \A p \in Named(r) : Reaches(bt, p)
      /\ OwnerShape(w[b], tree, bt) /\ Promise(r, tree, bt) /\ Kinds(r, tree, bt)
      /\ base.undone => AllBack(r, tree, bt)
  BY OwnerFacts
<1>2. /\ w[a].entries = Recorded(r, bt) /\ Mover(Head(calls), tree, bt)
      /\ \E p \in D \ w[a].left :
           /\ \A q \in D \ (w[a].left \cup {p}) : tree[q] = bt[q]
           /\ Tail(calls) = <<>> => s[p] = bt[p]
           /\ Tail(calls) # <<>> => UndoCalls(Tail(calls), s, bt, p)
  BY UndoerFacts
<1>3. calls \in Seq(FsCalls) /\ tree \in [Paths -> Nodes] /\ Head(calls) \in FsCalls
  <2>1. calls \in Seq(FsCalls) /\ tree \in [Paths -> Nodes]
    BY Typed DEF TypeInv
  <2> QED BY <2>1
<1>4. s \in [Paths -> Nodes] /\ Toward(s, tree, bt)
  BY <1>2, <1>3, EffectAt DEF Mover, Toward
<1>5. /\ Promise(r, s, bt) /\ Kinds(r, s, bt)
      /\ tree = bt => s = bt
  <2> HIDE DEF r, bt
  <2>1. /\ Promise(r, tree, bt) => Promise(r, s, bt)
        /\ Kinds(r, tree, bt) => Kinds(r, s, bt)
        /\ tree = bt => s = bt
    <3> DEFINE t == tree
    <3>1. /\ r \in Changes /\ bt \in [Paths -> Nodes] /\ \A p \in Named(r) : Reaches(bt, p)
          /\ t \in [Paths -> Nodes] /\ s \in [Paths -> Nodes] /\ Toward(s, t, bt)
      BY <1>1, <1>3, <1>4
    <3> HIDE DEF t
    <3>2. Promise(r, t, bt) => Promise(r, s, bt)
      BY <3>1, MoveKeeps
    <3>3. Kinds(r, t, bt) => Kinds(r, s, bt)
      BY <3>1, MoveKeeps
    <3>4. t = bt => s = bt
      BY <3>1 DEF Toward
    <3> QED BY <3>2, <3>3, <3>4 DEF t
  <2> QED BY <1>1, <2>1
<1>6. a # b
  BY <1>1, RequestDo DEF Undoes
<1>7. OwnerShape(w'[b], s, bt)
  <2>1. w'[b] = w[b]
    BY <1>6 DEF Others
  <2> QED BY <1>1, <1>5, <2>1 DEF OwnerShape
<1>8. Tail(calls) = <<>> <=> Len(calls) = 1
  <2>1. calls # <<>>
    OBVIOUS
  <2> DEFINE rest == Tail(calls)
  <2>2. rest \in Seq(FsCalls) /\ Len(rest) = Len(calls) - 1 /\ Len(calls) \in Nat
    BY <1>3, <2>1
  <2> HIDE DEF rest
  <2>3. rest = <<>> <=> Len(rest) = 0
    BY <2>2, EmptySeq
  <2>4. rest = <<>> <=> Len(calls) = 1
    BY <2>2, <2>3
  <2> QED BY <2>4 DEF rest
<1>9. PICK p \in D \ w[a].left :
           /\ \A q \in D \ (w[a].left \cup {p}) : tree[q] = bt[q]
           /\ Tail(calls) = <<>> => s[p] = bt[p]
           /\ Tail(calls) # <<>> => UndoCalls(Tail(calls), s, bt, p)
  BY <1>2
<1>10. \A q \in D \ (w[a].left \cup {p}) : s[q] = bt[q]
  BY <1>1, <1>4, <1>9 DEF Toward
<1> HIDE DEF r, bt, calls, D
<1>11. undone => AllBack(r, s, bt)
  <2>1. CASE LastCall(a)
    <3>1. Len(calls) = 1 /\ w[a].left = {}
      BY <2>1 DEF LastCall, calls
    <3>2. \A q \in D : s[q] = bt[q]
      BY <1>8, <1>9, <1>10, <3>1
    <3> QED BY <3>2 DEF AllBack, D
  <2>2. CASE base.undone /\ s = tree
    BY <1>1, <2>2
  <2> QED BY <2>1, <2>2
<1>12. UndoShape(r, w'[a], s, bt)
  <2>1. CASE w'[a].pc = "done"
    BY <2>1 DEF UndoShape
  <2>2. CASE /\ ~LastCall(a) /\ w'[a].calls = Tail(calls)
             /\ w'[a].entries = w[a].entries /\ w'[a].left = w[a].left
    <3>1. w'[a].calls = <<>> => \A q \in D \ w'[a].left : s[q] = bt[q]
      <4> SUFFICES ASSUME w'[a].calls = <<>>, NEW q \in D \ w[a].left PROVE s[q] = bt[q]
        BY <2>2
      <4>1. s[p] = bt[p]
        BY <1>9, <2>2
      <4> QED BY <1>10, <4>1
    <3>2. w'[a].calls # <<>> => /\ UndoCalls(w'[a].calls, s, bt, p)
                                /\ p \in D \ w'[a].left
                                /\ \A q \in D \ (w'[a].left \cup {p}) : s[q] = bt[q]
      BY <1>9, <1>10, <2>2
    <3> QED BY <1>2, <2>2, <3>1, <3>2 DEF UndoShape, D
  <2> QED BY <2>1, <2>2 DEF calls
<1>13. ASSUME NEW u \in Workers, Undoes(w'[u], base)
       PROVE  UndoShape(r, w'[u], s, bt) /\ (Mild(r) => w'[u].pc # "failed")
  <2>1. CASE u = a
    BY <1>12, <2>1
  <2>2. CASE u # a
    <3>1. w'[u] = w[u]
      BY <2>2 DEF Others
    <3>2. UndoShape(r, w[u], tree, bt) /\ (Mild(r) => w[u].pc # "failed")
      BY <1>13, <3>1 DEF BaseInv, UndoInv, r, bt
    <3> DEFINE wk == w[u]
    <3>3. UndoShape(r, wk, tree, bt)
      BY <3>2
    <3> HIDE DEF wk
    <3>4. UndoShape(r, wk, s, bt)
      BY <1>1, <1>4, <3>3, UndoShapeMoves
    <3> QED BY <3>1, <3>2, <3>4 DEF wk
  <2> QED BY <2>1, <2>2
<1> QED BY <1>5, <1>7, <1>11, <1>13 DEF Followed, r, bt

\* The next call of the request: no restore of its checkpoint is under way.
LEMMA OwnerMoves ==
  ASSUME WorkspaceAssumption, TypeInv, BaseInv,
         NEW a \in Workers, Owns(w[a], base), w[a].pc = "calling", w[a].calls # <<>>,
         Others(a), w'[a].req = w[a].req, w'[a].id = w[a].id,
         Works(Head(w[a].calls), tree), NEW s, s = Effect(Head(w[a].calls), tree),
         \/ w'[a].pc = "done"
         \/ w'[a].pc = "calling" /\ w'[a].calls = Tail(w[a].calls),
         s # tree => \A b \in Busy : ~(IsUndo(b) /\ w[b].id = base.id),
         NEW undone \in BOOLEAN, undone = (base.undone /\ s = tree)
  PROVE  Followed(a, s, undone)
<1> DEFINE r == w[a].req
           bt == base.tree
           calls == w[a].calls
           c == Head(calls)
<1>1. /\ r \in Changes /\ bt \in [Paths -> Nodes] /\ IsTree(bt)
      /\ \A p \in Named(r) : Reaches(bt, p)
      /\ OwnerShape(w[a], tree, bt) /\ Promise(r, tree, bt) /\ Kinds(r, tree, bt)
      /\ base.undone => AllBack(r, tree, bt)
  BY OwnerFacts
<1>2. calls \in Seq(FsCalls) /\ tree \in [Paths -> Nodes] /\ IsTree(tree)
  BY Typed DEF TypeInv
<1>3. \A i \in DOMAIN calls : OwnCall(calls[i], r, bt)
  BY <1>1 DEF OwnerShape
<1>4. c \in FsCalls /\ c = calls[1] /\ 1 \in DOMAIN calls
  BY <1>2
<1>5. OwnCall(c, r, bt)
  BY <1>3, <1>4
<1>6. Promise(r, s, bt)
  <2> HIDE DEF r, bt, c
  <2>1. Promise(r, Effect(c, tree), bt)
    BY <1>1, <1>2, <1>4, <1>5, OwnKeeps
  <2> QED BY <2>1 DEF c
<1>7. Kinds(r, s, bt)
  <2>1. Works(c, tree)
    OBVIOUS
  <2> HIDE DEF r, bt, c
  <2>2. Kinds(r, Effect(c, tree), bt)
    BY <1>1, <1>2, <1>4, <1>5, <2>1, OwnKinds
  <2> QED BY <2>2 DEF c
<1>8. OwnerShape(w'[a], s, bt)
  <2>1. CASE w'[a].pc = "done"
    BY <1>1, <2>1 DEF OwnerShape
  <2>2. CASE w'[a].pc = "calling" /\ w'[a].calls = Tail(calls)
    <3> DEFINE rest == Tail(calls)
    <3>1. \A i \in DOMAIN rest : i + 1 \in DOMAIN calls /\ rest[i] = calls[i + 1]
      <4>1. calls # <<>>
        OBVIOUS
      <4> HIDE DEF calls
      <4> QED BY <1>2, <4>1
    <3> HIDE DEF rest, calls
    <3>2. \A i \in DOMAIN rest : OwnCall(rest[i], r, bt)
      BY <1>3, <3>1
    <3> QED BY <1>1, <2>2, <3>2 DEF OwnerShape, rest
  <2> QED BY <2>1, <2>2
<1>9. undone => AllBack(r, s, bt)
  BY <1>1
<1>10. ASSUME NEW u \in Workers, Undoes(w'[u], base)
       PROVE  UndoShape(r, w'[u], s, bt) /\ (Mild(r) => w'[u].pc # "failed")
  <2>1. u # a
    BY <1>1, <1>10, RequestDo DEF Undoes
  <2>2. w'[u] = w[u]
    BY <2>1 DEF Others
  <2>3. UndoShape(r, w[u], tree, bt) /\ (Mild(r) => w[u].pc # "failed")
    BY <1>10, <2>2 DEF BaseInv, UndoInv
  <2>4. CASE s = tree
    BY <2>2, <2>3, <2>4
  <2>5. CASE s # tree
    <3>1. u \notin Busy
      BY <1>10, <2>2, <2>5 DEF Undoes, IsUndo
    <3>2. w[u].pc # "calling"
      BY <3>1 DEF Busy, Ended
    <3> QED BY <2>2, <2>3, <3>2 DEF UndoShape
  <2> QED BY <2>4, <2>5
<1> QED BY <1>6, <1>7, <1>8, <1>9, <1>10 DEF Followed

\* A call of a worker that has no part in the snapshot: the tree stays as it is.
LEMMA StrangerKeeps ==
  ASSUME WorkspaceAssumption, TypeInv, BaseInv, NEW b \in Workers, Owns(w[b], base),
         NEW a \in Workers, ~Owns(w[a], base), ~Undoes(w[a], base), Others(a),
         w'[a].req = w[a].req, w'[a].id = w[a].id,
         NEW undone, undone => base.undone
  PROVE  Followed(b, tree, undone)
<1>1. a # b
  OBVIOUS
<1>2. w'[b] = w[b]
  BY <1>1 DEF Others
<1>3. /\ OwnerShape(w[b], tree, base.tree)
      /\ Promise(w[b].req, tree, base.tree) /\ Kinds(w[b].req, tree, base.tree)
      /\ base.undone => AllBack(w[b].req, tree, base.tree)
  BY OwnerFacts
<1>4. ASSUME NEW u \in Workers, Undoes(w'[u], base)
      PROVE  UndoShape(w[b].req, w'[u], tree, base.tree) /\ (Mild(w[b].req) => w'[u].pc # "failed")
  <2>1. u # a
    BY <1>4 DEF Undoes
  <2>2. w'[u] = w[u]
    BY <2>1 DEF Others
  <2> QED BY <1>4, <2>2 DEF BaseInv, UndoInv
<1> QED BY <1>2, <1>3, <1>4 DEF Followed

\* Call: one of the four cases above.
LEMMA CallBase ==
  ASSUME WorkspaceAssumption, TypeInv, BaseInv, NEW a \in Workers, Call(a)
  PROVE  BaseInv'
<1> DEFINE c == Head(w[a].calls)
           s == Effect(c, tree)
<1>1. /\ Others(a) /\ UNCHANGED <<made, cps, saved, dropped>>
      /\ w[a].pc = "calling" /\ w[a].calls # <<>>
      /\ w'[a].req = w[a].req /\ w'[a].id = w[a].id
      /\ \/ /\ Works(c, tree) /\ tree' = s /\ base' = BaseAfter(a, s)
            /\ \/ LastCall(a) /\ w'[a].pc = "done"
               \/ /\ ~LastCall(a) /\ w'[a].pc = "calling"
                  /\ w'[a].calls = Tail(w[a].calls)
                  /\ w'[a].entries = w[a].entries /\ w'[a].left = w[a].left
         \/ /\ ~Works(c, tree) /\ UNCHANGED <<tree, base>>
            /\ w'[a].pc = "failed"
  BY CallStep
<1>2. CASE ~Works(c, tree) /\ UNCHANGED <<tree, base>> /\ w'[a].pc = "failed"
  BY <1>1, <1>2, CallFails
<1>3. CASE /\ Works(c, tree) /\ tree' = s /\ base' = BaseAfter(a, s)
           /\ \/ LastCall(a) /\ w'[a].pc = "done"
              \/ /\ ~LastCall(a) /\ w'[a].pc = "calling"
                 /\ w'[a].calls = Tail(w[a].calls)
                 /\ w'[a].entries = w[a].entries /\ w'[a].left = w[a].left
  <2>1. \A b \in Workers : Role(b)
    BY <1>1 DEF Others, Role
  <2>2. \/ base' = NoBase
        \/ /\ SameBase(base')
           /\ s # tree => /\ w[a].id = base.id
                          /\ IsUndo(a) \/ \A b \in Busy : ~(IsUndo(b) /\ w[b].id = base.id)
           /\ base'.undone =
                ((w[a].id = base.id /\ IsUndo(a) /\ LastCall(a)) \/ (base.undone /\ s = tree))
    <3> HIDE DEF s
    <3> QED BY <1>3, BaseAfterFacts
  <2>3. CASE base' = NoBase
    <3>1. BaseGoesOn
      BY <2>3 DEF BaseGoesOn
    <3>2. IdsInv'
      BY <2>1, <3>1, IdsKept DEF BaseInv
    <3> QED BY <2>3, <3>2, NoBaseHolds DEF BaseInv
  <2>4. CASE /\ SameBase(base')
             /\ s # tree => /\ w[a].id = base.id
                            /\ IsUndo(a) \/ \A b \in Busy : ~(IsUndo(b) /\ w[b].id = base.id)
             /\ base'.undone =
                  ((w[a].id = base.id /\ IsUndo(a) /\ LastCall(a)) \/ (base.undone /\ s = tree))
    <3> SUFFICES ASSUME NEW b \in Workers, Owns(w[b], base) PROVE Followed(b, s, base'.undone)
      BY <1>1, <1>3, <2>1, <2>4, TreeStep
    <3>1. base'.undone \in BOOLEAN /\ base.id # 0
      BY <2>4 DEF TypeInv, Owns
    <3> DEFINE x == base'.undone
    <3>2. CASE Undoes(w[a], base)
      <4>1. x = (LastCall(a) \/ (base.undone /\ s = tree))
        BY <2>4, <3>2 DEF Undoes, IsUndo
      <4> HIDE DEF x
      <4>2. x \in BOOLEAN
        BY <3>1 DEF x
      <4>3. Followed(b, s, x)
        BY <1>1, <1>3, <3>2, <4>1, <4>2, UndoerMoves
      <4> QED BY <4>3 DEF x
    <3>3. CASE Owns(w[a], base)
      <4>1. a = b
        BY <3>3, OwnerFacts
      <4>2. ~IsUndo(a)
        BY <3>3, RequestDo DEF Owns, IsUndo
      <4>3. x = (base.undone /\ s = tree)
        BY <2>4, <4>2
      <4> HIDE DEF x
      <4>4. x \in BOOLEAN
        BY <3>1 DEF x
      <4>5. s # tree => \A d \in Busy : ~(IsUndo(d) /\ w[d].id = base.id)
        BY <2>4, <4>2
      <4>6. Followed(a, s, x)
        BY <1>1, <1>3, <3>3, <4>3, <4>4, <4>5, OwnerMoves
      <4> QED BY <4>1, <4>6 DEF x
    <3>4. CASE ~Undoes(w[a], base) /\ ~Owns(w[a], base)
      <4>1. w[a].id # 0 => w[a].req \in Changes \/ w[a].req.do = "restore"
        BY Typed
      <4>2. w[a].id # base.id
        BY <3>1, <3>4, <4>1 DEF Undoes, Owns
      <4>3. s = tree /\ (x => base.undone)
        BY <2>4, <4>2
      <4> HIDE DEF x, s
      <4>4. Followed(b, tree, x)
        BY <1>1, <3>4, <4>3, StrangerKeeps
      <4> QED BY <4>3, <4>4 DEF x
    <3> QED BY <3>2, <3>3, <3>4
  <2> QED BY <2>2, <2>3, <2>4
<1> QED BY <1>1, <1>2, <1>3

\* A file a crash cuts short is one the request may write, or one that a restore
\* of its checkpoint was about to write back.
LEMMA CutPath ==
  ASSUME WorkspaceAssumption, TypeInv, BaseInv, NEW b \in Workers, Owns(w[b], base),
         NEW a \in Workers, w[a].id = base.id, w[a].pc = "calling", w[a].calls # <<>>,
         NEW p, p = Head(w[a].calls).path,
         Head(w[a].calls).call = "put", Works(Head(w[a].calls), tree)
  PROVE  /\ p \in DOMAIN Recorded(w[b].req, base.tree)
         /\ Mild(w[b].req) =>
              base.tree[p] # Dir /\ \A x \in Named(w[b].req) : p \notin Above(x)
<1> DEFINE r == w[b].req
           bt == base.tree
           calls == w[a].calls
           c == Head(calls)
<1>1. /\ r \in Changes /\ bt \in [Paths -> Nodes] /\ IsTree(bt) /\ base.id # 0
      /\ \A x \in Named(r) : Reaches(bt, x)
      /\ Named(r) \subseteq DOMAIN Recorded(r, bt)
      /\ OwnerShape(w[b], tree, bt) /\ Kinds(r, tree, bt)
  BY OwnerFacts
<1>2. calls \in Seq(FsCalls) /\ tree \in [Paths -> Nodes]
  BY Typed DEF TypeInv
<1>3. c \in FsCalls /\ c = calls[1] /\ 1 \in DOMAIN calls
  BY <1>2
<1>4. w[a].req \in Changes \/ w[a].req.do = "restore"
  BY <1>1, Typed
<1>5. CASE w[a].req \in Changes
  <2>1. Owns(w[a], base)
    BY <1>1, <1>5 DEF Owns
  <2>2. a = b
    BY <2>1, OwnerFacts
  <2>3. \A i \in DOMAIN calls : OwnCall(calls[i], r, bt)
    BY <1>1, <2>2 DEF OwnerShape
  <2>4. OwnCall(c, r, bt)
    BY <1>3, <2>3
  <2>5. p = c.path /\ c.call = "put" /\ Works(c, tree)
    OBVIOUS
  <2> HIDE DEF r, bt, c
  <2>6. p \in Named(r)
    BY <2>4, <2>5 DEF OwnCall
  <2>7. Mild(r) => bt[p] # Dir /\ \A x \in Named(r) : p \notin Above(x)
    <3>1. Mild(r) => bt[c.path] # Dir /\ \A x \in Named(r) : c.path \notin Above(x)
      BY <1>1, <1>2, <1>3, <2>4, <2>5, MildPut
    <3> QED BY <2>5, <3>1
  <2> QED BY <1>1, <2>6, <2>7 DEF r, bt
<1>6. CASE w[a].req.do = "restore"
  <2>1. Undoes(w[a], base)
    BY <1>1, <1>6 DEF Undoes
  <2>2. p \in DOMAIN Recorded(r, bt) /\ IsFile(bt, p)
    BY <2>1, UndoerFacts
  <2>3. bt[p] # Dir
    BY <2>2 DEF IsFile
  <2>4. \A x \in Named(r) : p \notin Above(x)
    BY <1>1, <2>2 DEF Reaches
  <2> QED BY <2>2, <2>3, <2>4
<1> QED BY <1>4, <1>5, <1>6

\* Crash: files that were being written are recorded ones.
LEMMA CrashBase ==
  ASSUME WorkspaceAssumption, TypeInv, BaseInv, Crash
  PROVE  BaseInv'
<1>1. /\ UNCHANGED cps
      /\ \A a \in Workers :
           /\ w'[a].req = w[a].req /\ w'[a].id = w[a].id
           /\ \/ w'[a] = w[a] /\ w[a].pc \in Ended \cup {"idle"}
              \/ w'[a].pc = "killed"
  BY CrashStep
<1>2. PICK torn \in SUBSET Workers :
        /\ \A a \in torn : /\ w[a].pc = "calling" /\ w[a].calls # <<>>
                           /\ Head(w[a].calls) \in FsCalls
                           /\ Head(w[a].calls).call = "put"
                           /\ Works(Head(w[a].calls), tree)
        /\ tree' \in [Paths -> Nodes] /\ IsTree(tree')
        /\ \A p \in Paths :
             tree'[p] = IF \E a \in torn : p = Head(w[a].calls).path THEN {} ELSE tree[p]
        /\ base' = IF tree' = tree THEN base
                   ELSE IF \E a \in torn : w[a].id # base.id THEN NoBase
                   ELSE [base EXCEPT !.undone = FALSE]
  BY CrashStep
<1>3. \A b \in Workers : Role(b)
  BY <1>1 DEF Role
<1>4. \A a \in Workers : w'[a].pc \notin {"snapped", "saved", "calling"}
  BY <1>1 DEF Ended
<1>5. ASSUME NEW b \in Workers, Owns(w[b], base)
      PROVE  /\ \A t : OwnerShape(w'[b], t, base.tree)
             /\ \A t, u : u \in Workers /\ Undoes(w'[u], base) =>
                  /\ UndoShape(w[b].req, w'[u], t, base.tree)
                  /\ Mild(w[b].req) => w'[u].pc # "failed"
  <2>1. \A p \in Named(w'[b].req) : Reaches(base.tree, p)
    BY <1>1, <1>5, OwnerFacts
  <2>2. \A t : OwnerShape(w'[b], t, base.tree)
    BY <1>4, <2>1 DEF OwnerShape
  <2>3. ASSUME NEW u \in Workers, Undoes(w'[u], base), Mild(w[b].req) PROVE w'[u].pc # "failed"
    <3>1. CASE w'[u] = w[u]
      BY <1>5, <2>3, <3>1 DEF BaseInv, UndoInv
    <3> QED BY <1>1, <3>1
  <2>4. \A t, u : u \in Workers => UndoShape(w[b].req, w'[u], t, base.tree)
    BY <1>4 DEF UndoShape
  <2> QED BY <2>2, <2>3, <2>4
<1>6. CASE tree' = tree
  <2>1. base' = base /\ SameBase(base')
    BY <1>2, <1>6, BaseFields
  <2>2. \A b \in Workers : Owns(w[b], base) => Followed(b, tree', base'.undone)
    BY <1>5, <1>6, <2>1, OwnerFacts DEF Followed
  <2> QED BY <1>1, <1>3, <2>1, <2>2, TreeStep
<1>7. CASE tree' # tree /\ \E a \in torn : w[a].id # base.id
  <2>1. base' = NoBase
    BY <1>2, <1>7
  <2>2. IdsInv'
    BY <1>3, <2>1, IdsKept DEF BaseInv, BaseGoesOn
  <2> QED BY <2>1, <2>2, NoBaseHolds DEF BaseInv
<1>8. CASE tree' # tree /\ \A a \in torn : w[a].id = base.id
  <2>1. SameBase(base') /\ base'.undone = FALSE
    <3>1. base' = [base EXCEPT !.undone = FALSE]
      BY <1>2, <1>8
    <3> QED BY <3>1, BaseFields
  <2> SUFFICES ASSUME NEW b \in Workers, Owns(w[b], base) PROVE Followed(b, tree', base'.undone)
    BY <1>1, <1>3, <2>1, TreeStep
  <2> DEFINE r == w[b].req
             bt == base.tree
  <2>2. \A p \in Paths : \/ tree'[p] = tree[p]
                         \/ /\ tree'[p] = {} /\ p \in DOMAIN Recorded(r, bt)
                            /\ Mild(r) => bt[p] # Dir /\ \A x \in Named(r) : p \notin Above(x)
    <3> SUFFICES ASSUME NEW a \in torn, NEW p \in Paths, p = Head(w[a].calls).path
                 PROVE  /\ p \in DOMAIN Recorded(r, bt)
                        /\ Mild(r) => bt[p] # Dir /\ \A x \in Named(r) : p \notin Above(x)
      BY <1>2
    <3> QED BY <1>2, <1>8, CutPath
  <2>3. Promise(r, tree, bt) /\ Kinds(r, tree, bt)
    BY OwnerFacts
  <2> DEFINE s == tree'
             t == tree
  <2> HIDE DEF r, bt, s, t
  <2>4. Promise(r, s, bt)
    BY <2>2, <2>3 DEF Promise, s, t
  <2>5. Kinds(r, s, bt)
    <3>1. {} \in Texts
      BY NodeFacts
    <3>2. Mild(r) => \A q \in Paths :
           \/ s[q] = t[q]
           \/ s[q] \in Texts /\ bt[q] # Dir /\ \A p \in Named(r) : q \notin Above(p)
      BY <2>2, <3>1 DEF s, t
    <3>3. Kinds(r, t, bt)
      BY <2>3 DEF t
    <3> QED BY <3>2, <3>3, KindsKept
  <2> QED BY <1>5, <2>1, <2>4, <2>5 DEF Followed, r, bt, s
<1> QED BY <1>6, <1>7, <1>8

\* There is no snapshot at the start.
LEMMA BaseInit ==
  ASSUME WorkspaceAssumption, Init
  PROVE  BaseInv
<1>1. base.id = 0 /\ \A a \in Workers : w[a].id = 0
  BY DEF Init, NoBase, Idle
<1> QED BY <1>1 DEF BaseInv, IdsInv, OwnerInv, UndoInv, TreeInv, Owns

\* Every step keeps what is said of the last snapshot.
LEMMA BaseStep ==
  ASSUME WorkspaceAssumption, TypeInv, BaseInv, [Next]_vars
  PROVE  BaseInv'
<1>1. ASSUME NEW a \in Workers, NEW r \in Changes, TakeSnapshot(a, r) PROVE BaseInv'
  BY <1>1, SnapshotBase
<1>2. ASSUME NEW a \in Workers, SaveCheckpoint(a) PROVE BaseInv'
  BY <1>2, SaveBase
<1>3. ASSUME NEW a \in Workers, Check(a) PROVE BaseInv'
  BY <1>3, CheckBase
<1>4. ASSUME NEW a \in Workers, Call(a) PROVE BaseInv'
  BY <1>4, CallBase
<1>5. ASSUME NEW a \in Workers, NEW id \in 1..made, LoadCheckpoint(a, id) PROVE BaseInv'
  BY <1>5, LoadBase
<1>6. ASSUME NEW a \in Workers, RestoreEntry(a) PROVE BaseInv'
  BY <1>6, RestoreBase
<1>7. ASSUME NEW a \in Workers,
             \/ \E id \in 1..made : DeleteCheckpoint(a, id)
             \/ \E keep \in Keeps : ListCheckpoints(a, keep)
             \/ PruneNext(a)
      PROVE  BaseInv'
  BY <1>7, OtherBase
<1>8. ASSUME Crash PROVE BaseInv'
  BY <1>8, CrashBase
<1>9. ASSUME UNCHANGED vars PROVE BaseInv'
  BY <1>9 DEF vars, BaseInv, IdsInv, OwnerInv, UndoInv, TreeInv
<1> QED BY <1>1, <1>2, <1>3, <1>4, <1>5, <1>6, <1>7, <1>8, <1>9 DEF Next

-----------------------------------------------------------------------------
(* The theorems                                                             *)

\* IInv is inductive.
LEMMA Invariance == ASSUME WorkspaceAssumption PROVE Spec => []IInv
<1>1. Init => IInv
  BY TypeInit, PruneInit, BaseInit DEF IInv, BaseInv
<1>2. IInv /\ [Next]_vars => IInv'
  <2> SUFFICES ASSUME IInv, [Next]_vars PROVE IInv'
    OBVIOUS
  <2>1. TypeInv /\ PruneInv /\ BaseInv
    BY DEF IInv, BaseInv
  <2>2. TypeInv'
    BY <2>1, TypeStep
  <2>3. PruneInv'
    BY <2>1, <2>2, PruneInvStep
  <2>4. BaseInv'
    BY <2>1, BaseStep
  <2> QED BY <2>2, <2>3, <2>4 DEF IInv, BaseInv
<1> QED BY <1>1, <1>2, PTL DEF Spec

\* The tree stays a tree, and every checkpoint file and every worker has its
\* shape (workspace/checkpoint.go).
THEOREM TypeCorrect == ASSUME WorkspaceAssumption PROVE Spec => []TypeOK
<1>1. IInv => TypeOK
  <2> SUFFICES ASSUME IInv PROVE TypeOK
    OBVIOUS
  <2>1. TypeInv
    BY DEF IInv
  <2>2. /\ tree \in [Paths -> Nodes] /\ IsTree(tree) /\ made \in Nat
        /\ DOMAIN cps \subseteq saved /\ saved \subseteq 1..made /\ dropped \subseteq 1..made
        /\ \A i \in DOMAIN cps : cps[i] \in EntrySets
    BY <2>1 DEF TypeInv
  <2>3. \A i \in DOMAIN cps :
          DOMAIN cps[i] \subseteq Paths /\ \A p \in DOMAIN cps[i] : cps[i][p] \in Nodes
    BY <2>2, EntrySetFacts
  <2>4. ASSUME NEW a \in Workers
        PROVE  /\ w[a].pc \in Ended \cup {"idle", "snapped", "saved", "calling", "pruning"}
               /\ w[a].id \in 0..made
               /\ w[a].pc \in {"snapped", "saved"} => w[a].req \in Changes
               /\ IsUndo(a) /\ w[a].pc = "calling" => w[a].left \subseteq Paths
               /\ w[a].pc = "pruning" => w[a].left \subseteq saved /\ w[a].left # {}
    <3>1. /\ w[a].pc \in PCs /\ w[a].id \in Nat /\ w[a].id <= made
          /\ Shape(w[a], made, saved) /\ w[a].entries \in EntrySets
      BY <2>1, Typed
    <3>2. w[a].id \in 0..made
      BY <2>2, <3>1
    <3>3. w[a].pc = "calling" => w[a].left = {} \/ w[a].left \subseteq DOMAIN w[a].entries
      BY <3>1 DEF Shape
    <3>4. DOMAIN w[a].entries \subseteq Paths
      BY <3>1, EntrySetFacts
    <3>5. /\ w[a].pc \in {"snapped", "saved"} => w[a].req \in Changes
          /\ w[a].pc = "pruning" => w[a].left \subseteq saved /\ w[a].left # {}
      BY <3>1 DEF Shape
    <3> QED BY <3>1, <3>2, <3>3, <3>4, <3>5 DEF PCs
  <2> QED BY <2>2, <2>3, <2>4 DEF TypeOK
<1> QED BY <1>1, Invariance, PTL

\* A prune leaves enough newer checkpoints of whatever it deletes
\* (PruneCheckpoints of workspace/checkpoint.go).
THEOREM PruneKeeps == ASSUME WorkspaceAssumption PROVE Spec => []PruneKeepsNewest
<1>1. IInv => PruneKeepsNewest
  BY DEF IInv, PruneInv
<1> QED BY <1>1, Invariance, PTL

\* After a restore every recorded path is what it was: no entry of
\* RestoreCheckpoint undoes another.
THEOREM UndoRestores == ASSUME WorkspaceAssumption PROVE Spec => []UndoRestoresEntries
<1>1. IInv => UndoRestoresEntries
  <2> SUFFICES ASSUME IInv, base.undone, base.id \in DOMAIN cps, NEW p \in DOMAIN cps[base.id]
               PROVE  tree[p] = cps[base.id][p]
    BY DEF UndoRestoresEntries
  <2>1. TypeInv /\ BaseInv
    BY DEF IInv, BaseInv
  <2>2. PICK b \in Workers : Owns(w[b], base)
    BY <2>1 DEF TypeInv, BaseInv, IdsInv
  <2>3. cps[base.id] = Recorded(w[b].req, base.tree)
    BY <2>1, <2>2 DEF BaseInv, OwnerInv
  <2> DEFINE ps == Named(w[b].req)
             bt == base.tree
  <2>4. bt \in [Paths -> Nodes] /\ ps \in SUBSET Paths /\ ps # {}
    BY <2>1, <2>2, OwnerFacts
  <2>5. cps[base.id] = Snapshot(bt, ps) /\ AllBack(w[b].req, tree, bt)
    BY <2>1, <2>2, <2>3, OwnerFacts DEF Recorded
  <2> HIDE DEF ps, bt
  <2>6. \A q \in DOMAIN Snapshot(bt, ps) : Snapshot(bt, ps)[q] = bt[q]
    BY <2>4, SnapshotFacts
  <2>7. tree[p] = bt[p]
    BY <2>3, <2>5 DEF AllBack, bt
  <2> QED BY <2>5, <2>6, <2>7
<1> QED BY <1>1, Invariance, PTL

\* After a restore every file WalkDir reaches is what it was, in the whole tree:
\* no request changes a file its checkpoint did not record.
THEOREM UndoIsWhole == ASSUME WorkspaceAssumption PROVE Spec => []UndoLosesNothing
<1>1. IInv => UndoLosesNothing
  <2> SUFFICES ASSUME IInv, base.undone, NEW q \in Paths, IsFile(base.tree, q),
                      \A r \in Upto(q) : ~PassedBy(base.tree, r)
               PROVE  tree[q] = base.tree[q]
    BY DEF UndoLosesNothing
  <2>1. TypeInv /\ BaseInv
    BY DEF IInv, BaseInv
  <2>2. PICK b \in Workers : Owns(w[b], base)
    BY <2>1 DEF TypeInv, BaseInv, IdsInv
  <2>3. /\ Promise(w[b].req, tree, base.tree)
        /\ AllBack(w[b].req, tree, base.tree)
    BY <2>1, <2>2, OwnerFacts
  <2>4. Kept(base.tree, q)
    BY DEF Kept
  <2> QED BY <2>3, <2>4 DEF Promise, AllBack
<1> QED BY <1>1, Invariance, PTL

\* A restore of the last checkpoint fails only after a patch, or a move that
\* replaced its destination (RestoreCheckpoint of workspace/checkpoint.go).
THEOREM UndoFailure == ASSUME WorkspaceAssumption PROVE Spec => []UndoFailsOnlyAfterReplacing
<1>1. IInv => UndoFailsOnlyAfterReplacing
  <2> SUFFICES ASSUME IInv, NEW u \in Workers, NEW a \in Workers,
                      IsUndo(u), w[u].pc = "failed", base.id # 0, w[u].id = base.id,
                      a # u, w[a].id = base.id, ~IsUndo(a)
               PROVE  w[a].req.do = "patch" \/ (w[a].req.do = "move" /\ w[a].req.overwrite)
    BY DEF UndoFailsOnlyAfterReplacing
  <2>1. TypeInv /\ UndoInv
    BY DEF IInv
  <2>2. w[a].req \in Changes
    BY <2>1, Typed DEF IsUndo
  <2>3. Owns(w[a], base) /\ Undoes(w[u], base)
    BY <2>2 DEF Owns, Undoes, IsUndo
  <2>4. ~Mild(w[a].req)
    BY <2>1, <2>3 DEF UndoInv
  <2>5. w[a].req.do \in {"write", "edit", "delete", "move", "patch"}
    BY <2>2, RequestDo
  <2> QED BY <2>4, <2>5 DEF Mild
<1> QED BY <1>1, Invariance, PTL
=====
