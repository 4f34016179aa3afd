------------------------------ MODULE Workspace ------------------------------
(***************************************************************************)
(* The files of one workspace and their checkpoints: the handlers that     *)
(* write, edit, delete, move and patch files (workspace/workspace.go,      *)
(* tools/file.go, gateway/files_api.go), each behind a checkpoint of the   *)
(* paths it names, and those that restore, delete and prune checkpoints    *)
(* (workspace/checkpoint.go).                                              *)
(*                                                                         *)
(* Nothing locks the tree: an agent runs the tool calls of one response in *)
(* parallel, and the gateway serves requests beside it.  A step is one     *)
(* snapshot, one look at the tree, or one file system call that changes    *)
(* it.  A name is a number, in the order of the names' bytes, and a path   *)
(* is a sequence of names.  A text is the set of the edits made to it.     *)
(* Symbolic links, file modes and paths inside .kkode are left out.        *)
(***************************************************************************)
EXTENDS Integers, FiniteSets, Sequences, SequencesExt

CONSTANTS
  Paths,           \* the paths of the model
  Skip,            \* names WalkDir passes by: .git, build, node_modules ...
  Marks,           \* edits a text can hold
  Absent, Dir,     \* what a path can be, besides a file with its text
  Workers,         \* tool calls and requests; each serves one request
  Changes,         \* the changing requests they may serve
  Keeps,           \* keep_latest values of prune requests
  Trees            \* the trees the model starts from

Texts == SUBSET Marks
Nodes == {Absent, Dir} \cup Texts

\* The prefixes of p that are paths, p included; those above it.
Upto(p)  == {SubSeq(p, 1, n) : n \in 1..Len(p)}
Above(p) == Upto(p) \ {p}
Below(p) == {q \in Paths : IsStrictPrefix(p, q)}

\* Everything but the root has a parent, and only a directory has children.
IsTree(t) == \A p \in Paths : t[p] # Absent => \A q \in Above(p) : t[q] = Dir

PatchOps == [do : {"add"}, path : Paths, text : Texts]
       \cup [do : {"update"}, path : Paths, mark : Marks]
       \cup [do : {"delete"}, path : Paths]

Request == [do : {"write"}, path : Paths, text : Texts]
      \cup [do : {"edit"}, path : Paths, mark : Marks]
      \cup [do : {"delete"}, path : Paths, recursive : BOOLEAN]
      \cup [do : {"move"}, path : Paths, to : Paths, overwrite : BOOLEAN]
      \cup [do : {"patch"}, ops : Seq(PatchOps) \ {<<>>}]

ASSUME WorkspaceAssumption ==
  /\ Paths \subseteq Seq(Nat) \ {<<>>} /\ IsFiniteSet(Paths)
  /\ \A p \in Paths : Upto(p) \subseteq Paths
  /\ Skip \subseteq Nat
  /\ Absent # Dir /\ \A s \in Texts : s # Absent /\ s # Dir
  /\ Changes \subseteq Request
  /\ Keeps \subseteq Nat
  /\ Trees \subseteq {t \in [Paths -> Nodes] : IsTree(t)}

VARIABLES
  tree,     \* what every path is
  made,     \* number of checkpoints taken; the last one's id
  cps,      \* the checkpoint files: id -> entries
  w,        \* each worker
  saved,    \* history: ids that were ever saved
  dropped,  \* history: ids that were deleted by name
  base      \* history: the last snapshot, while nobody else changes the tree

vars == <<tree, made, cps, w, saved, dropped, base>>

-----------------------------------------------------------------------------
(* File system calls.                                                      *)

IsFile(t, p) == t[p] \notin {Absent, Dir}
Parent(p)    == Front(p)
\* A call on a path below a file fails with ENOTDIR, unlike one on a missing path.
Reaches(t, p)   == \A q \in Above(p) : ~IsFile(t, q)
ParentIsDir(t, p) == \A q \in Above(p) : t[q] = Dir

Mkdir(p)      == [call |-> "mkdir", path |-> p]
Put(p, text)  == [call |-> "put", path |-> p, text |-> text]
Unlink(p)     == [call |-> "unlink", path |-> p]
RemoveAll(p)  == [call |-> "removeAll", path |-> p]
Rename(p, to) == [call |-> "rename", path |-> p, to |-> to]

Works(c, t) ==
  CASE c.call = "mkdir"     -> \A q \in Upto(c.path) : ~IsFile(t, q)
    [] c.call = "put"       -> ParentIsDir(t, c.path) /\ t[c.path] # Dir
    [] c.call = "unlink"    -> t[c.path] # Absent /\ \A q \in Below(c.path) : t[q] = Absent
    [] c.call = "removeAll" -> Reaches(t, c.path)
    [] c.call = "rename"    -> /\ t[c.path] # Absent
                               /\ ParentIsDir(t, c.to) /\ t[c.to] # Dir
                               /\ t[c.path] = Dir => t[c.to] = Absent
                               /\ ~IsPrefix(c.path, c.to)

\* The subtree at p, seen at `to`.
Moved(t, p, to, q) ==
  LET from == p \o SubSeq(q, Len(to) + 1, Len(q))
  IN  IF from \in Paths THEN t[from] ELSE Absent

\* Mutant: RemoveAll leaves what is in the directory.
MutEffectTopOnly(c, t) ==
  CASE c.call = "mkdir"     -> [q \in Paths |-> IF q \in Upto(c.path) THEN Dir ELSE t[q]]
    [] c.call = "put"       -> [t EXCEPT ![c.path] = c.text]
    [] c.call \in {"unlink", "removeAll"} -> [t EXCEPT ![c.path] = Absent]
    [] c.call = "rename"    -> [q \in Paths |->
                                 IF IsPrefix(c.to, q) THEN Moved(t, c.path, c.to, q)
                                 ELSE IF IsPrefix(c.path, q) THEN Absent ELSE t[q]]

Effect(c, t) ==
  CASE c.call = "mkdir"     -> [q \in Paths |-> IF q \in Upto(c.path) THEN Dir ELSE t[q]]
    [] c.call = "put"       -> [t EXCEPT ![c.path] = c.text]
    [] c.call = "unlink"    -> [t EXCEPT ![c.path] = Absent]
    [] c.call = "removeAll" -> [q \in Paths |-> IF IsPrefix(c.path, q) THEN Absent ELSE t[q]]
    [] c.call = "rename"    -> [q \in Paths |->
                                 IF IsPrefix(c.to, q) THEN Moved(t, c.path, c.to, q)
                                 ELSE IF IsPrefix(c.path, q) THEN Absent ELSE t[q]]

-----------------------------------------------------------------------------
(* Requests.                                                               *)

\* Mutant: a move records its source only.
MutNamedSource(r) ==
  IF r.do = "patch" THEN {r.ops[i].path : i \in DOMAIN r.ops} ELSE {r.path}

\* The paths a handler gives to CreateCheckpoint.
Named(r) ==
  CASE r.do = "move"  -> {r.path, r.to}
    [] r.do = "patch" -> {r.ops[i].path : i \in DOMAIN r.ops}
    [] OTHER          -> {r.path}

CanEdit(t, p, mark) == IsFile(t, p) /\ mark \notin t[p]

\* The checks made before anything is changed.
Accepted(r, t) ==
  CASE r.do = "write"  -> TRUE
    [] r.do = "edit"   -> CanEdit(t, r.path, r.mark)
    [] r.do = "delete" -> t[r.path] # Absent /\ (t[r.path] = Dir => r.recursive)
    [] r.do = "move"   ->
         \/ r.path = r.to
         \/ /\ t[r.path] # Absent
            /\ ~(t[r.path] = Dir /\ IsPrefix(r.path, r.to))
            /\ Reaches(t, r.to)
            /\ t[r.to] # Absent => r.overwrite
    [] r.do = "patch"  ->
         \A i \in DOMAIN r.ops : LET op == r.ops[i] IN
           CASE op.do = "add"    -> TRUE
             [] op.do = "update" -> CanEdit(t, op.path, op.mark)
             [] op.do = "delete" -> t[op.path] # Absent

\* Mutant: a write replaces whatever is at its path.
MutWriteReplaces(p, text) == <<RemoveAll(p), Mkdir(Parent(p)), Put(p, text)>>

WriteCalls(p, text) == <<Mkdir(Parent(p)), Put(p, text)>>

\* planPatchOp: every operation is planned on the files as they are.
PatchCalls(op, t) ==
  CASE op.do = "add"    -> WriteCalls(op.path, op.text)
    [] op.do = "update" -> WriteCalls(op.path, t[op.path] \cup {op.mark})
    [] op.do = "delete" -> <<Unlink(op.path)>>

\* The destination of a move goes before the source is renamed.
MoveCalls(r, t) ==
  IF r.path = r.to THEN <<>>
  ELSE (IF t[r.to] # Absent THEN <<RemoveAll(r.to)>> ELSE <<>>)
       \o <<Mkdir(Parent(r.to)), Rename(r.path, r.to)>>

Calls(r, t) ==
  CASE r.do = "write"  -> WriteCalls(r.path, r.text)
    [] r.do = "edit"   -> WriteCalls(r.path, t[r.path] \cup {r.mark})
    [] r.do = "delete" -> <<IF r.recursive THEN RemoveAll(r.path) ELSE Unlink(r.path)>>
    [] r.do = "move"   -> MoveCalls(r, t)
    [] r.do = "patch"  -> FlattenSeq([i \in DOMAIN r.ops |-> PatchCalls(r.ops[i], t)])

-----------------------------------------------------------------------------
(* Checkpoints.                                                            *)

\* WalkDir does not go into a directory with a name of Skip; a file with such
\* a name makes it leave out the rest of the directory the file is in.
PassedBy(t, q) ==
  \/ Last(q) \in Skip
  \/ \E s \in Paths : /\ IsFile(t, s) /\ Last(s) \in Skip
                      /\ Len(s) = Len(q) /\ Parent(s) = Parent(q) /\ Last(s) < Last(q)

\* The paths recorded for one path of the request.
Walk(t, p) ==
  {p} \cup {q \in Below(p) : /\ t[q] # Absent
                             /\ \A r \in Upto(q) : Len(r) > Len(p) => ~PassedBy(t, r)}

Snapshot(t, ps) == [q \in UNION {Walk(t, p) : p \in ps} |-> t[q]]

\* Entries are sorted by path: a directory comes before what is in it.
Before(p, q) ==
  \/ IsStrictPrefix(p, q)
  \/ \E n \in DOMAIN p \cap DOMAIN q : /\ p[n] < q[n]
                                       /\ SubSeq(p, 1, n - 1) = SubSeq(q, 1, n - 1)

\* Mutant: a path that was missing is left as it is.
MutRestoreKeepsNew(p, node) ==
  IF node = Absent THEN <<Mkdir(Parent(p))>>
  ELSE IF node = Dir THEN <<Mkdir(p)>>
  ELSE WriteCalls(p, node)

RestoreCalls(p, node) ==
  IF node = Absent THEN <<RemoveAll(p)>>
  ELSE IF node = Dir THEN <<Mkdir(p)>>
  ELSE WriteCalls(p, node)

\* Mutant: the list is sorted the other way round.
MutOutdatedNewest(ids, keep) == {i \in ids : Cardinality({j \in ids : j < i}) >= keep}

\* What a prune that keeps `keep` deletes of the listed checkpoints.
Outdated(ids, keep) == {i \in ids : Cardinality({j \in ids : j > i}) >= keep}

-----------------------------------------------------------------------------
(* The workers.                                                            *)

NoRequest == [do |-> "none"]
NoEntries == <<>>
Idle == [pc |-> "idle", req |-> NoRequest, id |-> 0,
         entries |-> NoEntries, calls |-> <<>>, left |-> {}]
NoBase == [id |-> 0, tree |-> <<>>, undone |-> FALSE]

Ended   == {"done", "failed", "killed"}
Busy    == {a \in Workers : w[a].pc \notin Ended \cup {"idle"}}
IsUndo(a) == w[a].req.do = "restore"

\* The reply of a worker; what it no longer needs is forgotten.
Reply(wk, pc) == [wk EXCEPT !.pc = pc, !.entries = NoEntries, !.calls = <<>>, !.left = {}]

Init ==
  /\ tree \in Trees
  /\ made = 0
  /\ cps = NoEntries
  /\ w = [a \in Workers |-> Idle]
  /\ saved = {}
  /\ dropped = {}
  /\ base = NoBase

\* A handler begins with SnapshotPaths; a path below a file refuses the request.
TakeSnapshot(a, r) ==
  /\ w[a].pc = "idle"
  /\ IF \A p \in Named(r) : Reaches(tree, p)
     THEN /\ made' = made + 1
          /\ w' = [w EXCEPT ![a] = [@ EXCEPT !.pc = "snapped", !.req = r, !.id = made + 1,
                                             !.entries = Snapshot(tree, Named(r))]]
          /\ base' = [id |-> made + 1, tree |-> tree, undone |-> FALSE]
     ELSE /\ w' = [w EXCEPT ![a] = Reply([@ EXCEPT !.req = r], "failed")]
          /\ UNCHANGED <<made, base>>
  /\ UNCHANGED <<tree, cps, saved, dropped>>

SaveCheckpoint(a) ==
  /\ w[a].pc = "snapped"
  /\ cps' = [i \in DOMAIN cps \cup {w[a].id} |-> IF i = w[a].id THEN w[a].entries ELSE cps[i]]
  /\ saved' = saved \cup {w[a].id}
  /\ w' = [w EXCEPT ![a].pc = "saved", ![a].entries = NoEntries]
  /\ UNCHANGED <<tree, made, dropped, base>>

\* The operation looks at the tree and settles what it will do.
Check(a) ==
  /\ w[a].pc = "saved"
  /\ LET r == w[a].req IN
       w' = [w EXCEPT ![a] = IF ~Accepted(r, tree) THEN Reply(@, "failed")
                             ELSE IF Calls(r, tree) = <<>> THEN Reply(@, "done")
                             ELSE [@ EXCEPT !.pc = "calling", !.calls = Calls(r, tree)]]
  /\ UNCHANGED <<tree, made, cps, saved, dropped, base>>

LastCall(a) == Len(w[a].calls) = 1 /\ w[a].left = {}

\* The history of the last snapshot, when a changes the tree to t.
BaseAfter(a, t) ==
  LET mine  == w[a].id = base.id
      rival == ~IsUndo(a) /\ \E b \in Busy : IsUndo(b) /\ w[b].id = base.id
  IN  IF t # tree /\ (~mine \/ rival) THEN NoBase
      ELSE IF mine /\ IsUndo(a) /\ LastCall(a) THEN [base EXCEPT !.undone = TRUE]
      ELSE [base EXCEPT !.undone = @ /\ t = tree]

\* The next file system call; the first that fails ends the request.
Call(a) ==
  /\ w[a].pc = "calling" /\ w[a].calls # <<>>
  /\ LET c == Head(w[a].calls) IN
       IF Works(c, tree)
       THEN /\ tree' = Effect(c, tree)
            /\ w' = [w EXCEPT ![a] = IF LastCall(a) THEN Reply(@, "done")
                                     ELSE [@ EXCEPT !.calls = Tail(w[a].calls)]]
            /\ base' = BaseAfter(a, Effect(c, tree))
       ELSE /\ w' = [w EXCEPT ![a] = Reply(@, "failed")]
            /\ UNCHANGED <<tree, base>>
  /\ UNCHANGED <<made, cps, saved, dropped>>

LoadCheckpoint(a, id) ==
  /\ w[a].pc = "idle"
  /\ w' = [w EXCEPT ![a] =
             IF id \in DOMAIN cps
             THEN [@ EXCEPT !.pc = "calling", !.req = [do |-> "restore"], !.id = id,
                            !.entries = cps[id], !.left = DOMAIN cps[id]]
             ELSE Reply([@ EXCEPT !.req = [do |-> "restore"]], "failed")]
  /\ UNCHANGED <<tree, made, cps, saved, dropped, base>>

RestoreEntry(a) ==
  /\ w[a].pc = "calling" /\ w[a].calls = <<>>
  /\ LET p == CHOOSE p \in w[a].left : \A q \in w[a].left \ {p} : Before(p, q) IN
       w' = [w EXCEPT ![a] = [@ EXCEPT !.calls = RestoreCalls(p, w[a].entries[p]),
                                       !.left = w[a].left \ {p}]]
  /\ UNCHANGED <<tree, made, cps, saved, dropped, base>>

Without(id) == [i \in DOMAIN cps \ {id} |-> cps[i]]

DeleteCheckpoint(a, id) ==
  /\ w[a].pc = "idle"
  /\ cps' = Without(id)
  /\ dropped' = dropped \cup {id}
  /\ w' = [w EXCEPT ![a] = Reply([@ EXCEPT !.req = [do |-> "drop"]],
                                 IF id \in DOMAIN cps THEN "done" ELSE "failed")]
  /\ UNCHANGED <<tree, made, saved, base>>

\* PruneCheckpoints lists the checkpoints, newest first ...
ListCheckpoints(a, keep) ==
  /\ w[a].pc = "idle"
  /\ LET old == Outdated(DOMAIN cps, keep)
         wk  == [w[a] EXCEPT !.req = [do |-> "prune"]]
     IN  w' = [w EXCEPT ![a] = IF old = {} THEN Reply(wk, "done")
                               ELSE [wk EXCEPT !.pc = "pruning", !.left = old]]
  /\ UNCHANGED <<tree, made, cps, saved, dropped, base>>

\* ... and deletes those past the first `keep`, one by one.
PruneNext(a) ==
  /\ w[a].pc = "pruning"
  /\ LET id == Max(w[a].left) IN
       /\ cps' = Without(id)
       /\ w' = [w EXCEPT ![a] = IF id \notin DOMAIN cps THEN Reply(@, "failed")
                                ELSE IF w[a].left = {id} THEN Reply(@, "done")
                                ELSE [@ EXCEPT !.left = w[a].left \ {id}]]
  /\ UNCHANGED <<tree, made, saved, dropped, base>>

\* The process ends; a file that was being written may be left empty.
Crash ==
  /\ Busy # {}
  /\ \E torn \in SUBSET {a \in Busy : /\ w[a].pc = "calling" /\ w[a].calls # <<>>
                                       /\ Head(w[a].calls).call = "put"
                                       /\ Works(Head(w[a].calls), tree)} :
       LET cut == {Head(w[a].calls).path : a \in torn} IN
       /\ tree' = [p \in Paths |-> IF p \in cut THEN {} ELSE tree[p]]
       /\ base' = IF tree' = tree THEN base
                  ELSE IF \E a \in torn : w[a].id # base.id THEN NoBase
                  ELSE [base EXCEPT !.undone = FALSE]
  /\ w' = [a \in Workers |-> IF a \in Busy THEN Reply(w[a], "killed") ELSE w[a]]
  /\ UNCHANGED <<made, cps, saved, dropped>>

Next ==
  \/ \E a \in Workers :
       \/ \E r \in Changes : TakeSnapshot(a, r)
       \/ SaveCheckpoint(a)
       \/ Check(a)
       \/ Call(a)
       \/ \E id \in 1..made : LoadCheckpoint(a, id) \/ DeleteCheckpoint(a, id)
       \/ RestoreEntry(a)
       \/ \E keep \in Keeps : ListCheckpoints(a, keep)
       \/ PruneNext(a)
  \/ Crash

Spec == Init /\ [][Next]_vars

-----------------------------------------------------------------------------
(* Properties.                                                             *)

\* The tree stays a tree, and every checkpoint file and every worker has its
\* shape (FileCheckpoint of workspace/checkpoint.go).
TypeOK ==
  /\ tree \in [Paths -> Nodes] /\ IsTree(tree)
  /\ made \in Nat
  /\ DOMAIN cps \subseteq saved /\ saved \subseteq 1..made /\ dropped \subseteq 1..made
  /\ \A i \in DOMAIN cps : DOMAIN cps[i] \subseteq Paths /\ \A p \in DOMAIN cps[i] : cps[i][p] \in Nodes
  /\ \A a \in Workers :
       /\ w[a].pc \in Ended \cup {"idle", "snapped", "saved", "calling", "pruning"}
       /\ w[a].id \in 0..made
       /\ w[a].pc \in {"snapped", "saved"} => w[a].req \in Changes
       /\ IsUndo(a) /\ w[a].pc = "calling" => w[a].left \subseteq Paths
       /\ w[a].pc = "pruning" => w[a].left \subseteq saved /\ w[a].left # {}

\* When a request has ended, however it ended, and nothing but it and restores
\* of its checkpoint has changed the tree, a restore that reports success has
\* brought back every file there was, in the whole tree, but for those WalkDir
\* passes by; a restore that was cut short can be repeated.  RestoreCheckpoint
\* writes only what SnapshotPaths recorded: a request must not reach further.
UndoLosesNothing ==
  base.undone => \A q \in Paths :
    IsFile(base.tree, q) /\ (\A r \in Upto(q) : ~PassedBy(base.tree, r))
      => tree[q] = base.tree[q]

\* After such a restore every recorded path is what it was, missing paths too:
\* no entry of RestoreCheckpoint undoes another.
UndoRestoresEntries ==
  base.undone /\ base.id \in DOMAIN cps =>
    \A p \in DOMAIN cps[base.id] : tree[p] = cps[base.id][p]

\* Such a restore fails only after a move that replaced its destination or
\* after a patch: a write, an edit, a delete and any other move never turn a
\* file into a directory or a directory into a file, which stops a restore.
UndoFailsOnlyAfterReplacing ==
  \A u, a \in Workers :
    /\ IsUndo(u) /\ w[u].pc = "failed" /\ base.id # 0 /\ w[u].id = base.id
    /\ a # u /\ w[a].id = base.id /\ ~IsUndo(a)
    => w[a].req.do = "patch" \/ (w[a].req.do = "move" /\ w[a].req.overwrite)

\* A checkpoint that is gone and was not deleted by name had at least as many
\* newer ones as a prune keeps, whatever was taken, deleted or pruned while
\* PruneCheckpoints worked through its list.
PruneKeepsNewest ==
  \A i \in saved \ (DOMAIN cps \cup dropped) :
    \E keep \in Keeps : Cardinality({j \in saved : j > i}) >= keep

\* What suggest/06-roadmap.md:75 asks of a checkpoint: a change made by a
\* write, an edit, a patch, a delete or a move can be restored, with every file.
UndoBringsBackAllFiles ==
  base.undone => \A q \in Paths : IsFile(base.tree, q) => tree[q] = base.tree[q]
=============================================================================
