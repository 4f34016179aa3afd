---------------------------- MODULE MCWorkspace ----------------------------
(* Instances of Workspace for TLC. *)
EXTENDS Workspace, TLC

CONSTANTS m1, m2

git == 0
x   == 1
a   == <<1>>
b   == <<2>>
MCSkip  == {git}
MCPaths == {a, b, <<1, git>>, <<1, x>>, <<2, x>>}

\* The tree with the files and directories of f, and nothing else.
With(f) == [p \in MCPaths |-> IF p \in DOMAIN f THEN f[p] ELSE Absent]

\* A directory with a .git file; two files; two directories, one empty.
MCTrees == {With((a :> Dir) @@ (<<1, git>> :> {}) @@ (<<1, x>> :> {})),
            With((a :> {m1}) @@ (b :> {m2})),
            With((a :> Dir) @@ (<<1, x>> :> {m1}) @@ (b :> Dir))}

Write(p, s)      == [do |-> "write", path |-> p, text |-> s]
Edit(p, m)       == [do |-> "edit", path |-> p, mark |-> m]
Delete(p, rec)   == [do |-> "delete", path |-> p, recursive |-> rec]
Move(p, to, ow)  == [do |-> "move", path |-> p, to |-> to, overwrite |-> ow]
Patch(ops)       == [do |-> "patch", ops |-> ops]

MCChanges == {
  Write(a, {m2}), Write(<<2, x>>, {m2}),
  Edit(<<1, x>>, m2),
  Delete(a, TRUE), Delete(b, FALSE),
  Move(a, b, TRUE), Move(a, b, FALSE), Move(<<1, x>>, a, TRUE), Move(<<1, x>>, b, TRUE),
  Patch(<<[do |-> "update", path |-> <<1, x>>, mark |-> m2],
          [do |-> "add", path |-> b, text |-> {}]>>),
  Patch(<<[do |-> "delete", path |-> b], [do |-> "add", path |-> b, text |-> {m1}]>>)}

MCKeeps == {1, 2}
Symmetry == Permutations(Workers)
=============================================================================
