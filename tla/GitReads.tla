------------------------------- MODULE GitReads -------------------------------
(***************************************************************************)
(* What the read path answers about trees and history: resolving and       *)
(* listing paths, the diff of two trees, the history of a path by walking  *)
(* or from the index, and the split of a large answer into packs.  A tree  *)
(* is a function from names to entries, and is its own object id.          *)
(***************************************************************************)
EXTENDS Naturals, Sequences, FiniteSets, Functions, SequencesExt

CONSTANTS
    Names,              \* entry names, sorted
    Trees,              \* root trees a commit may have
    MaxPathDepth, MaxTreeEntries, MaxDiffFiles, MaxHistoryRevs, MaxIndexCommits,
    LineSeqs,           \* contents of text files, as sequences of lines
    MaxChain            \* bound: commits of the first-parent chain

VARIABLES
    reads               \* the repository that is read and what is asked of it

readVars == <<reads>>

EmptyTree == <<>>

NoBlob == [blob |-> "none"]

Entry(tree, name) == tree[name]

PathsOf(depth) == UNION {[1..n -> Range(Names)] : n \in 1..depth}

------------------------------------------------------------------------------
(* Objects.  Trees in lost cannot be read.                                 *)

\* Symbolic links and gitlinks are left out; a tree that is not there is empty.
read_tree_entries(lost, tree) ==
    IF tree \in lost THEN EmptyTree
    ELSE Restrict(tree, {n \in DOMAIN tree : tree[n].mode \in {"blob", "tree"}})

RECURSIVE resolve_blob_from(_, _, _)
resolve_blob_from(lost, tree, path) ==
    IF tree \in lost \/ Head(path) \notin DOMAIN tree THEN NoBlob
    ELSE LET e == Entry(tree, Head(path)) IN
         IF Len(path) = 1 THEN IF e.mode = "blob" THEN e.oid ELSE NoBlob
         ELSE IF e.mode = "tree" THEN resolve_blob_from(lost, e.oid, Tail(path)) ELSE NoBlob

\* resolve_blob_at_path and resolve_blob_oid.
resolve_blob_oid(lost, tree, path) ==
    IF Len(path) > MaxPathDepth THEN NoBlob ELSE resolve_blob_from(lost, tree, path)

\* The directory a path is in, entries of the tree in order and capped.
RECURSIVE list_tree_at_dir(_, _, _)
list_tree_at_dir(lost, tree, path) ==
    IF tree \in lost \/ Len(path) > MaxPathDepth THEN <<>>
    ELSE IF Len(path) = 1
    THEN LET shown == SelectSeq(Names, LAMBDA n : n \in DOMAIN tree /\ tree[n].mode \in {"blob", "tree"}) IN
         SubSeq(shown, 1, IF Len(shown) < MaxTreeEntries THEN Len(shown) ELSE MaxTreeEntries)
    ELSE IF Head(path) \in DOMAIN tree /\ tree[Head(path)].mode = "tree"
    THEN list_tree_at_dir(lost, tree[Head(path)].oid, Tail(path)) ELSE <<>>

------------------------------------------------------------------------------
(* tree_diff.                                                              *)

\* Every file of one side, at any depth.
RECURSIVE diff_one_side(_, _, _, _, _)
diff_one_side(lost, e, path, change, out) ==
    IF Len(out) >= MaxDiffFiles THEN out
    ELSE IF e.mode # "tree" THEN Append(out, [path |-> path, change |-> change])
    ELSE LET entries == read_tree_entries(lost, e.oid) IN
         FoldLeft(LAMBDA acc, n : diff_one_side(lost, entries[n], Append(path, n), change, acc),
                  out, SelectSeq(Names, LAMBDA n : n \in DOMAIN entries))

RECURSIVE tree_diff_inner(_, _, _, _, _, _)
tree_diff_inner(lost, old, new, prefix, depth, out) ==
    LET was == read_tree_entries(lost, old)
        now == read_tree_entries(lost, new)
        Visit(acc, n) ==
            LET path == Append(prefix, n) IN
            CASE Len(acc) >= MaxDiffFiles -> acc
              [] n \notin DOMAIN was -> diff_one_side(lost, now[n], path, "added", acc)
              [] n \notin DOMAIN now -> diff_one_side(lost, was[n], path, "removed", acc)
              [] was[n].oid = now[n].oid -> acc
              [] was[n].mode = "tree" /\ now[n].mode = "tree" ->
                    tree_diff_inner(lost, was[n].oid, now[n].oid, path, depth + 1, acc)
              [] was[n].mode # now[n].mode ->
                    diff_one_side(lost, now[n], path, "added",
                                  diff_one_side(lost, was[n], path, "removed", acc))
              [] OTHER -> Append(acc, [path |-> path, change |-> "modified"])
    IN
    IF old = new \/ depth > MaxPathDepth THEN out
    ELSE FoldLeft(Visit, out, SelectSeq(Names, LAMBDA n : n \in DOMAIN was \cup DOMAIN now))

tree_diff(lost, old, new) == tree_diff_inner(lost, old, new, <<>>, 0, <<>>)

\* Mutant: of a changed file the added lines are counted without the common ones.
lcs_len_pairs(a, b) == Cardinality({i \in 1..Len(a) : i <= Len(b) /\ a[i] = b[i]})

\* The length of the longest common subsequence of lines, row by row.
lcs_len(a, b) ==
    LET cell[i \in 0..Len(a), j \in 0..Len(b)] ==
            IF i = 0 \/ j = 0 THEN 0
            ELSE IF a[i] = b[j] THEN cell[i - 1, j - 1] + 1
            ELSE LET up == cell[i - 1, j] left == cell[i, j - 1] IN IF up > left THEN up ELSE left
    IN  cell[Len(a), Len(b)]

blob_numstat(old, new) == [added |-> Len(new) - lcs_len(old, new), removed |-> Len(old) - lcs_len(old, new)]

------------------------------------------------------------------------------
(* apply_delta: a delta copies ranges of its base and inserts literals.    *)

Copy(base, off, len) == SubSeq(base, off + 1, off + len)

\* Refused: a base of another size, a copy off its end, a result longer or
\* shorter than declared.
apply_delta(base, delta) ==
    LET piece(c) == IF c.op = "copy" THEN Copy(base, c.off, c.len) ELSE c.lit
        fits(c) == c.op = "copy" => c.off + c.len <= Len(base)
        out == FlattenSeq([i \in 1..Len(delta.cmds) |-> piece(delta.cmds[i])])
    IN  IF /\ delta.base_size = Len(base)
           /\ \A i \in 1..Len(delta.cmds) : fits(delta.cmds[i])
           /\ Len(out) = delta.target_size
        THEN [ok |-> TRUE, out |-> out] ELSE [ok |-> FALSE, out |-> <<>>]

------------------------------------------------------------------------------
(* History.  A commit is a position of the first-parent chain, the head    *)
(* first; its tree is chain[k].                                            *)

\* Commits in gone cannot be loaded, and the walk stops there.
Loaded(chain, gone, k) == k \in 1..Len(chain) /\ k \notin gone

touched(chain, gone, lost, path, k) ==
    LET blob == resolve_blob_oid(lost, chain[k], path) IN
    IF Loaded(chain, gone, k + 1) THEN blob # resolve_blob_oid(lost, chain[k + 1], path)
    ELSE blob # NoBlob

\* The commits that are walked from the head.
Walked(chain, gone) == {k \in 1..Len(chain) : \A j \in 1..k : j \notin gone}

Newest(ks, cap) == SelectSeq([k \in 1..MaxChain |-> k],
                             LAMBDA k : k \in ks /\ Cardinality({j \in ks : j < k}) < cap)

blob_history(chain, gone, lost, path) ==
    Newest({k \in Walked(chain, gone) : touched(chain, gone, lost, path, k)}, MaxHistoryRevs)

parent_tree(chain, gone, k) == IF Loaded(chain, gone, k + 1) THEN chain[k + 1] ELSE EmptyTree

build_blob_history_index(chain, gone, lost, path) ==
    Newest({k \in Walked(chain, gone) : k <= MaxIndexCommits
              /\ \E i \in 1..Len(tree_diff(lost, parent_tree(chain, gone, k), chain[k])) :
                    tree_diff(lost, parent_tree(chain, gone, k), chain[k])[i].path = path},
           MaxHistoryRevs)

------------------------------------------------------------------------------
(* plan_serve: one pack within the budget, else chunks.                    *)

chunks(oids, size) ==
    [k \in 1..((Len(oids) + size - 1) \div size) |->
        SubSeq(oids, (k - 1) * size + 1, IF k * size < Len(oids) THEN k * size ELSE Len(oids))]

plan_serve(oids, over_budget, chunk_size) ==
    IF ~over_budget THEN <<oids>>
    ELSE LET packs == chunks(oids, IF chunk_size = 0 THEN 1 ELSE chunk_size) IN
         IF packs = <<>> THEN <<<<>>>> ELSE packs

------------------------------------------------------------------------------
(* A repository is picked and read.                                        *)

ReadsInit == reads = [chain |-> <<>>, gone |-> {}, lost |-> {}, old |-> <<>>, new |-> <<>>]

\* A first-parent chain, commits or trees of which may be missing.
AskHistory ==
    /\ reads.chain = <<>> /\ reads.old = <<>> /\ reads.new = <<>>
    /\ \E n \in 1..MaxChain : \E chain \in [1..n -> Trees], gone \in SUBSET {2, 3} :
        reads' = [reads EXCEPT !.chain = chain, !.gone = gone]

LoseTree ==
    /\ reads.chain # <<>> /\ reads.lost = {}
    /\ \E t \in Range(reads.chain) : reads' = [reads EXCEPT !.lost = {t}]

AskDiff ==
    /\ reads.chain = <<>> /\ reads.old = <<>> /\ reads.new = <<>>
    /\ \E old \in LineSeqs, new \in LineSeqs : reads' = [reads EXCEPT !.old = old, !.new = new]

ReadsNext == AskHistory \/ LoseTree \/ AskDiff

------------------------------------------------------------------------------
(* Properties.                                                             *)

CommonSubsequences(a, b) ==
    {S \in SUBSET (1..Len(a)) : \E T \in SUBSET (1..Len(b)) :
        /\ Cardinality(S) = Cardinality(T)
        /\ \A i \in S, j \in T : Cardinality({x \in S : x < i}) = Cardinality({x \in T : x < j}) => a[i] = b[j]}

\* A delta from old to new: their common prefix is copied, the rest inserted.
DeltaOf(old, new) ==
    LET shared == {n \in 0..Len(old) : n <= Len(new) /\ SubSeq(old, 1, n) = SubSeq(new, 1, n)}
        n == CHOOSE k \in shared : \A l \in shared : l <= k
    IN  [base_size |-> Len(old), target_size |-> Len(new),
         cmds |-> <<[op |-> "copy", off |-> 0, len |-> n], [op |-> "insert", lit |-> SubSeq(new, n + 1, Len(new))]>>]

\* The count of added and removed lines is the smallest that turns the old file
\* into the new one; a delta gives its object back and is refused when its end is
\* cut off; and a plan for many objects serves each of them once, in packs of
\* the size asked for.
AnswersExact ==
    LET stat == blob_numstat(reads.old, reads.new)
        best == CHOOSE S \in CommonSubsequences(reads.old, reads.new) :
                    \A T \in CommonSubsequences(reads.old, reads.new) : Cardinality(T) <= Cardinality(S)
    IN
    /\ stat = [added |-> Len(reads.new) - Cardinality(best), removed |-> Len(reads.old) - Cardinality(best)]
    /\ LET delta == DeltaOf(reads.old, reads.new) IN
        /\ apply_delta(reads.old, delta) = [ok |-> TRUE, out |-> reads.new]
        /\ delta.cmds[2].lit # <<>> => ~apply_delta(reads.old, [delta EXCEPT !.cmds = Front(@)]).ok
    /\ \A over \in BOOLEAN, size \in 0..2 :
        LET packs == plan_serve(reads.old, over, size) IN
        /\ FlattenSeq(packs) = reads.old
        /\ over => \A k \in 1..Len(packs) : Len(packs[k]) <= IF size = 0 THEN 1 ELSE size

\* The walk and the index tell the same history of every path both can reach,
\* whatever is missing; and a file that can be opened is in the listing of its
\* directory, unless the listing is full.
ReadsAgree ==
    \A path \in PathsOf(MaxPathDepth) :
        /\ Len(reads.chain) <= MaxIndexCommits =>
            build_blob_history_index(reads.chain, reads.gone, reads.lost, path)
                = blob_history(reads.chain, reads.gone, reads.lost, path)
        /\ \A k \in 1..Len(reads.chain) :
            LET listing == list_tree_at_dir(reads.lost, reads.chain[k], path) IN
            resolve_blob_oid(reads.lost, reads.chain[k], path) # NoBlob
                => Last(path) \in Range(listing) \/ Len(listing) = MaxTreeEntries

\* "a missing object surfaces as a PackError, never a partial fabrication": a
\* diff names no file that did not change.
NeverFabricates ==
    \A k \in 1..(Len(reads.chain) - 1) :
        LET diff == tree_diff(reads.lost, reads.chain[k + 1], reads.chain[k]) IN
        \A i \in 1..Len(diff) : diff[i] \in Range(tree_diff({}, reads.chain[k + 1], reads.chain[k]))
==============================================================================
