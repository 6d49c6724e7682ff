-------------------------------- MODULE MCGit --------------------------------
(* The Git protocol and the mirror.  Their parts share no state: a behaviour  *)
(* runs one of them, "wire" (pushes, fetches and clones), "reads" (history,   *)
(* listings, diffs and deltas of one repository), "sync" (the two-way mirror  *)
(* with its outbound queue), "seed", "history" and "fetch" (seeding and       *)
(* import), "app" (installation tokens and webhooks), or "emit", "hold",      *)
(* "badge" and "tips" (status outputs).                                       *)
EXTENDS GitProto, MirrorSync, MirrorImport, MirrorStatus

VARIABLES part, reads

mirrorParts == <<mirrorVars, importVars, appVars, statusVars>>

\* Three commits in a line, a merge over the first and the last, and a tag.
MCKind == [o \in Objects |-> CASE o = "b" -> "blob" [] o = "t" -> "tree" [] o = "v" -> "tag" [] OTHER -> "commit"]
MCLinks == [o \in Objects |->
    CASE o = "b" -> <<>> [] o = "t" -> <<"b", "sub">> [] o = "c1" -> <<"t">> [] o = "c2" -> <<"t", "c1">>
      [] o = "c3" -> <<"t", "c2">> [] o = "m" -> <<"t", "c3", "c1">> [] o = "v" -> <<"c2">>]

Full(o) == [kind |-> "full", obj |-> o, base |-> 0]
OnId(o, base) == [kind |-> "ref", obj |-> o, base |-> base]
OnEntry(o, back) == [kind |-> "ofs", obj |-> o, base |-> back]
Sent(entries) == [entries |-> entries, bytes |-> Len(entries), corrupt |-> FALSE]

MCPacks ==
    {Sent(e) : e \in {
        <<Full("b"), Full("t"), Full("c1")>>,
        <<OnId("c3", "c2"), OnId("c2", "c1")>>,
        <<OnId("v", "t"), OnId("m", "v"), OnEntry("c3", 1)>>,
        <<Full("b"), Full("t"), Full("c1"), Full("c3")>>}}
    \cup {[entries |-> <<Full("b")>>, bytes |-> 9, corrupt |-> FALSE],
          [entries |-> <<Full("b")>>, bytes |-> 1, corrupt |-> TRUE]}
MCRefNames == <<"heads/main", "tags/v">>

File(x) == [mode |-> "blob", oid |-> [blob |-> x]]
Dir(t) == [mode |-> "tree", oid |-> t]
Link == [mode |-> "link", oid |-> [blob |-> "x"]]

\* Trees with files, a symbolic link and directories two deep.
Subtrees == {[a |-> File("x")], [b |-> File("y"), a |-> File("x")],
             [a |-> Dir([a |-> File("x")])], [a |-> Dir([a |-> File("y")])]}
RootTrees == {[a |-> File("x")], [a |-> File("y"), b |-> Link]}
               \cup {[b |-> Dir(s)] : s \in Subtrees}
               \cup {[a |-> Dir(s), b |-> File("x")] : s \in Subtrees}
ShortFiles == UNION {[1..n -> {"p", "q"}] : n \in 0..3}

R == INSTANCE GitReads WITH
    Names <- <<"a", "b">>, Trees <- RootTrees, MaxPathDepth <- 2, MaxTreeEntries <- 1,
    MaxDiffFiles <- 9, MaxHistoryRevs <- 2, MaxIndexCommits <- 3,
    LineSeqs <- ShortFiles, MaxChain <- 3

MCBranches == {<<"heads", "b", "-">>}
MCMain == <<"heads", "main", "-">>
MCHistory == [t \in Tips |-> {t, "t0"}]
MCSeedRefs == <<"r1", "r2">>

Init ==
  /\ part \in {"wire", "reads", "sync", "seed", "history", "fetch", "app",
               "emit", "hold", "badge", "tips"}
  /\ GitInit /\ R!ReadsInit
  /\ part # "wire" => gate = "off"
  /\ MirrorInit /\ AppInit /\ ImportInit /\ StatusInit
  /\ part # "seed" => units = [r \in Range(SeedRefs) |-> CHOOSE h \in Hashes : TRUE]

MirrorPart ==
  \/ part = "sync" /\ MirrorNext /\ UNCHANGED <<importVars, appVars, statusVars>>
  \/ part = "seed" /\ SeedNext /\ UNCHANGED <<mirrorVars, appVars, statusVars>>
  \/ part = "history" /\ HistoryNext /\ UNCHANGED <<mirrorVars, appVars, statusVars>>
  \/ /\ part = "fetch" /\ (MaterializeLfs \/ ImportPrs)
     /\ UNCHANGED <<mirrorVars, appVars, statusVars>>
  \/ part = "app" /\ AppNext /\ UNCHANGED <<mirrorVars, importVars, statusVars>>
  \/ part = "emit" /\ EmitNext /\ UNCHANGED <<mirrorVars, importVars, appVars>>
  \/ part = "hold" /\ HoldNext /\ UNCHANGED <<mirrorVars, importVars, appVars>>
  \/ part = "badge" /\ BadgeNext /\ UNCHANGED <<mirrorVars, importVars, appVars>>
  \/ part = "tips" /\ TipNext /\ UNCHANGED <<mirrorVars, importVars, appVars>>

Next ==
  /\ UNCHANGED part
  /\ \/ part = "wire" /\ GitNext /\ UNCHANGED <<reads, mirrorParts>>
     \/ part = "reads" /\ R!ReadsNext /\ UNCHANGED <<gitVars, mirrorParts>>
     \/ MirrorPart /\ UNCHANGED <<gitVars, reads>>

Spec == Init /\ [][Next]_<<part, gitVars, reads, mirrorParts>>

\* The minting threads are interchangeable.
Symmetry == Permutations(Minters)

------------------------------------------------------------------------------
(* Properties. *)

\* The read side against reference definitions: line counts, deltas, serve
\* plans, and the history of a path told by the walk and by the index.
ReadsExact == part = "reads" => R!AnswersExact /\ R!ReadsAgree
=============================================================================
