--------------------------- MODULE EvidenceBundle ---------------------------
(***************************************************************************)
(* How the discovering review turns a repository into what the grader      *)
(* sees: paths are selected from the tree, exact patterns first, fetched   *)
(* one by one, and packed under the task's caps.  Each loop of the code is *)
(* an action per iteration; the inputs are every small tree, with every    *)
(* size of file and every answer to a fetch.                               *)
(***************************************************************************)
EXTENDS Naturals, FiniteSets, SequencesExt

CONSTANTS
    Fold,          \* the casefolded path of each file; a file is its place in
                   \* the order of sorted(), which compares these
    InDirectory,   \* casefolded paths under a directory pattern
    ExactPatterns, \* the exact patterns, casefolded, in declaration order
    MaxFiles, MaxFileSize, MaxTotal, \* the evidence policy's caps
    Sizes          \* sizes a file may have

Path == DOMAIN Fold

VARIABLES
    tree,     \* all_files
    size,     \* the size of each file
    readable, \* the files a fetch returns
    pc, at,   \* the loop being run and its position
    selected, \* select_repo_paths
    fetched,  \* collect_repo_file_evidence
    items     \* apply_evidence_cap

vars == <<tree, size, readable, pc, at, selected, fetched, items>>

-----------------------------------------------------------------------------
Folded(paths) == {Fold[p] : p \in ToSet(paths)}
First(paths) == {p \in paths : \A q \in paths : p <= q}

(* truncate_to_bytes: an item never counts for more than the file cap.     *)
Stored(p) == IF size[p] > MaxFileSize THEN MaxFileSize ELSE size[p]
Weight(paths) ==
    LET total[n \in 0..Len(paths)] ==
          IF n = 0 THEN 0 ELSE total[n - 1] + Stored(paths[n])
    IN total[Len(paths)]

Init ==
    /\ tree \in SUBSET Path
    /\ size \in [tree -> Sizes]
    /\ readable \in SUBSET tree
    /\ pc = "exact" /\ at = 1
    /\ selected = <<>> /\ fetched = <<>> /\ items = <<>>

(* The collection begins anew on the same repository.                      *)
Restart ==
    /\ pc' = "exact" /\ at' = 1
    /\ selected' = <<>> /\ fetched' = <<>> /\ items' = <<>>
    /\ UNCHANGED <<tree, size, readable>>

(* Nothing of a collection is kept once its step has returned.             *)
Released ==
    /\ tree = {} /\ size = <<>> /\ readable = {}
    /\ pc = "exact" /\ at = 1
    /\ selected = <<>> /\ fetched = <<>> /\ items = <<>>
Release ==
    /\ tree' = {} /\ size' = <<>> /\ readable' = {}
    /\ pc' = "exact" /\ at' = 1
    /\ selected' = <<>> /\ fetched' = <<>> /\ items' = <<>>

Advance(last, next) ==
    IF at < last THEN at' = at + 1 /\ UNCHANGED pc ELSE at' = 1 /\ pc' = next

(* The first file whose casefolded path is the pattern and is not yet in.  *)
SelectExact ==
    /\ pc = "exact"
    /\ LET matches == {p \in tree : /\ at \in DOMAIN ExactPatterns
                                    /\ Fold[p] = ExactPatterns[at]
                                    /\ Fold[p] \notin Folded(selected)}
       IN \/ matches = {} /\ UNCHANGED selected
          \/ \E p \in First(matches) : selected' = Append(selected, p)
    /\ Advance(Len(ExactPatterns), "directories")
    /\ UNCHANGED <<tree, size, readable, fetched, items>>

Left == {p \in tree : p >= at}   \* of ordered_files

(* Defect: a path already selected under another case is selected again.   *)
SelectUnfolded ==
    /\ pc = "directories"
    /\ \/ Left = {} /\ at' = 1 /\ pc' = "limit" /\ UNCHANGED selected
       \/ \E p \in First(Left) :
            /\ selected' = IF Fold[p] \in InDirectory THEN Append(selected, p) ELSE selected
            /\ IF Len(selected') >= MaxFiles THEN at' = 1 /\ pc' = "limit"
                                             ELSE at' = p + 1 /\ UNCHANGED pc
    /\ UNCHANGED <<tree, size, readable, fetched, items>>

(* The files under a directory pattern, in order, until the limit.         *)
SelectDirectory ==
    /\ pc = "directories"
    /\ \/ Left = {} /\ at' = 1 /\ pc' = "limit" /\ UNCHANGED selected
       \/ \E p \in First(Left) :
            /\ Fold[p] \in Folded(selected)
            /\ at' = p + 1 /\ UNCHANGED <<pc, selected>>
       \/ \E p \in First(Left) :
            /\ Fold[p] \notin Folded(selected)
            /\ selected' = IF Fold[p] \in InDirectory THEN Append(selected, p) ELSE selected
            /\ IF Len(selected') >= MaxFiles THEN at' = 1 /\ pc' = "limit"
                                             ELSE at' = p + 1 /\ UNCHANGED pc
    /\ UNCHANGED <<tree, size, readable, fetched, items>>

LimitSelection ==
    /\ pc = "limit"
    /\ selected' = SubSeq(selected, 1,
                          IF Len(selected) > MaxFiles THEN MaxFiles ELSE Len(selected))
    /\ pc' = IF selected' = <<>> THEN "done" ELSE "fetch"
    /\ UNCHANGED <<tree, size, readable, at, fetched, items>>

(* A file that cannot be read is left out.                                 *)
Fetch ==
    /\ pc = "fetch"
    /\ fetched' = IF selected[at] \in readable
                  THEN Append(fetched, selected[at]) ELSE fetched
    /\ Advance(Len(selected), "pack")
    /\ UNCHANGED <<tree, size, readable, selected, items>>

(* Packing stops at the first file that does not fit.                      *)
Pack ==
    /\ pc = "pack"
    /\ IF fetched = <<>> \/ Len(items) >= MaxFiles
          \/ Weight(items) + Stored(fetched[at]) > MaxTotal
         THEN pc' = "done" /\ UNCHANGED <<at, items>>
         ELSE items' = Append(items, fetched[at]) /\ Advance(Len(fetched), "done")
    /\ UNCHANGED <<tree, size, readable, selected, fetched>>

Next == SelectExact \/ SelectDirectory \/ LimitSelection \/ Fetch \/ Pack

-----------------------------------------------------------------------------
TypeOK ==
    /\ tree \subseteq Path /\ size \in [tree -> Sizes] /\ readable \subseteq tree
    /\ pc \in {"exact", "directories", "limit", "fetch", "pack", "done"}
    /\ at \in Nat \ {0}
    /\ {selected, fetched, items} \subseteq Seq(tree)

(* What should be chosen of the tree: of the files with one casefolded     *)
(* path the first, if the path is an exact pattern or under a directory.   *)
Chosen ==
    {p \in tree : /\ \A q \in tree : Fold[q] = Fold[p] => p <= q
                  /\ Fold[p] \in ToSet(ExactPatterns) \cup InDirectory}

(* Exact files come in the order of their patterns, and before the others. *)
Precedes(p, q) ==
    \/ \E k \in DOMAIN ExactPatterns :
          /\ ExactPatterns[k] = Fold[p]
          /\ \A l \in 1..k : ExactPatterns[l] # Fold[q]
    \/ {Fold[p], Fold[q]} \cap ToSet(ExactPatterns) = {} /\ p < q

InOrder(paths) ==
    \A i, j \in DOMAIN paths : i < j => Precedes(paths[i], paths[j])

(* The two selection loops list the chosen files in that order, cut at the *)
(* limit, whatever the tree holds: no file twice under two cases, no exact *)
(* path behind a directory's, and none left out but for lack of room.      *)
SelectionIsChoice ==
    pc \in {"fetch", "pack", "done"} =>
        /\ ToSet(selected) \subseteq Chosen /\ InOrder(selected)
        /\ Len(selected) <= MaxFiles
        /\ \A p \in Chosen \ ToSet(selected) :
              /\ Len(selected) = MaxFiles
              /\ \A q \in ToSet(selected) : Precedes(q, p)

(* The bundle the grader sees is the longest run of readable selected      *)
(* files that fits the caps: nothing over the total, no gap in the order.  *)
BundleIsLongestFit ==
    /\ Weight(items) <= MaxTotal /\ Len(items) <= MaxFiles
    /\ IsPrefix(items, fetched)
    /\ pc = "done" =>
         /\ ToSet(fetched) = ToSet(selected) \cap readable /\ InOrder(fetched)
         /\ items # fetched =>
              \/ Len(items) = MaxFiles
              \/ Weight(items) + Stored(fetched[Len(items) + 1]) > MaxTotal
=============================================================================
