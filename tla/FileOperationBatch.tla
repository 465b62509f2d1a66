-------------------------- MODULE FileOperationBatch --------------------------
(***************************************************************************)
(* Validation of a batch copy or move and its execution item by item:      *)
(* PrepareFileOperation and executePreparedFileOperation (service/file.go) *)
(* over an abstraction of CopyInto and MoveInto                            *)
(* (pkg/filesecurity/managed_copy_linux.go), whose internal steps are not  *)
(* modelled here.  One managed root, all on one eligible filesystem and    *)
(* without mount points.  A file's content is the path it was created at,  *)
(* so that every copy can be traced to its source.                         *)
(***************************************************************************)
EXTENDS Naturals, Sequences, FiniteSets, SequencesExt, FiniteSetsExt

CONSTANTS BatchNames,      \* base names in the initial tree
          DeepNames,       \* of them, those used three levels down
          MaxItems,   \* maxManagedFileOperationItems
          MaxIndex    \* maxManagedRenameCandidates - 1

ASSUME BatchAssumption == MaxItems \in Nat \ {0} /\ MaxIndex \in Nat

VARIABLES operation,     \* the operation as PrepareFileOperation returned it
          fs,     \* the tree: a function from existing paths to contents
          fs0,    \* the tree as the execution found it
          next,   \* the item executed next
          status  \* the outcome of the items executed so far

batchVars == <<operation, fs, fs0, next, status>>

(* managedRenameCandidate(base, index): index 0 is the name itself. *)
Candidate(base, index) == <<base, index>>
Initial == {Candidate(n, 0) : n \in BatchNames}
Root == <<>>
Paths == {<<n>> : n \in Initial} \cup {<<m, n>> : m, n \in Initial}
Dir == "dir"
Content(p) == <<"file", p>>

(* Every tree of depth two: each top-level name is missing, a file, or a   *)
(* directory whose entries are missing, files or directories; and in these  *)
(* directories any set of files with the deep names.                        *)
ItemKinds == {"none", "file", Dir}
Trees ==
  LET shapes == {k \in [Paths -> ItemKinds] :
                   \A m, n \in Initial : k[<<m, n>>] # "none" => k[<<m>>] = Dir}
      exists(k) == {p \in Paths : k[p] # "none"}
      deep == {<<m, n, Candidate(d, 0)>> : m, n \in Initial, d \in DeepNames}
      below(k) == {p \in deep : k[Front(p)] = Dir}
      tree(k, files) == [p \in exists(k) \cup {Root} \cup files |->
                           IF p \in files \/ (p # Root /\ k[p] = "file") THEN Content(p) ELSE <<Dir>>]
  IN UNION {{tree(k, files) : files \in SUBSET below(k)} : k \in shapes}

IsDir(tree, p) == p \in DOMAIN tree /\ tree[p] = <<Dir>>

(* managedOperationPathContains, managedOperationPathsOverlap *)
PathContains(parent, child) == IsPrefix(parent, child)
PathsOverlap(p, q) == PathContains(p, q) \/ PathContains(q, p)

Below(tree, p) == {q \in DOMAIN tree : PathContains(p, q)}
Relative(p, q) == SubSeq(q, Len(p) + 1, Len(q))
(* The subtree at p, by relative path. *)
Subtree(tree, p) == [r \in {Relative(p, q) : q \in Below(tree, p)} |-> tree[p \o r]]

Target(to, from) == Append(to, Last(from))
Types == {"copy", "move"}
Styles == {"skip", "replace", "rename"}
Operations ==
  [type : Types, style : Styles, to : Paths \cup {Root},
   from : UNION {[1 .. n -> Paths] : n \in 1 .. MaxItems}]

(* Every source and target that one operation names is kept apart from     *)
(* every other, so that no item can reach into another.                    *)
ItemAccepted(o, i) ==
  LET source == o.from[i]
      target == Target(o.to, source)
  IN /\ Front(source) # o.to
     /\ ~PathsOverlap(source, target)
     /\ \A j \in 1 .. i - 1 :
          /\ ~PathsOverlap(o.from[j], source)
          /\ o.style # "rename" => Target(o.to, o.from[j]) # target

TargetsClearNobody(o) == TRUE

TargetsClear(o) ==
  \A i, j \in DOMAIN o.from :
    i # j => ~PathsOverlap(Target(o.to, o.from[i]), o.from[j])

(* What the preparation reads from the tree. *)
Found(o, tree) ==
  /\ IsDir(tree, o.to)
  /\ \A i \in DOMAIN o.from :
       /\ o.from[i] \in DOMAIN tree
       /\ IsDir(tree, o.from[i]) => ~PathContains(o.from[i], o.to)

(* The operation waits in the queue after PrepareFileOperation: it is       *)
(* accepted on some tree and executed on any.                               *)
Prepared(o) ==
  /\ \A i \in DOMAIN o.from : ItemAccepted(o, i)
  /\ TargetsClear(o)
  /\ \E tree \in Trees : Found(o, tree)
AcceptedBatches == {o \in Operations : Prepared(o)}

BatchInit ==
  /\ fs \in Trees
  /\ fs0 = fs
  /\ operation \in AcceptedBatches
  /\ next = 1
  /\ status = <<>>

(* ------------------------------ execution ------------------------------- *)

Without(tree, p) == [q \in DOMAIN tree \ Below(tree, p) |-> tree[q]]
Graft(tree, p, sub) ==
  [q \in DOMAIN tree \cup {p \o r : r \in DOMAIN sub} |->
     IF PathContains(p, q) THEN sub[Relative(p, q)] ELSE tree[q]]

FreeNames(tree, to, base) ==
  {i \in 0 .. MaxIndex : Append(to, Candidate(base, i)) \notin DOMAIN tree}

Placed(o, tree, source, target) ==
  LET copied == Graft(tree, target, Subtree(tree, source))
  IN IF o.type = "move" /\ o.style # "replace" THEN Without(copied, source) ELSE copied

(* transferInto on the tree: the tree it leaves and the status it reports. *)
TransferItem(o, tree, source) ==
  LET target == Target(o.to, source)
      fails == [tree |-> tree, status |-> "FAILED"]
      done(t) == [tree |-> t,
                  status |-> IF o.type = "move" /\ o.style = "replace" THEN "PARTIAL" ELSE "SUCCESS"]
  IN IF source \notin DOMAIN tree \/ ~IsDir(tree, o.to) THEN fails
     ELSE IF o.type = "move" /\ o.style = "replace" /\ IsDir(tree, source) THEN fails
     ELSE IF target \notin DOMAIN tree THEN done(Placed(o, tree, source, target))
     ELSE IF o.style = "skip" THEN [tree |-> tree, status |-> "SUCCESS"]
     ELSE IF o.style = "rename"
     THEN LET base == Last(source)[1]
              free == FreeNames(tree, o.to, base)
          IN IF free = {} THEN fails
             ELSE done(Placed(o, tree, source, Append(o.to, Candidate(base, Min(free)))))
     ELSE IF IsDir(tree, target) # IsDir(tree, source) \/ Below(tree, target) # {target} THEN fails
     ELSE done(Placed(o, Without(tree, target), source, target))

ExecuteNext ==
  /\ next \in DOMAIN operation.from
  /\ LET r == TransferItem(operation, fs, operation.from[next])
     IN /\ fs' = r.tree
        /\ status' = Append(status, r.status)
  /\ next' = next + 1
  /\ UNCHANGED <<operation, fs0>>

BatchNext == ExecuteNext
BatchSpec == BatchInit /\ [][BatchNext]_batchVars

(* ------------------------------ properties ------------------------------ *)

(* "A replace task must never delete another source before that source has *)
(* been copied" (file.go:446): whatever the earlier items of the batch did, *)
(* an item finds its source exactly as it was when the execution began.     *)
SourcesIntact ==
  \A i \in DOMAIN operation.from :
    i >= next => Subtree(fs, operation.from[i]) = Subtree(fs0, operation.from[i])

RunInOrder(o, tree, order) ==
  FoldLeft(LAMBDA t, i : TransferItem(o, t, o.from[i]).tree, tree, order)

(* "request ordering cannot change the meaning of a batch" (file.go:448):   *)
(* for skip and replace the reversed order would have given the same tree,  *)
(* however much the tree changed while the batch was waiting.               *)
OrderIrrelevant ==
  operation.style # "rename" /\ next > Len(operation.from) =>
    fs = RunInOrder(operation, fs0, Reverse([i \in DOMAIN operation.from |-> i]))

(* An accepted batch means the same in every order, and no item reads what   *)
(* an earlier one has changed.                                              *)
BatchOrderFree == SourcesIntact /\ OrderIrrelevant

=============================================================================
