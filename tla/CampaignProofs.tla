--------------------------- MODULE CampaignProofs ---------------------------
(***************************************************************************)
(* A campaign proposes only what its dry run resolved, after its dry run,  *)
(* and once per request: for any repositories, files, refs and apply       *)
(* requests, and whatever fails, crashes, moves or is pushed meanwhile.    *)
(* What it proposed is on record while no call fails and nothing crashes,  *)
(* and is the reviewed diff while GitHub keeps still.                      *)
(***************************************************************************)
EXTENDS Campaign, TLAPS

\* Until the dry run commits, nothing is reviewed and nothing can be applied.
NothingBeforeReview ==
  dry.pc = "running" =>
    /\ resolved = NotResolved
    /\ \A r \in Repos : /\ target[r].preview = NoDiff
                        /\ branch[r] = None /\ pr[r] = "none"
    /\ \A a \in Appliers : /\ apply[a].todo = {}
                           /\ apply[a].pc \notin {"branching", "putting"}

\* An apply loaded the map before or after the dry run committed it; with the
\* empty map it finds nothing to edit.
AppliesReviewed ==
  \A a \in Appliers :
    /\ apply[a].resolved \in {NotResolved, resolved}
    /\ \A r \in apply[a].todo : target[r].preview # NoDiff
    /\ apply[a].pc \in {"branching", "putting"} =>
         /\ apply[a].repo \in Repos
         /\ target[apply[a].repo].preview # NoDiff
         /\ apply[a].diff \in Diff
         /\ apply[a].diff.new = Pinned(apply[a].diff.old, resolved)

ProposedReviewed ==
  \A r \in Repos : /\ pr[r] # "none" => target[r].preview # NoDiff
                   /\ pr[r] = "open" => branch[r] # None

Review == /\ NothingBeforeReview /\ AppliesReviewed
          /\ ProposedReviewed /\ ReviewedShas

IInv == TypeOK /\ Review
-----------------------------------------------------------------------------
(* What the operators return *)

LEMMA PinnedType ==
  ASSUME NEW tree \in Tree, NEW map \in Resolved PROVE Pinned(tree, map) \in Tree
  BY DEF Pinned, Tree, Content, Resolved

LEMMA PinnedByNothing ==
  ASSUME NEW tree \in Tree PROVE Pinned(tree, NotResolved) = tree
  BY DEF Pinned, Tree, Content, NotResolved

LEMMA PinRefsType ==
  ASSUME tag \in [Refs -> Shas], NEW tree, NEW proven
  PROVE  PinRefs(tree, proven) \in Resolved
  BY DEF PinRefs, Resolved

LEMMA MergedType ==
  ASSUME NEW map \in Resolved, NEW more \in Resolved
  PROVE  Merged(map, more) \in Resolved
  BY DEF Merged, Resolved

LEMMA NotResolvedType == NotResolved \in Resolved
  BY DEF NotResolved, Resolved

\* None is no tree, so an absent diff is no diff.
LEMMA NoDiffIsNone == NoDiff \notin Diff
  BY CampaignAssumption DEF NoDiff, Diff

LEMMA DiffOfType ==
  ASSUME NEW tree \in Tree, NEW map \in Resolved
  PROVE  /\ DiffOf(tree, map) \in Diff \cup {NoDiff}
         /\ DiffOf(tree, map) # NoDiff =>
              /\ DiffOf(tree, map) \in Diff
              /\ DiffOf(tree, map).new = Pinned(DiffOf(tree, map).old, map)
              /\ map # NotResolved
  BY PinnedType, PinnedByNothing DEF DiffOf, Diff

LEMMA HappensType ==
  ASSUME NEW k \in Kinds, Happens(k),
         used \in [Kinds -> Nat], \A j \in Kinds : used[j] <= Limit[j]
  PROVE  used' \in [Kinds -> Nat] /\ \A j \in Kinds : used'[j] <= Limit'[j]
  BY CampaignAssumption DEF Happens

LEMMA IdleApplyType == IdleApply \in Apply
  BY NotResolvedType DEF IdleApply, Apply
-----------------------------------------------------------------------------
(* Type correctness *)

\* Every initial state is well typed.
THEOREM InitType == Init => TypeOK
  <1> SUFFICES ASSUME Init PROVE TypeOK
    OBVIOUS
  <1>1. head \in [Repos -> Tree]
    BY DEF Init, Tree, Content
  <1>2. target \in [Repos -> Target]
    BY DEF Init, Target
  <1>3. dry \in Dry
    BY <1>2, NotResolvedType DEF Init, Dry
  <1>4. used \in [Kinds -> Nat] /\ \A k \in Kinds : used[k] <= Limit[k]
    BY CampaignAssumption DEF Init
  <1>5. QED
    BY <1>1, <1>2, <1>3, <1>4, IdleApplyType, NotResolvedType DEF Init, TypeOK

LEMMA RetagType ==
  ASSUME TypeOK, NEW x \in Refs, NEW s \in Shas, Retag(x, s) PROVE TypeOK'
  <1>1. tag' \in [Refs -> Shas]
    BY DEF Retag, TypeOK
  <1>2. used' \in [Kinds -> Nat] /\ \A k \in Kinds : used'[k] <= Limit[k]
    BY HappensType DEF Retag, TypeOK, Kinds
  <1>3. QED  BY <1>1, <1>2 DEF Retag, TypeOK, db

LEMMA PushType ==
  ASSUME TypeOK, NEW r \in Repos, NEW f \in Files, NEW c \in Content, Push(r, f, c)
  PROVE  TypeOK'
  <1>1. [head[r] EXCEPT ![f] = c] \in Tree
    BY DEF TypeOK, Tree
  <1>2. head' \in [Repos -> Tree]
    BY <1>1 DEF Push, TypeOK
  <1>3. used' \in [Kinds -> Nat] /\ \A k \in Kinds : used'[k] <= Limit[k]
    BY HappensType DEF Push, TypeOK, Kinds
  <1>4. QED  BY <1>2, <1>3 DEF Push, TypeOK, db

LEMMA MergeType ==
  ASSUME TypeOK, ProposedReviewed, NEW r \in Repos, Merge(r)
  PROVE  TypeOK'
  <1>1. branch[r] \in Tree /\ head[r] \in Tree
    BY DEF Merge, TypeOK, ProposedReviewed
  <1>2. [f \in Files |-> IF branch[r][f] # base[r][f]
                         THEN branch[r][f] ELSE head[r][f]] \in Tree
    BY <1>1 DEF Tree
  <1>3. head' \in [Repos -> Tree]
    BY <1>2 DEF Merge, TypeOK
  <1>4. pr' \in [Repos -> {"none", "open", "merged", "closed"}]
    BY DEF Merge, TypeOK
  <1>5. QED  BY <1>3, <1>4 DEF Merge, TypeOK, db

LEMMA CloseType ==
  ASSUME TypeOK, NEW r \in Repos, Close(r) PROVE TypeOK'
  <1>1. pr' \in [Repos -> {"none", "open", "merged", "closed"}]
    BY DEF Close, TypeOK
  <1>2. QED  BY <1>1 DEF Close, TypeOK, db

LEMMA DeleteBranchType ==
  ASSUME TypeOK, NEW r \in Repos, DeleteBranch(r) PROVE TypeOK'
  <1>1. /\ pr' \in [Repos -> {"none", "open", "merged", "closed"}]
        /\ branch' \in [Repos -> Tree \cup {None}] /\ base' \in [Repos -> Tree \cup {None}]
    BY DEF DeleteBranch, TypeOK
  <1>2. used' \in [Kinds -> Nat] /\ \A k \in Kinds : used'[k] <= Limit[k]
    BY HappensType DEF DeleteBranch, TypeOK, Kinds
  <1>3. QED  BY <1>1, <1>2 DEF DeleteBranch, TypeOK, db

LEMMA PreviewRepoType ==
  ASSUME TypeOK, NEW r \in Repos, PreviewRepo(r) PROVE TypeOK'
  <1> USE DEF TypeOK
  <1>1. PICK proven \in SUBSET Immutable :
          /\ IF proven = Immutable THEN UNCHANGED used ELSE Happens("failure")
          /\ dry' = [pc    |-> "running",
                     todo  |-> dry.todo \ {r},
                     acc   |-> Merged(dry.acc, PinRefs(head[r], proven)),
                     draft |-> [dry.draft EXCEPT ![r] =
                       [status |-> "dry-run-ok",
                        preview |-> DiffOf(head[r], PinRefs(head[r], proven)),
                        pr |-> FALSE]]]
    BY DEF PreviewRepo
  <1>2. used' \in [Kinds -> Nat] /\ \A k \in Kinds : used'[k] <= Limit[k]
    BY <1>1, HappensType DEF Kinds
  <1>3. PinRefs(head[r], proven) \in Resolved
    BY PinRefsType
  <1>4. [status |-> "dry-run-ok",
         preview |-> DiffOf(head[r], PinRefs(head[r], proven)),
         pr |-> FALSE] \in Target
    BY <1>3, DiffOfType DEF Target
  <1>5. Merged(dry.acc, PinRefs(head[r], proven)) \in Resolved
    BY <1>3, MergedType DEF Dry
  <1>6. dry.todo \in SUBSET Repos /\ dry.draft \in [Repos -> Target]
    BY DEF Dry
  <1>7. dry' \in Dry
    BY <1>1, <1>4, <1>5, <1>6 DEF Dry
  <1>8. QED  BY <1>2, <1>7 DEF PreviewRepo, github, db

LEMMA FailPreviewType ==
  ASSUME TypeOK, NEW r \in Repos, FailPreview(r) PROVE TypeOK'
  <1> USE DEF TypeOK
  <1>1. [status |-> "failed", preview |-> NoDiff, pr |-> FALSE] \in Target
    BY DEF Target
  <1>2. /\ dry.todo \in SUBSET Repos /\ dry.acc \in Resolved
        /\ dry.draft \in [Repos -> Target]
    BY DEF Dry
  <1>3. dry' \in Dry
    BY <1>1, <1>2 DEF FailPreview, Dry
  <1>4. used' \in [Kinds -> Nat] /\ \A k \in Kinds : used'[k] <= Limit[k]
    BY HappensType DEF FailPreview, Kinds
  <1>5. QED  BY <1>3, <1>4 DEF FailPreview, github, db

LEMMA CommitPreviewType == ASSUME TypeOK, CommitPreview PROVE TypeOK'
  <1> USE DEF TypeOK
  <1>1. dry.acc \in Resolved /\ dry.draft \in [Repos -> Target]
    BY DEF Dry
  <1>2. dry' \in Dry
    BY DEF CommitPreview, Dry
  <1>3. target' \in [Repos -> Target]
    BY <1>1 DEF CommitPreview, Target
  <1>4. QED  BY <1>1, <1>2, <1>3 DEF CommitPreview, github

LEMMA CrashPreviewType == ASSUME TypeOK, CrashPreview PROVE TypeOK'
  <1> USE DEF TypeOK
  <1>1. dry' \in Dry
    BY DEF CrashPreview, Dry
  <1>2. used' \in [Kinds -> Nat] /\ \A k \in Kinds : used'[k] <= Limit[k]
    BY HappensType DEF CrashPreview, Kinds
  <1>3. QED  BY <1>1, <1>2 DEF CrashPreview, github, db

LEMMA LoadCampaignType ==
  ASSUME TypeOK, NEW a \in Appliers, LoadCampaign(a) PROVE TypeOK'
  <1> USE DEF TypeOK
  <1>1. [IdleApply EXCEPT !.pc = "loaded", !.resolved = resolved] \in Apply
    BY IdleApplyType DEF Apply
  <1>2. used' \in [Kinds -> Nat] /\ \A k \in Kinds : used'[k] <= Limit[k]
    BY HappensType DEF LoadCampaign, Becomes, Kinds
  <1>3. QED  BY <1>1, <1>2 DEF LoadCampaign, Becomes, github, db

LEMMA LoadTargetsType ==
  ASSUME TypeOK, NEW a \in Appliers, LoadTargets(a) PROVE TypeOK'
  <1> USE DEF TypeOK
  <1> DEFINE todo == {r \in Repos : /\ target[r].status = "dry-run-ok"
                                    /\ target[r].preview # NoDiff}
  <1>1. apply[a] \in Apply /\ todo \in SUBSET Repos
    OBVIOUS
  <1> HIDE DEF todo
  <1>2. [apply[a] EXCEPT !.pc = "looping", !.todo = todo] \in Apply
    BY <1>1 DEF Apply
  <1>3. apply' = [apply EXCEPT ![a] = [apply[a] EXCEPT !.pc = "looping", !.todo = todo]]
    BY DEF LoadTargets, Becomes, todo
  <1>4. apply' \in [Appliers -> Apply]
    BY <1>2, <1>3
  <1>5. QED  BY <1>4 DEF LoadTargets, Becomes, github, db

LEMMA ReadRepoType ==
  ASSUME TypeOK, NEW a \in Appliers, NEW r \in Repos, ReadRepo(a, r) PROVE TypeOK'
  <1> USE DEF TypeOK
  <1> DEFINE diff == DiffOf(head[r], apply[a].resolved)
             left == {f \in Files : diff.new[f] # diff.old[f]}
             skip == [apply[a] EXCEPT !.todo = apply[a].todo \ {r}]
             edit == [apply[a] EXCEPT !.pc = "branching", !.todo = apply[a].todo \ {r},
                                      !.repo = r, !.diff = diff, !.left = left]
  <1>1. apply[a] \in Apply
    OBVIOUS
  <1>2. diff \in Diff \cup {NoDiff}
    BY <1>1, DiffOfType DEF Apply
  <1>3. left \in SUBSET Files
    OBVIOUS
  <1>4. apply' = [apply EXCEPT ![a] = IF diff = NoDiff THEN skip ELSE edit]
    BY DEF ReadRepo, Edit, Becomes
  <1> HIDE DEF diff, left
  <1>5. skip \in Apply
    BY <1>1 DEF Apply
  <1>6. edit \in Apply
    BY <1>1, <1>2, <1>3 DEF Apply
  <1> HIDE DEF skip, edit
  <1>7. apply' \in [Appliers -> Apply]
    BY <1>4, <1>5, <1>6
  <1>8. QED  BY <1>7 DEF ReadRepo, Edit, Becomes, github, db

LEMMA ReadFailsType ==
  ASSUME TypeOK, NEW a \in Appliers, NEW r \in Repos, ReadFails(a, r) PROVE TypeOK'
  <1> USE DEF TypeOK
  <1> DEFINE failed == [apply[a] EXCEPT !.todo = apply[a].todo \ {r},
                                        !.outcome = [apply[a].outcome EXCEPT ![r] = "conflict"]]
  <1>1. failed \in Apply
    <2>1. apply[a] \in Apply
      OBVIOUS
    <2>2. [apply[a].outcome EXCEPT ![r] = "conflict"]
            \in [Repos -> {"same", "pr-opened", "conflict"}]
      BY <2>1 DEF Apply
    <2>3. apply[a].todo \ {r} \in SUBSET Repos
      BY <2>1 DEF Apply
    <2>4. QED  BY <2>1, <2>2, <2>3 DEF Apply
  <1>2. apply' = [apply EXCEPT ![a] = failed]
    BY DEF ReadFails, Becomes
  <1> HIDE DEF failed
  <1>3. apply' \in [Appliers -> Apply]
    BY <1>1, <1>2
  <1>4. used' \in [Kinds -> Nat] /\ \A k \in Kinds : used'[k] <= Limit[k]
    BY HappensType DEF ReadFails, Becomes, Kinds
  <1>5. QED  BY <1>3, <1>4 DEF ReadFails, Becomes, github, db

\* What the end of a repository's turn leaves.
LEMMA Settled ==
  ASSUME TypeOK, NEW a \in Appliers, NEW o \in {"pr-opened", "conflict"},
         apply[a].repo \in Repos, Settle(a, o)
  PROVE  /\ apply' \in [Appliers -> Apply]
         /\ apply'[a].pc = "looping"
         /\ apply'[a].resolved = apply[a].resolved
         /\ apply'[a].todo = apply[a].todo
         /\ apply'[a].outcome = [apply[a].outcome EXCEPT ![apply[a].repo] = o]
         /\ \A b \in Appliers \ {a} : apply'[b] = apply[b]
  <1> USE DEF TypeOK
  <1> DEFINE done == [apply[a] EXCEPT
               !.pc = "looping", !.repo = None, !.diff = NoDiff, !.left = {},
               !.outcome = [apply[a].outcome EXCEPT ![apply[a].repo] = o]]
  <1>1. apply[a] \in Apply
    OBVIOUS
  <1>2. [apply[a].outcome EXCEPT ![apply[a].repo] = o]
          \in [Repos -> {"same", "pr-opened", "conflict"}]
    BY <1>1 DEF Apply
  <1>3. done \in Apply
    BY <1>1, <1>2 DEF Apply
  <1>4. /\ done.pc = "looping" /\ done.resolved = apply[a].resolved
        /\ done.todo = apply[a].todo
        /\ done.outcome = [apply[a].outcome EXCEPT ![apply[a].repo] = o]
    BY <1>1 DEF Apply
  <1>5. apply' = [apply EXCEPT ![a] = done]
    BY DEF Settle, Becomes
  <1> HIDE DEF done
  <1>6. QED  BY <1>3, <1>4, <1>5

\* While a repository is in hand, it is one of the campaign's.
LEMMA InHand ==
  ASSUME TypeOK, AppliesReviewed, NEW a \in Appliers,
         apply[a].pc \in {"branching", "putting"}
  PROVE  /\ apply[a] \in Apply /\ apply[a].repo \in Repos
         /\ target[apply[a].repo].preview # NoDiff
         /\ apply[a].diff \in Diff
         /\ apply[a].diff.new = Pinned(apply[a].diff.old, resolved)
  BY DEF TypeOK, AppliesReviewed

LEMMA CreateBranchType ==
  ASSUME TypeOK, AppliesReviewed, NEW a \in Appliers, CreateBranch(a) PROVE TypeOK'
  <1>1. apply[a] \in Apply /\ apply[a].repo \in Repos
    BY InHand DEF CreateBranch
  <1>2. [apply[a] EXCEPT !.pc = "putting"] \in Apply
    BY <1>1 DEF Apply
  <1>3. apply' \in [Appliers -> Apply]
    BY <1>2 DEF CreateBranch, Becomes, TypeOK
  <1>4. branch' \in [Repos -> Tree \cup {None}] /\ base' \in [Repos -> Tree \cup {None}]
    BY <1>1 DEF CreateBranch, TypeOK
  <1>5. QED  BY <1>3, <1>4 DEF CreateBranch, TypeOK, db

\* What a commit to the branch changes, when GitHub takes it.
LEMMA Put ==
  ASSUME TypeOK, AppliesReviewed, NEW a \in Appliers, NEW f \in Files, PutFile(a, f)
  PROVE  \/ /\ Settle(a, "conflict") /\ UNCHANGED branch
         \/ /\ branch[apply[a].repo] \in Tree
            /\ branch[apply[a].repo][f] = apply[a].diff.old[f]
            /\ [branch[apply[a].repo] EXCEPT ![f] = apply[a].diff.new[f]] \in Tree
            /\ branch' = [branch EXCEPT ![apply[a].repo] =
                            [branch[apply[a].repo] EXCEPT ![f] = apply[a].diff.new[f]]]
            /\ apply' \in [Appliers -> Apply]
            /\ \A b \in Appliers :
                 /\ apply'[b].pc = apply[b].pc /\ apply'[b].repo = apply[b].repo
                 /\ apply'[b].todo = apply[b].todo
                 /\ apply'[b].diff = apply[b].diff
                 /\ apply'[b].resolved = apply[b].resolved
  <1> DEFINE r == apply[a].repo
             request == [apply[a] EXCEPT !.left = apply[a].left \ {f}]
  <1>1. apply[a] \in Apply /\ r \in Repos /\ apply[a].diff \in Diff
    BY InHand DEF PutFile
  <1>2. /\ request \in Apply
        /\ request.pc = apply[a].pc /\ request.repo = apply[a].repo
        /\ request.todo = apply[a].todo /\ request.diff = apply[a].diff
        /\ request.resolved = apply[a].resolved
    BY <1>1 DEF Apply
  <1> HIDE DEF request
  <1>3. CASE branch[r] # None /\ branch[r][f] = apply[a].diff.old[f]
    <2>1. branch[r] \in Tree /\ apply[a].diff.new \in Tree
      BY <1>1, <1>3 DEF TypeOK, Diff
    <2>2. [branch[r] EXCEPT ![f] = apply[a].diff.new[f]] \in Tree
      BY <2>1 DEF Tree
    <2>3. /\ branch' = [branch EXCEPT ![r] =
                          [branch[r] EXCEPT ![f] = apply[a].diff.new[f]]]
          /\ apply' = [apply EXCEPT ![a] = request]
      BY <1>3 DEF PutFile, Becomes, request
    <2>4. QED  BY <1>2, <1>3, <2>1, <2>2, <2>3 DEF TypeOK
  <1>4. CASE ~(branch[r] # None /\ branch[r][f] = apply[a].diff.old[f])
    BY <1>4 DEF PutFile
  <1>5. QED  BY <1>3, <1>4

LEMMA PutFileType ==
  ASSUME TypeOK, AppliesReviewed, NEW a \in Appliers, NEW f \in Files, PutFile(a, f)
  PROVE  TypeOK'
  <1>1. apply[a].repo \in Repos
    BY InHand DEF PutFile
  <1>2. CASE Settle(a, "conflict") /\ UNCHANGED branch
    BY <1>1, <1>2, Settled DEF PutFile, TypeOK, db
  <1>3. CASE /\ apply' \in [Appliers -> Apply]
             /\ [branch[apply[a].repo] EXCEPT ![f] = apply[a].diff.new[f]] \in Tree
             /\ branch' = [branch EXCEPT ![apply[a].repo] =
                            [branch[apply[a].repo] EXCEPT ![f] = apply[a].diff.new[f]]]
    BY <1>1, <1>3 DEF PutFile, TypeOK, db
  <1>4. QED  BY <1>2, <1>3, Put

\* What opening a pull request changes: one outcome, and perhaps one request.
LEMMA Opened ==
  ASSUME TypeOK, AppliesReviewed, NEW a \in Appliers, OpenPR(a)
  PROVE  /\ apply[a].repo \in Repos
         /\ \E o \in {"pr-opened", "conflict"} : Settle(a, o)
         /\ \/ UNCHANGED <<pr, used>>
            \/ /\ pr[apply[a].repo] # "open" /\ branch[apply[a].repo] # None
               /\ pr' = [pr EXCEPT ![apply[a].repo] = "open"]
               /\ used' = used \/ Happens("failure")
  BY InHand DEF OpenPR, Propose

LEMMA OpenPRType ==
  ASSUME TypeOK, AppliesReviewed, NEW a \in Appliers, OpenPR(a) PROVE TypeOK'
  <1>1. apply' \in [Appliers -> Apply]
    BY Opened, Settled
  <1>2. pr' \in [Repos -> {"none", "open", "merged", "closed"}]
    BY Opened DEF TypeOK
  <1>3. used' \in [Kinds -> Nat] /\ \A k \in Kinds : used'[k] <= Limit[k]
    BY Opened, HappensType DEF Kinds, TypeOK
  <1>4. QED  BY <1>1, <1>2, <1>3 DEF OpenPR, TypeOK, db

LEMMA CallFailsType ==
  ASSUME TypeOK, AppliesReviewed, NEW a \in Appliers, CallFails(a) PROVE TypeOK'
  <1>1. apply' \in [Appliers -> Apply]
    BY InHand, Settled DEF CallFails
  <1>2. used' \in [Kinds -> Nat] /\ \A k \in Kinds : used'[k] <= Limit[k]
    BY HappensType DEF CallFails, Kinds, TypeOK
  <1>3. QED  BY <1>1, <1>2 DEF CallFails, TypeOK, github, db

\* The commit of an apply changes statuses and records pull requests.
LEMMA CommittedRows ==
  ASSUME TypeOK, NEW a \in Appliers, CommitApply(a)
  PROVE  /\ target' \in [Repos -> Target]
         /\ \A r \in Repos : target'[r].preview = target[r].preview
  <1> DEFINE o(r) == apply[a].outcome[r]
             row(r) == [status  |-> IF o(r) = "same" THEN target[r].status ELSE o(r),
                        preview |-> target[r].preview,
                        pr      |-> (TRUE /\ target[r].pr) \/ o(r) = "pr-opened"]
  <1>1. ASSUME NEW r \in Repos PROVE row(r) \in Target
    <2>1. o(r) \in {"same", "pr-opened", "conflict"}
      BY DEF TypeOK, Apply
    <2>2. target[r] \in Target
      BY DEF TypeOK
    <2>3. ((TRUE /\ target[r].pr) \/ o(r) = "pr-opened") \in BOOLEAN
      OBVIOUS
    <2>4. QED  BY <2>1, <2>2, <2>3 DEF Target
  <1>2. target' = [r \in Repos |-> row(r)]
    BY DEF CommitApply, Commit, Committed
  <1>3. \A r \in Repos : row(r).preview = target[r].preview
    OBVIOUS
  <1> HIDE DEF row
  <1>4. QED  BY <1>1, <1>2, <1>3

LEMMA CommitApplyType ==
  ASSUME TypeOK, NEW a \in Appliers, CommitApply(a) PROVE TypeOK'
  <1>1. [apply[a] EXCEPT !.pc = "announcing"] \in Apply
    BY DEF TypeOK, Apply
  <1>2. apply' \in [Appliers -> Apply]
    BY <1>1 DEF CommitApply, Commit, Becomes, TypeOK
  <1>3. QED  BY <1>2, CommittedRows DEF CommitApply, Commit, TypeOK, github

LEMMA AnnounceType ==
  ASSUME TypeOK, NEW a \in Appliers, Announce(a) PROVE TypeOK'
  BY IdleApplyType DEF Announce, Becomes, TypeOK, github

LEMMA CrashApplyType ==
  ASSUME TypeOK, NEW a \in Appliers, CrashApply(a) PROVE TypeOK'
  <1>1. used' \in [Kinds -> Nat] /\ \A k \in Kinds : used'[k] <= Limit[k]
    BY HappensType DEF CrashApply, Kinds, TypeOK
  <1>2. QED  BY <1>1, IdleApplyType DEF CrashApply, Becomes, TypeOK, github, db

THEOREM NextType == IInv /\ [Next]_vars => TypeOK'
  <1> SUFFICES ASSUME IInv, [Next]_vars PROVE TypeOK'
    OBVIOUS
  <1>1. TypeOK /\ AppliesReviewed /\ ProposedReviewed
    BY DEF IInv, Review
  <1>2. CASE UNCHANGED vars
    BY <1>1, <1>2 DEF vars, github, db, TypeOK
  <1>3. CASE Next
    BY <1>1, <1>3, RetagType, PushType, MergeType, CloseType, DeleteBranchType,
       PreviewRepoType, FailPreviewType, CommitPreviewType, CrashPreviewType, LoadCampaignType, LoadTargetsType,
       ReadRepoType, ReadFailsType, CreateBranchType, PutFileType, OpenPRType,
       CallFailsType, CommitApplyType, AnnounceType, CrashApplyType DEF Next
  <1>4. QED  BY <1>2, <1>3
-----------------------------------------------------------------------------
(* Only what was reviewed is proposed *)

LEMMA InitReview == Init => Review
  BY DEF Init, Review, NothingBeforeReview, AppliesReviewed, ProposedReviewed,
         ReviewedShas, IdleApply

\* What happens on GitHub does not touch the campaign's branches, or ends them.
LEMMA ExternalReview ==
  ASSUME TypeOK, Review,
         \/ \E x \in Refs, s \in Shas : Retag(x, s)
         \/ \E r \in Repos, f \in Files, c \in Content : Push(r, f, c)
         \/ \E r \in Repos : Merge(r) \/ Close(r) \/ DeleteBranch(r)
  PROVE  Review'
  <1> USE DEF Review, NothingBeforeReview, AppliesReviewed, ProposedReviewed,
              ReviewedShas, Pinned
  <1>1. ASSUME NEW x \in Refs, NEW s \in Shas, Retag(x, s) PROVE Review'
    BY <1>1 DEF Retag, db
  <1>2. ASSUME NEW r \in Repos, NEW f \in Files, NEW c \in Content, Push(r, f, c)
        PROVE  Review'
    BY <1>2 DEF Push, db
  <1>3. ASSUME NEW r \in Repos, Merge(r) PROVE Review'
    <2>1. \A q \in Repos : /\ pr'[q] # "none" => pr[q] # "none"
                           /\ pr'[q] = "open" => pr[q] = "open"
      BY <1>3 DEF Merge, TypeOK
    <2>2. dry.pc = "running" => \A q \in Repos : pr'[q] = "none"
      BY <1>3 DEF Merge, TypeOK
    <2>3. QED  BY <1>3, <2>1, <2>2 DEF Merge, db
  <1>4. ASSUME NEW r \in Repos, Close(r) PROVE Review'
    <2>1. \A q \in Repos : /\ pr'[q] # "none" => pr[q] # "none"
                           /\ pr'[q] = "open" => pr[q] = "open"
      BY <1>4 DEF Close, TypeOK
    <2>2. QED  BY <1>4, <2>1 DEF Close, db
  <1>5. ASSUME NEW r \in Repos, DeleteBranch(r) PROVE Review'
    <2>1. \A q \in Repos : /\ pr'[q] # "none" => pr[q] # "none"
                           /\ pr'[q] = "open" => pr[q] = "open" /\ q # r
      BY <1>5 DEF DeleteBranch, TypeOK
    <2>2. branch'[r] = None /\ \A q \in Repos \ {r} : branch'[q] = branch[q] /\ base'[q] = base[q]
      BY <1>5 DEF DeleteBranch, TypeOK
    <2>3. UNCHANGED <<dry, resolved, target, apply>>
      BY <1>5 DEF DeleteBranch, db
    <2>4. NothingBeforeReview'
      BY <2>1, <2>2, <2>3
    <2>5. AppliesReviewed'
      BY <2>3
    <2>6. ProposedReviewed' /\ ReviewedShas'
      BY <2>1, <2>2, <2>3
    <2>7. QED  BY <2>4, <2>5, <2>6
  <1>6. QED  BY <1>1, <1>2, <1>3, <1>4, <1>5

\* While the dry run works it changes no row.
LEMMA PreviewReview ==
  ASSUME TypeOK, Review,
         \/ \E r \in Repos : PreviewRepo(r) \/ FailPreview(r)
         \/ CrashPreview
  PROVE  Review'
  <1>1. UNCHANGED <<github, db, apply>> /\ (dry'.pc = "running" => dry.pc = "running")
    BY DEF PreviewRepo, FailPreview, CrashPreview
  <1>2. QED
    BY <1>1 DEF Review, NothingBeforeReview, AppliesReviewed, ProposedReviewed,
                ReviewedShas, Pinned, github, db

\* Its commit comes before anything can refer to the rows.
LEMMA CommitPreviewReview ==
  ASSUME TypeOK, Review, CommitPreview PROVE Review'
  <1> USE DEF Review
  <1>1. dry.pc = "running" /\ dry'.pc = "done"
    BY DEF CommitPreview, TypeOK, Dry
  <1>2. UNCHANGED <<branch, base, pr, apply>>
    BY DEF CommitPreview, github
  <1>3. /\ resolved = NotResolved
        /\ \A r \in Repos : branch[r] = None /\ pr[r] = "none"
        /\ \A a \in Appliers : /\ apply[a].todo = {}
                               /\ apply[a].pc \notin {"branching", "putting"}
    BY <1>1 DEF NothingBeforeReview
  <1>4. NothingBeforeReview' /\ ProposedReviewed' /\ ReviewedShas'
    BY <1>1, <1>2, <1>3 DEF NothingBeforeReview, ProposedReviewed, ReviewedShas
  <1>5. AppliesReviewed'
    <2> SUFFICES ASSUME NEW a \in Appliers
                 PROVE  /\ apply[a].resolved \in {NotResolved, resolved'}
                        /\ apply[a].todo = {}
                        /\ apply[a].pc \notin {"branching", "putting"}
      BY <1>2 DEF AppliesReviewed
    <2>1. QED  BY <1>3 DEF AppliesReviewed
  <1>6. QED  BY <1>4, <1>5

\* A request that moves on without touching GitHub.
LEMMA RequestReview ==
  ASSUME TypeOK, Review, NEW a \in Appliers,
         UNCHANGED <<branch, base, pr, dry, resolved>>,
         \A r \in Repos : target'[r].preview = target[r].preview,
         \A b \in Appliers \ {a} : apply'[b] = apply[b],
         apply'[a].resolved \in {NotResolved, resolved},
         \A r \in apply'[a].todo : r \in Repos /\ target[r].preview # NoDiff,
         dry.pc = "running" => apply'[a].todo = {},
         apply'[a].pc # "putting",
         apply'[a].pc = "branching" =>
           /\ dry.pc # "running"
           /\ apply'[a].repo \in Repos
           /\ target[apply'[a].repo].preview # NoDiff
           /\ apply'[a].diff \in Diff
           /\ apply'[a].diff.new = Pinned(apply'[a].diff.old, resolved)
  PROVE  Review'
  <1> USE DEF Review
  <1>1. NothingBeforeReview'
    BY DEF NothingBeforeReview
  <1>2. AppliesReviewed'
    <2> SUFFICES ASSUME NEW b \in Appliers PROVE AppliesReviewed!(b)'
      BY DEF AppliesReviewed
    <2>1. CASE b = a
      BY <2>1 DEF Pinned
    <2>2. CASE b # a
      <3>1. apply'[b] = apply[b] /\ apply[b].todo \subseteq Repos
        BY <2>2 DEF TypeOK, Apply
      <3>2. QED  BY <3>1 DEF AppliesReviewed, Pinned
    <2>3. QED  BY <2>1, <2>2
  <1>3. ProposedReviewed' /\ ReviewedShas'
    BY DEF ProposedReviewed, ReviewedShas
  <1>4. QED  BY <1>1, <1>2, <1>3

\* Loading, failing, committing, announcing and dying.
LEMMA BookkeepingReview ==
  ASSUME TypeOK, Review, NEW a \in Appliers,
         \/ LoadCampaign(a) \/ LoadTargets(a) \/ CallFails(a)
         \/ \E r \in Repos : ReadFails(a, r)
         \/ CommitApply(a) \/ Announce(a) \/ CrashApply(a)
  PROVE  Review'
  <1>1. /\ apply[a] \in Apply
        /\ apply[a].resolved \in {NotResolved, resolved}
        /\ \A r \in apply[a].todo : r \in Repos /\ target[r].preview # NoDiff
        /\ dry.pc = "running" =>
             /\ apply[a].todo = {} /\ apply[a].pc \notin {"branching", "putting"}
             /\ \A r \in Repos : target[r].preview = NoDiff
    BY DEF Review, NothingBeforeReview, AppliesReviewed, TypeOK, Apply
  <1>2. CASE LoadCampaign(a)
    <2>1. apply' = [apply EXCEPT ![a] =
             [IdleApply EXCEPT !.pc = "loaded", !.resolved = resolved]]
      BY <1>2 DEF LoadCampaign, Becomes
    <2>2. /\ apply'[a].pc = "loaded" /\ apply'[a].todo = {}
          /\ apply'[a].resolved = resolved
          /\ \A b \in Appliers \ {a} : apply'[b] = apply[b]
      BY <2>1 DEF TypeOK, IdleApply
    <2>3. QED  BY <1>1, <1>2, <2>2, RequestReview DEF LoadCampaign, github, db
  <1>3. CASE LoadTargets(a)
    <2> DEFINE todo == {r \in Repos : /\ target[r].status = "dry-run-ok"
                                      /\ target[r].preview # NoDiff}
    <2>1. apply' = [apply EXCEPT ![a] =
             [apply[a] EXCEPT !.pc = "looping", !.todo = todo]]
      BY <1>3 DEF LoadTargets, Becomes
    <2>2. \A r \in todo : r \in Repos /\ target[r].preview # NoDiff
      OBVIOUS
    <2> HIDE DEF todo
    <2>3. /\ apply'[a].pc = "looping" /\ apply'[a].todo = todo
          /\ apply'[a].resolved = apply[a].resolved
          /\ \A b \in Appliers \ {a} : apply'[b] = apply[b]
      BY <1>1, <2>1 DEF TypeOK, Apply
    <2>4. dry.pc = "running" => todo = {}
      BY <1>1, <2>2
    <2>5. QED  BY <1>1, <1>3, <2>2, <2>3, <2>4, RequestReview DEF LoadTargets, github, db
  <1>4. CASE CallFails(a)
    <2>1. /\ apply'[a].pc = "looping" /\ apply'[a].todo = apply[a].todo
          /\ apply'[a].resolved = apply[a].resolved
          /\ \A b \in Appliers \ {a} : apply'[b] = apply[b]
      BY <1>4, InHand, Settled DEF CallFails, Review
    <2>2. QED  BY <1>1, <1>4, <2>1, RequestReview DEF CallFails, github, db
  <1>5. ASSUME NEW r \in Repos, ReadFails(a, r) PROVE Review'
    <2>1. apply' = [apply EXCEPT ![a] = [apply[a] EXCEPT
             !.todo = apply[a].todo \ {r},
             !.outcome = [apply[a].outcome EXCEPT ![r] = "conflict"]]]
      BY <1>5 DEF ReadFails, Becomes
    <2>2. /\ apply'[a].pc = apply[a].pc /\ apply'[a].todo = apply[a].todo \ {r}
          /\ apply'[a].resolved = apply[a].resolved
          /\ \A b \in Appliers \ {a} : apply'[b] = apply[b]
      BY <1>1, <2>1 DEF TypeOK, Apply
    <2>3. apply[a].pc = "looping"
      BY <1>5 DEF ReadFails
    <2>4. QED  BY <1>1, <1>5, <2>2, <2>3, RequestReview DEF ReadFails, github, db
  <1>6. CASE CommitApply(a)
    <2>1. apply' = [apply EXCEPT ![a] = [apply[a] EXCEPT !.pc = "announcing"]]
      BY <1>6 DEF CommitApply, Commit, Becomes
    <2>2. /\ apply'[a].pc = "announcing" /\ apply'[a].todo = apply[a].todo
          /\ apply'[a].resolved = apply[a].resolved
          /\ \A b \in Appliers \ {a} : apply'[b] = apply[b]
      BY <1>1, <2>1 DEF TypeOK, Apply
    <2>3. QED
      BY <1>1, <1>6, <2>2, CommittedRows, RequestReview DEF CommitApply, Commit, github
  <1>7. CASE Announce(a) \/ CrashApply(a)
    <2>1. /\ apply'[a] = IdleApply
          /\ \A b \in Appliers \ {a} : apply'[b] = apply[b]
      BY <1>7 DEF Announce, CrashApply, Becomes, TypeOK
    <2>2. /\ apply'[a].pc = "idle" /\ apply'[a].todo = {}
          /\ apply'[a].resolved = NotResolved
      BY <2>1 DEF IdleApply
    <2>3. UNCHANGED <<branch, base, pr, dry, resolved, target>>
      BY <1>7 DEF Announce, CrashApply, github, db
    <2>4. QED  BY <2>1, <2>2, <2>3, RequestReview
  <1>8. QED  BY <1>2, <1>3, <1>4, <1>5, <1>6, <1>7

\* A repository is taken in hand only with the map that was reviewed.
LEMMA ReadRepoReview ==
  ASSUME TypeOK, Review, NEW a \in Appliers, NEW r \in Repos, ReadRepo(a, r)
  PROVE  Review'
  <1> DEFINE diff == DiffOf(head[r], apply[a].resolved)
             rest == apply[a].todo \ {r}
             left == {f \in Files : diff.new[f] # diff.old[f]}
             edit == [apply[a] EXCEPT !.pc = "branching", !.todo = rest,
                                      !.repo = r, !.diff = diff, !.left = left]
             skip == [apply[a] EXCEPT !.todo = rest]
  <1>1. /\ apply[a] \in Apply /\ apply[a].pc = "looping" /\ r \in apply[a].todo
        /\ apply[a].resolved \in {NotResolved, resolved}
        /\ \A q \in apply[a].todo : q \in Repos /\ target[q].preview # NoDiff
        /\ dry.pc # "running"
        /\ head[r] \in Tree /\ apply[a].resolved \in Resolved
    BY DEF ReadRepo, Edit, Review, NothingBeforeReview, AppliesReviewed, TypeOK, Apply
  <1>2. diff # NoDiff => diff \in Diff /\ diff.new = Pinned(diff.old, resolved)
    BY <1>1, DiffOfType
  <1>3. apply' = [apply EXCEPT ![a] = IF diff = NoDiff THEN skip ELSE edit]
    BY DEF ReadRepo, Edit, Becomes
  <1>4. UNCHANGED <<branch, base, pr, dry, resolved, target>>
    BY DEF ReadRepo, Edit, github, db
  <1> HIDE DEF diff, left
  <1>5. CASE diff = NoDiff
    <2>1. /\ apply'[a].pc = "looping" /\ apply'[a].todo = rest
          /\ apply'[a].resolved = apply[a].resolved
          /\ \A b \in Appliers \ {a} : apply'[b] = apply[b]
      BY <1>1, <1>3, <1>5 DEF TypeOK, Apply
    <2>2. QED  BY <1>1, <1>4, <2>1, RequestReview
  <1>6. CASE diff # NoDiff
    <2>1. /\ apply'[a].pc = "branching" /\ apply'[a].todo = rest
          /\ apply'[a].resolved = apply[a].resolved
          /\ apply'[a].repo = r /\ apply'[a].diff = diff
          /\ \A b \in Appliers \ {a} : apply'[b] = apply[b]
      BY <1>1, <1>3, <1>6 DEF TypeOK, Apply
    <2>2. QED  BY <1>1, <1>2, <1>4, <1>6, <2>1, RequestReview
  <1>7. QED  BY <1>5, <1>6

\* A new branch starts where the default branch is: it differs in nothing.
LEMMA CreateBranchReview ==
  ASSUME TypeOK, Review, NEW a \in Appliers, CreateBranch(a) PROVE Review'
  <1> DEFINE r == apply[a].repo
  <1>1. /\ apply[a].pc = "branching" /\ r \in Repos /\ dry.pc # "running"
        /\ apply[a] \in Apply /\ head[r] \in Tree /\ head[r] # None
    BY InHand, CampaignAssumption DEF CreateBranch, Review, NothingBeforeReview, TypeOK
  <1>2. UNCHANGED <<pr, dry, resolved, target>>
    BY DEF CreateBranch, db
  <1>3. \/ branch[r] = None /\ branch' = [branch EXCEPT ![r] = head[r]]
                            /\ base' = [base EXCEPT ![r] = head[r]]
        \/ branch[r] # None /\ UNCHANGED <<branch, base>>
    BY DEF CreateBranch
  <1>4. branch'[r] # None /\ \A q \in Repos : branch[q] # None => branch'[q] # None
    BY <1>1, <1>3 DEF TypeOK
  <1>5. /\ apply'[a].pc = "putting" /\ apply'[a].todo = apply[a].todo
        /\ apply'[a].resolved = apply[a].resolved
        /\ apply'[a].repo = r /\ apply'[a].diff = apply[a].diff
        /\ \A b \in Appliers \ {a} : apply'[b] = apply[b]
    <2>1. apply' = [apply EXCEPT ![a] = [apply[a] EXCEPT !.pc = "putting"]]
      BY DEF CreateBranch, Becomes
    <2>2. QED  BY <1>1, <2>1 DEF TypeOK, Apply
  <1>6. NothingBeforeReview' /\ ProposedReviewed'
    BY <1>1, <1>2, <1>4 DEF Review, NothingBeforeReview, ProposedReviewed
  <1>7. AppliesReviewed'
    <2> SUFFICES ASSUME NEW b \in Appliers PROVE AppliesReviewed!(b)'
      BY DEF AppliesReviewed
    <2>1. CASE b = a
      <3>1. /\ apply[a].resolved \in {NotResolved, resolved}
            /\ \A q \in apply[a].todo : target[q].preview # NoDiff
            /\ target[r].preview # NoDiff /\ apply[a].diff \in Diff
            /\ apply[a].diff.new = Pinned(apply[a].diff.old, resolved)
        BY <1>1 DEF Review, AppliesReviewed
      <3>2. QED  BY <1>1, <1>2, <1>4, <1>5, <2>1, <3>1 DEF Pinned
    <2>2. CASE b # a
      <3>1. apply'[b] = apply[b]
        BY <1>5, <2>2
      <3>2. QED  BY <1>2, <1>4, <3>1 DEF Review, AppliesReviewed, Pinned
    <2>3. QED  BY <2>1, <2>2
  <1>8. ReviewedShas'
    BY <1>1, <1>2, <1>3 DEF Review, ReviewedShas, TypeOK
  <1>9. QED  BY <1>6, <1>7, <1>8 DEF Review

\* A commit to the branch pins mutable refs with the reviewed map.
LEMMA PutFileReview ==
  ASSUME TypeOK, Review, NEW a \in Appliers, NEW f \in Files, PutFile(a, f)
  PROVE  Review'
  <1> DEFINE r == apply[a].repo
             new == apply[a].diff.new
             old == apply[a].diff.old
  <1>1. /\ apply[a].pc = "putting" /\ r \in Repos /\ dry.pc # "running"
        /\ apply[a].diff \in Diff /\ new = Pinned(old, resolved)
    BY InHand DEF PutFile, Review, NothingBeforeReview, AppliesReviewed, TypeOK
  <1>2. UNCHANGED <<base, pr, dry, resolved, target>>
    BY DEF PutFile, db
  <1>3. CASE Settle(a, "conflict") /\ UNCHANGED branch
    <2>1. /\ apply'[a].pc = "looping" /\ apply'[a].todo = apply[a].todo
          /\ apply'[a].resolved = apply[a].resolved
          /\ \A b \in Appliers \ {a} : apply'[b] = apply[b]
      BY <1>1, <1>3, Settled
    <2>2. /\ apply[a].resolved \in {NotResolved, resolved}
          /\ \A q \in apply[a].todo : q \in Repos /\ target[q].preview # NoDiff
      BY DEF Review, AppliesReviewed, TypeOK, Apply
    <2>3. QED  BY <1>1, <1>2, <1>3, <2>1, <2>2, RequestReview
  <1>4. CASE /\ branch[r] \in Tree /\ branch[r][f] = old[f]
             /\ branch' = [branch EXCEPT ![r] = [branch[r] EXCEPT ![f] = new[f]]]
             /\ [branch[r] EXCEPT ![f] = new[f]] \in Tree
             /\ \A b \in Appliers :
                  /\ apply'[b].pc = apply[b].pc /\ apply'[b].repo = apply[b].repo
                  /\ apply'[b].todo = apply[b].todo
                  /\ apply'[b].diff = apply[b].diff
                  /\ apply'[b].resolved = apply[b].resolved
    <2>1. \A q \in Repos : (branch'[q] # None) <=> (branch[q] # None)
      BY <1>1, <1>4, CampaignAssumption DEF TypeOK
    <2>2. NothingBeforeReview' /\ ProposedReviewed'
      BY <1>1, <1>2, <2>1 DEF Review, NothingBeforeReview, ProposedReviewed
    <2>3. AppliesReviewed'
      <3> SUFFICES ASSUME NEW b \in Appliers PROVE AppliesReviewed!(b)'
        BY DEF AppliesReviewed
      <3>1. AppliesReviewed!(b)
        BY DEF Review, AppliesReviewed
      <3>2. /\ apply'[b].pc = apply[b].pc /\ apply'[b].repo = apply[b].repo
            /\ apply'[b].todo = apply[b].todo /\ apply'[b].diff = apply[b].diff
            /\ apply'[b].resolved = apply[b].resolved
        BY <1>4
      <3>3. resolved' = resolved /\ target' = target
        BY <1>2
      <3>4. QED  BY <3>1, <3>2, <3>3
    <2>4. ReviewedShas'
      <3> SUFFICES ASSUME NEW q \in Repos, branch'[q] # None,
                          NEW g \in Files, NEW x \in Refs,
                          branch'[q][g][x] # base[q][g][x]
                   PROVE  base[q][g][x] = Mutable /\ branch'[q][g][x] = resolved[x]
        BY <1>2 DEF ReviewedShas
      <3>1. CASE q # r \/ g # f
        <4>1. branch'[q][g] = branch[q][g]
          BY <1>1, <1>4, <3>1 DEF TypeOK, Tree
        <4>2. QED  BY <2>1, <4>1 DEF Review, ReviewedShas
      <3>2. CASE q = r /\ g = f
        <4>1. branch'[r][f][x] = new[f][x]
          BY <1>1, <1>4, <3>2 DEF TypeOK, Tree
        <4>2. old \in Tree /\ resolved \in Resolved
          BY <1>1 DEF Diff, TypeOK
        <4>3. new[f][x] = IF old[f][x] = Mutable /\ resolved[x] # None
                          THEN resolved[x] ELSE old[f][x]
          BY <1>1, <4>2 DEF Pinned
        <4>4. branch[r][f][x] # base[r][f][x] =>
                base[r][f][x] = Mutable /\ branch[r][f][x] = resolved[x]
          BY <1>1, <2>1, <3>2 DEF Review, ReviewedShas
        <4>5. resolved[x] # Mutable
          BY <4>2, CampaignAssumption DEF Resolved
        <4>6. QED  BY <1>4, <3>2, <4>1, <4>3, <4>4, <4>5
      <3>3. QED  BY <3>1, <3>2
    <2>5. QED  BY <2>2, <2>3, <2>4 DEF Review
  <1>5. QED  BY <1>3, <1>4, Put DEF Review

\* A pull request is opened for a repository that was reviewed.
LEMMA OpenPRReview ==
  ASSUME TypeOK, Review, NEW a \in Appliers, OpenPR(a) PROVE Review'
  <1> DEFINE r == apply[a].repo
  <1>1. /\ apply[a].pc = "putting" /\ r \in Repos /\ dry.pc # "running"
        /\ target[r].preview # NoDiff
        /\ pr'[r] = "open" => branch[r] # None
    BY InHand, Opened DEF OpenPR, Review, NothingBeforeReview, AppliesReviewed,
                          ProposedReviewed, TypeOK
  <1>2. UNCHANGED <<branch, base, dry, resolved, target>>
    BY DEF OpenPR, db
  <1>3. /\ apply'[a].pc = "looping" /\ apply'[a].todo = apply[a].todo
        /\ apply'[a].resolved = apply[a].resolved
        /\ \A b \in Appliers \ {a} : apply'[b] = apply[b]
    BY Opened, Settled DEF Review
  <1>4. \A q \in Repos \ {r} : pr'[q] = pr[q]
    BY Opened DEF TypeOK, Review
  <1>5. NothingBeforeReview' /\ ReviewedShas'
    BY <1>1, <1>2 DEF Review, NothingBeforeReview, ReviewedShas
  <1>6. ProposedReviewed'
    BY <1>1, <1>2, <1>4 DEF Review, ProposedReviewed
  <1>7. AppliesReviewed'
    <2> SUFFICES ASSUME NEW b \in Appliers PROVE AppliesReviewed!(b)'
      BY DEF AppliesReviewed
    <2>1. AppliesReviewed!(b)
      BY DEF Review, AppliesReviewed
    <2>2. CASE b = a
      BY <1>2, <1>3, <2>1, <2>2
    <2>3. CASE b # a
      <3>1. apply'[b] = apply[b]
        BY <1>3, <2>3
      <3>2. QED  BY <1>2, <2>1, <3>1
    <2>4. QED  BY <2>2, <2>3
  <1>8. QED  BY <1>5, <1>6, <1>7 DEF Review

LEMMA NextReview == IInv /\ [Next]_vars => Review'
  <1> SUFFICES ASSUME TypeOK, Review, [Next]_vars PROVE Review'
    BY DEF IInv
  <1>1. CASE UNCHANGED vars
    BY <1>1 DEF vars, github, db, Review, NothingBeforeReview, AppliesReviewed,
                ProposedReviewed, ReviewedShas, Pinned
  <1>2. CASE Next
    BY <1>2, ExternalReview, PreviewReview, CommitPreviewReview, BookkeepingReview,
       ReadRepoReview, CreateBranchReview, PutFileReview, OpenPRReview DEF Next
  <1>3. QED  BY <1>1, <1>2

THEOREM Invariance == Spec => []IInv
  <1>1. Init => IInv
    BY InitType, InitReview DEF IInv
  <1>2. IInv /\ [Next]_vars => IInv'
    BY NextType, NextReview DEF IInv
  <1>3. QED  BY <1>1, <1>2, PTL DEF Spec

\* Every reachable state of a campaign is well typed.
THEOREM CampaignTypeCorrect == Spec => []TypeOK
  <1>1. IInv => TypeOK
    BY DEF IInv
  <1>2. QED  BY <1>1, Invariance, PTL

\* A campaign's branches change mutable refs only, and to the SHAs that its
\* dry run recorded.
THEOREM ReviewedShasThm == Spec => []ReviewedShas
  <1>1. IInv => ReviewedShas
    BY DEF IInv, Review
  <1>2. QED  BY <1>1, Invariance, PTL
-----------------------------------------------------------------------------
(* Every pull request is on record *)

\* Counters only grow.
LEMMA UsedGrows ==
  ASSUME TypeOK, [Next]_vars
  PROVE  \A k \in Kinds : used'[k] = 0 => used[k] = 0
<1> SUFFICES ASSUME used' = used \/ \E j \in Kinds : Happens(j)
             PROVE  \A k \in Kinds : used'[k] = 0 => used[k] = 0
  <2>1. ASSUME \/ \E x \in Refs, s \in Shas : Retag(x, s)
               \/ \E r \in Repos, f \in Files, c \in Content : Push(r, f, c)
               \/ \E r \in Repos : Merge(r) \/ Close(r) \/ DeleteBranch(r) \/ FailPreview(r)
               \/ CommitPreview \/ CrashPreview
        PROVE  used' = used \/ \E j \in Kinds : Happens(j)
    BY <2>1 DEF Retag, Push, Merge, Close, DeleteBranch, FailPreview, CommitPreview, CrashPreview, Kinds
  <2>2. ASSUME NEW r \in Repos, PreviewRepo(r)
        PROVE  used' = used \/ \E j \in Kinds : Happens(j)
    BY <2>2 DEF PreviewRepo, Kinds
  <2>3. ASSUME NEW a \in Appliers,
               \/ LoadCampaign(a) \/ LoadTargets(a) \/ CreateBranch(a) \/ CallFails(a)
               \/ \E r \in Repos : ReadRepo(a, r) \/ ReadFails(a, r)
        PROVE  used' = used \/ \E j \in Kinds : Happens(j)
    BY <2>3 DEF LoadCampaign, LoadTargets, CreateBranch, CallFails, ReadRepo, Edit, ReadFails, Kinds
  <2>4. ASSUME NEW a \in Appliers,
               \/ OpenPR(a) \/ CommitApply(a) \/ Announce(a) \/ CrashApply(a)
               \/ \E f \in Files : PutFile(a, f)
        PROVE  used' = used \/ \E j \in Kinds : Happens(j)
    BY <2>4 DEF OpenPR, Propose, PutFile, CommitApply, Commit, Announce, CrashApply, Kinds
  <2>5. CASE UNCHANGED vars
    BY <2>5 DEF vars
  <2> QED BY <2>1, <2>2, <2>3, <2>4, <2>5 DEF Next
<1>1. ASSUME NEW j \in Kinds, Happens(j), NEW k \in Kinds, used'[k] = 0 PROVE used[k] = 0
  <2>1. used' = [used EXCEPT ![j] = @ + 1] /\ used[j] \in Nat /\ used[k] \in Nat
    BY <1>1 DEF Happens, TypeOK
  <2>2. used'[k] = IF k = j THEN used[j] + 1 ELSE used[k]
    BY <2>1 DEF TypeOK
  <2> QED BY <1>1, <2>1, <2>2
<1> QED BY <1>1

\* What has happened has been counted.
LEMMA Counted ==
  ASSUME TypeOK, NEW k \in Kinds, Happens(k) PROVE used'[k] # 0
<1>1. used' = [used EXCEPT ![k] = @ + 1] /\ used[k] \in Nat
  BY DEF Happens, TypeOK
<1>2. used'[k] = used[k] + 1
  BY <1>1 DEF TypeOK
<1> QED BY <1>1, <1>2

Unhurt == used["crash"] = 0 /\ used["failure"] = 0

LEMMA StaysUnhurt ==
  ASSUME TypeOK, [Next]_vars, Unhurt' PROVE Unhurt
BY UsedGrows DEF Unhurt, Kinds

AtWork == {"looping", "branching", "putting"}

\* A request has no outcome yet for a repository that it has not been through.
Turn(a) ==
  /\ apply[a].pc = "loaded" => \A r \in Repos : apply[a].outcome[r] = "same"
  /\ \A r \in apply[a].todo : apply[a].outcome[r] = "same"
  /\ apply[a].pc \in {"branching", "putting"} =>
       apply[a].repo \notin apply[a].todo /\ apply[a].outcome[apply[a].repo] = "same"

\* Request a has opened r's pull request and is still to write that down.
Knows(a, r) == apply[a].pc \in AtWork /\ apply[a].outcome[r] = "pr-opened"

\* The request that opened a pull request has written it down, or is going to.
Noted(r) ==
  \/ target[r].pr
  \/ \E a \in Appliers : Knows(a, r)

OnRecord ==
  /\ \A a \in Appliers : Turn(a)
  /\ Unhurt => \A r \in Repos : pr[r] # "none" => Noted(r)

\* What request a knows of open pull requests after a step: no other is new,
\* and it forgets none before it has written it down.
Remembers(a) ==
  \A r \in Repos : /\ pr'[r] # "none" => pr[r] # "none" \/ Knows(a, r)'
                   /\ Knows(a, r) => target'[r].pr \/ Knows(a, r)'

\* One request takes a step: what it knew to be open, it still does or writes.
LEMMA RequestRecord ==
  ASSUME TypeOK, OnRecord, [Next]_vars, NEW a \in Appliers, Turn(a)',
         \A b \in Appliers \ {a} : apply'[b] = apply[b],
         \A r \in Repos : target[r].pr => target'[r].pr,
         Unhurt' => Remembers(a)
  PROVE  OnRecord'
<1>1. \A b \in Appliers : Turn(b)'
  <2> SUFFICES ASSUME NEW b \in Appliers, b # a PROVE Turn(b)'
    OBVIOUS
  <2> QED BY DEF OnRecord, Turn
<1>2. ASSUME Unhurt', NEW r \in Repos, pr'[r] # "none" PROVE Noted(r)'
  <2>1. CASE Knows(a, r)'
    BY <2>1 DEF Noted
  <2>2. CASE pr[r] # "none"
    <3>1. Noted(r) /\ Remembers(a)
      BY <1>2, <2>2, StaysUnhurt DEF OnRecord
    <3>2. \A b \in Appliers \ {a} : Knows(b, r)' = Knows(b, r)
      BY DEF Knows
    <3> QED BY <2>1, <3>1, <3>2 DEF Noted, Remembers
  <2> QED BY <1>2, <2>1, <2>2 DEF Remembers
<1> QED BY <1>1, <1>2 DEF OnRecord

\* No other pull request is new than the one the outcome is about.
Grows(a, o) ==
  \A r \in Repos :
    pr'[r] # "none" => pr[r] # "none" \/ (r = apply[a].repo /\ o = "pr-opened")

\* A repository's turn ends with an outcome.
LEMMA SettleRecord ==
  ASSUME TypeOK, Review, OnRecord, [Next]_vars, NEW a \in Appliers,
         apply[a].pc \in {"branching", "putting"},
         NEW o \in {"pr-opened", "conflict"}, Settle(a, o), UNCHANGED target,
         Unhurt' => Grows(a, o)
  PROVE  OnRecord'
<1>1. apply[a].repo \in Repos /\ apply[a] \in Apply
  BY InHand DEF Review
<1>2. /\ apply'[a].pc = "looping" /\ apply'[a].todo = apply[a].todo
      /\ apply'[a].outcome = [apply[a].outcome EXCEPT ![apply[a].repo] = o]
      /\ \A b \in Appliers \ {a} : apply'[b] = apply[b]
  BY <1>1, Settled
<1>3. \A r \in Repos : apply'[a].outcome[r] = IF r = apply[a].repo THEN o ELSE apply[a].outcome[r]
  BY <1>1, <1>2 DEF Apply
<1>4. Turn(a) /\ apply[a].todo \subseteq Repos
  BY <1>1 DEF OnRecord, Apply
<1>5. Turn(a)'
  BY <1>2, <1>3, <1>4 DEF Turn
<1>6. Unhurt' => Remembers(a)
  BY <1>2, <1>3, <1>4 DEF Remembers, Knows, Turn, AtWork, Grows
<1> QED BY <1>2, <1>5, <1>6, RequestRecord

LEMMA NextRecord ==
  ASSUME TypeOK, Review, OnRecord, [Next]_vars PROVE OnRecord'
<1>1. CASE /\ apply' = apply /\ \A r \in Repos : target'[r].pr = target[r].pr
           /\ \A r \in Repos : pr'[r] # "none" => pr[r] # "none"
  <2>1. \A a \in Appliers : Turn(a)'
    BY <1>1 DEF OnRecord, Turn
  <2>2. ASSUME Unhurt', NEW r \in Repos, pr'[r] # "none" PROVE Noted(r)'
    <3>1. Noted(r)
      BY <1>1, <2>2, StaysUnhurt DEF OnRecord
    <3> QED BY <1>1, <3>1 DEF Noted, Knows
  <2> QED BY <2>1, <2>2 DEF OnRecord
<1>2. ASSUME \/ \E x \in Refs, s \in Shas : Retag(x, s)
             \/ \E r \in Repos, f \in Files, c \in Content : Push(r, f, c)
             \/ \E r \in Repos : PreviewRepo(r) \/ FailPreview(r)
             \/ CrashPreview
      PROVE  OnRecord'
  <2>1. UNCHANGED <<apply, target, pr>>
    BY <1>2 DEF Retag, Push, PreviewRepo, FailPreview, CrashPreview, github, db
  <2> QED BY <1>1, <2>1
<1>3. ASSUME NEW r \in Repos, Merge(r) \/ Close(r) \/ DeleteBranch(r) PROVE OnRecord'
  <2>1. UNCHANGED <<apply, target>> /\ \A q \in Repos : pr'[q] # "none" => pr[q] # "none"
    BY <1>3 DEF Merge, Close, DeleteBranch, db, TypeOK
  <2> QED BY <1>1, <2>1
<1>4. ASSUME CommitPreview PROVE OnRecord'
  <2>1. UNCHANGED <<apply, pr>> /\ \A r \in Repos : target'[r].pr = target[r].pr
    BY <1>4 DEF CommitPreview, github
  <2> QED BY <1>1, <2>1
<1>5. CASE UNCHANGED vars
  <2>1. UNCHANGED <<apply, target, pr>>
    BY <1>5 DEF vars, github, db
  <2> QED BY <1>1, <2>1
<1>6. ASSUME NEW a \in Appliers, LoadCampaign(a) PROVE OnRecord'
  <2>1. /\ apply'[a] = [IdleApply EXCEPT !.pc = "loaded", !.resolved = resolved]
        /\ \A b \in Appliers \ {a} : apply'[b] = apply[b]
        /\ apply[a].pc = "idle"
    BY <1>6 DEF LoadCampaign, Becomes, TypeOK, github, db
  <2>2. apply'[a].pc = "loaded" /\ apply'[a].todo = {} /\ \A r \in Repos : apply'[a].outcome[r] = "same"
    BY <2>1 DEF IdleApply
  <2>3. UNCHANGED <<target, pr>>
    BY <1>6 DEF LoadCampaign, github, db
  <2>4. Turn(a)'
    BY <2>2 DEF Turn
  <2>5. Unhurt' => Remembers(a)
    BY <2>1, <2>2, <2>3, <2>4 DEF Remembers, Knows, AtWork
  <2> QED BY <2>1, <2>2, <2>3, <2>4, <2>5, RequestRecord
<1>7. ASSUME NEW a \in Appliers, LoadTargets(a) PROVE OnRecord'
  <2> DEFINE todo == {r \in Repos : /\ target[r].status = "dry-run-ok"
                                    /\ target[r].preview # NoDiff}
  <2>1. apply' = [apply EXCEPT ![a] = [apply[a] EXCEPT !.pc = "looping", !.todo = todo]]
    BY <1>7 DEF LoadTargets, Becomes
  <2>2. todo \subseteq Repos
    OBVIOUS
  <2> HIDE DEF todo
  <2>3. /\ apply'[a].pc = "looping" /\ apply'[a].todo = todo
        /\ apply'[a].outcome = apply[a].outcome
        /\ \A b \in Appliers \ {a} : apply'[b] = apply[b]
    BY <2>1 DEF TypeOK, Apply
  <2>4. UNCHANGED <<target, pr>> /\ apply[a].pc = "loaded"
    BY <1>7 DEF LoadTargets, github, db
  <2>5. Turn(a)'
    BY <2>2, <2>3, <2>4 DEF OnRecord, Turn
  <2>6. Unhurt' => Remembers(a)
    BY <2>3, <2>4, <2>5 DEF Remembers, Knows, AtWork
  <2> QED BY <2>3, <2>4, <2>5, <2>6, RequestRecord
<1>8. ASSUME NEW a \in Appliers, NEW r \in Repos, ReadRepo(a, r) PROVE OnRecord'
  <2> DEFINE diff == DiffOf(head[r], apply[a].resolved)
             left == {f \in Files : diff.new[f] # diff.old[f]}
             rest == apply[a].todo \ {r}
             skip == [apply[a] EXCEPT !.todo = rest]
             edit == [apply[a] EXCEPT !.pc = "branching", !.todo = rest,
                                      !.repo = r, !.diff = diff, !.left = left]
  <2>1. apply' = [apply EXCEPT ![a] = IF diff = NoDiff THEN skip ELSE edit]
    BY <1>8 DEF ReadRepo, Edit, Becomes
  <2>2. apply[a].pc = "looping" /\ r \in apply[a].todo /\ UNCHANGED <<target, pr>>
    BY <1>8 DEF ReadRepo, Edit, github, db
  <2> HIDE DEF diff, left
  <2>3. /\ apply'[a].todo = rest /\ apply'[a].outcome = apply[a].outcome
        /\ \/ apply'[a].pc = "looping"
           \/ apply'[a].pc = "branching" /\ apply'[a].repo = r
        /\ \A b \in Appliers \ {a} : apply'[b] = apply[b]
    BY <2>1, <2>2 DEF TypeOK, Apply
  <2>4. Turn(a)'
    BY <2>2, <2>3 DEF OnRecord, Turn
  <2>5. Unhurt' => Remembers(a)
    BY <2>2, <2>3, <2>4 DEF Remembers, Knows, AtWork
  <2> QED BY <2>2, <2>3, <2>4, <2>5, RequestRecord
<1>9. ASSUME NEW a \in Appliers, NEW r \in Repos, ReadFails(a, r) PROVE OnRecord'
  <2>1. apply' = [apply EXCEPT ![a] = [apply[a] EXCEPT
           !.todo = apply[a].todo \ {r},
           !.outcome = [apply[a].outcome EXCEPT ![r] = "conflict"]]]
    BY <1>9 DEF ReadFails, Becomes
  <2>2. /\ apply'[a].pc = apply[a].pc /\ apply'[a].todo = apply[a].todo \ {r}
        /\ apply'[a].outcome = [apply[a].outcome EXCEPT ![r] = "conflict"]
        /\ \A b \in Appliers \ {a} : apply'[b] = apply[b]
    BY <2>1 DEF TypeOK, Apply
  <2>3. apply[a].pc = "looping" /\ UNCHANGED <<target, pr>> /\ Happens("failure")
    BY <1>9 DEF ReadFails, github, db
  <2>4. ~Unhurt'
    BY <2>3, Counted DEF Unhurt, Kinds
  <2>5. \A q \in apply'[a].todo : apply'[a].outcome[q] = "same"
    BY <2>2 DEF OnRecord, Turn, TypeOK, Apply
  <2>6. Turn(a)'
    BY <2>2, <2>3, <2>5 DEF Turn
  <2>7. Unhurt' => Remembers(a)
    BY <2>2, <2>3, <2>4, <2>6 DEF Remembers, Knows, AtWork
  <2> QED BY <2>2, <2>3, <2>4, <2>6, <2>7, RequestRecord
<1>10. ASSUME NEW a \in Appliers, CreateBranch(a) PROVE OnRecord'
  <2>1. apply' = [apply EXCEPT ![a] = [apply[a] EXCEPT !.pc = "putting"]]
    BY <1>10 DEF CreateBranch, Becomes
  <2>2. /\ apply'[a].pc = "putting" /\ apply'[a].todo = apply[a].todo
        /\ apply'[a].repo = apply[a].repo /\ apply'[a].outcome = apply[a].outcome
        /\ \A b \in Appliers \ {a} : apply'[b] = apply[b]
    BY <2>1 DEF TypeOK, Apply
  <2>3. apply[a].pc = "branching" /\ UNCHANGED <<target, pr>>
    BY <1>10 DEF CreateBranch, db
  <2>4. Turn(a)'
    BY <2>2, <2>3 DEF OnRecord, Turn
  <2>5. Unhurt' => Remembers(a)
    BY <2>2, <2>3, <2>4 DEF Remembers, Knows, AtWork
  <2> QED BY <2>2, <2>3, <2>4, <2>5, RequestRecord
<1>11. ASSUME NEW a \in Appliers, NEW f \in Files, PutFile(a, f) PROVE OnRecord'
  <2>1. apply[a].pc = "putting" /\ UNCHANGED <<target, pr>>
    BY <1>11 DEF PutFile, db
  <2>2. CASE Settle(a, "conflict")
    <3>1. Grows(a, "conflict")
      BY <2>1 DEF Grows
    <3> QED BY <2>1, <2>2, <3>1, SettleRecord
  <2>3. CASE Becomes(a, [apply[a] EXCEPT !.left = apply[a].left \ {f}])
    <3>1. apply' = [apply EXCEPT ![a] = [apply[a] EXCEPT !.left = apply[a].left \ {f}]]
      BY <2>3 DEF Becomes
    <3>2. /\ apply'[a].pc = "putting" /\ apply'[a].todo = apply[a].todo
          /\ apply'[a].repo = apply[a].repo /\ apply'[a].outcome = apply[a].outcome
          /\ \A b \in Appliers \ {a} : apply'[b] = apply[b]
      BY <2>1, <3>1 DEF TypeOK, Apply
    <3>3. Turn(a)'
      BY <2>1, <3>2 DEF OnRecord, Turn
    <3>4. Unhurt' => Remembers(a)
      BY <2>1, <3>2, <3>3 DEF Remembers, Knows, AtWork
    <3> QED BY <2>1, <3>2, <3>3, <3>4, RequestRecord
  <2> QED BY <1>11, <2>2, <2>3 DEF PutFile
<1>12. ASSUME NEW a \in Appliers, OpenPR(a) PROVE OnRecord'
  <2>1. apply[a].pc = "putting" /\ UNCHANGED target /\ apply[a].repo \in Repos
    BY <1>12, Opened DEF OpenPR, db, Review
  <2>2. CASE Settle(a, "pr-opened") /\ pr' = [pr EXCEPT ![apply[a].repo] = "open"]
    <3>1. Grows(a, "pr-opened")
      BY <2>2 DEF TypeOK, Grows
    <3> QED BY <2>1, <2>2, <3>1, SettleRecord
  <2>3. CASE Settle(a, "conflict") /\ UNCHANGED pr
    <3>1. Grows(a, "conflict")
      BY <2>3 DEF Grows
    <3> QED BY <2>1, <2>3, <3>1, SettleRecord
  <2>4. CASE Settle(a, "conflict") /\ Happens("failure")
    <3>1. ~Unhurt'
      BY <2>4, Counted DEF Unhurt, Kinds
    <3> QED BY <2>1, <2>4, <3>1, SettleRecord
  <2> QED BY <1>12, <2>2, <2>3, <2>4 DEF OpenPR, Propose
<1>13. ASSUME NEW a \in Appliers, CallFails(a) PROVE OnRecord'
  <2>1. ~Unhurt'
    BY <1>13, Counted DEF CallFails, Unhurt, Kinds
  <2> QED BY <1>13, <2>1, SettleRecord DEF CallFails, github, db
<1>14. ASSUME NEW a \in Appliers, CommitApply(a) PROVE OnRecord'
  <2>1. apply' = [apply EXCEPT ![a] = [apply[a] EXCEPT !.pc = "announcing"]]
    BY <1>14 DEF CommitApply, Commit, Becomes
  <2>2. /\ apply'[a].pc = "announcing" /\ apply'[a].todo = {}
        /\ \A b \in Appliers \ {a} : apply'[b] = apply[b]
    BY <1>14, <2>1 DEF CommitApply, Commit, TypeOK, Apply
  <2>3. UNCHANGED pr
    BY <1>14 DEF CommitApply, Commit, github
  <2>4. \A r \in Repos : target'[r].pr = (target[r].pr \/ apply[a].outcome[r] = "pr-opened")
    BY <1>14 DEF CommitApply, Commit, Committed
  <2>5. Turn(a)'
    BY <2>2 DEF Turn
  <2>6. Unhurt' => Remembers(a)
    BY <2>2, <2>3, <2>4, <2>5 DEF Remembers, Knows, AtWork
  <2> QED BY <2>2, <2>3, <2>4, <2>5, <2>6, RequestRecord
<1>15. ASSUME NEW a \in Appliers, Announce(a) \/ CrashApply(a) PROVE OnRecord'
  <2>1. /\ apply'[a] = IdleApply /\ UNCHANGED <<target, pr>>
        /\ \A b \in Appliers \ {a} : apply'[b] = apply[b]
    BY <1>15 DEF Announce, CrashApply, Becomes, TypeOK, github, db
  <2>2. apply'[a].pc = "idle" /\ apply'[a].todo = {}
    BY <2>1 DEF IdleApply
  <2>3. Unhurt' => apply[a].pc = "announcing"
    BY <1>15, Counted DEF Announce, CrashApply, Unhurt, Kinds
  <2>4. Turn(a)'
    BY <2>2 DEF Turn
  <2>5. Unhurt' => Remembers(a)
    BY <2>1, <2>2, <2>3, <2>4 DEF Remembers, Knows, AtWork
  <2> QED BY <2>1, <2>2, <2>3, <2>4, <2>5, RequestRecord
<1> QED
  BY <1>2, <1>3, <1>4, <1>5, <1>6, <1>7, <1>8, <1>9, <1>10, <1>11, <1>12, <1>13, <1>14, <1>15
     DEF Next

\* When the applies are over, every pull request on GitHub is on record, unless
\* a crash or a lost answer kept it from being recorded: for any number of
\* concurrent applies, tags that move, pushes, merges, closings and deletions.
THEOREM PRsRecordedThm == Spec => []PRsRecorded
<1>1. Init => OnRecord
  BY DEF Init, OnRecord, Turn, IdleApply
<1>2. IInv /\ OnRecord /\ [Next]_vars => OnRecord'
  BY NextRecord DEF IInv
<1>3. OnRecord => PRsRecorded
  BY DEF OnRecord, PRsRecorded, Unhurt, Quiet, Noted, Knows, AtWork
<1> QED BY <1>1, <1>2, <1>3, Invariance, PTL DEF Spec
-----------------------------------------------------------------------------
(* The campaign implements its flow *)

\* A request has targets only in its loop, and one in hand only in its turn.
Held(a) ==
  /\ apply[a].pc \in {"idle", "loaded", "announcing"} => apply[a].todo = {}
  /\ apply[a].pc \notin {"branching", "putting"} => apply[a].repo = None

\* What is on record was proposed, and is not taken up again.
OnceRecorded ==
  /\ \A r \in Repos : target[r].pr => pr[r] # "none" /\ target[r].status # "dry-run-ok"
  /\ \A a \in Appliers, r \in Repos :
       apply[a].outcome[r] = "pr-opened" => pr[r] # "none"

Kept == OnceRecorded /\ \A a \in Appliers : Held(a)

\* No pull request is ever unmade.
LEMMA PRStays ==
  ASSUME TypeOK, Review, [Next]_vars PROVE \A r \in Repos : pr[r] # "none" => pr'[r] # "none"
<1>1. ASSUME NEW a \in Appliers, OpenPR(a)
      PROVE  \A r \in Repos : pr[r] # "none" => pr'[r] # "none"
  BY <1>1, Opened DEF TypeOK, Review
<1>2. ASSUME NEW r \in Repos, Merge(r) \/ Close(r) \/ DeleteBranch(r)
      PROVE  \A q \in Repos : pr[q] # "none" => pr'[q] # "none"
  BY <1>2 DEF Merge, Close, DeleteBranch, TypeOK
<1>3. ASSUME \/ \E x \in Refs, s \in Shas : Retag(x, s)
             \/ \E r \in Repos, f \in Files, c \in Content : Push(r, f, c)
             \/ \E r \in Repos : PreviewRepo(r) \/ FailPreview(r)
             \/ CommitPreview \/ CrashPreview \/ UNCHANGED vars
      PROVE  pr' = pr
  BY <1>3 DEF Retag, Push, PreviewRepo, FailPreview, CommitPreview, CrashPreview, vars, github
<1>4. ASSUME NEW a \in Appliers,
             \/ LoadCampaign(a) \/ LoadTargets(a) \/ CreateBranch(a) \/ CallFails(a)
             \/ \E r \in Repos : ReadRepo(a, r) \/ ReadFails(a, r)
             \/ \E f \in Files : PutFile(a, f)
             \/ CommitApply(a) \/ Announce(a) \/ CrashApply(a)
      PROVE  pr' = pr
  BY <1>4 DEF LoadCampaign, LoadTargets, CreateBranch, CallFails, ReadRepo, Edit, ReadFails,
              PutFile, CommitApply, Commit, Announce, CrashApply, github
<1> QED BY <1>1, <1>2, <1>3, <1>4 DEF Next

\* One request takes a step: it records nothing that was not proposed.
LEMMA RequestKept ==
  ASSUME TypeOK, Review, Kept, [Next]_vars, NEW a \in Appliers, Held(a)',
         \A b \in Appliers \ {a} : apply'[b] = apply[b],
         UNCHANGED target,
         \A r \in Repos : \/ apply'[a].outcome[r] = apply[a].outcome[r]
                          \/ apply'[a].outcome[r] # "pr-opened"
                          \/ pr'[r] # "none"
  PROVE  Kept'
<1>1. \A b \in Appliers : Held(b)'
  <2> SUFFICES ASSUME NEW b \in Appliers, b # a PROVE Held(b)'
    OBVIOUS
  <2> QED BY DEF Kept, Held
<1>2. OnceRecorded'
  BY PRStays DEF Kept, OnceRecorded
<1> QED BY <1>1, <1>2 DEF Kept

\* A repository's turn ends with an outcome.
LEMMA SettleKept ==
  ASSUME TypeOK, Review, Kept, [Next]_vars, NEW a \in Appliers,
         apply[a].pc \in {"branching", "putting"},
         NEW o \in {"pr-opened", "conflict"}, Settle(a, o), UNCHANGED target,
         o = "pr-opened" => pr'[apply[a].repo] # "none"
  PROVE  Kept'
<1>1. apply[a].repo \in Repos /\ apply[a] \in Apply
  BY InHand DEF Review
<1>2. /\ apply'[a].pc = "looping"
      /\ apply'[a].outcome = [apply[a].outcome EXCEPT ![apply[a].repo] = o]
      /\ \A b \in Appliers \ {a} : apply'[b] = apply[b]
  BY <1>1, Settled
<1>3. apply'[a].repo = None
  BY <1>1 DEF Settle, Becomes, TypeOK, Apply
<1>4. \A r \in Repos : apply'[a].outcome[r] = IF r = apply[a].repo THEN o ELSE apply[a].outcome[r]
  BY <1>1, <1>2 DEF Apply
<1>5. Held(a)'
  BY <1>2, <1>3 DEF Held
<1> QED BY <1>2, <1>4, <1>5, RequestKept

LEMMA NextKept ==
  ASSUME TypeOK, Review, Kept, [Next]_vars PROVE Kept'
<1>1. CASE UNCHANGED <<apply, target>>
  BY <1>1, PRStays DEF Kept, OnceRecorded, Held
<1>2. ASSUME \/ \E x \in Refs, s \in Shas : Retag(x, s)
             \/ \E r \in Repos, f \in Files, c \in Content : Push(r, f, c)
             \/ \E r \in Repos : \/ Merge(r) \/ Close(r) \/ DeleteBranch(r)
                                 \/ PreviewRepo(r) \/ FailPreview(r)
             \/ CrashPreview \/ UNCHANGED vars
      PROVE  Kept'
  <2>1. UNCHANGED <<apply, target>>
    BY <1>2 DEF Retag, Push, Merge, Close, DeleteBranch, PreviewRepo, FailPreview,
                CrashPreview, vars, github, db
  <2> QED BY <1>1, <2>1
<1>3. CASE CommitPreview
  <2>1. UNCHANGED <<apply, pr>> /\ \A r \in Repos : target'[r].pr = target[r].pr
    BY <1>3 DEF CommitPreview, github
  <2>2. \A r \in Repos : pr[r] = "none"
    BY <1>3 DEF CommitPreview, Review, NothingBeforeReview
  <2> QED BY <2>1, <2>2 DEF Kept, OnceRecorded, Held
<1>4. ASSUME NEW a \in Appliers, LoadCampaign(a) PROVE Kept'
  <2>1. /\ apply'[a] = [IdleApply EXCEPT !.pc = "loaded", !.resolved = resolved]
        /\ \A b \in Appliers \ {a} : apply'[b] = apply[b]
    BY <1>4 DEF LoadCampaign, Becomes, TypeOK
  <2>2. /\ apply'[a].todo = {} /\ apply'[a].repo = None
        /\ \A r \in Repos : apply'[a].outcome[r] = "same"
    BY <2>1 DEF IdleApply
  <2>3. Held(a)' /\ UNCHANGED target
    BY <1>4, <2>2 DEF Held, LoadCampaign, db
  <2> QED BY <2>1, <2>2, <2>3, RequestKept
<1>5. ASSUME NEW a \in Appliers, LoadTargets(a) PROVE Kept'
  <2> DEFINE todo == {r \in Repos : /\ target[r].status = "dry-run-ok"
                                    /\ target[r].preview # NoDiff}
  <2>1. apply' = [apply EXCEPT ![a] = [apply[a] EXCEPT !.pc = "looping", !.todo = todo]]
    BY <1>5 DEF LoadTargets, Becomes
  <2> HIDE DEF todo
  <2>2. /\ apply'[a].pc = "looping" /\ apply'[a].repo = apply[a].repo
        /\ apply'[a].outcome = apply[a].outcome
        /\ \A b \in Appliers \ {a} : apply'[b] = apply[b]
    BY <2>1 DEF TypeOK, Apply
  <2>3. UNCHANGED target /\ apply[a].pc = "loaded"
    BY <1>5 DEF LoadTargets, db
  <2>4. Held(a)'
    BY <2>2, <2>3 DEF Kept, Held
  <2> QED BY <2>2, <2>3, <2>4, RequestKept
<1>6. ASSUME NEW a \in Appliers, NEW r \in Repos, ReadRepo(a, r) PROVE Kept'
  <2> DEFINE diff == DiffOf(head[r], apply[a].resolved)
             left == {f \in Files : diff.new[f] # diff.old[f]}
             rest == apply[a].todo \ {r}
             skip == [apply[a] EXCEPT !.todo = rest]
             edit == [apply[a] EXCEPT !.pc = "branching", !.todo = rest,
                                      !.repo = r, !.diff = diff, !.left = left]
  <2>1. apply' = [apply EXCEPT ![a] = IF diff = NoDiff THEN skip ELSE edit]
    BY <1>6 DEF ReadRepo, Edit, Becomes
  <2>2. apply[a].pc = "looping" /\ UNCHANGED target
    BY <1>6 DEF ReadRepo, Edit, db
  <2> HIDE DEF diff, left
  <2>3. /\ apply'[a].outcome = apply[a].outcome
        /\ \/ apply'[a].pc = "looping" /\ apply'[a].repo = apply[a].repo
           \/ apply'[a].pc = "branching"
        /\ \A b \in Appliers \ {a} : apply'[b] = apply[b]
    BY <2>1, <2>2 DEF TypeOK, Apply
  <2>4. Held(a)'
    BY <2>2, <2>3 DEF Kept, Held
  <2> QED BY <2>2, <2>3, <2>4, RequestKept
<1>7. ASSUME NEW a \in Appliers, NEW r \in Repos, ReadFails(a, r) PROVE Kept'
  <2>1. apply' = [apply EXCEPT ![a] = [apply[a] EXCEPT
           !.todo = apply[a].todo \ {r},
           !.outcome = [apply[a].outcome EXCEPT ![r] = "conflict"]]]
    BY <1>7 DEF ReadFails, Becomes
  <2>2. /\ apply'[a].pc = apply[a].pc /\ apply'[a].repo = apply[a].repo
        /\ apply'[a].outcome = [apply[a].outcome EXCEPT ![r] = "conflict"]
        /\ \A b \in Appliers \ {a} : apply'[b] = apply[b]
    BY <2>1 DEF TypeOK, Apply
  <2>3. apply[a].pc = "looping" /\ UNCHANGED target
    BY <1>7 DEF ReadFails, db
  <2>4. \A q \in Repos : \/ apply'[a].outcome[q] = apply[a].outcome[q]
                         \/ apply'[a].outcome[q] = "conflict"
    BY <2>2 DEF TypeOK, Apply
  <2>5. Held(a)'
    BY <2>2, <2>3 DEF Kept, Held
  <2> QED BY <2>2, <2>3, <2>4, <2>5, RequestKept
<1>8. ASSUME NEW a \in Appliers, CreateBranch(a) PROVE Kept'
  <2>1. apply' = [apply EXCEPT ![a] = [apply[a] EXCEPT !.pc = "putting"]] /\ UNCHANGED target
    BY <1>8 DEF CreateBranch, Becomes, db
  <2>2. /\ apply'[a].pc = "putting" /\ apply'[a].outcome = apply[a].outcome
        /\ \A b \in Appliers \ {a} : apply'[b] = apply[b]
    BY <2>1 DEF TypeOK, Apply
  <2>3. Held(a)'
    BY <2>2 DEF Held
  <2> QED BY <2>1, <2>2, <2>3, RequestKept
<1>9. ASSUME NEW a \in Appliers, NEW f \in Files, PutFile(a, f) PROVE Kept'
  <2>1. apply[a].pc = "putting" /\ UNCHANGED target
    BY <1>9 DEF PutFile, db
  <2>2. CASE Settle(a, "conflict")
    BY <2>1, <2>2, SettleKept
  <2>3. CASE Becomes(a, [apply[a] EXCEPT !.left = apply[a].left \ {f}])
    <3>1. /\ apply'[a].pc = "putting" /\ apply'[a].outcome = apply[a].outcome
          /\ \A b \in Appliers \ {a} : apply'[b] = apply[b]
      BY <2>1, <2>3 DEF Becomes, TypeOK, Apply
    <3>2. Held(a)'
      BY <3>1 DEF Held
    <3> QED BY <2>1, <3>1, <3>2, RequestKept
  <2> QED BY <1>9, <2>2, <2>3 DEF PutFile
<1>10. ASSUME NEW a \in Appliers, OpenPR(a) PROVE Kept'
  <2>1. apply[a].pc = "putting" /\ UNCHANGED target /\ apply[a].repo \in Repos
    BY <1>10, Opened DEF OpenPR, db, Review
  <2>2. CASE Settle(a, "pr-opened") /\ pr' = [pr EXCEPT ![apply[a].repo] = "open"]
    <3>1. pr'[apply[a].repo] = "open"
      BY <2>1, <2>2 DEF TypeOK
    <3> QED BY <2>1, <2>2, <3>1, SettleKept
  <2>3. CASE Settle(a, "conflict")
    BY <2>1, <2>3, SettleKept
  <2> QED BY <1>10, <2>2, <2>3 DEF OpenPR, Propose
<1>11. ASSUME NEW a \in Appliers, CallFails(a) PROVE Kept'
  BY <1>11, SettleKept DEF CallFails, db
<1>12. ASSUME NEW a \in Appliers, CommitApply(a) PROVE Kept'
  <2>1. apply' = [apply EXCEPT ![a] = [apply[a] EXCEPT !.pc = "announcing"]]
    BY <1>12 DEF CommitApply, Commit, Becomes
  <2>2. /\ apply[a].pc = "looping" /\ apply[a].todo = {} /\ UNCHANGED pr
        /\ apply'[a].pc = "announcing" /\ apply'[a].todo = apply[a].todo
        /\ apply'[a].repo = apply[a].repo /\ apply'[a].outcome = apply[a].outcome
        /\ \A b \in Appliers \ {a} : apply'[b] = apply[b]
    BY <1>12, <2>1 DEF CommitApply, Commit, TypeOK, Apply, github
  <2>3. \A r \in Repos :
          /\ target'[r].pr = (target[r].pr \/ apply[a].outcome[r] = "pr-opened")
          /\ target'[r].status = IF apply[a].outcome[r] = "same"
                                 THEN target[r].status ELSE apply[a].outcome[r]
    BY <1>12 DEF CommitApply, Commit, Committed
  <2>4. \A r \in Repos : apply[a].outcome[r] \in {"same", "pr-opened", "conflict"}
    BY DEF TypeOK, Apply
  <2>5. \A b \in Appliers : Held(b)'
    BY <2>2 DEF Kept, Held
  <2>6. OnceRecorded'
    BY <2>2, <2>3, <2>4 DEF Kept, OnceRecorded
  <2> QED BY <2>5, <2>6 DEF Kept
<1>13. ASSUME NEW a \in Appliers, Announce(a) \/ CrashApply(a) PROVE Kept'
  <2>1. /\ apply'[a] = IdleApply /\ UNCHANGED target
        /\ \A b \in Appliers \ {a} : apply'[b] = apply[b]
    BY <1>13 DEF Announce, CrashApply, Becomes, TypeOK, db
  <2>2. /\ apply'[a].todo = {} /\ apply'[a].repo = None
        /\ \A r \in Repos : apply'[a].outcome[r] = "same"
    BY <2>1 DEF IdleApply
  <2>3. Held(a)'
    BY <2>2 DEF Held
  <2> QED BY <2>1, <2>2, <2>3, RequestKept
<1> QED
  BY <1>2, <1>3, <1>4, <1>5, <1>6, <1>7, <1>8, <1>9, <1>10, <1>11, <1>12, <1>13 DEF Next

\* The state that the flow sees.
Stages   == [r \in Repos |-> Stage(r)]
AllAsked == [a \in Appliers |-> Asked(a)]
Recorded == {r \in Repos : target[r].pr}

Flowing == Flow!Next \/ UNCHANGED <<Stages, AllAsked, Recorded>>

LEMMA InitFlow == Init => Flow!Init
  BY DEF Init, Flow!Init, Stage, Asked, IdleApply

\* Stages depend on pull requests and previews alone.
LEMMA SameStage ==
  ASSUME UNCHANGED pr, \A r \in Repos : target'[r].preview = target[r].preview
  PROVE  UNCHANGED Stages
  BY DEF Stage, Stages

\* What a request asks for is reviewed.
LEMMA AskedReviewed ==
  ASSUME TypeOK, Review, Kept, NEW a \in Appliers
  PROVE  Asked(a) \subseteq Repos /\ \A r \in Asked(a) : target[r].preview # NoDiff
<1>1. apply[a] \in Apply /\ \A r \in apply[a].todo : target[r].preview # NoDiff
  BY DEF TypeOK, Review, AppliesReviewed
<1>2. CASE apply[a].pc \in {"branching", "putting"}
  BY <1>1, <1>2, InHand DEF Asked, Apply, Review
<1>3. CASE apply[a].pc \notin {"branching", "putting"}
  BY <1>1, <1>3 DEF Asked, Apply, Kept, Held
<1> QED BY <1>2, <1>3

\* A request that asks for no more than before, the rest as it was.
LEMMA DropFlow ==
  ASSUME TypeOK, Review, Kept, NEW a \in Appliers,
         \A b \in Appliers \ {a} : apply'[b] = apply[b],
         Asked(a)' \subseteq Asked(a), UNCHANGED <<Stages, Recorded>>
  PROVE  Flowing
<1>1. PICK S \in SUBSET Repos : S = Asked(a) \ Asked(a)'
  BY AskedReviewed
<1>2. \A b \in Appliers : Asked(b)' = IF b = a THEN Asked(a) \ S ELSE Asked(b)
  BY <1>1 DEF Asked
<1>3. Flow!Drop(a, S)
  BY <1>2 DEF Flow!Drop, Stages, Recorded
<1> QED BY <1>3 DEF Flowing, Flow!Next

\* The repository in hand is let go.
LEMMA SettleFlow ==
  ASSUME TypeOK, Review, Kept, NEW a \in Appliers,
         apply[a].pc \in {"branching", "putting"},
         NEW o \in {"pr-opened", "conflict"}, Settle(a, o)
  PROVE  /\ Asked(a)' = apply[a].todo /\ Asked(a) = apply[a].todo \cup {apply[a].repo}
         /\ \A b \in Appliers \ {a} : apply'[b] = apply[b]
<1>1. apply[a].repo \in Repos /\ apply[a] \in Apply
  BY InHand DEF Review
<1>2. /\ apply'[a].todo = apply[a].todo /\ \A b \in Appliers \ {a} : apply'[b] = apply[b]
  BY <1>1, Settled
<1>3. apply'[a].repo = None
  BY <1>1 DEF Settle, Becomes, TypeOK, Apply
<1> QED BY <1>1, <1>2, <1>3, CampaignAssumption DEF Asked, Apply

\* The owners answer a proposal.
LEMMA AnswerFlow ==
  ASSUME TypeOK, NEW r \in Repos, Merge(r) \/ Close(r) \/ DeleteBranch(r) PROVE Flowing
<1>1. UNCHANGED <<apply, target>>
  BY DEF Merge, Close, DeleteBranch, db
<1>2. UNCHANGED <<AllAsked, Recorded>>
  BY <1>1 DEF AllAsked, Asked, Recorded
<1>3. \/ pr[r] = "open" /\ \E to \in {"merged", "closed"} : pr' = [pr EXCEPT ![r] = to]
      \/ UNCHANGED pr
  BY DEF Merge, Close, DeleteBranch
<1>4. CASE UNCHANGED pr
  BY <1>1, <1>2, <1>4, SameStage DEF Flowing
<1>5. ASSUME NEW to \in {"merged", "closed"}, pr[r] = "open", pr' = [pr EXCEPT ![r] = to]
      PROVE  Flowing
  <2> DEFINE answer == IF to = "merged" THEN "landed" ELSE "withdrawn"
  <2>1. pr'[r] = to /\ \A q \in Repos \ {r} : pr'[q] = pr[q]
    BY <1>5 DEF TypeOK
  <2>2. Stage(r) = "proposed" /\ Stage(r)' = answer
    BY <1>5, <2>1 DEF Stage
  <2>3. \A q \in Repos \ {r} : Stage(q)' = Stage(q)
    BY <1>1, <2>1 DEF Stage
  <2>4. Flow!Answer(r, answer)
    BY <1>2, <2>2, <2>3 DEF Flow!Answer, AllAsked, Recorded
  <2> QED BY <2>4 DEF Flowing, Flow!Next
<1> QED BY <1>3, <1>4, <1>5

LEMMA CommitPreviewFlow ==
  ASSUME TypeOK, Review, CommitPreview PROVE Flowing
<1> DEFINE S == {r \in Repos : dry.draft[r].preview # NoDiff}
<1>1. \A r \in Repos : pr[r] = "none" /\ target[r].preview = NoDiff
  BY DEF CommitPreview, Review, NothingBeforeReview
<1>2. /\ UNCHANGED <<pr, apply>>
      /\ \A r \in Repos : /\ target'[r].preview = dry.draft[r].preview
                          /\ target'[r].pr = target[r].pr
  BY DEF CommitPreview, github
<1>3. \A r \in Repos : /\ Stage(r) = "new"
                       /\ Stage(r)' = IF r \in S THEN "reviewed" ELSE "new"
  BY <1>1, <1>2 DEF Stage
<1>4. PICK T \in SUBSET Repos : T = S
  OBVIOUS
<1>5. \A r \in Repos : /\ Stage(r) = "new"
                       /\ Stage(r)' = IF r \in T THEN "reviewed" ELSE "new"
  BY <1>3, <1>4
<1>6. UNCHANGED <<AllAsked, Recorded>>
  BY <1>2 DEF AllAsked, Asked, Recorded
<1>7. Flow!Review(T)
  BY <1>5, <1>6 DEF Flow!Review, AllAsked, Recorded
<1> QED BY <1>7 DEF Flowing, Flow!Next

\* A request takes up what is reviewed and not on record.
LEMMA LoadTargetsFlow ==
  ASSUME TypeOK, Review, Kept, NEW a \in Appliers, LoadTargets(a) PROVE Flowing
<1> DEFINE todo == {r \in Repos : /\ target[r].status = "dry-run-ok"
                                  /\ target[r].preview # NoDiff}
<1>1. /\ apply[a].pc = "loaded" /\ UNCHANGED <<pr, target>>
      /\ apply' = [apply EXCEPT ![a] = [apply[a] EXCEPT !.pc = "looping", !.todo = todo]]
  BY DEF LoadTargets, Becomes, github, db
<1>2. PICK S \in SUBSET Repos : S = todo
  OBVIOUS
<1>3. S \cap Recorded = {} /\ \A r \in S : target[r].preview # NoDiff
  BY <1>2 DEF Recorded, Kept, OnceRecorded
<1> HIDE DEF todo
<1>4. apply[a].todo = {} /\ apply[a].repo = None
  BY <1>1 DEF Kept, Held
<1>5. /\ apply'[a].todo = S /\ apply'[a].repo = None
      /\ \A b \in Appliers \ {a} : apply'[b] = apply[b]
  BY <1>1, <1>2, <1>4 DEF TypeOK, Apply
<1>6. /\ Asked(a) = {} /\ Asked(a)' = S
      /\ \A b \in Appliers \ {a} : Asked(b)' = Asked(b)
  BY <1>4, <1>5 DEF Asked
<1>7. \A r \in S : Stage(r) # "new"
  BY <1>3 DEF Stage
<1>8. UNCHANGED <<Stages, Recorded>>
  BY <1>1, SameStage DEF Recorded
<1>9. Flow!Ask(a, S)
  BY <1>3, <1>6, <1>7, <1>8 DEF Flow!Ask, Stages, Recorded
<1> QED BY <1>9 DEF Flowing, Flow!Next

LEMMA OpenPRFlow ==
  ASSUME TypeOK, Review, OnRecord, Kept, NEW a \in Appliers, OpenPR(a) PROVE Flowing
<1>1. PICK r \in Repos : r = apply[a].repo
  BY Opened DEF Review
<1>2. /\ UNCHANGED target /\ target[r].preview # NoDiff /\ apply[a].pc = "putting"
      /\ r \notin apply[a].todo
  BY <1>1, InHand DEF OpenPR, db, Review, OnRecord, Turn
<1>3. /\ Asked(a)' = apply[a].todo /\ Asked(a) = apply[a].todo \cup {r}
      /\ \A b \in Appliers \ {a} : apply'[b] = apply[b]
  BY <1>1, <1>2, Opened, SettleFlow DEF Review
<1>4. UNCHANGED Recorded
  BY <1>2 DEF Recorded
<1>5. CASE UNCHANGED pr
  <2>1. UNCHANGED Stages
    BY <1>2, <1>5, SameStage
  <2> QED BY <1>3, <1>4, <2>1, DropFlow
<1>6. CASE pr[r] # "open" /\ pr' = [pr EXCEPT ![r] = "open"]
  <2>1. pr'[r] = "open" /\ \A q \in Repos \ {r} : pr'[q] = pr[q]
    BY <1>6 DEF TypeOK
  <2>2. Stage(r) \notin {"new", "proposed"} /\ Stage(r)' = "proposed"
    BY <1>2, <1>6, <2>1 DEF Stage
  <2>3. \A q \in Repos \ {r} : Stage(q)' = Stage(q)
    BY <1>2, <2>1 DEF Stage
  <2>4. \A b \in Appliers : Asked(b)' = IF b = a THEN Asked(a) \ {r} ELSE Asked(b)
    BY <1>2, <1>3 DEF Asked
  <2>5. Flow!Propose(a, r)
    BY <1>3, <1>4, <2>2, <2>3, <2>4 DEF Flow!Propose, Recorded
  <2> QED BY <2>5 DEF Flowing, Flow!Next
<1> QED BY <1>1, <1>5, <1>6, Opened DEF Review

\* The commit puts on record what the request proposed.
LEMMA CommitApplyFlow ==
  ASSUME TypeOK, Review, Kept, NEW a \in Appliers, CommitApply(a) PROVE Flowing
<1>1. PICK S \in SUBSET Repos : S = {r \in Repos : apply[a].outcome[r] = "pr-opened"}
  OBVIOUS
<1>2. UNCHANGED Stages
  BY CommittedRows, SameStage DEF CommitApply, Commit, github
<1>3. UNCHANGED AllAsked
  <2>1. apply' = [apply EXCEPT ![a] = [apply[a] EXCEPT !.pc = "announcing"]]
    BY DEF CommitApply, Commit, Becomes
  <2>2. \A b \in Appliers : apply'[b].todo = apply[b].todo /\ apply'[b].repo = apply[b].repo
    BY <2>1 DEF TypeOK, Apply
  <2> QED BY <2>2 DEF AllAsked, Asked
<1>4. \A r \in Repos : target'[r].pr = (target[r].pr \/ apply[a].outcome[r] = "pr-opened")
  BY DEF CommitApply, Commit, Committed
<1>5. Recorded' = Recorded \cup S
  BY <1>1, <1>4 DEF Recorded
<1>6. \A r \in S : Stage(r) \notin {"new", "reviewed"}
  BY <1>1 DEF Stage, Kept, OnceRecorded, TypeOK
<1>7. Flow!Record(S)
  BY <1>2, <1>3, <1>5, <1>6 DEF Flow!Record, Stages, AllAsked, Recorded
<1> QED BY <1>7 DEF Flowing, Flow!Next

\* The steps of a request that propose nothing.
LEMMA RequestFlow ==
  ASSUME TypeOK, Review, Kept, NEW a \in Appliers,
         \/ LoadCampaign(a) \/ \E r \in Repos : ReadRepo(a, r) \/ ReadFails(a, r)
         \/ CreateBranch(a) \/ CallFails(a) \/ \E f \in Files : PutFile(a, f)
         \/ Announce(a) \/ CrashApply(a)
  PROVE  Flowing
<1>1. UNCHANGED <<pr, target>>
  BY DEF LoadCampaign, ReadRepo, Edit, ReadFails, CreateBranch, CallFails, PutFile,
         Announce, CrashApply, github, db
<1>2. UNCHANGED <<Stages, Recorded>>
  BY <1>1, SameStage DEF Recorded
<1>3. /\ \A b \in Appliers \ {a} : apply'[b] = apply[b]
      /\ Asked(a)' \subseteq Asked(a)
  <2>0. apply[a] \in Apply
    BY DEF TypeOK
  <2>1. CASE LoadCampaign(a)
    <3>1. /\ apply'[a] = [IdleApply EXCEPT !.pc = "loaded", !.resolved = resolved]
          /\ \A b \in Appliers \ {a} : apply'[b] = apply[b]
      BY <2>1 DEF LoadCampaign, Becomes, TypeOK
    <3>2. apply'[a].todo = {} /\ apply'[a].repo = None
      BY <3>1 DEF IdleApply
    <3> QED BY <3>1, <3>2 DEF Asked
  <2>2. ASSUME NEW r \in Repos, ReadRepo(a, r)
        PROVE  /\ \A b \in Appliers \ {a} : apply'[b] = apply[b]
               /\ Asked(a)' \subseteq Asked(a)
    <3> DEFINE diff == DiffOf(head[r], apply[a].resolved)
               left == {f \in Files : diff.new[f] # diff.old[f]}
               rest == apply[a].todo \ {r}
               skip == [apply[a] EXCEPT !.todo = rest]
               edit == [apply[a] EXCEPT !.pc = "branching", !.todo = rest,
                                        !.repo = r, !.diff = diff, !.left = left]
    <3>1. apply' = [apply EXCEPT ![a] = IF diff = NoDiff THEN skip ELSE edit]
      BY <2>2 DEF ReadRepo, Edit, Becomes
    <3>2. r \in apply[a].todo
      BY <2>2 DEF ReadRepo, Edit
    <3> HIDE DEF diff, left
    <3>3. /\ apply'[a].todo = apply[a].todo \ {r}
          /\ apply'[a].repo = apply[a].repo \/ apply'[a].repo = r
          /\ \A b \in Appliers \ {a} : apply'[b] = apply[b]
      BY <2>0, <3>1 DEF TypeOK, Apply
    <3> QED BY <3>2, <3>3 DEF Asked
  <2>3. ASSUME NEW r \in Repos, ReadFails(a, r)
        PROVE  /\ \A b \in Appliers \ {a} : apply'[b] = apply[b]
               /\ Asked(a)' \subseteq Asked(a)
    <3>1. apply' = [apply EXCEPT ![a] = [apply[a] EXCEPT
             !.todo = apply[a].todo \ {r},
             !.outcome = [apply[a].outcome EXCEPT ![r] = "conflict"]]]
      BY <2>3 DEF ReadFails, Becomes
    <3>2. /\ apply'[a].todo = apply[a].todo \ {r} /\ apply'[a].repo = apply[a].repo
          /\ \A b \in Appliers \ {a} : apply'[b] = apply[b]
      BY <2>0, <3>1 DEF TypeOK, Apply
    <3> QED BY <3>2 DEF Asked
  <2>4. CASE CreateBranch(a)
    <3>1. /\ apply'[a].todo = apply[a].todo /\ apply'[a].repo = apply[a].repo
          /\ \A b \in Appliers \ {a} : apply'[b] = apply[b]
      BY <2>0, <2>4 DEF CreateBranch, Becomes, TypeOK, Apply
    <3> QED BY <3>1 DEF Asked
  <2>5. CASE apply[a].pc \in {"branching", "putting"} /\ Settle(a, "conflict")
    BY <2>5, SettleFlow
  <2>6. ASSUME NEW f \in Files, Becomes(a, [apply[a] EXCEPT !.left = apply[a].left \ {f}])
        PROVE  /\ \A b \in Appliers \ {a} : apply'[b] = apply[b]
               /\ Asked(a)' \subseteq Asked(a)
    <3>1. /\ apply'[a].todo = apply[a].todo /\ apply'[a].repo = apply[a].repo
          /\ \A b \in Appliers \ {a} : apply'[b] = apply[b]
      BY <2>0, <2>6 DEF Becomes, TypeOK, Apply
    <3> QED BY <3>1 DEF Asked
  <2>7. CASE Announce(a) \/ CrashApply(a)
    <3>1. /\ apply'[a] = IdleApply /\ \A b \in Appliers \ {a} : apply'[b] = apply[b]
      BY <2>7 DEF Announce, CrashApply, Becomes, TypeOK
    <3>2. apply'[a].todo = {} /\ apply'[a].repo = None
      BY <3>1 DEF IdleApply
    <3> QED BY <3>1, <3>2 DEF Asked
  <2> QED BY <2>1, <2>2, <2>3, <2>4, <2>5, <2>6, <2>7 DEF CallFails, PutFile
<1> QED BY <1>2, <1>3, DropFlow

\* Every step of a campaign is one of the flow, or the flow stutters.
LEMMA NextFlow ==
  ASSUME TypeOK, Review, OnRecord, Kept, [Next]_vars PROVE Flowing
<1>1. CASE \/ \E x \in Refs, s \in Shas : Retag(x, s)
           \/ \E r \in Repos, f \in Files, c \in Content : Push(r, f, c)
           \/ \E r \in Repos : PreviewRepo(r) \/ FailPreview(r)
           \/ CrashPreview \/ UNCHANGED vars
  <2>1. UNCHANGED <<pr, target, apply>>
    BY <1>1 DEF Retag, Push, PreviewRepo, FailPreview, CrashPreview, vars, github, db
  <2> QED BY <2>1, SameStage DEF Flowing, AllAsked, Asked, Recorded
<1>2. ASSUME NEW r \in Repos, Merge(r) \/ Close(r) \/ DeleteBranch(r) PROVE Flowing
  BY <1>2, AnswerFlow
<1>3. CASE CommitPreview
  BY <1>3, CommitPreviewFlow
<1>4. ASSUME NEW a \in Appliers, LoadTargets(a) \/ OpenPR(a) \/ CommitApply(a) PROVE Flowing
  BY <1>4, LoadTargetsFlow, OpenPRFlow, CommitApplyFlow
<1>5. ASSUME NEW a \in Appliers,
             \/ LoadCampaign(a) \/ \E r \in Repos : ReadRepo(a, r) \/ ReadFails(a, r)
             \/ CreateBranch(a) \/ CallFails(a) \/ \E f \in Files : PutFile(a, f)
             \/ Announce(a) \/ CrashApply(a)
      PROVE  Flowing
  BY <1>5, RequestFlow
<1> QED BY <1>1, <1>2, <1>3, <1>4, <1>5 DEF Next

\* A campaign proposes only what was reviewed, one proposal of a repository at a
\* time, at most once by each request, and what is on record to no later one.
THEOREM ImplementsFixFlowThm == Spec => ImplementsFixFlow
<1>1. Init => Flow!Init /\ OnRecord /\ Kept
  <2>1. Init => OnRecord
    BY DEF Init, OnRecord, Turn, IdleApply
  <2>2. Init => Kept
    BY DEF Init, Kept, OnceRecorded, Held, IdleApply
  <2> QED BY <2>1, <2>2, InitFlow
<1>2. IInv /\ OnRecord /\ Kept /\ [Next]_vars => OnRecord' /\ Kept'
  BY NextRecord, NextKept DEF IInv
<1>3. IInv /\ OnRecord /\ Kept /\ [Next]_vars => [Flow!Next]_(Flow!vars)
  BY NextFlow DEF IInv, Flowing, Flow!vars, Stages, AllAsked, Recorded
<1> QED BY <1>1, <1>2, <1>3, Invariance, PTL DEF Spec, ImplementsFixFlow, Flow!Spec
-----------------------------------------------------------------------------
(* What is proposed is the reviewed diff, when GitHub keeps still *)

\* No tag moved during the dry run, nobody pushed or deleted a branch, no call
\* failed.
Still == \A k \in {"early", "push", "delete", "failure"} : used[k] = 0

\* The dry run's map has the tags of every repository it has been through, so
\* that their previews are what the whole map gives.
Drafted ==
  dry.pc = "running" =>
    /\ \A x \in Refs : dry.acc[x] \in {None, tag[x]} /\ (x \in Immutable => dry.acc[x] = None)
    /\ \A r \in Repos \ dry.todo :
         /\ dry.draft[r].preview = DiffOf(head[r], dry.acc)
         /\ \A f \in Files, x \in Refs :
              head[r][f][x] = Mutable /\ x \notin Immutable => dry.acc[x] = tag[x]

\* A preview is what the map gives on the files it shows as old.  These are on
\* the default branch until a merge puts there what it shows as new.
Fits(preview, tree, map, request) ==
  IF preview = NoDiff
  THEN DiffOf(tree, map) = NoDiff
  ELSE /\ preview = DiffOf(preview.old, map)
       /\ tree \in {preview.old, preview.new}
       /\ request = "none" => tree = preview.old

Previewed == \A r \in Repos : Fits(target[r].preview, head[r], resolved, pr[r])

\* A branch starts from the previewed files and has some of them changed as
\* previewed; a proposed one all.
Branched ==
  \A r \in Repos :
    /\ pr[r] # "none" => branch[r] # None
    /\ branch[r] # None =>
         /\ base[r] = target[r].preview.old
         /\ \A f \in Files : branch[r][f] \in {target[r].preview.old[f], target[r].preview.new[f]}
         /\ pr[r] # "none" => branch[r] = target[r].preview.new

\* The edits in hand are the previewed ones, and the files that are not left
\* are on the branch.
Handled ==
  \A a \in Appliers : apply[a].pc \in {"branching", "putting"} =>
    /\ apply[a].diff = target[apply[a].repo].preview
    /\ apply[a].pc = "putting" => branch[apply[a].repo] # None
    /\ \A f \in Files \ apply[a].left :
         IF apply[a].pc = "branching" THEN apply[a].diff.new[f] = apply[a].diff.old[f]
                                      ELSE branch[apply[a].repo][f] = apply[a].diff.new[f]

AsPreviewed == Still => Drafted /\ Previewed /\ Branched /\ Handled

LEMMA StaysStill ==
  ASSUME TypeOK, [Next]_vars, Still' PROVE Still
BY UsedGrows DEF Still, Kinds

\* Maps that agree on what a tree leaves mutable pin it alike.
LEMMA MapsAgree ==
  ASSUME NEW tree \in Tree, NEW m, NEW n,
         \A f \in Files, x \in Refs : tree[f][x] = Mutable => m[x] = n[x]
  PROVE  DiffOf(tree, m) = DiffOf(tree, n)
<1>1. \A f \in Files, x \in Refs :
        (IF tree[f][x] = Mutable /\ m[x] # None THEN m[x] ELSE tree[f][x])
          = (IF tree[f][x] = Mutable /\ n[x] # None THEN n[x] ELSE tree[f][x])
  OBVIOUS
<1>2. Pinned(tree, m) = Pinned(tree, n)
  BY <1>1 DEF Pinned
<1> QED BY <1>2 DEF DiffOf

\* What a map has pinned it leaves alone.
LEMMA PinnedAgain ==
  ASSUME NEW tree \in Tree, NEW map \in Resolved
  PROVE  DiffOf(Pinned(tree, map), map) = NoDiff
<1> DEFINE new == Pinned(tree, map)
<1>1. new \in Tree
  BY PinnedType
<1>2. \A f \in Files, x \in Refs :
        new[f][x] = IF tree[f][x] = Mutable /\ map[x] # None THEN map[x] ELSE tree[f][x]
  BY DEF Pinned
<1>3. \A f \in Files, x \in Refs : new[f][x] = Mutable => map[x] = NotResolved[x]
  BY <1>2, CampaignAssumption DEF Resolved, NotResolved
<1> HIDE DEF new
<1>4. DiffOf(new, map) = DiffOf(new, NotResolved)
  BY <1>1, <1>3, MapsAgree
<1>5. DiffOf(new, NotResolved) = NoDiff
  BY <1>1, PinnedByNothing DEF DiffOf
<1> QED BY <1>4, <1>5 DEF new

\* What a diff that is one shows.
LEMMA DiffShows ==
  ASSUME NEW tree, NEW map, DiffOf(tree, map) # NoDiff
  PROVE  DiffOf(tree, map).old = tree /\ DiffOf(tree, map).new = Pinned(tree, map)
BY DEF DiffOf

\* The parts of AsPreviewed that are not about the dry run.
Rest == Previewed /\ Branched /\ Handled

LEMMA PreviewedNext ==
  ASSUME \A r \in Repos : Fits(target'[r].preview, head'[r], resolved', pr'[r])
  PROVE  Previewed'
BY DEF Previewed, Fits, DiffOf, Pinned

\* The edits that the default branch still needs are the previewed ones.
LEMMA HeadDiff ==
  ASSUME TypeOK, Previewed, NEW r \in Repos
  PROVE  DiffOf(head[r], resolved) \in {NoDiff, target[r].preview}
<1> DEFINE p == target[r].preview
<1>1. p \in Diff \cup {NoDiff} /\ resolved \in Resolved
  BY DEF TypeOK, Target
<1>2. CASE p = NoDiff
  BY <1>2 DEF Previewed, Fits
<1>3. CASE p # NoDiff
  <2>1. p.old \in Tree /\ p = DiffOf(p.old, resolved) /\ head[r] \in {p.old, p.new}
    BY <1>1, <1>3 DEF Previewed, Fits, Diff
  <2>2. p.new = Pinned(p.old, resolved)
    BY <1>3, <2>1, DiffShows
  <2>3. DiffOf(p.new, resolved) = NoDiff
    BY <1>1, <2>1, <2>2, PinnedAgain
  <2> QED BY <2>1, <2>3
<1> QED BY <1>2, <1>3

\* What stays the same when nothing of it is touched.
LEMMA SameRest ==
  ASSUME Rest, UNCHANGED <<head, branch, base, pr, resolved, apply>>,
         \A r \in Repos : target'[r].preview = target[r].preview,
         TypeOK, Review
  PROVE  Rest'
<1>1. Previewed'
  BY PreviewedNext DEF Rest, Previewed
<1>2. Branched'
  BY DEF Rest, Branched
<1>3. Handled'
  <2>1. \A a \in Appliers : apply[a].pc \in {"branching", "putting"} => apply[a].repo \in Repos
    BY DEF Review, AppliesReviewed
  <2> QED BY <2>1 DEF Rest, Handled
<1> QED BY <1>1, <1>2, <1>3 DEF Rest

\* One request takes a step that GitHub does not notice.
LEMMA RequestRest ==
  ASSUME TypeOK, Review, Rest, NEW a \in Appliers,
         UNCHANGED <<head, branch, base, pr, resolved>>,
         \A r \in Repos : target'[r].preview = target[r].preview,
         \A b \in Appliers \ {a} : apply'[b] = apply[b],
         apply'[a].pc # "putting",
         apply'[a].pc = "branching" =>
           /\ apply'[a].repo \in Repos
           /\ apply'[a].diff = target[apply'[a].repo].preview
           /\ \A f \in Files \ apply'[a].left : apply'[a].diff.new[f] = apply'[a].diff.old[f]
  PROVE  Rest'
<1>1. Previewed'
  BY PreviewedNext DEF Rest, Previewed
<1>2. Branched'
  BY DEF Rest, Branched
<1>3. Handled'
  <2> SUFFICES ASSUME NEW b \in Appliers PROVE Handled!(b)'
    BY DEF Handled
  <2>1. CASE b = a
    BY <2>1
  <2>2. CASE b # a
    <3>1. apply'[b] = apply[b] /\ Handled!(b)
      BY <2>2 DEF Rest, Handled
    <3>2. apply[b].pc \in {"branching", "putting"} => apply[b].repo \in Repos
      BY DEF Review, AppliesReviewed
    <3> QED BY <3>1, <3>2
  <2> QED BY <2>1, <2>2
<1> QED BY <1>1, <1>2, <1>3 DEF Rest

\* Merging a proposed branch leaves the default branch as the branch is.
LEMMA MergeRest ==
  ASSUME TypeOK, Review, Rest, NEW r \in Repos, Merge(r) PROVE Rest'
<1> DEFINE p == target[r].preview
<1>1. /\ pr[r] = "open" /\ UNCHANGED <<branch, base, resolved, target, apply>>
      /\ pr' = [pr EXCEPT ![r] = "merged"]
      /\ head' = [head EXCEPT ![r] = [f \in Files |-> IF branch[r][f] # base[r][f]
                                                      THEN branch[r][f] ELSE head[r][f]]]
  BY DEF Merge, db
<1>2. /\ branch[r] # None /\ branch[r] \in Tree /\ head[r] \in Tree /\ resolved \in Resolved
      /\ p # NoDiff
  BY <1>1 DEF Review, ProposedReviewed, TypeOK
<1>3. /\ p = DiffOf(p.old, resolved) /\ head[r] \in {p.old, p.new}
      /\ base[r] = p.old /\ branch[r] = p.new
  BY <1>1, <1>2 DEF Rest, Previewed, Fits, Branched
<1>4. head'[r] = branch[r]
  <2>1. head'[r] = [f \in Files |-> IF branch[r][f] # base[r][f] THEN branch[r][f] ELSE head[r][f]]
    BY <1>1 DEF TypeOK
  <2>2. \A f \in Files : head'[r][f] = branch[r][f]
    BY <1>3, <2>1
  <2> QED BY <1>2, <2>1, <2>2 DEF Tree
<1>5. pr'[r] = "merged" /\ \A q \in Repos \ {r} : pr'[q] = pr[q] /\ head'[q] = head[q]
  BY <1>1 DEF TypeOK
<1>6. Previewed'
  <2> SUFFICES ASSUME NEW q \in Repos PROVE Fits(target[q].preview, head'[q], resolved, pr'[q])
    BY <1>1, PreviewedNext
  <2>1. CASE q = r
    BY <1>2, <1>3, <1>4, <1>5, <2>1 DEF Fits
  <2>2. CASE q # r
    BY <1>5, <2>2 DEF Rest, Previewed
  <2> QED BY <2>1, <2>2
<1>7. Branched'
  <2>1. \A q \in Repos : pr'[q] # "none" => pr[q] # "none"
    BY <1>1, <1>5
  <2> QED BY <1>1, <2>1 DEF Rest, Branched
<1>8. Handled'
  BY <1>1 DEF Rest, Handled
<1> QED BY <1>6, <1>7, <1>8 DEF Rest

\* Closing it leaves everything as it is.
LEMMA CloseRest ==
  ASSUME TypeOK, Review, Rest, NEW r \in Repos, Close(r) PROVE Rest'
<1>1. /\ UNCHANGED <<head, branch, base, resolved, target, apply>>
      /\ \A q \in Repos : (pr'[q] = "none") <=> (pr[q] = "none")
  BY DEF Close, db, TypeOK
<1>2. Previewed'
  BY <1>1, PreviewedNext DEF Rest, Previewed, Fits
<1>3. Branched' /\ Handled'
  BY <1>1 DEF Rest, Branched, Handled
<1> QED BY <1>2, <1>3 DEF Rest

\* The dry run's commit stores what it drafted.
LEMMA CommitPreviewRest ==
  ASSUME TypeOK, Review, Drafted, CommitPreview PROVE Rest'
<1>1. /\ dry.pc = "running" /\ dry.todo = {} /\ resolved' = dry.acc
      /\ UNCHANGED <<head, branch, base, pr, apply>>
      /\ \A r \in Repos : target'[r].preview = dry.draft[r].preview
  BY DEF CommitPreview, github
<1>2. /\ \A r \in Repos : branch[r] = None /\ pr[r] = "none"
      /\ \A a \in Appliers : apply[a].pc \notin {"branching", "putting"}
  BY <1>1 DEF Review, NothingBeforeReview
<1>3. \A r \in Repos : dry.draft[r].preview = DiffOf(head[r], dry.acc)
  BY <1>1 DEF Drafted
<1>4. Previewed'
  <2> SUFFICES ASSUME NEW r \in Repos
               PROVE  Fits(target'[r].preview, head[r], dry.acc, pr[r])
    BY <1>1, PreviewedNext
  <2>1. target'[r].preview = DiffOf(head[r], dry.acc)
    BY <1>1, <1>3
  <2>2. target'[r].preview # NoDiff => target'[r].preview.old = head[r]
    BY <2>1, DiffShows
  <2> QED BY <2>1, <2>2 DEF Fits
<1>5. Branched' /\ Handled'
  BY <1>1, <1>2 DEF Branched, Handled
<1> QED BY <1>4, <1>5 DEF Rest

\* An apply that finds edits finds the previewed ones.
LEMMA ReadRepoRest ==
  ASSUME TypeOK, Review, Rest, NEW a \in Appliers, NEW r \in Repos, ReadRepo(a, r)
  PROVE  Rest'
<1> DEFINE diff == DiffOf(head[r], apply[a].resolved)
           rest == apply[a].todo \ {r}
           left == {f \in Files : diff.new[f] # diff.old[f]}
           edit == [apply[a] EXCEPT !.pc = "branching", !.todo = rest,
                                    !.repo = r, !.diff = diff, !.left = left]
           skip == [apply[a] EXCEPT !.todo = rest]
<1>1. /\ apply[a] \in Apply /\ apply[a].pc = "looping" /\ r \in apply[a].todo
      /\ apply[a].resolved \in {NotResolved, resolved}
      /\ head[r] \in Tree /\ apply[a].resolved \in Resolved
  BY DEF ReadRepo, Edit, Review, AppliesReviewed, TypeOK, Apply
<1>2. diff # NoDiff => diff = target[r].preview
  <2> SUFFICES ASSUME diff # NoDiff PROVE diff = target[r].preview
    OBVIOUS
  <2>1. apply[a].resolved = resolved
    BY <1>1, DiffOfType
  <2> QED BY <1>1, <2>1, HeadDiff DEF Rest, TypeOK, Apply
<1>3. apply' = [apply EXCEPT ![a] = IF diff = NoDiff THEN skip ELSE edit]
  BY DEF ReadRepo, Edit, Becomes
<1>4. UNCHANGED <<head, branch, base, pr, resolved, target>>
  BY DEF ReadRepo, Edit, github, db
<1>5. \A f \in Files \ left : diff.new[f] = diff.old[f]
  OBVIOUS
<1> HIDE DEF diff, left
<1>6. CASE diff = NoDiff
  <2>1. /\ apply'[a].pc = "looping" /\ \A b \in Appliers \ {a} : apply'[b] = apply[b]
    BY <1>1, <1>3, <1>6 DEF TypeOK, Apply
  <2> QED BY <1>4, <2>1, RequestRest
<1>7. CASE diff # NoDiff
  <2>1. /\ apply'[a].pc = "branching" /\ apply'[a].repo = r
        /\ apply'[a].diff = diff /\ apply'[a].left = left
        /\ \A b \in Appliers \ {a} : apply'[b] = apply[b]
    BY <1>1, <1>3, <1>7 DEF TypeOK, Apply
  <2> QED BY <1>2, <1>4, <1>5, <1>7, <2>1, RequestRest
<1> QED BY <1>6, <1>7

\* A new branch starts from the previewed files: nobody has pushed, and a
\* repository without a branch has nothing merged.
LEMMA CreateBranchRest ==
  ASSUME TypeOK, Review, Rest, NEW a \in Appliers, CreateBranch(a) PROVE Rest'
<1> DEFINE r == apply[a].repo
           p == target[r].preview
<1>1. /\ apply[a].pc = "branching" /\ r \in Repos /\ apply[a] \in Apply
      /\ p # NoDiff /\ apply[a].diff = p
      /\ \A f \in Files \ apply[a].left : p.new[f] = p.old[f]
  BY InHand DEF CreateBranch, Review, Rest, Handled
<1>2. UNCHANGED <<head, pr, resolved, target>>
  BY DEF CreateBranch, db
<1>3. \/ /\ branch[r] = None /\ branch' = [branch EXCEPT ![r] = head[r]]
         /\ base' = [base EXCEPT ![r] = head[r]]
      \/ branch[r] # None /\ UNCHANGED <<branch, base>>
  BY DEF CreateBranch
<1>4. apply' = [apply EXCEPT ![a] = [apply[a] EXCEPT !.pc = "putting"]]
  BY DEF CreateBranch, Becomes
<1>5. /\ apply'[a].pc = "putting" /\ apply'[a].repo = r /\ apply'[a].diff = p
      /\ apply'[a].left = apply[a].left
      /\ \A b \in Appliers \ {a} : apply'[b] = apply[b]
  BY <1>1, <1>4 DEF TypeOK, Apply
<1>6. branch[r] = None => pr[r] = "none" /\ head[r] = p.old
  <2> SUFFICES ASSUME branch[r] = None PROVE pr[r] = "none" /\ head[r] = p.old
    OBVIOUS
  <2>1. pr[r] = "none"
    BY <1>1 DEF Rest, Branched
  <2> QED BY <1>1, <2>1 DEF Rest, Previewed, Fits
<1>7. \A q \in Repos : branch[q] # None => branch'[q] = branch[q] /\ base'[q] = base[q]
  BY <1>1, <1>3 DEF TypeOK
<1>8. branch[r] = None =>
        /\ branch'[r] = p.old /\ base'[r] = p.old
        /\ \A q \in Repos \ {r} : branch'[q] = branch[q] /\ base'[q] = base[q]
  BY <1>1, <1>3, <1>6 DEF TypeOK
<1>9. Previewed'
  BY <1>2, PreviewedNext DEF Rest, Previewed
<1>10. Branched'
  <2>0. \A q \in Repos : pr[q] # "none" => branch'[q] # None
    BY <1>7 DEF Rest, Branched
  <2> SUFFICES ASSUME NEW q \in Repos, branch'[q] # None
               PROVE  /\ base'[q] = target[q].preview.old
                      /\ \A f \in Files : branch'[q][f] \in {target[q].preview.old[f], target[q].preview.new[f]}
                      /\ pr[q] # "none" => branch'[q] = target[q].preview.new
    BY <1>2, <2>0 DEF Branched
  <2>1. CASE branch[q] # None
    BY <1>7, <2>1 DEF Rest, Branched
  <2>2. CASE branch[q] = None
    <3>1. q = r
      BY <1>3, <1>8, <2>2
    <3> QED BY <1>6, <1>8, <2>2, <3>1
  <2> QED BY <2>1, <2>2
<1>11. Handled'
  <2> SUFFICES ASSUME NEW b \in Appliers PROVE Handled!(b)'
    BY DEF Handled
  <2>1. CASE b = a
    <3>0. branch'[r] # None
      BY <1>1, <1>3, CampaignAssumption DEF TypeOK
    <3>1. \A f \in Files \ apply[a].left : branch'[r][f] = p.new[f]
      <4>1. CASE branch[r] = None
        BY <1>1, <1>8, <4>1
      <4>2. CASE branch[r] # None
        BY <1>1, <1>7, <4>2 DEF Rest, Branched
      <4> QED BY <4>1, <4>2
    <3> QED BY <1>2, <1>5, <2>1, <3>0, <3>1
  <2>2. CASE b # a
    <3>1. apply'[b] = apply[b] /\ Handled!(b)
      BY <1>5, <2>2 DEF Rest, Handled
    <3>2. apply[b].pc = "putting" => apply[b].repo \in Repos /\ branch[apply[b].repo] # None
      BY <3>1 DEF Review, AppliesReviewed
    <3>3. apply[b].pc = "putting" => branch'[apply[b].repo] = branch[apply[b].repo]
      BY <1>7, <3>2
    <3> QED BY <1>2, <3>1, <3>3
  <2> QED BY <2>1, <2>2
<1> QED BY <1>9, <1>10, <1>11 DEF Rest

\* A commit to a branch puts one file there as it was previewed.
LEMMA PutFileRest ==
  ASSUME TypeOK, Review, Rest, NEW a \in Appliers, NEW f \in Files, PutFile(a, f)
  PROVE  Rest'
<1> DEFINE r == apply[a].repo
           p == target[r].preview
<1>1. /\ apply[a].pc = "putting" /\ r \in Repos /\ apply[a] \in Apply
      /\ p # NoDiff /\ apply[a].diff = p /\ branch[r] \in Tree /\ branch[r] # None
      /\ \A g \in Files \ apply[a].left : branch[r][g] = p.new[g]
  BY InHand, CampaignAssumption DEF PutFile, Review, Rest, Handled, TypeOK
<1>2. UNCHANGED <<head, base, pr, resolved, target>>
  BY DEF PutFile, db
<1>3. CASE branch[r][f] # apply[a].diff.old[f]
  <2>1. Settle(a, "conflict") /\ UNCHANGED branch
    BY <1>1, <1>3 DEF PutFile
  <2>2. apply'[a].pc = "looping" /\ \A b \in Appliers \ {a} : apply'[b] = apply[b]
    BY <1>1, <2>1, Settled
  <2> QED BY <1>2, <2>1, <2>2, RequestRest
<1>4. CASE branch[r][f] = apply[a].diff.old[f]
  <2>1. /\ branch' = [branch EXCEPT ![r] = [branch[r] EXCEPT ![f] = p.new[f]]]
        /\ apply' = [apply EXCEPT ![a] = [apply[a] EXCEPT !.left = apply[a].left \ {f}]]
    BY <1>1, <1>4 DEF PutFile, Becomes
  <2>2. /\ apply'[a].pc = "putting" /\ apply'[a].repo = r /\ apply'[a].diff = p
        /\ apply'[a].left = apply[a].left \ {f}
        /\ \A b \in Appliers \ {a} : apply'[b] = apply[b]
    BY <1>1, <2>1 DEF TypeOK, Apply
  <2>3. /\ branch'[r] = [branch[r] EXCEPT ![f] = p.new[f]]
        /\ \A q \in Repos \ {r} : branch'[q] = branch[q]
    BY <1>1, <2>1 DEF TypeOK
  <2>4. \A g \in Files : branch'[r][g] = IF g = f THEN p.new[f] ELSE branch[r][g]
    BY <1>1, <2>3 DEF Tree
  <2>4a. branch'[r] # None
    <3>1. [branch[r] EXCEPT ![f] = p.new[f]] \in Tree
      <4>1. apply[a].diff \in Diff
        BY <1>1, InHand DEF Review
      <4>2. p.new \in Tree
        BY <1>1, <4>1 DEF Diff
      <4> QED BY <1>1, <4>2 DEF Tree
    <3> QED BY <2>3, <3>1, CampaignAssumption
  <2>5. Previewed'
    BY <1>2, PreviewedNext DEF Rest, Previewed
  <2>6. Branched'
    <3>0. \A q \in Repos : pr[q] # "none" => branch'[q] # None
      BY <2>3, <2>4a DEF Rest, Branched
    <3> SUFFICES ASSUME NEW q \in Repos, branch'[q] # None
                 PROVE  /\ base[q] = target[q].preview.old
                        /\ \A g \in Files : branch'[q][g] \in {target[q].preview.old[g], target[q].preview.new[g]}
                        /\ pr[q] # "none" => branch'[q] = target[q].preview.new
      BY <1>2, <3>0 DEF Branched
    <3>1. CASE q # r
      BY <2>3, <3>1 DEF Rest, Branched
    <3>2. CASE q = r
      <4>1. /\ base[r] = p.old
            /\ \A g \in Files : branch[r][g] \in {p.old[g], p.new[g]}
            /\ pr[r] # "none" => branch[r] = p.new
        BY <1>1 DEF Rest, Branched
      <4>2. pr[r] # "none" => branch'[r] = branch[r]
        BY <1>1, <2>3, <4>1 DEF Tree
      <4> QED BY <2>4, <3>2, <4>1, <4>2
    <3> QED BY <3>1, <3>2
  <2>7. Handled'
    <3> SUFFICES ASSUME NEW b \in Appliers PROVE Handled!(b)'
      BY DEF Handled
    <3>1. CASE b = a
      <4>1. \A g \in Files \ (apply[a].left \ {f}) : branch'[r][g] = p.new[g]
        BY <1>1, <2>4
      <4> QED BY <1>2, <2>2, <2>4a, <3>1, <4>1
    <3>2. CASE b # a
      <4>1. apply'[b] = apply[b] /\ Handled!(b)
        BY <2>2, <3>2 DEF Rest, Handled
      <4>2. apply[b].pc = "putting" => apply[b].repo \in Repos
        BY DEF Review, AppliesReviewed
      <4>3. apply[b].pc = "putting" =>
              \A g \in Files \ apply[b].left : branch'[apply[b].repo][g] = apply[b].diff.new[g]
        <5> SUFFICES ASSUME apply[b].pc = "putting", NEW g \in Files \ apply[b].left
                     PROVE  branch'[apply[b].repo][g] = apply[b].diff.new[g]
          OBVIOUS
        <5>1. /\ apply[b].diff = target[apply[b].repo].preview
              /\ branch[apply[b].repo][g] = apply[b].diff.new[g]
          BY <4>1
        <5>2. CASE apply[b].repo = r
          BY <2>4, <5>1, <5>2
        <5>3. CASE apply[b].repo # r
          <6>1. branch'[apply[b].repo] = branch[apply[b].repo]
            BY <2>3, <4>2, <5>3
          <6> QED BY <5>1, <6>1
        <5> QED BY <5>2, <5>3
      <4>4. apply[b].pc = "putting" => branch'[apply[b].repo] # None
        BY <2>3, <2>4a, <4>1, <4>2
      <4> QED BY <1>2, <4>1, <4>3, <4>4
    <3> QED BY <3>1, <3>2
  <2> QED BY <2>5, <2>6, <2>7 DEF Rest
<1> QED BY <1>3, <1>4

\* A pull request is opened when every file is on the branch.
LEMMA OpenPRRest ==
  ASSUME TypeOK, Review, Rest, NEW a \in Appliers, OpenPR(a) PROVE Rest'
<1> DEFINE r == apply[a].repo
           p == target[r].preview
<1>1. /\ apply[a].pc = "putting" /\ apply[a].left = {} /\ r \in Repos
      /\ apply[a].diff = p /\ apply[a].diff \in Diff
      /\ branch[r] # None /\ branch[r] \in Tree
      /\ \A f \in Files : branch[r][f] = p.new[f]
  BY InHand DEF OpenPR, Review, Rest, Handled, TypeOK
<1>2. branch[r] = p.new
  <2>1. p.new \in Tree
    BY <1>1 DEF Diff
  <2> QED BY <1>1, <2>1 DEF Tree
<1>3. UNCHANGED <<head, branch, base, resolved, target>>
  BY DEF OpenPR, db
<1>4. apply'[a].pc = "looping" /\ \A b \in Appliers \ {a} : apply'[b] = apply[b]
  BY Opened, Settled DEF Review
<1>5. pr' = pr \/ pr' = [pr EXCEPT ![r] = "open"]
  BY Opened DEF Review
<1>6. \A q \in Repos : /\ q # r => pr'[q] = pr[q]
                       /\ pr'[q] = "none" => pr[q] = "none"
  BY <1>1, <1>5 DEF TypeOK
<1>7. Previewed'
  BY <1>3, <1>6, PreviewedNext DEF Rest, Previewed, Fits
<1>8. Branched'
  BY <1>1, <1>2, <1>3, <1>6 DEF Rest, Branched
<1>9. Handled'
  <2> SUFFICES ASSUME NEW b \in Appliers PROVE Handled!(b)'
    BY DEF Handled
  <2>1. CASE b = a
    BY <1>4, <2>1
  <2>2. CASE b # a
    <3>1. apply'[b] = apply[b] /\ Handled!(b)
      BY <1>4, <2>2 DEF Rest, Handled
    <3> QED BY <1>3, <3>1
  <2> QED BY <2>1, <2>2
<1> QED BY <1>7, <1>8, <1>9 DEF Rest

\* Loading, committing, announcing and dying.
LEMMA BookkeepingRest ==
  ASSUME TypeOK, Review, Rest, NEW a \in Appliers,
         \/ LoadCampaign(a) \/ LoadTargets(a)
         \/ CommitApply(a) \/ Announce(a) \/ CrashApply(a)
  PROVE  Rest'
<1>1. apply[a] \in Apply
  BY DEF TypeOK
<1>2. UNCHANGED <<head, branch, base, pr, resolved>>
  BY DEF LoadCampaign, LoadTargets, CommitApply, Commit, Announce, CrashApply, github, db
<1>3. \A r \in Repos : target'[r].preview = target[r].preview
  BY CommittedRows DEF LoadCampaign, LoadTargets, Announce, CrashApply, db
<1>4. \A b \in Appliers \ {a} : apply'[b] = apply[b]
  BY DEF LoadCampaign, LoadTargets, CommitApply, Commit, Announce, CrashApply, Becomes, TypeOK
<1>5. apply'[a].pc \in {"loaded", "looping", "announcing", "idle"}
  <2>1. CASE LoadCampaign(a)
    <3>1. apply'[a] = [IdleApply EXCEPT !.pc = "loaded", !.resolved = resolved]
      BY <2>1 DEF LoadCampaign, Becomes, TypeOK
    <3> QED BY <3>1 DEF IdleApply
  <2>2. CASE LoadTargets(a)
    <3> DEFINE todo == {r \in Repos : /\ target[r].status = "dry-run-ok"
                                      /\ target[r].preview # NoDiff}
    <3>1. apply'[a] = [apply[a] EXCEPT !.pc = "looping", !.todo = todo]
      BY <2>2 DEF LoadTargets, Becomes, TypeOK
    <3> HIDE DEF todo
    <3> QED BY <1>1, <3>1 DEF Apply
  <2>3. CASE CommitApply(a)
    <3>1. apply'[a] = [apply[a] EXCEPT !.pc = "announcing"]
      BY <2>3 DEF CommitApply, Commit, Becomes, TypeOK
    <3> QED BY <1>1, <3>1 DEF Apply
  <2>4. CASE Announce(a) \/ CrashApply(a)
    BY <2>4 DEF Announce, CrashApply, Becomes, TypeOK, IdleApply
  <2> QED BY <2>1, <2>2, <2>3, <2>4
<1> QED BY <1>2, <1>3, <1>4, <1>5, RequestRest

\* The map that a preview adds to is right about the earlier repositories, and
\* stays so.
LEMMA PreviewDrafted ==
  ASSUME TypeOK, Drafted, Still', NEW r \in Repos, PreviewRepo(r) PROVE Drafted'
<1> DEFINE map == PinRefs(head[r], Immutable)
           acc == Merged(dry.acc, map)
<1>1. /\ dry.pc = "running" /\ r \in dry.todo /\ dry.acc \in Resolved
      /\ head \in [Repos -> Tree] /\ tag \in [Refs -> Shas] /\ UNCHANGED <<head, tag>>
      /\ dry.draft \in [Repos -> Target]
  BY DEF PreviewRepo, TypeOK, Dry, github
<1>2. dry' = [pc    |-> "running", todo  |-> dry.todo \ {r}, acc |-> acc,
              draft |-> [dry.draft EXCEPT ![r] =
                [status |-> "dry-run-ok", preview |-> DiffOf(head[r], map), pr |-> FALSE]]]
  <2>1. ~Happens("failure")
    BY Counted DEF Still, Kinds
  <2> QED BY <2>1 DEF PreviewRepo
<1>3. \A x \in Refs :
        map[x] = IF (\E f \in Files : head[r][f][x] = Mutable) /\ x \notin Immutable
                 THEN tag[x] ELSE None
  BY DEF PinRefs
<1>4. \A x \in Refs : acc[x] = IF map[x] # None THEN map[x] ELSE dry.acc[x]
  BY DEF Merged
<1>5. \A x \in Refs : tag[x] # None /\ dry.acc[x] \in {None, tag[x]}
                                    /\ (x \in Immutable => dry.acc[x] = None)
  BY <1>1, CampaignAssumption DEF Drafted
<1> HIDE DEF map, acc
<1>6. \A x \in Refs : acc[x] \in {None, tag[x]} /\ (x \in Immutable => acc[x] = None)
  BY <1>3, <1>4, <1>5
<1>7. /\ dry'.acc = acc /\ dry'.todo = dry.todo \ {r}
      /\ dry'.draft[r].preview = DiffOf(head[r], map)
      /\ \A q \in Repos \ {r} : dry'.draft[q] = dry.draft[q]
  BY <1>1, <1>2
<1>8. ASSUME NEW q \in Repos, q \notin dry.todo \ {r}
      PROVE  /\ dry'.draft[q].preview = DiffOf(head[q], acc)
             /\ \A f \in Files, x \in Refs :
                  head[q][f][x] = Mutable /\ x \notin Immutable => acc[x] = tag[x]
  <2>1. CASE q = r
    <3>1. \A f \in Files, x \in Refs :
            head[r][f][x] = Mutable /\ x \notin Immutable => map[x] = tag[x] /\ acc[x] = tag[x]
      BY <1>3, <1>4, <1>5
    <3>2. \A f \in Files, x \in Refs : head[r][f][x] = Mutable => map[x] = acc[x]
      BY <1>3, <1>6, <3>1
    <3>3. DiffOf(head[r], map) = DiffOf(head[r], acc)
      BY <1>1, <3>2, MapsAgree
    <3> QED BY <1>7, <2>1, <3>1, <3>3
  <2>2. CASE q # r
    <3>1. /\ dry.draft[q].preview = DiffOf(head[q], dry.acc)
          /\ \A f \in Files, x \in Refs :
               head[q][f][x] = Mutable /\ x \notin Immutable => dry.acc[x] = tag[x]
      BY <1>1, <1>8, <2>2 DEF Drafted
    <3>2. \A f \in Files, x \in Refs :
            head[q][f][x] = Mutable /\ x \notin Immutable => acc[x] = tag[x]
      BY <1>3, <1>4, <3>1
    <3>3. \A f \in Files, x \in Refs : head[q][f][x] = Mutable => dry.acc[x] = acc[x]
      BY <1>5, <1>6, <3>1, <3>2
    <3>4. DiffOf(head[q], dry.acc) = DiffOf(head[q], acc)
      BY <1>1, <3>3, MapsAgree
    <3> QED BY <1>7, <2>2, <3>1, <3>2, <3>4
  <2> QED BY <2>1, <2>2
<1>9. ASSUME NEW q \in Repos, q \notin dry.todo \ {r}
      PROVE  dry'.draft[q].preview = DiffOf(head[q], dry.acc)'
  BY <1>1, <1>7, <1>8, <1>9 DEF DiffOf, Pinned
<1> QED BY <1>1, <1>6, <1>7, <1>8, <1>9 DEF Drafted

LEMMA NextPreviewed ==
  ASSUME TypeOK, Review, AsPreviewed, [Next]_vars PROVE AsPreviewed'
<1> SUFFICES ASSUME Still' PROVE Drafted' /\ Rest'
  BY DEF AsPreviewed, Rest
<1>1. Still /\ Drafted /\ Rest
  BY StaysStill DEF AsPreviewed, Rest
<1>2. ASSUME NEW k \in {"early", "push", "delete", "failure"}, Happens(k) PROVE FALSE
  BY <1>2, Counted DEF Still, Kinds
<1>3. ASSUME UNCHANGED <<tag, head, dry>> PROVE Drafted'
  BY <1>1, <1>3 DEF Drafted, DiffOf, Pinned
<1>4. ASSUME dry'.pc # "running" PROVE Drafted'
  BY <1>4 DEF Drafted
<1>5. ASSUME NEW x \in Refs, NEW s \in Shas, Retag(x, s) PROVE Drafted' /\ Rest'
  <2>1. dry.pc # "running" /\ UNCHANGED <<head, branch, base, pr, dry, resolved, target, apply>>
    BY <1>2, <1>5 DEF Retag, db
  <2> QED BY <1>1, <1>4, <2>1, SameRest
<1>6. ASSUME \/ \E r \in Repos, f \in Files, c \in Content : Push(r, f, c)
             \/ \E r \in Repos : DeleteBranch(r) \/ FailPreview(r)
             \/ \E a \in Appliers : CallFails(a) \/ \E r \in Repos : ReadFails(a, r)
      PROVE  Drafted' /\ Rest'
  BY <1>2, <1>6 DEF Push, DeleteBranch, FailPreview, CallFails, ReadFails
<1>7. ASSUME NEW r \in Repos, Merge(r) \/ Close(r) PROVE Drafted' /\ Rest'
  <2>1. dry.pc # "running" /\ UNCHANGED dry
    BY <1>7 DEF Merge, Close, Review, NothingBeforeReview
  <2> QED BY <1>1, <1>4, <1>7, <2>1, MergeRest, CloseRest
<1>8. ASSUME NEW r \in Repos, PreviewRepo(r) PROVE Drafted' /\ Rest'
  <2>1. UNCHANGED <<head, branch, base, pr, resolved, target, apply>>
    BY <1>8 DEF PreviewRepo, github, db
  <2> QED BY <1>1, <1>8, <2>1, PreviewDrafted, SameRest
<1>9. CASE CommitPreview
  <2>1. dry'.pc # "running"
    BY <1>9 DEF CommitPreview, TypeOK, Dry
  <2> QED BY <1>1, <1>4, <1>9, <2>1, CommitPreviewRest
<1>10. CASE CrashPreview
  <2>1. dry'.pc # "running" /\ UNCHANGED <<head, branch, base, pr, resolved, target, apply>>
    BY <1>10 DEF CrashPreview, TypeOK, Dry, github, db
  <2> QED BY <1>1, <1>4, <2>1, SameRest
<1>11. CASE UNCHANGED vars
  <2>1. UNCHANGED <<tag, head, branch, base, pr, dry, resolved, target, apply>>
    BY <1>11 DEF vars, github, db
  <2> QED BY <1>1, <1>3, <2>1, SameRest
<1>12. ASSUME NEW a \in Appliers,
              \/ LoadCampaign(a) \/ LoadTargets(a)
              \/ CommitApply(a) \/ Announce(a) \/ CrashApply(a)
       PROVE  Drafted' /\ Rest'
  <2>1. UNCHANGED <<tag, head, dry>>
    BY <1>12 DEF LoadCampaign, LoadTargets, CommitApply, Commit, Announce, CrashApply, github
  <2> QED BY <1>1, <1>3, <1>12, <2>1, BookkeepingRest
<1>13. ASSUME NEW a \in Appliers,
              \/ \E r \in Repos : ReadRepo(a, r)
              \/ CreateBranch(a) \/ OpenPR(a) \/ \E f \in Files : PutFile(a, f)
       PROVE  Drafted' /\ Rest'
  <2>1. UNCHANGED <<tag, head, dry>>
    BY <1>13 DEF ReadRepo, Edit, CreateBranch, OpenPR, PutFile, github
  <2> QED BY <1>1, <1>3, <1>13, <2>1, ReadRepoRest, CreateBranchRest, OpenPRRest, PutFileRest
<1> QED
  BY <1>5, <1>6, <1>7, <1>8, <1>9, <1>10, <1>11, <1>12, <1>13 DEF Next

\* What is proposed is the diff that was reviewed, when no tag moved during the
\* dry run, nobody pushed or deleted a branch, and no call failed: whatever tags
\* move later, whatever crashes or is merged or closed, and however many applies
\* run at once.
THEOREM QuietDiffAsReviewedThm == Spec => []QuietDiffAsReviewed
<1>1. Init => AsPreviewed
  <2> SUFFICES ASSUME Init PROVE Drafted /\ Rest
    BY DEF AsPreviewed, Rest
  <2>1. \A r \in Repos : /\ head[r] \in Tree /\ branch[r] = None /\ pr[r] = "none"
                         /\ target[r].preview = NoDiff
    BY InitType DEF Init, TypeOK
  <2>2. \A r \in Repos : DiffOf(head[r], NotResolved) = NoDiff
    BY <2>1, PinnedByNothing DEF DiffOf
  <2>3. Drafted
    BY DEF Init, Drafted, NotResolved
  <2>4. Previewed /\ Branched
    BY <2>1, <2>2 DEF Init, Previewed, Fits, Branched
  <2>5. Handled
    BY DEF Init, Handled, IdleApply
  <2> QED BY <2>3, <2>4, <2>5 DEF Rest
<1>2. IInv /\ AsPreviewed /\ [Next]_vars => AsPreviewed'
  BY NextPreviewed DEF IInv
<1>3. IInv /\ AsPreviewed => QuietDiffAsReviewed
  <2> SUFFICES ASSUME Review, Branched, NEW r \in Repos, pr[r] = "open"
               PROVE  Proposed(r) = Reviewed(r)
    BY DEF IInv, AsPreviewed, Still, QuietDiffAsReviewed, DiffAsReviewed
  <2>1. branch[r] # None /\ target[r].preview # NoDiff
    BY DEF Review, ProposedReviewed
  <2>2. base[r] = target[r].preview.old /\ branch[r] = target[r].preview.new
    BY <2>1 DEF Branched
  <2> QED BY <2>1, <2>2 DEF Proposed, Reviewed
<1> QED BY <1>1, <1>2, <1>3, Invariance, PTL DEF Spec
=============================================================================
