------------------------------- MODULE SkillTree -------------------------------
(***************************************************************************)
(* The skills of the agent: python/skills/models.py (nodes, how well one   *)
(* fits a step, the best of them) and                                      *)
(* python/services/skill_repository.py (the tree in memory, its file).     *)
(*                                                                         *)
(* A text is the set of the words in it that any rule looks for.  A tree   *)
(* is the sequence of its nodes in the order of the dictionary.  The file  *)
(* is rewritten in place by a thread; if the step that waits for it is     *)
(* cancelled, the lock is free again and the thread may still be writing.  *)
(* One step runs at a time, so the lock keeps out only what a cancelled    *)
(* step left behind, which no longer asks for it.                          *)
(***************************************************************************)
EXTENDS Integers, Sequences, FiniteSets, SequencesExt

CONSTANT Seeds    \* the nodes of skills/seed_library.json

(* A dictionary of nodes: no identifier is in it twice, and no skill has   *)
(* succeeded more often than it was used.                                  *)
Sound(tree) ==
  /\ tree \in Seq(ToSet(tree))
  /\ \A i \in DOMAIN tree :
       /\ {"id", "used", "won"} \subseteq DOMAIN tree[i]
       /\ tree[i].used \in Nat /\ tree[i].won \in Nat
       /\ tree[i].won <= tree[i].used
       /\ \A j \in DOMAIN tree : tree[i].id = tree[j].id => i = j

ASSUME SeedsAssumption == Sound(Seeds)

VARIABLES
  loaded,   \* SkillRepository._tree is not None
  memory,   \* that tree
  file,     \* what the file reads as; a broken one reads as no skill
  writes,   \* the threads that write it: [tree, own], own if a step waits
  unsure    \* two threads have written at once, one was dropped or failed, and
            \* no write has been begun by itself since (history)

skillVars == <<loaded, memory, file, writes, unsure>>

NoSkill == [id |-> "none"]

SkillsInit ==
  /\ loaded = FALSE /\ memory = <<>>
  /\ file = Seeds
  /\ writes = <<>> /\ unsure = FALSE

-----------------------------------------------------------------------------
(* Matching. *)

(* A question: text, category, tags of the context, mission.  Scores are   *)
(* in tenths.                                                              *)
MissionScore(node, q) ==
  IF q.mission = "none" THEN 0
  ELSE IF q.mission = node.id THEN 60
  ELSE IF q.mission \in node.tags THEN 40 ELSE 0

ContextScore(node, q) ==
  LET shared == Cardinality(q.tags \cap node.tags)
  IN  15 * (IF shared > 3 THEN 3 ELSE shared)

CategoryScore(node, q) ==
  IF q.cat \in node.cats THEN 30 ELSE IF q.cat \in node.tags THEN 15 ELSE -15

TextScore(node, q) ==
  LET Hits(words) == Cardinality(words \cap q.text)
  IN  25 * Hits(node.words) + 10 * Hits(node.tags) + 15 * Hits({node.title})
      + 5 * Hits({node.about}) + 2 * Hits(node.hints)

ScoreForText(node, q) ==
  LET score == MissionScore(node, q) + ContextScore(node, q)
               + CategoryScore(node, q) + TextScore(node, q)
  IN  IF score > 0 THEN score ELSE 0

(* Whether node takes the place of the best so far.                        *)
Beats(node, best, q) ==
  LET score == ScoreForText(node, q)
  IN  /\ score > 0
      /\ \/ best = NoSkill
         \/ score > ScoreForText(best, q)
         \/ score = ScoreForText(best, q) /\ node.unlocked /\ ~best.unlocked

FindBestMatch(tree, q) ==
  FoldLeft(LAMBDA best, node : IF Beats(node, best, q) THEN node ELSE best,
           NoSkill, tree)

-----------------------------------------------------------------------------
(* The repository. *)

Has(tree, id) == \E i \in DOMAIN tree : tree[i].id = id

(* _ensure_tree: the tree, read from the file if it is not there yet.      *)
Tree == IF loaded THEN memory ELSE file

ReadTree ==
  /\ loaded' = TRUE
  /\ memory' = Tree
  /\ UNCHANGED <<file, writes, unsure>>

(* _persist: a thread writes the tree as it is now.                        *)
Persist(tree) ==
  /\ loaded' = TRUE
  /\ memory' = tree
  /\ writes' = Append(writes, [tree |-> tree, own |-> TRUE])
  /\ unsure' = (writes # <<>>)
  /\ UNCHANGED file

(* ensure_node: a node that is there already is replaced, its counts with  *)
(* it, at its old place.                                                   *)
EnsureNode(tree, node) ==
  IF Has(tree, node.id)
  THEN [i \in DOMAIN tree |-> IF tree[i].id = node.id THEN node ELSE tree[i]]
  ELSE Append(tree, node)

(* Mutation: the file is written only for a new node. *)
RegisterNewOnly(node) ==
  IF Has(Tree, node.id)
  THEN loaded' = TRUE /\ memory' = EnsureNode(Tree, node) /\ UNCHANGED <<file, writes, unsure>>
  ELSE Persist(EnsureNode(Tree, node))

RegisterSkill(node) == Persist(EnsureNode(Tree, node))

Counted(node, success) ==
  [node EXCEPT !.used = @ + 1, !.won = IF success THEN @ + 1 ELSE @]

(* The skill is there: no tree loses one.                                  *)
RecordUsage(id, success) ==
  Persist([i \in DOMAIN Tree |->
             IF Tree[i].id = id THEN Counted(Tree[i], success) ELSE Tree[i]])

(* The step that waits may go on.                                          *)
Saved == \A i \in DOMAIN writes : ~writes[i].own

WriteEnds ==
  /\ \E i \in DOMAIN writes :
       /\ file' \in {writes[i].tree} \cup IF unsure THEN {<<>>} ELSE {}
       /\ writes' = RemoveAt(writes, i)
  /\ UNCHANGED <<loaded, memory, unsure>>

(* A thread fails: the file cannot be opened, or was emptied by that and   *)
(* is not filled.  The tree in memory stays as it is.                      *)
WriteFails(i) ==
  /\ file' \in {file, <<>>}
  /\ writes' = RemoveAt(writes, i)
  /\ unsure' = TRUE
  /\ UNCHANGED <<loaded, memory>>

(* The step that waits is cancelled: the thread goes on by itself, or had  *)
(* not begun and never will.                                               *)
LeaveWrite ==
  \/ /\ writes' = [i \in DOMAIN writes |-> [writes[i] EXCEPT !.own = FALSE]]
     /\ UNCHANGED <<loaded, memory, file, unsure>>
  \/ /\ \E i \in DOMAIN writes :
          /\ writes[i].own
          /\ writes' = RemoveAt(writes, i)
     /\ unsure' = TRUE
     /\ UNCHANGED <<loaded, memory, file>>

(* The process ends; a file in the middle of a write stays as it is.       *)
ForgetTree ==
  /\ loaded' = FALSE /\ memory' = <<>>
  /\ file' \in {file} \cup (IF writes = <<>> THEN {} ELSE {<<>>})
                      \cup {writes[i].tree : i \in DOMAIN writes}
  /\ writes' = <<>> /\ unsure' = FALSE

-----------------------------------------------------------------------------
(* What the file says is what the agent knows whenever nobody writes it,   *)
(* but for a write that failed, was dropped or ran beside another: the     *)
(* next one that runs alone and succeeds makes up for it, as each writes   *)
(* the whole tree (skill_repository.py: _persist).  A restart in between,  *)
(* or in the middle of a write, may find an empty tree.                    *)
SavedTree == loaded /\ writes = <<>> /\ ~unsure => file = memory

(* The trees stay dictionaries, whichever steps count and register.        *)
TreeSound == Sound(Tree)
=============================================================================
