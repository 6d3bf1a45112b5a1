--------------------------- MODULE ActionGraphProofs ---------------------------
(***************************************************************************)
(* The steps of a plan and what they share with the bot and with the       *)
(* threads of the file, for any roles, skills, steps and number of events. *)
(*                                                                         *)
(* The roles: the invariant says what the next event will bring: the last  *)
(* one on its way, and the agent if there is none, has the bot's role.     *)
(* The skills: unless threads may have written at once, there is at most   *)
(* one write, and what it writes is the tree in memory.  The step: a plan  *)
(* with a place has a target, and the active demonstration is in that tree.*)
(***************************************************************************)
EXTENDS ActionGraph, SequenceTheorems, TLAPS

-----------------------------------------------------------------------------
(* The roles. *)

(* Unless they are estranged, the newest word of the bot is its role.      *)
NewestIsRole ==
  ~estranged =>
    /\ updates = <<>> => current = botRole
    /\ updates # <<>> => updates[Len(updates)] = botRole

RolesInv == RolesTypeOK /\ NewestIsRole

(* Appending a role: the sequence stays typed and ends with it.            *)
LEMMA AppendedLast ==
  ASSUME NEW s \in Seq(Roles), NEW r \in Roles
  PROVE  /\ Append(s, r) \in Seq(Roles)
         /\ Append(s, r) # <<>>
         /\ Append(s, r)[Len(Append(s, r))] = r
  OBVIOUS

(* The tail of a sequence is typed, and ends as the sequence ended; if it  *)
(* is empty the head was the last.                                         *)
LEMMA TailLast ==
  ASSUME NEW s \in Seq(Roles), s # <<>>
  PROVE  /\ Tail(s) \in Seq(Roles)
         /\ Head(s) \in Roles
         /\ Tail(s) # <<>> => Tail(s)[Len(Tail(s))] = s[Len(s)]
         /\ Tail(s) = <<>> => Head(s) = s[Len(s)]
<1>1. Len(s) \in Nat \ {0} /\ Tail(s) \in Seq(Roles) /\ Len(Tail(s)) = Len(s) - 1
  OBVIOUS
<1>2. Head(s) = s[1] /\ s[1] \in Roles
  BY <1>1
<1>3. ASSUME Tail(s) # <<>> PROVE Tail(s)[Len(Tail(s))] = s[Len(s)]
  <2>1. Len(Tail(s)) # 0 BY <1>1, <1>3
  <2>2. \A i \in 1..Len(Tail(s)) : Tail(s)[i] = s[i + 1] OBVIOUS
  <2>3. QED BY <1>1, <2>1, <2>2
<1>4. ASSUME Tail(s) = <<>> PROVE Head(s) = s[Len(s)]
  <2>1. Len(<<>>) = 0 OBVIOUS
  <2>2. Len(Tail(s)) = 0 BY <1>4, <2>1, Zenon
  <2>3. Len(s) = 1
    <3>1. \A n \in Nat : 0 = n - 1 => n = 1 OBVIOUS
    <3>2. Len(s) \in Nat BY <1>1
    <3>3. 0 = Len(s) - 1 BY <1>1, <2>2, Zenon
    <3>4. QED BY <3>1, <3>2, <3>3, Zenon
  <2>4. s[Len(s)] = s[1] BY <2>3, Zenon
  <2>5. QED BY <1>2, <2>4, Zenon
<1>5. QED BY <1>1, <1>2, <1>3, <1>4

(* Taking one element out leaves a typed sequence.                         *)
LEMMA RemovedTyped ==
  ASSUME NEW s \in Seq(Roles), NEW i \in DOMAIN s
  PROVE  RemoveAt(s, i) \in Seq(Roles)
<1>1. i \in 1..Len(s) OBVIOUS
<1>2. SubSeq(s, 1, i - 1) \in Seq(Roles) BY <1>1
<1>3. SubSeq(s, i + 1, Len(s)) \in Seq(Roles) BY <1>1
<1>4. QED BY <1>2, <1>3 DEF RemoveAt

(* The two sides start with the same role and nothing on its way.          *)
LEMMA RolesStart == RolesInit => RolesInv
<1>1. <<>> \in Seq(Roles) OBVIOUS
<1>2. RolesInit => RolesTypeOK
  <2> SUFFICES ASSUME RolesInit PROVE RolesTypeOK
    OBVIOUS
  <2>1. updates \in Seq(Roles) BY <1>1, Zenon DEF RolesInit
  <2>2. QED BY <2>1, RolesAssumption DEF RolesInit, RolesTypeOK
<1>3. RolesInit => NewestIsRole
  BY DEF RolesInit, NewestIsRole
<1>4. QED BY <1>2, <1>3 DEF RolesInv

(* Every step keeps the invariant.                                         *)
LEMMA RolesStep == RolesInv /\ [RolesNext]_roleVars => RolesInv'
<1> SUFFICES ASSUME RolesInv, [RolesNext]_roleVars PROVE RolesInv'
  OBVIOUS
<1> USE RolesAssumption DEF RolesInv, RolesTypeOK, NewestIsRole
<1>1. ASSUME NEW threat \in BOOLEAN, NEW shortage \in BOOLEAN,
             StatusEvent(threat, shortage)
      PROVE  RolesInv'
  BY <1>1 DEF StatusEvent, Requested
<1>2. CASE UpdateArrives
  BY <1>2, TailLast DEF UpdateArrives
<1>3. CASE BotSwitches
  BY <1>3, AppendedLast DEF BotSwitches
<1>4. CASE StraySwitches
  BY <1>4, AppendedLast DEF StraySwitches
<1>5. CASE UpdateLost
  BY <1>5, RemovedTyped DEF UpdateLost
<1>6. CASE AgentRestarts
  BY <1>6 DEF AgentRestarts
<1>7. CASE BotRestarts
  BY <1>7 DEF BotRestarts
<1>8. ASSUME NEW first \in Roles, ApplyRolePolicy(first) PROVE RolesInv'
  BY <1>8 DEF ApplyRolePolicy, Wish
<1>9. CASE SwitchGranted
  BY <1>9 DEF SwitchGranted
<1>10. CASE SwitchFails
  BY <1>10 DEF SwitchFails
<1>11. CASE UNCHANGED roleVars
  BY <1>11 DEF roleVars
<1>12. QED
  BY <1>1, <1>2, <1>3, <1>4, <1>5, <1>6, <1>7, <1>8, <1>9, <1>10, <1>11
  DEF RolesNext, RolesAside

(* The variables have their types, and the newest word of the bot is its   *)
(* role: bridge_role_handler.py, bridge_events.py and the role command.    *)
THEOREM RolesAlways == RolesSpec => []RolesInv
  BY RolesStart, RolesStep, PTL DEF RolesSpec

(* Agent and bot agree on the role as soon as no roleUpdate is on its way, *)
(* unless an update was lost, a side restarted or an answer overwrote what *)
(* a later update had said, and the bot has not switched since.            *)
THEOREM RolesAgree == RolesSpec => []AgreeWhenQuiet
<1>1. RolesInv => AgreeWhenQuiet
  BY DEF RolesInv, NewestIsRole, AgreeWhenQuiet
<1>2. QED BY <1>1, RolesAlways, PTL

-----------------------------------------------------------------------------
(* Sequences. *)

LEMMA IsSeq ==
  ASSUME NEW S, NEW n \in Nat, NEW f \in [1..n -> S]
  PROVE  f \in Seq(S) /\ Len(f) = n
<1>1. f \in UNION {[1..m -> S] : m \in Nat}
  OBVIOUS
<1>2. f \in Seq(S)
  BY <1>1, SeqDef
<1> QED BY <1>2

(* A sequence is one over its own elements.                                *)
LEMMA OverItsElements ==
  ASSUME NEW S, NEW s \in Seq(S)
  PROVE  s \in Seq(ToSet(s))
<1>1. Len(s) \in Nat /\ s \in [1..Len(s) -> S] /\ DOMAIN s = 1..Len(s)
  OBVIOUS
<1>2. s \in [1..Len(s) -> ToSet(s)]
  BY <1>1 DEF ToSet
<1> QED BY <1>1, <1>2, IsSeq

LEMMA MappedSeq ==
  ASSUME NEW S, NEW s \in Seq(S), NEW t, t = [i \in DOMAIN s |-> t[i]]
  PROVE  t \in Seq(ToSet(t)) /\ Len(t) = Len(s) /\ DOMAIN t = DOMAIN s
<1>1. Len(s) \in Nat /\ DOMAIN s = 1..Len(s)
  OBVIOUS
<1>2. t \in [1..Len(s) -> ToSet(t)]
  BY <1>1 DEF ToSet
<1> QED BY <1>1, <1>2, IsSeq

LEMMA AppendSeq ==
  ASSUME NEW S, NEW s \in Seq(S), NEW e
  PROVE  /\ Append(s, e) \in Seq(ToSet(Append(s, e)))
         /\ Len(Append(s, e)) = Len(s) + 1
         /\ DOMAIN Append(s, e) = 1..(Len(s) + 1)
         /\ \A i \in 1..Len(s) : Append(s, e)[i] = s[i]
         /\ Append(s, e)[Len(s) + 1] = e
<1>1. s \in Seq(S \cup {e})
  <2>1. Len(s) \in Nat /\ s \in [1..Len(s) -> S]
    OBVIOUS
  <2>2. s \in [1..Len(s) -> S \cup {e}]
    BY <2>1
  <2> QED BY <2>1, <2>2, IsSeq
<1> DEFINE t == Append(s, e)
<1>2. /\ t \in Seq(S \cup {e}) /\ Len(t) = Len(s) + 1
      /\ \A i \in 1..Len(s) : t[i] = s[i]
      /\ t[Len(s) + 1] = e
  BY <1>1, AppendProperties
<1> HIDE DEF t
<1>3. DOMAIN t = 1..(Len(s) + 1)
  BY <1>2
<1>4. t \in Seq(ToSet(t))
  BY <1>2, OverItsElements
<1> QED BY <1>2, <1>3, <1>4 DEF t

(* Each element that is left was there before; one that was alone leaves   *)
(* nothing.                                                                *)
LEMMA RemovedFrom ==
  ASSUME NEW S, NEW s \in Seq(S), NEW k \in DOMAIN s
  PROVE  /\ RemoveAt(s, k) \in Seq(ToSet(RemoveAt(s, k)))
         /\ \A i \in DOMAIN RemoveAt(s, k) : \E j \in DOMAIN s : RemoveAt(s, k)[i] = s[j]
         /\ Len(s) = 1 => RemoveAt(s, k) = <<>>
<1>1. k \in 1..Len(s) /\ Len(s) \in Nat /\ DOMAIN s = 1..Len(s)
  OBVIOUS
<1> DEFINE a == SubSeq(s, 1, k - 1)
           b == SubSeq(s, k + 1, Len(s))
<1>2. /\ a \in Seq(S) /\ Len(a) = k - 1
      /\ \A i \in 1..(k - 1) : a[i] = s[i]
  BY <1>1
<1>3. /\ b \in Seq(S) /\ Len(b) = Len(s) - k
      /\ \A i \in 1..(Len(s) - k) : b[i] = s[k + i]
  BY <1>1
<1>4. RemoveAt(s, k) = a \o b
  BY DEF RemoveAt
<1> HIDE DEF a, b
<1> DEFINE c == a \o b
<1>5. /\ c \in Seq(S) /\ Len(c) = Len(a) + Len(b)
      /\ \A i \in 1..(Len(a) + Len(b)) : c[i] = IF i <= Len(a) THEN a[i] ELSE b[i - Len(a)]
  BY <1>2, <1>3, ConcatProperties
<1>6. RemoveAt(s, k) = c
  BY <1>4
<1> HIDE DEF c
<1>7. Len(c) = Len(s) - 1 /\ DOMAIN c = 1..(Len(s) - 1)
  BY <1>1, <1>2, <1>3, <1>5
<1>8. ASSUME NEW i \in 1..(Len(s) - 1) PROVE \E j \in DOMAIN s : c[i] = s[j]
  <2>1. CASE i <= k - 1
    <3>1. c[i] = a[i] /\ i \in 1..(k - 1)
      BY <1>1, <1>2, <1>3, <1>5, <2>1
    <3>2. i \in DOMAIN s /\ c[i] = s[i]
      BY <1>1, <1>2, <3>1
    <3> QED BY <3>2, Zenon
  <2>2. CASE i > k - 1
    <3> DEFINE m == i - (k - 1)
    <3>1. c[i] = b[m]
      BY <1>1, <1>2, <1>3, <1>5, <2>2
    <3>2. m \in 1..(Len(s) - k) /\ k + m \in DOMAIN s
      BY <1>1, <2>2
    <3> HIDE DEF m
    <3>3. b[m] = s[k + m]
      BY <1>3, <3>2
    <3>4. k + m \in DOMAIN s /\ c[i] = s[k + m]
      BY <3>1, <3>2, <3>3
    <3> QED BY <3>4, Zenon
  <2>3. i \in Int /\ k \in Int
    BY <1>1
  <2> QED BY <2>1, <2>2, <2>3
<1>9. Len(s) = 1 => c = <<>>
  BY <1>5, <1>7
<1> QED BY <1>5, <1>6, <1>7, <1>8, <1>9, OverItsElements

-----------------------------------------------------------------------------
(* The skills. *)

(* The threads write dictionaries.  Unless two may have written at once,   *)
(* one thread at most writes, and it writes the tree in memory; if none    *)
(* does, the file is that tree.                                            *)
SkillsInv ==
  /\ Sound(file) /\ Sound(memory)
  /\ writes \in Seq(ToSet(writes))
  /\ \A i \in DOMAIN writes :
       /\ writes[i] = [tree |-> writes[i].tree, own |-> writes[i].own]
       /\ Sound(writes[i].tree)
  /\ ~loaded => writes = <<>>
  /\ ~unsure => IF writes = <<>> THEN loaded => file = memory
                ELSE Len(writes) = 1 /\ writes[1].tree = memory

LEMMA EmptySound == Sound(<<>>)
BY DEF Sound, ToSet

(* A node is put in the place of the one of its name, or at the end.       *)
LEMMA EnsuredSound ==
  ASSUME NEW tree, Sound(tree), NEW n,
         {"id", "used", "won"} \subseteq DOMAIN n,
         n.used \in Nat, n.won \in Nat, n.won <= n.used
  PROVE  Sound(EnsureNode(tree, n)) /\ Has(EnsureNode(tree, n), n.id)
<1>1. CASE Has(tree, n.id)
  <2> DEFINE t == [i \in DOMAIN tree |-> IF tree[i].id = n.id THEN n ELSE tree[i]]
  <2>1. t = [i \in DOMAIN tree |-> t[i]]
    OBVIOUS
  <2>2. t = EnsureNode(tree, n)
    BY <1>1 DEF EnsureNode
  <2>3. \A i \in DOMAIN tree : t[i] = IF tree[i].id = n.id THEN n ELSE tree[i]
    OBVIOUS
  <2> HIDE DEF t
  <2>4. t \in Seq(ToSet(t)) /\ DOMAIN t = DOMAIN tree
    BY <2>1, MappedSeq DEF Sound
  <2>5. \A i \in DOMAIN tree : t[i].id = tree[i].id
    BY <2>3
  <2>6. Sound(t)
    BY <2>3, <2>4, <2>5 DEF Sound
  <2>7. Has(t, n.id)
    BY <1>1, <2>4, <2>5 DEF Has
  <2> QED BY <2>2, <2>6, <2>7
<1>2. CASE ~Has(tree, n.id)
  <2> DEFINE t == Append(tree, n)
  <2>1. /\ t \in Seq(ToSet(t)) /\ DOMAIN t = 1..(Len(tree) + 1)
        /\ \A i \in 1..Len(tree) : t[i] = tree[i]
        /\ t[Len(tree) + 1] = n
    BY AppendSeq DEF Sound
  <2>2. t = EnsureNode(tree, n)
    BY <1>2 DEF EnsureNode
  <2> HIDE DEF t
  <2>3. Len(tree) \in Nat /\ DOMAIN tree = 1..Len(tree)
    BY DEF Sound
  <2>4. \A i \in DOMAIN tree : tree[i].id # n.id
    BY <1>2 DEF Has
  <2>5. \A i \in DOMAIN t : i \in DOMAIN tree \/ i = Len(tree) + 1
    BY <2>1, <2>3
  <2>6. \A i \in DOMAIN t, j \in DOMAIN t : t[i].id = t[j].id => i = j
    BY <2>1, <2>3, <2>4, <2>5 DEF Sound
  <2>7. \A i \in DOMAIN t : /\ {"id", "used", "won"} \subseteq DOMAIN t[i]
                            /\ t[i].used \in Nat /\ t[i].won \in Nat
                            /\ t[i].won <= t[i].used
    BY <2>1, <2>3, <2>5 DEF Sound
  <2>8. Sound(t)
    BY <2>1, <2>6, <2>7 DEF Sound
  <2>9. Has(t, n.id)
    BY <2>1, <2>3 DEF Has
  <2> QED BY <2>2, <2>8, <2>9
<1> QED BY <1>1, <1>2

(* Counting a use changes no name and keeps the counts in order.           *)
CountedTree(id, success) ==
  [i \in DOMAIN Tree |-> IF Tree[i].id = id THEN Counted(Tree[i], success) ELSE Tree[i]]

LEMMA CountedSound ==
  ASSUME Sound(Tree), NEW id, NEW success \in BOOLEAN
  PROVE  /\ Sound(CountedTree(id, success))
         /\ \A other : Has(Tree, other) => Has(CountedTree(id, success), other)
<1> DEFINE t == CountedTree(id, success)
<1>1. \A i \in DOMAIN Tree :
        t[i] = IF Tree[i].id = id THEN Counted(Tree[i], success) ELSE Tree[i]
  BY DEF CountedTree
<1>2. t = [i \in DOMAIN Tree |-> t[i]]
  BY DEF CountedTree
<1> HIDE DEF t
<1>3. t \in Seq(ToSet(t)) /\ DOMAIN t = DOMAIN Tree
  BY <1>2, MappedSeq DEF Sound
<1>4. ASSUME NEW n, {"id", "used", "won"} \subseteq DOMAIN n,
             n.used \in Nat, n.won \in Nat, n.won <= n.used
      PROVE  /\ DOMAIN Counted(n, success) = DOMAIN n
             /\ Counted(n, success).id = n.id
             /\ Counted(n, success).used \in Nat /\ Counted(n, success).won \in Nat
             /\ Counted(n, success).won <= Counted(n, success).used
  <2> DEFINE u == [n EXCEPT !.used = @ + 1]
  <2>1. /\ DOMAIN u = DOMAIN n /\ u.id = n.id /\ u.used = n.used + 1 /\ u.won = n.won
    BY <1>4
  <2>2. Counted(n, success) = [u EXCEPT !.won = IF success THEN @ + 1 ELSE @]
    BY DEF Counted
  <2> HIDE DEF u
  <2>3. /\ DOMAIN Counted(n, success) = DOMAIN n
        /\ Counted(n, success).id = n.id /\ Counted(n, success).used = n.used + 1
        /\ Counted(n, success).won = IF success THEN n.won + 1 ELSE n.won
    BY <1>4, <2>1, <2>2
  <2> QED BY <1>4, <2>3
<1>5. \A i \in DOMAIN Tree : /\ t[i].id = Tree[i].id
                             /\ {"id", "used", "won"} \subseteq DOMAIN t[i]
                             /\ t[i].used \in Nat /\ t[i].won \in Nat
                             /\ t[i].won <= t[i].used
  BY <1>1, <1>4 DEF Sound
<1>6. Sound(t)
  BY <1>3, <1>5 DEF Sound
<1>7. \A other : Has(Tree, other) => Has(t, other)
  BY <1>3, <1>5 DEF Has
<1> QED BY <1>6, <1>7 DEF t

LEMMA SkillsStart == SkillsInit => SkillsInv
BY SeedsAssumption, EmptySound DEF SkillsInit, SkillsInv

LEMMA TreeIsSound == SkillsInv => Sound(Tree)
BY DEF SkillsInv, Tree

LEMMA ReadHolds == SkillsInv /\ ReadTree => SkillsInv'
BY TreeIsSound DEF SkillsInv, ReadTree, Tree

LEMMA PersistHolds ==
  ASSUME SkillsInv, NEW tree, Sound(tree), Persist(tree) PROVE SkillsInv'
<1> DEFINE w == [tree |-> tree, own |-> TRUE]
<1>1. /\ writes' = Append(writes, w) /\ loaded' = TRUE /\ memory' = tree
      /\ unsure' = (writes # <<>>) /\ file' = file
  BY DEF Persist
<1>2. Len(writes) \in Nat /\ DOMAIN writes = 1..Len(writes)
  BY DEF SkillsInv
<1>3. /\ writes' \in Seq(ToSet(writes'))
      /\ DOMAIN writes' = 1..(Len(writes) + 1) /\ Len(writes') = Len(writes) + 1
      /\ \A i \in 1..Len(writes) : writes'[i] = writes[i]
      /\ writes'[Len(writes) + 1] = w
  BY <1>1, AppendSeq DEF SkillsInv
<1>4. \A i \in DOMAIN writes' : i \in DOMAIN writes \/ i = Len(writes) + 1
  BY <1>2, <1>3
<1>5. w = [tree |-> w.tree, own |-> w.own] /\ Sound(w.tree) /\ w.tree = tree
  OBVIOUS
<1> HIDE DEF w
<1>6. \A i \in DOMAIN writes' : /\ writes'[i] = [tree |-> writes'[i].tree, own |-> writes'[i].own]
                                /\ Sound(writes'[i].tree)
  BY <1>2, <1>3, <1>4, <1>5 DEF SkillsInv
<1>7. writes = <<>> => Len(writes') = 1 /\ writes'[1].tree = memory' /\ writes' # <<>>
  <2> SUFFICES ASSUME Len(writes) = 0
               PROVE  Len(writes') = 1 /\ writes'[1].tree = memory' /\ writes' # <<>>
    OBVIOUS
  <2>1. Len(writes') = 1 /\ writes'[1] = w
    BY <1>3
  <2>2. writes' # <<>>
    <3> SUFFICES ASSUME writes' = <<>> PROVE FALSE
      OBVIOUS
    <3> QED BY <2>1
  <2> QED BY <1>1, <1>5, <2>1, <2>2
<1> QED BY <1>1, <1>3, <1>6, <1>7 DEF SkillsInv


(* A thread comes to its end; a broken file reads as no skill.             *)
LEMMA WriteEndsHolds == SkillsInv /\ WriteEnds => SkillsInv'
<1> SUFFICES ASSUME SkillsInv, NEW k \in DOMAIN writes,
                    file' \in {writes[k].tree} \cup IF unsure THEN {<<>>} ELSE {},
                    writes' = RemoveAt(writes, k),
                    UNCHANGED <<loaded, memory, unsure>>
             PROVE  SkillsInv'
  BY DEF WriteEnds
<1>1. /\ writes' \in Seq(ToSet(writes'))
      /\ \A i \in DOMAIN writes' : \E j \in DOMAIN writes : writes'[i] = writes[j]
      /\ Len(writes) = 1 => writes' = <<>>
  BY RemovedFrom DEF SkillsInv
<1>2. Sound(file')
  BY EmptySound DEF SkillsInv
<1>3. \A i \in DOMAIN writes' : /\ writes'[i] = [tree |-> writes'[i].tree, own |-> writes'[i].own]
                                /\ Sound(writes'[i].tree)
  BY <1>1 DEF SkillsInv
<1>4. Len(writes) \in Nat /\ DOMAIN writes = 1..Len(writes) /\ writes # <<>> /\ loaded
  BY DEF SkillsInv
<1>5. ~unsure => writes' = <<>> /\ file' = memory
  <2> SUFFICES ASSUME ~unsure PROVE writes' = <<>> /\ file' = memory
    OBVIOUS
  <2>1. Len(writes) = 1 /\ writes[1].tree = memory
    BY <1>4 DEF SkillsInv
  <2>2. k = 1
    BY <1>4, <2>1
  <2> QED BY <1>1, <2>1, <2>2
<1> QED BY <1>1, <1>2, <1>3, <1>4, <1>5 DEF SkillsInv

(* A thread fails: the file is as it was, or empty.                        *)
LEMMA WriteFailsHolds ==
  ASSUME SkillsInv, NEW k \in DOMAIN writes, WriteFails(k)
  PROVE  SkillsInv' /\ loaded' = loaded /\ memory' = memory
<1>1. /\ writes' = RemoveAt(writes, k) /\ unsure' = TRUE
      /\ loaded' = loaded /\ memory' = memory /\ file' \in {file, <<>>}
  BY DEF WriteFails
<1>2. /\ writes' \in Seq(ToSet(writes'))
      /\ \A i \in DOMAIN writes' : \E j \in DOMAIN writes : writes'[i] = writes[j]
  BY <1>1, RemovedFrom DEF SkillsInv
<1>3. Sound(file')
  BY <1>1, EmptySound DEF SkillsInv
<1>4. Len(writes) \in Nat /\ DOMAIN writes = 1..Len(writes)
  BY DEF SkillsInv
<1>5. loaded
  BY <1>4 DEF SkillsInv
<1> QED BY <1>1, <1>2, <1>3, <1>5 DEF SkillsInv

(* The step that waits is cancelled: no tree changes.                      *)
LEMMA LeaveHolds == SkillsInv /\ LeaveWrite => SkillsInv'
<1> SUFFICES ASSUME SkillsInv, LeaveWrite PROVE SkillsInv'
  OBVIOUS
<1>0. Len(writes) \in Nat /\ DOMAIN writes = 1..Len(writes)
  BY DEF SkillsInv
<1>1. ASSUME writes' = [i \in DOMAIN writes |-> [writes[i] EXCEPT !.own = FALSE]],
             UNCHANGED <<loaded, memory, file, unsure>>
      PROVE  SkillsInv'
  <2>1. writes' = [i \in DOMAIN writes |-> writes'[i]]
    BY <1>1
  <2>2. writes' \in Seq(ToSet(writes')) /\ Len(writes') = Len(writes) /\ DOMAIN writes' = DOMAIN writes
    BY <2>1, MappedSeq DEF SkillsInv
  <2>3. ASSUME NEW i \in DOMAIN writes
        PROVE  writes'[i] = [tree |-> writes[i].tree, own |-> FALSE]
    <3>1. writes'[i] = [writes[i] EXCEPT !.own = FALSE]
      BY <1>1
    <3>2. writes[i] = [tree |-> writes[i].tree, own |-> writes[i].own]
      BY DEF SkillsInv
    <3> QED BY <3>1, <3>2
  <2>4. writes = <<>> <=> writes' = <<>>
    BY <1>0, <2>2
  <2>5. ~loaded => writes' = <<>>
    BY <2>4 DEF SkillsInv
  <2>6. ASSUME ~unsure, writes # <<>> PROVE Len(writes') = 1 /\ writes'[1].tree = memory
    <3>1. Len(writes) = 1 /\ writes[1].tree = memory
      BY <2>6 DEF SkillsInv
    <3>2. writes'[1] = [tree |-> writes[1].tree, own |-> FALSE]
      <4>1. 1 \in DOMAIN writes
        BY <1>0, <3>1
      <4> QED BY <2>3, <4>1
    <3> QED BY <2>2, <3>1, <3>2
  <2>7. \A i \in DOMAIN writes' : /\ writes'[i] = [tree |-> writes'[i].tree, own |-> writes'[i].own]
                                  /\ Sound(writes'[i].tree)
    BY <2>2, <2>3 DEF SkillsInv
  <2> QED BY <1>1, <2>2, <2>4, <2>5, <2>6, <2>7 DEF SkillsInv
<1>2. ASSUME NEW k \in DOMAIN writes, writes' = RemoveAt(writes, k),
             unsure' = TRUE, UNCHANGED <<loaded, memory, file>>
      PROVE  SkillsInv'
  <2>1. /\ writes' \in Seq(ToSet(writes'))
        /\ \A i \in DOMAIN writes' : \E j \in DOMAIN writes : writes'[i] = writes[j]
    BY <1>2, RemovedFrom DEF SkillsInv
  <2>2. loaded
    BY <1>0 DEF SkillsInv
  <2> QED BY <1>2, <2>1, <2>2 DEF SkillsInv
<1> QED BY <1>1, <1>2 DEF LeaveWrite

LEMMA ForgetHolds == SkillsInv /\ ForgetTree => SkillsInv'
<1> SUFFICES ASSUME SkillsInv, ForgetTree PROVE SkillsInv'
  OBVIOUS
<1>1. /\ loaded' = FALSE /\ memory' = <<>> /\ writes' = <<>> /\ unsure' = FALSE
      /\ file' \in {file, <<>>} \cup {writes[i].tree : i \in DOMAIN writes}
  BY DEF ForgetTree
<1>2. Sound(file')
  BY <1>1, EmptySound DEF SkillsInv
<1>3. <<>> \in Seq(ToSet(<<>>))
  OBVIOUS
<1> QED BY <1>1, <1>2, <1>3, EmptySound DEF SkillsInv

LEMMA RegisterHolds ==
  ASSUME SkillsInv, RegisterSkill(DemoNode)
  PROVE  SkillsInv' /\ loaded' /\ Has(memory', DemoNode.id)
<1>1. /\ {"id", "used", "won"} \subseteq DOMAIN DemoNode
      /\ DemoNode.used = 0 /\ DemoNode.won = 0
  BY DEF DemoNode
<1>2. Sound(EnsureNode(Tree, DemoNode)) /\ Has(EnsureNode(Tree, DemoNode), DemoNode.id)
  BY <1>1, TreeIsSound, EnsuredSound
<1>3. Persist(EnsureNode(Tree, DemoNode))
  BY DEF RegisterSkill
<1> QED BY <1>2, <1>3, PersistHolds DEF Persist

LEMMA UsageHolds ==
  ASSUME SkillsInv, NEW id, NEW success \in BOOLEAN, RecordUsage(id, success)
  PROVE  SkillsInv' /\ loaded' /\ \A other : Has(Tree, other) => Has(memory', other)
<1>1. Persist(CountedTree(id, success))
  BY DEF RecordUsage, CountedTree
<1>2. /\ Sound(CountedTree(id, success))
      /\ \A other : Has(Tree, other) => Has(CountedTree(id, success), other)
  BY TreeIsSound, CountedSound
<1> QED BY <1>1, <1>2, PersistHolds DEF Persist


-----------------------------------------------------------------------------
(* The step. *)

(* The start of a step is a role, and the demonstration of the active      *)
(* mission is in the tree in memory.                                       *)
Registered ==
  active.demos /\ ~cutShort /\ pc \notin {"prime", "register"}
    => loaded /\ Has(memory, DemoSkill(active.id))

(* A plan that was given or has reached a place has a target, and a bot on *)
(* its way goes somewhere.                                                 *)
PlacesKept ==
  /\ places # {} => target # "none"
  /\ pc = "moving" => goal # "none"
  /\ HomeOnlyLost

GraphInv ==
  /\ RolesInv /\ start \in Roles
  /\ SkillsInv
  /\ PlacesKept
  /\ Registered

LEMMA GraphStart == Init => GraphInv
<1> SUFFICES ASSUME Init PROVE GraphInv
  OBVIOUS
<1>1. RolesInv /\ SkillsInv
  BY RolesStart, SkillsStart DEF Init
<1>2. start \in Roles
  BY RolesAssumption DEF Init
<1>3. Registered
  BY DEF Init, Registered, MineDojoInit, NoMission
<1>4. PlacesKept
  BY DEF Init, PlacesKept, HomeOnlyLost, Given
<1> QED BY <1>1, <1>2, <1>3, <1>4 DEF GraphInv

LEMMA RoleIsKept ==
  ASSUME GraphInv, \/ RolesAside \/ AgentRestarts \/ BotRestarts
                   \/ ApplyRolePolicy(start)
                   \/ SwitchGranted \/ SwitchFails \/ UNCHANGED roleVars
  PROVE  RolesInv'
BY RolesStep DEF GraphInv, RolesNext


(* A step that neither changes what is shared nor leaves the registration  *)
(* of a demonstration.                                                     *)
LEMMA AsideHolds ==
  ASSUME GraphInv, OutsideSame, start' \in Roles, PlacesKept',
         pc \in {"prime", "register"} => pc' \in {"prime", "register"}
  PROVE  GraphInv'
<1>1. /\ UNCHANGED roleVars /\ UNCHANGED skillVars /\ UNCHANGED active /\ UNCHANGED cutShort
  BY DEF OutsideSame, SkillsSame, mineDojoVars
<1>2. RolesInv'
  BY <1>1, RoleIsKept
<1>3. SkillsInv'
  BY <1>1 DEF GraphInv, SkillsInv, skillVars
<1>4. Registered'
  BY <1>1 DEF GraphInv, Registered, skillVars, Has
<1> QED BY <1>2, <1>3, <1>4 DEF GraphInv

(* The roles and the skills of a step that changes neither.                *)
LEMMA SharedSame ==
  ASSUME GraphInv
  PROVE  /\ UNCHANGED roleVars => RolesInv'
         /\ UNCHANGED skillVars => SkillsInv'
         /\ UNCHANGED <<target, places>> /\ pc' # "moving" => PlacesKept'
         /\ UNCHANGED <<target, places, pc, goal, fallback>> => PlacesKept'
         /\ NewPlan /\ pc' # "moving" => PlacesKept'
         /\ current \in Roles /\ Generalist \in Roles
<1>1. UNCHANGED roleVars => RolesInv'
  BY RoleIsKept
<1>2. UNCHANGED skillVars => SkillsInv'
  BY DEF GraphInv, SkillsInv, skillVars
<1>3. /\ UNCHANGED <<target, places>> /\ pc' # "moving" => PlacesKept'
      /\ UNCHANGED <<target, places, pc, goal, fallback>> => PlacesKept'
      /\ NewPlan /\ pc' # "moving" => PlacesKept'
  BY DEF GraphInv, PlacesKept, HomeOnlyLost, NewPlan, Given
<1>4. current \in Roles /\ Generalist \in Roles
  BY RolesAssumption DEF GraphInv, RolesInv, RolesTypeOK
<1> QED BY <1>1, <1>2, <1>3, <1>4

(* The nodes of the graph that change nothing but the step itself.         *)
LEMMA OwnNodesHold ==
  ASSUME GraphInv,
         \/ AttachContext \/ Primed \/ Initialize \/ UsageCounted \/ TriggerExploration
         \/ MoveToPlayer \/ Move \/ Equip \/ Equipped \/ Mine \/ Mined \/ Queue \/ Said
  PROVE  GraphInv'
<1>1. OutsideSame /\ UNCHANGED <<target, places>>
  BY DEF AttachContext, Primed, Initialize, UsageCounted, TriggerExploration, MoveToPlayer,
         Move, Equip, Equipped, Mine, Mined, Queue, Said, StepOnly, planVars
<1>2. start' \in {start, current}
  BY DEF AttachContext, Primed, Initialize, UsageCounted, TriggerExploration, MoveToPlayer,
         Move, Equip, Equipped, Mine, Mined, Queue, Said, Going, Ends, Barrier, Result, stepVars
<1>3. pc \in {"prime", "register"} => pc' \in {"prime", "register"}
  BY DEF AttachContext, Primed, Initialize, UsageCounted, TriggerExploration, MoveToPlayer,
         Move, Equip, Equipped, Mine, Mined, Queue, Said, Going
<1>4. start \in Roles
  BY DEF GraphInv
<1>5. PlacesKept'
  <2>1. CASE pc' = "moving"
    <3>1. Move
      BY <2>1 DEF AttachContext, Primed, Initialize, UsageCounted, TriggerExploration,
         MoveToPlayer, Equip, Equipped, Mine, Mined, Queue, Said, Going, Ends, Barrier, Result
    <3>2. goal' # "none" /\ fallback' = (task.place = "none" /\ target = "none")
      BY <2>1, <3>1 DEF Move, Barrier, Result
    <3> QED BY <1>1, <3>2 DEF GraphInv, PlacesKept, HomeOnlyLost
  <2>2. CASE pc' # "moving"
    BY <1>1, <2>2, SharedSame
  <2> QED BY <2>1, <2>2
<1> QED BY <1>1, <1>2, <1>3, <1>4, <1>5, SharedSame, AsideHolds

(* The looks into the bag and at the state.                                *)
LEMMA LooksHold ==
  ASSUME GraphInv,
         \/ ItemsSeen \/ ItemsRenewed \/ Detected \/ Begin \/ Detect \/ Dialogue
  PROVE  GraphInv'
<1>1. OutsideSame
  BY DEF ItemsSeen, ItemsRenewed, Detected, Begin, Detect, Dialogue
<1>2. start' = start
  BY DEF ItemsSeen, ItemsRenewed, Detected, Begin, Detect, Dialogue, Going, Ends, Barrier, Result
<1>3. pc \notin {"prime", "register"}
  BY DEF ItemsSeen, ItemsRenewed, Detected, Begin, Detect, Dialogue
<1>4. pc' # "moving"
  BY DEF ItemsSeen, ItemsRenewed, Detected, Begin, Detect, Dialogue, Going, Ends, Barrier, Result
<1>5. PlacesKept'
  <2>1. CASE Begin
    <3>1. PICK place \in NamedPlaces :
             /\ target' = IF place = "none" THEN target ELSE place
             /\ places' = places \cup Given(place)
      BY <2>1 DEF Begin
    <3> QED BY <1>4, <3>1 DEF GraphInv, PlacesKept, HomeOnlyLost, Given
  <2>2. CASE ~Begin
    <3>1. UNCHANGED <<target, places>>
      BY <2>2 DEF ItemsSeen, ItemsRenewed, Detected, Detect, Dialogue, planVars
    <3> QED BY <1>4, <3>1, SharedSame
  <2> QED BY <2>1, <2>2
<1> QED BY <1>1, <1>2, <1>3, <1>5, SharedSame, AsideHolds DEF GraphInv

(* A place is reached, and becomes the target; a new plan has its own.     *)
LEMMA PlacesHold ==
  ASSUME GraphInv, Followed \/ Moved \/ StepEnds \/ FollowedUp
  PROVE  GraphInv'
<1>1. OutsideSame
  BY DEF Followed, Moved, StepEnds, FollowedUp
<1>2. start' \in {start, Generalist}
  BY DEF Followed, Moved, StepEnds, FollowedUp, Rest, Result, Going
<1>3. pc \notin {"prime", "register"}
  BY DEF Followed, Moved, StepEnds, FollowedUp
<1>4. PlacesKept'
  <2>1. pc' # "moving"
    BY DEF Followed, Moved, StepEnds, FollowedUp, Rest, Result, Going
  <2>2. CASE Followed
    BY <2>1, <2>2 DEF GraphInv, PlacesKept, HomeOnlyLost, Followed
  <2>3. CASE Moved
    <3>1. PICK ok \in BOOLEAN : /\ target' = (IF ok THEN goal ELSE target)
                                /\ places' = places \cup {x \in {goal} : ok}
      BY <2>3 DEF Moved
    <3>2. pc = "moving"
      BY <2>3 DEF Moved
    <3> QED BY <2>1, <3>1, <3>2 DEF GraphInv, PlacesKept, HomeOnlyLost
  <2>4. CASE StepEnds \/ FollowedUp
    <3>1. UNCHANGED <<target, places>> \/ NewPlan
      BY <2>4 DEF StepEnds, FollowedUp
    <3> QED BY <2>1, <3>1, SharedSame
  <2> QED BY <2>2, <2>3, <2>4
<1>5. start \in Roles
  BY DEF GraphInv
<1> QED BY <1>1, <1>2, <1>3, <1>4, <1>5, SharedSame, AsideHolds

(* The missions: a demonstration that becomes active is to be registered.  *)
LEMMA MissionsHold ==
  ASSUME GraphInv,
         MissionFetched \/ DemosFetched \/ DialogueGoes \/ DialogueFetched \/ DemoSaved
  PROVE  GraphInv'
<1>1. UNCHANGED roleVars /\ UNCHANGED skillVars /\ UNCHANGED cutShort /\ UNCHANGED <<target, places>>
  BY DEF MissionFetched, DemosFetched, DialogueGoes, DialogueFetched, DemoSaved, planVars
<1>2. start' \in {start, Generalist}
  BY DEF MissionFetched, DemosFetched, DialogueGoes, DialogueFetched, DemoSaved, Going, Rest
<1>3. pc \notin {"prime", "register"}
  BY DEF MissionFetched, DemosFetched, DialogueGoes, DialogueFetched, DemoSaved
<1>4. Registered'
  <2>1. CASE active' = active
    BY <1>1, <1>3, <2>1 DEF GraphInv, Registered, skillVars, Has
  <2>2. CASE active' # active
    <3>1. DemosFetched
      BY <2>2 DEF MissionFetched, DialogueGoes, DialogueFetched, DemoSaved, FetchMission,
                  DialogueFetches, TellBot, mineDojoVars
    <3>2. active'.demos => pc' = "prime"
      BY <3>1 DEF DemosFetched, Going
    <3> QED BY <3>2 DEF Registered
  <2> QED BY <2>1, <2>2
<1>5. start \in Roles
  BY DEF GraphInv
<1>6. pc' # "moving"
  BY DEF MissionFetched, DemosFetched, DialogueGoes, DialogueFetched, DemoSaved, Going, Rest
<1> QED BY <1>1, <1>2, <1>4, <1>5, <1>6, SharedSame DEF GraphInv

(* The tree: it is read, a demonstration is registered, a use is counted.  *)
LEMMA TreesHold ==
  ASSUME GraphInv, RegisterDemo \/ SeekSkill \/ InvokeSkill \/ FileWritten
  PROVE  GraphInv'
<1>1. UNCHANGED roleVars /\ UNCHANGED <<target, places>> /\ UNCHANGED active /\ start' = start
  BY DEF RegisterDemo, SeekSkill, InvokeSkill, FileWritten, StepSame, planVars, stepVars,
         mineDojoVars, Going, Result
<1>2. RolesInv' /\ PlacesKept' /\ start' \in Roles
  <2>1. pc' # "moving" \/ UNCHANGED <<pc, goal, fallback>>
    BY DEF RegisterDemo, SeekSkill, InvokeSkill, FileWritten, StepSame, stepVars, Going, Result
  <2> QED BY <1>1, <2>1, SharedSame DEF GraphInv
<1>3. SkillsInv /\ Registered
  BY DEF GraphInv
<1>4. CASE RegisterDemo
  <2>1. DemoNode.id = DemoSkill(active.id)
    BY DEF DemoNode
  <2>2. SkillsInv' /\ loaded' /\ Has(memory', DemoSkill(active.id))
    BY <1>3, <1>4, <2>1, RegisterHolds DEF RegisterDemo
  <2> QED BY <1>1, <1>2, <2>2 DEF GraphInv, Registered
<1>5. CASE SeekSkill
  <2>1. cutShort' = cutShort /\ pc = "seek"
    BY <1>5 DEF SeekSkill
  <2>2. SkillsInv' /\ Registered'
    <3>1. CASE ReadTree
      <4>1. SkillsInv' /\ loaded' /\ memory' = Tree
        BY <1>3, <3>1, ReadHolds DEF ReadTree
      <4> QED BY <1>1, <1>3, <2>1, <4>1 DEF Registered, Tree
    <3>2. CASE ~loaded /\ UNCHANGED skillVars
      <4>1. SkillsInv'
        BY <3>2, SharedSame
      <4>2. ~(active.demos /\ ~cutShort)
        BY <1>3, <2>1, <3>2 DEF Registered
      <4> QED BY <1>1, <2>1, <4>1, <4>2 DEF Registered
    <3> QED BY <1>5, <3>1, <3>2 DEF SeekSkill
  <2> QED BY <1>2, <2>2 DEF GraphInv
<1>6. CASE InvokeSkill
  <2>1. \E success \in BOOLEAN : RecordUsage(found, success)
    BY <1>6 DEF InvokeSkill
  <2>2. SkillsInv' /\ loaded' /\ \A other : Has(Tree, other) => Has(memory', other)
    BY <1>3, <2>1, UsageHolds
  <2>3. cutShort' = cutShort /\ pc = "invoke"
    BY <1>6 DEF InvokeSkill
  <2>4. Registered'
    BY <1>1, <1>3, <2>2, <2>3 DEF Registered, Tree
  <2> QED BY <1>2, <2>2, <2>4 DEF GraphInv
<1>7. CASE FileWritten
  <2>1. SkillsInv' /\ loaded' = loaded /\ memory' = memory /\ cutShort' = cutShort /\ pc' = pc
    BY <1>3, <1>7, WriteEndsHolds DEF FileWritten, StepSame, WriteEnds
  <2>2. Registered'
    BY <1>1, <1>3, <2>1 DEF Registered
  <2> QED BY <1>2, <2>1, <2>2 DEF GraphInv
<1> QED BY <1>4, <1>5, <1>6, <1>7

(* The role: a wish is sent, and answered or given up.                     *)
LEMMA PolicyHolds ==
  ASSUME GraphInv, ApplyPolicy \/ RoleAnswered \/ RolesMove
  PROVE  GraphInv'
<1>1. /\ UNCHANGED skillVars /\ UNCHANGED active /\ UNCHANGED cutShort
      /\ UNCHANGED <<target, places>> /\ start' = start
  BY DEF ApplyPolicy, RoleAnswered, RolesMove, SkillsSame, StepSame, planVars, stepVars,
         mineDojoVars, Going
<1>2. RolesInv'
  BY RoleIsKept DEF ApplyPolicy, RoleAnswered, RolesMove
<1>3. pc' = pc \/ pc \notin {"prime", "register"}
  BY DEF ApplyPolicy, RoleAnswered, RolesMove, StepSame
<1>4. Registered'
  BY <1>1, <1>3 DEF GraphInv, Registered, skillVars, Has
<1>5. pc' # "moving" \/ UNCHANGED <<pc, goal, fallback>>
  BY DEF ApplyPolicy, RoleAnswered, RolesMove, StepSame, stepVars, Going
<1> QED BY <1>1, <1>2, <1>4, <1>5, SharedSame DEF GraphInv

(* A step is cancelled or raises, or a process ends.                       *)
LEMMA CutHolds ==
  ASSUME GraphInv, Cancel \/ RegisterFails \/ WriteBreaks \/ Restart \/ BotDown
  PROVE  GraphInv'
<1>1. SkillsInv /\ Registered /\ start \in Roles
  BY DEF GraphInv
<1>2. ASSUME StepRaises
      PROVE  PlacesKept' /\ start' \in Roles /\ cutShort' = (cutShort \/ pc \in {"prime", "register"})
  BY <1>2, SharedSame DEF StepRaises, Rest
<1>3. CASE Cancel
  <2>1. RolesInv'
    BY <1>3, RoleIsKept DEF Cancel
  <2>2. SkillsInv' /\ loaded' = loaded /\ memory' = memory
    BY <1>1, <1>3, LeaveHolds DEF Cancel, LeaveWrite
  <2>3. StepRaises /\ active' = active
    BY <1>3 DEF Cancel, mineDojoVars
  <2>4. Registered'
    BY <1>1, <1>2, <2>2, <2>3 DEF Registered
  <2> QED BY <1>2, <2>1, <2>2, <2>3, <2>4 DEF GraphInv
<1>4. CASE RegisterFails
  <2>1. UNCHANGED roleVars /\ UNCHANGED skillVars /\ active' = active /\ StepRaises
    BY <1>4 DEF RegisterFails, mineDojoVars
  <2>2. RolesInv' /\ SkillsInv'
    BY <2>1, SharedSame
  <2>3. Registered'
    BY <1>1, <1>2, <2>1 DEF Registered, skillVars
  <2> QED BY <1>2, <2>1, <2>2, <2>3 DEF GraphInv
<1>5. CASE WriteBreaks
  <2>1. PICK k \in DOMAIN writes :
           /\ WriteFails(k)
           /\ StepRaises \/ UNCHANGED <<pc, stepVars, planVars, cutShort>>
    BY <1>5 DEF WriteBreaks
  <2>2. UNCHANGED roleVars /\ active' = active
    BY <1>5 DEF WriteBreaks, mineDojoVars
  <2>3. SkillsInv' /\ loaded' = loaded /\ memory' = memory
    BY <1>1, <2>1, WriteFailsHolds
  <2>4. PlacesKept' /\ start' \in Roles
    <3>1. CASE StepRaises
      BY <1>2, <3>1
    <3>2. CASE UNCHANGED <<pc, stepVars, planVars, cutShort>>
      <4>1. UNCHANGED <<target, places, pc, goal, fallback>> /\ start' = start
        BY <3>2 DEF stepVars, planVars
      <4> QED BY <1>1, <4>1, SharedSame
    <3> QED BY <2>1, <3>1, <3>2
  <2>5. Registered'
    <3>1. CASE StepRaises
      BY <1>1, <1>2, <2>2, <2>3, <3>1 DEF Registered
    <3>2. CASE UNCHANGED <<pc, stepVars, planVars, cutShort>>
      BY <1>1, <2>2, <2>3, <3>2 DEF Registered
    <3> QED BY <2>1, <3>1, <3>2
  <2> QED BY <2>2, <2>3, <2>4, <2>5, SharedSame DEF GraphInv
<1>6. CASE Restart
  <2>1. RolesInv'
    BY <1>6, RoleIsKept DEF Restart
  <2>2. SkillsInv'
    BY <1>1, <1>6, ForgetHolds DEF Restart
  <2>3. PlacesKept' /\ start' \in Roles
    BY <1>6, SharedSame DEF Restart, Rest
  <2>4. Registered'
    BY <1>6 DEF Restart, ForgetMissions, NoMission, Registered
  <2> QED BY <2>1, <2>2, <2>3, <2>4 DEF GraphInv
<1>7. CASE BotDown
  <2>1. RolesInv'
    BY <1>7, RoleIsKept DEF BotDown
  <2>2. /\ UNCHANGED skillVars /\ UNCHANGED active /\ UNCHANGED cutShort
        /\ UNCHANGED <<target, places, pc, goal, fallback>> /\ start' = start
    BY <1>7 DEF BotDown, planVars, stepVars
  <2>3. Registered'
    BY <1>1, <2>2 DEF Registered, skillVars, Has
  <2> QED BY <1>1, <2>1, <2>2, <2>3, SharedSame DEF GraphInv
<1> QED BY <1>3, <1>4, <1>5, <1>6, <1>7

LEMMA GraphStep == GraphInv /\ [Next]_vars => GraphInv'
<1> SUFFICES ASSUME GraphInv, [Next]_vars PROVE GraphInv'
  OBVIOUS
<1>1. CASE UNCHANGED vars
  <2>1. /\ OutsideSame /\ start' = start /\ pc' = pc
        /\ UNCHANGED <<target, places, pc, goal, fallback>>
    BY <1>1 DEF vars, OutsideSame, SkillsSame, planVars, stepVars
  <2> QED BY <2>1, SharedSame, AsideHolds DEF GraphInv
<1>2. CASE Work
  BY <1>2, OwnNodesHold, LooksHold, PlacesHold, MissionsHold, TreesHold, PolicyHolds, CutHolds
  DEF Work
<1> QED BY <1>1, <1>2, LooksHold, TreesHold, PolicyHolds, CutHolds DEF Next

(* Whatever a step is at when events of the bot arrive, threads end, the   *)
(* worker gives up or a process restarts: the roles, the tree, the target  *)
(* and the active demonstration fit together.                              *)
THEOREM Invariance == Spec => []GraphInv
BY GraphStart, GraphStep, PTL DEF Spec

(* The same while steps wish for roles and are cancelled: no command that  *)
(* failed, was lost or comes late parts the two, but an answer that        *)
(* overwrites a later update does, as a loss and a restart do, until the   *)
(* bot switches again (bridge_role_handler.py: apply_role_switch).         *)
THEOREM RolesAgreeInSteps == Spec => []AgreeWhenQuiet
<1>1. GraphInv => AgreeWhenQuiet
  BY DEF GraphInv, RolesInv, NewestIsRole, AgreeWhenQuiet
<1> QED BY <1>1, Invariance, PTL

(* The skill file is what the agent knows whenever nobody writes it and    *)
(* the last write ran alone, to its end and without an error, however many *)
(* failed or were cancelled before (skill_repository.py: _persist).        *)
THEOREM FileIsSaved == Spec => []SavedTree
<1>1. GraphInv => SavedTree
  BY DEF GraphInv, SkillsInv, SavedTree
<1> QED BY <1>1, Invariance, PTL

(* No skill is in the tree twice and none succeeded more often than it was *)
(* used, however often steps register and count (SkillTree.ensure_node,    *)
(* SkillNode.register_usage).                                              *)
THEOREM TreeAlwaysSound == Spec => []TreeSound
<1>1. GraphInv => TreeSound
  BY TreeIsSound DEF GraphInv, TreeSound
<1> QED BY <1>1, Invariance, PTL

(* The bot is sent home only in a plan without a place: whatever steps lie *)
(* between, the place it was given or has reached is what a move without   *)
(* one goes to (move_handler.py, directive_executor.py).                   *)
THEOREM HomeAlwaysLost == Spec => []HomeOnlyLost
<1>1. GraphInv => HomeOnlyLost
  BY DEF GraphInv, PlacesKept
<1> QED BY <1>1, Invariance, PTL

(* The demonstration of the active mission is in the tree, unless the step *)
(* that fetched it was cancelled or could not read the tree                *)
(* (minedojo_handler.py: attach_context).                                  *)
THEOREM ActiveAlwaysRegistered == Spec => []ActiveRegistered
<1>1. GraphInv => ActiveRegistered
  BY DEF GraphInv, Registered, ActiveRegistered, Tree
<1> QED BY <1>1, Invariance, PTL
=============================================================================
