-------------------------- MODULE CohortFilesProofs --------------------------
(***************************************************************************)
(* For any planners, launchers, sessions and number of power losses: what  *)
(* has a name is never replaced, except a session's state; what is seen of *)
(* a cohort is whole, and so is what a power loss leaves of it.            *)
(***************************************************************************)
EXTENDS CohortFilesProps, SequenceTheorems, FiniteSetTheorems,
        WellFoundedInduction, TLAPS

(* What is in a cohort is there only with the cohort.                      *)
Sheltered == Exists(Plan) \/ Exists(Briefing) => Exists(Cohort)

(* A power loss can only bring back what is there already: the device has  *)
(* no other version of anything but a session's state.                     *)
KeptAgrees ==
  \A p \in DOMAIN kept :
    p \in DOMAIN seen /\ (Last(p) # "state" => kept[p] = seen[p])

IInv ==
  /\ losses \in Nat
  /\ Sheltered
  /\ KeptAgrees

(* A step that takes nothing away and changes nothing but states.          *)
Grows ==
  \A p \in DOMAIN seen :
    p \in DOMAIN seen' /\ (Last(p) # "state" => seen'[p] = seen[p])

-----------------------------------------------------------------------------
(* Where the documents of a cohort are, and how they are reached.          *)
LEMMA Places ==
  /\ Len(Plan) = 2 /\ Front(Plan) = Cohort /\ SubSeq(Plan, 1, 1) = Cohort
  /\ Len(Briefing) = 2 /\ Front(Briefing) = Cohort
  /\ SubSeq(Briefing, 1, 1) = Cohort
  /\ Len(Cohort) = 1 /\ SubSeq(Cohort, 1, 1) = Cohort
  /\ Last(Plan) # "state" /\ Last(Briefing) # "state"
<1>1. Len(Plan) = 2 /\ Len(Briefing) = 2 /\ Len(Cohort) = 1
  BY DEF Plan, Briefing, Cohort
<1>2. ASSUME NEW path \in {Plan, Briefing, Cohort}
      PROVE  SubSeq(path, 1, 1) = Cohort
  <2> DEFINE Names == {"cohort", "plan", "briefing"}
  <2>1. path \in Seq(Names)
    <3>1. Plan \in Seq(Names)
      BY DEF Plan
    <3>2. Briefing \in Seq(Names)
      BY DEF Briefing
    <3>3. Cohort \in Seq(Names)
      BY DEF Cohort
    <3> QED
      BY <3>1, <3>2, <3>3
  <2>2. path[1] = "cohort" /\ 1 \in 1..Len(path)
    BY <1>1 DEF Plan, Briefing, Cohort
  <2>3. SubSeq(path, 1, 1) = <<path[1]>> \o SubSeq(path, 2, 1)
    BY <2>1, <2>2, SubSeqRecursiveFirst
  <2>4. SubSeq(path, 2, 1) = <<>>
    BY SubSeqEmpty
  <2>5. Cohort \o <<>> = Cohort
    <3>1. Cohort \in Seq(Names)
      BY DEF Cohort
    <3> QED
      BY <3>1, ConcatEmptySeq
  <2> QED
    BY <2>2, <2>3, <2>4, <2>5 DEF Cohort
<1>3. Last(Plan) # "state" /\ Last(Briefing) # "state"
  BY DEF Plan, Briefing, Last
<1> QED
  BY <1>1, <1>2, <1>3 DEF Front

(* A session's state is none of them.                                      *)
LEMMA StatePlace ==
  ASSUME NEW s
  PROVE  Last(State(s)) = "state" /\ State(s) # Plan /\ State(s) # Briefing
<1> DEFINE Names == {"cohort", "runtime", "sessions", "state", s}
<1>1. Runtime \in Seq(Names)
  BY DEF Runtime
<1>2. SessionsRoot \in Seq(Names)
  BY <1>1, AppendProperties DEF SessionsRoot
<1>3. Root(s) \in Seq(Names)
  BY <1>2, AppendProperties DEF Root
<1>4. Last(State(s)) = "state"
  BY <1>3, AppendProperties DEF State, Last
<1> QED
  BY <1>4, Places

(* A name that appears where there was none disturbs nothing.              *)
LEMMA LinkGrows ==
  ASSUME Sheltered, NEW path, NEW content, Link(path, content)
  PROVE  Grows /\ Sheltered'
<1>1. Grows
  BY DEF Grows, Link, Exists
<1>2. Sheltered'
  BY Places DEF Sheltered, Link, Exists
<1> QED
  BY <1>1, <1>2

(* Replacing a session's state neither.                                    *)
LEMMA ReplaceGrows ==
  ASSUME Sheltered, NEW s, NEW content, Replace(State(s), content)
  PROVE  Grows /\ Sheltered'
BY StatePlace DEF Grows, Replace, Sheltered, Exists

(* What was synced stays the only version, and syncing adds what is there. *)
LEMMA KeepHolds ==
  ASSUME KeptAgrees, Grows, UNCHANGED kept
  PROVE  KeptAgrees'
BY DEF KeptAgrees, Grows

(* A synced directory keeps of its names what is seen of them.             *)
LEMMA SyncHolds ==
  ASSUME KeptAgrees, Grows, NEW dir, SyncDirectory(dir)
  PROVE  KeptAgrees'
<1> SUFFICES ASSUME NEW p \in DOMAIN kept'
             PROVE  p \in DOMAIN seen' /\ (Last(p) # "state" => kept'[p] = seen'[p])
  BY DEF KeptAgrees
<1>1. CASE p \in Children(dir)
  BY <1>1 DEF SyncDirectory, Children, Grows
<1>2. CASE p \notin Children(dir)
  BY <1>2 DEF SyncDirectory, KeptAgrees, Grows
<1> QED
  BY <1>1, <1>2

(* What it keeps of an entry replaced in the same step is the new version.  *)
LEMMA SyncAfterHolds ==
  ASSUME KeptAgrees, Grows, NEW dir, SyncDirectoryAfter(dir)
  PROVE  KeptAgrees'
<1> SUFFICES ASSUME NEW p \in DOMAIN kept'
             PROVE  p \in DOMAIN seen' /\ (Last(p) # "state" => kept'[p] = seen'[p])
  BY DEF KeptAgrees
<1>1. CASE p \in Children(dir)
  BY <1>1 DEF SyncDirectoryAfter, Children, Grows
<1>2. CASE p \notin Children(dir)
  BY <1>2 DEF SyncDirectoryAfter, KeptAgrees, Grows
<1> QED
  BY <1>1, <1>2

(* Nothing at all happens to the tree.                                     *)
LEMMA StillGrows ==
  ASSUME Sheltered, UNCHANGED seen
  PROVE  Grows /\ Sheltered'
BY DEF Grows, Sheltered, Exists
(* A step of anything but the power keeps the tree growing.                *)
Kept == Grows /\ Sheltered' /\ KeptAgrees'

(* save_plan: the rename brings a bundle where nothing was.                *)
LEMMA PlannerGrows ==
  ASSUME IInv, NEW a \in Planners, PlannerStep(a) PROVE Kept
<1>1. CASE Stage(a) \/ SaveFails(a)
  BY <1>1, StillGrows, KeepHolds DEF Stage, SaveFails, treeVars, Kept, IInv
<1>2. CASE Saved(a)
  BY <1>2, StillGrows, SyncHolds DEF Saved, Kept, IInv
<1>3. CASE Rename(a) /\ Exists(Cohort)
  BY <1>3, StillGrows, KeepHolds DEF Rename, treeVars, Kept, IInv
<1>4. CASE Rename(a) /\ ~Exists(Cohort)
  <2>1. /\ seen' = Overlay(seen, Bundle(a))
        /\ kept' = Overlay(kept, SyncedPart(a))
    BY <1>4 DEF Rename
  <2>2. \A p \in DOMAIN Bundle(a) : p \notin DOMAIN seen
    BY <1>4 DEF Bundle, IInv, Sheltered, Exists
  <2>3. Grows
    BY <2>1, <2>2 DEF Grows, Overlay
  <2>4. Sheltered'
    BY <2>1 DEF Sheltered, Exists, Overlay, Bundle
  <2>5. KeptAgrees'
    <3> SUFFICES ASSUME NEW p \in DOMAIN kept'
                 PROVE  /\ p \in DOMAIN seen'
                        /\ Last(p) # "state" => kept'[p] = seen'[p]
      BY DEF KeptAgrees
    <3>1. CASE p \in DOMAIN SyncedPart(a)
      BY <2>1, <3>1 DEF Overlay, SyncedPart, Bundle
    <3>2. CASE p \notin DOMAIN SyncedPart(a)
      <4>1. p \in DOMAIN kept /\ kept'[p] = kept[p]
        BY <2>1, <3>2 DEF Overlay
      <4> QED
        BY <4>1, <2>3 DEF IInv, KeptAgrees, Grows
    <3> QED
      BY <3>1, <3>2
  <2> QED
    BY <2>3, <2>4, <2>5 DEF Kept
<1> QED
  BY <1>1, <1>2, <1>3, <1>4 DEF PlannerStep

(* The claim and the layout of create_launch: every entry is linked.       *)
LEMMA LayingGrows ==
  ASSUME IInv, NEW l \in Launchers,
         Authenticate(l) \/ Claim(l) \/ LayNext(l) \/ LaidNext(l) \/ LayFails(l)
  PROVE  Kept
<1>1. CASE Authenticate(l) \/ LayFails(l)
  BY <1>1, StillGrows, KeepHolds DEF Authenticate, LayFails, treeVars, Kept, IInv
<1>2. CASE Claim(l)
  BY <1>2, StillGrows, KeepHolds, SyncHolds DEF Claim, Kept, IInv
<1>3. CASE LayNext(l)
  <2> DEFINE path == Layout[at[l] + 1]
  <2>1. CASE UNCHANGED treeVars
    BY <2>1, StillGrows, KeepHolds DEF treeVars, Kept, IInv
  <2>2. CASE Link(path, Content(l, path)) /\ UNCHANGED kept
    BY <2>2, LinkGrows, KeepHolds DEF Kept, IInv
  <2>3. CASE Link(path, Content(l, path)) /\ SyncDirectory(SessionsRoot)
    BY <2>3, LinkGrows, SyncHolds DEF Kept, IInv
  <2> QED
    BY <1>3, <2>1, <2>2, <2>3 DEF LayNext
<1>4. CASE LaidNext(l)
  BY <1>4, StillGrows, SyncHolds DEF LaidNext, Kept, IInv
<1> QED
  BY <1>1, <1>2, <1>3, <1>4

(* The sessions' states, inputs and receipts.                              *)
LEMMA ServingGrows ==
  ASSUME IInv, NEW l \in Launchers, NEW s \in Sessions, NEW v,
         \/ Write(l, s) \/ WriteFails(l, s) \/ EndSession(l, s, v)
         \/ SettleMissing(l, s) \/ ReceiptSynced(l, s) \/ ReceiptFails(l, s)
  PROVE  Kept
<1>1. CASE Write(l, s)
  <2>1. UNCHANGED kept
    BY <1>1 DEF Write
  <2>2. CASE Link(Input(s), [by |-> l])
    BY <2>1, <2>2, LinkGrows, KeepHolds DEF Kept, IInv
  <2>3. CASE \E step : Replace(State(s), StateOf(l, Progress[step]))
    BY <2>1, <2>3, ReplaceGrows, KeepHolds DEF Kept, IInv
  <2> QED
    BY <1>1, <2>2, <2>3 DEF Write
<1>2. CASE WriteFails(l, s) \/ ReceiptFails(l, s)
  BY <1>2, StillGrows, KeepHolds DEF WriteFails, ReceiptFails, treeVars, Kept, IInv
<1>3. ASSUME NEW status, PutReceipt(l, s, status), UNCHANGED kept
      PROVE  Kept
  <2>1. CASE UNCHANGED seen
    BY <1>3, <2>1, StillGrows, KeepHolds DEF Kept, IInv
  <2>2. CASE Link(Receipt(s), ReceiptOf(l, status))
    BY <1>3, <2>2, LinkGrows, KeepHolds DEF Kept, IInv
  <2> QED
    BY <1>3, <2>1, <2>2 DEF PutReceipt
<1>4. CASE EndSession(l, s, v)
  BY <1>3, <1>4 DEF EndSession
<1>5. CASE SettleMissing(l, s)
  BY <1>3, <1>5 DEF SettleMissing
<1>6. CASE ReceiptSynced(l, s)
  <2>1. SyncDirectory(Root(s)) \/ SyncDirectoryAfter(Root(s))
    BY <1>6 DEF ReceiptSynced
  <2>2. Grows /\ Sheltered'
    <3>1. CASE UNCHANGED seen
      BY <3>1, StillGrows DEF IInv
    <3>2. CASE \E status : Replace(State(s), StateOf(l, status))
      BY <3>2, ReplaceGrows DEF IInv
    <3> QED
      BY <1>6, <3>1, <3>2 DEF ReceiptSynced
  <2> QED
    BY <2>1, <2>2, SyncHolds, SyncAfterHolds DEF Kept, IInv
<1> QED
  BY <1>1, <1>2, <1>4, <1>5, <1>6

(* The settlement, and whatever ends a launch.                             *)
LEMMA SettlingGrows ==
  ASSUME IInv, NEW l \in Launchers,
         \/ Written(l) \/ BeginSettling(l)
         \/ Settle(l) \/ Reported(l) \/ SettleFails(l) \/ Dies(l)
  PROVE  Kept
<1>1. CASE Written(l) \/ Reported(l)
  <2>1. UNCHANGED seen /\ \E dir : SyncDirectory(dir)
    BY <1>1 DEF Written, Reported
  <2> QED
    BY <2>1, StillGrows, SyncHolds DEF Kept, IInv
<1>2. CASE BeginSettling(l) \/ SettleFails(l) \/ Dies(l)
  BY <1>2, StillGrows, KeepHolds
     DEF BeginSettling, SettleFails, Dies, treeVars, Kept, IInv
<1>3. CASE Settle(l)
  <2>1. UNCHANGED kept
    BY <1>3 DEF Settle
  <2>2. CASE UNCHANGED seen
    BY <2>1, <2>2, StillGrows, KeepHolds DEF Kept, IInv
  <2>3. CASE Link(Settlement, SettlementOf(l))
    BY <2>1, <2>3, LinkGrows, KeepHolds DEF Kept, IInv
  <2> QED
    BY <1>3, <2>2, <2>3 DEF Settle
<1> QED
  BY <1>1, <1>2, <1>3

(* A power loss: what is left of a cohort has its directory, in the only   *)
(* version there was.                                                      *)
LEMMA PowerLossSafe ==
  ASSUME IInv, PowerFails
  PROVE  /\ Sheltered' /\ KeptAgrees'
         /\ \A p \in DOMAIN seen : p \in DOMAIN seen' /\ Last(p) # "state" =>
              seen'[p] = seen[p]
<1>1. PICK lucky \in SUBSET {p \in DOMAIN seen :
                              p \in DOMAIN kept => kept[p] # seen[p]} :
        /\ seen' = [p \in Reachable(lucky \cup DOMAIN kept) |->
                      IF p \in lucky THEN seen[p] ELSE kept[p]]
        /\ kept' = seen'
  BY DEF PowerFails
<1>2. KeptAgrees'
  BY <1>1 DEF KeptAgrees
<1>3. ASSUME NEW path \in {Plan, Briefing},
             path \in Reachable(lucky \cup DOMAIN kept)
      PROVE  Cohort \in Reachable(lucky \cup DOMAIN kept)
  <2>1. SubSeq(path, 1, 1) = Cohort /\ 1 \in 1..Len(path)
    BY Places
  <2>2. Cohort \in lucky \cup DOMAIN kept
    BY <1>3, <2>1 DEF Reachable
  <2>3. \A n \in 1..Len(Cohort) : SubSeq(Cohort, 1, n) = Cohort
    BY Places
  <2> QED
    BY <2>2, <2>3 DEF Reachable
<1>4. Sheltered'
  BY <1>1, <1>3 DEF Sheltered, Exists
<1>5. ASSUME NEW p \in DOMAIN seen, p \in DOMAIN seen', Last(p) # "state"
      PROVE  seen'[p] = seen[p]
  <2>1. CASE p \in lucky
    BY <1>1, <1>5, <2>1
  <2>2. CASE p \notin lucky
    <3>1. p \in DOMAIN kept /\ seen'[p] = kept[p]
      BY <1>1, <1>5, <2>2 DEF Reachable
    <3> QED
      BY <1>5, <3>1 DEF IInv, KeptAgrees
  <2> QED
    BY <2>1, <2>2
<1> QED
  BY <1>2, <1>4, <1>5

-----------------------------------------------------------------------------
(* What one step may do to a name.                                         *)
Unrewritten ==
  \A p \in DOMAIN seen :
    /\ losses' = losses => p \in DOMAIN seen'
    /\ p \in DOMAIN seen' /\ Last(p) # "state" => seen'[p] = seen[p]

(* The invariant holds at first: there is nothing yet.                     *)
LEMMA InitInv == Init => IInv
BY DEF Init, IInv, Sheltered, KeptAgrees, Exists

(* Every step keeps it and rewrites nothing.                               *)
LEMMA StepInv ==
  ASSUME IInv, [Next]_vars PROVE IInv' /\ Unrewritten
<1>1. ASSUME Kept, UNCHANGED losses PROVE IInv' /\ Unrewritten
  BY <1>1 DEF Kept, IInv, Unrewritten, Grows
<1>2. CASE \E a \in Planners : PlannerStep(a) /\ UNCHANGED <<runVars, readVars>>
  BY <1>1, <1>2, PlannerGrows DEF readVars
<1>3. ASSUME NEW l \in Launchers, LauncherStep(l), UNCHANGED readVars
      PROVE  IInv' /\ Unrewritten
  <2>1. Kept
    BY <1>3, LayingGrows, ServingGrows, SettlingGrows DEF LauncherStep
  <2> QED
    BY <1>1, <1>3, <2>1 DEF readVars
<1>4. CASE ReaderStep \/ UNCHANGED vars
  <2>1. UNCHANGED <<seen, kept, losses>>
    BY <1>4 DEF ReaderStep, ReadLaunch, LookAtState, ReadState, ReadReceipt,
                ReadSettlement, vars, treeVars, readVars
  <2> QED
    BY <1>1, <2>1, StillGrows, KeepHolds DEF Kept, IInv
<1>5. CASE PowerLoss
  <2>1. losses' = losses + 1 /\ losses' # losses /\ losses' \in Nat
    BY <1>5 DEF PowerLoss, IInv
  <2> QED
    BY <1>5, <2>1, PowerLossSafe DEF PowerLoss, IInv, Unrewritten
<1> QED
  BY <1>2, <1>3, <1>4, <1>5 DEF Next

(* No cohort's files outgrow the invariant.                                *)
THEOREM Inductive == Spec => []IInv
<1>1. Init => IInv
  BY InitInv
<1>2. IInv /\ [Next]_vars => IInv'
  BY StepInv
<1> QED
  BY <1>1, <1>2, PTL DEF Spec

(* save_plan, create_launch, write_input_file, write_receipt and the       *)
(* settlement never replace what another planner or launcher, or they      *)
(* themselves, have published; a power loss brings no older version back.  *)
THEOREM PublishedOnce == Spec => WriteOnce
<1>1. IInv /\ [Next]_vars => [Unrewritten]_vars
  BY StepInv
<1>2. [][Unrewritten]_vars => WriteOnce
  BY PTL DEF WriteOnce, Unrewritten
<1> QED
  BY <1>1, <1>2, Inductive, PTL DEF Spec

-----------------------------------------------------------------------------
(* The least of some numbers.                                              *)
LEMMA LeastOf ==
  ASSUME NEW T \in SUBSET Nat, T # {}
  PROVE  \E n \in T : \A m \in T : ~(m < n)
<1>1. PICK n \in T : \A m \in T : ~(<<m, n>> \in OpToRel(<, Nat))
  BY NatLessThanWellFounded, WFMin
<1>2. \A m \in T : m < n => <<m, n>> \in OpToRel(<, Nat)
  BY DEF OpToRel
<1> QED BY <1>1, <1>2

(* The concatenation of the first sequences, one more at a time.           *)
Flattens(seqs, f, n) ==
  f = [i \in 1..n |-> IF i = 1 THEN seqs[i] ELSE f[i-1] \o seqs[i]]

LEMMA FlattenExists ==
  ASSUME NEW S, NEW seqs \in Seq(Seq(S)), Len(seqs) # 0
  PROVE  \E f : Flattens(seqs, f, Len(seqs))
<1> DEFINE T == {n \in 1..Len(seqs) : ~ \E f : Flattens(seqs, f, n)}
<1>1. ASSUME T # {} PROVE FALSE
  <2>1. T \subseteq Nat OBVIOUS
  <2>2. PICK n \in T : \A m \in T : ~(m < n) BY <1>1, <2>1, LeastOf
  <2>3. n \in 1..Len(seqs) /\ n \in Nat BY <2>1, <2>2
  <2>4. CASE n = 1
    <3>1. Flattens(seqs, [i \in 1..1 |-> seqs[i]], 1) BY DEF Flattens
    <3> QED BY <2>2, <2>4, <3>1
  <2>5. CASE n # 1
    <3>1. n - 1 \in 1..Len(seqs) /\ n - 1 < n BY <2>3, <2>5
    <3>2. n - 1 \notin T BY <2>2, <3>1
    <3>3. PICK f : Flattens(seqs, f, n - 1) BY <3>1, <3>2
    <3> DEFINE g == [i \in 1..n |-> IF i = n THEN f[n-1] \o seqs[n] ELSE f[i]]
    <3>4. f = [i \in 1..n-1 |-> IF i = 1 THEN seqs[i] ELSE f[i-1] \o seqs[i]]
      BY <3>3 DEF Flattens
    <3>5. \A i \in 1..n : g[i] = IF i = 1 THEN seqs[i] ELSE g[i-1] \o seqs[i]
      <4> SUFFICES ASSUME NEW i \in 1..n
                   PROVE g[i] = IF i = 1 THEN seqs[i] ELSE g[i-1] \o seqs[i]
        OBVIOUS
      <4>1. CASE i = n
        <5>1. n - 1 \in 1..n /\ n - 1 # n /\ n \in 1..n BY <2>3, <2>5
        <5>3. g[n-1] = f[n-1] BY <5>1, Zenon
        <5>4. g[n] = f[n-1] \o seqs[n] BY <5>1, Zenon
        <5>2. g[n-1] = f[n-1] /\ g[n] = f[n-1] \o seqs[n] BY <5>3, <5>4
        <5> QED BY <2>5, <4>1, <5>2
      <4>2. CASE i # n
        <5>1. i \in 1..n-1 /\ g[i] = f[i] BY <2>3, <4>2
        <5>2. f[i] = IF i = 1 THEN seqs[i] ELSE f[i-1] \o seqs[i] BY <3>4, <5>1
        <5>3. i # 1 => i - 1 \in 1..n /\ i - 1 # n /\ g[i-1] = f[i-1] BY <5>1, <2>3
        <5> QED BY <5>1, <5>2, <5>3
      <4> QED BY <4>1, <4>2
    <3>6. g = [i \in 1..n |-> g[i]] OBVIOUS
    <3> HIDE DEF g
    <3>7. g = [i \in 1..n |-> IF i = 1 THEN seqs[i] ELSE g[i-1] \o seqs[i]]
      BY <3>5, <3>6
    <3>8. Flattens(seqs, g, n) BY <3>7 DEF Flattens
    <3> QED BY <2>2, <3>8
  <2> QED BY <2>4, <2>5
<1>2. Len(seqs) \in 1..Len(seqs) BY LenProperties
<1>3. Len(seqs) \notin T BY <1>1
<1> QED BY <1>2, <1>3

LEMMA FlattenOf ==
  ASSUME NEW S, NEW seqs \in Seq(Seq(S))
  PROVE  /\ FlattenSeq(seqs) \in Seq(S)
         /\ \A x : x \in Range(FlattenSeq(seqs)) <=>
              \E i \in 1..Len(seqs) : x \in Range(seqs[i])
<1>0. Len(seqs) \in Nat BY LenProperties
<1>1. CASE Len(seqs) = 0
  <2>1. seqs = <<>> /\ FlattenSeq(seqs) = <<>> BY <1>1, EmptySeq DEF FlattenSeq
  <2>2. Range(<<>>) = {} BY DEF Range
  <2>3. <<>> \in Seq(S) BY EmptySeq
  <2>4. \A i : i \notin 1..Len(seqs) BY <1>1
  <2> QED BY <2>1, <2>2, <2>3, <2>4
<1>2. CASE Len(seqs) # 0
  <2> DEFINE f == CHOOSE f : Flattens(seqs, f, Len(seqs))
  <2>1. FlattenSeq(seqs) = f[Len(seqs)] BY <1>2 DEF FlattenSeq, Flattens
  <2>2. Flattens(seqs, f, Len(seqs)) BY <1>2, FlattenExists
  <2> HIDE DEF f
  <2>3. \A i \in 1..Len(seqs) : f[i] = IF i = 1 THEN seqs[i] ELSE f[i-1] \o seqs[i]
    BY <2>2 DEF Flattens
  <2> DEFINE Good(n) == /\ f[n] \in Seq(S)
                        /\ \A x : x \in Range(f[n]) <=> \E i \in 1..n : x \in Range(seqs[i])
             T == {n \in 1..Len(seqs) : ~Good(n)}
  <2>4. ASSUME T # {} PROVE FALSE
    <3>1. PICK n \in T : \A m \in T : ~(m < n) 
      <4>1. T \subseteq Nat OBVIOUS
      <4> HIDE DEF T
      <4> QED BY <2>4, <4>1, LeastOf
    <3>2. n \in 1..Len(seqs) /\ n \in Nat /\ ~Good(n) BY <1>0, <3>1
    <3>3. seqs[n] \in Seq(S) BY <3>2, ElementOfSeq
    <3>4. CASE n = 1 BY <2>3, <3>2, <3>3, <3>4
    <3>5. CASE n # 1
      <4>1. n - 1 \in 1..Len(seqs) /\ n - 1 < n /\ n-1 \in Nat BY <3>2, <3>5
      <4>2. Good(n - 1) BY <3>1, <4>1
      <4>3. f[n] = f[n-1] \o seqs[n] BY <2>3, <3>2, <3>5
      <4>4. f[n] \in Seq(S) BY <3>3, <4>2, <4>3, ConcatProperties
      <4>5. Range(f[n]) = Range(f[n-1]) \cup Range(seqs[n])
        BY <3>3, <4>2, <4>3, RangeConcatenation
      <4>6. \A i : i \in 1..n <=> i \in 1..n-1 \/ i = n BY <3>2, <4>1
      <4> QED BY <3>2, <4>2, <4>4, <4>5, <4>6
    <3> QED BY <3>4, <3>5
  <2>5. Len(seqs) \in 1..Len(seqs) BY <1>0, <1>2
  <2>6. Good(Len(seqs)) BY <2>4, <2>5
  <2> QED BY <2>1, <2>6
<1> QED BY <1>1, <1>2

-----------------------------------------------------------------------------
(* Paths. *)
Names == {"cohort", "plan", "briefing", "runtime", "sessions", "launch", "settlement",
          "private", "input", "workspace", "cache", "evidence", "state", "receipt",
          "invocation"} \cup Sessions

(* Below a session's root; and all that create_launch makes before Launch. *)
Parts == {"private", "input", "workspace", "cache", "evidence", "state"}
Inner == {Runtime, SessionsRoot} \cup {Root(s) : s \in Sessions}
           \cup {Append(Root(s), x) : s \in Sessions, x \in Parts}

(* The directory and the name of an entry.                                 *)
LEMMA FrontAppend ==
  ASSUME NEW S, NEW q \in Seq(S), q # <<>>, NEW e \in S
  PROVE  /\ Append(q, e) \in Seq(S) /\ Len(Append(q, e)) = Len(q) + 1
         /\ Front(Append(q, e)) = q /\ Last(Append(q, e)) = e
<1>1. /\ Append(q, e) \in Seq(S) /\ Len(Append(q, e)) = Len(q) + 1
      /\ Append(q, e)[Len(q) + 1] = e
  BY AppendProperties
<1>2. Len(q) \in Nat \ {0} BY EmptySeq
<1>3. Append(q, e) = q \o <<e>> BY AppendIsConcat
<1>4. SubSeq(q \o <<e>>, 1, Len(q)) = SubSeq(q, 1, Len(q))
  BY <1>2, SubSeqOfConcat1
<1>5. SubSeq(q, 1, Len(q)) = q BY SubSeqFull
<1>6. Front(Append(q, e)) = q
  BY <1>1, <1>2, <1>3, <1>4, <1>5 DEF Front
<1> QED BY <1>1, <1>6 DEF Last

(* The same of the names that occur here.                                  *)
LEMMA Child ==
  ASSUME NEW q \in Seq(Names), q # <<>>, NEW x \in Names, NEW p, p = Append(q, x)
  PROVE  p \in Seq(Names) /\ Len(p) = Len(q) + 1 /\ Front(p) = q /\ Last(p) = x
<1>1. /\ Append(q, x) \in Seq(Names) /\ Len(Append(q, x)) = Len(q) + 1
      /\ Front(Append(q, x)) = q /\ Last(Append(q, x)) = x
  BY FrontAppend, Zenon
<1> QED BY <1>1, Zenon

(* A path with a length is not empty.                                      *)
LEMMA NotEmpty == ASSUME NEW q, Len(q) # 0 PROVE q # <<>>
<1>1. Len(<<>>) = 0 BY EmptySeq
<1> QED BY <1>1

(* Where the runtime's entries are.                                        *)
LEMMA RuntimePlaces ==
  /\ Cohort \in Seq(Names) /\ Plan \in Seq(Names) /\ Briefing \in Seq(Names)
  /\ Runtime \in Seq(Names) /\ Len(Runtime) = 2 /\ Front(Runtime) = Cohort
  /\ SessionsRoot \in Seq(Names) /\ Len(SessionsRoot) = 3
  /\ Front(SessionsRoot) = Runtime
  /\ Launch \in Seq(Names) /\ Len(Launch) = 3 /\ Front(Launch) = Runtime
  /\ Settlement \in Seq(Names) /\ Len(Settlement) = 3 /\ Front(Settlement) = Runtime
  /\ Last(Runtime) = "runtime" /\ Last(SessionsRoot) = "sessions"
  /\ Last(Launch) = "launch" /\ Last(Settlement) = "settlement"
  /\ Last(Cohort) = "cohort" /\ Last(Plan) = "plan" /\ Last(Briefing) = "briefing"
<1>1. Cohort \in Seq(Names) /\ Len(Cohort) = 1
  BY DEF Cohort, Names
<1>2. Runtime = Append(Cohort, "runtime") BY DEF Runtime, Cohort
<1>3. Plan = Append(Cohort, "plan") BY DEF Plan, Cohort
<1>4. Briefing = Append(Cohort, "briefing") BY DEF Briefing, Cohort
<1>5. {"runtime", "plan", "briefing", "sessions", "launch", "settlement"} \subseteq Names
  BY DEF Names
<1>6. /\ Runtime \in Seq(Names) /\ Len(Runtime) = 2
      /\ Front(Runtime) = Cohort /\ Last(Runtime) = "runtime"
  <2>1. Cohort # <<>> BY <1>1, NotEmpty
  <2>2. "runtime" \in Names BY <1>5
  <2>3. /\ Runtime \in Seq(Names) /\ Len(Runtime) = Len(Cohort) + 1
        /\ Front(Runtime) = Cohort /\ Last(Runtime) = "runtime"
    BY <1>1, <1>2, <2>1, <2>2, Child, Zenon
  <2> QED BY <1>1, <2>3
<1>7. /\ Plan \in Seq(Names) /\ Len(Plan) = 2
      /\ Front(Plan) = Cohort /\ Last(Plan) = "plan"
  <2>1. Cohort # <<>> BY <1>1, NotEmpty
  <2>2. "plan" \in Names BY <1>5
  <2>3. /\ Plan \in Seq(Names) /\ Len(Plan) = Len(Cohort) + 1
        /\ Front(Plan) = Cohort /\ Last(Plan) = "plan"
    BY <1>1, <1>3, <2>1, <2>2, Child, Zenon
  <2> QED BY <1>1, <2>3
<1>8. /\ Briefing \in Seq(Names) /\ Len(Briefing) = 2
      /\ Front(Briefing) = Cohort /\ Last(Briefing) = "briefing"
  <2>1. Cohort # <<>> BY <1>1, NotEmpty
  <2>2. "briefing" \in Names BY <1>5
  <2>3. /\ Briefing \in Seq(Names) /\ Len(Briefing) = Len(Cohort) + 1
        /\ Front(Briefing) = Cohort /\ Last(Briefing) = "briefing"
    BY <1>1, <1>4, <2>1, <2>2, Child, Zenon
  <2> QED BY <1>1, <2>3
<1>9. /\ SessionsRoot = Append(Runtime, "sessions")
      /\ Launch = Append(Runtime, "launch") /\ Settlement = Append(Runtime, "settlement")
  BY DEF SessionsRoot, Launch, Settlement
<1>10. /\ SessionsRoot \in Seq(Names) /\ Len(SessionsRoot) = 3
      /\ Front(SessionsRoot) = Runtime /\ Last(SessionsRoot) = "sessions"
  <2>1. Runtime # <<>> BY <1>6, NotEmpty
  <2>2. "sessions" \in Names BY <1>5
  <2>3. /\ SessionsRoot \in Seq(Names) /\ Len(SessionsRoot) = Len(Runtime) + 1
        /\ Front(SessionsRoot) = Runtime /\ Last(SessionsRoot) = "sessions"
    BY <1>6, <1>9, <2>1, <2>2, Child, Zenon
  <2> QED BY <1>6, <2>3
<1>11. /\ Launch \in Seq(Names) /\ Len(Launch) = 3
      /\ Front(Launch) = Runtime /\ Last(Launch) = "launch"
  <2>1. Runtime # <<>> BY <1>6, NotEmpty
  <2>2. "launch" \in Names BY <1>5
  <2>3. /\ Launch \in Seq(Names) /\ Len(Launch) = Len(Runtime) + 1
        /\ Front(Launch) = Runtime /\ Last(Launch) = "launch"
    BY <1>6, <1>9, <2>1, <2>2, Child, Zenon
  <2> QED BY <1>6, <2>3
<1>12. /\ Settlement \in Seq(Names) /\ Len(Settlement) = 3
      /\ Front(Settlement) = Runtime /\ Last(Settlement) = "settlement"
  <2>1. Runtime # <<>> BY <1>6, NotEmpty
  <2>2. "settlement" \in Names BY <1>5
  <2>3. /\ Settlement \in Seq(Names) /\ Len(Settlement) = Len(Runtime) + 1
        /\ Front(Settlement) = Runtime /\ Last(Settlement) = "settlement"
    BY <1>6, <1>9, <2>1, <2>2, Child, Zenon
  <2> QED BY <1>6, <2>3
<1>13. Last(Cohort) = "cohort" BY DEF Cohort, Last
<1> QED BY <1>1, <1>6, <1>7, <1>8, <1>10, <1>11, <1>12, <1>13

(* And a session's.                                                        *)
LEMMA RootPlace ==
  ASSUME NEW s \in Sessions
  PROVE  /\ Root(s) \in Seq(Names) /\ Len(Root(s)) = 4
         /\ Front(Root(s)) = SessionsRoot /\ Last(Root(s)) = s
<1>1. SessionsRoot \in Seq(Names) /\ Len(SessionsRoot) = 3 BY RuntimePlaces
<1>2. s \in Names BY DEF Names
<1>3. Root(s) = Append(SessionsRoot, s) BY DEF Root
<1>4. SessionsRoot # <<>> BY <1>1, NotEmpty
<1>5. /\ Root(s) \in Seq(Names) /\ Len(Root(s)) = Len(SessionsRoot) + 1
      /\ Front(Root(s)) = SessionsRoot /\ Last(Root(s)) = s
  BY <1>1, <1>2, <1>3, <1>4, Child, Zenon
<1> QED BY <1>1, <1>5

(* What is in it.                                                          *)
LEMMA PartPlace ==
  ASSUME NEW s \in Sessions, NEW x \in Parts \cup {"receipt"},
         NEW p, p = Append(Root(s), x)
  PROVE  p \in Seq(Names) /\ Len(p) = 5 /\ Front(p) = Root(s) /\ Last(p) = x
<1>1. Root(s) \in Seq(Names) /\ Len(Root(s)) = 4 BY RootPlace
<1>2. x \in Names BY DEF Parts, Names
<1>3. Root(s) # <<>> BY <1>1, NotEmpty
<1>4. p \in Seq(Names) /\ Len(p) = Len(Root(s)) + 1 /\ Front(p) = Root(s) /\ Last(p) = x
  BY <1>1, <1>2, <1>3, Child, Zenon
<1> QED BY <1>1, <1>4

(* Its documents.                                                          *)
LEMMA SessionPlaces ==
  ASSUME NEW s \in Sessions
  PROVE  /\ State(s) = Append(Root(s), "state") /\ Receipt(s) = Append(Root(s), "receipt")
         /\ State(s) \in Seq(Names) /\ Len(State(s)) = 5
         /\ Front(State(s)) = Root(s) /\ Last(State(s)) = "state"
         /\ Receipt(s) \in Seq(Names) /\ Len(Receipt(s)) = 5
         /\ Front(Receipt(s)) = Root(s) /\ Last(Receipt(s)) = "receipt"
         /\ Input(s) \in Seq(Names) /\ Len(Input(s)) = 6
         /\ Last(Input(s)) = "invocation"
<1>1. State(s) = Append(Root(s), "state") /\ Receipt(s) = Append(Root(s), "receipt")
  BY DEF State, Receipt
<1>2. "state" \in Parts \cup {"receipt"} /\ "receipt" \in Parts \cup {"receipt"}
  BY DEF Parts
<1>3. Input(s) \in Seq(Names) /\ Len(Input(s)) = 6 /\ Last(Input(s)) = "invocation"
  BY DEF Input, Names, Last
<1>4. /\ State(s) \in Seq(Names) /\ Len(State(s)) = 5
      /\ Front(State(s)) = Root(s) /\ Last(State(s)) = "state"
  BY <1>1, <1>2, PartPlace
<1>5. /\ Receipt(s) \in Seq(Names) /\ Len(Receipt(s)) = 5
      /\ Front(Receipt(s)) = Root(s) /\ Last(Receipt(s)) = "receipt"
  BY <1>1, <1>2, PartPlace
<1> QED BY <1>1, <1>3, <1>4, <1>5

(* What these entries are not: Launch, Settlement and receipts are no part *)
(* of the layout.                                                          *)
LEMMA Apart ==
  /\ Launch # Settlement
  /\ Plan \notin Inner /\ Briefing \notin Inner /\ Cohort \notin Inner
  /\ Launch \notin Inner /\ Settlement \notin Inner
  /\ Launch \notin {Cohort, Plan, Briefing} /\ Settlement \notin {Cohort, Plan, Briefing}
  /\ \A s \in Sessions :
       /\ Receipt(s) \notin Inner /\ Input(s) \notin Inner
       /\ Receipt(s) \notin {Cohort, Plan, Briefing, Launch, Settlement}
       /\ Input(s) \notin {Cohort, Plan, Briefing, Launch, Settlement}
       /\ State(s) \notin {Cohort, Plan, Briefing, Launch, Settlement, <<>>}
       /\ State(s) \in Inner /\ Root(s) \in Inner
       /\ \A r \in Sessions : Receipt(s) \notin {Input(r), State(r)}
       /\ \A r \in Sessions : Receipt(s) = Receipt(r) => s = r
<1>1. Launch # Settlement BY RuntimePlaces
<1>2. ASSUME NEW p \in Inner
      PROVE  /\ Len(p) \in 2..5
             /\ Len(p) = 2 => Last(p) = "runtime"
             /\ Len(p) = 3 => Last(p) = "sessions"
             /\ Len(p) = 5 => Last(p) \in Parts
  <2>1. CASE p \in {Runtime, SessionsRoot}
    <3>1. \/ Len(p) = 2 /\ Last(p) = "runtime"
          \/ Len(p) = 3 /\ Last(p) = "sessions"
      BY <2>1, RuntimePlaces, Zenon
    <3> QED BY <3>1
  <2>2. CASE p \in {Root(s) : s \in Sessions}
    <3>1. PICK s \in Sessions : p = Root(s) BY <2>2
    <3>2. Len(p) = 4 BY <3>1, RootPlace, Zenon
    <3> QED BY <3>2
  <2>3. CASE p \in {Append(Root(s), x) : s \in Sessions, x \in Parts}
    <3>1. PICK s \in Sessions, x \in Parts : p = Append(Root(s), x) BY <2>3
    <3>2. x \in Parts \cup {"receipt"} OBVIOUS
    <3>3. Len(p) = 5 /\ Last(p) = x BY <3>1, <3>2, PartPlace, Zenon
    <3> QED BY <3>3
  <2> QED BY <2>1, <2>2, <2>3 DEF Inner
<1>3. /\ Plan \notin Inner /\ Briefing \notin Inner /\ Cohort \notin Inner
      /\ Launch \notin Inner /\ Settlement \notin Inner
  BY <1>2, Places, RuntimePlaces
<1>4. Launch \notin {Cohort, Plan, Briefing} /\ Settlement \notin {Cohort, Plan, Briefing}
  BY Places, RuntimePlaces
<1>5. ASSUME NEW s \in Sessions
      PROVE  /\ Receipt(s) \notin Inner /\ Input(s) \notin Inner
             /\ Receipt(s) \notin {Cohort, Plan, Briefing, Launch, Settlement}
             /\ Input(s) \notin {Cohort, Plan, Briefing, Launch, Settlement}
             /\ State(s) \notin {Cohort, Plan, Briefing, Launch, Settlement, <<>>}
             /\ State(s) \in Inner /\ Root(s) \in Inner
             /\ \A r \in Sessions : Receipt(s) \notin {Input(r), State(r)}
             /\ \A r \in Sessions : Receipt(s) = Receipt(r) => s = r
  <2>1. /\ Len(Receipt(s)) = 5 /\ Last(Receipt(s)) = "receipt"
        /\ Len(State(s)) = 5 /\ Last(State(s)) = "state" /\ Len(Input(s)) = 6
        /\ "state" \in Parts /\ "receipt" \notin Parts
    BY SessionPlaces DEF Parts
  <2>2. Receipt(s) \notin Inner /\ Input(s) \notin Inner BY <1>2, <2>1
  <2>3. /\ Receipt(s) \notin {Cohort, Plan, Briefing, Launch, Settlement}
        /\ Input(s) \notin {Cohort, Plan, Briefing, Launch, Settlement}
        /\ State(s) \notin {Cohort, Plan, Briefing, Launch, Settlement}
    <3>1. \A q \in {Cohort, Plan, Briefing, Launch, Settlement} : Len(q) \in 1..3
      <4>1. /\ Len(Cohort) \in 1..3 /\ Len(Plan) \in 1..3 /\ Len(Briefing) \in 1..3
        BY Places
      <4>2. Len(Launch) \in 1..3 /\ Len(Settlement) \in 1..3 BY RuntimePlaces
      <4> QED BY <4>1, <4>2, Zenon
    <3>2. Len(Receipt(s)) \notin 1..3 /\ Len(Input(s)) \notin 1..3 /\ Len(State(s)) \notin 1..3
      BY <2>1
    <3> QED BY <3>1, <3>2, Zenon
  <2>4. State(s) # <<>>
    <3>1. Len(<<>>) = 0 BY EmptySeq
    <3> QED BY <2>1, <3>1
  <2>5. State(s) \in Inner /\ Root(s) \in Inner
    <3>1. State(s) = Append(Root(s), "state") BY SessionPlaces, Zenon
    <3>2. State(s) \in {Append(Root(r), x) : r \in Sessions, x \in Parts}
      BY <2>1, <3>1
    <3>3. Root(s) \in {Root(r) : r \in Sessions} OBVIOUS
    <3> QED BY <2>1, <3>2, <3>3 DEF Inner
  <2>6. \A r \in Sessions : Receipt(s) \notin {Input(r), State(r)}
    BY <2>1, SessionPlaces DEF Parts
  <2>7. ASSUME NEW r \in Sessions, Receipt(s) = Receipt(r) PROVE s = r
    <3>1. Root(s) = Root(r) BY <2>7, SessionPlaces
    <3> QED BY <3>1, RootPlace
  <2> QED BY <2>2, <2>3, <2>4, <2>5, <2>6, <2>7
<1> QED BY <1>1, <1>3, <1>4, <1>5

(* The planned sessions are the sessions, each in its place.               *)
LEMMA PlannedIs ==
  /\ Planned \in Seq(Sessions) /\ Len(Planned) \in Nat \ {0}
  /\ \A s \in Sessions : \E n \in 1..Len(Planned) : Planned[n] = s
<1>1. PICK n \in Nat : ExistsBijection(1..n, Sessions)
  BY CohortAssumption, FS_NatBijection
<1>2. Cardinality(Sessions) = n BY <1>1, FS_CountingElements, CohortAssumption
<1>3. \E f \in [1..n -> Sessions] : IsInjective(f)
  BY <1>1 DEF ExistsBijection, Bijection, Injection, IsInjective
<1> DEFINE f == CHOOSE f \in [1..n -> Sessions] : IsInjective(f)
<1>4. f \in [1..n -> Sessions] /\ IsInjective(f) BY <1>3
<1>5. Planned = f BY <1>2 DEF Planned, SetToSeq
<1> HIDE DEF f
<1>6. Planned \in Seq(Sessions) /\ Len(Planned) = n BY <1>4, <1>5
<1>7. \A s \in Sessions : \E i \in 1..n : f[i] = s
  <2>1. IsFiniteSet(1..n) /\ Cardinality(1..n) = n BY FS_Interval
  <2>2. f \in Injection(1..n, Sessions) BY <1>4 DEF Injection
  <2>3. f \in Surjection(1..n, Sessions)
    BY <1>2, <2>1, <2>2, CohortAssumption, FS_Injection
  <2> QED BY <2>3 DEF Surjection
<1>8. n # 0 BY <1>2, CohortAssumption, FS_EmptySet
<1> QED BY <1>5, <1>6, <1>7, <1>8

-----------------------------------------------------------------------------
(* The layout. *)

(* Short sequences, and longer ones.                                       *)
LEMMA SingleRange ==
  ASSUME NEW S, NEW x \in S
  PROVE  <<x>> \in Seq(S) /\ Range(<<x>>) = {x}
<1>1. <<x>> \in Seq(S) /\ Len(<<x>>) = 1 /\ <<x>>[1] = x OBVIOUS
<1>2. DOMAIN <<x>> = {1} OBVIOUS
<1> QED BY <1>1, <1>2 DEF Range

(* What the concatenation of two holds.                                    *)
LEMMA JoinRange ==
  ASSUME NEW a \in Seq(Inner), NEW b \in Seq(Inner), NEW c, c = a \o b
  PROVE  c \in Seq(Inner) /\ Range(c) = Range(a) \cup Range(b)
<1>1. a \o b \in Seq(Inner) BY ConcatProperties, Zenon
<1>2. Range(a \o b) = Range(a) \cup Range(b) BY RangeConcatenation, Zenon
<1> QED BY <1>1, <1>2

(* One session's part of it.                                               *)
LEMMA SessionLayoutIs ==
  ASSUME NEW s \in Sessions
  PROVE  /\ SessionLayout(s) \in Seq(Inner)
         /\ \A p : p \in Range(SessionLayout(s)) <=>
              p = Root(s) \/ \E x \in Parts : p = Append(Root(s), x)
<1> DEFINE mid == [i \in 1..Len(Private) |-> Append(Root(s), Private[i])]
<1>1. /\ Len(Private) = 5 /\ DOMAIN Private = 1..5
      /\ Private[1] = "private" /\ Private[2] = "input" /\ Private[3] = "workspace"
      /\ Private[4] = "cache" /\ Private[5] = "evidence"
  BY DEF Private
<1>2. \A i \in 1..5 : Private[i] \in Parts
  BY <1>1 DEF Parts
<1>3. Root(s) \in Inner /\ \A x \in Parts : Append(Root(s), x) \in Inner
  BY DEF Inner
<1>4. mid \in Seq(Inner) /\ Len(mid) = 5 /\ \A i \in 1..5 : mid[i] = Append(Root(s), Private[i])
  <2>1. mid \in [1..5 -> Inner] BY <1>1, <1>2, <1>3
  <2> QED BY <1>1, <2>1
<1>5. \A p : p \in Range(mid) <=> \E i \in 1..5 : p = Append(Root(s), Private[i])
  BY <1>1 DEF Range
<1> HIDE DEF mid
<1>6. State(s) = Append(Root(s), "state") /\ State(s) \in Inner
  BY SessionPlaces, Apart, Zenon
<1>7. /\ <<Root(s)>> \in Seq(Inner) /\ Range(<<Root(s)>>) = {Root(s)}
      /\ <<State(s)>> \in Seq(Inner) /\ Range(<<State(s)>>) = {State(s)}
  BY <1>3, <1>6, SingleRange, Zenon
<1>8. PICK a : a = <<Root(s)>> \o mid OBVIOUS
<1>9. a \in Seq(Inner) /\ Range(a) = Range(<<Root(s)>>) \cup Range(mid)
  BY <1>4, <1>7, <1>8, JoinRange
<1>12. PICK b : b = a \o <<State(s)>> OBVIOUS
<1>13. b \in Seq(Inner) /\ Range(b) = Range(a) \cup Range(<<State(s)>>)
  BY <1>7, <1>9, <1>12, JoinRange
<1>10. SessionLayout(s) = b
  BY <1>8, <1>12 DEF SessionLayout, mid
<1>11. \A x : x \in Parts <=> (\E i \in 1..5 : x = Private[i]) \/ x = "state"
  BY <1>1 DEF Parts
<1>14. Range(b) = ({Root(s)} \cup Range(mid)) \cup {State(s)}
  BY <1>7, <1>9, <1>13
<1> QED BY <1>5, <1>6, <1>10, <1>11, <1>13, <1>14

(* create_launch makes everything in Inner, and Launch last of all.        *)
LEMMA LayoutIs ==
  /\ Len(Layout) \in Nat /\ Len(Layout) > 1
  /\ Layout[Len(Layout)] = Launch /\ Layout[1] = Runtime
  /\ \A n \in 1..Len(Layout) - 1 : Layout[n] \in Inner
  /\ \A p \in Inner : \E n \in 1..Len(Layout) - 1 : Layout[n] = p
<1> DEFINE parts == [i \in 1..Len(Planned) |-> SessionLayout(Planned[i])]
           flat  == FlattenSeq(parts)
           head  == <<Runtime, SessionsRoot>> \o flat
<1>1. Planned \in Seq(Sessions) /\ Len(Planned) \in Nat BY PlannedIs
<1>2. \A i \in 1..Len(Planned) : Planned[i] \in Sessions BY <1>1, ElementOfSeq
<1>3. parts \in Seq(Seq(Inner)) /\ Len(parts) = Len(Planned)
  <2>1. \A i \in 1..Len(Planned) : SessionLayout(Planned[i]) \in Seq(Inner)
    BY <1>2, SessionLayoutIs
  <2>2. parts \in [1..Len(Planned) -> Seq(Inner)] BY <2>1
  <2> QED BY <1>1, <2>2
<1>4. \A i \in 1..Len(Planned) : parts[i] = SessionLayout(Planned[i]) OBVIOUS
<1> HIDE DEF parts
<1>5. /\ flat \in Seq(Inner)
      /\ \A p : p \in Range(flat) <=> \E i \in 1..Len(parts) : p \in Range(parts[i])
  BY <1>3, FlattenOf
<1> HIDE DEF flat
<1>6. /\ <<Runtime, SessionsRoot>> \in Seq(Inner) /\ Len(<<Runtime, SessionsRoot>>) = 2
      /\ Range(<<Runtime, SessionsRoot>>) = {Runtime, SessionsRoot}
  <2>1. Runtime \in Inner /\ SessionsRoot \in Inner BY DEF Inner
  <2> QED BY <2>1 DEF Range
<1>7. head \in Seq(Inner) /\ Range(head) = {Runtime, SessionsRoot} \cup Range(flat)
  <2>1. head \in Seq(Inner) /\ Range(head) = Range(<<Runtime, SessionsRoot>>) \cup Range(flat)
    BY <1>5, <1>6, JoinRange DEF head
  <2> QED BY <1>6, <2>1
<1>8. Len(head) = 2 + Len(flat) /\ head[1] = Runtime
  BY <1>5, <1>6, ConcatProperties, LenProperties
<1>9. Len(head) \in Nat /\ Len(head) > 1 BY <1>5, <1>7, <1>8, LenProperties
<1> HIDE DEF head
<1>10. Layout = head \o <<Launch>> BY DEF Layout, head, flat, parts
<1>11. /\ Len(Layout) = Len(head) + 1 /\ Layout[Len(head) + 1] = Launch
       /\ \A n \in 1..Len(head) : Layout[n] = head[n]
  <2> DEFINE All == Inner \cup {Launch}
  <2>1. head \in Seq(All) /\ <<Launch>> \in Seq(All) /\ Len(<<Launch>>) = 1
    <3>1. head \in Seq(All) BY <1>7, SeqMonotonic
    <3> QED BY <3>1
  <2> HIDE DEF All
  <2>2. /\ Len(head \o <<Launch>>) = Len(head) + 1
        /\ \A i \in 1..Len(head) + 1 :
             (head \o <<Launch>>)[i] = IF i <= Len(head) THEN head[i]
                                       ELSE <<Launch>>[i - Len(head)]
    BY <2>1, ConcatProperties
  <2>3. /\ Len(Layout) = Len(head) + 1
        /\ \A i \in 1..Len(head) + 1 :
             Layout[i] = IF i <= Len(head) THEN head[i] ELSE <<Launch>>[i - Len(head)]
    BY <1>10, <2>2
  <2> QED BY <1>9, <2>3
<1>12. \A n \in 1..Len(head) : head[n] \in Inner BY <1>7, ElementOfSeq
<1>13. \A p \in Range(head) : \E n \in 1..Len(head) : head[n] = p
  BY <1>7, LenProperties DEF Range
<1>14. ASSUME NEW p \in Inner PROVE p \in Range(head)
  <2>1. CASE p \in {Runtime, SessionsRoot} BY <1>7, <2>1
  <2>2. CASE p \notin {Runtime, SessionsRoot}
    <3>1. PICK s \in Sessions : p = Root(s) \/ \E x \in Parts : p = Append(Root(s), x)
      BY <2>2 DEF Inner
    <3>2. p \in Range(SessionLayout(s)) BY <3>1, SessionLayoutIs
    <3>3. PICK n \in 1..Len(Planned) : Planned[n] = s BY PlannedIs
    <3>4. p \in Range(flat) BY <1>3, <1>4, <1>5, <3>2, <3>3
    <3> QED BY <1>7, <3>4
  <2> QED BY <2>1, <2>2
<1>15. 1..Len(Layout) - 1 = 1..Len(head) BY <1>9, <1>11
<1> QED BY <1>8, <1>9, <1>11, <1>12, <1>13, <1>14, <1>15

(* A power loss leaves with an entry the directory it is in, and an entry  *)
(* that is certain if its directory is left.                               *)
LEMMA ReachableFront ==
  ASSUME NEW S, NEW p \in Seq(Names), Len(p) > 1
  PROVE  p \in Reachable(S) <=> p \in S /\ Front(p) \in Reachable(S)
<1> DEFINE q == Front(p)
<1>1. Len(p) \in Nat BY LenProperties
<1>2. q \in Seq(Names) /\ Len(q) = Len(p) - 1
  <2>1. \A i \in 1..Len(p) - 1 : p[i] \in Names BY <1>1, ElementOfSeq
  <2> QED BY <1>1, <2>1, SubSeqProperties DEF Front
<1>3. \A n \in 1..Len(q) : SubSeq(q, 1, n) = SubSeq(p, 1, n)
  <2> SUFFICES ASSUME NEW n \in 1..Len(q) PROVE SubSeq(q, 1, n) = SubSeq(p, 1, n)
    OBVIOUS
  <2>1. /\ 1 \in 1..Len(p) /\ Len(p) - 1 \in 1..Len(p)
        /\ 1 \in 1..(Len(p) - 1) - 1 + 1 /\ n \in 1..(Len(p) - 1) - 1 + 1
    BY <1>1, <1>2
  <2>2. SubSeq(SubSeq(p, 1, Len(p) - 1), 1, n) = SubSeq(p, 1 + 1 - 1, 1 + n - 1)
    BY <2>1, SubSeqOfSubSeq
  <2>3. 1 + 1 - 1 = 1 /\ 1 + n - 1 = n BY <2>1
  <2> QED BY <2>2, <2>3 DEF Front
<1>4. q = SubSeq(p, 1, Len(p) - 1) /\ p = SubSeq(p, 1, Len(p))
  BY SubSeqFull DEF Front
<1> HIDE DEF q
<1>5. 1..Len(p) = 1..Len(q) \cup {Len(p)} /\ Len(p) - 1 \in 1..Len(p) /\ Len(p) \in 1..Len(p)
  BY <1>1, <1>2
<1>6. ASSUME p \in Reachable(S) PROVE p \in S /\ q \in Reachable(S)
  BY <1>3, <1>4, <1>5, <1>6 DEF Reachable
<1>7. ASSUME p \in S, q \in Reachable(S) PROVE p \in Reachable(S)
  <2>1. \A n \in 1..Len(q) : SubSeq(p, 1, n) \in S BY <1>3, <1>7 DEF Reachable
  <2> QED BY <1>4, <1>5, <1>7, <2>1 DEF Reachable
<1> QED BY <1>6, <1>7 DEF q

(* The cohort's own directory is in the root.                              *)
LEMMA ReachableCohort ==
  ASSUME NEW S
  PROVE  Cohort \in Reachable(S) <=> Cohort \in S
<1>1. \A n \in 1..Len(Cohort) : SubSeq(Cohort, 1, n) = Cohort BY Places
<1> QED BY <1>1 DEF Reachable

-----------------------------------------------------------------------------
(* The tree: what is seen of a cohort is whole, and what a power loss      *)
(* leaves of it is whole again.                                            *)
Durable(p) == p \in DOMAIN kept

TreeShape ==
  /\ \A p \in DOMAIN seen : p \in Seq(Names) /\ p # <<>> /\ seen[p].by \in Parties
  /\ \A p \in DOMAIN seen : Len(p) > 1 => Exists(Front(p))
  /\ \A p \in DOMAIN kept : kept[p].by \in Parties

CohortSafe ==
  Exists(Cohort) =>
    /\ Exists(Plan) /\ Exists(Briefing) /\ seen[Plan] = seen[Briefing]
    /\ Durable(Plan) /\ Durable(Briefing) /\ seen[Plan].by \in Planners

LaunchSafe ==
  Exists(Launch) =>
    /\ seen[Launch].by \in Launchers
    /\ seen[Launch].plan = seen[Plan].by /\ LaunchAccepted(seen[Launch])
    /\ \A p \in Inner : /\ Exists(p) /\ seen[p].by = seen[Launch].by
                        /\ Durable(p) /\ kept[p].by = seen[Launch].by
    /\ \A s \in Sessions : Exists(Receipt(s)) => seen[Receipt(s)].by = seen[Launch].by

SettlementSafe ==
  Exists(Settlement) =>
    /\ Exists(Launch) /\ Durable(Launch) /\ seen[Settlement].by = seen[Launch].by
    /\ \A s \in Sessions :
         /\ Exists(Receipt(s)) /\ Durable(Receipt(s))
         /\ seen[Receipt(s)] = ReceiptOf(seen[Launch].by, seen[Settlement].rows[s])

TreeInv == TreeShape /\ CohortSafe /\ LaunchSafe /\ SettlementSafe

(* Nothing is there without the directory it is in.                        *)
LEMMA Below ==
  ASSUME TreeShape
  PROVE  /\ Exists(Runtime) => Exists(Cohort)
         /\ Exists(Launch) => Exists(Runtime)
         /\ Exists(Settlement) => Exists(Runtime)
         /\ Exists(SessionsRoot) => Exists(Runtime)
         /\ \A s \in Sessions : Exists(Root(s)) => Exists(SessionsRoot)
         /\ \A s \in Sessions : Exists(Receipt(s)) => Exists(Root(s))
<1>1. ASSUME NEW p, Exists(p), Len(p) > 1 PROVE Exists(Front(p))
  BY <1>1 DEF TreeShape, Exists
<1>2. /\ Len(Runtime) > 1 /\ Front(Runtime) = Cohort
      /\ Len(Launch) > 1 /\ Front(Launch) = Runtime
      /\ Len(Settlement) > 1 /\ Front(Settlement) = Runtime
      /\ Len(SessionsRoot) > 1 /\ Front(SessionsRoot) = Runtime
  BY RuntimePlaces
<1>3. /\ Exists(Runtime) => Exists(Cohort)
      /\ Exists(Launch) => Exists(Runtime)
      /\ Exists(Settlement) => Exists(Runtime)
      /\ Exists(SessionsRoot) => Exists(Runtime)
  <2>1. Exists(Runtime) => Exists(Cohort) BY <1>1, <1>2, Zenon
  <2>2. Exists(Launch) => Exists(Runtime) BY <1>1, <1>2, Zenon
  <2>3. Exists(Settlement) => Exists(Runtime) BY <1>1, <1>2, Zenon
  <2>4. Exists(SessionsRoot) => Exists(Runtime) BY <1>1, <1>2, Zenon
  <2> QED BY <2>1, <2>2, <2>3, <2>4
<1>4. ASSUME NEW s \in Sessions
      PROVE  /\ Exists(Root(s)) => Exists(SessionsRoot)
             /\ Exists(Receipt(s)) => Exists(Root(s))
  <2>1. /\ Len(Root(s)) > 1 /\ Front(Root(s)) = SessionsRoot
        /\ Len(Receipt(s)) > 1 /\ Front(Receipt(s)) = Root(s)
    BY RootPlace, SessionPlaces
  <2>2. Exists(Root(s)) => Exists(SessionsRoot) BY <1>1, <2>1, Zenon
  <2>3. Exists(Receipt(s)) => Exists(Root(s)) BY <1>1, <2>1, Zenon
  <2> QED BY <2>2, <2>3
<1> QED BY <1>3, <1>4

(* What a sync does to the device: it adds to it what is seen.             *)
KeptGoes ==
  /\ DOMAIN kept \subseteq DOMAIN kept'
  /\ \A p \in DOMAIN kept' : \/ p \in DOMAIN kept /\ kept'[p] = kept[p]
                             \/ p \in DOMAIN seen /\ kept'[p] = seen[p]

(* Every entry of the directory.                                           *)
LEMMA SyncGoes ==
  ASSUME NEW dir, SyncDirectory(dir)
  PROVE  KeptGoes /\ \A p \in Children(dir) : p \in DOMAIN kept'
BY DEF SyncDirectory, KeptGoes, Children

(* What a step keeps of the device's facts.                                *)
LEMMA KeptShape ==
  ASSUME TreeShape, KeptGoes
  PROVE  \A p \in DOMAIN kept' : kept'[p].by \in Parties
BY DEF TreeShape, KeptGoes

(* A sync alone.                                                           *)
LEMMA StillTree ==
  ASSUME TreeInv, seen' = seen, KeptGoes
  PROVE  TreeInv'
<1>1. TreeShape' BY KeptShape DEF TreeInv, TreeShape, Exists
<1>2. CohortSafe' BY DEF TreeInv, CohortSafe, Exists, Durable, KeptGoes
<1>3. LaunchSafe'
  <2> SUFFICES ASSUME Exists(Launch)
               PROVE  \A p \in Inner : p \in DOMAIN kept' /\ kept'[p].by = seen[Launch].by
    BY DEF TreeInv, LaunchSafe, Exists, Durable, LaunchAccepted
  <2> QED BY DEF TreeInv, LaunchSafe, Durable, KeptGoes
<1>4. SettlementSafe'
  BY DEF TreeInv, SettlementSafe, Exists, Durable, KeptGoes, ReceiptOf
<1> QED BY <1>1, <1>2, <1>3, <1>4 DEF TreeInv

(* A new name, outside the plan's own.                                     *)
Links(path, content) ==
  /\ Link(path, content) /\ KeptGoes
  /\ path \in Seq(Names) /\ path # <<>> /\ content.by \in Parties
  /\ path \notin {Cohort, Plan, Briefing}

(* It is one more, everything else is as it was.                           *)
LEMMA LinkedTree ==
  ASSUME TreeInv, NEW path, NEW content, Links(path, content)
  PROVE  /\ TreeShape' /\ CohortSafe'
         /\ \A p : Exists(p)' <=> Exists(p) \/ p = path
         /\ ~Exists(path) /\ seen'[path] = content
         /\ \A p : Exists(p) => p # path /\ seen'[p] = seen[p]
         /\ \A p : Durable(p) => Durable(p)'
<1>1. /\ \A p : p \in DOMAIN seen' <=> p \in DOMAIN seen \/ p = path
      /\ path \notin DOMAIN seen /\ seen'[path] = content
      /\ \A p \in DOMAIN seen : p # path /\ seen'[p] = seen[p]
  BY DEF Links, Link, Exists
<1>2. \A p : Exists(p)' <=> Exists(p) \/ p = path BY <1>1 DEF Exists
<1>3. Len(path) > 1 => Exists(Front(path)) BY DEF Links, Link
<1>4. TreeShape'
  <2>1. \A p \in DOMAIN seen' : p \in Seq(Names) /\ p # <<>> /\ seen'[p].by \in Parties
    BY <1>1 DEF TreeInv, TreeShape, Links
  <2>2. \A p \in DOMAIN seen' : Len(p) > 1 => Front(p) \in DOMAIN seen'
    BY <1>1, <1>3 DEF TreeInv, TreeShape, Exists
  <2>3. \A p \in DOMAIN kept' : kept'[p].by \in Parties
    BY KeptShape DEF TreeInv, Links
  <2> QED BY <2>1, <2>2, <2>3 DEF TreeShape, Exists
<1>5. \A p : Durable(p) => Durable(p)' BY DEF Links, KeptGoes, Durable
<1>6. CohortSafe'
  BY <1>1, <1>5 DEF TreeInv, CohortSafe, Links, Exists, Durable
<1> QED BY <1>1, <1>2, <1>4, <1>5, <1>6 DEF Exists

(* The device's owner of what create_launch made.                          *)
LEMMA KeptOwner ==
  ASSUME TreeInv, KeptGoes, Exists(Launch), NEW p \in Inner
  PROVE  p \in DOMAIN kept' /\ kept'[p].by = seen[Launch].by
BY DEF TreeInv, LaunchSafe, Durable, KeptGoes

(* A place of the layout before there is a launch.                         *)
LEMMA LinkInnerTree ==
  ASSUME TreeInv, NEW path \in Inner, NEW content, Links(path, content), ~Exists(Launch)
  PROVE  TreeInv'
<1>1. ~Exists(Launch)' /\ ~Exists(Settlement)'
  <2>1. ~Exists(Settlement) BY DEF TreeInv, SettlementSafe
  <2> QED BY <2>1, LinkedTree, Apart
<1> QED BY <1>1, LinkedTree DEF TreeInv, LaunchSafe, SettlementSafe

(* The launch itself, over its whole layout.                               *)
LEMMA LinkLaunchTree ==
  ASSUME TreeInv, NEW content, Links(Launch, content),
         content.plan = seen[Plan].by, LaunchAccepted(content),
         content.by \in Launchers, ~Exists(Settlement), \A s \in Sessions : ~Exists(Receipt(s)),
         \A p \in Inner : /\ Exists(p) /\ seen[p].by = content.by
                          /\ Durable(p) /\ kept[p].by = content.by
  PROVE  TreeInv'
<1>1. ~Exists(Settlement)' /\ \A s \in Sessions : ~Exists(Receipt(s))'
  BY LinkedTree, Apart
<1>2. Exists(Plan)
  <2>1. Exists(Runtime) BY DEF Inner
  <2> QED BY <2>1, Below DEF TreeInv, CohortSafe
<1>3. /\ seen'[Launch] = content /\ seen'[Plan] = seen[Plan]
      /\ \A p \in Inner : Exists(p)' /\ seen'[p] = seen[p] /\ Durable(p)'
  BY <1>2, LinkedTree
<1>4. \A p \in Inner : kept'[p].by = content.by
  BY <1>3 DEF Links, KeptGoes, Durable
<1>5. LaunchSafe' BY <1>1, <1>3, <1>4 DEF LaunchSafe, LaunchAccepted
<1> QED BY <1>1, <1>5, LinkedTree DEF TreeInv, SettlementSafe

(* A receipt of the launch's owner.                                        *)
LEMMA LinkReceiptTree ==
  ASSUME TreeInv, NEW s \in Sessions, NEW content, Links(Receipt(s), content),
         Exists(Launch), content.by = seen[Launch].by
  PROVE  TreeInv'
<1>1. ~Exists(Settlement)' 
  <2>1. ~Exists(Receipt(s)) BY LinkedTree
  <2>2. ~Exists(Settlement) BY <2>1 DEF TreeInv, SettlementSafe
  <2> QED BY <2>2, LinkedTree, Apart
<1>2. Exists(Plan) BY Below DEF TreeInv, CohortSafe
<1>3. /\ seen'[Launch] = seen[Launch] /\ seen'[Plan] = seen[Plan]
      /\ \A p \in Inner : Exists(p)' /\ seen'[p] = seen[p] /\ Durable(p)'
  BY <1>2, LinkedTree DEF TreeInv, LaunchSafe
<1>4. \A p \in Inner : kept'[p].by = seen[Launch].by BY KeptOwner DEF Links
<1>5. \A r \in Sessions : Exists(Receipt(r))' => seen'[Receipt(r)].by = seen[Launch].by
  BY LinkedTree DEF TreeInv, LaunchSafe
<1>6. LaunchSafe'
  BY <1>3, <1>4, <1>5 DEF TreeInv, LaunchSafe, LaunchAccepted
<1> QED BY <1>1, <1>6, LinkedTree DEF TreeInv, SettlementSafe

(* An input; nothing depends on it.                                        *)
LEMMA LinkInputTree ==
  ASSUME TreeInv, NEW s \in Sessions, NEW content, Links(Input(s), content)
  PROVE  TreeInv'
<1>1. Exists(Launch)' <=> Exists(Launch) BY LinkedTree, Apart
<1>2. Exists(Settlement)' <=> Exists(Settlement) BY LinkedTree, Apart
<1>3. \A r \in Sessions : Exists(Receipt(r))' <=> Exists(Receipt(r)) BY LinkedTree, Apart
<1>4. ASSUME Exists(Launch) PROVE LaunchSafe'
  <2>1. Exists(Plan) BY <1>4, Below DEF TreeInv, CohortSafe
  <2>2. /\ seen'[Launch] = seen[Launch] /\ seen'[Plan] = seen[Plan]
        /\ \A p \in Inner : Exists(p)' /\ seen'[p] = seen[p] /\ Durable(p)'
    BY <1>4, <2>1, LinkedTree DEF TreeInv, LaunchSafe
  <2>3. \A p \in Inner : kept'[p].by = seen[Launch].by BY <1>4, KeptOwner DEF Links
  <2>4. \A r \in Sessions : Exists(Receipt(r))' => seen'[Receipt(r)].by = seen[Launch].by
    BY <1>3, <1>4, LinkedTree DEF TreeInv, LaunchSafe
  <2> QED BY <1>4, <2>2, <2>3, <2>4 DEF TreeInv, LaunchSafe, LaunchAccepted
<1>5. LaunchSafe' BY <1>1, <1>4 DEF LaunchSafe
<1>6. SettlementSafe'
  <2> SUFFICES ASSUME Exists(Settlement) PROVE SettlementSafe'
    BY <1>2 DEF SettlementSafe
  <2>1. /\ Exists(Launch) /\ seen'[Launch] = seen[Launch]
        /\ seen'[Settlement] = seen[Settlement] /\ Durable(Launch)'
    BY LinkedTree DEF TreeInv, SettlementSafe
  <2>2. \A r \in Sessions : /\ Exists(Receipt(r))' /\ Durable(Receipt(r))'
                            /\ seen'[Receipt(r)] = seen[Receipt(r)]
    BY LinkedTree DEF TreeInv, SettlementSafe
  <2> QED BY <1>1, <2>1, <2>2 DEF TreeInv, SettlementSafe, ReceiptOf
<1> QED BY <1>5, <1>6, LinkedTree DEF TreeInv

(* The settlement, over a durable launch and its durable receipts.         *)
LEMMA LinkSettlementTree ==
  ASSUME TreeInv, NEW content, Links(Settlement, content),
         Exists(Launch), Durable(Launch), content.by = seen[Launch].by,
         \A s \in Sessions :
           /\ Exists(Receipt(s)) /\ Durable(Receipt(s))
           /\ seen[Receipt(s)] = ReceiptOf(content.by, content.rows[s])
  PROVE  TreeInv'
<1>1. Exists(Plan) BY Below DEF TreeInv, CohortSafe
<1>2. /\ seen'[Launch] = seen[Launch] /\ seen'[Plan] = seen[Plan] /\ Durable(Launch)'
      /\ \A p \in Inner : Exists(p)' /\ seen'[p] = seen[p] /\ Durable(p)'
      /\ \A s \in Sessions : /\ Exists(Receipt(s))' /\ Durable(Receipt(s))'
                             /\ seen'[Receipt(s)] = seen[Receipt(s)]
      /\ Exists(Launch)' /\ seen'[Settlement] = content
  BY <1>1, LinkedTree DEF TreeInv, LaunchSafe
<1>3. \A p \in Inner : kept'[p].by = seen[Launch].by BY KeptOwner DEF Links
<1>4. LaunchSafe'
  BY <1>2, <1>3 DEF TreeInv, LaunchSafe, LaunchAccepted
<1>5. SettlementSafe' BY <1>2 DEF SettlementSafe, ReceiptOf
<1> QED BY <1>4, <1>5, LinkedTree DEF TreeInv

(* What a sync does to the device right after something was replaced.      *)
KeptMoves(content) ==
  /\ DOMAIN kept \subseteq DOMAIN kept'
  /\ \A p \in DOMAIN kept' : \/ p \in DOMAIN kept /\ kept'[p] = kept[p]
                             \/ p \in DOMAIN seen /\ kept'[p] = seen[p]
                             \/ p \in DOMAIN seen /\ kept'[p] = content

LEMMA SyncMoves ==
  ASSUME NEW p, NEW content, Exists(p), Replace(p, content), NEW dir,
         SyncDirectory(dir) \/ SyncDirectoryAfter(dir)
  PROVE  KeptMoves(content) /\ \A q \in Children(dir) : q \in DOMAIN kept'
<1>1. CASE SyncDirectory(dir)
  BY <1>1 DEF SyncDirectory, KeptMoves, Children
<1>2. CASE SyncDirectoryAfter(dir)
  BY <1>2 DEF SyncDirectoryAfter, KeptMoves, Children, Replace, Exists
<1> QED BY <1>1, <1>2

(* A session's state, rewritten by the launch's owner.                     *)
LEMMA ReplaceTree ==
  ASSUME TreeInv, NEW s \in Sessions, NEW content, Replace(State(s), content),
         KeptMoves(content), Exists(Launch), content.by = seen[Launch].by
  PROVE  TreeInv' /\ \A p : Exists(p)' <=> Exists(p)
<1>1. State(s) \in Inner /\ State(s) \notin {Cohort, Plan, Briefing, Launch, Settlement}
  BY Apart
<1>2. Exists(State(s)) BY <1>1 DEF TreeInv, LaunchSafe
<1>3. /\ DOMAIN seen' = DOMAIN seen /\ seen'[State(s)] = content
      /\ \A p \in DOMAIN seen : p # State(s) => seen'[p] = seen[p]
  BY <1>2 DEF Replace, Exists
<1>4. \A p : Exists(p)' <=> Exists(p) BY <1>3 DEF Exists
<1>5. \A p : Durable(p) => Durable(p)' BY DEF Durable, KeptMoves
<1>6. seen[Launch].by \in Parties BY DEF TreeInv, TreeShape, Exists
<1>7. TreeShape'
  <2>1. \A p \in DOMAIN seen' : p \in Seq(Names) /\ p # <<>> /\ seen'[p].by \in Parties
    BY <1>3, <1>6 DEF TreeInv, TreeShape
  <2>2. \A p \in DOMAIN kept' : kept'[p].by \in Parties
    BY <1>6 DEF TreeInv, TreeShape, KeptMoves
  <2> QED BY <1>3, <1>4, <2>1, <2>2 DEF TreeInv, TreeShape
<1>8. Exists(Plan) /\ Exists(Briefing) /\ Exists(Cohort)
  BY Below DEF TreeInv, CohortSafe
<1>9. /\ seen'[Plan] = seen[Plan] /\ seen'[Briefing] = seen[Briefing]
      /\ seen'[Launch] = seen[Launch]
      /\ Exists(Settlement) => seen'[Settlement] = seen[Settlement]
  BY <1>1, <1>3, <1>8 DEF Exists
<1>10. \A r \in Sessions : Exists(Receipt(r)) => seen'[Receipt(r)] = seen[Receipt(r)]
  <2>1. \A r \in Sessions : Receipt(r) # State(s) BY Apart
  <2> QED BY <1>3, <2>1 DEF Exists
<1>11. CohortSafe' BY <1>4, <1>5, <1>9 DEF TreeInv, CohortSafe
<1>12. \A p \in Inner : seen'[p].by = seen[Launch].by /\ kept'[p].by = seen[Launch].by
  <2>1. \A p \in Inner : seen'[p].by = seen[Launch].by
    BY <1>3 DEF TreeInv, LaunchSafe, Exists
  <2>2. \A p \in Inner : kept'[p].by = seen[Launch].by
    BY DEF TreeInv, LaunchSafe, Durable, KeptMoves
  <2> QED BY <2>1, <2>2
<1>13. LaunchSafe'
  BY <1>4, <1>5, <1>9, <1>10, <1>12 DEF TreeInv, LaunchSafe, LaunchAccepted
<1>14. SettlementSafe'
  BY <1>4, <1>5, <1>9, <1>10 DEF TreeInv, SettlementSafe, ReceiptOf
<1> QED BY <1>4, <1>7, <1>11, <1>13, <1>14 DEF TreeInv

(* A cohort appears, where there was none and nothing below it.            *)
LEMMA RenameTree ==
  ASSUME TreeInv, NEW a \in Planners, ~Exists(Cohort),
         seen' = Overlay(seen, Bundle(a)), kept' = Overlay(kept, SyncedPart(a))
  PROVE  TreeInv'
<1>1. ~Exists(Launch) /\ ~Exists(Settlement)
  BY Below DEF TreeInv
<1>2. /\ \A p : Exists(p)' <=> Exists(p) \/ p \in {Cohort, Plan, Briefing}
      /\ \A p \in {Cohort, Plan, Briefing} : seen'[p] = [by |-> a]
      /\ \A p \in DOMAIN seen : p \notin {Cohort, Plan, Briefing} => seen'[p] = seen[p]
  BY DEF Overlay, Bundle, Exists
<1>3. /\ Durable(Plan)' /\ Durable(Briefing)'
      /\ \A p \in DOMAIN kept' : \/ kept'[p] = [by |-> a]
                                 \/ p \in DOMAIN kept /\ kept'[p] = kept[p]
  BY DEF Overlay, SyncedPart, Durable
<1>4. a \in Parties BY DEF Parties
<1>5. TreeShape'
  <2>1. \A p \in DOMAIN kept' : kept'[p].by \in Parties
    BY <1>3, <1>4 DEF TreeInv, TreeShape
  <2>2. \A p \in DOMAIN seen' : p \in DOMAIN seen \/ p \in {Cohort, Plan, Briefing}
    BY <1>2 DEF Exists
  <2>3. \A p \in {Cohort, Plan, Briefing} : p \in Seq(Names) /\ p # <<>>
    <3>1. Cohort \in Seq(Names) /\ Plan \in Seq(Names) /\ Briefing \in Seq(Names)
      BY RuntimePlaces
    <3>2. Len(Cohort) # 0 /\ Len(Plan) # 0 /\ Len(Briefing) # 0 BY Places
    <3> QED BY <3>1, <3>2, NotEmpty, Zenon
  <2>4. \A p \in DOMAIN seen' : p \in Seq(Names) /\ p # <<>> /\ seen'[p].by \in Parties
    BY <1>2, <1>4, <2>2, <2>3 DEF TreeInv, TreeShape
  <2>5. ASSUME NEW p \in DOMAIN seen', Len(p) > 1 PROVE Exists(Front(p))'
    <3>1. CASE p \in DOMAIN seen
      <4>1. Exists(Front(p)) BY <2>5, <3>1 DEF TreeInv, TreeShape
      <4> QED BY <1>2, <4>1
    <3>2. CASE p \in {Cohort, Plan, Briefing}
      <4>1. p # Cohort
        <5>1. Len(Cohort) = 1 BY Places
        <5>2. ~(Len(Cohort) > 1) BY <5>1
        <5> QED BY <2>5, <5>2
      <4>2. Front(p) = Cohort BY <3>2, <4>1, Places
      <4> QED BY <1>2, <4>2
    <3> QED BY <2>2, <3>1, <3>2
  <2> QED BY <2>1, <2>4, <2>5 DEF TreeShape
<1>6. CohortSafe' BY <1>2, <1>3 DEF CohortSafe
<1>7. ~Exists(Launch)' /\ ~Exists(Settlement)' BY <1>1, <1>2, Apart
<1> QED BY <1>5, <1>6, <1>7 DEF TreeInv, LaunchSafe, SettlementSafe

(* What a power loss leaves: nothing new, nothing without its directory,   *)
(* and of what the device had everything whose directory is left.          *)
Leaves ==
  /\ kept' = seen'
  /\ \A p : Exists(p)' => Exists(p)
  /\ \A p \in DOMAIN seen' :
       /\ seen'[p] = seen[p] \/ (p \in DOMAIN kept /\ seen'[p] = kept[p])
       /\ Last(p) # "state" => seen'[p] = seen[p]
  /\ \A p : Exists(p)' /\ Len(p) > 1 => Exists(Front(p))'
  /\ \A p : Durable(p) /\ Len(p) > 1 /\ Exists(Front(p))' => Exists(p)'
  /\ Durable(Cohort) => Exists(Cohort)'

(* The rules of PowerFails, one name at a time.                            *)
LEMMA LossLeaves ==
  ASSUME IInv, TreeInv, PowerFails PROVE Leaves
<1>1. PICK lucky \in SUBSET {p \in DOMAIN seen :
                              p \in DOMAIN kept => kept[p] # seen[p]} :
        /\ seen' = [p \in Reachable(lucky \cup DOMAIN kept) |->
                      IF p \in lucky THEN seen[p] ELSE kept[p]]
        /\ kept' = seen'
  BY DEF PowerFails
<1> DEFINE left == lucky \cup DOMAIN kept
<1>2. DOMAIN seen' = Reachable(left) /\ Reachable(left) \subseteq left
  BY <1>1 DEF Reachable
<1>3. left \subseteq DOMAIN seen BY <1>1 DEF IInv, KeptAgrees
<1>4. \A p \in left : p \in Seq(Names) BY <1>3 DEF TreeInv, TreeShape
<1>5. \A p \in DOMAIN seen' :
        seen'[p] = seen[p] \/ (p \in DOMAIN kept /\ seen'[p] = kept[p])
  BY <1>1, <1>2
<1>6. \A p \in DOMAIN seen' : Last(p) # "state" => seen'[p] = seen[p]
  BY <1>2, <1>3, PowerLossSafe
<1>7. ASSUME NEW p \in left, Len(p) > 1
      PROVE  p \in DOMAIN seen' <=> Front(p) \in DOMAIN seen'
  <2>1. p \in Seq(Names) BY <1>4
  <2>2. p \in Reachable(left) <=> p \in left /\ Front(p) \in Reachable(left)
    BY <1>7, <2>1, ReachableFront
  <2> QED BY <1>2, <2>2
<1>8. Durable(Cohort) => Exists(Cohort)'
  BY <1>2, ReachableCohort DEF Durable, Exists
<1> HIDE DEF left
<1>9. \A p : Exists(p)' => p \in left /\ Exists(p)
  BY <1>2, <1>3 DEF Exists
<1>10. \A p : Durable(p) => p \in left BY DEF left, Durable
<1>11. \A p : Exists(p)' /\ Len(p) > 1 => Exists(Front(p))'
  BY <1>7, <1>9 DEF Exists
<1>12. \A p : Durable(p) /\ Len(p) > 1 /\ Exists(Front(p))' => Exists(p)'
  BY <1>7, <1>10 DEF Exists
<1> QED BY <1>1, <1>5, <1>6, <1>8, <1>9, <1>11, <1>12 DEF Leaves

(* A launch that is left has all its layout left.                          *)
LEMMA LeavesInner ==
  ASSUME TreeInv, Leaves, Exists(Launch), Exists(Runtime)'
  PROVE  \A p \in Inner : Exists(p)'
<1>1. ASSUME NEW p, Durable(p), Len(p) > 1, Exists(Front(p))' PROVE Exists(p)'
  BY <1>1 DEF Leaves
<1>2. \A p \in Inner : Durable(p) BY DEF TreeInv, LaunchSafe
<1>3. Len(SessionsRoot) > 1 /\ Front(SessionsRoot) = Runtime BY RuntimePlaces
<1>4. Exists(SessionsRoot)'
  <2>1. SessionsRoot \in Inner BY DEF Inner
  <2> QED BY <1>1, <1>2, <1>3, <2>1
<1>5. ASSUME NEW s \in Sessions PROVE Exists(Root(s))'
  <2>1. Root(s) \in Inner BY DEF Inner
  <2>2. Len(Root(s)) > 1 /\ Front(Root(s)) = SessionsRoot BY RootPlace
  <2> QED BY <1>1, <1>2, <1>4, <2>1, <2>2
<1>6. ASSUME NEW s \in Sessions, NEW x \in Parts PROVE Exists(Append(Root(s), x))'
  <2> DEFINE p == Append(Root(s), x)
  <2>1. p \in Inner BY DEF Inner
  <2>2. Len(p) = 5 /\ Front(p) = Root(s) BY PartPlace
  <2> HIDE DEF p
  <2>3. Exists(Front(p))' BY <1>5, <2>2
  <2>4. Len(p) > 1 BY <2>2
  <2>5. Durable(p) BY <1>2, <2>1
  <2>6. Exists(p)' BY <1>1, <2>3, <2>4, <2>5, Zenon
  <2> QED BY <2>6 DEF p
<1> QED
  <2> SUFFICES ASSUME NEW p \in Inner PROVE Exists(p)' OBVIOUS
  <2>1. CASE p \in {Runtime, SessionsRoot} BY <1>4, <2>1
  <2>2. CASE \E s \in Sessions : p = Root(s) BY <1>5, <2>2
  <2>3. CASE \E s \in Sessions, x \in Parts : p = Append(Root(s), x)
    BY <1>6, <2>3
  <2> QED BY <2>1, <2>2, <2>3 DEF Inner

(* A power loss leaves a whole tree.                                       *)
LEMMA LossTree ==
  ASSUME TreeInv, Leaves PROVE TreeInv'
<1>1. ASSUME NEW p, Durable(p), Len(p) > 1, Exists(Front(p))' PROVE Exists(p)'
  BY <1>1 DEF Leaves
<1>2. ASSUME NEW p, Exists(p)', Len(p) > 1 PROVE Exists(Front(p))'
  BY <1>2 DEF Leaves
<1>3. /\ Len(Runtime) > 1 /\ Front(Runtime) = Cohort
      /\ Len(Launch) > 1 /\ Front(Launch) = Runtime
      /\ Len(Settlement) > 1 /\ Front(Settlement) = Runtime
      /\ Len(Plan) > 1 /\ Front(Plan) = Cohort
      /\ Len(Briefing) > 1 /\ Front(Briefing) = Cohort
  BY RuntimePlaces, Places
<1>4. /\ Last(Plan) # "state" /\ Last(Briefing) # "state" /\ Last(Launch) # "state"
      /\ Last(Settlement) # "state" /\ \A s \in Sessions : Last(Receipt(s)) # "state"
  BY RuntimePlaces, SessionPlaces
<1>5. ASSUME NEW p, Exists(p)', Last(p) # "state" PROVE seen'[p] = seen[p]
  BY <1>5 DEF Leaves, Exists
<1>6. \A p : Exists(p)' => Exists(p) BY DEF Leaves
<1>7. \A p : Durable(p)' <=> Exists(p)' BY DEF Leaves, Durable, Exists
<1>8. TreeShape'
  <2>1. \A p \in DOMAIN seen' : seen'[p].by \in Parties
    BY <1>6 DEF TreeInv, TreeShape, Leaves, Exists
  <2>2. \A p \in DOMAIN seen' : p \in Seq(Names) /\ p # <<>>
    BY <1>6 DEF TreeInv, TreeShape, Exists
  <2>3. \A p \in DOMAIN kept' : kept'[p].by \in Parties BY <2>1 DEF Leaves
  <2>4. \A p \in DOMAIN seen' : Len(p) > 1 => Exists(Front(p))'
    BY <1>2 DEF Exists
  <2> QED BY <2>1, <2>2, <2>3, <2>4 DEF TreeShape
<1>9. CohortSafe'
  <2> SUFFICES ASSUME Exists(Cohort)'
               PROVE  /\ Exists(Plan)' /\ Exists(Briefing)'
                      /\ seen'[Plan] = seen'[Briefing] /\ seen'[Plan].by \in Planners
    BY <1>7 DEF CohortSafe
  <2>1. /\ Durable(Plan) /\ Durable(Briefing) /\ seen[Plan] = seen[Briefing]
        /\ seen[Plan].by \in Planners
    BY <1>6 DEF TreeInv, CohortSafe
  <2>2. Exists(Plan)' /\ Exists(Briefing)' BY <1>1, <1>3, <2>1
  <2> QED BY <1>4, <1>5, <2>1, <2>2
<1>10. ASSUME Exists(Launch)'
       PROVE  /\ Exists(Launch) /\ Exists(Plan)' /\ seen'[Launch] = seen[Launch]
              /\ seen'[Plan] = seen[Plan] /\ \A p \in Inner : Exists(p)'
  <2>1. Exists(Launch) BY <1>6, <1>10
  <2>2. Exists(Runtime)' BY <1>2, <1>3, <1>10
  <2>3. Exists(Plan)' BY <1>2, <1>3, <1>9, <2>2 DEF CohortSafe
  <2>4. \A p \in Inner : Exists(p)' BY <2>1, <2>2, LeavesInner
  <2> QED BY <1>4, <1>5, <1>10, <2>1, <2>3, <2>4
<1>11. LaunchSafe'
  <2> SUFFICES ASSUME Exists(Launch)' PROVE LaunchSafe' BY DEF LaunchSafe
  <2>1. \A p \in Inner : seen[p].by = seen[Launch].by /\ kept[p].by = seen[Launch].by
    BY <1>10 DEF TreeInv, LaunchSafe
  <2>2. \A p \in Inner : seen'[p].by = seen[Launch].by
    BY <1>10, <2>1 DEF Leaves, Exists
  <2>3. \A p \in Inner : kept'[p].by = seen[Launch].by BY <2>2 DEF Leaves
  <2>4. \A s \in Sessions : Exists(Receipt(s))' =>
          Exists(Receipt(s)) /\ seen'[Receipt(s)] = seen[Receipt(s)]
    BY <1>4, <1>5, <1>6
  <2>5. \A p \in Inner : Durable(p)' BY <1>7, <1>10
  <2> QED
    BY <1>10, <2>2, <2>3, <2>4, <2>5 DEF TreeInv, LaunchSafe, LaunchAccepted
<1>12. SettlementSafe'
  <2> SUFFICES ASSUME Exists(Settlement)' PROVE SettlementSafe' BY DEF SettlementSafe
  <2>1. Exists(Settlement) /\ seen'[Settlement] = seen[Settlement]
    BY <1>4, <1>5, <1>6
  <2>2. Exists(Launch)'
    <3>1. Exists(Runtime)' BY <1>2, <1>3
    <3>2. Durable(Launch) BY <2>1 DEF TreeInv, SettlementSafe
    <3> QED BY <1>1, <1>3, <3>1, <3>2
  <2>3. Durable(Launch)' /\ seen'[Launch] = seen[Launch] BY <1>7, <1>10, <2>2
  <2>4. ASSUME NEW s \in Sessions
        PROVE  /\ Exists(Receipt(s))' /\ Durable(Receipt(s))'
               /\ seen'[Receipt(s)] = seen[Receipt(s)]
    <3>1. Exists(Root(s))'
      <4>1. Root(s) \in Inner BY Apart
      <4> QED BY <1>10, <2>2, <4>1
    <3>2. Durable(Receipt(s)) BY <2>1 DEF TreeInv, SettlementSafe
    <3>3. Len(Receipt(s)) > 1 /\ Front(Receipt(s)) = Root(s)
      <4>1. Len(Receipt(s)) = 5 /\ Front(Receipt(s)) = Root(s)
        BY SessionPlaces, Zenon
      <4> QED BY <4>1
    <3>4. Exists(Receipt(s))' BY <1>1, <3>1, <3>2, <3>3
    <3> QED BY <1>4, <1>5, <1>7, <3>4
  <2> QED BY <2>1, <2>2, <2>3, <2>4 DEF TreeInv, SettlementSafe, ReceiptOf
<1> QED BY <1>8, <1>9, <1>11, <1>12 DEF TreeInv

-----------------------------------------------------------------------------
(* What a caller was told is on the device.                                *)
PromiseInv ==
  /\ ReportedStays
  /\ promised # {} => Durable(Cohort) /\ Durable(Settlement) /\ Exists(Settlement)

(* Nothing but a power loss could touch it.                                *)
LEMMA PromiseStays ==
  ASSUME PromiseInv, Grows, DOMAIN kept \subseteq DOMAIN kept', promised' = promised
  PROVE  PromiseInv'
<1>1. Last(Launch) # "state" /\ Last(Settlement) # "state" BY RuntimePlaces
<1>2. \A s \in Sessions : Last(Receipt(s)) # "state" BY SessionPlaces
<1>3. \A p : Exists(p) => Exists(p)' BY DEF Grows, Exists
<1>4. ReportedStays'
  <2> SUFFICES ASSUME NEW p \in promised
               PROVE  /\ Exists(Launch)' /\ seen'[Launch].by = p.by
                      /\ seen'[Launch].plan = p.plan /\ Exists(Settlement)'
                      /\ seen'[Settlement] = [by |-> p.by, rows |-> p.rows]
                      /\ \A s \in Sessions : /\ Exists(Receipt(s))'
                           /\ seen'[Receipt(s)] = ReceiptOf(p.by, p.rows[s])
    BY DEF ReportedStays, ReceiptOf
  <2>1. Exists(Launch) /\ Exists(Settlement) /\ \A s \in Sessions : Exists(Receipt(s))
    BY DEF PromiseInv, ReportedStays
  <2>2. /\ seen'[Launch] = seen[Launch] /\ seen'[Settlement] = seen[Settlement]
        /\ \A s \in Sessions : seen'[Receipt(s)] = seen[Receipt(s)]
    BY <1>1, <1>2, <2>1 DEF Grows, Exists
  <2> QED BY <1>3, <2>1, <2>2 DEF PromiseInv, ReportedStays
<1> QED BY <1>3, <1>4 DEF PromiseInv, Durable

(* A power loss cannot either.                                             *)
LEMMA LossPromise ==
  ASSUME TreeInv, PromiseInv, Leaves, promised' = promised
  PROVE  PromiseInv'
<1> SUFFICES ASSUME promised # {} PROVE PromiseInv'
  BY DEF PromiseInv, ReportedStays
<1>1. ASSUME NEW p, Durable(p), Len(p) > 1, Exists(Front(p))' PROVE Exists(p)'
  BY <1>1 DEF Leaves
<1>2. ASSUME NEW p, Exists(p)', Last(p) # "state" PROVE seen'[p] = seen[p]
  BY <1>2 DEF Leaves, Exists
<1>3. /\ Durable(Settlement) /\ Durable(Cohort) /\ Exists(Launch) /\ Durable(Launch)
      /\ Durable(Runtime) /\ \A s \in Sessions : Durable(Receipt(s))
  BY DEF PromiseInv, TreeInv, SettlementSafe, LaunchSafe, Inner
<1>4. /\ Len(Runtime) > 1 /\ Front(Runtime) = Cohort
      /\ Len(Launch) > 1 /\ Front(Launch) = Runtime
      /\ Len(Settlement) > 1 /\ Front(Settlement) = Runtime
  BY RuntimePlaces
<1>5. Exists(Cohort)' BY <1>3 DEF Leaves
<1>6. Exists(Runtime)' BY <1>1, <1>3, <1>4, <1>5
<1>7. Exists(Launch)' /\ Exists(Settlement)' BY <1>1, <1>3, <1>4, <1>6
<1>8. ASSUME NEW s \in Sessions PROVE Exists(Receipt(s))'
  <2>1. Exists(Root(s))'
    <3>1. Root(s) \in Inner BY Apart
    <3> QED BY <1>3, <1>6, <3>1, LeavesInner
  <2>2. Len(Receipt(s)) > 1 /\ Front(Receipt(s)) = Root(s)
    <3>1. Len(Receipt(s)) = 5 /\ Front(Receipt(s)) = Root(s)
      BY SessionPlaces, Zenon
    <3> QED BY <3>1
  <2> QED BY <1>1, <1>3, <2>1, <2>2
<1>9. Last(Launch) # "state" /\ Last(Settlement) # "state" BY RuntimePlaces
<1>10. \A s \in Sessions : Last(Receipt(s)) # "state" BY SessionPlaces
<1>11. /\ seen'[Launch] = seen[Launch] /\ seen'[Settlement] = seen[Settlement]
       /\ \A s \in Sessions : seen'[Receipt(s)] = seen[Receipt(s)]
  BY <1>2, <1>7, <1>8, <1>9, <1>10
<1>12. ReportedStays'
  <2>1. \A p \in promised :
          /\ seen'[Launch].by = p.by /\ seen'[Launch].plan = p.plan
          /\ seen'[Settlement] = [by |-> p.by, rows |-> p.rows]
          /\ \A s \in Sessions : seen'[Receipt(s)] = ReceiptOf(p.by, p.rows[s])
    BY <1>11 DEF PromiseInv, ReportedStays
  <2> QED BY <1>7, <1>8, <2>1 DEF ReportedStays, ReceiptOf
<1> QED BY <1>5, <1>7, <1>12 DEF PromiseInv, Leaves, Durable, Exists

-----------------------------------------------------------------------------
(* The launchers.  The lock lets one at a time past its claim; the others  *)
(* have nothing in the tree.                                               *)
Stages == {"idle", "ready", "laying", "serving", "settling", "ended"}
Plans == [plan : Planners \cup {Nobody}, pinned : BOOLEAN]
Outcomes == Verdicts \cup {"none", "lost", "CANCELLED"}

ShapeInv ==
  /\ run \in [Launchers -> Stages]
  /\ bundle \in [Launchers -> Plans]
  /\ holder \in Launchers \cup {Nobody}
  /\ at \in [Launchers -> Nat]
  /\ doing \in [Launchers -> Seq(Names)]
  /\ stage \in [Launchers -> [Sessions -> 0..Swept]]
  /\ index \in [Launchers -> [Sessions -> Outcomes]]
  /\ broken \subseteq Launchers

Active(l) == run[l] \in {"laying", "serving", "settling"}

LockInv == \A l \in Launchers : Active(l) <=> holder = l

Fresh(l) ==
  l \notin broken /\ \A s \in Sessions : stage[l][s] = 0 /\ index[l][s] = "none"

QuietInv(l) == ~Active(l) => Fresh(l) /\ at[l] = 0 /\ doing[l] = <<>>

ReadyInv(l) ==
  run[l] = "ready" \/ Active(l) => Exists(Cohort) /\ bundle[l].plan = seen[Plan].by

Mine(l, p) == Exists(p) /\ seen[p].by = l

(* What is made of the layout is this launcher's and durable, and nothing  *)
(* but the layout is there.                                                *)
Laid(l) ==
  \A n \in 1..at[l] :
    Mine(l, Layout[n]) /\ Durable(Layout[n]) /\ kept[Layout[n]].by = l

Bare(l) ==
  /\ ~Exists(Settlement) /\ \A s \in Sessions : ~Exists(Receipt(s))
  /\ Exists(Launch) => doing[l] = Launch /\ seen[Launch] = LaunchOf(l)

LayingInv(l) ==
  run[l] = "laying" =>
    /\ at[l] < Len(Layout) /\ Fresh(l)
    /\ doing[l] # <<>> => doing[l] = Layout[at[l] + 1] /\ Mine(l, doing[l])
    /\ Laid(l)
    /\ at[l] # 0 \/ doing[l] # <<>> => Bare(l)

(* What is on its way to the device.                                       *)
DoingInv(l) ==
  doing[l] # <<>> =>
    /\ Exists(doing[l])
    /\ \/ run[l] = "serving" /\ \E s \in Sessions : doing[l] \in {State(s), Input(s)}
       \/ \E s \in Sessions : doing[l] = Receipt(s)
       \/ run[l] = "settling" /\ doing[l] = Settlement

(* A receipt in memory has its file.                                       *)
IndexInv(l) ==
  \A s \in Sessions :
    /\ index[l][s] \notin {"none", "lost"} =>
         Exists(Receipt(s)) /\ (doing[l] # Receipt(s) => Durable(Receipt(s)))
    /\ index[l][s] = "lost" => l \in broken
    /\ stage[l][s] = Swept => run[l] = "settling" /\ index[l][s] # "none"

OwnsInv(l) ==
  /\ at[l] = Len(Layout)
  /\ Mine(l, Launch) /\ Durable(Launch) /\ seen[Launch].plan = bundle[l].plan

SettledInv(l) ==
  /\ Exists(Settlement) => doing[l] = Settlement
  /\ doing[l] = Settlement => seen[Settlement] = SettlementOf(l)

ServingInv(l) ==
  run[l] \in {"serving", "settling"} =>
    OwnsInv(l) /\ DoingInv(l) /\ IndexInv(l) /\ SettledInv(l)

LauncherInv(l) == QuietInv(l) /\ ReadyInv(l) /\ LayingInv(l) /\ ServingInv(l)

WorldInv ==
  /\ IInv /\ TreeInv /\ PromiseInv /\ ShapeInv /\ LockInv
  /\ \A l \in Launchers : LauncherInv(l)

(* A step that is not a launcher's own.                                    *)
Same(m) ==
  /\ run'[m] = run[m] /\ bundle'[m] = bundle[m] /\ at'[m] = at[m]
  /\ doing'[m] = doing[m] /\ stage'[m] = stage[m] /\ index'[m] = index[m]
  /\ m \in broken' <=> m \in broken

(* A step of one launcher.                                                 *)
Elsewhere(l) == \A m \in Launchers : m # l => Same(m)

(* While one is past its claim, the others keep what they have: nothing.   *)
LEMMA OthersQuiet ==
  ASSUME WorldInv, Grows, NEW l \in Launchers, Active(l),
         NEW m \in Launchers, m # l, Same(m)
  PROVE  LauncherInv(m)'
<1>1. ~Active(m) BY DEF WorldInv, LockInv
<1>2. ~Active(m)' BY <1>1 DEF Active, Same
<1>3. Fresh(m) /\ at[m] = 0 /\ doing[m] = <<>>
  BY <1>1 DEF WorldInv, LauncherInv, QuietInv
<1>4. QuietInv(m)' BY <1>3 DEF QuietInv, Fresh, Same
<1>5. run[m] = "ready" => Exists(Cohort) /\ bundle[m].plan = seen[Plan].by
  BY DEF WorldInv, LauncherInv, ReadyInv
<1>6. Exists(Cohort) => Exists(Plan) BY DEF WorldInv, TreeInv, CohortSafe
<1>7. /\ Exists(Cohort) => Exists(Cohort)'
      /\ Exists(Plan) => seen'[Plan] = seen[Plan]
  BY Places DEF Grows, Exists
<1>8. ReadyInv(m)' BY <1>2, <1>5, <1>6, <1>7 DEF ReadyInv, Same
<1>9. LayingInv(m)' BY <1>2 DEF LayingInv, Active
<1>10. ServingInv(m)' BY <1>2 DEF ServingInv, Active
<1> QED BY <1>4, <1>8, <1>9, <1>10 DEF LauncherInv

(* While nothing new is seen, everybody keeps what they have.              *)
LEMMA OthersStill ==
  ASSUME NEW m, LauncherInv(m), seen' = seen, KeptGoes, Same(m)
  PROVE  LauncherInv(m)'
<1>1. \A p : Exists(p)' <=> Exists(p) BY DEF Exists
<1>2. \A p : Durable(p) => Durable(p)' BY DEF Durable, KeptGoes
<1>3. \A p : Mine(m, p)' <=> Mine(m, p) BY <1>1 DEF Mine
<1>4. QuietInv(m)' BY DEF LauncherInv, QuietInv, Fresh, Active, Same
<1>5. ReadyInv(m)' BY <1>1 DEF LauncherInv, ReadyInv, Active, Same
<1>6. LayingInv(m)'
  <2> SUFFICES ASSUME run[m] = "laying" PROVE LayingInv(m)' BY DEF LayingInv, Same
  <2>1. /\ at[m] < Len(Layout) /\ Fresh(m)
        /\ doing[m] # <<>> => doing[m] = Layout[at[m] + 1] /\ Mine(m, doing[m])
        /\ Laid(m) /\ (at[m] # 0 \/ doing[m] # <<>> => Bare(m))
    BY DEF LauncherInv, LayingInv
  <2>2. Fresh(m)' BY <2>1 DEF Fresh, Same
  <2>3. Laid(m)'
    <3>1. \A p : Mine(m, p) /\ Durable(p) /\ kept[p].by = m => kept'[p].by = m
      BY DEF KeptGoes, Durable, Mine
    <3> QED BY <1>2, <1>3, <2>1, <3>1 DEF Laid, Same
  <2>4. Bare(m) => Bare(m)' BY <1>1 DEF Bare, LaunchOf, Same
  <2>5. doing[m] # <<>> => doing'[m] = Layout[at'[m] + 1] /\ Mine(m, doing[m])'
    BY <1>3, <2>1 DEF Same
  <2> QED BY <2>1, <2>2, <2>3, <2>4, <2>5 DEF LayingInv, Same, Mine, Exists
<1>7. ServingInv(m)'
  <2> SUFFICES ASSUME run[m] \in {"serving", "settling"} PROVE ServingInv(m)'
    BY DEF ServingInv, Same
  <2>1. OwnsInv(m) /\ DoingInv(m) /\ IndexInv(m) /\ SettledInv(m)
    BY DEF LauncherInv, ServingInv
  <2>2. OwnsInv(m)' BY <1>2, <1>3, <2>1 DEF OwnsInv, Same
  <2>3. DoingInv(m)' BY <2>1 DEF DoingInv, Same, Exists
  <2>4. IndexInv(m)' BY <1>1, <1>2, <2>1 DEF IndexInv, Same
  <2>5. SettledInv(m)' BY <1>1, <2>1 DEF SettledInv, SettlementOf, Same
  <2> QED BY <2>2, <2>3, <2>4, <2>5 DEF ServingInv
<1> QED BY <1>4, <1>5, <1>6, <1>7 DEF LauncherInv

(* The lock stays where it is.                                             *)
LEMMA LockStays ==
  ASSUME LockInv, NEW l \in Launchers, Elsewhere(l), Active(l)' <=> Active(l),
         holder' = holder
  PROVE  LockInv'
<1> SUFFICES ASSUME NEW m \in Launchers PROVE Active(m)' <=> Active(m)
  BY DEF LockInv
<1>1. CASE m = l BY <1>1
<1>2. CASE m # l BY <1>2 DEF Elsewhere, Same, Active
<1> QED BY <1>1, <1>2

(* run_prepared_cohort ends: nothing of it is left in memory.              *)
LEMMA LeaveEnds ==
  ASSUME ShapeInv, LockInv, NEW l \in Launchers, Leave(l)
  PROVE  /\ ShapeInv' /\ LockInv' /\ Elsewhere(l) /\ QuietInv(l)'
         /\ run'[l] = "ended"
<1>1. ShapeInv'
  <2>1. run' \in [Launchers -> Stages] BY DEF Leave, ShapeInv, Stages
  <2>2. bundle' \in [Launchers -> Plans] BY DEF Leave, ShapeInv, Plans, NoBundle
  <2>3. holder' \in Launchers \cup {Nobody} BY DEF Leave, ShapeInv, Released
  <2>4. at' \in [Launchers -> Nat] BY DEF Leave, ShapeInv
  <2>5. doing' \in [Launchers -> Seq(Names)]
    <3>1. <<>> \in Seq(Names) OBVIOUS
    <3> QED BY <3>1 DEF Leave, ShapeInv
  <2>6. stage' \in [Launchers -> [Sessions -> 0..Swept]]
    <3>1. [s \in Sessions |-> 0] \in [Sessions -> 0..Swept]
      <4>1. 0 \in 0..Swept BY DEF Swept, Over, Progress
      <4> QED BY <4>1
    <3> QED BY <3>1 DEF Leave, ShapeInv
  <2>7. index' \in [Launchers -> [Sessions -> Outcomes]]
    <3>1. [s \in Sessions |-> "none"] \in [Sessions -> Outcomes] BY DEF Outcomes
    <3> QED BY <3>1 DEF Leave, ShapeInv
  <2>8. broken' \subseteq Launchers BY DEF Leave, ShapeInv
  <2> QED BY <2>1, <2>2, <2>3, <2>4, <2>5, <2>6, <2>7, <2>8 DEF ShapeInv
<1>2. Elsewhere(l) BY DEF Leave, ShapeInv, Elsewhere, Same
<1>3. /\ run'[l] = "ended" /\ at'[l] = 0 /\ doing'[l] = <<>> /\ l \notin broken'
      /\ stage'[l] = [s \in Sessions |-> 0]
      /\ index'[l] = [s \in Sessions |-> "none"]
  BY DEF Leave, ShapeInv
<1>4. QuietInv(l)' BY <1>3 DEF QuietInv, Fresh
<1>5. LockInv'
  <2> SUFFICES ASSUME NEW m \in Launchers PROVE Active(m)' <=> holder' = m
    BY DEF LockInv
  <2>1. holder' = IF holder = l THEN Nobody ELSE holder BY DEF Leave, Released
  <2>2. CASE m = l BY <1>3, <2>1, <2>2, CohortAssumption DEF Active
  <2>3. CASE m # l
    <3>1. Active(m)' <=> Active(m) BY <1>2, <2>3 DEF Elsewhere, Same, Active
    <3> QED BY <2>1, <2>3, <3>1, CohortAssumption DEF LockInv
  <2> QED BY <2>2, <2>3
<1> QED BY <1>1, <1>2, <1>3, <1>4, <1>5

-----------------------------------------------------------------------------
(* What every step has to bring about, besides IInv.                       *)
NextWorld ==
  /\ TreeInv' /\ PromiseInv' /\ ShapeInv' /\ LockInv'
  /\ \A m \in Launchers : LauncherInv(m)'

(* A step after which nothing new is seen.                                 *)
LEMMA StillSafe ==
  ASSUME WorldInv, seen' = seen, KeptGoes
  PROVE  Grows /\ TreeInv' /\ (promised' = promised => PromiseInv')
<1>1. Grows BY DEF Grows
<1>2. TreeInv' BY StillTree DEF WorldInv
<1>3. DOMAIN kept \subseteq DOMAIN kept' BY DEF KeptGoes
<1> QED BY <1>1, <1>2, <1>3, PromiseStays DEF WorldInv

(* An end of run_prepared_cohort that publishes nothing.                   *)
LEMMA LeaveSafe ==
  ASSUME WorldInv, NEW l \in Launchers, Leave(l), seen' = seen, KeptGoes,
         PromiseInv'
  PROVE  NextWorld
<1>1. /\ ShapeInv' /\ LockInv' /\ Elsewhere(l) /\ QuietInv(l)'
      /\ run'[l] = "ended"
  BY LeaveEnds DEF WorldInv
<1>2. LauncherInv(l)'
  BY <1>1 DEF LauncherInv, ReadyInv, LayingInv, ServingInv, Active
<1>3. ASSUME NEW m \in Launchers, m # l PROVE LauncherInv(m)'
  <2>1. Same(m) BY <1>1, <1>3 DEF Elsewhere
  <2>2. LauncherInv(m) BY DEF WorldInv
  <2> QED BY <2>1, <2>2, OthersStill
<1>4. TreeInv' BY StillSafe
<1> QED BY <1>1, <1>2, <1>3, <1>4 DEF NextWorld

(* The device is as it was.                                                *)
LEMMA KeptStill == ASSUME kept' = kept PROVE KeptGoes
BY DEF KeptGoes

(* An end that changes no file at all.                                     *)
LEMMA LeaveStill ==
  ASSUME WorldInv, NEW l \in Launchers, Leave(l), seen' = seen, kept' = kept,
         promised' = promised
  PROVE  NextWorld
<1>1. KeptGoes BY KeptStill
<1>2. PromiseInv' BY <1>1, StillSafe
<1> QED BY <1>1, <1>2, LeaveSafe

(* A launcher's own step that ends nothing, past its claim or before it.   *)
LEMMA OwnStep ==
  ASSUME WorldInv, NEW l \in Launchers, Elsewhere(l), LauncherInv(l)',
         TreeInv', PromiseInv', ShapeInv', LockInv',
         (seen' = seen /\ KeptGoes) \/ (Grows /\ Active(l))
  PROVE  NextWorld
<1>1. ASSUME NEW m \in Launchers, m # l PROVE LauncherInv(m)'
  <2>1. Same(m) BY <1>1 DEF Elsewhere
  <2>2. LauncherInv(m) BY DEF WorldInv
  <2> QED BY <1>1, <2>1, <2>2, OthersStill, OthersQuiet
<1> QED BY <1>1 DEF NextWorld

(* authenticate_plan_bundle                                                *)
LEMMA AuthenticateSafe ==
  ASSUME WorldInv, NEW l \in Launchers, Authenticate(l)
  PROVE  NextWorld
<1>1. /\ seen' = seen /\ kept' = kept /\ promised' = promised /\ holder' = holder
      /\ at' = at /\ doing' = doing /\ stage' = stage /\ index' = index
      /\ broken' = broken /\ run[l] = "idle" /\ Loadable
      /\ run' = [run EXCEPT ![l] = "ready"]
  BY DEF Authenticate, treeVars
<1>2. PICK b \in Bound : bundle' = [bundle EXCEPT ![l] = b] BY DEF Authenticate
<1>3. /\ run \in [Launchers -> Stages] /\ bundle \in [Launchers -> Plans]
  BY DEF WorldInv, ShapeInv
<1>4. /\ run'[l] = "ready" /\ bundle'[l] = b
      /\ \A m \in Launchers : m # l => run'[m] = run[m] /\ bundle'[m] = bundle[m]
  BY <1>1, <1>2, <1>3
<1>5. Elsewhere(l) BY <1>1, <1>4 DEF Elsewhere, Same
<1>6. Exists(Cohort) /\ Exists(Plan)
  BY <1>1 DEF Loadable, WorldInv, IInv, Sheltered
<1>7. b.plan = seen[Plan].by /\ b \in Plans
  <2>1. seen[Plan].by \in Planners BY <1>6 DEF WorldInv, TreeInv, CohortSafe
  <2> QED BY <2>1 DEF Bound, Plans
<1>8. ShapeInv'
  <2>1. run' \in [Launchers -> Stages]
    <3>1. "ready" \in Stages BY DEF Stages
    <3> QED BY <1>1, <1>3, <3>1
  <2>2. bundle' \in [Launchers -> Plans] BY <1>2, <1>3, <1>7
  <2> QED BY <1>1, <2>1, <2>2 DEF WorldInv, ShapeInv
<1>9. ~Active(l) /\ ~Active(l)' BY <1>1, <1>4 DEF Active
<1>10. LockInv' BY <1>1, <1>5, <1>9, LockStays DEF WorldInv
<1>11. LauncherInv(l)'
  <2>1. QuietInv(l)'
    BY <1>1, <1>9 DEF WorldInv, LauncherInv, QuietInv, Fresh
  <2>2. ReadyInv(l)' BY <1>1, <1>4, <1>6, <1>7 DEF ReadyInv, Exists
  <2> QED BY <1>9, <2>1, <2>2 DEF LauncherInv, LayingInv, ServingInv, Active
<1>12. KeptGoes BY <1>1, KeptStill
<1>13. TreeInv' /\ PromiseInv' BY <1>1, <1>12, StillSafe
<1> QED BY <1>1, <1>5, <1>8, <1>10, <1>11, <1>12, <1>13, OwnStep

(* RuntimeClaim.acquire                                                    *)
LEMMA ClaimSafe ==
  ASSUME WorldInv, NEW l \in Launchers, Claim(l)
  PROVE  NextWorld
<1>1. seen' = seen /\ promised' = promised /\ run[l] = "ready" BY DEF Claim
<1>2. CASE holder # Nobody
  <2>1. Leave(l) /\ kept' = kept BY <1>2 DEF Claim
  <2> QED BY <1>1, <2>1, LeaveStill
<1>3. CASE holder = Nobody
  <2>1. /\ holder' = l /\ run' = [run EXCEPT ![l] = "laying"] /\ SyncDirectory(Cohort)
        /\ bundle' = bundle /\ at' = at /\ doing' = doing /\ stage' = stage
        /\ index' = index /\ broken' = broken
    BY <1>3 DEF Claim, memoryVars
  <2>2. KeptGoes BY <2>1, SyncGoes
  <2>3. run \in [Launchers -> Stages] BY DEF WorldInv, ShapeInv
  <2>4. run'[l] = "laying" /\ \A m \in Launchers : m # l => run'[m] = run[m]
    BY <2>1, <2>3
  <2>5. Elsewhere(l) BY <2>1, <2>4 DEF Elsewhere, Same
  <2>6. ShapeInv'
    <3>1. run' \in [Launchers -> Stages]
      <4>1. "laying" \in Stages BY DEF Stages
      <4> QED BY <2>1, <2>3, <4>1
    <3>2. holder' \in Launchers \cup {Nobody} BY <2>1
    <3> QED BY <2>1, <3>1, <3>2 DEF WorldInv, ShapeInv
  <2>7. LockInv'
    <3> SUFFICES ASSUME NEW m \in Launchers PROVE Active(m)' <=> holder' = m
      BY DEF LockInv
    <3>1. CASE m = l BY <2>1, <2>4, <3>1 DEF Active
    <3>2. CASE m # l
      <4>1. ~Active(m) BY <1>3, CohortAssumption DEF WorldInv, LockInv
      <4> QED BY <2>1, <2>4, <3>2, <4>1 DEF Active
    <3> QED BY <3>1, <3>2
  <2>8. ~Active(l) /\ Active(l)' BY <1>1, <2>4 DEF Active
  <2>9. Fresh(l) /\ at[l] = 0 /\ doing[l] = <<>>
    BY <2>8 DEF WorldInv, LauncherInv, QuietInv
  <2>10. LauncherInv(l)'
    <3>1. QuietInv(l)' BY <2>8 DEF QuietInv
    <3>2. ReadyInv(l)'
      <4>1. Exists(Cohort) /\ bundle[l].plan = seen[Plan].by
        BY <1>1 DEF WorldInv, LauncherInv, ReadyInv
      <4> QED BY <1>1, <2>1, <4>1 DEF ReadyInv, Exists
    <3>3. LayingInv(l)'
      <4>1. at'[l] = 0 /\ doing'[l] = <<>> BY <2>1, <2>9
      <4>2. Fresh(l)' BY <2>1, <2>9 DEF Fresh
      <4>3. 0 < Len(Layout) BY LayoutIs
      <4>4. Laid(l)' BY <4>1 DEF Laid
      <4> QED BY <4>1, <4>2, <4>3, <4>4 DEF LayingInv
    <3>4. ServingInv(l)' BY <2>4 DEF ServingInv
    <3> QED BY <3>1, <3>2, <3>3, <3>4 DEF LauncherInv
  <2>11. TreeInv' /\ PromiseInv' BY <1>1, <2>2, StillSafe
  <2> QED BY <1>1, <2>2, <2>5, <2>6, <2>7, <2>10, <2>11, OwnStep
<1> QED BY <1>2, <1>3

-----------------------------------------------------------------------------
(* The places of the layout are paths.                                     *)
LEMMA InnerPlaces == \A p \in Inner \cup {Launch} : p \in Seq(Names) /\ p # <<>>
<1> SUFFICES ASSUME NEW p \in Inner \cup {Launch} PROVE p \in Seq(Names) /\ Len(p) # 0
  BY NotEmpty, Zenon
<1>1. CASE p \in {Runtime, SessionsRoot, Launch}
  <2>1. p \in Seq(Names) BY <1>1, RuntimePlaces
  <2>2. p = Runtime \/ p = SessionsRoot \/ p = Launch BY <1>1
  <2>3. Len(p) = 2 \/ Len(p) = 3 BY <2>2, RuntimePlaces, Zenon
  <2> QED BY <2>1, <2>3
<1>2. ASSUME NEW s \in Sessions, p = Root(s) PROVE p \in Seq(Names) /\ Len(p) # 0
  <2>1. p \in Seq(Names) /\ Len(p) = 4 BY <1>2, RootPlace, Zenon
  <2> QED BY <2>1
<1>3. ASSUME NEW s \in Sessions, NEW x \in Parts, p = Append(Root(s), x)
      PROVE  p \in Seq(Names) /\ Len(p) # 0
  <2>1. p \in Seq(Names) /\ Len(p) = 5 BY <1>3, PartPlace, Zenon
  <2> QED BY <2>1
<1> QED BY <1>1, <1>2, <1>3 DEF Inner

(* What LayNext creates: a place of the layout, the launch last.           *)
LEMMA LayoutPlace ==
  ASSUME NEW n \in Nat, n < Len(Layout), NEW path, path = Layout[n + 1]
  PROVE  /\ path \in Seq(Names) /\ path # <<>>
         /\ path \notin {Cohort, Plan, Briefing, Settlement}
         /\ \A s \in Sessions : path # Receipt(s)
         /\ n + 1 = Len(Layout) => path = Launch
         /\ n + 1 # Len(Layout) => path \in Inner /\ path # Launch
         /\ n = 0 => path = Runtime
<1>1. n + 1 = Len(Layout) => path = Launch BY LayoutIs
<1>2. n + 1 # Len(Layout) => path \in Inner /\ path # Launch
  <2> SUFFICES ASSUME n + 1 # Len(Layout) PROVE path \in Inner
    BY Apart, Zenon
  <2>1. n + 1 \in 1..Len(Layout) - 1 BY LayoutIs
  <2> QED BY <2>1, LayoutIs
<1>3. n = 0 => path = Runtime BY LayoutIs
<1>4. path \in Inner \cup {Launch} BY <1>1, <1>2
<1>5. \A p \in Inner \cup {Launch} : p \in Seq(Names) /\ p # <<>>
  BY InnerPlaces
<1>6. \A p \in Inner \cup {Launch} :
        /\ p \notin {Cohort, Plan, Briefing, Settlement}
        /\ \A s \in Sessions : p # Receipt(s)
  BY Apart
<1> QED BY <1>1, <1>2, <1>3, <1>4, <1>5, <1>6

(* Before the first entry nothing is there; afterwards it is still bare.   *)
LEMMA BareBefore ==
  ASSUME WorldInv, NEW l \in Launchers, run[l] = "laying", doing[l] = <<>>,
         ~Exists(Layout[at[l] + 1])
  PROVE  ~Exists(Launch) /\ Bare(l)
<1>1. LayingInv(l) BY DEF WorldInv, LauncherInv
<1>2. Launch # <<>>
  <2>1. Len(Launch) # 0 BY RuntimePlaces
  <2> QED BY <2>1, NotEmpty, Zenon
<1>3. CASE at[l] # 0 BY <1>1, <1>2, <1>3 DEF LayingInv, Bare
<1>4. CASE at[l] = 0
  <2>1. ~Exists(Runtime) BY <1>4, LayoutIs
  <2>2. ~Exists(Launch) /\ ~Exists(Settlement) /\ \A s \in Sessions : ~Exists(Receipt(s))
    BY <2>1, Below DEF WorldInv, TreeInv
  <2> QED BY <2>2 DEF Bare
<1> QED BY <1>3, <1>4

(* create_launch: the next entry gets its name, or the launch is given up. *)
LEMMA LayNextSafe ==
  ASSUME WorldInv, Grows, NEW l \in Launchers, LayNext(l)
  PROVE  NextWorld
<1> DEFINE path == Layout[at[l] + 1]
           content == Content(l, path)
<1>1. run[l] = "laying" /\ doing[l] = <<>> /\ promised' = promised
  BY DEF LayNext
<1>2. CASE Exists(path) \/ ~LaunchAccepted(LaunchOf(l))
  <2>1. Leave(l) /\ seen' = seen /\ kept' = kept BY <1>2 DEF LayNext, treeVars
  <2> QED BY <1>1, <2>1, LeaveStill
<1>3. CASE ~Exists(path) /\ LaunchAccepted(LaunchOf(l))
  <2>1. /\ Link(path, content) /\ doing' = [doing EXCEPT ![l] = path]
        /\ run' = run /\ holder' = holder /\ bundle' = bundle /\ at' = at
        /\ stage' = stage /\ index' = index /\ broken' = broken
    BY <1>3 DEF LayNext
  <2>2. SyncDirectory(SessionsRoot) \/ kept' = kept BY <1>3 DEF LayNext
  <2>3. KeptGoes BY <2>2, SyncGoes, KeptStill
  <2>4. LayingInv(l) BY DEF WorldInv, LauncherInv
  <2>5. at[l] \in Nat /\ at[l] < Len(Layout)
    BY <1>1, <2>4 DEF WorldInv, ShapeInv, LayingInv
  <2>6. Laid(l) BY <1>1, <2>4 DEF LayingInv
  <2>7. /\ path \in Seq(Names) /\ path # <<>>
        /\ path \notin {Cohort, Plan, Briefing, Settlement}
        /\ \A s \in Sessions : path # Receipt(s)
        /\ at[l] + 1 = Len(Layout) => path = Launch
        /\ at[l] + 1 # Len(Layout) => path \in Inner /\ path # Launch
    BY <2>5, LayoutPlace
  <2>8. content.by = l BY DEF Content, LaunchOf, StateOf
  <2>9. path = Launch => content = LaunchOf(l) BY DEF Content
  <2>10. ~Exists(Launch) /\ Bare(l) BY <1>1, <1>3, BareBefore
  <2> HIDE DEF path, content
  <2>11. Links(path, content)
    <3>1. l \in Parties BY DEF Parties
    <3> QED BY <2>1, <2>3, <2>7, <2>8, <3>1 DEF Links
  <2>12. TreeInv'
    <3>1. CASE at[l] + 1 # Len(Layout)
      BY <2>7, <2>10, <2>11, <3>1, LinkInnerTree DEF WorldInv
    <3>2. CASE at[l] + 1 = Len(Layout)
      <4>1. path = Launch /\ content = LaunchOf(l) BY <2>7, <2>9, <3>2
      <4>2. content.plan = seen[Plan].by /\ LaunchAccepted(content)
        <5>1. bundle[l].plan = seen[Plan].by
          BY <1>1 DEF WorldInv, LauncherInv, ReadyInv, Active
        <5> QED BY <1>3, <4>1, <5>1 DEF LaunchOf
      <4>3. ASSUME NEW p \in Inner
            PROVE  /\ Exists(p) /\ seen[p].by = content.by
                   /\ Durable(p) /\ kept[p].by = content.by
        <5>1. PICK n \in 1..Len(Layout) - 1 : Layout[n] = p BY LayoutIs
        <5>2. n \in 1..at[l] BY <2>5, <3>2, LayoutIs
        <5> QED BY <2>6, <2>8, <5>1, <5>2 DEF Laid, Mine
      <4> QED BY <2>8, <2>10, <2>11, <4>1, <4>2, <4>3, LinkLaunchTree DEF WorldInv, Bare
    <3> QED BY <3>1, <3>2
  <2>13. PromiseInv'
    <3>1. DOMAIN kept \subseteq DOMAIN kept' BY <2>3 DEF KeptGoes
    <3> QED BY <1>1, <3>1, PromiseStays DEF WorldInv
  <2>14. doing \in [Launchers -> Seq(Names)] BY DEF WorldInv, ShapeInv
  <2>15. doing'[l] = path /\ \A m \in Launchers : m # l => doing'[m] = doing[m]
    BY <2>1, <2>14
  <2>16. Elsewhere(l) BY <2>1, <2>15 DEF Elsewhere, Same
  <2>17. ShapeInv'
    <3>1. doing' \in [Launchers -> Seq(Names)] BY <2>1, <2>7, <2>14
    <3> QED BY <2>1, <3>1 DEF WorldInv, ShapeInv
  <2>18. Active(l) /\ Active(l)' BY <1>1, <2>1 DEF Active
  <2>19. LockInv' BY <2>1, <2>16, <2>18, LockStays DEF WorldInv
  <2>20. /\ \A p : Exists(p)' <=> Exists(p) \/ p = path
         /\ seen'[path] = content
         /\ \A p : Exists(p) => seen'[p] = seen[p]
         /\ \A p : Durable(p) => Durable(p)'
    BY <2>11, LinkedTree DEF WorldInv
  <2>21. LauncherInv(l)'
    <3>1. QuietInv(l)' BY <2>18 DEF QuietInv
    <3>2. ReadyInv(l)'
      <4>1. Exists(Cohort) /\ bundle[l].plan = seen[Plan].by
        BY <2>18 DEF WorldInv, LauncherInv, ReadyInv
      <4>2. Exists(Plan) BY <4>1 DEF WorldInv, TreeInv, CohortSafe
      <4> QED BY <2>1, <2>20, <4>1, <4>2 DEF ReadyInv
    <3>3. LayingInv(l)'
      <4>1. Fresh(l)'
        <5>1. Fresh(l) BY <1>1, <2>4 DEF LayingInv
        <5> QED BY <2>1, <5>1 DEF Fresh
      <4>2. path \in DOMAIN seen' /\ seen'[path].by = l BY <2>8, <2>20 DEF Exists
      <4>3. Laid(l)'
        <5> SUFFICES ASSUME NEW n \in 1..at[l]
                     PROVE  /\ Mine(l, Layout[n])' /\ Durable(Layout[n])'
                            /\ kept'[Layout[n]].by = l
          BY <2>1 DEF Laid
        <5>1. Mine(l, Layout[n]) /\ Durable(Layout[n]) /\ kept[Layout[n]].by = l
          BY <2>6 DEF Laid
        <5>2. PICK p : p = Layout[n] OBVIOUS
        <5>3. Mine(l, p)' BY <2>20, <5>1, <5>2 DEF Mine
        <5>4. Durable(p)' BY <2>20, <5>1, <5>2
        <5>5. kept'[p].by = l BY <2>3, <5>1, <5>2, <5>4 DEF KeptGoes, Durable, Mine
        <5> QED BY <5>2, <5>3, <5>4, <5>5 DEF Mine, Exists, Durable
      <4>4. Bare(l)'
        <5>1. ~Exists(Settlement)' /\ \A s \in Sessions : ~Exists(Receipt(s))'
          BY <2>7, <2>10, <2>20 DEF Bare
        <5>2. Exists(Launch)' => path = Launch BY <2>10, <2>20
        <5> QED BY <2>1, <2>9, <2>15, <2>20, <5>1, <5>2 DEF Bare, LaunchOf
      <4>5. at'[l] < Len(Layout) /\ doing'[l] = Layout[at'[l] + 1]
        BY <2>1, <2>5, <2>15 DEF path
      <4>6. Mine(l, doing[l])'
        BY <2>15, <4>2 DEF Mine, Exists
      <4> QED BY <4>1, <4>3, <4>4, <4>5, <4>6 DEF LayingInv
    <3>4. ServingInv(l)' BY <1>1, <2>1 DEF ServingInv
    <3> QED BY <3>1, <3>2, <3>3, <3>4 DEF LauncherInv
  <2> QED BY <2>12, <2>13, <2>16, <2>17, <2>18, <2>19, <2>21, OwnStep
<1> QED BY <1>2, <1>3

(* Its directory is synced; with the last one the launch is served.        *)
LEMMA LaidNextSafe ==
  ASSUME WorldInv, NEW l \in Launchers, LaidNext(l)
  PROVE  NextWorld
<1>1. /\ run[l] = "laying" /\ doing[l] # <<>> /\ SyncDirectory(Front(doing[l]))
      /\ seen' = seen /\ bundle' = bundle /\ holder' = holder /\ stage' = stage
      /\ index' = index /\ broken' = broken /\ promised' = promised
      /\ doing' = [doing EXCEPT ![l] = <<>>] /\ at' = [at EXCEPT ![l] = @ + 1]
      /\ run' = [run EXCEPT ![l] = IF at'[l] = Len(Layout) THEN "serving" ELSE @]
  BY DEF LaidNext
<1>2. KeptGoes BY <1>1, SyncGoes
<1>3. /\ run \in [Launchers -> Stages] /\ at \in [Launchers -> Nat]
      /\ doing \in [Launchers -> Seq(Names)]
  BY DEF WorldInv, ShapeInv
<1>4. /\ at'[l] = at[l] + 1 /\ doing'[l] = <<>>
      /\ run'[l] = IF at[l] + 1 = Len(Layout) THEN "serving" ELSE "laying"
      /\ \A m \in Launchers : m # l => /\ run'[m] = run[m] /\ at'[m] = at[m]
                                       /\ doing'[m] = doing[m]
  BY <1>1, <1>3
<1>5. Elsewhere(l) BY <1>1, <1>4 DEF Elsewhere, Same
<1>6. ShapeInv'
  <2>1. run' \in [Launchers -> Stages]
    <3>1. "serving" \in Stages /\ run[l] \in Stages BY <1>3 DEF Stages
    <3> QED BY <1>1, <1>3, <3>1
  <2>2. at' \in [Launchers -> Nat] BY <1>1, <1>3
  <2>3. doing' \in [Launchers -> Seq(Names)]
    <3>1. <<>> \in Seq(Names) OBVIOUS
    <3> QED BY <1>1, <1>3, <3>1
  <2> QED BY <1>1, <2>1, <2>2, <2>3 DEF WorldInv, ShapeInv
<1>7. Active(l) /\ Active(l)' BY <1>1, <1>4 DEF Active
<1>8. LockInv' BY <1>1, <1>5, <1>7, LockStays DEF WorldInv
<1>9. /\ at[l] < Len(Layout) /\ Fresh(l) /\ Mine(l, doing[l]) /\ Laid(l) /\ Bare(l)
      /\ doing[l] = Layout[at[l] + 1]
  BY <1>1 DEF WorldInv, LauncherInv, LayingInv
<1>10. at[l] \in Nat /\ Len(Layout) \in Nat BY <1>3, LayoutIs
<1>11. PICK path : path = doing[l] OBVIOUS
<1>12. Durable(path)' /\ kept'[path].by = l
  <2>1. path \in Children(Front(path)) BY <1>1, <1>9, <1>11 DEF Children, Mine, Exists
  <2>2. path \in DOMAIN kept' /\ kept'[path] = seen[path]
    BY <1>1, <1>11, <2>1 DEF SyncDirectory
  <2> QED BY <1>9, <1>11, <2>2 DEF Mine, Durable
<1>13. Laid(l)'
  <2> SUFFICES ASSUME NEW n \in 1..at[l] + 1
               PROVE  /\ Mine(l, Layout[n])' /\ Durable(Layout[n])'
                      /\ kept'[Layout[n]].by = l
    BY <1>4 DEF Laid
  <2>1. PICK p : p = Layout[n] OBVIOUS
  <2>2. CASE n = at[l] + 1
    <3>1. p = path BY <1>9, <1>11, <2>1, <2>2
    <3> QED BY <1>1, <1>9, <1>11, <1>12, <2>1, <3>1 DEF Mine, Exists, Durable
  <2>3. CASE n # at[l] + 1
    <3>1. n \in 1..at[l] BY <1>10, <2>3
    <3>2. Mine(l, p) /\ Durable(p) /\ kept[p].by = l BY <1>9, <2>1, <3>1 DEF Laid
    <3>3. Durable(p)' /\ kept'[p].by = l BY <1>2, <3>2 DEF KeptGoes, Durable, Mine
    <3> QED BY <1>1, <2>1, <3>2, <3>3 DEF Mine, Exists, Durable
  <2> QED BY <2>2, <2>3
<1>14. /\ at[l] + 1 = Len(Layout) => path = Launch
       /\ at[l] + 1 # Len(Layout) => path # Launch
  BY <1>9, <1>10, <1>11, LayoutPlace
<1>15. ReadyInv(l)'
  BY <1>1, <1>7 DEF WorldInv, LauncherInv, ReadyInv, Exists
<1>16. QuietInv(l)' BY <1>7 DEF QuietInv
<1>17. ASSUME at[l] + 1 # Len(Layout) PROVE LauncherInv(l)'
  <2>1. LayingInv(l)'
    <3>1. at'[l] < Len(Layout) BY <1>4, <1>9, <1>10, <1>17
    <3>2. Fresh(l)' BY <1>1, <1>9 DEF Fresh
    <3>3. ~Exists(Launch) BY <1>9, <1>11, <1>14, <1>17 DEF Bare
    <3>4. Bare(l)' BY <1>1, <1>9, <3>3 DEF Bare, Exists
    <3> QED BY <1>4, <1>13, <3>1, <3>2, <3>4 DEF LayingInv
  <2>2. ServingInv(l)' BY <1>4, <1>17 DEF ServingInv
  <2> QED BY <1>15, <1>16, <2>1, <2>2 DEF LauncherInv
<1>18. ASSUME at[l] + 1 = Len(Layout) PROVE LauncherInv(l)'
  <2>1. LayingInv(l)' BY <1>4, <1>18 DEF LayingInv
  <2>2. path = Launch BY <1>14, <1>18
  <2>3. OwnsInv(l)'
    <3>1. seen[Launch] = LaunchOf(l) BY <1>9, <1>11, <2>2 DEF Bare, Mine
    <3>2. seen[Launch].plan = bundle[l].plan BY <3>1 DEF LaunchOf
    <3>3. at'[l] = Len(Layout) BY <1>4, <1>18
    <3>4. Durable(Launch)' BY <1>12, <2>2 DEF Durable
    <3>5. Mine(l, Launch)' BY <1>1, <1>9, <1>11, <2>2 DEF Mine, Exists
    <3> QED BY <1>1, <3>2, <3>3, <3>4, <3>5 DEF OwnsInv
  <2>4. DoingInv(l)' BY <1>4 DEF DoingInv
  <2>5. IndexInv(l)'
    <3>1. Swept # 0 BY DEF Swept, Over, Progress
    <3>2. \A s \in Sessions : stage'[l][s] = 0 /\ index'[l][s] = "none"
      BY <1>1, <1>9 DEF Fresh
    <3> QED BY <3>1, <3>2 DEF IndexInv
  <2>6. SettledInv(l)'
    <3>1. ~Exists(Settlement)' BY <1>1, <1>9 DEF Bare, Exists
    <3>2. Settlement # <<>>
      <4>1. Len(Settlement) # 0 BY RuntimePlaces
      <4> QED BY <4>1, NotEmpty, Zenon
    <3> QED BY <1>4, <3>1, <3>2 DEF SettledInv
  <2> QED BY <1>15, <1>16, <2>1, <2>3, <2>4, <2>5, <2>6 DEF LauncherInv, ServingInv
<1>19. TreeInv' /\ PromiseInv' BY <1>1, <1>2, StillSafe
<1> QED BY <1>1, <1>2, <1>5, <1>6, <1>8, <1>17, <1>18, <1>19, OwnStep

(* A launch is given up, for an error or with its process.                 *)
LEMMA EndsSafe ==
  ASSUME WorldInv, NEW l \in Launchers, LayFails(l) \/ SettleFails(l) \/ Dies(l)
  PROVE  NextWorld
<1>1. Leave(l) /\ seen' = seen /\ kept' = kept /\ promised' = promised
  BY DEF LayFails, SettleFails, Dies, treeVars
<1> QED BY <1>1, LeaveStill

-----------------------------------------------------------------------------
(* Serving.  A step that stays in the launch.                              *)
Stays(l) ==
  /\ bundle' = bundle /\ holder' = holder /\ at' = at /\ promised' = promised
  /\ run[l] \in {"serving", "settling"} /\ run'[l] \in {"serving", "settling"}
  /\ Elsewhere(l) /\ ShapeInv'

(* What it needs to show.                                                  *)
LEMMA ServingStep ==
  ASSUME WorldInv, NEW l \in Launchers, Stays(l), Grows, TreeInv',
         DOMAIN kept \subseteq DOMAIN kept',
         DoingInv(l)', IndexInv(l)', SettledInv(l)'
  PROVE  NextWorld
<1>1. Active(l) /\ Active(l)' BY DEF Stays, Active
<1>2. LockInv' BY <1>1, LockStays DEF Stays, WorldInv
<1>3. PromiseInv' BY PromiseStays DEF WorldInv, Stays
<1>4. QuietInv(l)' BY <1>1 DEF QuietInv
<1>5. Exists(Cohort) /\ Exists(Plan) /\ bundle[l].plan = seen[Plan].by
  BY <1>1 DEF WorldInv, LauncherInv, ReadyInv, TreeInv, CohortSafe
<1>6. OwnsInv(l) BY DEF WorldInv, LauncherInv, ServingInv, Stays
<1>7. Last(Launch) # "state" /\ Last(Plan) # "state" BY RuntimePlaces
<1>8. seen'[Launch] = seen[Launch] /\ Exists(Launch)' /\ seen'[Plan] = seen[Plan]
  BY <1>5, <1>6, <1>7 DEF Grows, OwnsInv, Mine, Exists
<1>9. ReadyInv(l)'
  <2>1. Exists(Cohort)' BY <1>5 DEF Grows, Exists
  <2> QED BY <1>5, <1>8, <2>1 DEF ReadyInv, Stays
<1>10. LayingInv(l)' BY DEF LayingInv, Stays
<1>11. OwnsInv(l)' BY <1>6, <1>8 DEF OwnsInv, Mine, Durable, Stays
<1>12. LauncherInv(l)' BY <1>4, <1>9, <1>10, <1>11 DEF LauncherInv, ServingInv
<1> QED BY <1>1, <1>2, <1>3, <1>12, OwnStep DEF Stays

(* What is known while a launch is served.                                 *)
LEMMA ServingIs ==
  ASSUME WorldInv, NEW l \in Launchers, run[l] \in {"serving", "settling"}
  PROVE  /\ OwnsInv(l) /\ DoingInv(l) /\ IndexInv(l) /\ SettledInv(l)
         /\ Exists(Launch) /\ seen[Launch].by = l /\ l \in Parties
BY DEF WorldInv, LauncherInv, ServingInv, OwnsInv, Mine, Parties

(* A receipt or a settlement is on its way only then.                      *)
LEMMA ServingOnly ==
  ASSUME WorldInv, NEW l \in Launchers,
         doing[l] = Settlement \/ \E s \in Sessions : doing[l] = Receipt(s)
  PROVE  run[l] \in {"serving", "settling"}
<1>1. doing[l] # <<>>
  <2>1. Len(Settlement) # 0 BY RuntimePlaces
  <2>2. ASSUME NEW s \in Sessions PROVE Len(Receipt(s)) # 0
    <3>1. Len(Receipt(s)) = 5 BY SessionPlaces, Zenon
    <3> QED BY <3>1
  <2>3. Settlement # <<>> BY <2>1, NotEmpty, Zenon
  <2>4. \A s \in Sessions : Receipt(s) # <<>> BY <2>2, NotEmpty, Zenon
  <2> QED BY <2>3, <2>4
<1>2. Active(l) BY <1>1 DEF WorldInv, LauncherInv, QuietInv
<1>3. ASSUME run[l] = "laying" PROVE FALSE
  <2>1. at[l] \in Nat /\ at[l] < Len(Layout) /\ doing[l] = Layout[at[l] + 1]
    BY <1>1, <1>3 DEF WorldInv, ShapeInv, LauncherInv, LayingInv
  <2>2. doing[l] # Settlement /\ \A s \in Sessions : doing[l] # Receipt(s)
    BY <2>1, LayoutPlace
  <2> QED BY <2>2
<1> QED BY <1>2, <1>3 DEF Active

(* The last names of what a serving launcher writes.                       *)
LEMMA DoingLast ==
  ASSUME WorldInv, NEW l \in Launchers, run[l] \in {"serving", "settling"},
         doing[l] # <<>>
  PROVE  /\ Last(doing[l]) = "receipt" => \E s \in Sessions : doing[l] = Receipt(s)
         /\ Last(doing[l]) # "receipt" =>
              /\ \A s \in Sessions : doing[l] # Receipt(s)
              /\ run[l] = "serving" => doing[l] # Settlement
<1>1. DoingInv(l) BY ServingIs
<1>2. \A s \in Sessions : /\ Last(State(s)) # "receipt" /\ Last(Input(s)) # "receipt"
                          /\ Last(Receipt(s)) = "receipt"
  BY SessionPlaces
<1>3. Last(Settlement) # "receipt" BY RuntimePlaces
<1>4. \A s \in Sessions : Settlement \notin {State(s), Input(s), Receipt(s)}
  BY Apart
<1> QED BY <1>1, <1>2, <1>3, <1>4 DEF DoingInv

(* A receipt is in its own directory.                                      *)
LEMMA ReceiptKept ==
  ASSUME NEW s \in Sessions, Exists(Receipt(s)), SyncDirectory(Front(Receipt(s)))
  PROVE  Durable(Receipt(s))'
<1>1. Receipt(s) # <<>>
  <2>1. Len(Receipt(s)) = 5 BY SessionPlaces, Zenon
  <2>2. Len(Receipt(s)) # 0 BY <2>1
  <2> QED BY <2>2, NotEmpty, Zenon
<1>2. Receipt(s) \in Children(Front(Receipt(s))) BY <1>1 DEF Children, Exists
<1> QED BY <1>2, SyncGoes DEF Durable

(* The writes of one session, in memory.                                   *)
LEMMA SetStage ==
  ASSUME ShapeInv, NEW l \in Launchers, NEW s \in Sessions, NEW v \in 0..Swept,
         stage' = [stage EXCEPT ![l][s] = v]
  PROVE  /\ stage' \in [Launchers -> [Sessions -> 0..Swept]]
         /\ stage'[l][s] = v
         /\ \A r \in Sessions : r # s => stage'[l][r] = stage[l][r]
         /\ \A m \in Launchers : m # l => stage'[m] = stage[m]
BY DEF ShapeInv

(* Its status in memory.                                                   *)
LEMMA SetIndex ==
  ASSUME ShapeInv, NEW l \in Launchers, NEW s \in Sessions, NEW v \in Outcomes,
         index' = [index EXCEPT ![l][s] = v]
  PROVE  /\ index' \in [Launchers -> [Sessions -> Outcomes]]
         /\ index'[l][s] = v
         /\ \A r \in Sessions : r # s => index'[l][r] = index[l][r]
         /\ \A m \in Launchers : m # l => index'[m] = index[m]
BY DEF ShapeInv

(* What is on its way.                                                     *)
LEMMA SetDoing ==
  ASSUME ShapeInv, NEW l \in Launchers, NEW p \in Seq(Names),
         doing' = [doing EXCEPT ![l] = p]
  PROVE  /\ doing' \in [Launchers -> Seq(Names)] /\ doing'[l] = p
         /\ \A m \in Launchers : m # l => doing'[m] = doing[m]
BY DEF ShapeInv

(* How far a session may be.                                               *)
LEMMA StageValues ==
  /\ Len(Progress) = 3 /\ Over = 4 /\ Swept = 5
  /\ \A n \in 0..Over : n \in 0..Swept /\ n # Swept
<1>1. Len(Progress) = 3 BY DEF Progress
<1> QED BY <1>1 DEF Over, Swept

(* Nothing is settled while something else is written.                     *)
LEMMA Unsettled ==
  ASSUME WorldInv, NEW l \in Launchers, run[l] \in {"serving", "settling"},
         doing[l] # Settlement, \A p : Exists(p)' => Exists(p) \/ p # Settlement,
         doing'[l] # Settlement
  PROVE  ~Exists(Settlement) /\ SettledInv(l)'
<1>1. ~Exists(Settlement) BY ServingIs DEF SettledInv
<1>2. ~Exists(Settlement)' BY <1>1
<1> QED BY <1>1, <1>2 DEF SettledInv

(* No document is empty.                                                   *)
LEMMA DocumentPlaces ==
  /\ Settlement # <<>> /\ Settlement \in Seq(Names) /\ <<>> \in Seq(Names)
  /\ \A s \in Sessions :
       /\ Receipt(s) # <<>> /\ Receipt(s) \in Seq(Names)
       /\ Input(s) # <<>> /\ Input(s) \in Seq(Names)
       /\ State(s) # <<>> /\ State(s) \in Seq(Names)
<1>1. Settlement # <<>>
  <2>1. Len(Settlement) # 0 BY RuntimePlaces
  <2> QED BY <2>1, NotEmpty, Zenon
<1>2. ASSUME NEW s \in Sessions
      PROVE  Receipt(s) # <<>> /\ Input(s) # <<>> /\ State(s) # <<>>
  <2>1. Len(Receipt(s)) = 5 /\ Len(Input(s)) = 6 /\ Len(State(s)) = 5
    BY SessionPlaces, Zenon
  <2>2. Len(Receipt(s)) # 0 /\ Len(Input(s)) # 0 /\ Len(State(s)) # 0 BY <2>1
  <2> QED BY <2>2, NotEmpty, Zenon
<1>3. <<>> \in Seq(Names) OBVIOUS
<1> QED BY <1>1, <1>2, <1>3, RuntimePlaces, SessionPlaces, Zenon

(* A directory is synced, and nothing else.                                *)
LEMMA WrittenSafe ==
  ASSUME WorldInv, NEW l \in Launchers, Written(l)
  PROVE  NextWorld
<1>1. /\ run[l] = "serving" /\ doing[l] # <<>> /\ SyncDirectory(Front(doing[l]))
      /\ Last(doing[l]) # "receipt"
      /\ doing' = [doing EXCEPT ![l] = <<>>] /\ seen' = seen /\ run' = run
      /\ bundle' = bundle /\ holder' = holder /\ at' = at /\ stage' = stage
      /\ index' = index /\ broken' = broken /\ promised' = promised
  BY DEF Written
<1>2. /\ doing[l] # Settlement /\ \A s \in Sessions : doing[l] # Receipt(s)
  BY <1>1, DoingLast
<1>3. KeptGoes BY <1>1, SyncGoes
<1>4. doing \in [Launchers -> Seq(Names)] BY DEF WorldInv, ShapeInv
<1>5. doing'[l] = <<>> /\ \A m \in Launchers : m # l => doing'[m] = doing[m]
  BY <1>1, <1>4
<1>6. ShapeInv'
  <2>1. <<>> \in Seq(Names) OBVIOUS
  <2>2. doing' \in [Launchers -> Seq(Names)] BY <1>1, <1>4, <2>1
  <2> QED BY <1>1, <2>2 DEF WorldInv, ShapeInv
<1>7. Elsewhere(l) BY <1>1, <1>5 DEF Elsewhere, Same
<1>8. Stays(l) BY <1>1, <1>6, <1>7 DEF Stays
<1>9. DoingInv(l)' BY <1>5 DEF DoingInv
<1>10. IndexInv(l)'
  <2>1. IndexInv(l) BY <1>1, ServingIs
  <2>2. \A s \in Sessions :
          index[l][s] \notin {"none", "lost"} => Exists(Receipt(s))' /\ Durable(Receipt(s))'
    BY <1>1, <1>2, <1>3, <2>1 DEF IndexInv, KeptGoes, Durable, Exists
  <2> QED BY <1>1, <2>1, <2>2 DEF IndexInv
<1>11. SettledInv(l)'
  <2>1. doing'[l] # Settlement BY <1>5, DocumentPlaces
  <2>2. \A p : Exists(p)' => Exists(p) \/ p # Settlement BY <1>1 DEF Exists
  <2> QED BY <1>1, <1>2, <2>1, <2>2, Unsettled
<1>12. Grows /\ TreeInv' BY <1>1, <1>3, StillSafe
<1>13. DOMAIN kept \subseteq DOMAIN kept' BY <1>3 DEF KeptGoes
<1> QED BY <1>8, <1>9, <1>10, <1>11, <1>12, <1>13, ServingStep

(* The receipt is durable; the terminal state of its session is written    *)
(* before anybody else runs, or is not.                                    *)
LEMMA ReceiptSyncedSafe ==
  ASSUME WorldInv, Grows, NEW l \in Launchers, NEW s \in Sessions, ReceiptSynced(l, s)
  PROVE  NextWorld
<1>1. /\ doing[l] = Receipt(s)
      /\ doing' = [doing EXCEPT ![l] = <<>>] /\ run' = run
      /\ bundle' = bundle /\ holder' = holder /\ at' = at /\ stage' = stage
      /\ index' = index /\ broken' = broken /\ promised' = promised
  BY DEF ReceiptSynced
<1>2. run[l] \in {"serving", "settling"} BY <1>1, ServingOnly
<1>3. /\ DoingInv(l) /\ IndexInv(l) /\ Exists(Launch) /\ seen[Launch].by = l
      /\ Exists(State(s))
  <2>1. DoingInv(l) /\ IndexInv(l) /\ Exists(Launch) /\ seen[Launch].by = l
    BY <1>2, ServingIs
  <2> QED BY <2>1, Apart DEF WorldInv, TreeInv, LaunchSafe
<1>4. /\ doing' \in [Launchers -> Seq(Names)] /\ doing'[l] = <<>>
      /\ \A m \in Launchers : m # l => doing'[m] = doing[m]
  BY <1>1, DocumentPlaces, SetDoing DEF WorldInv
<1>5. Stays(l)
  <2>1. ShapeInv' BY <1>1, <1>4 DEF WorldInv, ShapeInv
  <2>2. Elsewhere(l) BY <1>1, <1>4 DEF Elsewhere, Same
  <2> QED BY <1>1, <1>2, <2>1, <2>2 DEF Stays
<1>6. Receipt(s) \in Children(Root(s))
  <2>1. Exists(Receipt(s)) BY <1>1, <1>3, DocumentPlaces DEF DoingInv
  <2> QED BY <2>1, DocumentPlaces, SessionPlaces DEF Children, Exists
<1>7. /\ TreeInv' /\ \A p : Exists(p)' <=> Exists(p)
      /\ DOMAIN kept \subseteq DOMAIN kept' /\ Durable(Receipt(s))'
  <2>1. CASE seen' = seen /\ SyncDirectory(Root(s))
    <3>1. KeptGoes /\ Durable(Receipt(s))' BY <1>6, <2>1, SyncGoes DEF Durable
    <3>2. TreeInv' BY <2>1, <3>1, StillSafe
    <3> QED BY <2>1, <3>1, <3>2 DEF Exists, KeptGoes
  <2>2. ASSUME NEW status, Replace(State(s), StateOf(l, status)),
               SyncDirectory(Root(s)) \/ SyncDirectoryAfter(Root(s))
        PROVE  /\ TreeInv' /\ \A p : Exists(p)' <=> Exists(p)
               /\ DOMAIN kept \subseteq DOMAIN kept' /\ Durable(Receipt(s))'
    <3>1. KeptMoves(StateOf(l, status)) /\ Durable(Receipt(s))'
      BY <1>3, <1>6, <2>2, SyncMoves DEF Durable
    <3>2. StateOf(l, status).by = l BY DEF StateOf
    <3>3. TreeInv' /\ \A p : Exists(p)' <=> Exists(p)
      <4> HIDE DEF StateOf
      <4> QED BY <1>3, <2>2, <3>1, <3>2, ReplaceTree DEF WorldInv
    <3> QED BY <3>1, <3>3 DEF KeptMoves
  <2> QED BY <2>1, <2>2 DEF ReceiptSynced
<1>8. DoingInv(l)' BY <1>4 DEF DoingInv
<1>9. IndexInv(l)'
  <2> SUFFICES ASSUME NEW r \in Sessions, index[l][r] \notin {"none", "lost"}
               PROVE  Exists(Receipt(r))' /\ Durable(Receipt(r))'
    BY <1>1, <1>3 DEF IndexInv
  <2>1. Exists(Receipt(r)) /\ (doing[l] # Receipt(r) => Durable(Receipt(r)))
    BY <1>3 DEF IndexInv
  <2>2. CASE r = s BY <1>7, <2>1, <2>2
  <2>3. CASE r # s
    <3>1. doing[l] # Receipt(r) BY <1>1, <2>3, Apart
    <3> QED BY <1>7, <2>1, <3>1 DEF Durable
  <2> QED BY <2>2, <2>3
<1>10. SettledInv(l)'
  <2>1. doing[l] # Settlement /\ doing'[l] # Settlement
    BY <1>1, <1>4, Apart, DocumentPlaces
  <2> QED BY <1>2, <1>7, <2>1, Unsettled
<1> QED BY <1>5, <1>7, <1>8, <1>9, <1>10, ServingStep

(* run_one's writes before its receipt.                                    *)
LEMMA WriteSafe ==
  ASSUME WorldInv, Grows, NEW l \in Launchers, NEW s \in Sessions, Write(l, s)
  PROVE  NextWorld
<1> DEFINE step == stage[l][s] + 1
<1>1. /\ run[l] = "serving" /\ doing[l] = <<>> /\ step \in 1..Len(Progress)
      /\ stage' = [stage EXCEPT ![l][s] = step] /\ kept' = kept /\ run' = run
      /\ bundle' = bundle /\ holder' = holder /\ at' = at /\ index' = index
      /\ broken' = broken /\ promised' = promised
  BY DEF Write, Serving
<1>2. PICK path \in {State(s), Input(s)} : doing' = [doing EXCEPT ![l] = path]
  BY DEF Write
<1>3. /\ OwnsInv(l) /\ IndexInv(l) /\ SettledInv(l) /\ Exists(Launch)
      /\ seen[Launch].by = l /\ l \in Parties
  BY <1>1, ServingIs
<1>4. KeptGoes /\ DOMAIN kept \subseteq DOMAIN kept' BY <1>1, KeptStill
<1>5. \/ Link(Input(s), [by |-> l]) /\ path = Input(s)
      \/ (\E v : Replace(State(s), StateOf(l, v))) /\ path = State(s)
  <2>1. doing \in [Launchers -> Seq(Names)] BY DEF WorldInv, ShapeInv
  <2>2. doing'[l] = path BY <1>2, <2>1
  <2>3. CASE Progress[step] = "input"
    <3>1. Link(Input(s), [by |-> l]) /\ doing' = [doing EXCEPT ![l] = Input(s)]
      BY <2>3 DEF Write
    <3> QED BY <2>1, <2>2, <3>1
  <2>4. CASE Progress[step] # "input"
    <3>1. /\ Replace(State(s), StateOf(l, Progress[step]))
          /\ doing' = [doing EXCEPT ![l] = State(s)]
      BY <2>4 DEF Write
    <3> QED BY <2>1, <2>2, <3>1
  <2> QED BY <2>3, <2>4
<1>6. path \in Seq(Names) /\ path # <<>> BY <1>2, DocumentPlaces
<1>7. /\ path \notin {Cohort, Plan, Briefing, Settlement}
      /\ \A r \in Sessions : path # Receipt(r)
  BY Apart
<1>8. TreeInv' /\ \A p : Exists(p)' <=> Exists(p) \/ p = path
  <2>1. ASSUME Link(Input(s), [by |-> l]), path = Input(s)
        PROVE  TreeInv' /\ \A p : Exists(p)' <=> Exists(p) \/ p = path
    <3>1. Links(Input(s), [by |-> l]) BY <1>3, <1>4, <1>6, <1>7, <2>1 DEF Links
    <3> QED BY <2>1, <3>1, LinkInputTree, LinkedTree DEF WorldInv
  <2>2. ASSUME NEW v, Replace(State(s), StateOf(l, v)), path = State(s)
        PROVE  TreeInv' /\ \A p : Exists(p)' <=> Exists(p) \/ p = path
    <3>1. TreeInv' /\ \A p : Exists(p)' <=> Exists(p)
      <4>1. KeptMoves(StateOf(l, v)) BY <1>1 DEF KeptMoves
      <4>2. StateOf(l, v).by = l BY DEF StateOf
      <4> HIDE DEF StateOf
      <4> QED BY <1>3, <2>2, <4>1, <4>2, ReplaceTree DEF WorldInv
    <3>2. Exists(State(s)) BY <1>3, Apart DEF WorldInv, TreeInv, LaunchSafe
    <3> QED BY <2>2, <3>1, <3>2
  <2> QED BY <1>5, <2>1, <2>2
<1>9. /\ step \in 0..Swept /\ step # Swept BY <1>1, StageValues
<1> HIDE DEF step
<1>10. /\ stage' \in [Launchers -> [Sessions -> 0..Swept]]
       /\ stage'[l][s] = step
       /\ \A r \in Sessions : r # s => stage'[l][r] = stage[l][r]
       /\ \A m \in Launchers : m # l => stage'[m] = stage[m]
  BY <1>1, <1>9, SetStage DEF WorldInv
<1>11. /\ doing' \in [Launchers -> Seq(Names)] /\ doing'[l] = path
       /\ \A m \in Launchers : m # l => doing'[m] = doing[m]
  BY <1>2, <1>6, SetDoing DEF WorldInv
<1>12. Stays(l)
  <2>1. ShapeInv' BY <1>1, <1>10, <1>11 DEF WorldInv, ShapeInv
  <2>2. Elsewhere(l) BY <1>1, <1>10, <1>11 DEF Elsewhere, Same
  <2> QED BY <1>1, <2>1, <2>2 DEF Stays
<1>13. DoingInv(l)' BY <1>1, <1>2, <1>8, <1>11 DEF DoingInv, Exists
<1>14. IndexInv(l)'
  <2> SUFFICES ASSUME NEW r \in Sessions
               PROVE  /\ index[l][r] \notin {"none", "lost"} =>
                           Exists(Receipt(r))' /\ Durable(Receipt(r))'
                      /\ index[l][r] = "lost" => l \in broken
                      /\ stage'[l][r] # Swept
    BY <1>1 DEF IndexInv
  <2>1. Receipt(r) # <<>> BY DocumentPlaces
  <2>2. index[l][r] \notin {"none", "lost"} => Exists(Receipt(r)) /\ Durable(Receipt(r))
    BY <1>1, <1>3, <2>1 DEF IndexInv
  <2>3. index[l][r] = "lost" => l \in broken BY <1>3 DEF IndexInv
  <2>4. stage[l][r] # Swept BY <1>1, <1>3 DEF IndexInv
  <2>5. stage'[l][r] # Swept BY <1>9, <1>10, <2>4
  <2> QED BY <1>1, <1>8, <2>2, <2>3, <2>5 DEF Durable
<1>15. SettledInv(l)'
  <2>1. doing[l] # Settlement BY <1>1, DocumentPlaces
  <2>2. doing'[l] # Settlement BY <1>7, <1>11
  <2>3. \A p : Exists(p)' => Exists(p) \/ p # Settlement BY <1>7, <1>8
  <2> QED BY <1>1, <2>1, <2>2, <2>3, Unsettled
<1> QED BY <1>4, <1>8, <1>12, <1>13, <1>14, <1>15, ServingStep

(* A write fails; what is on its way is given up.                          *)
LEMMA WriteFailsSafe ==
  ASSUME WorldInv, NEW l \in Launchers, NEW s \in Sessions, WriteFails(l, s)
  PROVE  NextWorld
<1>1. /\ stage' = [stage EXCEPT ![l][s] = Over] /\ doing' = [doing EXCEPT ![l] = <<>>]
      /\ seen' = seen /\ kept' = kept /\ run' = run /\ bundle' = bundle
      /\ holder' = holder /\ at' = at /\ index' = index /\ broken' = broken
      /\ promised' = promised /\ run[l] = "serving"
      /\ doing[l] \in {State(s), Input(s), <<>>}
  BY DEF WriteFails, treeVars, Serving
<1>2. KeptGoes /\ DOMAIN kept \subseteq DOMAIN kept' BY <1>1, KeptStill
<1>3. Over \in 0..Swept /\ Over # Swept BY StageValues
<1>4. /\ stage' \in [Launchers -> [Sessions -> 0..Swept]]
      /\ stage'[l][s] = Over
      /\ \A r \in Sessions : r # s => stage'[l][r] = stage[l][r]
      /\ \A m \in Launchers : m # l => stage'[m] = stage[m]
  BY <1>1, <1>3, SetStage DEF WorldInv
<1>5. <<>> \in Seq(Names) BY DocumentPlaces
<1>6. /\ doing' \in [Launchers -> Seq(Names)] /\ doing'[l] = <<>>
      /\ \A m \in Launchers : m # l => doing'[m] = doing[m]
  BY <1>1, <1>5, SetDoing DEF WorldInv
<1>7. Stays(l)
  <2>1. ShapeInv' BY <1>1, <1>4, <1>6 DEF WorldInv, ShapeInv
  <2>2. Elsewhere(l) BY <1>1, <1>4, <1>6 DEF Elsewhere, Same
  <2> QED BY <1>1, <2>1, <2>2 DEF Stays
<1>8. DoingInv(l)' BY <1>6 DEF DoingInv
<1>9. doing[l] # Settlement /\ \A r \in Sessions : doing[l] # Receipt(r)
  BY <1>1, Apart, DocumentPlaces
<1>10. IndexInv(l)'
  <2> SUFFICES ASSUME NEW r \in Sessions
               PROVE  /\ index[l][r] \notin {"none", "lost"} =>
                           Exists(Receipt(r))' /\ Durable(Receipt(r))'
                      /\ index[l][r] = "lost" => l \in broken
                      /\ stage'[l][r] # Swept
    BY <1>1 DEF IndexInv
  <2>1. IndexInv(l) BY <1>1, ServingIs
  <2>2. index[l][r] \notin {"none", "lost"} => Exists(Receipt(r)) /\ Durable(Receipt(r))
    BY <1>9, <2>1 DEF IndexInv
  <2>3. stage[l][r] # Swept BY <1>1, <2>1 DEF IndexInv
  <2>4. stage'[l][r] # Swept BY <1>3, <1>4, <2>3
  <2> QED BY <1>1, <2>1, <2>2, <2>4 DEF IndexInv, Exists, Durable
<1>11. SettledInv(l)'
  <2>1. doing'[l] # Settlement BY <1>6, DocumentPlaces
  <2>2. \A p : Exists(p)' => Exists(p) \/ p # Settlement BY <1>1 DEF Exists
  <2> QED BY <1>1, <1>9, <2>1, <2>2, Unsettled
<1>12. Grows /\ TreeInv' BY <1>1, <1>2, StillSafe
<1> QED BY <1>2, <1>7, <1>8, <1>10, <1>11, <1>12, ServingStep

(* The status of a session that gets, or misses, its receipt: what is left *)
(* to show of it.                                                          *)
LEMMA IndexStep ==
  ASSUME WorldInv, NEW l \in Launchers, NEW s \in Sessions,
         run[l] \in {"serving", "settling"}, run' = run,
         NEW v \in Outcomes, NEW n \in 0..Swept,
         index' = [index EXCEPT ![l][s] = v], stage' = [stage EXCEPT ![l][s] = n],
         doing[l] \in {<<>>, Receipt(s)}, doing'[l] \in {<<>>, Receipt(s)},
         v # "none", v = "lost" => l \in broken', l \in broken => l \in broken',
         n = Swept => run[l] = "settling",
         v # "lost" => Exists(Receipt(s))' /\ doing'[l] = Receipt(s),
         \A p : Exists(p) => Exists(p)', \A p : Durable(p) => Durable(p)'
  PROVE  IndexInv(l)'
<1>1. /\ stage'[l][s] = n
      /\ \A r \in Sessions : r # s => stage'[l][r] = stage[l][r]
  BY SetStage DEF WorldInv
<1>2. /\ index'[l][s] = v
      /\ \A r \in Sessions : r # s => index'[l][r] = index[l][r]
  BY SetIndex DEF WorldInv
<1>3. IndexInv(l) BY ServingIs
<1> SUFFICES ASSUME NEW r \in Sessions
             PROVE  /\ index'[l][r] \notin {"none", "lost"} =>
                         /\ Exists(Receipt(r))'
                         /\ doing'[l] # Receipt(r) => Durable(Receipt(r))'
                    /\ index'[l][r] = "lost" => l \in broken'
                    /\ stage'[l][r] = Swept =>
                         run'[l] = "settling" /\ index'[l][r] # "none"
  BY DEF IndexInv
<1>4. CASE r = s BY <1>1, <1>2, <1>4
<1>5. CASE r # s
  <2>1. index'[l][r] = index[l][r] /\ stage'[l][r] = stage[l][r] BY <1>1, <1>2, <1>5
  <2>2. Receipt(r) # <<>> /\ Receipt(r) # Receipt(s) BY <1>5, Apart, DocumentPlaces
  <2>3. index[l][r] \notin {"none", "lost"} => Exists(Receipt(r)) /\ Durable(Receipt(r))
    BY <1>3, <2>2 DEF IndexInv
  <2> QED BY <1>3, <2>1, <2>3 DEF IndexInv
<1> QED BY <1>4, <1>5

(* write_receipt: an occupant is a conflict, a new receipt gets its name.  *)
LEMMA PutReceiptSafe ==
  ASSUME WorldInv, Grows, NEW l \in Launchers, NEW s \in Sessions,
         run[l] \in {"serving", "settling"}, doing[l] = <<>>,
         NEW v \in Outcomes, v \notin {"none", "lost"}, NEW n \in 0..Swept,
         n = Swept => run[l] = "settling",
         PutReceipt(l, s, v), stage' = [stage EXCEPT ![l][s] = n],
         kept' = kept, run' = run, bundle' = bundle, holder' = holder, at' = at,
         promised' = promised
  PROVE  NextWorld
<1>1. Exists(Launch) /\ seen[Launch].by = l /\ l \in Parties BY ServingIs
<1>2. KeptGoes /\ DOMAIN kept \subseteq DOMAIN kept' BY KeptStill
<1>3. /\ stage' \in [Launchers -> [Sessions -> 0..Swept]]
      /\ \A m \in Launchers : m # l => stage'[m] = stage[m]
  BY SetStage DEF WorldInv
<1>4. /\ Receipt(s) \in Seq(Names) /\ Receipt(s) # <<>> /\ Receipt(s) # Settlement
      /\ <<>> \in Seq(Names) /\ Settlement # <<>>
      /\ Receipt(s) \notin {Cohort, Plan, Briefing}
  BY Apart, DocumentPlaces
<1>5. \A p : Durable(p) => Durable(p)' BY <1>2 DEF Durable
<1>6. CASE Exists(Receipt(s))
  <2>1. /\ index' = [index EXCEPT ![l][s] = "lost"] /\ broken' = broken \cup {l}
        /\ seen' = seen /\ doing' = doing
    BY <1>6 DEF PutReceipt
  <2>2. "lost" \in Outcomes BY DEF Outcomes
  <2>3. /\ index' \in [Launchers -> [Sessions -> Outcomes]]
        /\ \A m \in Launchers : m # l => index'[m] = index[m]
    BY <2>1, <2>2, SetIndex DEF WorldInv
  <2>4. Stays(l)
    <3>1. ShapeInv' BY <1>3, <2>1, <2>3 DEF WorldInv, ShapeInv
    <3>2. Elsewhere(l) BY <1>3, <2>1, <2>3 DEF Elsewhere, Same
    <3> QED BY <3>1, <3>2 DEF Stays
  <2>5. \A p : Exists(p)' <=> Exists(p) BY <2>1 DEF Exists
  <2>6. IndexInv(l)' BY <1>5, <2>1, <2>2, <2>5, IndexStep
  <2>7. DoingInv(l)' BY <2>1 DEF DoingInv
  <2>8. SettledInv(l)' BY <1>4, <2>1, <2>5, Unsettled
  <2>9. TreeInv' BY <1>2, <2>1, StillSafe
  <2> QED BY <1>2, <2>4, <2>6, <2>7, <2>8, <2>9, ServingStep
<1>7. CASE ~Exists(Receipt(s))
  <2>1. /\ index' = [index EXCEPT ![l][s] = v] /\ broken' = broken
        /\ Link(Receipt(s), ReceiptOf(l, v))
        /\ doing' = [doing EXCEPT ![l] = Receipt(s)]
    BY <1>7 DEF PutReceipt
  <2>2. /\ index' \in [Launchers -> [Sessions -> Outcomes]]
        /\ \A m \in Launchers : m # l => index'[m] = index[m]
    BY <2>1, SetIndex DEF WorldInv
  <2>3. /\ doing' \in [Launchers -> Seq(Names)] /\ doing'[l] = Receipt(s)
        /\ \A m \in Launchers : m # l => doing'[m] = doing[m]
    BY <1>4, <2>1, SetDoing DEF WorldInv
  <2>4. Stays(l)
    <3>1. ShapeInv' BY <1>3, <2>1, <2>2, <2>3 DEF WorldInv, ShapeInv
    <3>2. Elsewhere(l) BY <1>3, <2>1, <2>2, <2>3 DEF Elsewhere, Same
    <3> QED BY <3>1, <3>2 DEF Stays
  <2>5. ReceiptOf(l, v).by = l BY DEF ReceiptOf
  <2>6. Links(Receipt(s), ReceiptOf(l, v)) BY <1>1, <1>2, <1>4, <2>1, <2>5 DEF Links
  <2>7. TreeInv' BY <1>1, <2>5, <2>6, LinkReceiptTree DEF WorldInv
  <2>8. \A p : Exists(p)' <=> Exists(p) \/ p = Receipt(s)
    BY <2>6, LinkedTree DEF WorldInv
  <2>9. IndexInv(l)' BY <1>5, <2>1, <2>3, <2>8, IndexStep
  <2>10. DoingInv(l)' BY <2>3, <2>8 DEF DoingInv, Exists
  <2>11. SettledInv(l)' BY <1>4, <2>3, <2>8, Unsettled
  <2> QED BY <1>2, <2>4, <2>7, <2>9, <2>10, <2>11, ServingStep
<1> QED BY <1>6, <1>7

(* run_one and settle_missing.                                             *)
LEMMA EndSessionSafe ==
  ASSUME WorldInv, Grows, NEW l \in Launchers, NEW s \in Sessions,
         \/ SettleMissing(l, s) \/ \E v \in Verdicts : EndSession(l, s, v)
  PROVE  NextWorld
<1>1. CASE SettleMissing(l, s)
  <2>1. "CANCELLED" \in Outcomes BY DEF Outcomes
  <2>2. Swept \in 0..Swept BY StageValues
  <2> QED BY <1>1, <2>1, <2>2, PutReceiptSafe DEF SettleMissing, Missing
<1>2. ASSUME NEW v \in Verdicts, EndSession(l, s, v) PROVE NextWorld
  <2>1. v \in Outcomes /\ v \notin {"none", "lost"} BY CohortAssumption DEF Outcomes
  <2>2. Over \in 0..Swept /\ Over # Swept BY StageValues
  <2> QED BY <1>2, <2>1, <2>2, PutReceiptSafe DEF EndSession, RunOneDue, Serving
<1> QED BY <1>1, <1>2

(* A receipt's publication fails.                                          *)
LEMMA ReceiptFailsSafe ==
  ASSUME WorldInv, NEW l \in Launchers, NEW s \in Sessions, ReceiptFails(l, s)
  PROVE  NextWorld
<1> DEFINE n == IF run[l] = "settling" THEN Swept ELSE Over
<1>1. /\ stage' = [stage EXCEPT ![l][s] = n] /\ doing' = [doing EXCEPT ![l] = <<>>]
      /\ index' = [index EXCEPT ![l][s] = "lost"] /\ broken' = broken \cup {l}
      /\ seen' = seen /\ kept' = kept /\ run' = run /\ bundle' = bundle
      /\ holder' = holder /\ at' = at /\ promised' = promised
      /\ doing[l] \in {Receipt(s), <<>>}
  BY DEF ReceiptFails, treeVars, Serving, RunOneDue, Missing
<1>2. run[l] \in {"serving", "settling"}
  BY ServingOnly DEF ReceiptFails, RunOneDue, Missing, Serving
<1>3. KeptGoes /\ DOMAIN kept \subseteq DOMAIN kept' BY <1>1, KeptStill
<1>4. n \in 0..Swept /\ (n = Swept => run[l] = "settling") BY StageValues
<1> HIDE DEF n
<1>5. "lost" \in Outcomes BY DEF Outcomes
<1>6. /\ stage' \in [Launchers -> [Sessions -> 0..Swept]]
      /\ \A m \in Launchers : m # l => stage'[m] = stage[m]
  BY <1>1, <1>4, SetStage DEF WorldInv
<1>7. /\ index' \in [Launchers -> [Sessions -> Outcomes]]
      /\ \A m \in Launchers : m # l => index'[m] = index[m]
  BY <1>1, <1>5, SetIndex DEF WorldInv
<1>8. /\ doing' \in [Launchers -> Seq(Names)] /\ doing'[l] = <<>>
      /\ \A m \in Launchers : m # l => doing'[m] = doing[m]
  BY <1>1, DocumentPlaces, SetDoing DEF WorldInv
<1>9. Stays(l)
  <2>1. ShapeInv' BY <1>1, <1>6, <1>7, <1>8 DEF WorldInv, ShapeInv
  <2>2. Elsewhere(l) BY <1>1, <1>6, <1>7, <1>8 DEF Elsewhere, Same
  <2> QED BY <1>1, <1>2, <2>1, <2>2 DEF Stays
<1>10. /\ \A p : Exists(p)' <=> Exists(p)
       /\ \A p : Durable(p)' <=> Durable(p)
  BY <1>1 DEF Exists, Durable
<1>11. IndexInv(l)'
  BY <1>1, <1>2, <1>4, <1>5, <1>8, <1>10, IndexStep
<1>12. DoingInv(l)' BY <1>8 DEF DoingInv
<1>13. SettledInv(l)'
  <2>1. doing[l] # Settlement /\ doing'[l] # Settlement
    BY <1>1, <1>8, Apart, DocumentPlaces
  <2> QED BY <1>2, <1>10, <2>1, Unsettled
<1>14. Grows /\ TreeInv' BY <1>1, <1>3, StillSafe
<1> QED BY <1>3, <1>9, <1>11, <1>12, <1>13, <1>14, ServingStep

(* The workers are done.                                                   *)
LEMMA BeginSettlingSafe ==
  ASSUME WorldInv, NEW l \in Launchers, BeginSettling(l)
  PROVE  NextWorld
<1>1. /\ run' = [run EXCEPT ![l] = "settling"] /\ seen' = seen /\ kept' = kept
      /\ bundle' = bundle /\ holder' = holder /\ at' = at /\ doing' = doing
      /\ stage' = stage /\ index' = index /\ broken' = broken
      /\ promised' = promised /\ run[l] = "serving" /\ doing[l] = <<>>
  BY DEF BeginSettling, Serving, treeVars
<1>2. run \in [Launchers -> Stages] BY DEF WorldInv, ShapeInv
<1>3. run'[l] = "settling" /\ \A m \in Launchers : m # l => run'[m] = run[m]
  BY <1>1, <1>2
<1>4. Stays(l)
  <2>1. ShapeInv'
    <3>1. "settling" \in Stages BY DEF Stages
    <3>2. run' \in [Launchers -> Stages] BY <1>1, <1>2, <3>1
    <3> QED BY <1>1, <3>2 DEF WorldInv, ShapeInv
  <2>2. Elsewhere(l) BY <1>1, <1>3 DEF Elsewhere, Same
  <2> QED BY <1>1, <1>3, <2>1, <2>2 DEF Stays
<1>5. IndexInv(l) /\ SettledInv(l) BY <1>1, ServingIs
<1>6. DoingInv(l)' BY <1>1 DEF DoingInv
<1>7. IndexInv(l)' BY <1>1, <1>3, <1>5 DEF IndexInv, Exists, Durable
<1>8. SettledInv(l)' BY <1>1, <1>5 DEF SettledInv, SettlementOf, Exists
<1>9. KeptGoes /\ DOMAIN kept \subseteq DOMAIN kept' BY <1>1, KeptStill
<1>10. Grows /\ TreeInv' BY <1>1, <1>9, StillSafe
<1> QED BY <1>4, <1>6, <1>7, <1>8, <1>9, <1>10, ServingStep

(* The settlement gets its name when every receipt has been verified.      *)
LEMMA SettleSafe ==
  ASSUME WorldInv, Grows, NEW l \in Launchers, Settle(l)
  PROVE  NextWorld
<1>1. /\ run[l] = "settling" /\ doing[l] = <<>> /\ \A s \in Sessions : ~Missing(l, s)
      /\ kept' = kept /\ promised' = promised
  BY DEF Settle
<1>2. CASE ~(Complete(l) /\ ~Exists(Settlement))
  <2>1. Leave(l) /\ seen' = seen BY <1>2 DEF Settle
  <2> QED BY <1>1, <2>1, LeaveStill
<1>3. CASE Complete(l) /\ ~Exists(Settlement)
  <2>1. /\ Link(Settlement, SettlementOf(l)) /\ run' = run /\ holder' = holder
        /\ doing' = [doing EXCEPT ![l] = Settlement]
        /\ bundle' = bundle /\ at' = at /\ stage' = stage /\ index' = index
        /\ broken' = broken
    BY <1>3 DEF Settle
  <2>2. /\ OwnsInv(l) /\ IndexInv(l) /\ Exists(Launch) /\ seen[Launch].by = l
        /\ l \in Parties
    BY <1>1, ServingIs
  <2>3. KeptGoes /\ DOMAIN kept \subseteq DOMAIN kept' BY <1>1, KeptStill
  <2>4. /\ Settlement \in Seq(Names) /\ Settlement # <<>>
        /\ Settlement \notin {Cohort, Plan, Briefing}
        /\ \A s \in Sessions : Settlement # Receipt(s)
    BY Apart, DocumentPlaces
  <2>5. SettlementOf(l).by = l /\ SettlementOf(l).rows = index[l] BY DEF SettlementOf
  <2>6. Links(Settlement, SettlementOf(l))
    BY <2>1, <2>2, <2>3, <2>4, <2>5 DEF Links
  <2>7. ASSUME NEW s \in Sessions
        PROVE  /\ index[l][s] \notin {"none", "lost"}
               /\ Exists(Receipt(s)) /\ Durable(Receipt(s))
               /\ seen[Receipt(s)] = ReceiptOf(l, index[l][s])
    <3>1. index[l][s] # "lost" BY <1>3, <2>2 DEF Complete, IndexInv
    <3>2. index[l][s] # "none"
      <4>1. stage[l][s] # Swept => index[l][s] \notin {"none", "lost"}
        BY <1>1 DEF Missing
      <4>2. stage[l][s] = Swept => index[l][s] # "none" BY <2>2 DEF IndexInv
      <4> QED BY <4>1, <4>2
    <3>3. Exists(Receipt(s)) /\ (doing[l] # Receipt(s) => Durable(Receipt(s)))
      BY <2>2, <3>1, <3>2 DEF IndexInv
    <3>4. doing[l] # Receipt(s) BY <1>1, DocumentPlaces
    <3> QED BY <1>3, <3>1, <3>2, <3>3, <3>4 DEF Complete
  <2>8. TreeInv'
    <3>1. Durable(Launch) BY <2>2 DEF OwnsInv
    <3>2. \A s \in Sessions :
            /\ Exists(Receipt(s)) /\ Durable(Receipt(s))
            /\ seen[Receipt(s)] = ReceiptOf(SettlementOf(l).by, SettlementOf(l).rows[s])
      BY <2>5, <2>7
    <3> HIDE DEF SettlementOf
    <3> QED BY <2>2, <2>5, <2>6, <3>1, <3>2, LinkSettlementTree DEF WorldInv
  <2>9. /\ doing' \in [Launchers -> Seq(Names)] /\ doing'[l] = Settlement
        /\ \A m \in Launchers : m # l => doing'[m] = doing[m]
    BY <2>1, <2>4, SetDoing DEF WorldInv
  <2>10. Stays(l)
    <3>1. ShapeInv' BY <2>1, <2>9 DEF WorldInv, ShapeInv
    <3>2. Elsewhere(l) BY <2>1, <2>9 DEF Elsewhere, Same
    <3> QED BY <1>1, <2>1, <3>1, <3>2 DEF Stays
  <2>11. /\ \A p : Exists(p)' <=> Exists(p) \/ p = Settlement
         /\ seen'[Settlement] = SettlementOf(l)
    BY <2>6, LinkedTree DEF WorldInv
  <2>12. DoingInv(l)' BY <1>1, <2>1, <2>9, <2>11 DEF DoingInv, Exists
  <2>13. IndexInv(l)'
    <3>1. \A s \in Sessions : Exists(Receipt(s))' /\ Durable(Receipt(s))'
      BY <2>3, <2>7, <2>11 DEF Durable
    <3> QED BY <2>1, <2>2, <3>1 DEF IndexInv
  <2>14. SettledInv(l)' BY <2>1, <2>9, <2>11 DEF SettledInv, SettlementOf
  <2> QED BY <2>3, <2>8, <2>10, <2>12, <2>13, <2>14, ServingStep
<1> QED BY <1>2, <1>3

(* The settlement is durable and the caller has its result.                *)
LEMMA ReportedSafe ==
  ASSUME WorldInv, NEW l \in Launchers, Reported(l)
  PROVE  NextWorld
<1>1. /\ doing[l] = Settlement /\ SyncDirectory(Runtime) /\ Leave(l) /\ seen' = seen
      /\ promised' = IF Cohort \in DOMAIN kept
                       THEN promised \cup {[by |-> l, plan |-> bundle[l].plan,
                                          rows |-> index[l]]}
                       ELSE promised
  BY DEF Reported
<1>2. run[l] \in {"serving", "settling"} BY <1>1, ServingOnly
<1>3. KeptGoes BY <1>1, SyncGoes
<1>4. OwnsInv(l) /\ DoingInv(l) /\ SettledInv(l) BY <1>2, ServingIs
<1>5. Exists(Settlement) /\ seen[Settlement] = SettlementOf(l)
  BY <1>1, <1>4, DocumentPlaces DEF DoingInv, SettledInv
<1>6. PromiseInv'
  <2>1. CASE promised' = promised BY <1>1, <1>3, <2>1, StillSafe
  <2>2. CASE promised' # promised
    <3> DEFINE p == [by |-> l, plan |-> bundle[l].plan, rows |-> index[l]]
    <3>1. Cohort \in DOMAIN kept /\ promised' = promised \cup {p} BY <1>1, <2>2
    <3>2. Durable(Cohort)' BY <1>3, <3>1 DEF KeptGoes, Durable
    <3>3. Durable(Settlement)'
      <4>1. Settlement \in Children(Runtime)
        BY <1>5, DocumentPlaces, RuntimePlaces DEF Children, Exists
      <4> QED BY <1>1, <4>1, SyncGoes DEF Durable
    <3>4. p.by = l /\ p.plan = bundle[l].plan /\ p.rows = index[l] OBVIOUS
    <3> HIDE DEF p
    <3>5. /\ Exists(Launch) /\ seen[Launch].by = p.by /\ seen[Launch].plan = p.plan
          /\ seen[Settlement] = [by |-> p.by, rows |-> p.rows]
      BY <1>4, <1>5, <3>4 DEF OwnsInv, Mine, SettlementOf
    <3>6. \A s \in Sessions : /\ Exists(Receipt(s))
                              /\ seen[Receipt(s)] = ReceiptOf(p.by, p.rows[s])
      BY <1>5, <3>5 DEF WorldInv, TreeInv, SettlementSafe
    <3>7. \A q \in promised' :
            /\ Exists(Launch) /\ seen[Launch].by = q.by /\ seen[Launch].plan = q.plan
            /\ Exists(Settlement) /\ seen[Settlement] = [by |-> q.by, rows |-> q.rows]
            /\ \A s \in Sessions : /\ Exists(Receipt(s))
                 /\ seen[Receipt(s)] = ReceiptOf(q.by, q.rows[s])
      BY <1>5, <3>1, <3>5, <3>6 DEF WorldInv, PromiseInv, ReportedStays
    <3>8. ReportedStays' BY <1>1, <3>7 DEF ReportedStays, ReceiptOf, Exists
    <3>9. Exists(Settlement)' BY <1>1, <1>5 DEF Exists
    <3> QED BY <3>2, <3>3, <3>8, <3>9 DEF PromiseInv
  <2> QED BY <2>1, <2>2
<1> QED BY <1>1, <1>3, <1>6, LeaveSafe

(* Every step of a launcher.                                               *)
LEMMA LauncherSafe ==
  ASSUME WorldInv, NEW l \in Launchers, LauncherStep(l)
  PROVE  NextWorld
<1>1. Grows
  <2>1. IInv BY DEF WorldInv
  <2> QED BY <2>1, LayingGrows, ServingGrows, SettlingGrows DEF LauncherStep, Kept
<1>2. CASE Authenticate(l) \/ Claim(l)
  BY <1>2, AuthenticateSafe, ClaimSafe
<1>3. CASE LayNext(l) \/ LaidNext(l)
  BY <1>1, <1>3, LayNextSafe, LaidNextSafe
<1>4. CASE LayFails(l) \/ SettleFails(l) \/ Dies(l)
  BY <1>4, EndsSafe
<1>5. ASSUME NEW s \in Sessions,
             \/ Write(l, s) \/ WriteFails(l, s) \/ SettleMissing(l, s)
             \/ ReceiptSynced(l, s) \/ ReceiptFails(l, s)
             \/ \E v \in Verdicts : EndSession(l, s, v)
      PROVE  NextWorld
  BY <1>1, <1>5, WriteSafe, WriteFailsSafe, EndSessionSafe, ReceiptSyncedSafe,
     ReceiptFailsSafe
<1>6. CASE Written(l) BY <1>6, WrittenSafe
<1>7. CASE BeginSettling(l) \/ Settle(l) \/ Reported(l)
  BY <1>1, <1>7, BeginSettlingSafe, SettleSafe, ReportedSafe
<1> QED BY <1>2, <1>3, <1>4, <1>5, <1>6, <1>7 DEF LauncherStep

-----------------------------------------------------------------------------
(* Nobody launches what was never planned.                                 *)
LEMMA NobodyYet ==
  ASSUME WorldInv, ~Exists(Cohort), NEW m \in Launchers, UNCHANGED runVars
  PROVE  LauncherInv(m)'
<1>1. run[m] # "ready" /\ ~Active(m) BY DEF WorldInv, LauncherInv, ReadyInv
<1>2. run'[m] # "ready" /\ ~Active(m)' BY <1>1 DEF Active, runVars
<1>3. QuietInv(m)' BY DEF WorldInv, LauncherInv, QuietInv, Fresh, Active, runVars
<1>4. ReadyInv(m)' /\ LayingInv(m)' /\ ServingInv(m)'
  BY <1>2 DEF ReadyInv, LayingInv, ServingInv, Active
<1> QED BY <1>3, <1>4 DEF LauncherInv

(* A step of nobody's memory.                                              *)
LEMMA QuietShape ==
  ASSUME WorldInv, UNCHANGED runVars
  PROVE  ShapeInv' /\ LockInv' /\ promised' = promised
BY DEF WorldInv, ShapeInv, LockInv, Active, runVars

(* Nothing new is seen and nobody's memory changes.                        *)
LEMMA StillWorld ==
  ASSUME WorldInv, UNCHANGED runVars, seen' = seen, KeptGoes
  PROVE  NextWorld
<1>1. ASSUME NEW m \in Launchers PROVE LauncherInv(m)'
  <2>1. Same(m) BY DEF Same, runVars
  <2>2. LauncherInv(m) BY DEF WorldInv
  <2> QED BY <2>1, <2>2, OthersStill
<1>2. ShapeInv' /\ LockInv' /\ promised' = promised BY QuietShape
<1>3. TreeInv' /\ PromiseInv' BY <1>2, StillSafe
<1> QED BY <1>1, <1>2, <1>3 DEF NextWorld

(* The planners' steps.                                                    *)
LEMMA PlannerSafe ==
  ASSUME WorldInv, NEW a \in Planners, PlannerStep(a), UNCHANGED runVars
  PROVE  NextWorld
<1>1. CASE seen' = seen /\ KeptGoes BY <1>1, StillWorld
<1>2. CASE Stage(a) \/ SaveFails(a)
  <2>1. seen' = seen /\ kept' = kept BY <1>2 DEF Stage, SaveFails, treeVars
  <2> QED BY <1>1, <2>1, KeptStill
<1>3. CASE Saved(a)
  BY <1>1, <1>3, SyncGoes DEF Saved
<1>4. CASE Rename(a) /\ Exists(Cohort)
  <2>1. seen' = seen /\ kept' = kept BY <1>4 DEF Rename, treeVars
  <2> QED BY <1>1, <2>1, KeptStill
<1>5. CASE Rename(a) /\ ~Exists(Cohort)
  <2>1. seen' = Overlay(seen, Bundle(a)) /\ kept' = Overlay(kept, SyncedPart(a))
    BY <1>5 DEF Rename
  <2>2. TreeInv' BY <1>5, <2>1, RenameTree DEF WorldInv
  <2>3. Grows
    <3>1. IInv BY DEF WorldInv
    <3> QED BY <3>1, PlannerGrows DEF Kept
  <2>4. DOMAIN kept \subseteq DOMAIN kept' BY <2>1 DEF Overlay
  <2>5. ShapeInv' /\ LockInv' /\ promised' = promised BY QuietShape
  <2>6. PromiseInv' BY <2>3, <2>4, <2>5, PromiseStays DEF WorldInv
  <2>7. \A m \in Launchers : LauncherInv(m)' BY <1>5, NobodyYet
  <2> QED BY <2>2, <2>5, <2>6, <2>7 DEF NextWorld
<1> QED BY <1>2, <1>3, <1>4, <1>5 DEF PlannerStep

(* The power fails.                                                        *)
LEMMA LossSafe ==
  ASSUME WorldInv, PowerLoss PROVE NextWorld
<1>1. Leaves BY LossLeaves DEF WorldInv, PowerLoss
<1>2. TreeInv' BY <1>1, LossTree DEF WorldInv
<1>3. PromiseInv' BY <1>1, LossPromise DEF WorldInv, PowerLoss
<1>4. /\ run' = [l \in Launchers |-> IF run[l] = "idle" THEN "idle" ELSE "ended"]
      /\ holder' = Nobody /\ bundle' = NoBundle /\ at' = NothingLaid
      /\ doing' = NothingDone /\ stage' = NoStage /\ index' = NoIndex /\ broken' = {}
  BY DEF PowerLoss
<1>5. ShapeInv'
  <2>1. run' \in [Launchers -> Stages] BY <1>4 DEF Stages
  <2>2. bundle' \in [Launchers -> Plans] BY <1>4 DEF NoBundle, Plans
  <2>3. at' \in [Launchers -> Nat] BY <1>4 DEF NothingLaid
  <2>4. doing' \in [Launchers -> Seq(Names)] BY <1>4, DocumentPlaces DEF NothingDone
  <2>5. stage' \in [Launchers -> [Sessions -> 0..Swept]]
    <3>1. 0 \in 0..Swept BY StageValues
    <3> QED BY <1>4, <3>1 DEF NoStage
  <2>6. index' \in [Launchers -> [Sessions -> Outcomes]] BY <1>4 DEF NoIndex, Outcomes
  <2> QED BY <1>4, <2>1, <2>2, <2>3, <2>4, <2>5, <2>6 DEF ShapeInv
<1>6. \A l \in Launchers : run'[l] \in {"idle", "ended"} BY <1>4
<1>7. LockInv' BY <1>4, <1>6, CohortAssumption DEF LockInv, Active
<1>8. ASSUME NEW l \in Launchers PROVE LauncherInv(l)'
  <2>1. Fresh(l)' /\ at'[l] = 0 /\ doing'[l] = <<>>
    BY <1>4 DEF Fresh, NoStage, NoIndex, NothingLaid, NothingDone
  <2>2. ~Active(l)' /\ run'[l] # "ready" BY <1>6 DEF Active
  <2> QED
    BY <2>1, <2>2 DEF LauncherInv, QuietInv, ReadyInv, LayingInv, ServingInv, Active
<1> QED BY <1>2, <1>3, <1>5, <1>7, <1>8 DEF NextWorld

-----------------------------------------------------------------------------
(* The reader: it finds what it needs because the launch is published over *)
(* its whole layout and nothing goes away while it reads; and the states   *)
(* it looks at once the launch has ended are the last ones.                *)
Readings == {"absent", "idle", "state", "open", "receipt", "settlement", "moved"}

ReaderInv ==
  /\ turn \in 1..Len(Planned) /\ reader \in Readings /\ quiet \in BOOLEAN
  /\ reader \notin {"absent", "idle"} => Exists(Launch)
  /\ reader = "open" /\ quiet => Ended /\ seen[State(Planned[turn])] = looked
  /\ reader = "moved" => ~quiet

(* What has ended does so for good, with the states it had.                *)
EndedStays ==
  Exists(Launch) /\ Ended =>
    Ended' /\ \A s \in Sessions : seen'[State(s)] = seen[State(s)]

(* Where the reader is, is a session.                                      *)
LEMMA AtSession ==
  ASSUME ReaderInv
  PROVE  Len(Planned) \in Nat /\ Planned[turn] \in Sessions
BY PlannedIs, ElementOfSeq DEF ReaderInv

(* Everybody else leaves it its launch, and what it looked at of one that  *)
(* has ended.                                                              *)
LEMMA ReaderStays ==
  ASSUME ReaderInv, Grows, EndedStays, UNCHANGED readVars
  PROVE  ReaderInv'
<1>1. UNCHANGED <<reader, turn, looked, quiet>> BY DEF readVars
<1>2. Exists(Launch) => Exists(Launch)' BY DEF Grows, Exists
<1>3. Planned' = Planned BY DEF Planned
<1>4. ASSUME reader = "open", quiet
      PROVE  Ended' /\ seen'[State(Planned[turn])] = looked
  <2>1. Exists(Launch) /\ Ended /\ seen[State(Planned[turn])] = looked
    BY <1>4 DEF ReaderInv
  <2> QED BY <2>1, AtSession DEF EndedStays
<1> QED BY <1>1, <1>2, <1>4 DEF ReaderInv

(* A launcher that moves has not ended, and ends nobody else.              *)
LEMMA LauncherRuns ==
  ASSUME WorldInv, NEW l \in Launchers, LauncherStep(l)
  PROVE  run[l] # "ended" /\ \A m \in Launchers : m # l => run'[m] = run[m]
<1>1. run \in [Launchers -> Stages] BY DEF WorldInv, ShapeInv
<1>2. CASE Authenticate(l) \/ Claim(l) \/ LayNext(l) \/ LaidNext(l) \/ LayFails(l)
  BY <1>1, <1>2 DEF Authenticate, Claim, LayNext, LaidNext, LayFails, Leave
<1>3. CASE Written(l) \/ BeginSettling(l) \/ Settle(l) \/ SettleFails(l) \/ Dies(l)
  BY <1>1, <1>3 DEF Written, BeginSettling, Serving, Settle, SettleFails, Dies, Leave
<1>4. CASE Reported(l)
  <2>1. run[l] \in {"serving", "settling"} BY <1>4, ServingOnly DEF Reported
  <2> QED BY <1>1, <1>4, <2>1 DEF Reported, Leave
<1>5. ASSUME NEW s \in Sessions, Write(l, s) \/ WriteFails(l, s) \/ SettleMissing(l, s)
                                 \/ \E v \in Verdicts : EndSession(l, s, v)
      PROVE  run[l] # "ended" /\ run' = run
  BY <1>5 DEF Write, WriteFails, Serving, SettleMissing, Missing, EndSession, RunOneDue
<1>6. ASSUME NEW s \in Sessions, ReceiptSynced(l, s) \/ ReceiptFails(l, s)
      PROVE  run[l] # "ended" /\ run' = run
  <2>1. run[l] \in {"serving", "settling"}
    BY <1>6, ServingOnly
       DEF ReceiptSynced, ReceiptFails, RunOneDue, Missing, Serving
  <2> QED BY <1>6, <2>1 DEF ReceiptSynced, ReceiptFails
<1> QED BY <1>2, <1>3, <1>4, <1>5, <1>6 DEF LauncherStep

(* Only the owner of a launch replaces a state, and not of a settled one.  *)
LEMMA OthersReplaceNothing ==
  ASSUME WorldInv, NEW l \in Launchers, LauncherStep(l),
         Exists(Launch), Ended, NEW p \in DOMAIN seen
  PROVE  seen'[p] = seen[p]
<1>1. ASSUME OwnLaunch(l), doing[l] # Settlement,
             run[l] \in {"serving", "settling"}
      PROVE  FALSE
  <2>1. seen[Launch].by = l BY <1>1 DEF OwnLaunch
  <2>2. run[l] # "ended" BY LauncherRuns
  <2>3. Exists(Settlement) BY <2>1, <2>2 DEF Ended
  <2> QED BY <1>1, <2>3, ServingIs DEF SettledInv
<1>2. ASSUME NEW path, NEW content, Link(path, content) PROVE seen'[p] = seen[p]
  BY <1>2 DEF Link, Exists
<1>3. CASE seen' = seen BY <1>3
<1>4. CASE \/ Authenticate(l) \/ Claim(l) \/ LayNext(l) \/ LaidNext(l) \/ LayFails(l)
           \/ Written(l) \/ BeginSettling(l) \/ Settle(l) \/ Reported(l)
           \/ SettleFails(l) \/ Dies(l)
  <2>1. seen' = seen \/ \E path, content : Link(path, content)
    BY <1>4 DEF Authenticate, Claim, LayNext, LaidNext, LayFails, Written,
                BeginSettling, Settle, Reported, SettleFails, Dies, treeVars
  <2> QED BY <1>2, <1>3, <2>1
<1>5. ASSUME NEW s \in Sessions, Write(l, s) PROVE seen'[p] = seen[p]
  <2>1. OwnLaunch(l) /\ run[l] = "serving" /\ doing[l] = <<>>
    BY <1>5 DEF Write, Serving
  <2> QED BY <1>1, <2>1, DocumentPlaces
<1>6. ASSUME NEW s \in Sessions, ReceiptSynced(l, s) PROVE seen'[p] = seen[p]
  <2>1. doing[l] = Receipt(s) BY <1>6 DEF ReceiptSynced
  <2>2. run[l] \in {"serving", "settling"} BY <2>1, ServingOnly
  <2>3. doing[l] # Settlement BY <2>1, Apart
  <2>4. ~OwnLaunch(l) BY <1>1, <2>2, <2>3
  <2> QED BY <1>6, <2>4 DEF ReceiptSynced
<1>7. ASSUME NEW s \in Sessions, WriteFails(l, s) \/ ReceiptFails(l, s)
      PROVE  seen'[p] = seen[p]
  BY <1>7 DEF WriteFails, ReceiptFails, treeVars
<1>8. ASSUME NEW s \in Sessions, SettleMissing(l, s) \/ \E v \in Verdicts : EndSession(l, s, v)
      PROVE  seen'[p] = seen[p]
  <2>1. seen' = seen \/ \E path, content : Link(path, content)
    BY <1>8 DEF SettleMissing, EndSession, PutReceipt
  <2> QED BY <1>2, <1>3, <2>1
<1> QED BY <1>4, <1>5, <1>6, <1>7, <1>8 DEF LauncherStep

(* No launcher disturbs what has ended.                                    *)
LEMMA LauncherEnded ==
  ASSUME WorldInv, Grows, NEW l \in Launchers, LauncherStep(l)
  PROVE  EndedStays
<1> SUFFICES ASSUME Exists(Launch), Ended
             PROVE  Ended' /\ \A s \in Sessions : seen'[State(s)] = seen[State(s)]
  BY DEF EndedStays
<1>1. \A s \in Sessions : State(s) \in DOMAIN seen
  BY Apart DEF WorldInv, TreeInv, LaunchSafe, Exists
<1>2. \A s \in Sessions : seen'[State(s)] = seen[State(s)]
  BY <1>1, OthersReplaceNothing
<1>3. ASSUME Exists(Settlement) PROVE Ended'
  BY <1>3 DEF Grows, Exists, Ended
<1>4. ASSUME run[seen[Launch].by] = "ended" PROVE Ended'
  <2>1. PICK m \in Launchers : m = seen[Launch].by BY DEF WorldInv, TreeInv, LaunchSafe
  <2>2. m # l /\ run'[m] = run[m] BY <1>4, <2>1, LauncherRuns
  <2>3. seen'[Launch] = seen[Launch]
    <3>1. Last(Launch) # "state" BY RuntimePlaces
    <3> QED BY <3>1 DEF Grows, Exists
  <2> QED BY <1>4, <2>1, <2>2, <2>3 DEF Ended
<1> QED BY <1>2, <1>3, <1>4 DEF Ended

(* Nor does a planner: there is no launch without a cohort.                *)
LEMMA PlannerEnded ==
  ASSUME WorldInv, NEW a \in Planners, PlannerStep(a), UNCHANGED runVars
  PROVE  EndedStays
<1> SUFFICES ASSUME Exists(Launch), Ended
             PROVE  Ended' /\ \A s \in Sessions : seen'[State(s)] = seen[State(s)]
  BY DEF EndedStays
<1>1. Exists(Cohort) BY Below DEF WorldInv, TreeInv
<1>2. seen' = seen
  BY <1>1 DEF PlannerStep, Stage, Rename, Saved, SaveFails, treeVars
<1> QED BY <1>2 DEF Ended, Exists, runVars

(* The session's directories are part of the layout.                       *)
LEMMA PathsThere ==
  ASSUME WorldInv, Exists(Launch), NEW s \in Sessions
  PROVE  HasPaths(s) /\ Exists(State(s)) /\ OfLaunch(State(s))
<1>1. \A p \in Inner : Exists(p) /\ seen[p].by = seen[Launch].by
  BY DEF WorldInv, TreeInv, LaunchSafe
<1>2. \A n \in 1..Len(Private) : Private[n] \in Parts BY DEF Private, Parts
<1>3. \A n \in 1..Len(Private) : Append(Root(s), Private[n]) \in Inner
  BY <1>2 DEF Inner
<1>4. Root(s) \in Inner /\ State(s) \in Inner BY Apart
<1> QED BY <1>1, <1>3, <1>4 DEF HasPaths, OfLaunch

(* Its own steps.                                                          *)
LEMMA ReaderSafe ==
  ASSUME WorldInv, ReaderInv, ReaderStep
  PROVE  ReaderInv'
<1>1. seen' = seen /\ run' = run
  BY DEF ReaderStep, ReadLaunch, LookAtState, ReadState, ReadReceipt,
         ReadSettlement, treeVars, runVars
<1>2. Exists(Launch)
  BY DEF ReaderInv, ReaderStep, ReadLaunch, LookAtState, ReadState, ReadReceipt,
         ReadSettlement
<1>3. Exists(Launch)' BY <1>1, <1>2 DEF Exists
<1>4. LaunchSafe /\ SettlementSafe BY DEF WorldInv, TreeInv
<1>5. turn \in 1..Len(Planned) /\ Len(Planned) \in Nat /\ quiet \in BOOLEAN
  BY AtSession DEF ReaderInv
<1>6. Planned[turn] \in Sessions BY AtSession
<1>7. /\ HasPaths(Planned[turn]) /\ Exists(State(Planned[turn]))
      /\ OfLaunch(State(Planned[turn]))
  BY <1>2, <1>6, PathsThere
<1>8. CASE ReadLaunch
  <2>1. Exists(SessionsRoot) /\ LaunchAccepted(seen[Launch])
    BY <1>2, <1>4 DEF LaunchSafe, Inner
  <2>2. reader' = "state" /\ turn' = turn /\ quiet' = quiet
    BY <1>8, <2>1 DEF ReadLaunch
  <2> QED BY <1>3, <1>5, <2>2 DEF ReaderInv, Readings
<1>9. CASE LookAtState
  <2>1. /\ reader' = "open" /\ turn' = turn /\ quiet' = Ended
        /\ looked' = seen[State(Planned[turn])]
    BY <1>7, <1>9 DEF LookAtState
  <2>2. Ended \in BOOLEAN /\ Ended' = Ended BY <1>1 DEF Ended, Exists
  <2> QED BY <1>1, <1>3, <1>5, <2>1, <2>2 DEF ReaderInv, Readings
<1>10. CASE ReadState
  <2>1. /\ turn' = turn /\ quiet' = (quiet /\ reader' = "moved")
        /\ reader = "open"
    BY <1>10 DEF ReadState
  <2>2. CASE seen[State(Planned[turn])] = looked
    <3>1. reader' = "receipt" BY <1>7, <1>10, <2>2 DEF ReadState
    <3> QED BY <1>3, <1>5, <2>1, <3>1 DEF ReaderInv, Readings
  <2>3. CASE seen[State(Planned[turn])] # looked
    <3>1. reader' \in {"receipt", "moved"} BY <1>7, <1>10, <2>3 DEF ReadState
    <3>2. ~quiet BY <2>1, <2>3 DEF ReaderInv
    <3> QED BY <1>3, <1>5, <2>1, <3>1, <3>2 DEF ReaderInv, Readings
  <2> QED BY <2>2, <2>3
<1>11. CASE ReadReceipt
  <2>1. Exists(Receipt(Planned[turn])) => OfLaunch(Receipt(Planned[turn]))
    BY <1>2, <1>4, <1>6 DEF LaunchSafe, OfLaunch
  <2>2. /\ reader' = IF turn < Len(Planned) THEN "state" ELSE "settlement"
        /\ turn' = IF turn < Len(Planned) THEN turn + 1 ELSE turn
        /\ quiet' = quiet
    BY <1>7, <1>11, <2>1 DEF ReadReceipt
  <2>3. turn' \in 1..Len(Planned) BY <1>5, <2>2
  <2>4. reader' \in Readings /\ reader' \notin {"open", "moved"}
    BY <2>2 DEF Readings
  <2> QED BY <1>3, <1>5, <2>2, <2>3, <2>4 DEF ReaderInv
<1>12. CASE ReadSettlement
  <2>1. Exists(Settlement) => SettlementRebuilds
    BY <1>4 DEF SettlementSafe, SettlementRebuilds, OfLaunch
  <2>2. reader' = "idle" /\ turn' = 1 /\ quiet' = quiet
    BY <1>12, <2>1 DEF ReadSettlement
  <2>3. 1 \in 1..Len(Planned) BY <1>5
  <2> QED BY <1>5, <2>2, <2>3 DEF ReaderInv, Readings
<1> QED BY <1>8, <1>9, <1>10, <1>11, <1>12 DEF ReaderStep

-----------------------------------------------------------------------------
(* All of it.                                                              *)
PlannerInv == planner \in [Planners -> PlannerStates]

CrashInv == WorldInv /\ ReaderInv /\ PlannerInv

(* There is nothing yet.                                                   *)
LEMMA CrashInit == Init => CrashInv
<1> SUFFICES ASSUME Init PROVE CrashInv OBVIOUS
<1>1. /\ \A p : ~Exists(p) /\ ~Durable(p)
      /\ seen = [p \in {} |-> Nobody] /\ kept = [p \in {} |-> Nobody]
  BY DEF Init, Exists, Durable
<1>2. PICK crowd :
        /\ planner = [a \in Planners |-> IF a \in crowd THEN "idle" ELSE "ended"]
        /\ RunInit(crowd)
        /\ reader = IF Reader \in crowd THEN "idle" ELSE "absent"
  BY DEF Init
<1>3. /\ run = [l \in Launchers |-> IF l \in crowd THEN "idle" ELSE "ended"]
      /\ holder = Nobody /\ bundle = NoBundle
      /\ at = NothingLaid /\ doing = NothingDone /\ stage = NoStage
      /\ index = NoIndex /\ broken = {} /\ promised = {}
  BY <1>2 DEF RunInit
<1>4. \A l \in Launchers : run[l] \in {"idle", "ended"} BY <1>3
<1>5. TreeInv
  BY <1>1 DEF TreeInv, TreeShape, CohortSafe, LaunchSafe, SettlementSafe
<1>6. PromiseInv BY <1>3 DEF PromiseInv, ReportedStays
<1>7. ShapeInv
  <2>1. run \in [Launchers -> Stages] BY <1>3 DEF Stages
  <2>2. bundle \in [Launchers -> Plans] BY <1>3 DEF NoBundle, Plans
  <2>3. at \in [Launchers -> Nat] BY <1>3 DEF NothingLaid
  <2>4. doing \in [Launchers -> Seq(Names)] BY <1>3, DocumentPlaces DEF NothingDone
  <2>5. stage \in [Launchers -> [Sessions -> 0..Swept]]
    <3>1. 0 \in 0..Swept BY StageValues
    <3> QED BY <1>3, <3>1 DEF NoStage
  <2>6. index \in [Launchers -> [Sessions -> Outcomes]] BY <1>3 DEF NoIndex, Outcomes
  <2> QED BY <1>3, <2>1, <2>2, <2>3, <2>4, <2>5, <2>6 DEF ShapeInv
<1>8. LockInv BY <1>3, <1>4, CohortAssumption DEF LockInv, Active
<1>9. ASSUME NEW l \in Launchers PROVE LauncherInv(l)
  <2>1. Fresh(l) /\ at[l] = 0 /\ doing[l] = <<>>
    BY <1>3 DEF Fresh, NoStage, NoIndex, NothingLaid, NothingDone
  <2>2. ~Active(l) /\ run[l] # "ready" BY <1>4 DEF Active
  <2> QED
    BY <2>1, <2>2 DEF LauncherInv, QuietInv, ReadyInv, LayingInv, ServingInv, Active
<1>10. ReaderInv
  <2>1. reader \in {"absent", "idle"} BY <1>2
  <2>2. turn = 1 /\ quiet = FALSE BY DEF Init
  <2>3. 1 \in 1..Len(Planned) BY PlannedIs
  <2> QED BY <2>1, <2>2, <2>3 DEF ReaderInv, Readings
<1>11. PlannerInv BY <1>2 DEF PlannerInv, PlannerStates
<1>12. IInv BY InitInv
<1> QED
  BY <1>5, <1>6, <1>7, <1>8, <1>9, <1>10, <1>11, <1>12 DEF CrashInv, WorldInv

(* Planners only move on.                                                  *)
LEMMA PlannerTyped ==
  ASSUME PlannerInv, [Next]_vars PROVE PlannerInv'
<1>1. ASSUME NEW a \in Planners, PlannerStep(a) PROVE PlannerInv'
  BY <1>1 DEF PlannerInv, PlannerStates, PlannerStep, Stage, Rename, Saved, SaveFails
<1>2. ASSUME planner' = planner PROVE PlannerInv' BY <1>2 DEF PlannerInv
<1>3. ASSUME NEW l \in Launchers, LauncherStep(l) PROVE planner' = planner
  BY <1>3 DEF LauncherStep, Authenticate, Claim, LayNext, LaidNext, LayFails, Write,
              WriteFails, EndSession, SettleMissing, ReceiptFails, Written,
              ReceiptSynced, BeginSettling, Settle, Reported, SettleFails, Dies
<1>4. CASE PowerLoss BY <1>4 DEF PowerLoss, PlannerInv, PlannerStates
<1>5. CASE ReaderStep \/ UNCHANGED vars
  BY <1>2, <1>5 DEF ReaderStep, ReadLaunch, LookAtState, ReadState, ReadReceipt,
                    ReadSettlement, vars
<1> QED BY <1>1, <1>2, <1>3, <1>4, <1>5 DEF Next

(* Every step keeps all of it.                                             *)
LEMMA CrashStep ==
  ASSUME CrashInv, [Next]_vars PROVE CrashInv'
<1>1. WorldInv /\ ReaderInv /\ PlannerInv /\ IInv BY DEF CrashInv, WorldInv
<1>2. IInv' /\ Unrewritten BY <1>1, StepInv
<1>3. PlannerInv' BY <1>1, PlannerTyped
<1>4. ASSUME UNCHANGED losses PROVE Grows BY <1>2, <1>4 DEF Unrewritten, Grows
<1>5. ASSUME NextWorld, ReaderInv' PROVE CrashInv'
  BY <1>2, <1>3, <1>5 DEF NextWorld, CrashInv, WorldInv
<1>6. ASSUME NEW a \in Planners, PlannerStep(a), UNCHANGED <<runVars, readVars>>
      PROVE  CrashInv'
  <2>1. NextWorld BY <1>1, <1>6, PlannerSafe
  <2>2. Grows BY <1>4, <1>6 DEF readVars
  <2>3. EndedStays BY <1>1, <1>6, PlannerEnded
  <2>4. ReaderInv' BY <1>1, <1>6, <2>2, <2>3, ReaderStays
  <2> QED BY <1>5, <2>1, <2>4
<1>7. ASSUME NEW l \in Launchers, LauncherStep(l), UNCHANGED readVars
      PROVE  CrashInv'
  <2>1. NextWorld BY <1>1, <1>7, LauncherSafe
  <2>2. Grows BY <1>4, <1>7 DEF readVars
  <2>3. EndedStays BY <1>1, <1>7, <2>2, LauncherEnded
  <2>4. ReaderInv' BY <1>1, <1>7, <2>2, <2>3, ReaderStays
  <2> QED BY <1>5, <2>1, <2>4
<1>8. CASE ReaderStep
  <2>1. seen' = seen /\ kept' = kept /\ UNCHANGED runVars
    BY <1>8 DEF ReaderStep, ReadLaunch, LookAtState, ReadState, ReadReceipt,
                ReadSettlement, treeVars
  <2>2. NextWorld BY <1>1, <2>1, KeptStill, StillWorld
  <2>3. ReaderInv' BY <1>1, <1>8, ReaderSafe
  <2> QED BY <1>5, <2>2, <2>3
<1>9. CASE PowerLoss
  <2>1. NextWorld BY <1>1, <1>9, LossSafe
  <2>2. ReaderInv'
    <3>1. 1 \in 1..Len(Planned) BY PlannedIs
    <3> QED BY <1>9, <3>1 DEF PowerLoss, ReaderInv, Readings
  <2> QED BY <1>5, <2>1, <2>2
<1>10. CASE UNCHANGED vars
  <2>1. seen' = seen /\ kept' = kept /\ UNCHANGED runVars /\ UNCHANGED readVars
    BY <1>10 DEF vars, treeVars
  <2>2. NextWorld BY <1>1, <2>1, KeptStill, StillWorld
  <2>3. Grows BY <1>4, <2>1 DEF readVars
  <2>4. EndedStays BY <2>1 DEF EndedStays, Ended, Exists, runVars
  <2>5. ReaderInv' BY <1>1, <2>1, <2>3, <2>4, ReaderStays
  <2> QED BY <1>5, <2>2, <2>5
<1> QED BY <1>6, <1>7, <1>8, <1>9, <1>10 DEF Next

(* The files of a cohort stay within the invariant, whoever dies and       *)
(* however often the power fails.                                          *)
THEOREM CrashIsInductive == Spec => []CrashInv
<1>1. Init => CrashInv BY CrashInit
<1>2. CrashInv /\ [Next]_vars => CrashInv' BY CrashStep
<1> QED BY <1>1, <1>2, PTL DEF Spec

(* What the variables hold.                                                *)
THEOREM FilesTyped == Spec => []TypeOK
<1>1. CrashInv => TypeOK
  <2> SUFFICES ASSUME CrashInv PROVE TypeOK OBVIOUS
  <2>1. WorldInv /\ PlannerInv /\ ShapeInv /\ ReaderInv BY DEF CrashInv, WorldInv
  <2>2. /\ \A p \in DOMAIN seen : seen[p].by \in Parties
        /\ \A p \in DOMAIN kept : kept[p].by \in Parties
    BY <2>1 DEF WorldInv, TreeInv, TreeShape
  <2>3. ASSUME NEW l \in Launchers
        PROVE  at[l] \in 0..Len(Layout) /\ doing[l] \in DOMAIN seen \cup {<<>>}
    <3>1. at[l] \in Nat /\ LauncherInv(l) BY <2>1 DEF WorldInv, ShapeInv
    <3>2. CASE ~Active(l) BY <3>1, <3>2, LayoutIs DEF LauncherInv, QuietInv
    <3>3. CASE run[l] = "laying"
      BY <3>1, <3>3, LayoutIs DEF LauncherInv, LayingInv, Mine, Exists
    <3>4. CASE run[l] \in {"serving", "settling"}
      BY <3>1, <3>4, LayoutIs DEF LauncherInv, ServingInv, OwnsInv, DoingInv, Exists
    <3> QED BY <3>2, <3>3, <3>4 DEF Active
  <2>4. at \in [Launchers -> 0..Len(Layout)] BY <2>1, <2>3 DEF ShapeInv
  <2>5. doing \in [Launchers -> DOMAIN seen \cup {<<>>}] BY <2>1, <2>3 DEF ShapeInv
  <2>6. run \in [Launchers -> {"idle", "ready", "laying", "serving", "settling", "ended"}]
    BY <2>1 DEF ShapeInv, Stages
  <2>7. bundle \in [Launchers -> [plan : Planners \cup {Nobody}, pinned : BOOLEAN]]
    BY <2>1 DEF ShapeInv, Plans
  <2>8. turn \in 1..Len(Planned) /\ quiet \in BOOLEAN BY <2>1 DEF ReaderInv
  <2> QED BY <2>1, <2>2, <2>4, <2>5, <2>6, <2>7, <2>8 DEF ShapeInv, PlannerInv, TypeOK
<1> QED BY <1>1, CrashIsInductive, PTL

(* create_launch publishes a launch over its complete private layout, and  *)
(* neither a death nor a power loss leaves half of it under a trusted name. *)
THEOREM LaunchesAreWhole == Spec => []NeverHalfThere
<1>1. CrashInv => NeverHalfThere
  <2> SUFFICES ASSUME CrashInv PROVE NeverHalfThere OBVIOUS
  <2>1. TreeShape /\ CohortSafe /\ LaunchSafe /\ SettlementSafe
    BY DEF CrashInv, WorldInv, TreeInv
  <2>2. Exists(Cohort) => Exists(Plan) /\ Exists(Briefing) /\ seen[Plan] = seen[Briefing]
    BY <2>1 DEF CohortSafe
  <2>3. Exists(Launch) => \A n \in 1..Len(Layout) :
                            Exists(Layout[n]) /\ seen[Layout[n]].by = seen[Launch].by
    <3> SUFFICES ASSUME Exists(Launch), NEW n \in 1..Len(Layout)
                 PROVE  Exists(Layout[n]) /\ seen[Layout[n]].by = seen[Launch].by
      OBVIOUS
    <3>1. CASE n = Len(Layout) BY <3>1, LayoutIs
    <3>2. CASE n # Len(Layout)
      <4>1. n \in 1..Len(Layout) - 1 BY <3>2, LayoutIs
      <4>2. Layout[n] \in Inner BY <4>1, LayoutIs
      <4> QED BY <2>1, <4>2 DEF LaunchSafe
    <3> QED BY <3>1, <3>2
  <2>4. Exists(Launch) =>
          /\ seen[Launch].plan = seen[Plan].by /\ seen[Launch].pinned
          /\ \A s \in Sessions :
               Exists(Receipt(s)) => seen[Receipt(s)].by = seen[Launch].by
    BY <2>1 DEF LaunchSafe, LaunchAccepted
  <2>5. Exists(Settlement) =>
          /\ Exists(Launch) /\ seen[Settlement].by = seen[Launch].by
          /\ \A s \in Sessions : /\ Exists(Receipt(s))
               /\ seen[Receipt(s)] = ReceiptOf(seen[Launch].by, seen[Settlement].rows[s])
    BY <2>1 DEF SettlementSafe
  <2> QED BY <2>2, <2>3, <2>4, <2>5 DEF NeverHalfThere, Whole, Exists
<1> QED BY <1>1, CrashIsInductive, PTL

(* run_prepared_cohort returns a settlement only when a power loss can no  *)
(* longer take it, its launch or its receipts away.                        *)
THEOREM ReportsAreDurable == Spec => []ReportedStays
<1>1. CrashInv => ReportedStays BY DEF CrashInv, WorldInv, PromiseInv
<1> QED BY <1>1, CrashIsInductive, PTL

(* read_status meets only documents that are there and agree, however the  *)
(* launch moves on between one file and the next; a state file that is     *)
(* replaced under it belongs to a launch that was running when it looked.  *)
THEOREM StatusReadsSucceed == Spec => []StatusIsAnswered
<1>1. CrashInv => StatusIsAnswered BY DEF CrashInv, ReaderInv, Readings, StatusIsAnswered
<1> QED BY <1>1, CrashIsInductive, PTL
==============================================================================
