-------------------------- MODULE VerificationProofs --------------------------
(***************************************************************************)
(* For any number of invocations of the kit, of materializers, importers,  *)
(* calls, drifts and power losses: the advisory count is honest, the       *)
(* materializers of one source agree, documents stay backed, and what a    *)
(* verification receipt says is true.                                      *)
(***************************************************************************)
EXTENDS VerificationProps, SequenceTheorems, TLAPS

(* An invocation and a receipt are records of the parts they have.         *)
KitShaped ==
  /\ kit = [k \in Kits |-> [at |-> kit[k].at, status |-> kit[k].status,
                            ordinal |-> kit[k].ordinal]]
  /\ ledger = [o \in DOMAIN ledger |->
                 [by |-> ledger[o].by, status |-> ledger[o].status]]

(* An invocation keeps the ordinal it claimed.                             *)
ClaimHolds(k) ==
  /\ kit[k].at \in {"claimed", "judged", "returned"} =>
       kit[k].ordinal \in DOMAIN ledger /\ ledger[kit[k].ordinal].by = k
  /\ kit[k].at \in {"verified", "counted", "claimed", "judged", "returned"} =>
       kit[k].status \in Statuses
  /\ kit[k].at = "returned" =>
       ledger[kit[k].ordinal].status = kit[k].status

(* A receipt is of the one invocation that has its ordinal.                *)
EntryHolds(o) ==
  LET k == ledger[o].by IN
  /\ k \in Kits /\ kit[k].ordinal = o
  /\ kit[k].at \in {"claimed", "judged", "returned", "failed", "killed"}
  /\ ledger[o].status \in {"none", kit[k].status}

(* What was counted is what is printed; what had returned is or will be    *)
(* counted.                                                                *)
CountHolds ==
  /\ DOMAIN tally \cup uncounted \subseteq DOMAIN ledger
  /\ \A o \in DOMAIN tally :
       tally[o] # "rejected" => tally[o] = kit[ledger[o].by].status
  /\ \A k \in before :
       /\ k \in Kits /\ kit[k].at = "returned"
       /\ kit[k].ordinal \in DOMAIN tally \cup uncounted
       /\ kit[k].ordinal \in DOMAIN tally => tally[kit[k].ordinal] = kit[k].status

KitInv ==
  /\ KitShaped
  /\ \A k \in Kits : ClaimHolds(k)
  /\ \A o \in DOMAIN ledger : EntryHolds(o)
  /\ CountHolds

-----------------------------------------------------------------------------
(* At first nothing was invoked.                                           *)
LEMMA KitStart == Init => KitInv
BY DEF Init, KitInit, Fresh, Invocation, KitInv, KitShaped, ClaimHolds, EntryHolds, CountHolds

(* Before it claims an ordinal, an invocation has no receipt.              *)
LEMMA Unclaimed ==
  ASSUME KitInv, NEW k \in Kits, kit[k].at \in {"idle", "captured", "verified", "counted"}
  PROVE  k \notin before /\ \A o \in DOMAIN ledger : ledger[o].by # k
BY DEF KitInv, EntryHolds, CountHolds

(* Such an invocation changes alone.                                       *)
LEMMA EarlySteps ==
  ASSUME KitInv, NEW k \in Kits,
         kit[k].at \in {"idle", "captured", "verified", "counted"},
         NEW new, kit' = [kit EXCEPT ![k] = new],
         new = [at |-> new.at, status |-> new.status, ordinal |-> new.ordinal],
         new.at \notin {"claimed", "judged", "returned"},
         new.at \in {"verified", "counted"} => new.status \in Statuses,
         UNCHANGED <<ledger, tally, uncounted, before>>
  PROVE  KitInv'
<1>1. KitShaped'
  BY DEF KitInv, KitShaped
<1>2. kit'[k] = new /\ \A j \in Kits \ {k} : kit'[j] = kit[j]
  BY DEF KitInv, KitShaped
<1>3. \A j \in Kits : ClaimHolds(j)'
  BY <1>2 DEF KitInv, ClaimHolds
<1>4. \A o \in DOMAIN ledger : EntryHolds(o)'
  BY <1>2, Unclaimed DEF KitInv, EntryHolds
<1>5. CountHolds'
  BY <1>2, Unclaimed DEF KitInv, EntryHolds, CountHolds
<1> QED
  BY <1>1, <1>3, <1>4, <1>5 DEF KitInv

(* Later on only the place of an invocation changes, or it stays returned. *)
LEMMA LateSteps ==
  ASSUME KitInv, KitShaped',
         \A j \in Kits :
           /\ kit'[j].status = kit[j].status /\ kit'[j].ordinal = kit[j].ordinal
           /\ \/ kit'[j].at = kit[j].at
              \/ kit[j].at # "returned" /\ kit'[j].at \in {"failed", "killed"}
              \/ kit[j].at = "claimed" /\ kit'[j].at = "judged",
         UNCHANGED <<ledger, tally, uncounted, before>>
  PROVE  KitInv'
<1>1. \A j \in Kits : ClaimHolds(j)'
  BY DEF KitInv, ClaimHolds
<1>2. \A o \in DOMAIN ledger : EntryHolds(o)'
  BY DEF KitInv, EntryHolds
<1>3. CountHolds'
  BY DEF KitInv, EntryHolds, CountHolds
<1> QED
  BY <1>1, <1>2, <1>3 DEF KitInv
-----------------------------------------------------------------------------
(* The invocation's own steps. *)
LEMMA KitStepInv ==
  ASSUME KitInv, NEW k \in Kits, KitStep(k) \/ KitDies(k)
  PROVE  KitInv'
<1> USE DEF KitGoes
<1>1. kit[k] = [at |-> kit[k].at, status |-> kit[k].status,
                ordinal |-> kit[k].ordinal]
  BY DEF KitInv, KitShaped
<1>2. CASE KitCaptures(k)
  BY <1>2, EarlySteps DEF KitCaptures, Invocation, Statuses
<1>3. CASE KitRuns(k)
  BY <1>3, EarlySteps DEF KitRuns, Invocation
<1>4. CASE KitCounts(k)
  <2>1. kit[k].status \in Statuses
    BY <1>4 DEF KitInv, ClaimHolds, KitCounts
  <2> QED
    BY <1>4, <2>1, EarlySteps DEF KitCounts, Invocation
<1>5. CASE KitClaims(k) /\ kit[k].ordinal \in DOMAIN ledger
  <2>1. kit[k].status \in Statuses
    BY <1>5 DEF KitInv, ClaimHolds, KitClaims
  <2> QED
    BY <1>5, <2>1, EarlySteps DEF KitClaims, Invocation
<1>6. CASE KitClaims(k) /\ kit[k].ordinal \notin DOMAIN ledger
  <2> DEFINE n == kit[k].ordinal
  <2>1. /\ kit[k].at = "counted" /\ kit'[k].at = "claimed"
        /\ kit'[k].status = kit[k].status /\ kit'[k].ordinal = n
        /\ \A j \in Kits \ {k} : kit'[j] = kit[j]
        /\ DOMAIN ledger' = DOMAIN ledger \cup {n}
        /\ ledger'[n] = [by |-> k, status |-> "none"]
        /\ \A o \in DOMAIN ledger : ledger'[o] = ledger[o]
        /\ UNCHANGED <<tally, uncounted, before>>
    BY <1>1, <1>6 DEF KitClaims, Claim, KitInv, KitShaped
  <2>2. KitShaped'
    BY <1>1, <1>6 DEF KitClaims, Claim, KitInv, KitShaped
  <2>3. kit[k].status \in Statuses
    BY <2>1 DEF KitInv, ClaimHolds
  <2>4. \A j \in Kits : ClaimHolds(j)'
    BY <2>1, <2>3, <1>6 DEF KitInv, ClaimHolds
  <2>5. \A o \in DOMAIN ledger' : EntryHolds(o)'
    BY <2>1, Unclaimed DEF KitInv, EntryHolds
  <2>6. CountHolds'
    BY <2>1, <1>6, Unclaimed DEF KitInv, EntryHolds, CountHolds
  <2> QED
    BY <2>2, <2>4, <2>5, <2>6 DEF KitInv
<1>7. CASE KitPublishFails(k) \/ KitWritesVerdict(k) \/ KitDies(k)
  <2>1. KitShaped'
    BY <1>7 DEF KitInv, KitShaped, KitPublishFails, KitWritesVerdict, KitDies
  <2>2. \A j \in Kits :
          /\ kit'[j].status = kit[j].status /\ kit'[j].ordinal = kit[j].ordinal
          /\ \/ kit'[j].at = kit[j].at
             \/ kit[j].at # "returned" /\ kit'[j].at \in {"failed", "killed"}
             \/ kit[j].at = "claimed" /\ kit'[j].at = "judged"
    BY <1>7 DEF KitInv, KitShaped, KitPublishFails, KitWritesVerdict, KitDies
  <2>3. UNCHANGED <<ledger, tally, uncounted, before>>
    BY <1>7 DEF KitPublishFails, KitWritesVerdict, KitDies
  <2> QED
    BY <2>1, <2>2, <2>3, LateSteps
<1>8. CASE KitWritesReceipt(k)
  <2> DEFINE n == kit[k].ordinal
  <2>1. n \in DOMAIN ledger /\ ledger[n].by = k /\ kit[k].status \in Statuses
    BY <1>8 DEF KitInv, ClaimHolds, KitWritesReceipt
  <2>2. /\ kit[k].at = "judged" /\ kit'[k].at = "returned"
        /\ kit'[k].status = kit[k].status /\ kit'[k].ordinal = n
        /\ \A j \in Kits \ {k} : kit'[j] = kit[j]
        /\ DOMAIN ledger' = DOMAIN ledger
        /\ ledger'[n].by = k /\ ledger'[n].status = kit[k].status
        /\ \A o \in DOMAIN ledger \ {n} : ledger'[o] = ledger[o]
        /\ UNCHANGED <<tally, uncounted, before>>
    BY <1>1, <1>8, <2>1 DEF KitWritesReceipt, KitInv, KitShaped
  <2>3. KitShaped'
    <3>1. ledger' = [o \in DOMAIN ledger' |->
                       [by |-> ledger'[o].by, status |-> ledger'[o].status]]
      BY <1>8, <2>1 DEF KitWritesReceipt, KitInv, KitShaped
    <3>2. kit' = [kit EXCEPT ![k].at = "returned"]
      BY <1>8 DEF KitWritesReceipt
    <3>3. kit' = [j \in Kits |-> [at |-> kit'[j].at, status |-> kit'[j].status,
                                  ordinal |-> kit'[j].ordinal]]
      BY <3>2 DEF KitInv, KitShaped
    <3> QED
      BY <3>1, <3>3 DEF KitShaped
  <2>4. \A j \in Kits : ClaimHolds(j)'
    BY <2>1, <2>2 DEF KitInv, ClaimHolds
  <2>5. \A o \in DOMAIN ledger' : EntryHolds(o)'
    BY <2>1, <2>2 DEF KitInv, EntryHolds
  <2>6. CountHolds'
    BY <2>1, <2>2 DEF KitInv, EntryHolds, CountHolds
  <2> QED
    BY <2>3, <2>4, <2>5, <2>6 DEF KitInv
<1> QED
  BY <1>2, <1>3, <1>4, <1>5, <1>6, <1>7, <1>8 DEF KitStep

(* The host's count. *)
LEMMA CountingInv ==
  ASSUME KitInv, Counting PROVE KitInv'
<1>1. UNCHANGED <<kit, ledger>>
  BY DEF Counting, HostScans, HostReads
<1>2. KitShaped' /\ (\A k \in Kits : ClaimHolds(k)') /\ DOMAIN ledger' = DOMAIN ledger
        /\ (\A o \in DOMAIN ledger : EntryHolds(o)')
  BY <1>1 DEF KitInv, KitShaped, ClaimHolds, EntryHolds
<1>3. CASE HostScans
  <2>1. DOMAIN tally' = {} /\ uncounted' = DOMAIN ledger
        /\ before' = {k \in Kits : kit[k].at = "returned"}
    BY <1>3 DEF HostScans
  <2>2. \A k \in before' : kit[k].ordinal \in uncounted'
    BY <2>1 DEF KitInv, ClaimHolds
  <2>3. CountHolds'
    BY <1>1, <2>1, <2>2 DEF CountHolds
  <2> QED
    BY <1>1, <1>2, <2>3 DEF KitInv
<1>4. CASE HostReads
  <2>1. PICK o \in uncounted :
          /\ tally' = [q \in DOMAIN tally \cup {o} |->
                         IF q = o THEN EntryStatus(o) ELSE tally[q]]
          /\ uncounted' = uncounted \ {o}
          /\ UNCHANGED before
    BY <1>4 DEF HostReads
  <2>2. EntryHolds(o) /\ o \in DOMAIN ledger
    BY <2>1 DEF KitInv, CountHolds
  <2>3. EntryStatus(o) # "rejected" => EntryStatus(o) = kit[ledger[o].by].status
    BY <2>2 DEF EntryHolds, EntryStatus, Statuses
  <2>4. \A k \in before : kit[k].ordinal = o => EntryStatus(o) = kit[k].status
    BY DEF KitInv, CountHolds, ClaimHolds, EntryStatus
  <2>5. CountHolds'
    BY <1>1, <2>1, <2>2, <2>3, <2>4 DEF KitInv, CountHolds
  <2> QED
    BY <1>1, <1>2, <2>5 DEF KitInv
<1> QED
  BY <1>2, <1>3, <1>4 DEF Counting, KitInv

(* A power loss takes every invocation that has not returned.              *)
LEMMA PowerLossKit ==
  ASSUME KitInv, PowerLoss PROVE KitInv'
<1>1. KitShaped'
  BY DEF PowerLoss, KitInv, KitShaped
<1>2. \A j \in Kits :
        /\ kit'[j].status = kit[j].status /\ kit'[j].ordinal = kit[j].ordinal
        /\ \/ kit'[j].at = kit[j].at
           \/ kit[j].at # "returned" /\ kit'[j].at \in {"failed", "killed"}
  BY DEF PowerLoss, KitInv, KitShaped
<1>3. UNCHANGED <<ledger, tally, uncounted, before>>
  BY DEF PowerLoss
<1> QED
  BY <1>1, <1>2, <1>3, LateSteps

(* Nothing else knows of the kit. *)
LEMMA HostStepKit ==
  ASSUME HostStep PROVE UNCHANGED kitVars
BY DEF HostStep, Built, ReadsChunk, Captured, HostCopies, Stored, HostRaises,
       Prechecks, Staged, Popen, Judges, Postchecks, Reports, Persists, Answers,
       ChecksSource, ChecksInterpreter, ResolvesAgain

(* Every step keeps the ledger's invariant.                                *)
LEMMA StepKit ==
  ASSUME KitInv, [Next]_vars PROVE KitInv'
<1>1. ASSUME UNCHANGED kitVars PROVE KitInv'
  <2>1. KitShaped' /\ UNCHANGED <<kit, ledger, tally, uncounted, before>>
    BY <1>1 DEF kitVars, KitInv, KitShaped
  <2> QED
    BY <2>1, LateSteps
<1>2. CASE Session
  BY <1>2, KitStepInv, CountingInv DEF Session
<1>3. CASE PowerLoss
  BY <1>3, PowerLossKit
<1>4. CASE \/ VerifierRun \/ Running \/ HostEnds \/ Verifies \/ Around
           \/ Edits \/ Drifts \/ (\E i \in Importers : Import(i))
           \/ (\E m \in Materializers : Materialize(m))
  BY <1>1, <1>4 DEF VerifierRun, Running, HostEnds, Verifies, Around, Edits,
                    Drifts, Import, Materialize
<1>5. CASE HostStep
  BY <1>1, <1>5, HostStepKit
<1>6. CASE UNCHANGED vars
  BY <1>1, <1>6 DEF vars
<1> QED
  BY <1>2, <1>3, <1>4, <1>5, <1>6 DEF Next

(* read_session_verifier_kit_evidence and verifier_kit_runner's exclusive  *)
(* creation of receipts: whatever invocations race, fail, or are killed,   *)
(* the count has every one that had returned, as it printed, and no other. *)
THEOREM CountStaysHonest == Spec => []CountIsHonest
<1>1. KitInv => CountIsHonest
  <2> SUFFICES ASSUME KitInv, uncounted = {}
               PROVE  /\ \A k \in before : \E o \in DOMAIN tally :
                           ledger[o].by = k /\ tally[o] = kit[k].status
                      /\ \A o \in DOMAIN tally :
                           tally[o] # "rejected" => tally[o] = kit[ledger[o].by].status
                      /\ \A o, q \in DOMAIN ledger : ledger[o].by = ledger[q].by => o = q
    BY DEF CountIsHonest
  <2>1. ASSUME NEW k \in before
        PROVE  \E o \in DOMAIN tally : ledger[o].by = k /\ tally[o] = kit[k].status
    BY <2>1 DEF KitInv, ClaimHolds, CountHolds
  <2>2. \A o \in DOMAIN tally :
          tally[o] # "rejected" => tally[o] = kit[ledger[o].by].status
    BY DEF KitInv, CountHolds
  <2>3. \A o, q \in DOMAIN ledger : ledger[o].by = ledger[q].by => o = q
    BY DEF KitInv, EntryHolds
  <2> QED
    BY <2>1, <2>2, <2>3
<1>2. KitInv /\ [Next]_vars => KitInv'
  BY StepKit
<1> QED
  BY <1>1, <1>2, KitStart, PTL DEF Spec

-----------------------------------------------------------------------------
(* Who builds holds the lock, and builds what is not there.                *)
PlaceHolds(m) ==
  /\ where[m] \in {"building", "staged", "renamed"} => lock = m
  /\ drifts = 0 /\ losses = 0 =>
       /\ where[m] \in {"building", "staged"} => ~Exists(Entry)
       /\ where[m] \in {"renamed", "auditing"} => Exists(Entry)
       /\ where[m] # "conflict"

(* No copy of an object or of a document is ever named like the entry.     *)
CopiesElsewhere ==
  /\ copy = [c \in Callers |-> [at |-> copy[c].at, path |-> copy[c].path,
                                bytes |-> copy[c].bytes]]
  /\ \A c \in Callers : copy[c].path # Entry

Undisturbed == drifts = 0 /\ losses = 0 /\ Exists(Entry) => seen[Entry] = "whole"

CacheInv ==
  /\ drifts \in Nat /\ losses \in Nat
  /\ where = [m \in Materializers |-> where[m]]
  /\ \A m \in Materializers : PlaceHolds(m)
  /\ Undisturbed
  /\ CopiesElsewhere

(* Where else things are stored. *)
LEMMA OtherPlaces ==
  /\ \A content : Object(content) # Entry /\ Receipt(content) # Entry
  /\ Manifest # Entry /\ Ledger # Entry
  /\ \A name : Append(Ledger, name) # Entry
  /\ Resting.path # Entry
<1>1. /\ \A content : Object(content) # Entry /\ Receipt(content) # Entry
      /\ Manifest # Entry /\ Ledger # Entry
  BY DEF Object, Receipt, Manifest, Ledger, Entry
<1>2. ASSUME NEW name PROVE Append(Ledger, name) # Entry
  <2> DEFINE Names == {"evidence", "verifier-receipts", name}
  <2>1. Ledger \in Seq(Names) /\ Len(Ledger) = 2 /\ name \in Names
    BY DEF Ledger
  <2>2. Len(Append(Ledger, name)) = Len(Ledger) + 1
    <3> HIDE DEF Names
    <3> QED
      BY <2>1, AppendProperties
  <2>3. Len(Entry) = 2
    BY DEF Entry
  <2> QED
    BY <2>1, <2>2, <2>3
<1>3. Resting.path # Entry
  <2>1. Len(Resting.path) = 0 /\ Len(Entry) = 2
    BY DEF Resting, Entry
  <2> QED
    BY <2>1
<1> QED
  BY <1>1, <1>2, <1>3

(* The steps of copy_object and _copy_exact_bytes. *)
LEMMA CopyObjectElsewhere ==
  ASSUME CopiesElsewhere, NEW c \in Callers, NEW content, CopyObject(c, content)
  PROVE  CopiesElsewhere'
BY OtherPlaces DEF CopiesElsewhere, CopyObject

(* A copy that begins elsewhere than the cache's entry is elsewhere,       *)
LEMMA CopyExactElsewhere ==
  ASSUME CopiesElsewhere, NEW c \in Callers, NEW path, path # Entry,
         CopyExact(c, path)
  PROVE  CopiesElsewhere'
BY DEF CopiesElsewhere, CopyExact

(* stays there,                                                            *)
LEMMA CopyGoesElsewhere ==
  ASSUME CopiesElsewhere, NEW c \in Callers, NEW at, CopyGoes(c, at)
  PROVE  CopiesElsewhere'
BY DEF CopiesElsewhere, CopyGoes

(* and is nowhere once it is over.                                         *)
LEMMA RestElsewhere ==
  ASSUME CopiesElsewhere, NEW c \in Callers, copy' = [copy EXCEPT ![c] = Resting]
  PROVE  CopiesElsewhere'
BY OtherPlaces DEF CopiesElsewhere, Resting

(* What leaves the cache alone keeps its invariant. *)
LEMMA CacheFrame ==
  ASSUME CacheInv, CopiesElsewhere', UNCHANGED <<where, lock, drifts, losses>>,
         Exists(Entry) <=> Exists(Entry)',
         Exists(Entry) => seen'[Entry] = seen[Entry]
  PROVE  CacheInv'
<1>1. \A m \in Materializers : PlaceHolds(m)'
  BY DEF CacheInv, PlaceHolds
<1>2. Undisturbed'
  BY DEF CacheInv, Undisturbed
<1> QED
  BY <1>1, <1>2 DEF CacheInv

(* In particular a link made elsewhere. *)
LEMMA LinkElsewhere ==
  ASSUME NEW path, NEW content, path # Entry, Link(path, content)
  PROVE  /\ Exists(Entry) <=> Exists(Entry)'
         /\ Exists(Entry) => seen'[Entry] = seen[Entry]
BY DEF Link, Exists

-----------------------------------------------------------------------------
(* At first the cache is empty and the lock free.                          *)
LEMMA CacheStart == Init => CacheInv
<1> SUFFICES ASSUME Init PROVE CacheInv
  OBVIOUS
<1>1. /\ drifts = 0 /\ losses = 0
      /\ \/ where = [m \in Materializers |-> "idle"]
         \/ where = [m \in Materializers |-> "absent"]
      /\ copy = [c \in Callers |-> Resting]
  BY DEF Init, CacheInit, StoreInit
<1>2. Exists(Entry) => seen[Entry] = "whole"
  BY DEF Init, Tree, Exists
<1>3. CopiesElsewhere
  BY <1>1, OtherPlaces DEF CopiesElsewhere, Resting
<1>4. where = [m \in Materializers |-> where[m]]
        /\ \A m \in Materializers : where[m] \in {"idle", "absent"}
  BY <1>1
<1> QED
  BY <1>1, <1>2, <1>3, <1>4 DEF CacheInv, PlaceHolds, Undisturbed

(* One materializer moves on and the tree stays. *)
LEMMA MoveHolds ==
  ASSUME CacheInv, NEW m \in Materializers,
         \E to : where' = [where EXCEPT ![m] = to],
         UNCHANGED <<seen, copy, drifts, losses>>,
         lock' = lock \/ lock = Nobody \/ (lock = m /\ lock' = Nobody),
         where'[m] \in {"building", "staged", "renamed"} => lock' = m,
         drifts = 0 /\ losses = 0 =>
           /\ where'[m] \in {"building", "staged"} => ~Exists(Entry)
           /\ where'[m] \in {"renamed", "auditing"} => Exists(Entry)
           /\ where'[m] # "conflict"
  PROVE  CacheInv'
<1>1. /\ where' = [j \in Materializers |-> where'[j]]
      /\ \A j \in Materializers \ {m} : where'[j] = where[j]
  BY DEF CacheInv
<1>2. \A j \in Materializers : PlaceHolds(j)'
  BY <1>1, CacheAssumption DEF CacheInv, PlaceHolds, Exists
<1>3. Undisturbed' /\ CopiesElsewhere'
  BY DEF CacheInv, Undisturbed, CopiesElsewhere, Exists
<1> QED
  BY <1>1, <1>2, <1>3 DEF CacheInv

(* What a goal of a materializer is. *)
LEMMA GoesTo ==
  ASSUME CacheInv, NEW m \in Materializers, NEW from, NEW to, Goes(m, from, to)
  PROVE  /\ where[m] = from /\ where'[m] = to
         /\ where' = [where EXCEPT ![m] = to]
BY DEF CacheInv, Goes

(* The steps of a materializer.                                            *)
LEMMA MaterializerInv ==
  ASSUME CacheInv, NEW m \in Materializers, Materialize(m) PROVE CacheInv'
<1>1. UNCHANGED <<copy, drifts, losses>> /\ PlaceHolds(m)
  BY DEF Materialize, worldVars, CacheInv
<1>2. CASE Ensures(m)
  <2>1. /\ where' = [where EXCEPT ![m] = where'[m]]
        /\ where'[m] \in {"auditing", "waiting"}
        /\ where'[m] = "auditing" => Exists(Entry)
        /\ UNCHANGED <<seen, lock>>
    BY <1>2, GoesTo DEF Ensures, treeVars
  <2> QED
    BY <1>1, <2>1, MoveHolds
<1>3. CASE Locks(m)
  <2>1. /\ where' = [where EXCEPT ![m] = where'[m]]
        /\ where'[m] \in {"auditing", "building"}
        /\ where'[m] = "auditing" <=> Exists(Entry)
        /\ lock = Nobody /\ lock' = m /\ UNCHANGED seen
    BY <1>3, GoesTo DEF Locks, treeVars
  <2> QED
    BY <1>1, <2>1, MoveHolds
<1>4. CASE Stages(m)
  <2>1. /\ where' = [where EXCEPT ![m] = where'[m]]
        /\ where[m] = "building" /\ where'[m] = "staged"
        /\ UNCHANGED <<seen, lock>>
    BY <1>4, GoesTo DEF Stages, treeVars
  <2> QED
    BY <1>1, <2>1, MoveHolds DEF PlaceHolds
<1>5. CASE StagingFails(m) \/ EntrySyncFails(m) \/ MaterializerDies(m)
  <2>1. /\ where' = [where EXCEPT ![m] = where'[m]] /\ where'[m] = "failed"
        /\ lock' = lock \/ (lock = m /\ lock' = Nobody)
        /\ UNCHANGED seen
    BY <1>5, GoesTo
       DEF StagingFails, EntrySyncFails, MaterializerDies, Release, treeVars, CacheInv
  <2> QED
    BY <1>1, <2>1, MoveHolds
<1>6. CASE EntrySynced(m)
  <2>1. /\ where' = [where EXCEPT ![m] = where'[m]]
        /\ where[m] = "renamed" /\ where'[m] = "auditing"
        /\ UNCHANGED <<seen, lock>>
    BY <1>6, GoesTo DEF EntrySynced
  <2> QED
    BY <1>1, <2>1, MoveHolds DEF PlaceHolds
<1>9. CASE Audits(m)
  <2>1. /\ where' = [where EXCEPT ![m] = where'[m]]
        /\ where[m] = "auditing" /\ where'[m] \in {"audited", "conflict"}
        /\ Exists(Entry) /\ seen[Entry] = "whole" => where'[m] = "audited"
        /\ lock' = lock \/ (lock = m /\ lock' = Nobody)
        /\ UNCHANGED seen
    BY <1>9, GoesTo DEF Audits, Release, treeVars, Acceptable
  <2> QED
    BY <1>1, <2>1, MoveHolds DEF PlaceHolds, CacheInv, Undisturbed
<1>7. CASE Renames(m) /\ Exists(Entry)
  <2>1. /\ where' = [where EXCEPT ![m] = where'[m]]
        /\ where[m] = "staged" /\ where'[m] = "conflict"
        /\ lock' = lock \/ (lock = m /\ lock' = Nobody)
        /\ UNCHANGED seen
    BY <1>7, GoesTo DEF Renames, Release
  <2> QED
    BY <1>1, <1>7, <2>1, MoveHolds DEF PlaceHolds
<1>8. CASE Renames(m) /\ ~Exists(Entry)
  <2>1. /\ where[m] = "staged" /\ where'[m] = "renamed" /\ lock' = lock
        /\ \A j \in Materializers \ {m} : where'[j] = where[j]
        /\ where' = [where EXCEPT ![m] = "renamed"]
        /\ Exists(Entry)' /\ seen'[Entry] = "whole"
    BY <1>8, GoesTo DEF Renames, Link, Exists, CacheInv
  <2>2. \A j \in Materializers : PlaceHolds(j)'
    BY <1>1, <2>1 DEF CacheInv, PlaceHolds
  <2>3. Undisturbed' /\ CopiesElsewhere'
    BY <1>1, <2>1 DEF CacheInv, Undisturbed, CopiesElsewhere
  <2> QED
    BY <1>1, <2>1, <2>2, <2>3 DEF CacheInv
<1> QED
  BY <1>2, <1>3, <1>4, <1>5, <1>6, <1>7, <1>8, <1>9
     DEF Materialize, MaterializerStep

(* copy_object and the imports, which never name anything like the entry.  *)
LEMMA CopyStepInv ==
  ASSUME CacheInv, NEW c \in Callers,
         Links(c) \/ Finds(c) \/ Syncs(c) \/ CopyFails(c),
         UNCHANGED <<where, lock, drifts, losses>>
  PROVE  CacheInv'
<1>1. CopiesElsewhere'
  <2>1. \E at : CopyGoes(c, at)
    BY DEF Links, Finds, Syncs, CopyFails
  <2> QED
    BY <2>1, CopyGoesElsewhere DEF CacheInv
<1>2. CASE Links(c)
  <2>1. copy[c].path # Entry /\ Link(copy[c].path, copy[c].bytes)
    BY <1>2 DEF Links, CacheInv, CopiesElsewhere
  <2> QED
    BY <1>1, <2>1, LinkElsewhere, CacheFrame
<1>3. CASE UNCHANGED seen
  BY <1>1, <1>3, CacheFrame DEF Exists
<1> QED
  BY <1>2, <1>3 DEF Finds, Syncs, CopyFails, treeVars

(* The steps of an import.                                                 *)
LEMMA ImportInv ==
  ASSUME CacheInv, NEW i \in Importers, Import(i) PROVE CacheInv'
<1>1. i \in Callers /\ UNCHANGED <<where, lock, drifts, losses>>
  BY DEF Import, Callers, cacheVars, worldVars
<1>2. CASE Links(i) \/ Finds(i) \/ Syncs(i) \/ CopyFails(i)
  BY <1>1, <1>2, CopyStepInv
<1>3. CASE ImportCopies(i)
  <2>1. \E content : CopyObject(i, content)
    BY <1>3 DEF ImportCopies
  <2>2. CopiesElsewhere'
    BY <1>1, <2>1, CopyObjectElsewhere DEF CacheInv
  <2> QED
    BY <1>1, <1>3, <2>2, CacheFrame DEF ImportCopies, treeVars, Exists
<1>4. CASE ImportReceipt(i)
  <2>1. CopiesElsewhere'
    BY <1>1, <1>4, OtherPlaces, CopyExactElsewhere DEF ImportReceipt, CacheInv
  <2> QED
    BY <1>1, <1>4, <2>1, CacheFrame DEF ImportReceipt, treeVars, Exists
<1>5. CASE ImportGoesOn(i)
  <2>1. CopyExact(i, Manifest) \/ CopyGoes(i, "none")
    BY <1>5 DEF ImportGoesOn
  <2>2. CopiesElsewhere'
    BY <1>1, <2>1, OtherPlaces, CopyExactElsewhere, CopyGoesElsewhere DEF CacheInv
  <2> QED
    BY <1>1, <1>5, <2>2, CacheFrame DEF ImportGoesOn, treeVars, Exists
<1>6. CASE ImporterDies(i)
  <2>1. CopiesElsewhere'
    BY <1>1, <1>6, RestElsewhere DEF ImporterDies, CacheInv
  <2> QED
    BY <1>1, <1>6, <2>1, CacheFrame DEF ImporterDies, treeVars, Exists
<1> QED
  BY <1>2, <1>3, <1>4, <1>5, <1>6 DEF Import, ImporterStep

(* The host copies, and writes its receipt; the cache it only looks at.    *)
LEMMA HostInv ==
  ASSUME CacheInv, HostStep \/ HostEnds \/ VerifierRun PROVE CacheInv'
<1>1. Host \in Callers
  BY DEF Callers
<1>2. UNCHANGED <<where, lock, drifts, losses>>
  BY DEF HostStep, HostEnds, VerifierRun, Built, ReadsChunk, Captured,
         HostCopies, Stored, HostRaises, Prechecks, Staged, Popen, Judges,
         Postchecks, Reports, Persists, Answers, ChecksSource,
         ChecksInterpreter, ResolvesAgain, cacheVars, worldVars
<1>3. ASSUME CopiesElsewhere', UNCHANGED seen PROVE CacheInv'
  BY <1>2, <1>3, CacheFrame DEF Exists
<1>4. CASE \/ Built \/ ReadsChunk \/ Prechecks \/ Staged \/ Popen \/ Judges
           \/ Postchecks \/ VerifierRun
  <2>1. UNCHANGED <<seen, copy>>
    BY <1>4 DEF Built, ReadsChunk, Prechecks, Staged, Popen, Judges,
                Postchecks, VerifierRun, ChecksSource, ChecksInterpreter,
                ResolvesAgain, storeVars, treeVars
  <2>2. CopiesElsewhere'
    BY <2>1 DEF CacheInv, CopiesElsewhere
  <2> QED
    BY <1>3, <2>1, <2>2
<1>5. CASE Captured \/ Reports
  <2>1. UNCHANGED seen /\ (UNCHANGED copy \/ \E content : CopyObject(Host, content))
    BY <1>5 DEF Captured, Reports, treeVars
  <2>2. CopiesElsewhere'
    BY <1>1, <2>1, CopyObjectElsewhere DEF CacheInv, CopiesElsewhere
  <2> QED
    BY <1>3, <2>1, <2>2
<1>6. CASE Stored \/ HostRaises \/ Answers \/ HostEnds
  <2>1. UNCHANGED seen /\ copy' = [copy EXCEPT ![Host] = Resting]
    BY <1>6 DEF Stored, HostRaises, Answers, HostEnds, treeVars
  <2>2. CopiesElsewhere'
    BY <1>1, <2>1, RestElsewhere DEF CacheInv
  <2> QED
    BY <1>3, <2>1, <2>2
<1>7. CASE HostCopies
  BY <1>1, <1>2, <1>7, CopyStepInv DEF HostCopies
<1>8. CASE Persists
  <2>1. CopiesElsewhere'
    BY <1>1, <1>8, OtherPlaces DEF Persists, CacheInv, CopiesElsewhere
  <2>2. UNCHANGED seen \/ Link(Ledger, "directory")
    BY <1>8 DEF Persists
  <2> QED
    BY <1>2, <1>3, <2>1, <2>2, OtherPlaces, LinkElsewhere, CacheFrame
<1> QED
  BY <1>4, <1>5, <1>6, <1>7, <1>8 DEF HostStep

(* Every step keeps the cache's invariant.                                 *)
LEMMA StepCache ==
  ASSUME CacheInv, [Next]_vars PROVE CacheInv'
<1>1. CASE \/ Running \/ Verifies \/ Around \/ Edits \/ Session \/ UNCHANGED vars
  <2>1. UNCHANGED <<seen, copy, where, lock, drifts, losses>>
    BY <1>1 DEF Running, Verifies, Around, Edits, Session, vars, storeVars,
                treeVars, cacheVars, worldVars
  <2>2. CopiesElsewhere'
    BY <2>1 DEF CacheInv, CopiesElsewhere
  <2> QED
    BY <2>1, <2>2, CacheFrame DEF Exists
<1>2. CASE VerifierRun \/ HostStep \/ HostEnds
  BY <1>2, HostInv
<1>3. CASE \E i \in Importers : Import(i)
  BY <1>3, ImportInv
<1>4. CASE \E m \in Materializers : Materialize(m)
  BY <1>4, MaterializerInv
<1>5. CASE Drifts
  <2>1. /\ drifts' = drifts + 1 /\ drifts' # 0 /\ drifts' \in Nat
        /\ UNCHANGED <<where, lock, copy, losses>>
    BY <1>5 DEF Drifts, CacheInv, cacheVars
  <2> QED
    BY <2>1 DEF CacheInv, PlaceHolds, Undisturbed, CopiesElsewhere
<1>6. CASE PowerLoss
  <2>1. /\ losses' = losses + 1 /\ losses' # 0 /\ losses' \in Nat
        /\ drifts' = drifts
        /\ where' = [m \in Materializers |->
                       IF where[m] = "absent" THEN "absent" ELSE "idle"]
        /\ copy' = [c \in Callers |-> Resting]
    BY <1>6 DEF PowerLoss, CacheInv
  <2>2. CopiesElsewhere'
    BY <2>1, OtherPlaces DEF CopiesElsewhere, Resting
  <2>3. /\ where' = [m \in Materializers |-> where'[m]]
        /\ \A m \in Materializers : where'[m] \in {"absent", "idle"}
    BY <2>1
  <2> QED
    BY <2>1, <2>2, <2>3 DEF CacheInv, PlaceHolds, Undisturbed
<1> QED
  BY <1>1, <1>2, <1>3, <1>4, <1>5, <1>6 DEF Next

(* SourceMaterializer.ensure: however many processes race for one source,  *)
(* and whichever of them are killed, none reports a conflict unless the    *)
(* entry was changed or the power failed.                                  *)
THEOREM RacersStayAgreed == Spec => []RacersAgree
<1>1. CacheInv => RacersAgree
  <2> SUFFICES ASSUME CacheInv, NEW m \in Materializers, where[m] = "conflict"
               PROVE  drifts > 0 \/ losses > 0
    BY DEF RacersAgree
  <2>1. ~(drifts = 0 /\ losses = 0)
    BY DEF CacheInv, PlaceHolds
  <2> QED
    BY <2>1 DEF CacheInv
<1>2. CacheInv /\ [Next]_vars => CacheInv'
  BY StepCache
<1> QED
  BY <1>1, <1>2, CacheStart, PTL DEF Spec

-----------------------------------------------------------------------------
(***************************************************************************)
(* Documents.  What a document refers to is in the store, because it was   *)
(* certain to stay before the document had a name.                         *)
(***************************************************************************)

(* An object that a power loss cannot take.                                *)
Backed(content) == Exists(Object(content)) /\ Object(content) \in DOMAIN kept

(* What a path and the bytes under it refer to, if they are a document.    *)
DocumentHolds(path, bytes) ==
  /\ Len(path) = 3 => Backed(bytes.candidate) /\ Backed(Logs)
  /\ path = Manifest => \A content \in Legacy : Backed(content)

(* Every document refers to durable objects, also one that only the device *)
(* has in this version.                                                    *)
TreeHolds ==
  /\ <<"objects">> \in DOMAIN seen /\ <<"objects">> \in DOMAIN kept
  /\ \A path \in DOMAIN seen : DocumentHolds(path, seen[path])
  /\ \A path \in DOMAIN kept : DocumentHolds(path, kept[path])

(* A copy in progress: where it goes, and what its caller may conclude     *)
(* from its return.                                                        *)
CopyHolds(c) ==
  LET path == copy[c].path  content == path[2] IN
  /\ \/ path = <<>> /\ copy[c].at = "none"
     \/ /\ path = Object(content)
        /\ copy[c].at = "linked" => Exists(path)
        /\ copy[c].at = "returned" => Backed(content)
     \/ path = Receipt(content) /\ Backed(content)
     \/ path = Manifest
     \/ Len(path) = 3 /\ c = Host
  /\ DocumentHolds(path, copy[c].bytes)

(* An import that is under way has what it does not list any more.         *)
ImportHolds(i) ==
  legacy[i] # {} \/ copy[i].path # <<>> =>
    \A content \in Legacy \ legacy[i] : Backed(content)

HostHolds ==
  /\ host = "storing" => copy[Host].path = Object(Taken)
  /\ host = "storing_output" => copy[Host].path = Object(Logs)
  /\ host \notin {"idle", "building", "capturing", "storing", "refused"} =>
       Backed(Taken)

BackInv ==
  /\ copy = [c \in Callers |-> [at |-> copy[c].at, path |-> copy[c].path,
                                bytes |-> copy[c].bytes]]
  /\ legacy = [i \in Importers |-> legacy[i]]
  /\ TreeHolds
  /\ \A c \in Callers : CopyHolds(c)
  /\ \A i \in Importers : ImportHolds(i)
  /\ HostHolds

-----------------------------------------------------------------------------
(* Where things are. *)
LEMMA Places ==
  /\ \A content :
       /\ Len(Object(content)) = 2 /\ Len(Receipt(content)) = 2
       /\ Object(content) # Manifest /\ Receipt(content) # Manifest
       /\ Object(content)[1] = "objects" /\ Object(content)[2] = content
       /\ Receipt(content)[1] = "receipts" /\ Receipt(content)[2] = content
       /\ Object(content) # <<>> /\ Receipt(content) # <<>>
  /\ Len(Manifest) = 2 /\ Manifest[1] = "imports" /\ Manifest # <<>>
  /\ Len(Entry) = 2 /\ Entry # Manifest
  /\ Len(Ledger) = 2 /\ Ledger # Manifest
  /\ Len(<<>>) = 0
BY DEF Object, Receipt, Manifest, Entry, Ledger

(* A verification receipt is three names below the root.                   *)
LEMMA ReceiptPlace == \A name : Len(Append(Ledger, name)) = 3
<1> SUFFICES ASSUME NEW name PROVE Len(Append(Ledger, name)) = 3
  OBVIOUS
<1> DEFINE Names == {"evidence", "verifier-receipts", name}
<1>1. Ledger \in Seq(Names) /\ Len(Ledger) = 2 /\ name \in Names
  BY DEF Ledger
<1>2. Len(Append(Ledger, name)) = Len(Ledger) + 1
  <2> HIDE DEF Names
  <2> QED
    BY <1>1, AppendProperties
<1> QED
  BY <1>1, <1>2

(* An object is in the directory of the objects, and is reached by it.     *)
LEMMA ObjectPlace ==
  ASSUME NEW content
  PROVE  /\ Front(Object(content)) = <<"objects">>
         /\ \A n \in 1..Len(Object(content)) :
              SubSeq(Object(content), 1, n) \in {<<"objects">>, Object(content)}
<1> DEFINE Names == {"objects", content}  path == Object(content)
<1>1. path \in Seq(Names) /\ Len(path) = 2 /\ path[1] = "objects"
  BY DEF Object
<1>2. SubSeq(path, 1, 1) = <<"objects">>
  <2>1. SubSeq(path, 1, 1) = <<path[1]>> \o SubSeq(path, 2, 1)
    <3> HIDE DEF Names, path
    <3> QED
      BY <1>1, SubSeqRecursiveFirst
  <2>2. SubSeq(path, 2, 1) = <<>>
    BY SubSeqEmpty
  <2>3. <<"objects">> \in Seq(Names)
    OBVIOUS
  <2>4. <<"objects">> \o <<>> = <<"objects">>
    BY <2>3, ConcatEmptySeq
  <2> QED
    BY <1>1, <2>1, <2>2, <2>4
<1>3. SubSeq(path, 1, 2) = path
  <2> HIDE DEF Names, path
  <2> QED
    BY <1>1, SubSeqFull
<1> QED
  BY <1>1, <1>2, <1>3 DEF Front

-----------------------------------------------------------------------------
(* A step that takes no durable object away.                               *)
Lasts == \A content : Backed(content) => Backed(content)'

(* What happens to the tree as long as the power does not fail.            *)
Grows ==
  DOMAIN seen \subseteq DOMAIN seen' /\ DOMAIN kept \subseteq DOMAIN kept'

(* What is backed stays so while the tree grows.                           *)
LEMMA GrowingLasts ==
  ASSUME Grows PROVE Lasts
BY DEF Grows, Lasts, Backed, Exists

(* A step that leaves the tree alone.                                      *)
LEMMA TreeStill ==
  ASSUME TreeHolds, UNCHANGED <<seen, kept>>
  PROVE  TreeHolds' /\ Grows
BY DEF TreeHolds, Grows, DocumentHolds, Backed, Exists

(* A step that links one new name.                                         *)
LEMMA TreeLinks ==
  ASSUME TreeHolds, NEW path, NEW bytes, DocumentHolds(path, bytes),
         Link(path, bytes), UNCHANGED kept
  PROVE  TreeHolds' /\ Grows
<1>1. Grows
  BY DEF Link, Grows
<1>2. \A p \in DOMAIN seen' : DocumentHolds(p, seen'[p])
  BY DEF Link, TreeHolds
<1>3. \A p, b : DocumentHolds(p, b) => DocumentHolds(p, b)'
  BY <1>1, GrowingLasts DEF DocumentHolds, Lasts
<1> QED
  BY <1>1, <1>2, <1>3 DEF TreeHolds, Grows

(* A step that makes something durable.                                    *)
LEMMA TreeSyncs ==
  ASSUME TreeHolds, NEW dir, SyncDirectory(dir), UNCHANGED seen
  PROVE  TreeHolds' /\ Grows
<1>1. Grows
  BY DEF SyncDirectory, Grows
<1>2. \A p \in DOMAIN kept' : DocumentHolds(p, kept'[p])
  BY DEF SyncDirectory, Children, TreeHolds
<1>3. \A p, b : DocumentHolds(p, b) => DocumentHolds(p, b)'
  BY <1>1, GrowingLasts DEF DocumentHolds, Lasts
<1> QED
  BY <1>1, <1>2, <1>3 DEF TreeHolds, Grows

(* The entry of the source cache, and drift, are about other things.       *)
LEMMA TreeElsewhere ==
  ASSUME TreeHolds, DOMAIN seen' = DOMAIN seen,
         DOMAIN kept \subseteq DOMAIN kept',
         DOMAIN kept' \subseteq DOMAIN kept \cup {Entry},
         \A p \in DOMAIN seen : Len(p) = 3 => seen'[p] = seen[p],
         \A p \in DOMAIN kept : Len(p) = 3 => kept'[p] = kept[p]
  PROVE  TreeHolds' /\ Grows
<1>1. Grows
  BY DEF Grows
<1>2. \A p, b : DocumentHolds(p, b) => DocumentHolds(p, b)'
  BY <1>1, GrowingLasts DEF DocumentHolds, Lasts
<1>3. \A p \in DOMAIN seen' : DocumentHolds(p, seen'[p])
  BY DEF TreeHolds, DocumentHolds
<1>4. \A p \in DOMAIN kept' : DocumentHolds(p, kept'[p])
  BY Places DEF TreeHolds, DocumentHolds
<1> QED
  BY <1>1, <1>2, <1>3, <1>4 DEF TreeHolds, Grows

(* A power loss leaves documents that were there, and every durable object.*)
LEMMA PowerFailsHolds ==
  ASSUME TreeHolds, PowerFails
  PROVE  TreeHolds' /\ Lasts
<1>1. PICK lucky \in SUBSET DOMAIN seen :
        /\ DOMAIN seen' = Reachable(lucky \cup DOMAIN kept)
        /\ \A p \in DOMAIN seen' :
             seen'[p] = IF p \in lucky THEN seen[p] ELSE kept[p]
        /\ kept' = seen'
  BY DEF PowerFails
<1>2. \A p \in DOMAIN seen' : p \in DOMAIN kept \/ p \in lucky
  BY <1>1 DEF Reachable
<1>3. <<"objects">> \in DOMAIN seen'
  <2>1. \A n \in 1..Len(<<"objects">>) :
          SubSeq(<<"objects">>, 1, n) = <<"objects">>
    <3>1. <<"objects">> \in Seq({"objects"}) /\ Len(<<"objects">>) = 1
      OBVIOUS
    <3>2. SubSeq(<<"objects">>, 1, 1) = <<"objects">>
      BY <3>1, SubSeqFull
    <3> QED
      BY <3>1, <3>2
  <2> QED
    BY <1>1, <2>1 DEF Reachable, TreeHolds
<1>4. Lasts
  <2> SUFFICES ASSUME NEW content, Backed(content)
               PROVE  Object(content) \in DOMAIN seen'
    BY <1>1 DEF Lasts, Backed, Exists
  <2> QED
    BY <1>1, ObjectPlace DEF Reachable, TreeHolds, Backed
<1>5. \A p \in DOMAIN seen' : DocumentHolds(p, seen'[p])
  BY <1>1, <1>2 DEF TreeHolds
<1>6. \A p, b : DocumentHolds(p, b) => DocumentHolds(p, b)'
  BY <1>4 DEF DocumentHolds, Lasts
<1> QED
  BY <1>1, <1>3, <1>4, <1>5, <1>6 DEF TreeHolds

-----------------------------------------------------------------------------
(* What is said of a copy, an import and the host stays true as long as    *)
(* they are left alone and the tree grows.                                 *)
LEMMA CopyStays ==
  ASSUME NEW c \in Callers, CopyHolds(c), Grows, copy'[c] = copy[c]
  PROVE  CopyHolds(c)'
<1>1. Lasts
  BY GrowingLasts
<1> QED
  BY <1>1 DEF CopyHolds, DocumentHolds, Lasts, Grows, Exists

(* An import that is not the one moving keeps what it has.                 *)
LEMMA ImportStays ==
  ASSUME NEW i \in Importers, ImportHolds(i), Lasts,
         copy'[i].path = copy[i].path, legacy'[i] = legacy[i]
  PROVE  ImportHolds(i)'
BY DEF ImportHolds, Lasts

(* So does the host.                                                       *)
LEMMA HostStays ==
  ASSUME HostHolds, Lasts, UNCHANGED <<host, chunks>>,
         copy'[Host].path = copy[Host].path
  PROVE  HostHolds'
BY DEF HostHolds, Lasts, Taken

(* Steps that copy nothing. *)
LEMMA AllStays ==
  ASSUME BackInv, TreeHolds', Grows, UNCHANGED <<copy, legacy, host, chunks>>
  PROVE  BackInv'
<1>1. \A c \in Callers : CopyHolds(c)'
  BY CopyStays DEF BackInv
<1>2. \A i \in Importers : ImportHolds(i)'
  BY GrowingLasts, ImportStays DEF BackInv, Callers
<1>3. HostHolds'
  BY GrowingLasts, HostStays DEF BackInv
<1> QED
  BY <1>1, <1>2, <1>3 DEF BackInv

(* At first there is no document.                                          *)
LEMMA BackStart == Init => BackInv
<1> SUFFICES ASSUME Init PROVE BackInv
  OBVIOUS
<1>1. /\ copy = [c \in Callers |-> Resting]
      /\ legacy \in [Importers -> {Legacy, {}}] /\ host = "idle"
  BY DEF Init, StoreInit
<1>2. \A c \in Callers : copy[c] = Resting
  BY <1>1
<1>3. TreeHolds
  <2>1. /\ DOMAIN seen \subseteq Directories \cup {Entry}
        /\ DOMAIN kept \subseteq Directories \cup {Entry}
    BY DEF Init, Tree
  <2>2. \A p \in Directories \cup {Entry} : Len(p) # 3 /\ p # Manifest
    <3>1. \A p \in Directories : Len(p) = 1
      BY DEF Directories, Evidence
    <3> QED
      BY <3>1, Places
  <2>3. <<"objects">> \in DOMAIN seen /\ <<"objects">> \in DOMAIN kept
    BY DEF Init, Tree, Directories
  <2> QED
    BY <2>1, <2>2, <2>3 DEF TreeHolds, DocumentHolds
<1>4. \A c \in Callers : CopyHolds(c)
  BY <1>2, Places DEF CopyHolds, DocumentHolds, Resting
<1>5. \A i \in Importers : ImportHolds(i)
  BY <1>1, <1>2 DEF ImportHolds, Resting, Callers
<1>6. HostHolds
  BY <1>1 DEF HostHolds
<1> QED
  BY <1>1, <1>2, <1>3, <1>4, <1>5, <1>6 DEF BackInv, Resting

(* Only c's copy changes, and keeps the shape of a copy.                   *)
Only(c) ==
  /\ copy' = [d \in Callers |-> [at |-> copy'[d].at, path |-> copy'[d].path,
                                 bytes |-> copy'[d].bytes]]
  /\ \A d \in Callers \ {c} : copy'[d] = copy[d]

(* What the operations on a copy make of it.                               *)
LEMMA HowItGoes ==
  ASSUME BackInv, NEW c \in Callers, NEW at, CopyGoes(c, at)
  PROVE  /\ Only(c) /\ copy'[c].at = at
         /\ copy'[c].path = copy[c].path /\ copy'[c].bytes = copy[c].bytes
BY DEF BackInv, CopyGoes, Only

(* What a copy that begins looks like.                                     *)
LEMMA HowItStarts ==
  ASSUME BackInv, NEW c \in Callers, NEW content, CopyObject(c, content)
  PROVE  /\ Only(c) /\ copy'[c].at = "named"
         /\ copy'[c].path = Object(content) /\ copy'[c].bytes = content
BY DEF BackInv, CopyObject, Only

(* A copy of a document begins only over durable objects.                  *)
LEMMA HowADocumentStarts ==
  ASSUME BackInv, NEW c \in Callers, NEW path, CopyExact(c, path)
  PROVE  /\ Only(c) /\ copy'[c].at \in {"named", "returned"}
         /\ copy'[c].path = path
BY DEF BackInv, CopyExact, Only

(* A copy that is over.                                                    *)
LEMMA HowItRests ==
  ASSUME BackInv, NEW c \in Callers, copy' = [copy EXCEPT ![c] = Resting]
  PROVE  Only(c) /\ copy'[c].at = "none" /\ copy'[c].path = <<>>
<1>1. copy' = [d \in Callers |-> IF d = c THEN Resting ELSE copy[d]]
  BY DEF BackInv
<1>2. \A d \in Callers : copy[d] = [at |-> copy[d].at, path |-> copy[d].path,
                                   bytes |-> copy[d].bytes]
  BY DEF BackInv
<1>3. Resting = [at |-> Resting.at, path |-> Resting.path, bytes |-> Resting.bytes]
      /\ Resting.at = "none" /\ Resting.path = <<>>
  BY DEF Resting
<1>4. \A d \in Callers : copy'[d] = IF d = c THEN Resting ELSE copy[d]
  BY <1>1
<1>5. \A d \in Callers :
        copy'[d] = [at |-> copy'[d].at, path |-> copy'[d].path,
                    bytes |-> copy'[d].bytes]
  BY <1>2, <1>3, <1>4
<1> QED
  BY <1>1, <1>3, <1>4, <1>5 DEF Only

(* A copy that rests refers to nothing, and one that was just started is   *)
(* not done.                                                               *)
LEMMA RestHolds ==
  ASSUME NEW c \in Callers, copy'[c].at = "none", copy'[c].path = <<>>
  PROVE  CopyHolds(c)'
BY Places DEF CopyHolds, DocumentHolds

(* A copy that begins towards an object promises nothing yet.              *)
LEMMA StartHolds ==
  ASSUME NEW c \in Callers, NEW content,
         copy'[c].at = "named", copy'[c].path = Object(content)
  PROVE  CopyHolds(c)'
<1> DEFINE path == copy'[c].path
<1>1. path = Object(content)
  OBVIOUS
<1>2. path[2] = content /\ Len(path) # 3 /\ path # Manifest
  <2>1. Object(content)[2] = content /\ Len(Object(content)) = 2
        /\ Object(content) # Manifest
    BY Places
  <2> HIDE DEF path
  <2> QED
    BY <1>1, <2>1
<1> QED
  BY <1>1, <1>2 DEF CopyHolds, DocumentHolds

(* One copy moves on in a tree that grows.                                 *)
LEMMA OneMoves ==
  ASSUME BackInv, NEW c \in Callers, Only(c), TreeHolds', Grows, CopyHolds(c)',
         legacy' = [i \in Importers |-> legacy'[i]],
         \A i \in Importers \ {c} : legacy'[i] = legacy[i],
         c \in Importers => ImportHolds(c)', HostHolds'
  PROVE  BackInv'
<1>1. \A d \in Callers : CopyHolds(d)'
  BY CopyStays DEF BackInv, Only
<1>2. \A i \in Importers : ImportHolds(i)'
  BY GrowingLasts, ImportStays DEF BackInv, Only, Callers
<1> QED
  BY <1>1, <1>2 DEF BackInv, Only

(* A copy goes a step, whoever waits for it.                               *)
LEMMA CopyStep ==
  ASSUME BackInv, NEW c \in Callers,
         Links(c) \/ Finds(c) \/ Syncs(c) \/ CopyFails(c),
         UNCHANGED <<host, chunks>>
  PROVE  BackInv'
<1>1. PICK at \in {"linked", "raised", "returned"} :
        /\ CopyGoes(c, at) /\ (at = "returned" => Syncs(c))
        /\ at = "linked" => copy[c].path \in DOMAIN seen'
  <2>1. CASE Links(c)
    <3>1. CopyGoes(c, "linked") /\ copy[c].path \in DOMAIN seen'
      BY <2>1 DEF Links, Link
    <3> QED
      BY <3>1
  <2>2. CASE Finds(c) /\ CopyGoes(c, "linked")
    <3>1. copy[c].path \in DOMAIN seen'
      BY <2>2 DEF Finds, treeVars, Exists
    <3> QED
      BY <2>2, <3>1
  <2>3. CASE Syncs(c)
    <3>1. CopyGoes(c, "returned")
      BY <2>3 DEF Syncs
    <3> QED
      BY <2>3, <3>1
  <2>4. CASE CopyGoes(c, "raised")
    BY <2>4
  <2>5. Finds(c) => CopyGoes(c, "linked") \/ CopyGoes(c, "raised")
    BY DEF Finds
  <2> QED
    BY <2>1, <2>2, <2>3, <2>4, <2>5 DEF CopyFails
<1>2. /\ Only(c) /\ copy'[c].at = at
      /\ copy'[c].path = copy[c].path /\ copy'[c].bytes = copy[c].bytes
  BY <1>1, HowItGoes
<1>3. CopyHolds(c) /\ TreeHolds
  BY DEF BackInv
<1>4. TreeHolds' /\ Grows
  <2>1. CASE Links(c)
    BY <1>3, <2>1, TreeLinks DEF Links, CopyHolds
  <2>2. CASE Syncs(c)
    BY <1>3, <2>2, TreeSyncs DEF Syncs
  <2>3. CASE UNCHANGED <<seen, kept>>
    BY <1>3, <2>3, TreeStill
  <2> QED
    BY <2>1, <2>2, <2>3 DEF Finds, CopyFails, treeVars
<1>5. ASSUME NEW content, copy[c].path = Object(content), Syncs(c)
      PROVE  Backed(content)'
  <2>1. copy[c].at = "linked"
    BY <1>5 DEF Syncs, Copying
  <2>4. content = copy[c].path[2] /\ copy[c].path # <<>> /\ copy[c].path # Manifest
        /\ Len(copy[c].path) = 2 /\ copy[c].path # Receipt(content)
    <3> DEFINE path == copy[c].path
    <3>1. path = Object(content)
      BY <1>5
    <3> HIDE DEF path
    <3>2. path[1] = "objects" /\ Receipt(content)[1] = "receipts"
      BY <3>1, Places
    <3> QED
      BY <3>1, <3>2, Places DEF path
  <2>5. Exists(copy[c].path)
    BY <1>3, <2>1, <2>4 DEF CopyHolds
  <2>2. Front(copy[c].path) = <<"objects">> /\ copy[c].path # <<>>
    BY <1>5, <2>4, ObjectPlace
  <2> QED
    BY <1>5, <2>5, <2>2 DEF Syncs, SyncDirectory, Children, Backed, Exists
<1>6. CopyHolds(c)'
  <2>1. Lasts
    BY <1>4, GrowingLasts
  <2>2. DocumentHolds(copy[c].path, copy[c].bytes)'
    BY <1>2, <1>3, <2>1 DEF CopyHolds, DocumentHolds, Lasts
  <2>4. copy[c].at # "none"
    BY DEF Links, Finds, Syncs, CopyFails, Copying
  <2>3. copy[c].path # <<>>
    BY <1>3, <2>4, Places DEF CopyHolds
  <2> QED
    BY <1>1, <1>2, <1>3, <1>5, <2>1, <2>2, <2>3
       DEF CopyHolds, Lasts, DocumentHolds, Exists
<1>7. UNCHANGED legacy
  BY DEF Links, Finds, Syncs, CopyFails
<1>8. c \in Importers => ImportHolds(c)'
  BY <1>2, <1>4, <1>7, GrowingLasts, ImportStays DEF BackInv
<1>9. HostHolds'
  <2>1. copy'[Host].path = copy[Host].path
    BY <1>2 DEF Only, Callers
  <2> QED
    BY <1>4, <2>1, GrowingLasts, HostStays DEF BackInv
<1> QED
  BY <1>2, <1>4, <1>6, <1>7, <1>8, <1>9, OneMoves DEF BackInv

-----------------------------------------------------------------------------
(* What the return of a copy of an object means to its caller.             *)
LEMMA ReturnedIsBacked ==
  ASSUME BackInv, NEW c \in Callers, NEW content,
         copy[c].path = Object(content), copy[c].at = "returned"
  PROVE  Backed(content)
<1> DEFINE path == copy[c].path
<1>1. path = Object(content) /\ CopyHolds(c)
  BY DEF BackInv
<1>2. /\ Object(content)[1] = "objects" /\ Object(content)[2] = content
      /\ Len(Object(content)) = 2 /\ Object(content) # Manifest
      /\ Object(content) # <<>> /\ Receipt(content)[1] = "receipts"
  BY Places
<1>3. /\ path[1] = "objects" /\ path[2] = content
      /\ Len(path) # 3 /\ path # Manifest /\ path # <<>>
      /\ path # Receipt(content)
  <2> HIDE DEF path
  <2> QED
    BY <1>1, <1>2
<1> QED
  BY <1>1, <1>3 DEF CopyHolds

(* What an importer may be copying. *)
LEMMA ImporterPlaces ==
  ASSUME BackInv, NEW i \in Importers, copy[i].at = "returned"
  PROVE  /\ copy[i].path # <<>>
         /\ copy[i].path[1] = "objects" => Backed(copy[i].path[2])
         /\ copy[i].path[1] = "receipts" => Backed(copy[i].path[2])
<1> DEFINE path == copy[i].path
<1>1. i \in Callers /\ i # Host /\ CopyHolds(i)
  BY StoreAssumption DEF BackInv, Callers
<1>2. path # <<>>
  BY <1>1, Places DEF CopyHolds
<1>3. CASE path = Object(path[2])
  <2>1. Object(path[2])[1] = "objects"
    BY Places
  <2> QED
    BY <1>2, <1>3, <2>1, ReturnedIsBacked, <1>1
<1>4. CASE path = Receipt(path[2]) /\ Backed(path[2])
  BY <1>2, <1>4
<1>5. CASE path = Manifest
  <2>1. Manifest[1] = "imports"
    BY Places
  <2>2. path[1] = "imports"
    <3> HIDE DEF path
    <3> QED
      BY <1>5, <2>1
  <2> QED
    BY <1>2, <2>2
<1> QED
  BY <1>1, <1>2, <1>3, <1>4, <1>5 DEF CopyHolds

(* The steps of an import.                                                 *)
LEMMA ImportBacks ==
  ASSUME BackInv, NEW i \in Importers, Import(i) PROVE BackInv'
<1>1. i \in Callers /\ i # Host /\ UNCHANGED <<host, chunks>>
  BY StoreAssumption DEF Callers, Import, hostVars
<1>2. CASE Links(i) \/ Finds(i) \/ Syncs(i) \/ CopyFails(i)
  BY <1>1, <1>2, CopyStep
<1>3. CASE ImportCopies(i) \/ ImportReceipt(i) \/ ImportGoesOn(i) \/ ImporterDies(i)
  <2>1. UNCHANGED <<seen, kept>>
    BY <1>3 DEF ImportCopies, ImportReceipt, ImportGoesOn, ImporterDies, treeVars
  <2>2. TreeHolds' /\ Grows /\ Lasts
    BY <2>1, TreeStill, GrowingLasts DEF BackInv
  <2>3. ASSUME Only(i) PROVE HostHolds'
    <3>1. copy'[Host].path = copy[Host].path
      BY <1>1, <2>3 DEF Only, Callers
    <3> QED
      BY <1>1, <2>2, <3>1, HostStays DEF BackInv
  <2>4. ImportHolds(i) /\ \A content : Backed(content)' <=> Backed(content)
    BY <2>1 DEF BackInv, Backed, Exists
  <2>5. CASE ImportCopies(i)
    <3>1. PICK content \in legacy[i] : CopyObject(i, content)
      BY <2>5 DEF ImportCopies
    <3>2. /\ Only(i) /\ CopyHolds(i)' /\ UNCHANGED legacy
      BY <1>1, <2>5, <3>1, HowItStarts, StartHolds DEF ImportCopies
    <3>3. ImportHolds(i)'
      BY <2>4, <3>1, <3>2 DEF ImportHolds
    <3> QED
      BY <1>1, <2>2, <2>3, <3>2, <3>3, OneMoves DEF BackInv
  <2>6. CASE ImportReceipt(i)
    <3> DEFINE content == copy[i].path[2]
    <3>1. /\ CopyExact(i, Receipt(content)) /\ UNCHANGED legacy
          /\ Backed(content) /\ copy[i].path # <<>>
      BY <2>6, ImporterPlaces DEF ImportReceipt, Copying
    <3>2. Only(i) /\ copy'[i].path = Receipt(content)
      BY <1>1, <3>1, HowADocumentStarts
    <3>3. CopyHolds(i)'
      <4> DEFINE to == copy'[i].path
      <4>1. Receipt(content)[2] = content /\ Len(Receipt(content)) = 2
            /\ Receipt(content) # Manifest
        BY Places
      <4>2. to[2] = content /\ Len(to) # 3 /\ to # Manifest /\ to = Receipt(to[2])
        <5> HIDE DEF content
        <5>1. to = Receipt(content)
          BY <3>2
        <5> HIDE DEF to
        <5> QED
          BY <4>1, <5>1
      <4> QED
        BY <2>4, <3>1, <4>2 DEF CopyHolds, DocumentHolds
    <3>4. ImportHolds(i)'
      BY <2>4, <3>1 DEF ImportHolds
    <3> QED
      BY <1>1, <2>2, <2>3, <3>1, <3>2, <3>3, <3>4, OneMoves DEF BackInv
  <2>7. CASE ImportGoesOn(i)
    <3> DEFINE content == copy[i].path[2]
    <3>1. /\ legacy' = [legacy EXCEPT ![i] = @ \ {content}]
          /\ Backed(content) /\ copy[i].path # <<>> /\ copy[i].path[1] = "receipts"
      BY <2>7, ImporterPlaces DEF ImportGoesOn, Copying
    <3>2. \A old \in Legacy \ legacy'[i] : Backed(old)'
      BY <2>4, <3>1 DEF ImportHolds, BackInv
    <3>3. Only(i) /\ CopyHolds(i)'
      <4>1. CASE CopyExact(i, Manifest) /\ legacy'[i] = {}
        <5>1. Only(i) /\ copy'[i].path = Manifest
          BY <1>1, <4>1, HowADocumentStarts
        <5> QED
          BY <3>2, <4>1, <5>1, Places DEF CopyHolds, DocumentHolds
      <4>2. CASE CopyGoes(i, "none")
        <5>1. /\ Only(i) /\ copy'[i].at = "none"
              /\ copy'[i].path = copy[i].path /\ copy'[i].bytes = copy[i].bytes
          BY <1>1, <4>2, HowItGoes
        <5>2. CopyHolds(i)
          BY <1>1 DEF BackInv
        <5> QED
          BY <2>4, <5>1, <5>2 DEF CopyHolds, DocumentHolds
      <4> QED
        BY <2>7, <4>1, <4>2 DEF ImportGoesOn
    <3>4. ImportHolds(i)'
      BY <3>2 DEF ImportHolds
    <3>5. legacy' = [j \in Importers |-> legacy'[j]]
          /\ \A j \in Importers \ {i} : legacy'[j] = legacy[j]
      BY <3>1 DEF BackInv
    <3> QED
      BY <1>1, <2>2, <2>3, <3>3, <3>4, <3>5, OneMoves
  <2>8. CASE ImporterDies(i)
    <3>1. Only(i) /\ CopyHolds(i)'
      BY <1>1, <2>8, HowItRests, RestHolds DEF ImporterDies
    <3>2. legacy' = [legacy EXCEPT ![i] = Legacy]
      BY <2>8 DEF ImporterDies
    <3>3. /\ legacy' = [j \in Importers |-> legacy'[j]] /\ legacy'[i] = Legacy
          /\ \A j \in Importers \ {i} : legacy'[j] = legacy[j]
      BY <3>2 DEF BackInv
    <3>4. ImportHolds(i)'
      BY <3>3 DEF ImportHolds
    <3> QED
      BY <1>1, <2>2, <2>3, <3>1, <3>3, <3>4, OneMoves
  <2> QED
    BY <1>3, <2>5, <2>6, <2>7, <2>8
<1> QED
  BY <1>2, <1>3 DEF Import, ImporterStep

-----------------------------------------------------------------------------
(* Steps of the host that look, and copy nothing.                          *)
Early == {"idle", "building", "capturing", "storing", "refused"}

(* The host looks, checks and runs: the tree and the copies stay.          *)
LEMMA HostLooks ==
  ASSUME BackInv, UNCHANGED <<seen, kept, copy, legacy>>,
         \/ host' \in Early \ {"storing"}
         \/ /\ host \notin Early /\ UNCHANGED chunks
            /\ host' \notin {"storing", "storing_output"}
  PROVE  BackInv'
<1>1. TreeHolds' /\ Grows /\ Lasts
  BY TreeStill, GrowingLasts DEF BackInv
<1>2. \A c \in Callers : CopyHolds(c)'
  BY <1>1, CopyStays DEF BackInv
<1>3. \A i \in Importers : ImportHolds(i)'
  BY <1>1, ImportStays DEF BackInv
<1>4. HostHolds'
  BY <1>1 DEF BackInv, HostHolds, Early, Lasts, Taken
<1> QED
  BY <1>1, <1>2, <1>3, <1>4 DEF BackInv

(* Steps of the host that give its copy a new start, or an end.            *)
LEMMA HostTurns ==
  ASSUME BackInv, TreeHolds', Grows, Only(Host), CopyHolds(Host)', HostHolds',
         UNCHANGED legacy
  PROVE  BackInv'
<1>1. Host \in Callers /\ Host \notin Importers
  BY StoreAssumption DEF Callers
<1> QED
  BY <1>1, OneMoves DEF BackInv

(* The steps of the host.                                                  *)
LEMMA HostBacks ==
  ASSUME BackInv, HostStep \/ HostEnds \/ VerifierRun PROVE BackInv'
<1>1. Host \in Callers /\ HostHolds /\ TreeHolds /\ CopyHolds(Host)
  BY DEF Callers, BackInv
<1>2. ASSUME UNCHANGED <<seen, kept>> PROVE TreeHolds' /\ Grows /\ Lasts
  BY <1>1, <1>2, TreeStill, GrowingLasts
<1>3. CASE VerifierRun \/ Built \/ ReadsChunk
  <2>1. UNCHANGED <<seen, kept, copy, legacy>>
    BY <1>3 DEF VerifierRun, Built, ReadsChunk, storeVars, treeVars
  <2>2. host' \in {"building", "capturing", "refused"}
    BY <1>3 DEF VerifierRun, Built, ReadsChunk, HostGoes
  <2> QED
    BY <2>1, <2>2, HostLooks DEF Early
<1>4. CASE Prechecks \/ Staged \/ Popen \/ Judges \/ Postchecks
  <2>1. UNCHANGED <<seen, kept, copy, legacy, chunks>>
    BY <1>4 DEF Prechecks, Staged, Popen, Judges, Postchecks, ChecksSource,
                ChecksInterpreter, ResolvesAgain, storeVars, treeVars
  <2>2. host \notin Early /\ host' \notin {"storing", "storing_output"}
    BY <1>4 DEF Prechecks, Staged, Popen, Judges, Postchecks, ChecksSource,
                ChecksInterpreter, ResolvesAgain, HostGoes, Early
  <2> QED
    BY <2>1, <2>2, HostLooks
<1>5. CASE Captured /\ host' = "refused"
  BY <1>5, HostLooks DEF Captured, treeVars, Early
<1>6. CASE Captured /\ host' = "storing"
  <2>1. CopyObject(Host, Taken) /\ UNCHANGED <<seen, kept, legacy, chunks>>
    BY <1>6 DEF Captured, treeVars
  <2>2. /\ Only(Host) /\ copy'[Host].at = "named"
        /\ copy'[Host].path = Object(Taken)
    BY <1>1, <2>1, HowItStarts
  <2>3. CopyHolds(Host)'
    BY <1>1, <2>2, StartHolds
  <2>4. HostHolds'
    BY <1>6, <2>1, <2>2 DEF HostHolds, Taken
  <2> QED
    BY <1>2, <2>1, <2>2, <2>3, <2>4, HostTurns
<1>7. CASE HostCopies
  BY <1>1, <1>7, CopyStep DEF HostCopies, hostVars
<1>8. CASE Stored \/ HostRaises \/ Answers \/ HostEnds
  <2>1. copy' = [copy EXCEPT ![Host] = Resting] /\ UNCHANGED <<seen, kept, legacy>>
    BY <1>8 DEF Stored, HostRaises, Answers, HostEnds, treeVars
  <2>2. Only(Host) /\ CopyHolds(Host)'
    BY <1>1, <2>1, HowItRests, RestHolds
  <2>3. HostHolds'
    <3>1. CASE HostRaises \/ HostEnds
      BY <3>1 DEF HostRaises, HostEnds, HostHolds
    <3>2. CASE Stored
      <4>1. Backed(Taken) /\ UNCHANGED chunks /\ host' = "prechecking"
        BY <1>1, <3>2, ReturnedIsBacked DEF Stored, HostGoes, Copying, HostHolds
      <4> QED
        BY <1>2, <2>1, <4>1 DEF HostHolds, Lasts, Taken
    <3>3. CASE Answers
      <4>1. Backed(Taken) /\ UNCHANGED chunks /\ host' = "answered"
        BY <1>1, <3>3 DEF Answers, HostGoes, HostHolds
      <4> QED
        BY <1>2, <2>1, <4>1 DEF HostHolds, Lasts, Taken
    <3> QED
      BY <1>8, <3>1, <3>2, <3>3
  <2> QED
    BY <1>2, <2>1, <2>2, <2>3, HostTurns
<1>9. CASE Reports
  <2>1. /\ CopyObject(Host, Logs) /\ UNCHANGED <<seen, kept, legacy, chunks>>
        /\ Backed(Taken) /\ host' = "storing_output"
    BY <1>1, <1>9 DEF Reports, treeVars, HostGoes, HostHolds
  <2>2. /\ Only(Host) /\ copy'[Host].at = "named"
        /\ copy'[Host].path = Object(Logs)
    BY <1>1, <2>1, HowItStarts
  <2>3. CopyHolds(Host)'
    BY <1>1, <2>2, StartHolds
  <2>4. HostHolds'
    BY <1>2, <2>1, <2>2 DEF HostHolds, Lasts, Taken
  <2> QED
    BY <1>2, <2>1, <2>2, <2>3, <2>4, HostTurns
<1>10. CASE Persists
  <2>1. /\ Backed(Taken) /\ Backed(Logs) /\ host' = "persisting"
        /\ UNCHANGED <<kept, legacy, chunks>>
    BY <1>1, <1>10, ReturnedIsBacked DEF Persists, HostGoes, Copying, HostHolds
  <2>2. TreeHolds' /\ Grows
    <3>1. DocumentHolds(Ledger, "directory")
      BY Places DEF DocumentHolds
    <3>2. UNCHANGED seen \/ Link(Ledger, "directory")
      BY <1>10 DEF Persists
    <3> QED
      BY <1>1, <1>2, <2>1, <3>1, <3>2, TreeLinks
  <2>3. Lasts
    BY <2>2, GrowingLasts
  <2>4. copy' = [copy EXCEPT ![Host] =
          [at |-> "named", path |-> Append(Ledger, ToString(calls)),
           bytes |-> [verdict |-> verdict, candidate |-> Taken]]]
    BY <1>10 DEF Persists
  <2>5. /\ Only(Host) /\ copy'[Host].at = "named"
        /\ copy'[Host].path = Append(Ledger, ToString(calls))
        /\ copy'[Host].bytes.candidate = Taken
    BY <1>1, <2>4 DEF BackInv, Only
  <2>6. CopyHolds(Host)'
    <3>1. Len(copy'[Host].path) = 3
      BY <2>5, ReceiptPlace
    <3>2. copy'[Host].path # Manifest
      <4>1. Len(Manifest) = 2
        BY Places
      <4> QED
        BY <3>1, <4>1
    <3> QED
      BY <2>1, <2>3, <2>5, <3>1, <3>2 DEF CopyHolds, DocumentHolds, Lasts
  <2>7. HostHolds'
    BY <2>1, <2>3 DEF HostHolds, Lasts, Taken
  <2> QED
    BY <2>1, <2>2, <2>5, <2>6, <2>7, HostTurns
<1> QED
  BY <1>3, <1>4, <1>5, <1>6, <1>7, <1>8, <1>9, <1>10 DEF HostStep, Captured

-----------------------------------------------------------------------------
(* The power fails: what was under way is given up, and the documents that *)
(* are left find their objects.                                            *)
LEMMA PowerLossBacks ==
  ASSUME BackInv, PowerLoss PROVE BackInv'
<1>1. TreeHolds' /\ Lasts
  BY PowerFailsHolds DEF BackInv, PowerLoss
<1>2. /\ copy' = [c \in Callers |-> Resting] /\ host' = "idle"
      /\ legacy' = [i \in Importers |->
                      IF copy[i] = Resting THEN legacy[i] ELSE Legacy]
  BY DEF PowerLoss
<1>3. /\ \A c \in Callers : copy'[c] = Resting
      /\ Resting = [at |-> Resting.at, path |-> Resting.path, bytes |-> Resting.bytes]
      /\ Resting.at = "none" /\ Resting.path = <<>>
  BY <1>2 DEF Resting
<1>4. copy' = [c \in Callers |-> [at |-> copy'[c].at, path |-> copy'[c].path,
                                 bytes |-> copy'[c].bytes]]
  <2> HIDE DEF Resting
  <2> QED
    BY <1>2, <1>3
<1>5. \A c \in Callers : CopyHolds(c)'
  BY <1>3, RestHolds
<1>6. \A i \in Importers : ImportHolds(i)'
  <2> SUFFICES ASSUME NEW i \in Importers, legacy'[i] # {},
                      NEW content \in Legacy \ legacy'[i]
               PROVE  Backed(content)'
    BY <1>3 DEF ImportHolds, Callers
  <2> QED
    BY <1>1, <1>2 DEF ImportHolds, BackInv, Lasts
<1>7. HostHolds'
  BY <1>2 DEF HostHolds
<1>8. legacy' = [i \in Importers |-> legacy'[i]]
  BY <1>2
<1> QED
  BY <1>1, <1>4, <1>5, <1>6, <1>7, <1>8 DEF BackInv

(* Every step.                                                             *)
LEMMA StepBacks ==
  ASSUME BackInv, [Next]_vars PROVE BackInv'
<1>1. TreeHolds
  BY DEF BackInv
<1>2. CASE \/ Running \/ Verifies \/ Around \/ Edits \/ Session \/ UNCHANGED vars
  <2>1. UNCHANGED <<seen, kept, copy, legacy, host, chunks>>
    BY <1>2 DEF Running, Verifies, Around, Edits, Session, vars, storeVars,
                treeVars, hostVars
  <2> QED
    BY <1>1, <2>1, TreeStill, AllStays
<1>3. CASE VerifierRun \/ HostStep \/ HostEnds
  BY <1>3, HostBacks
<1>4. CASE \E i \in Importers : Import(i)
  BY <1>4, ImportBacks
<1>5. CASE \E m \in Materializers : Materialize(m)
  <2>1. PICK m \in Materializers : Materialize(m)
    BY <1>5
  <2>2. UNCHANGED <<copy, legacy, host, chunks>>
    BY <2>1 DEF Materialize, hostVars
  <2>3. TreeHolds' /\ Grows
    <3>1. CASE EntrySynced(m)
      BY <1>1, <3>1, TreeElsewhere, Places DEF EntrySynced
    <3>2. CASE Renames(m)
      <4>1. DocumentHolds(Entry, "whole")
        BY Places DEF DocumentHolds
      <4> QED
        BY <1>1, <3>2, <4>1, TreeStill, TreeLinks DEF Renames
    <3>3. CASE UNCHANGED <<seen, kept>>
      BY <1>1, <3>3, TreeStill
    <3> QED
      BY <2>1, <3>1, <3>2, <3>3
         DEF Materialize, MaterializerStep, Ensures, Locks, Stages,
             StagingFails, EntrySyncFails, Audits, MaterializerDies, treeVars
  <2> QED
    BY <2>2, <2>3, AllStays
<1>6. CASE Drifts
  <2>1. UNCHANGED <<copy, legacy, host, chunks>>
    BY <1>6 DEF Drifts, hostVars
  <2>2. TreeHolds' /\ Grows
    <3>1. CASE UNCHANGED <<seen, kept>>
      BY <1>1, <3>1, TreeStill
    <3>2. ASSUME NEW path \in {Entry, Object(Taken)},
                 seen' = [seen EXCEPT ![path] = "changed"], UNCHANGED kept
          PROVE  TreeHolds' /\ Grows
      <4>1. Len(path) = 2
        BY Places
      <4> QED
        BY <1>1, <3>2, <4>1, TreeElsewhere
    <3> QED
      BY <1>6, <3>1, <3>2 DEF Drifts, treeVars
  <2> QED
    BY <2>1, <2>2, AllStays
<1>7. CASE PowerLoss
  BY <1>7, PowerLossBacks
<1> QED
  BY <1>2, <1>3, <1>4, <1>5, <1>6, <1>7 DEF Next

(* Documents are backed throughout, and a power loss cannot change that.   *)
THEOREM BackingIsInductive == Spec => []BackInv
<1>1. BackInv /\ [Next]_vars => BackInv'
  BY StepBacks
<1> QED
  BY <1>1, BackStart, PTL DEF Spec

(* ArtifactStore.copy_object and its callers (import_legacy, the service's *)
(* capture and receipt): whatever runs at the same time, is killed, drifts *)
(* or loses power, a document that is there finds the objects it names.    *)
THEOREM DocumentsStayBacked == Spec => []DocumentsAreBacked
<1>1. BackInv => DocumentsAreBacked
  <2> SUFFICES ASSUME BackInv PROVE DocumentsAreBacked
    OBVIOUS
  <2>1. \A path \in DOMAIN seen : DocumentHolds(path, seen[path])
    BY DEF BackInv, TreeHolds
  <2> QED
    BY <2>1 DEF DocumentsAreBacked, DocumentHolds, Receipts, Backed, Exists
<1> QED
  BY <1>1, BackingIsInductive, PTL
-----------------------------------------------------------------------------
(***************************************************************************)
(* What a receipt says is true.  It was written by the host over bytes it  *)
(* had read between two equal looks at the candidate, and its verdict was  *)
(* given by an interpreter that was the pinned one before and after.       *)
(***************************************************************************)

Opening == {"idle", "building", "capturing", "refused"}
Looked  == {"running", "postchecking", "postchecking_interpreter"}
Judged  == {"resolving", "reporting", "storing_output", "persisting"}

(* The candidate had these bytes.                                          *)
Genuine(bytes) == \E n \in 0..edits : bytes = Bytes(Candidate(n))

(* The verdict is the one that the pinned verifier gives of these bytes.   *)
TrueOf(bytes, status) ==
  /\ status = "PASS" => bytes \in Accepted
  /\ status = "REJECTED" => bytes \notin Accepted

Truth(path, bytes) ==
  Len(path) = 3 =>
    Genuine(bytes.candidate) /\ TrueOf(bytes.candidate, bytes.verdict)

(* Every receipt, seen, on the device or about to be linked.               *)
PaperInv ==
  /\ \A path \in DOMAIN seen : Truth(path, seen[path])
  /\ \A path \in DOMAIN kept : Truth(path, kept[path])
  /\ \A c \in Callers : Truth(copy[c].path, copy[c].bytes)

(* Every chunk is one the candidate had since the capture began.           *)
CaptureInv ==
  /\ edits \in Nat /\ stamp \in Nat
  /\ host \in {"idle", "building"} => chunks = <<>>
  /\ host = "capturing" =>
       /\ chunks \in Seq({"n", "o"}) /\ Len(chunks) <= 2 /\ stamp <= edits
       /\ \A i \in 1..Len(chunks) : \E n \in stamp..edits :
            chunks[i] = Candidate(n)[i]
  /\ host \notin Opening => Len(chunks) = 2 /\ Genuine(Taken)

(* Interpreters are only ever upgraded.                                    *)
InterpreterInv ==
  /\ interpreter \in Nat /\ pinned \in Nat /\ used \in Nat
  /\ pinned <= interpreter /\ used <= interpreter
  /\ host \in Looked => pinned <= used

(* What the verifier said, from its exit to the receipt.                   *)
VerdictInv ==
  /\ host # "running" => phase = "none" /\ leader = "none" /\ reply = "none"
  /\ host = "running" /\ used = pinned =>
       /\ reply = "accepts" => Taken \in Accepted
       /\ reply = "rejects" => Taken \notin Accepted
  /\ host \in {"postchecking", "postchecking_interpreter"} /\ used = pinned =>
       TrueOf(Taken, verdict)
  /\ host \in Judged => TrueOf(Taken, verdict)

(* The host copies at three of its steps only.                             *)
HandInv ==
  host \notin {"storing", "storing_output", "persisting"} => copy[Host].at = "none"

TruthInv == PaperInv /\ CaptureInv /\ InterpreterInv /\ VerdictInv /\ HandInv

-----------------------------------------------------------------------------
(* Where a document comes from: it was there, or it was being copied.      *)
From(path, bytes) ==
  \/ path \in DOMAIN seen /\ bytes = seen[path]
  \/ path \in DOMAIN kept /\ bytes = kept[path]
  \/ \E c \in Callers : path = copy[c].path /\ bytes = copy[c].bytes

Inherits ==
  /\ \A path \in DOMAIN seen' : Len(path) = 3 => From(path, seen'[path])
  /\ \A path \in DOMAIN kept' : Len(path) = 3 => From(path, kept'[path])

(* Documents in a tree that is left alone.                                 *)
LEMMA InheritsStill == ASSUME UNCHANGED <<seen, kept>> PROVE Inherits
BY DEF Inherits, From

(* Documents in a tree where one name appears.                             *)
LEMMA InheritsLink ==
  ASSUME NEW path, NEW bytes, Link(path, bytes), UNCHANGED kept,
         \/ Len(path) # 3
         \/ \E c \in Callers : path = copy[c].path /\ bytes = copy[c].bytes
  PROVE  Inherits
BY DEF Inherits, From, Link

(* Documents in a tree of which something becomes durable.                 *)
LEMMA InheritsSync ==
  ASSUME NEW dir, SyncDirectory(dir), UNCHANGED seen PROVE Inherits
BY DEF Inherits, From, SyncDirectory, Children

(* No step of anybody makes a document out of nothing.                     *)
LEMMA NothingNew == ASSUME [Next]_vars PROVE Inherits
<1>1. ASSUME NEW c \in Callers, Links(c) \/ Finds(c) \/ Syncs(c) \/ CopyFails(c)
      PROVE  Inherits
  <2>1. CASE Links(c)
    BY <2>1, InheritsLink DEF Links
  <2>2. CASE Syncs(c)
    BY <2>2, InheritsSync DEF Syncs
  <2>3. CASE UNCHANGED <<seen, kept>>
    BY <2>3, InheritsStill
  <2> QED
    BY <1>1, <2>1, <2>2, <2>3 DEF Finds, CopyFails, treeVars
<1>2. CASE \/ Running \/ Verifies \/ Around \/ Edits \/ Session \/ VerifierRun
           \/ HostEnds \/ UNCHANGED vars
  <2>1. UNCHANGED <<seen, kept>>
    BY <1>2 DEF Running, Verifies, Around, Edits, Session, VerifierRun, HostEnds,
                vars, storeVars, treeVars
  <2> QED
    BY <2>1, InheritsStill
<1>3. CASE HostStep
  <2>1. CASE HostCopies
    BY <1>1, <2>1 DEF HostCopies, Callers
  <2>2. CASE Persists
    <3>1. Len(Ledger) # 3
      BY Places
    <3> QED
      BY <2>2, <3>1, InheritsStill, InheritsLink DEF Persists
  <2>3. CASE UNCHANGED <<seen, kept>>
    BY <2>3, InheritsStill
  <2> QED
    BY <1>3, <2>1, <2>2, <2>3
       DEF HostStep, Built, ReadsChunk, Captured, Stored, HostRaises, Prechecks,
           Staged, Popen, Judges, Postchecks, Reports, Answers, ChecksSource,
           ChecksInterpreter, ResolvesAgain, storeVars, treeVars
<1>4. CASE \E i \in Importers : Import(i)
  <2>1. PICK i \in Importers : Import(i)
    BY <1>4
  <2>2. CASE UNCHANGED <<seen, kept>>
    BY <2>2, InheritsStill
  <2> QED
    BY <1>1, <2>1, <2>2
       DEF Import, ImporterStep, ImportCopies, ImportReceipt, ImportGoesOn,
           ImporterDies, treeVars, Callers
<1>5. CASE \E m \in Materializers : Materialize(m)
  <2>1. PICK m \in Materializers : Materialize(m)
    BY <1>5
  <2>2. CASE EntrySynced(m)
    BY <2>2, Places DEF EntrySynced, Inherits, From
  <2>3. CASE Renames(m)
    <3>1. Len(Entry) # 3
      BY Places
    <3> QED
      BY <2>3, <3>1, InheritsStill, InheritsLink DEF Renames, treeVars
  <2>4. CASE UNCHANGED <<seen, kept>>
    BY <2>4, InheritsStill
  <2> QED
    BY <2>1, <2>2, <2>3, <2>4
       DEF Materialize, MaterializerStep, Ensures, Locks, Stages,
           StagingFails, EntrySyncFails, Audits, MaterializerDies, treeVars
<1>6. CASE Drifts
  <2>1. ASSUME NEW path \in {Entry, Object(Taken)},
               seen' = [seen EXCEPT ![path] = "changed"], UNCHANGED kept
        PROVE  Inherits
    <3>1. Len(path) = 2
      BY Places
    <3> QED
      BY <2>1, <3>1 DEF Inherits, From
  <2>2. CASE UNCHANGED <<seen, kept>>
    BY <2>2, InheritsStill
  <2> QED
    BY <1>6, <2>1, <2>2 DEF Drifts, treeVars
<1>7. CASE PowerLoss
  BY <1>7 DEF PowerLoss, PowerFails, Reachable, Inherits, From
<1> QED
  BY <1>2, <1>3, <1>4, <1>5, <1>6, <1>7 DEF Next

-----------------------------------------------------------------------------
(* What a document said stays true while the candidate is edited.          *)
LEMMA TruthLasts ==
  ASSUME edits \in Nat, edits' \in Nat, edits <= edits'
  PROVE  \A path, bytes : Truth(path, bytes) => Truth(path, bytes)'
BY DEF Truth, Genuine, TrueOf

(* The same of its bytes.                                                  *)
LEMMA GenuineLasts ==
  ASSUME edits \in Nat, edits' \in Nat, edits <= edits'
  PROVE  \A bytes : Genuine(bytes) => Genuine(bytes)'
BY DEF Genuine

(* Edits only add up.                                                      *)
LEMMA EditsGrow ==
  ASSUME edits \in Nat, [Next]_vars PROVE edits' \in Nat /\ edits <= edits'
<1>1. Edits \/ edits' = edits
  <2>1. CASE HostStep
    BY <2>1 DEF HostStep, Built, ReadsChunk, Captured, HostCopies, Stored,
         HostRaises, Prechecks, Staged, Popen, Judges, Postchecks, Reports,
         Persists, Answers, ChecksSource, ChecksInterpreter, ResolvesAgain, worldVars
  <2> QED
    BY <2>1 DEF Next, VerifierRun, Running, HostEnds, Verifies, Around, Drifts,
         PowerLoss, Session, Import, Materialize, vars, worldVars
<1> QED
  BY <1>1 DEF Edits

(* Where the copies of objects and of the import's documents go.           *)
NoReceipt(path) ==
  \/ path = <<>> \/ path = Manifest
  \/ \E content : path = Object(content) \/ path = Receipt(content)

(* A copy goes on with the path and the bytes it began with, or is begun   *)
(* by the host with its receipt, or with something that is no receipt.     *)
LEMMA NothingElseCopied ==
  ASSUME BackInv, [Next]_vars, ~Persists, NEW c \in Callers
  PROVE  \/ copy'[c].path = copy[c].path /\ copy'[c].bytes = copy[c].bytes
         \/ NoReceipt(copy'[c].path)
<1>1. Host \in Callers /\ \A i \in Importers : i \in Callers
  BY DEF Callers
<1>2. ASSUME NEW d \in Callers, Only(d),
             \/ copy'[d].path = copy[d].path /\ copy'[d].bytes = copy[d].bytes
             \/ NoReceipt(copy'[d].path)
      PROVE  \/ copy'[c].path = copy[c].path /\ copy'[c].bytes = copy[c].bytes
             \/ NoReceipt(copy'[c].path)
  BY <1>2 DEF Only
<1>3. ASSUME NEW d \in Callers, Links(d) \/ Finds(d) \/ Syncs(d) \/ CopyFails(d)
      PROVE  \/ copy'[c].path = copy[c].path /\ copy'[c].bytes = copy[c].bytes
             \/ NoReceipt(copy'[c].path)
  <2>1. \E at : CopyGoes(d, at)
    BY <1>3 DEF Links, Finds, Syncs, CopyFails
  <2> QED
    BY <1>2, <2>1, HowItGoes
<1>4. ASSUME NEW d \in Callers, copy' = [copy EXCEPT ![d] = Resting]
      PROVE  \/ copy'[c].path = copy[c].path /\ copy'[c].bytes = copy[c].bytes
             \/ NoReceipt(copy'[c].path)
  <2>1. Only(d) /\ copy'[d].path = <<>>
    BY <1>4, HowItRests
  <2>2. NoReceipt(copy'[d].path)
    BY <2>1 DEF NoReceipt
  <2> QED
    BY <1>2, <2>1, <2>2
<1>5. ASSUME NEW d \in Callers, NEW content, CopyObject(d, content)
      PROVE  \/ copy'[c].path = copy[c].path /\ copy'[c].bytes = copy[c].bytes
             \/ NoReceipt(copy'[c].path)
  <2>1. Only(d) /\ copy'[d].path = Object(content)
    BY <1>5, HowItStarts
  <2>2. NoReceipt(copy'[d].path)
    BY <2>1 DEF NoReceipt
  <2> QED
    BY <1>2, <2>1, <2>2
<1>6. ASSUME NEW d \in Callers, NEW path, CopyExact(d, path), NoReceipt(path)
      PROVE  \/ copy'[c].path = copy[c].path /\ copy'[c].bytes = copy[c].bytes
             \/ NoReceipt(copy'[c].path)
  <2>1. Only(d) /\ copy'[d].path = path
    BY <1>6, HowADocumentStarts
  <2> QED
    BY <1>2, <1>6, <2>1
<1>7. CASE copy' = copy
  BY <1>7
<1>8. CASE HostStep
  <2>1. CASE HostCopies
    BY <1>1, <1>3, <2>1 DEF HostCopies
  <2>2. CASE Stored \/ HostRaises \/ Answers
    BY <1>1, <1>4, <2>2 DEF Stored, HostRaises, Answers
  <2>3. CASE Captured \/ Reports
    BY <1>1, <1>5, <1>7, <2>3 DEF Captured, Reports
  <2> QED
    BY <1>7, <1>8, <2>1, <2>2, <2>3
       DEF HostStep, Built, ReadsChunk, Prechecks, Staged, Popen, Judges,
           Postchecks, ChecksSource, ChecksInterpreter, ResolvesAgain, storeVars
<1>9. CASE HostEnds
  BY <1>1, <1>4, <1>9 DEF HostEnds
<1>10. CASE PowerLoss
  <2>1. copy'[c].path = <<>>
    BY <1>10 DEF PowerLoss, Resting
  <2> QED
    BY <2>1 DEF NoReceipt
<1>11. CASE \E i \in Importers : Import(i)
  <2>1. PICK i \in Importers : Import(i)
    BY <1>11
  <2>2. CASE ImportCopies(i)
    BY <1>1, <1>5, <2>2 DEF ImportCopies
  <2>3. CASE ImportReceipt(i)
    <3>1. NoReceipt(Receipt(copy[i].path[2]))
      BY DEF NoReceipt
    <3> QED
      BY <1>1, <1>6, <2>3, <3>1 DEF ImportReceipt
  <2>4. CASE ImportGoesOn(i)
    <3>1. NoReceipt(Manifest)
      BY DEF NoReceipt
    <3>2. CASE CopyGoes(i, "none")
      BY <1>1, <1>2, <3>2, HowItGoes
    <3> QED
      BY <1>1, <1>6, <2>4, <3>1, <3>2 DEF ImportGoesOn
  <2>5. CASE ImporterDies(i)
    BY <1>1, <1>4, <2>5 DEF ImporterDies
  <2> QED
    BY <1>1, <1>3, <2>1, <2>2, <2>3, <2>4, <2>5 DEF Import, ImporterStep
<1>12. CASE \E m \in Materializers : Materialize(m)
  BY <1>7, <1>12 DEF Materialize
<1> QED
  BY <1>7, <1>8, <1>9, <1>10, <1>11, <1>12
     DEF Next, VerifierRun, Running, Verifies, Around, Edits, Drifts, Session,
         storeVars, vars

(* The documents stay true as long as what the host writes is true.        *)
LEMMA PaperStays ==
  ASSUME BackInv, TruthInv, [Next]_vars PROVE PaperInv'
<1>1. \A path, bytes : Truth(path, bytes) => Truth(path, bytes)'
  BY TruthLasts, EditsGrow DEF TruthInv, CaptureInv
<1>2. \A path, bytes : From(path, bytes) => Truth(path, bytes)
  BY DEF From, TruthInv, PaperInv
<1>3. /\ \A path \in DOMAIN seen' : Len(path) = 3 => Truth(path, seen'[path])
      /\ \A path \in DOMAIN kept' : Len(path) = 3 => Truth(path, kept'[path])
  BY <1>2, NothingNew DEF Inherits
<1>4. \A path, bytes : Len(path) # 3 => Truth(path, bytes)
  BY DEF Truth
<1>5. ASSUME NEW c \in Callers PROVE Truth(copy'[c].path, copy'[c].bytes)
  <2>1. CASE ~Persists
    <3>1. \A path : NoReceipt(path) => Len(path) # 3
      BY Places DEF NoReceipt
    <3> QED
      BY <1>4, <2>1, <3>1, NothingElseCopied DEF TruthInv, PaperInv
  <2>2. CASE Persists
    <3>1. Genuine(Taken) /\ TrueOf(Taken, verdict)
      BY <2>2 DEF Persists, HostGoes, TruthInv, CaptureInv, VerdictInv, Opening, Judged
    <3>2. copy'[Host].bytes = [verdict |-> verdict, candidate |-> Taken]
          /\ \A d \in Callers \ {Host} : copy'[d] = copy[d]
      BY <2>2 DEF Persists, BackInv, Callers
    <3>3. Truth(copy'[Host].path, copy'[Host].bytes)
      BY <3>1, <3>2 DEF Truth
    <3>4. CASE c # Host
      BY <3>2, <3>4 DEF TruthInv, PaperInv
    <3> QED
      BY <3>3, <3>4
  <2> QED
    BY <2>1, <2>2
<1> QED
  BY <1>1, <1>3, <1>4, <1>5 DEF PaperInv

-----------------------------------------------------------------------------
(* The capture.                                                            *)

(* Two chunks that are one version's are its bytes.                        *)
LEMMA OneVersion ==
  ASSUME NEW n, Len(chunks) = 2,
         chunks[1] = Candidate(n)[1], chunks[2] = Candidate(n)[2]
  PROVE  Taken = Bytes(Candidate(n))
BY DEF Taken, Bytes

(* Everybody else leaves the host and the candidate alone.                 *)
LEMMA OthersLookOn ==
  ASSUME \/ Running \/ Verifies \/ Around \/ Drifts \/ Session
         \/ \E i \in Importers : Import(i)
         \/ \E m \in Materializers : Materialize(m)
         \/ UNCHANGED vars
  PROVE  UNCHANGED <<host, pinned, stamp, chunks, used, verdict, edits>>
BY DEF Running, Verifies, Around, Drifts, Session, Import, Materialize, vars,
       hostVars, worldVars

(* What the host does once it has its bytes.                               *)
HostGoesOn ==
  \/ HostCopies \/ Stored \/ HostRaises \/ Prechecks \/ Staged \/ Popen
  \/ Judges \/ Postchecks \/ Reports \/ Persists \/ Answers

(* It keeps them, and does not go back to read others.                     *)
LEMMA BytesAreKept ==
  ASSUME HostGoesOn
  PROVE  /\ UNCHANGED <<edits, stamp, chunks, interpreter, pinned>>
         /\ \/ host' = host
            \/ host \notin Opening /\ host' \notin Opening
            \/ host' = "refused"
BY DEF HostGoesOn, HostCopies, Stored, HostRaises, Prechecks, Staged, Popen,
       Judges, Postchecks, Reports, Persists, Answers, ChecksSource,
       ChecksInterpreter, ResolvesAgain, HostGoes, hostVars, worldVars, Opening

(* The capture holds what it read.                                         *)
LEMMA CaptureStays ==
  ASSUME CaptureInv, [Next]_vars PROVE CaptureInv'
<1>1. CASE UNCHANGED <<host, stamp, chunks, edits>>
  BY <1>1 DEF CaptureInv, Opening, Genuine, Taken
<1>2. CASE VerifierRun
  BY <1>2 DEF VerifierRun, HostGoes, CaptureInv, Opening, worldVars
<1>3. CASE Built
  <2>1. /\ host = "building" /\ host' \in {"capturing", "refused"}
        /\ stamp' = edits /\ UNCHANGED <<edits, chunks>>
    BY <1>3 DEF Built, HostGoes, worldVars
  <2>2. chunks = <<>> /\ <<>> \in Seq({"n", "o"}) /\ Len(<<>>) = 0
    BY <2>1 DEF CaptureInv
  <2> QED
    BY <2>1, <2>2 DEF CaptureInv, Opening
<1>4. CASE ReadsChunk
  <2> DEFINE next == Candidate(edits)[Len(chunks) + 1]
  <2>1. /\ host = "capturing" /\ UNCHANGED <<host, edits, stamp>>
        /\ Len(chunks) < 2 /\ chunks' = Append(chunks, next)
    BY <1>4 DEF ReadsChunk, worldVars
  <2>2. /\ chunks \in Seq({"n", "o"}) /\ stamp <= edits
        /\ edits \in Nat /\ stamp \in Nat
        /\ \A i \in 1..Len(chunks) : \E n \in stamp..edits :
             chunks[i] = Candidate(n)[i]
    BY <2>1 DEF CaptureInv
  <2>3. Len(chunks) \in 0..1 /\ Len(chunks) + 1 \in 1..2
    <3>1. Len(chunks) \in Nat
      BY <2>2, LenProperties
    <3>2. Len(chunks) < 2
      BY <2>1
    <3> QED
      BY <3>1, <3>2
  <2>4. next \in {"n", "o"}
    <3>1. \A i \in 1..2 : Candidate(edits)[i] = "n" \/ Candidate(edits)[i] = "o"
      BY DEF Candidate
    <3>2. next = "n" \/ next = "o"
      BY <2>3, <3>1
    <3> QED
      BY <3>2
  <2>5. /\ chunks' \in Seq({"n", "o"}) /\ Len(chunks') = Len(chunks) + 1
        /\ chunks'[Len(chunks) + 1] = next
        /\ \A i \in 1..Len(chunks) : chunks'[i] = chunks[i]
    <3> HIDE DEF next
    <3> QED
      BY <2>1, <2>2, <2>4, AppendProperties
  <2>6. ASSUME NEW i \in 1..Len(chunks')
        PROVE  \E n \in stamp..edits : chunks'[i] = Candidate(n)[i]
    <3>1. i \in 1..Len(chunks) \/ i = Len(chunks) + 1
      BY <2>3, <2>5
    <3>2. edits \in stamp..edits
      BY <2>2
    <3> QED
      BY <2>2, <2>5, <3>1, <3>2
  <2> QED
    BY <2>1, <2>2, <2>3, <2>5, <2>6 DEF CaptureInv, Opening
<1>5. CASE Captured
  <2>1. /\ host = "capturing" /\ Len(chunks) = 2 /\ UNCHANGED <<edits, stamp, chunks>>
        /\ \/ host' = "refused"
           \/ host' = "storing" /\ stamp = edits
    BY <1>5 DEF Captured, worldVars
  <2>2. CASE host' = "refused"
    BY <2>1, <2>2 DEF CaptureInv, Opening
  <2>3. CASE host' = "storing" /\ stamp = edits
    <3>1. /\ edits \in Nat
          /\ \A i \in 1..2 : \E n \in edits..edits : chunks[i] = Candidate(n)[i]
      BY <2>1, <2>3 DEF CaptureInv
    <3>2. \A i \in 1..2 : chunks[i] = Candidate(edits)[i]
      <4>1. \A n \in edits..edits : n = edits
        BY <3>1
      <4> QED
        BY <3>1, <4>1
    <3>3. Genuine(Taken)
      BY <2>1, <3>1, <3>2, OneVersion DEF Genuine
    <3> QED
      BY <2>1, <2>3, <3>3 DEF CaptureInv, Opening, Genuine, Taken
  <2> QED
    BY <2>1, <2>2, <2>3
<1>6. CASE HostGoesOn
  <2>1. Genuine(Taken) => Genuine(Taken)'
    BY <1>6, BytesAreKept DEF Genuine, Taken
  <2> QED
    BY <1>1, <1>6, <2>1, BytesAreKept DEF CaptureInv, Opening
<1>7. CASE HostEnds \/ PowerLoss
  <2>1. host' = "idle" /\ stamp' = 0 /\ chunks' = <<>> /\ UNCHANGED edits
    BY <1>7 DEF HostEnds, PowerLoss, Forgotten, worldVars
  <2> QED
    BY <2>1 DEF CaptureInv, Opening
<1>8. CASE Edits
  <2>1. host \in Opening /\ edits' = edits + 1 /\ UNCHANGED <<host, stamp, chunks>>
    BY <1>8 DEF Edits, Opening, hostVars
  <2>2. \A n : n \in stamp..edits => n \in stamp..(edits + 1)
    BY DEF CaptureInv
  <2> QED
    BY <2>1, <2>2 DEF CaptureInv
<1> QED
  BY <1>1, <1>2, <1>3, <1>4, <1>5, <1>6, <1>7, <1>8, OthersLookOn
     DEF Next, HostStep, HostGoesOn

(* The interpreter, too, only goes forward.                                *)
LEMMA InterpreterStays ==
  ASSUME InterpreterInv, [Next]_vars PROVE InterpreterInv'
<1>1. CASE UNCHANGED <<host, pinned, used, interpreter>>
  BY <1>1 DEF InterpreterInv, Looked
<1>2. CASE VerifierRun
  BY <1>2 DEF VerifierRun, HostGoes, InterpreterInv, Looked, worldVars
<1>3. CASE Popen
  BY <1>3 DEF Popen, HostGoes, InterpreterInv, Looked, worldVars
<1>4. CASE HostStep /\ ~Popen
  <2>1. UNCHANGED <<interpreter, pinned, used>>
    BY <1>4 DEF HostStep, Built, ReadsChunk, Captured, HostCopies, Stored,
         HostRaises, Prechecks, Staged, Judges, Postchecks, Reports, Persists,
         Answers, ChecksSource, ChecksInterpreter, ResolvesAgain, hostVars, worldVars
  <2>2. host' \in Looked => host \in Looked
    BY <1>4 DEF HostStep, Built, ReadsChunk, Captured, HostCopies, Stored,
         HostRaises, Prechecks, Staged, Judges, Postchecks, Reports, Persists,
         Answers, ChecksSource, ChecksInterpreter, ResolvesAgain, HostGoes,
         hostVars, Looked
  <2> QED
    BY <2>1, <2>2 DEF InterpreterInv
<1>5. CASE HostEnds \/ PowerLoss
  <2>1. host' = "idle" /\ pinned' = 0 /\ used' = 0 /\ UNCHANGED interpreter
    BY <1>5 DEF HostEnds, PowerLoss, Forgotten, worldVars
  <2> QED
    BY <2>1 DEF InterpreterInv, Looked
<1>6. CASE Drifts
  <2>1. UNCHANGED <<host, pinned, used>> /\ interpreter' \in {interpreter, interpreter + 1}
    BY <1>6 DEF Drifts, hostVars
  <2> QED
    BY <2>1 DEF InterpreterInv
<1>7. CASE Edits
  BY <1>1, <1>7 DEF Edits, hostVars
<1>8. CASE ~Drifts
  BY <1>1, <1>2, <1>3, <1>4, <1>5, <1>7, <1>8, OthersLookOn
     DEF Next, Running, Verifies, Around, Session, Import, Materialize, vars, worldVars
<1> QED
  BY <1>6, <1>8

-----------------------------------------------------------------------------
(* The verdict. *)

(* The run itself makes nobody say anything.                               *)
LEMMA RunSaysNothing ==
  ASSUME RunStep PROVE reply' \in {reply, "killed"}
BY DEF RunStep, SeesExit, StopsIt, Reaps, ChecksGroup, Joins, Closes, TerminateGroup

(* Around the verifier nothing is said either.                             *)
LEMMA AroundSaysNothing ==
  ASSUME Around PROVE UNCHANGED <<phase, leader, reply>>
BY DEF Around, AroundIt, ReaderEnds, Forks, Escapes, OthersExit, PassesCap, ReaderFails

(* While the process is left alone the host has no verdict to give yet, or *)
(* keeps or withdraws the one it has.                                      *)
LEMMA HostWeighs ==
  ASSUME TruthInv, HostStep, UNCHANGED <<phase, leader, reply>>, ~Popen, ~Judges
  PROVE  VerdictInv'
<1>0. HostCopies \/ HostRaises => host # "running"
  <2>1. HostCopies \/ HostRaises => copy[Host].at # "none"
    BY DEF HostCopies, HostRaises, Links, Finds, Syncs, CopyFails, Copying
  <2> QED
    BY <2>1 DEF TruthInv, HandInv
<1>1. host # "running"
      => host' # "running" /\ phase' = "none" /\ leader' = "none" /\ reply' = "none"
  BY DEF TruthInv, VerdictInv, HostStep, Built, ReadsChunk, Captured, HostCopies,
         Stored, HostRaises, Prechecks, Staged, Postchecks, Reports, Persists,
         Answers, ChecksSource, ChecksInterpreter, ResolvesAgain, HostGoes, hostVars
<1>2. CASE HostCopies
  BY <1>2 DEF TruthInv, VerdictInv, HostCopies, hostVars, Taken, TrueOf
<1>3. CASE HostRaises
  BY <1>0, <1>1, <1>3 DEF VerdictInv, HostRaises, Judged
<1>4. host # "running"
  BY <1>0 DEF HostStep, Built, ReadsChunk, Captured, Stored, Prechecks, Staged,
         Postchecks, Reports, Persists, Answers, ChecksSource, ChecksInterpreter,
         ResolvesAgain, HostGoes
<1>5. CASE /\ host # "running"
           /\ Built \/ ReadsChunk \/ Captured \/ Stored \/ Staged \/ Answers
  <2>1. host' \notin Judged \cup {"postchecking", "postchecking_interpreter"}
    BY <1>5 DEF Built, ReadsChunk, Captured, Stored, Staged, Answers, HostGoes, Judged
  <2> QED
    BY <1>1, <1>5, <2>1 DEF VerdictInv
<1>6. CASE /\ host # "running"
           /\ Prechecks \/ Postchecks \/ Reports \/ Persists
  <2>1. UNCHANGED <<chunks, used, pinned, interpreter>>
    BY <1>6 DEF Prechecks, Postchecks, Reports, Persists, ChecksSource,
                ChecksInterpreter, ResolvesAgain, worldVars
  <2>2. Taken' = Taken
    BY <2>1 DEF Taken
  <2>3. \A bytes : TrueOf(bytes, "APPARATUS_ERROR")
    BY DEF TrueOf
  <2>4. CASE Prechecks
    <3>1. \/ /\ host' = "reporting" /\ verdict' = "APPARATUS_ERROR"
          \/ host' \in {"prechecking_interpreter", "staging"}
      BY <2>4 DEF Prechecks, ChecksSource, ChecksInterpreter
    <3> QED
      BY <1>1, <1>6, <2>2, <2>3, <3>1 DEF VerdictInv, Judged, TrueOf
  <2>5. CASE ChecksSource("postchecking", "postchecking_interpreter")
    <3>1. /\ host = "postchecking"
          /\ \/ host' = "reporting" /\ verdict' = "APPARATUS_ERROR"
             \/ host' = "postchecking_interpreter" /\ verdict' = verdict
      BY <2>5 DEF ChecksSource
    <3> QED
      BY <1>1, <1>6, <2>1, <2>2, <2>3, <3>1 DEF TruthInv, VerdictInv, Judged, TrueOf
  <2>6. CASE ChecksInterpreter("postchecking_interpreter", "resolving")
    <3>1. /\ host = "postchecking_interpreter"
          /\ \/ host' = "reporting" /\ verdict' = "APPARATUS_ERROR"
             \/ host' = "resolving" /\ verdict' = verdict /\ interpreter = pinned
      BY <2>6 DEF ChecksInterpreter
    <3>2. interpreter = pinned => used = pinned
      BY <3>1 DEF TruthInv, InterpreterInv, Looked
    <3> QED
      BY <1>1, <1>6, <2>1, <2>2, <2>3, <3>1, <3>2
         DEF TruthInv, VerdictInv, Judged, TrueOf
  <2>7. CASE ResolvesAgain
    <3>1. /\ host = "resolving" /\ host' = "reporting"
          /\ verdict' \in {verdict, "APPARATUS_ERROR"}
      BY <2>7 DEF ResolvesAgain, HostGoes
    <3> QED
      BY <1>1, <1>6, <2>2, <2>3, <3>1 DEF TruthInv, VerdictInv, Judged, TrueOf
  <2>8. CASE Reports \/ Persists
    <3>1. host \in Judged /\ host' \in Judged /\ verdict' = verdict
      BY <2>8 DEF Reports, Persists, HostGoes, Judged
    <3> QED
      BY <1>1, <1>6, <2>2, <3>1 DEF TruthInv, VerdictInv, Judged, TrueOf
  <2> QED
    BY <1>6, <2>4, <2>5, <2>6, <2>7, <2>8 DEF Postchecks
<1> QED
  BY <1>2, <1>3, <1>4, <1>5, <1>6 DEF HostStep

(* Where the host has no copy to make, nothing begins one.                 *)
LEMMA HandStays ==
  ASSUME BackInv, HandInv, [Next]_vars PROVE HandInv'
<1>1. Host \in Callers /\ Host \notin Importers
  BY StoreAssumption DEF Callers
<1>2. CASE host' = host /\ copy'[Host] = copy[Host]
  BY <1>2 DEF HandInv
<1>3. CASE \/ VerifierRun \/ Built \/ ReadsChunk \/ Prechecks \/ Staged \/ Popen
           \/ Judges \/ Postchecks
  <2>1. copy' = copy /\ host \notin {"storing", "storing_output", "persisting"}
    BY <1>3 DEF VerifierRun, Built, ReadsChunk, Prechecks, Staged, Popen, Judges,
         Postchecks, ChecksSource, ChecksInterpreter, ResolvesAgain, HostGoes,
         storeVars
  <2> QED
    BY <2>1 DEF HandInv
<1>4. CASE Stored \/ HostRaises \/ Answers \/ HostEnds
  <2>1. copy' = [copy EXCEPT ![Host] = Resting]
    BY <1>4 DEF Stored, HostRaises, Answers, HostEnds
  <2>2. copy'[Host].at = "none"
    BY <1>1, <2>1, HowItRests
  <2> QED
    BY <2>2 DEF HandInv
<1>5. CASE Captured \/ Reports \/ Persists
  <2>1. \/ host' \in {"storing", "storing_output", "persisting"}
        \/ copy' = copy /\ host = "capturing"
    BY <1>5 DEF Captured, Reports, Persists, HostGoes
  <2> QED
    BY <2>1 DEF HandInv
<1>6. CASE HostCopies
  <2>1. host' = host /\ copy[Host].at # "none"
    BY <1>6 DEF HostCopies, Links, Finds, Syncs, CopyFails, Copying, hostVars
  <2> QED
    BY <2>1 DEF HandInv
<1>7. CASE PowerLoss
  <2>1. copy'[Host].at = "none"
    BY <1>1, <1>7 DEF PowerLoss, Resting
  <2> QED
    BY <2>1 DEF HandInv
<1>8. CASE \E i \in Importers : Import(i)
  <2>1. PICK i \in Importers : Import(i)
    BY <1>8
  <2>2. i \in Callers /\ i # Host
    BY <1>1 DEF Callers
  <2>3. copy' = copy \/ \E new : copy' = [copy EXCEPT ![i] = new]
    <3>1. ASSUME NEW at, CopyGoes(i, at)
          PROVE  \E new : copy' = [copy EXCEPT ![i] = new]
      BY <3>1 DEF CopyGoes
    <3> QED
      BY <2>1, <3>1 DEF Import, ImporterStep, Links, Finds, Syncs, CopyFails,
           ImportCopies, ImportReceipt, ImportGoesOn, ImporterDies,
           CopyObject, CopyExact
  <2>4. copy'[Host] = copy[Host]
    BY <1>1, <2>2, <2>3 DEF BackInv
  <2> QED
    BY <1>2, <1>8, <2>4, OthersLookOn
<1>9. CASE Edits
  BY <1>2, <1>9 DEF Edits, storeVars, hostVars
<1>10. CASE \/ Running \/ Verifies \/ Around \/ Drifts \/ Session \/ UNCHANGED vars
            \/ \E m \in Materializers : Materialize(m)
  <2>1. copy' = copy
    BY <1>10 DEF Running, Verifies, Around, Drifts, Session, Materialize, vars, storeVars
  <2> QED
    BY <1>2, <1>10, <2>1, OthersLookOn
<1> QED
  BY <1>3, <1>4, <1>5, <1>6, <1>7, <1>8, <1>9, <1>10 DEF Next, HostStep

(* A verdict that the host may report is the pinned verifier's.            *)
LEMMA VerdictStays ==
  ASSUME TruthInv, [Next]_vars PROVE VerdictInv'
<1>1. CASE UNCHANGED <<host, chunks, used, pinned, verdict, phase, leader, reply>>
  BY <1>1 DEF TruthInv, VerdictInv, Taken, TrueOf
<1>2. CASE Running
  <2>1. /\ host' = "running" /\ UNCHANGED <<host, chunks, used, pinned, verdict>>
        /\ reply' \in {reply, "killed"}
    BY <1>2, RunSaysNothing DEF Running, hostVars
  <2>2. Taken' = Taken
    BY <2>1 DEF Taken
  <2> QED
    BY <2>1, <2>2 DEF TruthInv, VerdictInv, Judged
<1>3. CASE Verifies
  <2>1. PICK says \in {"accepts", "rejects", "unfit"} :
          /\ LeaderExits(says)
          /\ used = pinned => says \in {"unfit", IF Taken \in Accepted THEN "accepts"
                                          ELSE "rejects"}
    BY <1>3 DEF Verifies
  <2>2. /\ leader = "alive" /\ reply' = says
        /\ UNCHANGED <<host, chunks, used, pinned, verdict>>
    BY <1>3, <2>1 DEF Verifies, LeaderExits, hostVars
  <2>3. host = "running" /\ Taken' = Taken
    BY <2>2 DEF TruthInv, VerdictInv, Taken
  <2> QED
    BY <2>1, <2>2, <2>3 DEF TruthInv, VerdictInv, Judged
<1>4. CASE Popen
  <2>1. host' = "running" /\ reply' = reply /\ host = "spawning"
    BY <1>4 DEF Popen, HostGoes, Spawns, SpawnFails
  <2> QED
    BY <2>1 DEF TruthInv, VerdictInv, Judged
<1>5. CASE Judges
  <2>1. /\ host = "running" /\ host' = "postchecking"
        /\ phase' = "none" /\ leader' = "none" /\ reply' = "none"
        /\ UNCHANGED <<chunks, used, pinned>>
        /\ verdict' = "PASS" => reply = "accepts"
        /\ verdict' = "REJECTED" => reply = "rejects"
    BY <1>5 DEF Judges, HostGoes, NotStarted
  <2>2. Taken' = Taken
    BY <2>1 DEF Taken
  <2> QED
    BY <2>1, <2>2 DEF TruthInv, VerdictInv, Judged, TrueOf
<1>6. CASE VerifierRun
  BY <1>6 DEF VerifierRun, HostGoes, processVars, TruthInv, VerdictInv, Judged
<1>7. CASE HostEnds \/ PowerLoss
  BY <1>7 DEF HostEnds, PowerLoss, NotStarted, VerdictInv, Judged
<1>8. CASE HostStep /\ ~Popen /\ ~Judges
  <2>1. UNCHANGED <<phase, leader, reply>>
    BY <1>8 DEF HostStep, Built, ReadsChunk, Captured, HostCopies, Stored,
         HostRaises, Prechecks, Staged, Postchecks, Reports, Persists, Answers,
         ChecksSource, ChecksInterpreter, ResolvesAgain, processVars
  <2> QED
    BY <1>8, <2>1, HostWeighs
<1>9. CASE \/ Around \/ Drifts \/ Session \/ UNCHANGED vars
           \/ \E i \in Importers : Import(i)
           \/ \E m \in Materializers : Materialize(m)
  <2>1. UNCHANGED <<phase, leader, reply>>
    BY <1>9, AroundSaysNothing DEF Drifts, Session, Import, Materialize, vars, processVars
  <2> QED
    BY <1>1, <1>9, <2>1, OthersLookOn
<1>10. CASE Edits
  BY <1>1, <1>10 DEF Edits, hostVars, processVars
<1> QED
  BY <1>2, <1>3, <1>4, <1>5, <1>6, <1>7, <1>8, <1>9, <1>10 DEF Next

(* At first no receipt is there.                                           *)
LEMMA TruthStart == Init => TruthInv
<1> SUFFICES ASSUME Init PROVE TruthInv
  OBVIOUS
<1>1. PaperInv
  <2>1. /\ DOMAIN seen \subseteq Directories \cup {Entry}
        /\ DOMAIN kept \subseteq Directories \cup {Entry}
    BY DEF Init, Tree
  <2>2. \A p \in Directories \cup {Entry} : Len(p) # 3
    <3>1. \A p \in Directories : Len(p) = 1
      BY DEF Directories, Evidence
    <3> QED
      BY <3>1, Places
  <2>3. \A c \in Callers : copy[c].path = <<>>
    BY DEF Init, StoreInit, Resting
  <2>4. Len(<<>>) # 3
    BY Places
  <2> QED
    BY <2>1, <2>2, <2>3, <2>4 DEF PaperInv, Truth
<1>2. CaptureInv /\ InterpreterInv
  BY DEF Init, CaptureInv, InterpreterInv, Opening, Looked
<1>3. VerdictInv /\ HandInv
  BY DEF Init, ProcessInit, StoreInit, VerdictInv, HandInv, Judged, Resting, Callers
<1> QED
  BY <1>1, <1>2, <1>3 DEF TruthInv

(* What the host has read, run and written stays true.                     *)
THEOREM TruthIsInductive == Spec => [](BackInv /\ TruthInv)
<1>1. BackInv /\ TruthInv /\ [Next]_vars => TruthInv'
  BY PaperStays, CaptureStays, InterpreterStays, VerdictStays, HandStays DEF TruthInv
<1> QED
  BY <1>1, StepBacks, BackStart, TruthStart, PTL DEF Spec

(* AmfVerifierService.verify and persist_verification_receipt: however the *)
(* candidate is edited, whatever drifts, rots, leaks, is killed or loses   *)
(* power meanwhile, a PASS is about bytes that the candidate had and the   *)
(* pinned verifier accepts, a REJECTED about such that it does not.        *)
THEOREM ReceiptsAreTrue == Spec => []ReceiptIsTrue
<1>1. TruthInv => ReceiptIsTrue
  BY DEF TruthInv, PaperInv, Truth, TrueOf, Genuine, ReceiptIsTrue, Receipts
<1> QED
  BY <1>1, TruthIsInductive, PTL

-----------------------------------------------------------------------------
(***************************************************************************)
(* The shape of the state: what is seen is a tree, what is on the device   *)
(* is part of it, and the lock is held by whoever is past it.              *)
(***************************************************************************)

IsPath(path) == \E Names : path \in Seq(Names)

(* A name is in a directory that is there.                                 *)
Nested(paths) ==
  \A path \in paths :
    IsPath(path) /\ \A n \in 1..Len(path) : SubSeq(path, 1, n) \in paths

TreeShaped ==
  /\ Nested(DOMAIN seen) /\ DOMAIN kept \subseteq DOMAIN seen
  /\ \A m \in Materializers : where[m] = "renamed" => Exists(Entry)
  /\ \A c \in Callers : IsPath(copy[c].path)

LockShaped ==
  \/ lock = Nobody
  \/ /\ lock \in Materializers
     /\ where[lock] \in {"building", "staged", "renamed", "auditing"}

HostShaped ==
  /\ host \in Steps /\ verdict \in Statuses \cup {"none"}
  /\ Len(chunks) \in 0..2

-----------------------------------------------------------------------------
(* What the program names are paths.                                       *)
LEMMA ArePaths ==
  /\ \A content : IsPath(Object(content)) /\ IsPath(Receipt(content))
  /\ IsPath(Manifest) /\ IsPath(Entry) /\ IsPath(Ledger) /\ IsPath(<<>>)
  /\ \A name : IsPath(Append(Ledger, name))
<1>1. ASSUME NEW content PROVE IsPath(Object(content)) /\ IsPath(Receipt(content))
  <2>1. /\ Object(content) \in Seq({"objects", "receipts", content})
        /\ Receipt(content) \in Seq({"objects", "receipts", content})
    BY DEF Object, Receipt
  <2> QED
    BY <2>1 DEF IsPath
<1>2. ASSUME NEW name PROVE IsPath(Append(Ledger, name))
  <2> DEFINE Names == {"evidence", "verifier-receipts", name}
  <2>1. Ledger \in Seq(Names) /\ name \in Names
    BY DEF Ledger
  <2>2. Append(Ledger, name) \in Seq(Names)
    <3> HIDE DEF Names
    <3> QED
      BY <2>1, AppendProperties
  <2> QED
    BY <2>2 DEF IsPath
<1>3. IsPath(Manifest) /\ IsPath(Entry) /\ IsPath(Ledger) /\ IsPath(<<>>)
  <2> DEFINE Names == {"imports", "manifest", "cache", "entry", "evidence",
                       "verifier-receipts"}
  <2>1. /\ Manifest \in Seq(Names) /\ Entry \in Seq(Names) /\ Ledger \in Seq(Names)
        /\ <<>> \in Seq(Names)
    BY DEF Manifest, Entry, Ledger
  <2> HIDE DEF Names
  <2> QED
    BY <2>1 DEF IsPath
<1> QED
  BY <1>1, <1>2, <1>3

(* A prefix of a path is a path, and its prefixes are the path's.          *)
LEMMA PathPrefix ==
  ASSUME NEW path, IsPath(path), NEW n \in 1..Len(path)
  PROVE  /\ IsPath(SubSeq(path, 1, n)) /\ Len(SubSeq(path, 1, n)) = n
         /\ \A k \in 1..n : SubSeq(SubSeq(path, 1, n), 1, k) = SubSeq(path, 1, k)
<1>1. PICK Names : path \in Seq(Names)
  BY DEF IsPath
<1>2. Len(path) \in Nat /\ n \in Int /\ n >= 1
  BY <1>1, LenProperties
<1>3. SubSeq(path, 1, n) \in Seq(Names) /\ Len(SubSeq(path, 1, n)) = n
  <2>1. \A i \in 1..n : path[i] \in Names
    BY <1>1, <1>2, ElementOfSeq
  <2> QED
    BY <1>2, <2>1, SubSeqProperties
<1>4. ASSUME NEW k \in 1..n
      PROVE  SubSeq(SubSeq(path, 1, n), 1, k) = SubSeq(path, 1, k)
  <2>1. /\ 1 \in 1..Len(path) /\ n \in 1..Len(path)
        /\ 1 \in 1..(n - 1 + 1) /\ k \in 1..(n - 1 + 1)
        /\ 1 + 1 - 1 = 1 /\ 1 + k - 1 = k
    BY <1>2
  <2>2. SubSeq(SubSeq(path, 1, n), 1, k) = SubSeq(path, 1 + 1 - 1, 1 + k - 1)
    BY <1>1, <2>1, SubSeqOfSubSeq
  <2> QED
    BY <2>1, <2>2
<1> QED
  BY <1>1, <1>3, <1>4 DEF IsPath

(* A name that is made in a directory that is there.                       *)
LEMMA NestedLink ==
  ASSUME NEW paths, Nested(paths), NEW path, IsPath(path),
         Len(path) > 1 => Front(path) \in paths
  PROVE  Nested(paths \cup {path})
<1>1. PICK Names : path \in Seq(Names)
  BY DEF IsPath
<1>2. Len(path) \in Nat /\ SubSeq(path, 1, Len(path)) = path
  BY <1>1, LenProperties, SubSeqFull
<1>3. ASSUME NEW n \in 1..Len(path)
      PROVE  SubSeq(path, 1, n) \in paths \cup {path}
  <2>1. CASE n = Len(path)
    BY <1>2, <2>1
  <2>2. CASE n # Len(path)
    <3>1. Len(path) > 1 /\ Len(path) - 1 \in 1..Len(path) /\ n \in 1..(Len(path) - 1)
      <4>1. \A l \in Nat : \A k \in 1..l :
              k # l => l > 1 /\ l - 1 \in 1..l /\ k \in 1..(l - 1)
        OBVIOUS
      <4> QED
        BY <1>2, <2>2, <4>1, Zenon
    <3>2. /\ Front(path) \in paths /\ Len(Front(path)) = Len(path) - 1
          /\ SubSeq(Front(path), 1, n) = SubSeq(path, 1, n)
      BY <3>1, PathPrefix DEF Front
    <3> QED
      BY <3>1, <3>2 DEF Nested
  <2> QED
    BY <2>1, <2>2
<1> QED
  BY <1>3 DEF Nested

(* What a power loss leaves is a tree again.                               *)
LEMMA NestedReachable ==
  ASSUME NEW paths, \A path \in paths : IsPath(path)
  PROVE  Nested(Reachable(paths))
<1> SUFFICES ASSUME NEW path \in Reachable(paths), NEW n \in 1..Len(path)
             PROVE  SubSeq(path, 1, n) \in Reachable(paths)
  BY DEF Nested, Reachable
<1> DEFINE front == SubSeq(path, 1, n)
<1>1. /\ IsPath(path) /\ \A k \in 1..Len(path) : SubSeq(path, 1, k) \in paths
  BY DEF Reachable
<1>2. /\ Len(front) = n
      /\ \A k \in 1..n : SubSeq(front, 1, k) = SubSeq(path, 1, k)
  BY <1>1, PathPrefix
<1>3. Len(path) \in Nat
  BY <1>1, LenProperties DEF IsPath
<1>4. \A k \in 1..n : k \in 1..Len(path)
  BY <1>3
<1>5. front \in paths
  BY <1>1
<1> HIDE DEF front
<1>6. \A k \in 1..Len(front) : SubSeq(front, 1, k) \in paths
  BY <1>1, <1>2, <1>4
<1> QED
  BY <1>5, <1>6 DEF Reachable, front

(* How the tree can change in a step.                                      *)
LEMMA HowTheTreeMoves ==
  ASSUME [Next]_vars
  PROVE  \/ DOMAIN seen' = DOMAIN seen /\ UNCHANGED kept
         \/ \E path, bytes :
              /\ Link(path, bytes) /\ UNCHANGED kept
              /\ path \in {Entry, Ledger} \cup {copy[c].path : c \in Callers}
         \/ \E dir : SyncDirectory(dir) /\ UNCHANGED seen
         \/ \E m \in Materializers : EntrySynced(m)
         \/ PowerLoss
<1>1. ASSUME NEW c \in Callers, Links(c) \/ Finds(c) \/ Syncs(c) \/ CopyFails(c)
      PROVE  \/ DOMAIN seen' = DOMAIN seen /\ UNCHANGED kept
             \/ \E path, bytes :
                  /\ Link(path, bytes) /\ UNCHANGED kept
                  /\ path \in {Entry, Ledger} \cup {copy[d].path : d \in Callers}
             \/ \E dir : SyncDirectory(dir) /\ UNCHANGED seen
  BY <1>1 DEF Links, Finds, Syncs, CopyFails, treeVars
<1>2. CASE HostStep
  <2>1. CASE HostCopies
    BY <1>1, <2>1 DEF HostCopies, Callers
  <2>2. CASE Persists
    BY <2>2 DEF Persists
  <2> QED
    BY <1>2, <2>1, <2>2
       DEF HostStep, Built, ReadsChunk, Captured, Stored, HostRaises, Prechecks,
           Staged, Popen, Judges, Postchecks, Reports, Answers, ChecksSource,
           ChecksInterpreter, ResolvesAgain, storeVars, treeVars
<1>3. CASE \E i \in Importers : Import(i)
  <2>1. PICK i \in Importers : Import(i)
    BY <1>3
  <2>2. CASE UNCHANGED treeVars
    BY <2>2 DEF treeVars
  <2>3. i \in Callers
    BY DEF Callers
  <2> QED
    BY <1>1, <2>1, <2>2, <2>3
       DEF Import, ImporterStep, ImportCopies, ImportReceipt, ImportGoesOn,
           ImporterDies
<1>4. CASE \E m \in Materializers : Materialize(m)
  <2>1. PICK m \in Materializers : Materialize(m)
    BY <1>4
  <2>2. CASE UNCHANGED treeVars
    BY <2>2 DEF treeVars
  <2>3. CASE Renames(m)
    BY <2>3 DEF Renames
  <2> QED
    BY <2>1, <2>2, <2>3
       DEF Materialize, MaterializerStep, Ensures, Locks, Stages,
           StagingFails, EntrySyncFails, Audits, MaterializerDies
<1>5. CASE Drifts
  BY <1>5 DEF Drifts, treeVars
<1> QED
  BY <1>2, <1>3, <1>4, <1>5
     DEF Next, VerifierRun, Running, HostEnds, Verifies, Around, Edits,
         Session, vars, storeVars, treeVars

-----------------------------------------------------------------------------
(* A tree stays one, and only a power loss takes names away.               *)
LEMMA TreeStaysShaped ==
  ASSUME BackInv, CacheInv, TreeShaped, [Next]_vars
  PROVE  /\ Nested(DOMAIN seen)' /\ DOMAIN kept' \subseteq DOMAIN seen'
         /\ DOMAIN seen \subseteq DOMAIN seen' \/ PowerLoss
<1>1. /\ Nested(DOMAIN seen) /\ DOMAIN kept \subseteq DOMAIN seen
      /\ \A path \in DOMAIN seen : IsPath(path)
  BY DEF TreeShaped, Nested
<1>2. CASE DOMAIN seen' = DOMAIN seen /\ UNCHANGED kept
  BY <1>1, <1>2 DEF Nested
<1>3. ASSUME NEW path, NEW bytes, Link(path, bytes), UNCHANGED kept,
             path \in {Entry, Ledger} \cup {copy[c].path : c \in Callers}
      PROVE  /\ Nested(DOMAIN seen)' /\ DOMAIN kept' \subseteq DOMAIN seen'
             /\ DOMAIN seen \subseteq DOMAIN seen'
  <2>1. IsPath(path)
    <3>1. CASE path \in {Entry, Ledger}
      BY <3>1, ArePaths
    <3>2. CASE path \in {copy[c].path : c \in Callers}
      BY <3>2 DEF TreeShaped
    <3> QED
      BY <1>3, <3>1, <3>2
  <2>2. /\ DOMAIN seen' = DOMAIN seen \cup {path}
        /\ Len(path) > 1 => Front(path) \in DOMAIN seen
    BY <1>3 DEF Link, Exists
  <2>3. Nested(DOMAIN seen \cup {path})
    BY <1>1, <2>1, <2>2, NestedLink
  <2> QED
    BY <1>1, <1>3, <2>2, <2>3 DEF Nested
<1>4. ASSUME NEW dir, SyncDirectory(dir), UNCHANGED seen
      PROVE  Nested(DOMAIN seen)' /\ DOMAIN kept' \subseteq DOMAIN seen'
  BY <1>1, <1>4 DEF SyncDirectory, Children, Nested
<1>5. ASSUME NEW m \in Materializers, EntrySynced(m)
      PROVE  /\ Nested(DOMAIN seen)' /\ DOMAIN kept' \subseteq DOMAIN seen'
             /\ DOMAIN seen' = DOMAIN seen
  <2>1. Entry \in DOMAIN seen
    BY <1>5 DEF EntrySynced, Goes, TreeShaped, Exists
  <2> QED
    BY <1>1, <1>5, <2>1 DEF EntrySynced, Nested
<1>6. ASSUME PowerLoss
      PROVE  Nested(DOMAIN seen)' /\ DOMAIN kept' \subseteq DOMAIN seen'
  <2>1. PICK lucky \in SUBSET DOMAIN seen :
          DOMAIN seen' = Reachable(lucky \cup DOMAIN kept) /\ kept' = seen'
    BY <1>6 DEF PowerLoss, PowerFails
  <2>2. Nested(Reachable(lucky \cup DOMAIN kept))
    BY <1>1, NestedReachable
  <2> QED
    BY <2>1, <2>2 DEF Nested
<1> QED
  BY <1>2, <1>3, <1>4, <1>5, <1>6, HowTheTreeMoves

(* Copies go to paths.                                                     *)
LEMMA CopiesStayShaped ==
  ASSUME BackInv, TreeShaped, [Next]_vars, NEW c \in Callers
  PROVE  IsPath(copy'[c].path)
<1>1. \A path : NoReceipt(path) => IsPath(path)
  BY ArePaths DEF NoReceipt
<1>2. CASE ~Persists
  BY <1>1, <1>2, NothingElseCopied DEF TreeShaped
<1>3. CASE Persists
  <2>1. /\ copy'[Host].path = Append(Ledger, ToString(calls))
        /\ \A d \in Callers \ {Host} : copy'[d] = copy[d]
    BY <1>3 DEF Persists, BackInv, Callers
  <2>2. IsPath(copy'[Host].path)
    BY <2>1, ArePaths
  <2>3. CASE c # Host
    BY <2>1, <2>3 DEF TreeShaped
  <2> QED
    BY <2>2, <2>3
<1> QED
  BY <1>2, <1>3

(* The lock goes with the work done under it.                              *)
LEMMA LockStaysShaped ==
  ASSUME CacheInv, TreeShaped, LockShaped, [Next]_vars,
         DOMAIN seen \subseteq DOMAIN seen' \/ PowerLoss
  PROVE  /\ LockShaped'
         /\ \A m \in Materializers : where'[m] = "renamed" => Exists(Entry)'
<1>1. CASE UNCHANGED <<where, lock>> /\ ~PowerLoss
  BY <1>1 DEF LockShaped, TreeShaped, Exists
<1>2. CASE PowerLoss
  <2>1. lock' = Nobody /\ \A m \in Materializers : where'[m] \in {"absent", "idle"}
    BY <1>2 DEF PowerLoss
  <2> QED
    BY <2>1 DEF LockShaped
<1>3. ASSUME NEW m \in Materializers, Materialize(m), ~PowerLoss
      PROVE  /\ LockShaped'
             /\ \A j \in Materializers : where'[j] = "renamed" => Exists(Entry)'
  <2>1. /\ where' = [where EXCEPT ![m] = where'[m]]
        /\ where'[m] = "renamed" => Renames(m) /\ Exists(Entry)'
        /\ \/ lock' = lock /\ where'[m] \in {"building", "staged", "renamed", "auditing"}
           \/ lock = Nobody /\ lock' = m /\ where'[m] \in {"building", "auditing"}
           \/ lock' = lock /\ where[m] \in {"idle", "waiting"}
           \/ lock' = IF lock = m THEN Nobody ELSE lock
    <3>1. CASE Renames(m)
      BY <1>3, <3>1, GoesTo DEF Renames, Link, Exists, Release
    <3> QED
      BY <1>3, <3>1, GoesTo DEF Materialize, MaterializerStep, Ensures, Locks,
           Stages, StagingFails, EntrySynced, EntrySyncFails, Audits,
           MaterializerDies, Release, CacheInv
  <2>2. \A j \in Materializers \ {m} : where'[j] = where[j]
    BY <2>1 DEF CacheInv
  <2>3. LockShaped'
    BY <2>1, <2>2, CacheAssumption DEF LockShaped
  <2>4. ASSUME NEW j \in Materializers, where'[j] = "renamed" PROVE Exists(Entry)'
    BY <1>3, <2>1, <2>2, <2>4 DEF TreeShaped, Exists
  <2> QED
    BY <2>3, <2>4
<1>4. CASE HostStep
  <2>1. UNCHANGED <<where, lock>>
    BY <1>4 DEF HostStep, Built, ReadsChunk, Captured, HostCopies, Stored,
         HostRaises, Prechecks, Staged, Popen, Judges, Postchecks, Reports,
         Persists, Answers, ChecksSource, ChecksInterpreter, ResolvesAgain, cacheVars
  <2> QED
    BY <1>1, <1>2, <2>1
<1> QED
  BY <1>1, <1>2, <1>3, <1>4
     DEF Next, VerifierRun, Running, HostEnds, Verifies, Around, Edits, Drifts,
         Session, Import, vars, cacheVars

(* The host goes from one of its steps to another.                         *)
LEMMA HostStaysShaped ==
  ASSUME TruthInv, HostShaped, [Next]_vars PROVE HostShaped'
<1>1. CASE UNCHANGED <<host, verdict, chunks>>
  BY <1>1 DEF HostShaped
<1>2. CASE ReadsChunk
  <2>1. /\ UNCHANGED <<host, verdict>> /\ host = "capturing" /\ Len(chunks) < 2
        /\ chunks' = Append(chunks, Candidate(edits)[Len(chunks) + 1])
    BY <1>2 DEF ReadsChunk
  <2>2. CaptureInv'
    BY CaptureStays DEF TruthInv
  <2>3. chunks' \in Seq({"n", "o"}) /\ Len(chunks') <= 2
    BY <2>1, <2>2 DEF CaptureInv
  <2>4. Len(chunks') \in Nat
    BY <2>3, LenProperties
  <2>5. Len(chunks') \in 0..2
    <3>1. \A l \in Nat : l <= 2 => l \in 0..2
      OBVIOUS
    <3> QED
      BY <2>3, <2>4, <3>1, Zenon
  <2> QED
    BY <2>1, <2>5 DEF HostShaped
<1>3. CASE HostEnds \/ PowerLoss
  <2>1. host' = "idle" /\ verdict' = "none" /\ chunks' = <<>> /\ Len(<<>>) = 0
    BY <1>3 DEF HostEnds, PowerLoss, Forgotten
  <2> QED
    BY <2>1 DEF HostShaped, Steps
<1>4. CASE VerifierRun \/ (HostStep /\ ~ReadsChunk)
  <2>1. chunks' = chunks
    BY <1>4 DEF VerifierRun, HostStep, Built, Captured, HostCopies, Stored,
         HostRaises, Prechecks, Staged, Popen, Judges, Postchecks, Reports,
         Persists, Answers, ChecksSource, ChecksInterpreter, ResolvesAgain, hostVars
  <2>2. verdict' \in {verdict, "APPARATUS_ERROR", "PASS", "REJECTED"}
    BY <1>4 DEF VerifierRun, HostStep, Built, Captured, HostCopies, Stored,
         HostRaises, Prechecks, Staged, Popen, Judges, Postchecks, Reports,
         Persists, Answers, ChecksSource, ChecksInterpreter, ResolvesAgain, hostVars
  <2>3. host' \in Steps
    BY <1>4 DEF HostShaped, Steps, VerifierRun, HostStep, Built, Captured,
         HostCopies, Stored, HostRaises, Prechecks, Staged, Popen, Judges,
         Postchecks, Reports, Persists, Answers, ChecksSource,
         ChecksInterpreter, ResolvesAgain, HostGoes, hostVars
  <2> QED
    BY <2>1, <2>2, <2>3 DEF HostShaped, Statuses
<1>5. CASE Edits
  BY <1>1, <1>5 DEF Edits, hostVars
<1> QED
  BY <1>1, <1>2, <1>3, <1>4, <1>5, OthersLookOn DEF Next

-----------------------------------------------------------------------------
(* At first there are directories, and nobody holds the lock.              *)
LEMMA ShapeStart == Init => TreeShaped /\ LockShaped /\ HostShaped
<1> SUFFICES ASSUME Init PROVE TreeShaped /\ LockShaped /\ HostShaped
  OBVIOUS
<1>1. PICK there \in SUBSET {Entry} :
        /\ DOMAIN seen = Directories \cup there
        /\ DOMAIN kept = Directories \cup there
  BY DEF Init, Tree
<1>2. Nested(Directories \cup there)
  <2> DEFINE Names == {"objects", "receipts", "imports", "cache", "evidence"}
  <2>1. ASSUME NEW path \in Directories
        PROVE  IsPath(path) /\ Len(path) = 1 /\ SubSeq(path, 1, 1) = path
    <3>1. path \in Seq(Names) /\ Len(path) = 1
      <4>1. PICK name \in Names : path = <<name>>
        BY DEF Directories, Evidence
      <4> QED
        BY <4>1
    <3>2. SubSeq(path, 1, Len(path)) = path
      <4> HIDE DEF Names
      <4> QED
        BY <3>1, SubSeqFull
    <3> QED
      BY <3>1, <3>2 DEF IsPath
  <2>2. Nested(Directories)
    <3>1. ASSUME NEW path \in Directories, NEW n \in 1..Len(path)
          PROVE  SubSeq(path, 1, n) \in Directories
      <4>0. Len(path) = 1 /\ \A k \in 1..1 : k = 1
        BY <2>1
      <4>1. n = 1
        BY <4>0, Zenon
      <4>2. SubSeq(path, 1, n) = path
        BY <2>1, <4>1, Zenon
      <4> QED
        BY <4>2
    <3> QED
      BY <2>1, <3>1 DEF Nested
  <2>3. CASE there = {}
    BY <2>2, <2>3
  <2>4. CASE there = {Entry}
    <3>1. Front(Entry) = <<"cache">>
      <4>1. Entry \in Seq({"cache", "entry"}) /\ Len(Entry) = 2 /\ Entry[1] = "cache"
        BY DEF Entry
      <4>2. SubSeq(Entry, 1, 1) = <<Entry[1]>> \o SubSeq(Entry, 2, 1)
        BY <4>1, SubSeqRecursiveFirst
      <4>3. SubSeq(Entry, 2, 1) = <<>>
        BY SubSeqEmpty
      <4>4. <<"cache">> \in Seq({"cache"})
        OBVIOUS
      <4>5. <<"cache">> \o <<>> = <<"cache">>
        BY <4>4, ConcatEmptySeq
      <4>6. Len(Entry) - 1 = 1 /\ <<Entry[1]>> = <<"cache">>
        BY <4>1
      <4>7. SubSeq(Entry, 1, 1) = <<"cache">>
        BY <4>2, <4>3, <4>5, <4>6
      <4> QED
        BY <4>6, <4>7 DEF Front
    <3>2. <<"cache">> \in Directories
      BY DEF Directories
    <3> QED
      BY <2>2, <2>4, <3>1, <3>2, ArePaths, NestedLink
  <2> QED
    BY <2>3, <2>4
<1>3. \A c \in Callers : IsPath(copy[c].path)
  BY ArePaths DEF Init, StoreInit, Resting
<1>4. \A m \in Materializers : where[m] # "renamed"
  BY DEF Init, CacheInit
<1>5. LockShaped
  BY DEF Init, CacheInit, LockShaped
<1>6. HostShaped
  <2>1. Len(<<>>) = 0
    OBVIOUS
  <2> QED
    BY <2>1 DEF Init, HostShaped, Steps
<1> QED
  BY <1>1, <1>2, <1>3, <1>4, <1>5, <1>6 DEF TreeShaped

(* What the variables hold: steps and statuses that there are, a tree of   *)
(* which the device has a part, a lock held by whoever works under it.     *)
THEOREM StateIsTyped == Spec => []TypeOK
<1> DEFINE Inv == /\ KitInv /\ CacheInv /\ BackInv /\ TruthInv
                  /\ TreeShaped /\ LockShaped /\ HostShaped
<1>1. Init => Inv
  BY KitStart, CacheStart, BackStart, TruthStart, ShapeStart
<1>2. Inv /\ [Next]_vars => Inv'
  <2> SUFFICES ASSUME Inv, [Next]_vars PROVE Inv'
    OBVIOUS
  <2>1. KitInv' /\ CacheInv' /\ BackInv'
    BY StepKit, StepCache, StepBacks
  <2>2. TruthInv'
    BY PaperStays, CaptureStays, InterpreterStays, VerdictStays, HandStays DEF TruthInv
  <2>3. TreeShaped' /\ LockShaped'
    BY TreeStaysShaped, CopiesStayShaped, LockStaysShaped DEF TreeShaped
  <2>4. HostShaped'
    BY HostStaysShaped
  <2> QED
    BY <2>1, <2>2, <2>3, <2>4
<1>3. Inv => TypeOK
  <2> SUFFICES ASSUME Inv PROVE TypeOK
    OBVIOUS
  <2>1. host \in Steps /\ verdict \in Statuses \cup {"none"}
    BY DEF HostShaped
  <2>2. host # "running" => phase = "none"
    BY DEF TruthInv, VerdictInv
  <2>3. DOMAIN kept \subseteq DOMAIN seen /\ Reachable(DOMAIN seen) = DOMAIN seen
    BY DEF TreeShaped, Nested, Reachable
  <2>4. /\ lock = Nobody \/ where[lock] \in {"building", "staged", "renamed", "auditing"}
        /\ \A m \in Materializers :
             where[m] \in {"building", "staged", "renamed"} => lock = m
    BY DEF LockShaped, CacheInv, PlaceHolds
  <2>5. Len(chunks) <= 2 /\ (host = "idle" => chunks = <<>>)
    <3>1. Len(chunks) \in 0..2
      BY DEF HostShaped
    <3>2. \A l \in 0..2 : l <= 2
      OBVIOUS
    <3>3. host = "idle" => chunks = <<>>
      BY DEF TruthInv, CaptureInv
    <3> QED
      BY <3>1, <3>2, <3>3, Zenon
  <2>6. \A o \in DOMAIN ledger : ledger[o].by \in Kits
    BY DEF KitInv, EntryHolds
  <2> QED
    BY <2>1, <2>2, <2>3, <2>4, <2>5, <2>6 DEF TypeOK
<1> QED
  BY <1>1, <1>2, <1>3, PTL DEF Spec
==============================================================================
