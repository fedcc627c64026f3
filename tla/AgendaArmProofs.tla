--------------------------- MODULE AgendaArmProofs ---------------------------
(***************************************************************************)
(* For any sessions, roles, tasks, dependencies, leases, earlier world and *)
(* faults: the arm's worklist is WorklistContract's.                       *)
(***************************************************************************)
EXTENDS AgendaArmProps, SequenceTheorems, FiniteSetTheorems, TLAPS

(* What a session of this launch may add to the world.                     *)
OwnTask    == [kind : {"task"}, by : Launch, on : Tasks]
OwnClaim   == [kind : {"claim"}, by : Launch, on : Tasks, ticks : Leases, text : Texts]
OwnRelease == [kind : {"release"}, by : Launch, on : Tasks, claim : Nat]
OwnOutcome == [kind : {"outcome"}, by : Launch, on : Tasks, claim : Nat,
               disposition : {"COMPLETED", "BLOCKED"}]
OwnSpeech  == [kind : {"plain", "opaque"}, by : Launch, text : Texts]
Own   == OwnTask \cup OwnClaim \cup OwnRelease \cup OwnOutcome \cup OwnSpeech
Entry == Base \cup Own

Publishing(s) == stage[s] \in {"reviewed", "admitted"}

ArmTyped ==
  /\ world \in Seq(Entry) /\ entries \in Seq(Entry)
  /\ lock \in Launch \cup {Free}
  /\ offer \in [Launch -> Own \cup {NoOffer}]
  /\ stage \in [Launch -> {"open", "reviewed", "admitted", "failed", "settled"}]
  /\ released \in [Launch -> SUBSET Nat]

(* Both sequences begin with the world as it was at launch.                *)
BaseFirst(q) ==
  /\ Len(q) >= BaseTick
  /\ \A i \in DOMAIN q : q[i] \in IF i <= BaseTick THEN Base ELSE Own

(* The lock is held by the session whose contribution is under way.        *)
LockInv == \A s \in Launch : Publishing(s) <=> lock = s

(* A reviewed contribution: what the review saw of it is still so, because *)
(* nobody else can add to the ledger and settled sessions stay settled.    *)
Fit(s, c) ==
  /\ c \in Own /\ c.by = s
  /\ c.kind = "task" => s \in Admitters /\ Author[c.on] = s
  /\ c.kind = "claim" => ClaimAccepted(c.on)
  /\ c.kind = "release" => HeldBy(s, c.on, c.claim)
  /\ c.kind = "outcome" => OutcomeAccepted(s, c.on, c.claim)

OfferInv == \A s \in Launch : Publishing(s) => Fit(s, offer[s])

(* What the ledger's own entries were reviewed against stays so too.       *)
Earned(i) ==
  /\ entries[i].kind = "claim" =>
       /\ entries[i].on \in Worklist
       /\ \A u \in Depends[entries[i].on] : Completed(u)
  /\ entries[i].kind \in {"release", "outcome"} => InCustody(i)

EarnedInv == \A i \in Refs : i > BaseTick => Earned(i)

(* One live lease of a task, and none of a completed one.                  *)
ExclusiveInv ==
  \A t \in Tasks :
    /\ \A i, j \in LiveLeases(t) : i = j
    /\ Completed(t) => LiveLeases(t) = {}

ArmInv ==
  /\ ArmTyped /\ BaseFirst(world) /\ BaseFirst(entries)
  /\ LockInv /\ OfferInv /\ EarnedInv /\ ExclusiveInv

(* A record the world has and the ledger has not: its author is publishing *)
(* it, or has failed to.                                                   *)
InFlight(s) ==
  stage[s] = "admitted" /\ \A i \in Refs : entries[i] # offer[s]

Seen(r) ==
  LET s == r.by IN
  \/ \E i \in Refs : entries[i] = r
  \/ stage[s] \in {"failed", "settled"}
  \/ stage[s] = "admitted" /\ offer[s] = r

(* As many records follow one in the world as follow it in the ledger, one *)
(* more while another is in flight.                                        *)
ClockInv ==
  /\ \A w \in DOMAIN world : w > BaseTick => Seen(world[w])
  /\ \A i \in Refs : i > BaseTick => \E w \in DOMAIN world : world[w] = entries[i]
  /\ \A s \in Launch :
       stage[s] = "admitted" => \E w \in DOMAIN world : world[w] = offer[s]
  /\ Len(world) >= Len(entries)
  /\ \A s \in Launch : InFlight(s) => Len(world) > Len(entries)
  /\ \A i \in Refs, w \in DOMAIN world :
       i > BaseTick /\ world[w] = entries[i] =>
         /\ Len(world) - w >= Len(entries) - i
         /\ \A s \in Launch : InFlight(s) => Len(world) - w > Len(entries) - i

-----------------------------------------------------------------------------
(* What the lemmas are about: a ledger that begins with the world at       *)
(* launch, whose own entries were earned.                                  *)
Ledger == ArmTyped /\ BaseFirst(entries) /\ EarnedInv

(* A sequence of entries is a function on 1..n.                            *)
LEMMA EntriesShape ==
  ASSUME NEW q \in Seq(Entry)
  PROVE  /\ Len(q) \in Nat /\ DOMAIN q = 1..Len(q)
         /\ \A i \in DOMAIN q : q[i] \in Entry
BY LenProperties, ElementOfSeq

(* The base has a size.                                                    *)
LEMMA BaseTickIsNat == BaseTick \in Nat
BY RulesAssumption, FS_CardinalityType DEF BaseTick

(* A record of this launch is none of the world at launch.                 *)
LEMMA Apart ==
  /\ \A r \in Base : r.by \in Others /\ r.by \notin Launch
  /\ \A r \in Own : r.by \in Launch /\ r.by \notin Others
  /\ \A r \in Base, c \in Own : r # c
<1>1. \A r \in Base : r.by \in Others /\ r.by \notin Launch
  BY BaseAssumption, PartiesAssumption
<1>2. \A r \in Own : r.by \in Launch /\ r.by \notin Others
  BY PartiesAssumption DEF Own, OwnTask, OwnClaim, OwnRelease, OwnOutcome, OwnSpeech
<1> QED BY <1>1, <1>2

(* A claim asks for some ticks; tasks, claims and closings are about tasks. *)
LEMMA ClaimShape ==
  ASSUME NEW r \in Entry
  PROVE  /\ r.kind = "claim" => r.ticks \in Nat \ {0}
         /\ r.kind \in {"task", "claim", "release", "outcome"} => r.on \in Tasks
<1>1. CASE r \in Base BY <1>1, BaseAssumption
<1>2. CASE r \in Own
  BY <1>2, RulesAssumption
  DEF Own, OwnTask, OwnClaim, OwnRelease, OwnOutcome, OwnSpeech
<1> QED BY <1>1, <1>2 DEF Entry

(* An entry of one of this launch's sessions is one of its own entries.    *)
LEMMA OwnEntry ==
  ASSUME Ledger, NEW i \in Refs, entries[i].by \in Launch
  PROVE  i > BaseTick /\ entries[i] \in Own /\ Earned(i)
<1>1. i \in Int /\ BaseTick \in Int
  BY EntriesShape, BaseTickIsNat DEF Ledger, ArmTyped, Refs
<1>2. entries[i] \notin Base BY Apart
<1>3. i > BaseTick BY <1>1, <1>2 DEF Ledger, BaseFirst, Refs
<1> QED BY <1>1, <1>3 DEF Ledger, BaseFirst, EarnedInv, Refs

(* A step that leaves the ledger alone leaves its readings alone.          *)
LEMMA SameLedger ==
  ASSUME entries' = entries
  PROVE  /\ Worklist' = Worklist /\ Refs' = Refs /\ NowTick' = NowTick
         /\ \A i : IsClaim(i)' <=> IsClaim(i)
         /\ \A i : Closed(i)' <=> Closed(i)
         /\ \A i : Expired(i)' <=> Expired(i)
         /\ \A t : Blocking(t)' = Blocking(t)
         /\ \A t : CompletedAt(t)' = CompletedAt(t)
         /\ \A t : Completed(t)' <=> Completed(t)
         /\ \A i : InCustody(i)' <=> InCustody(i)
BY DEF Worklist, Refs, NowTick, IsClaim, Closed, Expired, Tick, Blocking, CompletedAt,
       Completed, InCustody

-----------------------------------------------------------------------------
(* An observation: the ledger gets one more entry, of this launch. *)
Grows(c) == c \in Own /\ entries' = Append(entries, c)

(* Nothing else about the sequence changes.                                *)
LEMMA GrownRefs ==
  ASSUME Ledger, NEW c, Grows(c)
  PROVE  /\ Len(entries) \in Nat /\ Refs = 1..Len(entries)
         /\ entries' \in Seq(Entry) /\ Len(entries') = Len(entries) + 1
         /\ Refs' = 1..(Len(entries) + 1)
         /\ NowTick' = NowTick + 1
         /\ \A i \in Refs : entries'[i] = entries[i]
         /\ entries'[Len(entries) + 1] = c
<1>1. c \in Entry BY DEF Grows, Entry
<1>2. entries \in Seq(Entry) BY DEF Ledger, ArmTyped
<1>3. /\ entries' \in Seq(Entry) /\ Len(entries') = Len(entries) + 1
      /\ \A i \in 1..Len(entries) : entries'[i] = entries[i]
      /\ entries'[Len(entries) + 1] = c
  BY <1>1, <1>2, AppendProperties DEF Grows
<1>4. DOMAIN entries = 1..Len(entries) /\ DOMAIN entries' = 1..Len(entries')
      /\ Len(entries) \in Nat
  BY <1>2, <1>3, EntriesShape
<1> QED BY <1>3, <1>4 DEF Refs, NowTick

(* Tasks are added; who claims what is known of the old entries.           *)
LEMMA GrownClaims ==
  ASSUME Ledger, NEW c, Grows(c)
  PROVE  /\ Worklist \subseteq Worklist'
         /\ \A t \in Worklist' : t \in Worklist \/ (c.kind = "task" /\ c.on = t)
         /\ \A i \in Refs : IsClaim(i)' <=> IsClaim(i)
<1>1. \A i \in Refs : i \in Refs' /\ entries'[i] = entries[i]
  BY GrownRefs
<1>2. \A i \in Refs' : i \in Refs \/ entries'[i] = c
  BY GrownRefs
<1>3. Worklist \subseteq Worklist' BY <1>1 DEF Worklist
<1>4. \A t \in Worklist' : t \in Worklist \/ (c.kind = "task" /\ c.on = t)
  BY <1>1, <1>2 DEF Worklist
<1>5. \A i \in Refs : IsClaim(i)' <=> IsClaim(i)
  BY <1>1 DEF IsClaim
<1> QED BY <1>3, <1>4, <1>5

(* No old closing record is about the new entry: it would have been        *)
(* reviewed before there was a claim, or its author is not the claimant.   *)
LEMMA GrownCustody ==
  ASSUME Ledger, NEW c, Grows(c), NEW j \in Refs,
         entries[j].kind \in {"release", "outcome"}
  PROVE  /\ InCustody(j)' <=> InCustody(j)
         /\ entries[j].claim = Len(entries) + 1 => ~InCustody(j)'
<1>1. /\ \A i \in Refs : i \in Refs' /\ entries'[i] = entries[i]
      /\ \A i \in Refs' : i \in Refs \/ i = Len(entries) + 1
      /\ Len(entries) + 1 \notin Refs /\ entries'[Len(entries) + 1] = c
  BY GrownRefs
<1>2. \A i \in Refs : IsClaim(i)' <=> IsClaim(i)
  BY GrownClaims
<1> DEFINE i == entries[j].claim
<1>3. entries'[j].claim = i /\ entries'[j].by = entries[j].by /\ entries'[j].on = entries[j].on
  BY <1>1
<1>4. CASE i \in Refs
  <2>1. entries'[i] = entries[i] /\ i # Len(entries) + 1 BY <1>1, <1>4
  <2> QED BY <1>2, <1>3, <1>4, <2>1 DEF InCustody
<1>5. CASE i \notin Refs
  <2>1. ~InCustody(j) BY <1>5 DEF InCustody, IsClaim
  <2>2. entries[j].by \notin Launch
    BY <2>1, OwnEntry DEF Earned
  <2>3. c.by \in Launch BY Apart DEF Grows
  <2>4. ~InCustody(j)'
    BY <1>1, <1>3, <1>5, <2>2, <2>3 DEF InCustody, IsClaim
  <2> QED BY <2>1, <2>4
<1> QED BY <1>4, <1>5

(* What is closed stays closed, what has lapsed stays lapsed.              *)
LEMMA GrownEnds ==
  ASSUME Ledger, NEW c, Grows(c), NEW i \in Refs, IsClaim(i)
  PROVE  /\ Closed(i) => Closed(i)'
         /\ Expired(i) => Expired(i)'
<1>1. \A j \in Refs : j \in Refs' /\ entries'[j] = entries[j]
  BY GrownRefs
<1>2. Closed(i) => Closed(i)'
  BY <1>1, GrownCustody DEF Closed
<1>3. Expired(i) => Expired(i)'
  <2>1. entries[i].ticks \in Nat
    BY ClaimShape, EntriesShape DEF IsClaim, Ledger, ArmTyped, Refs
  <2>2. Tick(i) \in Int
    BY GrownRefs, BaseTickIsNat DEF Tick
  <2>3. NowTick \in Int /\ NowTick' = NowTick + 1
    BY GrownRefs DEF NowTick
  <2>4. entries'[i].ticks = entries[i].ticks /\ Tick(i)' = Tick(i)
    BY <1>1 DEF Tick, BaseTick
  <2> QED BY <2>1, <2>2, <2>3, <2>4 DEF Expired
<1> QED BY <1>2, <1>3

(* What is completed stays completed; only an outcome completes.           *)
LEMMA GrownCompleted ==
  ASSUME Ledger, NEW c, Grows(c), c.kind = "task" => Author[c.on] = c.by,
         NEW t \in Tasks
  PROVE  /\ CompletedAt(t) \subseteq CompletedAt(t)'
         /\ \A j \in CompletedAt(t)' :
              \/ j \in CompletedAt(t)
              \/ /\ j = Len(entries) + 1
                 /\ c.kind = "outcome" /\ c.on = t /\ c.disposition = "COMPLETED"
<1>1. /\ \A j \in Refs : j \in Refs' /\ entries'[j] = entries[j]
      /\ \A j \in Refs' : j \in Refs \/ (j = Len(entries) + 1 /\ entries'[j] = c)
  BY GrownRefs
<1>2. CompletedAt(t) \subseteq CompletedAt(t)'
  BY <1>1, GrownClaims, GrownCustody DEF CompletedAt
<1>3. ASSUME NEW j \in CompletedAt(t)', j \in Refs PROVE j \in CompletedAt(t)
  <2>1. /\ entries[j].kind = "outcome" /\ entries[j].on = t
        /\ entries[j].disposition = "COMPLETED" /\ InCustody(j) /\ t \in Worklist'
    BY <1>1, <1>3, GrownCustody DEF CompletedAt
  <2>2. t \in Worklist
    <3>1. CASE entries[j].by \in Launch
      <4> DEFINE i == entries[j].claim
      <4>1. /\ i \in Refs /\ entries[i].kind = "claim" /\ entries[i].by \in Launch
            /\ entries[i].on = t
        BY <2>1, <3>1 DEF InCustody, IsClaim
      <4> HIDE DEF i
      <4> QED BY <4>1, OwnEntry DEF Earned
    <3>2. CASE entries[j].by \notin Launch
      <4>1. entries[j] \in Base
        BY <1>3, <3>2, Apart, EntriesShape DEF Entry, Ledger, ArmTyped, Refs
      <4>2. Author[t] \in Others
        BY <2>1, <4>1, BaseAssumption
      <4>3. c.by \in Launch BY Apart DEF Grows
      <4> QED BY <2>1, <4>2, <4>3, PartiesAssumption, GrownClaims
    <3> QED BY <3>1, <3>2
  <2> QED BY <2>1, <2>2, <1>3 DEF CompletedAt
<1>4. ASSUME NEW j \in CompletedAt(t)', j \notin Refs
      PROVE  /\ j = Len(entries) + 1
             /\ c.kind = "outcome" /\ c.on = t /\ c.disposition = "COMPLETED"
  BY <1>1, <1>4 DEF CompletedAt
<1> QED BY <1>2, <1>3, <1>4

(* Live leases lapse; only a claim makes one.                              *)
LEMMA GrownLive ==
  ASSUME Ledger, NEW c, Grows(c), NEW t \in Tasks,
         \A r \in Launch : Able(r)' => Able(r)
  PROVE  \A i \in LiveLeases(t)' :
           \/ i \in LiveLeases(t) /\ i \in Refs
           \/ i = Len(entries) + 1 /\ c.kind = "claim" /\ c.on = t
<1> SUFFICES ASSUME NEW i \in LiveLeases(t)'
             PROVE  \/ i \in LiveLeases(t) /\ i \in Refs
                    \/ i = Len(entries) + 1 /\ c.kind = "claim" /\ c.on = t
  OBVIOUS
<1>1. /\ \A j \in Refs : j \in Refs' /\ entries'[j] = entries[j]
      /\ \A j \in Refs' : j \in Refs \/ (j = Len(entries) + 1 /\ entries'[j] = c)
  BY GrownRefs
<1>2. /\ i \in Refs' /\ IsClaim(i)' /\ entries'[i].on = t /\ ~Closed(i)' /\ ~Expired(i)'
      /\ Able(entries[i].by)'
  BY DEF LiveLeases, Blocking
<1>3. CASE i \in Refs
  <2>1. /\ entries'[i] = entries[i] /\ IsClaim(i) /\ entries[i].on = t
        /\ entries[i].by \in Launch /\ Able(entries[i].by)
    BY <1>1, <1>2, <1>3, GrownClaims DEF Able
  <2>2. ~Closed(i) /\ ~Expired(i)
    BY <1>2, <1>3, <2>1, GrownEnds
  <2>3. t \in Worklist
    BY <1>3, <2>1, OwnEntry DEF Earned, IsClaim
  <2> QED BY <1>3, <2>1, <2>2, <2>3 DEF LiveLeases, Blocking
<1>4. CASE i \notin Refs
  BY <1>1, <1>2, <1>4 DEF IsClaim
<1> QED BY <1>3, <1>4

(* A new claim of a known task by a session that can act is a live lease.  *)
LEMMA GrownGrant ==
  ASSUME Ledger, NEW c, Grows(c), c.kind = "claim", c.on \in Worklist, Able(c.by)'
  PROVE  Len(entries) + 1 \in LiveLeases(c.on)'
<1>0. PICK n \in Nat : n = Len(entries) + 1
  BY GrownRefs
<1>1. /\ n \in Refs' /\ entries'[n] = c /\ n \in Nat /\ n > Len(entries)
      /\ Len(entries') = n /\ Len(entries) \in Nat
      /\ \A j \in Refs : entries'[j] = entries[j]
      /\ \A j \in Refs' : j \in Refs \/ j = n
  BY <1>0, GrownRefs
<1>2. c.on \in Worklist' BY GrownClaims
<1>3. IsClaim(n)' BY <1>1 DEF IsClaim
<1>4. ~Closed(n)'
  <2> SUFFICES ASSUME NEW j \in Refs', entries'[j].kind \in {"release", "outcome"},
                      entries'[j].claim = n, InCustody(j)'
               PROVE  FALSE
    BY DEF Closed
  <2>1. j \in Refs /\ entries'[j] = entries[j] BY <1>1
  <2> QED BY <1>0, <2>1, GrownCustody
<1>5. ~Expired(n)'
  <2>1. n > BaseTick
    BY <1>1, BaseTickIsNat DEF Ledger, BaseFirst
  <2>2. Tick(n)' = n
    BY <1>1, <2>1, BaseTickIsNat DEF Tick, BaseTick
  <2>3. c.ticks \in Nat \ {0}
    BY ClaimShape DEF Grows, Entry
  <2> QED BY <1>1, <2>2, <2>3 DEF Expired, NowTick
<1> QED BY <1>0, <1>1, <1>2, <1>3, <1>4, <1>5 DEF LiveLeases, Blocking

(* What was fit when it was reviewed has been earned when it is observed.  *)
LEMMA GrownEarned ==
  ASSUME Ledger, NEW s \in Launch, NEW c, Fit(s, c), Grows(c)
  PROVE  EarnedInv' /\ BaseFirst(entries)'
<1>1. /\ \A j \in Refs : j \in Refs' /\ entries'[j] = entries[j]
      /\ \A j \in Refs' : j \in Refs \/ (j = Len(entries) + 1 /\ entries'[j] = c)
      /\ Len(entries) \in Nat /\ Len(entries') = Len(entries) + 1
  BY GrownRefs
<1>2. \A u \in Tasks : Completed(u) => Completed(u)'
  BY GrownCompleted DEF Fit, Completed
<1>3. \A t \in Tasks : Depends[t] \subseteq Tasks
  BY RulesAssumption
<1>4. ASSUME NEW i \in Refs, i > BaseTick PROVE Earned(i)'
  <2>1. Earned(i) BY <1>4 DEF Ledger, EarnedInv
  <2>2. entries'[i] = entries[i] /\ entries[i] \in Entry
    BY <1>1, EntriesShape DEF Ledger, ArmTyped, Refs
  <2>3. CASE entries[i].kind = "claim"
    BY <1>2, <1>3, <2>1, <2>2, <2>3, ClaimShape, GrownClaims DEF Earned
  <2>4. CASE entries[i].kind \in {"release", "outcome"}
    BY <2>1, <2>2, <2>4, GrownCustody DEF Earned
  <2> QED BY <2>2, <2>3, <2>4 DEF Earned
<1>5. PICK n \in Nat : n = Len(entries) + 1
  BY <1>1
<1>8. Earned(n)'
  <2>1. entries'[n] = c BY <1>5, GrownRefs
  <2>2. CASE c.kind = "claim"
    <3>1. c.on \in Worklist /\ \A u \in Depends[c.on] : Completed(u)
      BY <2>2 DEF Fit, ClaimAccepted
    <3>2. c.on \in Tasks BY <2>2, ClaimShape DEF Fit, Entry
    <3> QED BY <1>2, <1>3, <2>1, <2>2, <3>1, <3>2, GrownClaims DEF Earned
  <2>3. CASE c.kind \in {"release", "outcome"}
    <3>1. HeldBy(s, c.on, c.claim) BY <2>3 DEF Fit, OutcomeAccepted
    <3>6. PICK i : i = c.claim
      OBVIOUS
    <3>2. i \in Refs /\ IsClaim(i) /\ entries[i].by = s /\ entries[i].on = c.on
      BY <3>1, <3>6 DEF HeldBy, IsClaim
    <3>3. IsClaim(i)' /\ entries'[i] = entries[i] BY <1>1, <3>2, GrownClaims
    <3>4. c.by = s BY DEF Fit
    <3>5. InCustody(n)' BY <2>1, <3>2, <3>3, <3>4, <3>6 DEF InCustody
    <3> QED BY <2>1, <2>3, <3>5 DEF Earned
  <2> QED BY <2>1, <2>2, <2>3 DEF Earned
<1>6. EarnedInv'
  BY <1>1, <1>4, <1>5, <1>8 DEF EarnedInv, BaseTick
<1>7. BaseFirst(entries)'
  <2>1. Len(entries') >= BaseTick'
    BY <1>1, BaseTickIsNat DEF Ledger, BaseFirst, BaseTick
  <2>2. ASSUME NEW i \in DOMAIN entries'
        PROVE  entries'[i] \in IF i <= BaseTick THEN Base ELSE Own
    <3>1. CASE i \in Refs BY <1>1, <3>1 DEF Ledger, BaseFirst, Refs
    <3>2. CASE i \notin Refs
      <4>1. i = Len(entries) + 1 /\ entries'[i] = c BY <1>1, <2>2, <3>2 DEF Refs
      <4>2. ~(i <= BaseTick)
        BY <1>1, <4>1, BaseTickIsNat DEF Ledger, BaseFirst
      <4> QED BY <4>1, <4>2 DEF Fit
    <3> QED BY <3>1, <3>2
  <2> QED BY <2>1, <2>2 DEF BaseFirst, BaseTick
<1> QED BY <1>6, <1>7

-----------------------------------------------------------------------------
(* Reviews. *)

(* What the arm admits is fit to be observed (review, then publish).       *)
LEMMA AdmissibleIsFit ==
  ASSUME ArmTyped, NEW s \in Launch, NEW c \in Admissible(s)
  PROVE  Fit(s, c)
<1>0. Refs \subseteq Nat /\ \A i \in Refs : entries[i] \in Entry
  BY EntriesShape DEF ArmTyped, Refs
<1>1. CASE c \in {Task(t) : t \in {u \in Tasks : /\ Author[u] = s /\ s \in Admitters
                                                 /\ Depends[u] \subseteq Worklist}}
  <2>1. PICK t \in Tasks : Author[t] = s /\ s \in Admitters /\ c = Task(t)
    BY <1>1
  <2>2. c = [kind |-> "task", by |-> s, on |-> t] BY <2>1 DEF Task
  <2>3. c \in OwnTask BY <2>2 DEF OwnTask
  <2> QED BY <2>1, <2>2, <2>3 DEF Fit, Own
<1>2. CASE c \in {Claim(s, t, k, n) : t \in {u \in Tasks : ClaimAccepted(u)},
                                      k \in Leases, n \in Texts}
  <2>1. PICK t \in Tasks, k \in Leases, n \in Texts :
             ClaimAccepted(t) /\ c = Claim(s, t, k, n)
    BY <1>2
  <2>2. c = [kind |-> "claim", by |-> s, on |-> t, ticks |-> k, text |-> n]
    BY <2>1 DEF Claim
  <2>3. c \in OwnClaim BY <2>2 DEF OwnClaim
  <2> QED BY <2>1, <2>2, <2>3 DEF Fit, Own
<1>3. CASE c \in {Release(s, entries[i].on, i) :
                    i \in {j \in Refs : /\ IsClaim(j) /\ HeldBy(s, entries[j].on, j)
                                        /\ ~Closed(j)}}
  <2>1. PICK i \in Refs : /\ IsClaim(i) /\ HeldBy(s, entries[i].on, i)
                          /\ c = Release(s, entries[i].on, i)
    BY <1>3
  <2>2. PICK t \in Tasks : t = entries[i].on
    BY <1>0, <2>1, ClaimShape DEF IsClaim
  <2>3. c = [kind |-> "release", by |-> s, on |-> t, claim |-> i]
    BY <2>1, <2>2 DEF Release
  <2>4. c \in OwnRelease BY <1>0, <2>3 DEF OwnRelease
  <2> QED BY <2>1, <2>2, <2>3, <2>4 DEF Fit, Own
<1>4. CASE c \in {Outcome(s, entries[i].on, i, d) :
                    i \in {j \in Refs : /\ IsClaim(j)
                                        /\ OutcomeAccepted(s, entries[j].on, j)},
                    d \in {"COMPLETED", "BLOCKED"}}
  <2>1. PICK i \in Refs, d \in {"COMPLETED", "BLOCKED"} :
             /\ IsClaim(i) /\ OutcomeAccepted(s, entries[i].on, i)
             /\ c = Outcome(s, entries[i].on, i, d)
    BY <1>4
  <2>2. PICK t \in Tasks : t = entries[i].on
    BY <1>0, <2>1, ClaimShape DEF IsClaim
  <2>3. c = [kind |-> "outcome", by |-> s, on |-> t, claim |-> i, disposition |-> d]
    BY <2>1, <2>2 DEF Outcome
  <2>4. c \in OwnOutcome BY <1>0, <2>3 DEF OwnOutcome
  <2> QED BY <2>1, <2>2, <2>3, <2>4 DEF Fit, Own
<1>5. CASE c \in {Plain(s, n) : n \in Texts}
  <2>1. PICK n \in Texts : c = [kind |-> "plain", by |-> s, text |-> n]
    BY <1>5 DEF Plain
  <2>2. c \in OwnSpeech BY <2>1 DEF OwnSpeech
  <2> QED BY <2>1, <2>2 DEF Fit, Own
<1> QED BY <1>1, <1>2, <1>3, <1>4, <1>5 DEF Admissible

(* So is something else that a drifted publisher admits.                   *)
LEMMA OpaqueIsFit ==
  ASSUME NEW s \in Launch, NEW n \in Texts
  PROVE  Fit(s, Opaque(s, n))
<1>1. Opaque(s, n) = [kind |-> "opaque", by |-> s, text |-> n] BY DEF Opaque
<1>2. Opaque(s, n) \in OwnSpeech BY <1>1 DEF OwnSpeech
<1> QED BY <1>1, <1>2 DEF Fit, Own

(* A review stays valid while the ledger stands still.                     *)
LEMMA FitStays ==
  ASSUME entries' = entries,
         \A r \in Launch : stage[r] = "settled" => stage'[r] = "settled",
         NEW s, NEW c, Fit(s, c)
  PROVE  Fit(s, c)'
<1>1. \A r : HolderIsReleased(r) => HolderIsReleased(r)'
  BY DEF HolderIsReleased
<1>2. \A t : ClaimAccepted(t) => ClaimAccepted(t)'
  BY <1>1, SameLedger DEF ClaimAccepted
<1>3. \A t, i : HeldBy(s, t, i) => HeldBy(s, t, i)'
  BY SameLedger DEF HeldBy
<1>4. \A t, i : OutcomeAccepted(s, t, i) => OutcomeAccepted(s, t, i)'
  BY <1>3, SameLedger DEF OutcomeAccepted
<1> QED BY <1>2, <1>3, <1>4 DEF Fit

(* An acceptable claim finds nobody who could still act on the task.       *)
LEMMA FitClaim ==
  ASSUME NEW s, NEW c, Fit(s, c), c.kind = "claim"
  PROVE  LiveLeases(c.on) = {} /\ ~Completed(c.on) /\ c.on \in Worklist
BY DEF Fit, ClaimAccepted, LiveLeases, HolderIsReleased, Able

(* An acceptable outcome is of a live lease of its author's.               *)
LEMMA FitOutcome ==
  ASSUME NEW s, NEW c, Fit(s, c), c.kind = "outcome", Able(s)
  PROVE  c.claim \in LiveLeases(c.on) /\ entries[c.claim].by = s
BY DEF Fit, OutcomeAccepted, HeldBy, LiveLeases, Blocking, IsClaim

(* Its observation closes that lease.                                      *)
LEMMA OutcomeCloses ==
  ASSUME Ledger, NEW s \in Launch, NEW c, Fit(s, c), Grows(c), c.kind = "outcome",
         NEW i, i = c.claim
  PROVE  Closed(i)'
<1>1. PICK n \in Nat : n = Len(entries) + 1 BY GrownRefs
<1>2. n \in Refs' /\ entries'[n] = c /\ n > BaseTick
  BY <1>1, GrownRefs, BaseTickIsNat DEF Ledger, BaseFirst
<1>3. InCustody(n)'
  BY <1>2, GrownEarned DEF EarnedInv, Earned, BaseTick
<1> QED BY <1>2, <1>3 DEF Closed

-----------------------------------------------------------------------------
(* Steps. *)

(* A step that leaves the ledger alone makes no lease and nobody able.     *)
LEMMA QuietStep ==
  ASSUME ArmInv, entries' = entries, \A r \in Launch : Able(r)' => Able(r)
  PROVE  /\ BaseFirst(entries)' /\ EarnedInv' /\ ExclusiveInv'
         /\ \A t : LiveLeases(t)' \subseteq LiveLeases(t)
<1>1. BaseFirst(entries)' BY DEF ArmInv, BaseFirst, BaseTick
<1>2. \A i : Earned(i)' <=> Earned(i)
  BY SameLedger DEF Earned
<1>3. EarnedInv' BY <1>2, SameLedger DEF ArmInv, EarnedInv, BaseTick
<1>4. \A t : LiveLeases(t)' \subseteq LiveLeases(t)
  BY SameLedger DEF LiveLeases, Able
<1>5. ExclusiveInv' BY <1>4, SameLedger DEF ArmInv, ExclusiveInv
<1> QED BY <1>1, <1>3, <1>4, <1>5

(* An observation keeps leases exclusive: a claim finds no live lease, an  *)
(* outcome ends its own.                                                   *)
LEMMA GrownExclusive ==
  ASSUME ArmInv, NEW s \in Launch, NEW c, Fit(s, c), Grows(c), Able(s),
         \A r \in Launch : Able(r)' => Able(r)
  PROVE  ExclusiveInv'
<1>0. Ledger BY DEF ArmInv, Ledger
<1>1. c.kind = "task" => Author[c.on] = c.by BY DEF Fit
<1> SUFFICES ASSUME NEW t \in Tasks
             PROVE  /\ \A i, j \in LiveLeases(t)' : i = j
                    /\ Completed(t)' => LiveLeases(t)' = {}
  BY DEF ExclusiveInv
<1>2. CASE c.kind = "claim" /\ c.on = t
  <2>1. LiveLeases(t) = {} /\ ~Completed(t) BY <1>2, FitClaim
  <2>2. \A i \in LiveLeases(t)' : i = Len(entries) + 1
    BY <1>0, <2>1, GrownLive
  <2>3. ~Completed(t)'
    BY <1>0, <1>1, <1>2, <2>1, GrownCompleted DEF Completed
  <2> QED BY <2>2, <2>3
<1>3. CASE ~(c.kind = "claim" /\ c.on = t)
  <2>1. LiveLeases(t)' \subseteq LiveLeases(t) BY <1>0, <1>3, GrownLive
  <2>2. \A i, j \in LiveLeases(t) : i = j BY DEF ArmInv, ExclusiveInv
  <2>3. ASSUME Completed(t)' PROVE LiveLeases(t)' = {}
    <3>1. CASE Completed(t) BY <2>1, <3>1 DEF ArmInv, ExclusiveInv
    <3>2. CASE ~Completed(t)
      <4>1. c.kind = "outcome" /\ c.on = t
        BY <1>0, <1>1, <2>3, <3>2, GrownCompleted DEF Completed
      <4>2. PICK i : i = c.claim OBVIOUS
      <4>3. i \in LiveLeases(t) BY <4>1, <4>2, FitOutcome
      <4>4. i \notin LiveLeases(t)'
        BY <1>0, <4>1, <4>2, OutcomeCloses DEF LiveLeases, Blocking
      <4> QED BY <2>1, <2>2, <4>3, <4>4
    <3> QED BY <3>1, <3>2
  <2> QED BY <2>1, <2>2, <2>3
<1> QED BY <1>2, <1>3

(* One session's stage changes.                                            *)
LEMMA StageMoves ==
  ASSUME ArmTyped, NEW s \in Launch,
         NEW x \in {"open", "reviewed", "admitted", "failed", "settled"},
         stage' = [stage EXCEPT ![s] = x]
  PROVE  /\ stage'[s] = x /\ \A r \in Launch \ {s} : stage'[r] = stage[r]
         /\ stage' \in [Launch -> {"open", "reviewed", "admitted", "failed", "settled"}]
BY DEF ArmTyped

(* And so does its offer.                                                  *)
LEMMA OfferMoves ==
  ASSUME ArmTyped, NEW s \in Launch, NEW c \in Own \cup {NoOffer},
         offer' = [offer EXCEPT ![s] = c]
  PROVE  /\ offer'[s] = c /\ \A r \in Launch \ {s} : offer'[r] = offer[r]
         /\ offer' \in [Launch -> Own \cup {NoOffer}]
BY DEF ArmTyped

(* The opening states: nothing of this launch is in the world.             *)
LEMMA ArmStarts == Init => ArmInv
<1> SUFFICES ASSUME Init PROVE ArmInv
  OBVIOUS
<1>1. ASSUME NEW q \in Orders(Base)
      PROVE  /\ q \in Seq(Entry) /\ Len(q) = BaseTick /\ DOMAIN q = 1..BaseTick
             /\ \A i \in DOMAIN q : q[i] \in Base
  <2>1. q \in [1..BaseTick -> Base] BY <1>1 DEF Orders, BaseTick
  <2>2. q \in Seq(Base) /\ Len(q) = BaseTick
    BY <2>1, BaseTickIsNat
  <2>3. q \in Seq(Entry)
    <3>1. q \in [1..BaseTick -> Entry] BY <2>1 DEF Entry
    <3> QED BY <3>1, BaseTickIsNat
  <2> QED BY <2>1, <2>2, <2>3
<1>2. world \in Orders(Base) /\ entries \in Orders(Base) BY DEF Init
<1>3. ArmTyped BY <1>1, <1>2 DEF Init, ArmTyped
<1>4. BaseFirst(world) /\ BaseFirst(entries)
  BY <1>1, <1>2, BaseTickIsNat DEF BaseFirst
<1>5. LockInv /\ OfferInv
  BY PartiesAssumption DEF Init, LockInv, OfferInv, Publishing
<1>6. EarnedInv BY <1>1, <1>2, BaseTickIsNat DEF EarnedInv, Refs
<1>7. \A t : LiveLeases(t) = {}
  <2> SUFFICES ASSUME NEW t, NEW i \in LiveLeases(t) PROVE FALSE
    OBVIOUS
  <2>1. i \in Refs /\ entries[i].by \in Launch
    BY DEF LiveLeases, Blocking, Able
  <2>2. entries[i] \in Base BY <1>1, <1>2, <2>1 DEF Refs
  <2> QED BY <2>1, <2>2, Apart
<1>8. ExclusiveInv BY <1>7 DEF ExclusiveInv
<1> QED BY <1>3, <1>4, <1>5, <1>6, <1>8 DEF ArmInv

(* _publish: one contribution under the lock, fit by its review.           *)
LEMMA ReviewKeeps == ArmInv /\ (\E s \in Launch : Review(s)) => ArmInv'
<1> SUFFICES ASSUME ArmInv, NEW s \in Launch, Review(s) PROVE ArmInv'
  OBVIOUS
<1>0. ArmTyped BY DEF ArmInv
<1>1. PICK c \in Admissible(s) : offer' = [offer EXCEPT ![s] = c]
  BY DEF Review
<1>2. /\ stage[s] = "open" /\ lock = Free /\ lock' = s
      /\ stage' = [stage EXCEPT ![s] = "reviewed"]
      /\ world' = world /\ entries' = entries /\ released' = released
  BY DEF Review
<1>3. Fit(s, c) /\ c \in Own BY <1>0, AdmissibleIsFit DEF Fit
<1>4. /\ stage'[s] = "reviewed" /\ \A r \in Launch \ {s} : stage'[r] = stage[r]
      /\ stage' \in [Launch -> {"open", "reviewed", "admitted", "failed", "settled"}]
  BY <1>0, <1>2, StageMoves
<1>5. offer'[s] = c /\ offer' \in [Launch -> Own \cup {NoOffer}]
  BY <1>0, <1>1, <1>3, OfferMoves
<1>6. ArmTyped' BY <1>0, <1>2, <1>4, <1>5 DEF ArmTyped
<1>7. BaseFirst(world)' BY <1>2 DEF ArmInv, BaseFirst, BaseTick
<1>8. BaseFirst(entries)' /\ EarnedInv' /\ ExclusiveInv'
  BY <1>2, <1>4, QuietStep DEF Able
<1>9. \A r \in Launch : Publishing(r)' <=> r = s
  BY <1>2, <1>4, PartiesAssumption DEF ArmInv, LockInv, Publishing
<1>10. LockInv' BY <1>2, <1>9 DEF LockInv
<1>11. Fit(s, c)' BY <1>2, <1>3, <1>4, FitStays
<1>12. OfferInv' BY <1>5, <1>9, <1>11 DEF OfferInv
<1> QED BY <1>6, <1>7, <1>8, <1>10, <1>12 DEF ArmInv

(* What the world admits: it may be something else, but it is the author's. *)
LEMMA AdmittedRecord ==
  ASSUME ArmInv, NEW s \in Launch, Admitted(s)
  PROVE  \E c \in Own :
           /\ Fit(s, c) /\ offer' = [offer EXCEPT ![s] = c]
           /\ world' = IF \E i \in DOMAIN world : world[i] = c
                         THEN world ELSE Append(world, c)
<1>1. PICK c \in {offer[s]} \cup {Opaque(s, n) : n \in IF "drift" \in Faults
                                                       THEN Texts ELSE {}} :
        /\ offer' = [offer EXCEPT ![s] = c]
        /\ world' = IF \E i \in DOMAIN world : world[i] = c
                      THEN world ELSE Append(world, c)
  BY DEF Admitted
<1>2. Fit(s, offer[s]) BY DEF Admitted, ArmInv, OfferInv, Publishing
<1>3. Fit(s, c) BY <1>1, <1>2, OpaqueIsFit
<1>4. c \in Own BY <1>3 DEF Fit
<1> QED BY <1>1, <1>3, <1>4

(* The world after it.                                                     *)
LEMMA AdmittedWorld ==
  ASSUME ArmInv, NEW c \in Own, world' = Append(world, c)
  PROVE  /\ Len(world) \in Nat /\ Len(world') = Len(world) + 1
         /\ DOMAIN world = 1..Len(world) /\ DOMAIN world' = 1..(Len(world) + 1)
         /\ \A w \in DOMAIN world : world'[w] = world[w]
         /\ world'[Len(world) + 1] = c
         /\ world' \in Seq(Entry)
<1>1. c \in Entry /\ world \in Seq(Entry) BY DEF Entry, ArmInv, ArmTyped
<1>2. /\ world' \in Seq(Entry) /\ Len(world') = Len(world) + 1
      /\ \A i \in 1..Len(world) : world'[i] = world[i]
      /\ world'[Len(world) + 1] = c
  BY <1>1, AppendProperties
<1> QED BY <1>1, <1>2, EntriesShape

(* The publisher's await.                                                  *)
LEMMA AdmittedKeeps == ArmInv /\ (\E s \in Launch : Admitted(s)) => ArmInv'
<1> SUFFICES ASSUME ArmInv, NEW s \in Launch, Admitted(s) PROVE ArmInv'
  OBVIOUS
<1>0. ArmTyped BY DEF ArmInv
<1>1. PICK c \in Own :
        /\ Fit(s, c) /\ offer' = [offer EXCEPT ![s] = c]
        /\ world' = IF \E i \in DOMAIN world : world[i] = c
                      THEN world ELSE Append(world, c)
  BY AdmittedRecord
<1>2. /\ stage[s] = "reviewed" /\ stage' = [stage EXCEPT ![s] = "admitted"]
      /\ lock' = lock /\ entries' = entries /\ released' = released
  BY DEF Admitted
<1>4. /\ stage'[s] = "admitted" /\ \A r \in Launch \ {s} : stage'[r] = stage[r]
      /\ stage' \in [Launch -> {"open", "reviewed", "admitted", "failed", "settled"}]
  BY <1>0, <1>2, StageMoves
<1>5. /\ offer'[s] = c /\ offer' \in [Launch -> Own \cup {NoOffer}]
      /\ \A r \in Launch \ {s} : offer'[r] = offer[r]
  BY <1>0, <1>1, OfferMoves
<1>6. world' \in Seq(Entry) /\ BaseFirst(world)'
  <2>1. CASE world' = world
    BY <2>1 DEF ArmInv, ArmTyped, BaseFirst, BaseTick
  <2>2. CASE world' = Append(world, c)
    BY <2>2, AdmittedWorld, BaseTickIsNat DEF ArmInv, BaseFirst, BaseTick
  <2> QED BY <1>1, <2>1, <2>2
<1>7. ArmTyped' BY <1>0, <1>2, <1>4, <1>5, <1>6 DEF ArmTyped
<1>8. BaseFirst(entries)' /\ EarnedInv' /\ ExclusiveInv'
  BY <1>2, <1>4, QuietStep DEF Able
<1>9. \A r \in Launch : Publishing(r)' <=> Publishing(r)
  BY <1>2, <1>4 DEF Publishing
<1>10. LockInv' BY <1>2, <1>9 DEF ArmInv, LockInv
<1>11. OfferInv'
  <2> SUFFICES ASSUME NEW r \in Launch, Publishing(r) PROVE Fit(r, offer[r])'
    BY <1>9 DEF OfferInv
  <2>1. r = s BY <1>2 DEF ArmInv, LockInv, Publishing
  <2> QED BY <1>1, <1>2, <1>4, <1>5, <2>1, FitStays
<1> QED BY <1>6, <1>7, <1>8, <1>10, <1>11 DEF ArmInv

(* The ledger after an observation: as it was, or one entry longer.        *)
LEMMA ObservedEntry ==
  ASSUME ArmInv, NEW s \in Launch, Observed(s)
  PROVE  \E c \in Own :
           /\ Fit(s, c) /\ c = offer[s]
           /\ \/ entries' = entries /\ \E i \in Refs : entries[i] = c
              \/ Grows(c) /\ \A i \in Refs : entries[i] # c
<1>1. Fit(s, offer[s]) BY DEF Observed, ArmInv, OfferInv, Publishing
<1>2. offer[s] \in Own BY <1>1 DEF Fit
<1>3. CASE \E i \in Refs : entries[i] = offer[s]
  BY <1>1, <1>2, <1>3 DEF Observed
<1>4. CASE ~\E i \in Refs : entries[i] = offer[s]
  BY <1>1, <1>2, <1>4 DEF Observed, Grows
<1> QED BY <1>3, <1>4

(* observe: the one step that changes the ledger.                          *)
LEMMA ObservedKeeps == ArmInv /\ (\E s \in Launch : Observed(s)) => ArmInv'
<1> SUFFICES ASSUME ArmInv, NEW s \in Launch, Observed(s) PROVE ArmInv'
  OBVIOUS
<1>0. ArmTyped /\ Ledger BY DEF ArmInv, Ledger
<1>1. PICK c \in Own :
        /\ Fit(s, c)
        /\ entries' = entries \/ Grows(c)
  BY ObservedEntry
<1>2. /\ stage[s] = "admitted" /\ stage' = [stage EXCEPT ![s] = "open"]
      /\ lock' = Free /\ offer' = [offer EXCEPT ![s] = NoOffer]
      /\ world' = world /\ released' = released
  BY DEF Observed
<1>4. /\ stage'[s] = "open" /\ \A r \in Launch \ {s} : stage'[r] = stage[r]
      /\ stage' \in [Launch -> {"open", "reviewed", "admitted", "failed", "settled"}]
  BY <1>0, <1>2, StageMoves
<1>5. offer' \in [Launch -> Own \cup {NoOffer}]
  BY <1>0, <1>2, OfferMoves
<1>6. Able(s) /\ \A r \in Launch : Able(r)' => Able(r)
  BY <1>2, <1>4 DEF Able
<1>7. entries' \in Seq(Entry) /\ BaseFirst(entries)' /\ EarnedInv' /\ ExclusiveInv'
  <2>1. CASE entries' = entries BY <1>0, <1>6, <2>1, QuietStep DEF ArmTyped
  <2>2. CASE Grows(c)
    BY <1>0, <1>1, <1>6, <2>2, GrownRefs, GrownEarned, GrownExclusive
  <2> QED BY <1>1, <2>1, <2>2
<1>8. ArmTyped' BY <1>0, <1>2, <1>4, <1>5, <1>7 DEF ArmTyped
<1>9. BaseFirst(world)' BY <1>2 DEF ArmInv, BaseFirst, BaseTick
<1>10. \A r \in Launch : ~Publishing(r)'
  BY <1>2, <1>4 DEF ArmInv, LockInv, Publishing
<1>11. LockInv' /\ OfferInv'
  BY <1>2, <1>10, PartiesAssumption DEF LockInv, OfferInv
<1> QED BY <1>7, <1>8, <1>9, <1>11 DEF ArmInv

(* A publication that fails leaves the lock free and the ledger alone.     *)
LEMMA PublishFailsKeeps == ArmInv /\ (\E s \in Launch : PublishFails(s)) => ArmInv'
<1> SUFFICES ASSUME ArmInv, NEW s \in Launch, PublishFails(s) PROVE ArmInv'
  OBVIOUS
<1>0. ArmTyped BY DEF ArmInv
<1>2. /\ stage[s] \in {"reviewed", "admitted"} \/ (stage[s] = "open" /\ lock = Free)
      /\ stage' = [stage EXCEPT ![s] = "failed"]
      /\ lock' = Free /\ offer' = [offer EXCEPT ![s] = NoOffer]
      /\ world' = world /\ entries' = entries /\ released' = released
  BY DEF PublishFails
<1>4. /\ stage'[s] = "failed" /\ \A r \in Launch \ {s} : stage'[r] = stage[r]
      /\ stage' \in [Launch -> {"open", "reviewed", "admitted", "failed", "settled"}]
  BY <1>0, <1>2, StageMoves
<1>5. offer' \in [Launch -> Own \cup {NoOffer}]
  BY <1>0, <1>2, OfferMoves
<1>6. ArmTyped' BY <1>0, <1>2, <1>4, <1>5 DEF ArmTyped
<1>7. BaseFirst(world)' BY <1>2 DEF ArmInv, BaseFirst, BaseTick
<1>8. BaseFirst(entries)' /\ EarnedInv' /\ ExclusiveInv'
  BY <1>2, <1>4, QuietStep DEF Able
<1>9. \A r \in Launch : ~Publishing(r)'
  BY <1>2, <1>4, PartiesAssumption DEF ArmInv, LockInv, Publishing
<1>10. LockInv' /\ OfferInv'
  BY <1>2, <1>9, PartiesAssumption DEF LockInv, OfferInv
<1> QED BY <1>6, <1>7, <1>8, <1>10 DEF ArmInv

(* settle, while another session may be publishing.                        *)
LEMMA SettleKeeps == ArmInv /\ (\E s \in Launch : Settle(s)) => ArmInv'
<1> SUFFICES ASSUME ArmInv, NEW s \in Launch, Settle(s) PROVE ArmInv'
  OBVIOUS
<1>0. ArmTyped BY DEF ArmInv
<1>2. /\ stage[s] \in {"open", "failed"} /\ stage' = [stage EXCEPT ![s] = "settled"]
      /\ released' = [released EXCEPT ![s] = ReleasedRefs(s)]
      /\ lock' = lock /\ offer' = offer /\ world' = world /\ entries' = entries
  BY DEF Settle
<1>4. /\ stage'[s] = "settled" /\ \A r \in Launch \ {s} : stage'[r] = stage[r]
      /\ stage' \in [Launch -> {"open", "reviewed", "admitted", "failed", "settled"}]
  BY <1>0, <1>2, StageMoves
<1>5. ReleasedRefs(s) \in SUBSET Nat
  BY <1>0, EntriesShape DEF ArmTyped, ReleasedRefs, Refs
<1>6. ArmTyped' BY <1>0, <1>2, <1>4, <1>5 DEF ArmTyped
<1>7. BaseFirst(world)' BY <1>2 DEF ArmInv, BaseFirst, BaseTick
<1>8. BaseFirst(entries)' /\ EarnedInv' /\ ExclusiveInv'
  BY <1>2, <1>4, QuietStep DEF Able
<1>9. \A r \in Launch : Publishing(r)' <=> Publishing(r)
  BY <1>2, <1>4 DEF Publishing
<1>10. LockInv' BY <1>2, <1>9 DEF ArmInv, LockInv
<1>11. \A r \in Launch : stage[r] = "settled" => stage'[r] = "settled"
  BY <1>4
<1>12. OfferInv'
  BY <1>2, <1>9, <1>11, FitStays DEF ArmInv, OfferInv
<1> QED BY <1>6, <1>7, <1>8, <1>10, <1>12 DEF ArmInv

(* The lease rules' invariant holds in every launch over every world.      *)
THEOREM ArmIsInductive == Spec => []ArmInv
<1>1. ArmInv /\ [Next]_vars => ArmInv'
  <2> SUFFICES ASSUME ArmInv, [Next]_vars PROVE ArmInv'
    OBVIOUS
  <2>1. CASE UNCHANGED vars
    <3>1. /\ world' = world /\ entries' = entries /\ lock' = lock /\ offer' = offer
          /\ stage' = stage /\ released' = released
      BY <2>1 DEF vars
    <3>2. BaseFirst(entries)' /\ EarnedInv' /\ ExclusiveInv'
      BY <3>1, QuietStep DEF Able
    <3>3. ArmTyped' /\ BaseFirst(world)' /\ LockInv'
      BY <3>1 DEF ArmInv, ArmTyped, BaseFirst, BaseTick, LockInv, Publishing
    <3>4. OfferInv'
      BY <3>1, FitStays DEF ArmInv, OfferInv, Publishing
    <3> QED BY <3>2, <3>3, <3>4 DEF ArmInv
  <2> QED
    BY <2>1, ReviewKeeps, AdmittedKeeps, ObservedKeeps, PublishFailsKeeps, SettleKeeps
    DEF Next
<1> QED
  BY <1>1, ArmStarts, PTL DEF Spec

(* At most one live claim per task, in whatever order reviews,             *)
(* publications and settlements interleave (check of blocking claims in    *)
(* review, under agenda_lock).                                             *)
THEOREM LeasesAreExclusive == Spec => []LeaseExclusive
<1>1. ArmInv => LeaseExclusive
  <2> SUFFICES ASSUME ArmInv, NEW t \in Tasks PROVE Cardinality(LiveLeases(t)) <= 1
    BY DEF LeaseExclusive
  <2>1. \A i, j \in LiveLeases(t) : i = j BY DEF ArmInv, ExclusiveInv
  <2>2. CASE LiveLeases(t) = {} BY <2>2, FS_EmptySet
  <2>3. CASE LiveLeases(t) # {}
    <3>1. PICK i : LiveLeases(t) = {i} BY <2>1, <2>3
    <3> QED BY <3>1, FS_Singleton
  <2> QED BY <2>2, <2>3
<1> QED
  BY <1>1, ArmIsInductive, PTL

-----------------------------------------------------------------------------
(* What every step does to the ledger. *)

(* It stays, or one session observes what its review found fit.            *)
LEMMA LedgerStep ==
  ASSUME ArmInv, [Next]_vars
  PROVE  /\ \A r \in Launch : Able(r)' => Able(r)
         /\ \/ entries' = entries
            \/ \E s \in Launch, c \in Own :
                 /\ Observed(s) /\ Fit(s, c) /\ Grows(c) /\ Able(s) /\ stage'[s] = "open"
<1>0. ArmTyped BY DEF ArmInv
<1>1. CASE UNCHANGED vars BY <1>1 DEF vars, Able
<1>2. ASSUME NEW s \in Launch, Review(s) PROVE entries' = entries
                                         /\ \A r \in Launch : Able(r)' => Able(r)
  BY <1>0, <1>2, StageMoves DEF Review, Able
<1>3. ASSUME NEW s \in Launch, Admitted(s) PROVE entries' = entries
                                           /\ \A r \in Launch : Able(r)' => Able(r)
  BY <1>0, <1>3, StageMoves DEF Admitted, Able
<1>4. ASSUME NEW s \in Launch, PublishFails(s) PROVE entries' = entries
                                               /\ \A r \in Launch : Able(r)' => Able(r)
  <2>1. stage' = [stage EXCEPT ![s] = "failed"] /\ entries' = entries
    BY <1>4 DEF PublishFails
  <2>2. stage'[s] = "failed" /\ \A r \in Launch \ {s} : stage'[r] = stage[r]
    BY <1>0, <2>1, StageMoves
  <2> QED BY <2>1, <2>2 DEF Able
<1>5. ASSUME NEW s \in Launch, Settle(s) PROVE entries' = entries
                                         /\ \A r \in Launch : Able(r)' => Able(r)
  <2>1. stage' = [stage EXCEPT ![s] = "settled"] /\ entries' = entries
    BY <1>5 DEF Settle
  <2>2. stage'[s] = "settled" /\ \A r \in Launch \ {s} : stage'[r] = stage[r]
    BY <1>0, <2>1, StageMoves
  <2> QED BY <2>1, <2>2 DEF Able
<1>6. ASSUME NEW s \in Launch, Observed(s)
      PROVE  /\ \A r \in Launch : Able(r)' => Able(r)
             /\ \/ entries' = entries
                \/ \E c \in Own :
                     /\ Fit(s, c) /\ Grows(c) /\ Able(s) /\ stage'[s] = "open"
  <2>1. stage[s] = "admitted" /\ stage' = [stage EXCEPT ![s] = "open"]
    BY <1>6 DEF Observed
  <2>2. stage'[s] = "open" /\ \A r \in Launch \ {s} : stage'[r] = stage[r]
    BY <1>0, <2>1, StageMoves
  <2> QED BY <1>6, <2>1, <2>2, ObservedEntry DEF Able
<1> QED BY <1>1, <1>2, <1>3, <1>4, <1>5, <1>6 DEF Next

(* Every completion the launch adds comes after the completion of          *)
(* everything its task depends on: the claim it closes was reviewed for    *)
(* that (ClaimAccepted, in review under agenda_lock).                       *)
THEOREM DependenciesComeFirst == Spec => []DependenciesFirst
<1>1. Init => DependenciesFirst
  <2> SUFFICES ASSUME Init, NEW t \in Tasks, NEW j \in CompletedAt(t), j > BaseTick
               PROVE  FALSE
    BY DEF DependenciesFirst
  <2>1. entries \in [1..BaseTick -> Base] BY DEF Init, Orders, BaseTick
  <2> QED BY <2>1, BaseTickIsNat DEF CompletedAt, Refs
<1>2. ArmInv /\ DependenciesFirst /\ [Next]_vars => DependenciesFirst'
  <2> SUFFICES ASSUME ArmInv, DependenciesFirst, [Next]_vars PROVE DependenciesFirst'
    OBVIOUS
  <2>0. Ledger BY DEF ArmInv, Ledger
  <2>1. CASE entries' = entries
    BY <2>1, SameLedger DEF DependenciesFirst, BaseTick
  <2>2. CASE \E s \in Launch, c \in Own : Fit(s, c) /\ Grows(c)
    <3>1. PICK s \in Launch, c \in Own : Fit(s, c) /\ Grows(c) BY <2>2
    <3>2. c.kind = "task" => Author[c.on] = c.by BY <3>1 DEF Fit
    <3> SUFFICES ASSUME NEW t \in Tasks, NEW j \in CompletedAt(t)', j > BaseTick,
                        NEW u \in Depends[t]
                 PROVE  \E i \in CompletedAt(u)' : i < j
      BY DEF DependenciesFirst, BaseTick
    <3>3. u \in Tasks BY RulesAssumption
    <3>4. CompletedAt(u) \subseteq CompletedAt(u)'
      BY <2>0, <3>1, <3>2, <3>3, GrownCompleted
    <3>5. CASE j \in CompletedAt(t) BY <3>4, <3>5 DEF DependenciesFirst
    <3>6. CASE j \notin CompletedAt(t)
      <4>1. j = Len(entries) + 1 /\ c.kind = "outcome" /\ c.on = t
        BY <2>0, <3>1, <3>2, <3>6, GrownCompleted
      <4>2. PICK i : i = c.claim OBVIOUS
      <4>3. i \in Refs /\ entries[i].kind = "claim" /\ entries[i].by = s /\ entries[i].on = t
        BY <3>1, <4>1, <4>2 DEF Fit, OutcomeAccepted, HeldBy, IsClaim
      <4>4. Completed(u) BY <2>0, <4>3, OwnEntry DEF Earned
      <4>5. PICK k \in CompletedAt(u) : k \in Refs
        BY <4>4 DEF Completed, CompletedAt
      <4>6. k < j BY <2>0, <3>1, <4>1, <4>5, GrownRefs
      <4> QED BY <3>4, <4>5, <4>6
    <3> QED BY <3>5, <3>6
  <2> QED BY <2>1, <2>2, LedgerStep
<1> QED BY <1>1, <1>2, ArmIsInductive, PTL DEF Spec

(* The receipt of a settled session names every lease it left behind, also *)
(* one that another session's observation has not ended since (settle's    *)
(* blocking claims; nobody settled publishes again).                       *)
THEOREM ReleasesAreComplete == Spec => []ReleaseIsComplete
<1>1. Init => ReleaseIsComplete
  BY DEF Init, ReleaseIsComplete
<1>2. ArmInv /\ ReleaseIsComplete /\ [Next]_vars => ReleaseIsComplete'
  <2> SUFFICES ASSUME ArmInv, ReleaseIsComplete, [Next]_vars,
                      NEW t \in Tasks, NEW i \in Blocking(t)',
                      entries'[i].by \in Launch, stage'[entries'[i].by] = "settled"
               PROVE  i \in released'[entries'[i].by]
    BY DEF ReleaseIsComplete
  <2>0. ArmTyped /\ Ledger BY DEF ArmInv, Ledger
  <2>1. ASSUME entries' = entries, released' = released,
               \A r \in Launch : stage'[r] = "settled" => stage[r] = "settled"
        PROVE  i \in released'[entries'[i].by]
    BY <2>1, SameLedger DEF ReleaseIsComplete
  <2>2. CASE UNCHANGED vars BY <2>1, <2>2 DEF vars
  <2>3. ASSUME NEW s \in Launch, Review(s) PROVE i \in released'[entries'[i].by]
    BY <2>0, <2>1, <2>3, StageMoves DEF Review
  <2>4. ASSUME NEW s \in Launch, Admitted(s) PROVE i \in released'[entries'[i].by]
    BY <2>0, <2>1, <2>4, StageMoves DEF Admitted
  <2>5. ASSUME NEW s \in Launch, PublishFails(s) PROVE i \in released'[entries'[i].by]
    <3>1. /\ stage' = [stage EXCEPT ![s] = "failed"]
          /\ entries' = entries /\ released' = released
      BY <2>5 DEF PublishFails
    <3> QED BY <2>0, <2>1, <3>1, StageMoves
  <2>6. ASSUME NEW s \in Launch, Settle(s) PROVE i \in released'[entries'[i].by]
    <3>1. /\ stage' = [stage EXCEPT ![s] = "settled"] /\ entries' = entries
          /\ released' = [released EXCEPT ![s] = ReleasedRefs(s)]
      BY <2>6 DEF Settle
    <3>2. \A r \in Launch \ {s} : stage'[r] = stage[r] /\ released'[r] = released[r]
      BY <2>0, <3>1, StageMoves DEF ArmTyped
    <3>3. released'[s] = ReleasedRefs(s) BY <2>0, <3>1 DEF ArmTyped
    <3>4. i \in Blocking(t) BY <3>1, SameLedger
    <3>5. i \in Refs /\ IsClaim(i) /\ entries[i].on = t BY <3>4 DEF Blocking
    <3>6. CASE entries[i].by = s BY <3>1, <3>3, <3>4, <3>5, <3>6 DEF ReleasedRefs
    <3>7. CASE entries[i].by # s BY <3>1, <3>2, <3>4, <3>7 DEF ReleaseIsComplete
    <3> QED BY <3>6, <3>7
  <2>7. ASSUME NEW s \in Launch, Observed(s) PROVE i \in released'[entries'[i].by]
    <3>1. stage' = [stage EXCEPT ![s] = "open"] /\ released' = released
      BY <2>7 DEF Observed
    <3>2. stage'[s] = "open" /\ \A r \in Launch \ {s} : stage'[r] = stage[r]
      BY <2>0, <3>1, StageMoves
    <3>3. CASE entries' = entries BY <2>1, <3>1, <3>2, <3>3
    <3>4. CASE entries' # entries
      <4>1. PICK c \in Own : Fit(s, c) /\ Grows(c) BY <2>7, <3>4, ObservedEntry
      <4>2. i \in Refs \/ entries'[i] = c
        BY <2>0, <4>1, GrownRefs DEF Blocking
      <4>3. entries'[i] # c BY <3>2, <4>1 DEF Fit
      <4>4. i \in Refs /\ entries'[i] = entries[i]
        BY <2>0, <4>1, <4>2, <4>3, GrownRefs
      <4>5. IsClaim(i)' /\ entries'[i].on = t /\ ~Closed(i)' /\ ~Expired(i)'
        BY DEF Blocking
      <4>6. IsClaim(i) BY <2>0, <4>1, <4>4, <4>5, GrownClaims
      <4>7. ~Closed(i) /\ ~Expired(i)
        BY <2>0, <4>1, <4>4, <4>5, <4>6, GrownEnds
      <4>8. t \in Worklist
        BY <2>0, <4>4, <4>5, <4>6, OwnEntry DEF Earned, IsClaim
      <4>9. i \in Blocking(t) BY <4>4, <4>5, <4>6, <4>7, <4>8 DEF Blocking
      <4> QED BY <3>1, <3>2, <4>4, <4>9 DEF ReleaseIsComplete
    <3> QED BY <3>3, <3>4
  <2> QED BY <2>2, <2>3, <2>4, <2>5, <2>6, <2>7 DEF Next
<1> QED BY <1>1, <1>2, ArmIsInductive, PTL DEF Spec

-----------------------------------------------------------------------------
(* The clock: the ledger never runs ahead of the world. *)

(* Both sequences, indexed.                                                *)
LEMMA Indexed ==
  ASSUME ArmInv
  PROVE  /\ Len(world) \in Nat /\ DOMAIN world = 1..Len(world)
         /\ Len(entries) \in Nat /\ Refs = 1..Len(entries)
         /\ BaseTick \in Nat
         /\ \A w \in DOMAIN world : w > BaseTick => world[w] \in Own
         /\ \A w \in DOMAIN world : w <= BaseTick => world[w] \in Base
         /\ \A i \in Refs : i > BaseTick => entries[i] \in Own
         /\ \A i \in Refs : i <= BaseTick => entries[i] \in Base
<1>1. /\ Len(world) \in Nat /\ DOMAIN world = 1..Len(world)
      /\ Len(entries) \in Nat /\ Refs = 1..Len(entries) /\ BaseTick \in Nat
  BY EntriesShape, BaseTickIsNat DEF ArmInv, ArmTyped, Refs
<1>2. \A w \in DOMAIN world : w > BaseTick => world[w] \in Own
  BY <1>1 DEF ArmInv, BaseFirst
<1>3. \A w \in DOMAIN world : w <= BaseTick => world[w] \in Base
  BY <1>1 DEF ArmInv, BaseFirst
<1>4. \A i \in Refs : i > BaseTick => entries[i] \in Own
  BY <1>1 DEF ArmInv, BaseFirst, Refs
<1>5. \A i \in Refs : i <= BaseTick => entries[i] \in Base
  BY <1>1 DEF ArmInv, BaseFirst, Refs
<1> QED BY <1>1, <1>2, <1>3, <1>4, <1>5

(* A step between two admissions: what was in flight stays so, or its      *)
(* author has failed.                                                      *)
LEMMA ClockQuiet ==
  ASSUME ArmInv, ClockInv, world' = world, entries' = entries,
         \A r \in Launch : stage'[r] = "admitted" =>
           stage[r] = "admitted" /\ offer'[r] = offer[r],
         \A r \in Launch : stage[r] \in {"admitted", "failed", "settled"} =>
           stage'[r] \in {"failed", "settled"} \/ stage'[r] = stage[r]
  PROVE  ClockInv'
<1>0. Refs' = Refs /\ BaseTick' = BaseTick BY DEF Refs, BaseTick
<1>1. \A r \in Launch : InFlight(r)' => InFlight(r)
  BY <1>0 DEF InFlight
<1>2. ASSUME NEW w \in DOMAIN world, w > BaseTick PROVE Seen(world[w])'
  <2>1. PICK r : r = world[w] OBVIOUS
  <2>2. r.by \in Launch BY <1>2, <2>1, Indexed, Apart
  <2>3. Seen(r) BY <1>2, <2>1 DEF ClockInv
  <2>4. Seen(r)'
    <3>1. CASE \E i \in Refs : entries[i] = r BY <3>1, <1>0 DEF Seen
    <3>2. CASE stage[r.by] \in {"failed", "settled"} BY <2>2, <3>2 DEF Seen
    <3>3. CASE stage[r.by] = "admitted" /\ offer[r.by] = r
      BY <2>2, <3>3 DEF Seen
    <3> QED BY <2>3, <3>1, <3>2, <3>3 DEF Seen
  <2> QED BY <2>1, <2>4
<1>3. /\ \A i \in Refs : i > BaseTick => \E w \in DOMAIN world : world[w] = entries[i]
      /\ \A s \in Launch :
           stage'[s] = "admitted" => \E w \in DOMAIN world : world[w] = offer'[s]
      /\ Len(world) >= Len(entries)
      /\ \A s \in Launch : InFlight(s)' => Len(world) > Len(entries)
  BY <1>1 DEF ClockInv
<1>4. \A i \in Refs, w \in DOMAIN world :
        i > BaseTick /\ world[w] = entries[i] =>
          /\ Len(world) - w >= Len(entries) - i
          /\ \A s \in Launch : InFlight(s)' => Len(world) - w > Len(entries) - i
  BY <1>1 DEF ClockInv
<1> QED BY <1>0, <1>2, <1>3, <1>4 DEF ClockInv

(* An admission: the world already has the record, and then so does the    *)
(* ledger; or the world grows by it.                                       *)
LEMMA ClockAdmitted ==
  ASSUME ArmInv, ClockInv, NEW s \in Launch, Admitted(s)
  PROVE  ClockInv'
<1>1. PICK c \in Own :
        /\ Fit(s, c) /\ offer' = [offer EXCEPT ![s] = c]
        /\ world' = IF \E i \in DOMAIN world : world[i] = c
                      THEN world ELSE Append(world, c)
  BY AdmittedRecord
<1>2. /\ stage[s] = "reviewed" /\ stage' = [stage EXCEPT ![s] = "admitted"]
      /\ entries' = entries
  BY DEF Admitted
<1>3. ArmTyped BY DEF ArmInv
<1>4. stage'[s] = "admitted" /\ \A r \in Launch \ {s} : stage'[r] = stage[r]
  BY <1>2, <1>3, StageMoves
<1>5. offer'[s] = c /\ \A r \in Launch \ {s} : offer'[r] = offer[r]
  BY <1>1, <1>3, OfferMoves
<1>6. c.by = s BY <1>1 DEF Fit
<1>7. \A r \in Launch : stage[r] # "admitted"
  BY <1>2 DEF ArmInv, LockInv, Publishing
<1>8. Refs' = Refs /\ BaseTick' = BaseTick BY <1>2 DEF Refs, BaseTick
<1>9. \A r \in Launch : stage'[r] = "admitted" => r = s
  BY <1>4, <1>7
<1>10. \A r : r.by \in Launch /\ Seen(r) => Seen(r)'
  <2> SUFFICES ASSUME NEW r, r.by \in Launch, Seen(r) PROVE Seen(r)'
    OBVIOUS
  <2>1. CASE \E i \in Refs : entries[i] = r BY <1>2, <1>8, <2>1 DEF Seen
  <2>2. CASE stage[r.by] \in {"failed", "settled"}
    <3>1. r.by # s BY <1>2, <2>2
    <3>2. stage'[r.by] = stage[r.by] BY <1>4, <3>1
    <3> QED BY <2>2, <3>2 DEF Seen
  <2> QED BY <1>7, <2>1, <2>2 DEF Seen
<1>11. CASE \E w \in DOMAIN world : world[w] = c
  <2>1. PICK w \in DOMAIN world : world[w] = c BY <1>11
  <2>2. w > BaseTick BY <2>1, Indexed, Apart
  <2>3. Seen(c) BY <2>1, <2>2 DEF ClockInv
  <2>4. \E i \in Refs : entries[i] = c
    BY <1>2, <1>6, <1>7, <2>3 DEF Seen
  <2>5. world' = world BY <1>1, <1>11
  <2>6. \A r \in Launch : ~InFlight(r)'
    BY <1>2, <1>5, <1>8, <1>9, <2>4 DEF InFlight
  <2>7. \A v \in DOMAIN world : v > BaseTick => Seen(world[v])'
    <3> SUFFICES ASSUME NEW v \in DOMAIN world, v > BaseTick PROVE Seen(world[v])'
      OBVIOUS
    <3>1. PICK r : r = world[v] OBVIOUS
    <3>2. r.by \in Launch /\ Seen(r) BY <3>1, Indexed, Apart DEF ClockInv
    <3>3. Seen(r)' BY <1>10, <3>2
    <3> QED BY <2>5, <3>1, <3>3
  <2>8. \A r \in Launch :
          stage'[r] = "admitted" => \E v \in DOMAIN world : world[v] = offer'[r]
    BY <1>5, <1>9, <2>1
  <2> QED BY <1>2, <1>8, <2>5, <2>6, <2>7, <2>8 DEF ClockInv
<1>12. CASE ~\E w \in DOMAIN world : world[w] = c
  <2>1. world' = Append(world, c) BY <1>1, <1>12
  <2>2. PICK n \in Nat : n = Len(world) + 1 BY Indexed
  <2>3. /\ Len(world) \in Nat /\ Len(world') = n /\ DOMAIN world = 1..Len(world)
        /\ DOMAIN world' = 1..n
        /\ \A w \in DOMAIN world : world'[w] = world[w]
        /\ world'[n] = c
    BY <2>1, <2>2, AdmittedWorld
  <2>4. \A w \in DOMAIN world' : w \in DOMAIN world \/ w = n
    BY <2>2, <2>3
  <2>5. \A i \in Refs : entries[i] # c
    <3>1. \A i \in Refs : i > BaseTick => entries[i] # c BY <1>12 DEF ClockInv
    <3>2. \A i \in Refs : i <= BaseTick => entries[i] # c BY Indexed, Apart
    <3> QED BY <3>1, <3>2, Indexed
  <2>6. ASSUME NEW w \in DOMAIN world', w > BaseTick PROVE Seen(world[w])'
    <3>1. CASE w \in DOMAIN world
      <4>1. PICK r : r = world[w] OBVIOUS
      <4>2. r.by \in Launch /\ Seen(r)
        BY <2>6, <3>1, <4>1, Indexed, Apart DEF ClockInv
      <4>3. Seen(r)' BY <1>10, <4>2
      <4> QED BY <2>3, <3>1, <4>1, <4>3
    <3>2. CASE w = n
      <4>1. Seen(c)' BY <1>4, <1>5, <1>6 DEF Seen
      <4> QED BY <2>3, <3>2, <4>1
    <3> QED BY <2>4, <3>1, <3>2
  <2>7. \A i \in Refs : i > BaseTick => \E w \in DOMAIN world' : world'[w] = entries[i]
    <3> SUFFICES ASSUME NEW i \in Refs, i > BaseTick
                 PROVE  \E w \in DOMAIN world' : world'[w] = entries[i]
      OBVIOUS
    <3>1. PICK w \in DOMAIN world : world[w] = entries[i] BY DEF ClockInv
    <3>2. w \in DOMAIN world' /\ world'[w] = entries[i] BY <2>2, <2>3, <3>1
    <3> QED BY <3>2
  <2>8. \A r \in Launch :
          stage'[r] = "admitted" => \E w \in DOMAIN world' : world'[w] = offer'[r]
    BY <1>5, <1>9, <2>2, <2>3
  <2>9. Len(world') > Len(entries)
    BY <2>2, <2>3, Indexed DEF ClockInv
  <2>10. ASSUME NEW i \in Refs, NEW w \in DOMAIN world', i > BaseTick,
                world'[w] = entries[i]
         PROVE  Len(world') - w > Len(entries) - i
    <3>1. w \in DOMAIN world /\ world[w] = entries[i]
      BY <2>3, <2>4, <2>5, <2>10
    <3>2. Len(world) - w >= Len(entries) - i BY <2>10, <3>1 DEF ClockInv
    <3>3. i \in Int /\ w \in Int /\ Len(entries) \in Int BY <2>3, Indexed
    <3> QED BY <2>2, <2>3, <3>2, <3>3
  <2>11. \A i \in Refs, w \in DOMAIN world' :
           i > BaseTick /\ world'[w] = entries[i] =>
             /\ Len(world') - w >= Len(entries) - i
             /\ \A r \in Launch : InFlight(r)' => Len(world') - w > Len(entries) - i
    <3>1. \A i \in Refs : i \in Int BY Indexed
    <3>2. \A w \in DOMAIN world' : w \in Int BY <2>3
    <3> QED BY <2>3, <2>10, <3>1, <3>2, Indexed
  <2>12. Len(world') >= Len(entries) BY <2>3, <2>9, Indexed
  <2>13. /\ \A w \in DOMAIN world' : w > BaseTick' => Seen(world[w])'
         /\ \A i \in Refs' : i > BaseTick' =>
              \E w \in DOMAIN world' : world'[w] = entries'[i]
         /\ \A r \in Launch : InFlight(r)' => Len(world') > Len(entries')
         /\ Len(world') >= Len(entries')
    BY <1>2, <1>8, <2>6, <2>7, <2>9, <2>12
  <2> QED BY <1>2, <1>8, <2>8, <2>11, <2>13 DEF ClockInv
<1> QED BY <1>11, <1>12

(* An observation takes the record out of flight.                          *)
LEMMA ClockObserved ==
  ASSUME ArmInv, ClockInv, NEW s \in Launch, Observed(s)
  PROVE  ClockInv'
<1>1. PICK c \in Own :
        /\ Fit(s, c) /\ c = offer[s]
        /\ \/ entries' = entries /\ \E i \in Refs : entries[i] = c
           \/ Grows(c) /\ \A i \in Refs : entries[i] # c
  BY ObservedEntry
<1>2. /\ stage[s] = "admitted" /\ stage' = [stage EXCEPT ![s] = "open"]
      /\ offer' = [offer EXCEPT ![s] = NoOffer] /\ world' = world
  BY DEF Observed
<1>3. ArmTyped /\ Ledger BY DEF ArmInv, Ledger
<1>4. stage'[s] = "open" /\ \A r \in Launch \ {s} : stage'[r] = stage[r]
  BY <1>2, <1>3, StageMoves
<1>5. \A r \in Launch : stage[r] = "admitted" => r = s
  BY <1>2 DEF ArmInv, LockInv, Publishing
<1>6. \A r \in Launch : stage'[r] # "admitted" BY <1>4, <1>5
<1>7. \A r \in Launch : ~InFlight(r)' BY <1>6 DEF InFlight
<1>8. BaseTick' = BaseTick BY DEF BaseTick
<1>9. (\A i \in Refs : i \in Refs' /\ entries'[i] = entries[i])
      /\ \E i \in Refs' : entries'[i] = c
  <2>1. CASE entries' = entries /\ \E i \in Refs : entries[i] = c BY <2>1 DEF Refs
  <2>2. CASE Grows(c)
    <3>1. PICK n \in Nat : n = Len(entries) + 1 BY Indexed
    <3>2. n \in Refs' /\ entries'[n] = c BY <1>3, <2>2, <3>1, GrownRefs
    <3> QED BY <1>3, <2>2, <3>2, GrownRefs
  <2> QED BY <1>1, <2>1, <2>2
<1>10. ASSUME NEW w \in DOMAIN world, w > BaseTick PROVE Seen(world[w])'
  <2>1. PICK r : r = world[w] OBVIOUS
  <2>2. r.by \in Launch /\ Seen(r) BY <1>10, <2>1, Indexed, Apart DEF ClockInv
  <2>3. Seen(r)'
    <3>1. CASE \E i \in Refs : entries[i] = r BY <1>9, <3>1 DEF Seen
    <3>2. CASE stage[r.by] \in {"failed", "settled"}
      <4>1. r.by # s BY <1>2, <3>2
      <4>2. stage'[r.by] = stage[r.by] BY <1>4, <2>2, <4>1
      <4> QED BY <3>2, <4>2 DEF Seen
    <3>3. CASE stage[r.by] = "admitted" /\ offer[r.by] = r
      <4>1. r = c BY <1>1, <1>5, <2>2, <3>3
      <4> QED BY <1>9, <4>1 DEF Seen
    <3> QED BY <2>2, <3>1, <3>2, <3>3 DEF Seen
  <2> QED BY <1>2, <2>1, <2>3
<1>11. PICK v \in DOMAIN world : world[v] = c BY <1>1, <1>2 DEF ClockInv
<1>12. CASE entries' = entries
  <2>1. Refs' = Refs BY <1>12 DEF Refs
  <2> QED BY <1>2, <1>6, <1>7, <1>8, <1>10, <1>12, <2>1 DEF ClockInv
<1>13. CASE Grows(c) /\ \A i \in Refs : entries[i] # c
  <2>1. PICK n \in Nat : n = Len(entries) + 1 BY Indexed
  <2>2. /\ Len(entries') = n /\ Len(entries) \in Nat /\ Refs = 1..Len(entries)
        /\ \A i \in Refs' : i \in Int /\ (i \in Refs \/ i = n)
        /\ \A i \in Refs : entries'[i] = entries[i]
        /\ entries'[n] = c
    BY <1>3, <1>13, <2>1, GrownRefs
  <2>3. InFlight(s) BY <1>1, <1>2, <1>13 DEF InFlight
  <2>4. Len(world) >= n /\ Len(world) \in Nat
    BY <2>1, <2>3, Indexed DEF ClockInv
  <2>5. \A i \in Refs' : i > BaseTick => \E w \in DOMAIN world : world[w] = entries'[i]
    BY <1>11, <2>2 DEF ClockInv
  <2>6. ASSUME NEW i \in Refs', NEW w \in DOMAIN world, i > BaseTick,
               world[w] = entries'[i]
        PROVE  Len(world) - w >= n - i
    <3>1. w \in Int /\ i \in Int /\ w <= Len(world) BY <2>2, Indexed
    <3>2. CASE i \in Refs
      <4>1. world[w] = entries[i] BY <2>2, <2>6, <3>2
      <4>2. Len(world) - w > Len(entries) - i
        BY <2>3, <2>6, <3>2, <4>1 DEF ClockInv
      <4> QED BY <2>1, <2>2, <2>4, <3>1, <4>2
    <3>3. CASE i = n BY <2>1, <2>4, <3>1, <3>3
    <3> QED BY <2>2, <3>2, <3>3
  <2>7. /\ \A w \in DOMAIN world' : w > BaseTick' => Seen(world[w])'
        /\ \A i \in Refs' : i > BaseTick' =>
             \E w \in DOMAIN world' : world'[w] = entries'[i]
        /\ Len(world') >= Len(entries')
        /\ \A i \in Refs', w \in DOMAIN world' :
             i > BaseTick' /\ world'[w] = entries'[i] =>
               Len(world') - w >= Len(entries') - i
    BY <1>2, <1>8, <1>10, <2>2, <2>4, <2>5, <2>6
  <2> QED BY <1>6, <1>7, <2>7 DEF ClockInv
<1> QED BY <1>1, <1>12, <1>13

(* An expired lease has really seen that many admissions: the ledger's     *)
(* entries after it are fewer than the world's, and one of the world at    *)
(* launch is dated to the opening tick (Tick; the module docstring).       *)
THEOREM LeasesNeverExpireEarly == Spec => []NeverExpiresEarly
<1>1. Init => ClockInv
  <2> SUFFICES ASSUME Init PROVE ClockInv
    OBVIOUS
  <2>0. world \in [1..BaseTick -> Base] /\ entries \in [1..BaseTick -> Base]
    BY DEF Init, Orders, BaseTick
  <2>1. /\ DOMAIN world = 1..BaseTick /\ Refs = 1..BaseTick
        /\ Len(world) = BaseTick /\ Len(entries) = BaseTick
    BY <2>0, BaseTickIsNat DEF Refs
  <2>2. \A s \in Launch : stage[s] = "open" BY DEF Init
  <2>3. \A s \in Launch : ~InFlight(s) BY <2>2 DEF InFlight
  <2> QED BY <2>1, <2>2, <2>3, BaseTickIsNat DEF ClockInv
<1>2. ArmInv /\ ClockInv /\ [Next]_vars => ClockInv'
  <2> SUFFICES ASSUME ArmInv, ClockInv, [Next]_vars PROVE ClockInv'
    OBVIOUS
  <2>0. ArmTyped BY DEF ArmInv
  <2>1. CASE UNCHANGED vars BY <2>1, ClockQuiet DEF vars
  <2>2. ASSUME NEW s \in Launch, Review(s) PROVE ClockInv'
    <3>1. /\ stage[s] = "open" /\ stage' = [stage EXCEPT ![s] = "reviewed"]
          /\ world' = world /\ entries' = entries
      BY <2>2 DEF Review
    <3>2. stage'[s] = "reviewed" /\ \A r \in Launch \ {s} : stage'[r] = stage[r]
      BY <2>0, <3>1, StageMoves
    <3>3. PICK c \in Admissible(s) : offer' = [offer EXCEPT ![s] = c] BY <2>2 DEF Review
    <3>4. \A r \in Launch \ {s} : offer'[r] = offer[r] BY <2>0, <3>3 DEF ArmTyped
    <3> QED BY <3>1, <3>2, <3>4, ClockQuiet
  <2>3. ASSUME NEW s \in Launch, PublishFails(s) PROVE ClockInv'
    <3>1. /\ stage' = [stage EXCEPT ![s] = "failed"]
          /\ offer' = [offer EXCEPT ![s] = NoOffer]
          /\ world' = world /\ entries' = entries
      BY <2>3 DEF PublishFails
    <3>2. stage'[s] = "failed" /\ \A r \in Launch \ {s} : stage'[r] = stage[r]
      BY <2>0, <3>1, StageMoves
    <3>3. \A r \in Launch \ {s} : offer'[r] = offer[r] BY <2>0, <3>1 DEF ArmTyped
    <3> QED BY <3>1, <3>2, <3>3, ClockQuiet
  <2>4. ASSUME NEW s \in Launch, Settle(s) PROVE ClockInv'
    <3>1. /\ stage' = [stage EXCEPT ![s] = "settled"]
          /\ offer' = offer /\ world' = world /\ entries' = entries
      BY <2>4 DEF Settle
    <3>2. stage'[s] = "settled" /\ \A r \in Launch \ {s} : stage'[r] = stage[r]
      BY <2>0, <3>1, StageMoves
    <3> QED BY <3>1, <3>2, ClockQuiet
  <2> QED BY <2>1, <2>2, <2>3, <2>4, ClockAdmitted, ClockObserved DEF Next
<1>3. ArmInv /\ ClockInv => NeverExpiresEarly
  <2> SUFFICES ASSUME ArmInv, ClockInv, NEW i \in Refs, IsClaim(i), Expired(i),
                      NEW w \in DOMAIN world, world[w] = entries[i]
               PROVE  Len(world) >= w + entries[i].ticks
    BY DEF NeverExpiresEarly
  <2>1. PICK k \in Nat \ {0} : k = entries[i].ticks
    BY ClaimShape, EntriesShape DEF ArmInv, ArmTyped, IsClaim, Refs
  <2>2. Len(entries) >= Tick(i) + k BY <2>1 DEF Expired, NowTick
  <2>3. /\ i \in Int /\ w \in Int /\ BaseTick \in Int
        /\ Len(world) \in Int /\ Len(entries) \in Int
    BY Indexed
  <2>4. CASE i > BaseTick
    <3>1. Tick(i) = i BY <2>3, <2>4 DEF Tick
    <3>2. Len(world) - w >= Len(entries) - i BY <2>4 DEF ClockInv
    <3> QED BY <2>1, <2>2, <2>3, <3>1, <3>2
  <2>5. CASE i <= BaseTick
    <3>1. Tick(i) = BaseTick BY <2>5 DEF Tick
    <3>2. entries[i] \in Base BY <2>5, Indexed
    <3>3. w <= BaseTick BY <2>3, <3>2, Indexed, Apart
    <3>4. Len(world) >= Len(entries) BY DEF ClockInv
    <3> QED BY <2>1, <2>2, <2>3, <3>1, <3>3, <3>4
  <2> QED BY <2>3, <2>4, <2>5
<1> QED BY <1>1, <1>2, <1>3, ArmIsInductive, PTL DEF Spec

-----------------------------------------------------------------------------
(* The worklist the sessions see. *)

TheHolder == [t \in Tasks |-> Holder(t)]
TheDone   == {t \in Tasks : Completed(t)}

(* A task is held by nobody, or by a session of the launch.                *)
LEMMA HolderIs ==
  ASSUME ExclusiveInv, NEW t \in Tasks
  PROVE  /\ Holder(t) \in Launch \cup {Nobody}
         /\ LiveLeases(t) = {} <=> Holder(t) = Nobody
         /\ \A i \in LiveLeases(t) : Holder(t) = entries[i].by
<1>1. CASE LiveLeases(t) = {} BY <1>1 DEF Holder
<1>2. CASE LiveLeases(t) # {}
  <2>1. PICK i : LiveLeases(t) = {i} BY <1>2 DEF ExclusiveInv
  <2>2. (CHOOSE j \in LiveLeases(t) : TRUE) = i BY <2>1
  <2>3. Holder(t) = entries[i].by BY <1>2, <2>2 DEF Holder
  <2>4. entries[i].by \in Launch BY <2>1 DEF LiveLeases, Able
  <2>5. entries[i].by # Nobody BY <2>4, NobodyAssumption
  <2> QED BY <1>2, <2>1, <2>3, <2>4, <2>5
<1> QED BY <1>1, <1>2

(* A task that gains no live lease keeps its holder, or its lease lapses.  *)
LEMMA HolderLapses ==
  ASSUME ArmTyped, ExclusiveInv, ExclusiveInv', NEW t \in Tasks,
         \A i \in LiveLeases(t)' : i \in LiveLeases(t) /\ entries'[i] = entries[i]
  PROVE  Holder(t)' \in {Holder(t), Nobody}
<1>1. LiveLeases(t)' = {} => Holder(t)' = Nobody BY DEF Holder
<1>2. CASE LiveLeases(t)' # {}
  <2>1. PICK i : i \in LiveLeases(t)' BY <1>2
  <2>2. LiveLeases(t) = {i} BY <2>1 DEF ExclusiveInv
  <2>3. LiveLeases(t)' = {i} BY <2>1, <2>2
  <2>4. Holder(t)' = entries'[i].by BY <2>3 DEF Holder
  <2>5. Holder(t) = entries[i].by BY <2>2, HolderIs
  <2> QED BY <2>1, <2>4, <2>5
<1> QED BY <1>1, <1>2

(* After a step too, the holders are sessions of the launch or nobody.     *)
LEMMA HoldersAfter ==
  ASSUME ExclusiveInv'
  PROVE  TheHolder' \in [Tasks -> Launch \cup {Nobody}]
<1>1. \A t \in Tasks : Holder(t)' \in Launch \cup {Nobody}
  <2> SUFFICES ASSUME NEW t \in Tasks PROVE Holder(t)' \in Launch \cup {Nobody}
    OBVIOUS
  <2>1. CASE LiveLeases(t)' = {} BY <2>1 DEF Holder
  <2>2. CASE LiveLeases(t)' # {}
    <3>1. PICK i : LiveLeases(t)' = {i} BY <2>2 DEF ExclusiveInv
    <3>2. (CHOOSE j \in LiveLeases(t)' : TRUE) = i BY <3>1
    <3>3. Holder(t)' = entries'[i].by BY <2>2, <3>2 DEF Holder
    <3>4. Able(entries[i].by)' BY <3>1 DEF LiveLeases
    <3> QED BY <3>3, <3>4 DEF Able
  <2> QED BY <2>1, <2>2
<1> QED BY <1>1 DEF TheHolder

(* The ledger stands still: leases may lapse, nothing gets done.           *)
LEMMA QuietLapses ==
  ASSUME ArmInv, ArmInv', entries' = entries, \A r \in Launch : Able(r)' => Able(r)
  PROVE  Contract!Lapse
<1>1. TheHolder' \in [Tasks -> Launch \cup {Nobody}]
  BY HoldersAfter DEF ArmInv
<1>2. \A t \in Tasks : Holder(t)' \in {Holder(t), Nobody}
  BY QuietStep, HolderLapses DEF ArmInv
<1>3. TheDone' = TheDone BY SameLedger DEF TheDone
<1> QED BY <1>1, <1>2, <1>3 DEF Contract!Lapse, Contract!Lapses, TheHolder, TheDone

(* An observed claim is a grant, an observed completion a completion,      *)
(* anything else at most ends a lease.                                     *)
LEMMA ObservedImplements ==
  ASSUME ArmInv, ArmInv', NEW s \in Launch, NEW c \in Own, Fit(s, c), Grows(c),
         Able(s), stage'[s] = "open", \A r \in Launch : Able(r)' => Able(r)
  PROVE  Contract!Next
<1>0. Ledger /\ ArmTyped /\ ExclusiveInv /\ ExclusiveInv' BY DEF ArmInv, Ledger
<1>1. c.kind = "task" => Author[c.on] = c.by BY DEF Fit
<1>2. c.by = s BY DEF Fit
<1>3. TheHolder' \in [Tasks -> Launch \cup {Nobody}]
  BY HoldersAfter DEF ArmInv
<1>4. ASSUME NEW t \in Tasks, ~(c.kind = "claim" /\ c.on = t)
      PROVE  /\ Holder(t)' \in {Holder(t), Nobody}
             /\ LiveLeases(t)' \subseteq LiveLeases(t)
  <2>1. \A i \in LiveLeases(t)' : i \in LiveLeases(t) /\ i \in Refs
    BY <1>0, <1>4, GrownLive
  <2>2. \A i \in LiveLeases(t)' : i \in LiveLeases(t) /\ entries'[i] = entries[i]
    BY <1>0, <2>1, GrownRefs
  <2> QED BY <1>0, <2>1, <2>2, HolderLapses
<1>5. \A t \in Tasks : Completed(t) => Completed(t)'
  BY <1>0, <1>1, GrownCompleted DEF Completed
<1>6. \A t \in Tasks : Completed(t)' =>
        Completed(t) \/ (c.kind = "outcome" /\ c.on = t /\ c.disposition = "COMPLETED")
  BY <1>0, <1>1, GrownCompleted DEF Completed
<1>7. CASE c.kind = "claim"
  <2>1. PICK t \in Tasks : t = c.on BY <1>7, ClaimShape DEF Entry
  <2>2. LiveLeases(t) = {} /\ ~Completed(t) /\ t \in Worklist
    BY <1>7, <2>1, FitClaim
  <2>3. Holder(t) = Nobody BY <2>2 DEF Holder
  <2>4. \A u \in Depends[t] : u \in Tasks /\ Completed(u)
    BY <1>7, <2>1, RulesAssumption DEF Fit, ClaimAccepted
  <2>5. Holder(t)' = s
    <3>1. PICK n : n = Len(entries) + 1 OBVIOUS
    <3>2. Able(c.by)' BY <1>2 DEF Able
    <3>3. n \in LiveLeases(t)' BY <1>0, <1>7, <2>1, <2>2, <3>1, <3>2, GrownGrant
    <3>4. entries'[n] = c BY <1>0, <3>1, GrownRefs
    <3>5. LiveLeases(t)' = {n} BY <1>0, <3>3 DEF ExclusiveInv
    <3>6. (CHOOSE j \in LiveLeases(t)' : TRUE) = n BY <3>5
    <3> QED BY <1>2, <3>4, <3>5, <3>6 DEF Holder
  <2>6. TheDone' = TheDone BY <1>5, <1>6, <1>7 DEF TheDone
  <2>7. Contract!Grant(t, s)
    <3>1. TheHolder[t] = Nobody /\ t \notin TheDone /\ Depends[t] \subseteq TheDone
      BY <2>2, <2>3, <2>4 DEF TheHolder, TheDone
    <3>2. TheHolder'[t] = s BY <2>5 DEF TheHolder
    <3>3. \A u \in Tasks \ {t} : TheHolder'[u] \in {TheHolder[u], Nobody}
      BY <1>4, <2>1 DEF TheHolder
    <3> QED BY <1>3, <2>6, <3>1, <3>2, <3>3
        DEF Contract!Grant, Contract!Lapses, TheHolder, TheDone
  <2> QED BY <2>7 DEF Contract!Next
<1>8. CASE /\ c.kind = "outcome" /\ ~Completed(c.on) /\ Completed(c.on)'
  <2>1. PICK t \in Tasks : t = c.on BY <1>8, ClaimShape DEF Entry
  <2>2. PICK i : i = c.claim OBVIOUS
  <2>3. i \in LiveLeases(t) BY <1>8, <2>1, <2>2, FitOutcome
  <2>4. Holder(t) # Nobody BY <1>0, <2>3, HolderIs
  <2>5. ~Completed(t) BY <1>8, <2>1
  <2>6. Completed(t)'
    BY <1>8, <2>1
  <2>7. LiveLeases(t)' = {} BY <1>0, <2>6 DEF ExclusiveInv
  <2>8. Holder(t)' = Nobody BY <2>7 DEF Holder
  <2>9. TheDone' = TheDone \cup {t}
    BY <1>5, <1>6, <2>1, <2>6 DEF TheDone
  <2>10. Contract!Complete(t)
    <3>1. TheHolder[t] # Nobody /\ t \notin TheDone
      BY <2>4, <2>5 DEF TheHolder, TheDone
    <3>2. TheHolder'[t] = Nobody BY <2>8 DEF TheHolder
    <3>3. \A u \in Tasks \ {t} : TheHolder'[u] \in {TheHolder[u], Nobody}
      BY <1>4, <1>8 DEF TheHolder
    <3> QED BY <1>3, <2>9, <3>1, <3>2, <3>3
        DEF Contract!Complete, Contract!Lapses, TheHolder, TheDone
  <2> QED BY <2>10 DEF Contract!Next
<1>9. CASE /\ c.kind # "claim"
           /\ \A t \in Tasks : Completed(t)' => Completed(t)
  <2>1. TheDone' = TheDone BY <1>5, <1>9 DEF TheDone
  <2>2. \A t \in Tasks : Holder(t)' \in {Holder(t), Nobody} BY <1>4, <1>9
  <2>3. Contract!Lapse
    BY <1>3, <2>1, <2>2 DEF Contract!Lapse, Contract!Lapses, TheHolder, TheDone
  <2> QED BY <2>3 DEF Contract!Next
<1>10. CASE c.kind # "claim" /\ \E t \in Tasks : ~Completed(t) /\ Completed(t)'
  <2>1. PICK t \in Tasks : ~Completed(t) /\ Completed(t)' BY <1>10
  <2>2. c.kind = "outcome" /\ t = c.on BY <1>6, <2>1
  <2> QED BY <1>8, <2>1, <2>2
<1> QED BY <1>7, <1>9, <1>10

(* The worklist the sessions see is WorklistContract's: a task is leased   *)
(* to one session at a time, when what it depends on is completed, and its *)
(* holder alone completes it (review, observe and settle together).        *)
THEOREM ArmKeepsContract == Spec => ImplementsWorklist
<1>1. Init => Contract!Init
  <2> SUFFICES ASSUME Init PROVE Contract!Init
    OBVIOUS
  <2>1. \A t \in Tasks : Holder(t) = Nobody
    <3> SUFFICES ASSUME NEW t \in Tasks PROVE LiveLeases(t) = {}
      BY DEF Holder
    <3>1. ArmInv BY ArmStarts
    <3>2. \A i \in Refs : i <= BaseTick
      <4>1. entries \in [1..BaseTick -> Base] BY DEF Init, Orders, BaseTick
      <4> QED BY <4>1, BaseTickIsNat DEF Refs
    <3>3. \A i \in Refs : entries[i].by \notin Launch
      BY <3>1, <3>2, Indexed, Apart
    <3> QED BY <3>3 DEF LiveLeases, Blocking, Able
  <2> QED BY <2>1 DEF Contract!Init
<1>2. ArmInv /\ ArmInv' /\ [Next]_vars => [Contract!Next]_(Contract!worklistVars)
  <2> SUFFICES ASSUME ArmInv, ArmInv', [Next]_vars PROVE Contract!Next
    OBVIOUS
  <2>1. CASE entries' = entries
    BY <2>1, LedgerStep, QuietLapses DEF Contract!Next
  <2>2. CASE entries' # entries
    BY <2>2, LedgerStep, ObservedImplements
  <2> QED BY <2>1, <2>2
<1> QED BY <1>1, <1>2, ArmIsInductive, PTL DEF Spec, ImplementsWorklist, Contract!Spec
==============================================================================
