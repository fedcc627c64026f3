----------------------------- MODULE AgendaArm -----------------------------
(***************************************************************************)
(* The agenda arm of a launch (experiments/agenda_arm.py) over the pure    *)
(* lease rules of agenda_treatments/worklist.py, as the orchestrator calls *)
(* it: review, the publisher's await and observe under one lock, settle    *)
(* with the session's receipt.                                             *)
(*                                                                         *)
(* An admission ref stands for the bound record it was made from: the      *)
(* world is idempotent, publishing the same record twice admits it once.   *)
(* Records that touch no lease (proposals, routes, directives, plain       *)
(* speech) only make the clock tick and are all "plain".                   *)
(***************************************************************************)
EXTENDS Integers, Sequences, FiniteSets

CONSTANTS Launch,      \* sessions of this launch
          Others,      \* authors of the world as it was at launch
          Admitters,   \* roles.admitting_session_ids
          Tasks,       \* refs of task admissions, each with
          Author,      \*   its author
          Depends,     \*   and its dependency_task_refs
          Leases,      \* lease_ticks a claim may ask for
          Texts,       \* otherwise equal records differ in their text
          Base,        \* records of the world at launch
          MaxLedger,   \* bound on the world's admissions
          Faults       \* "publish": a publisher raises; "drift": it admits
                       \* something other than what was reviewed

Free == "free"   \* agenda_lock is not held

ASSUME PartiesAssumption ==
  /\ Launch \cap Others = {} /\ Free \notin Launch
  /\ Admitters \subseteq Launch \cup Others
ASSUME RulesAssumption ==
  /\ Author \in [Tasks -> Launch \cup Others]
  /\ Depends \in [Tasks -> SUBSET Tasks]
  /\ Leases \subseteq Nat \ {0} /\ MaxLedger \in Nat
  /\ IsFiniteSet(Base)
(* A record of the world at launch is by an author of that time, and so is *)
(* the task it is about.                                                   *)
ASSUME BaseAssumption ==
  \A r \in Base :
    /\ r.by \in Others
    /\ r.kind \in {"task", "claim", "release", "outcome"} =>
         r.on \in Tasks /\ Author[r.on] \in Others
    /\ r.kind = "claim" => r.ticks \in Nat \ {0}

(* Bound records, as far as the lease rules read them; a closing record    *)
(* names its claim by the claim's position in the arm's ledger.            *)
Task(t)             == [kind |-> "task", by |-> Author[t], on |-> t]
Claim(s, t, k, n)   == [kind |-> "claim", by |-> s, on |-> t, ticks |-> k, text |-> n]
Release(s, t, i)    == [kind |-> "release", by |-> s, on |-> t, claim |-> i]
Outcome(s, t, i, d) == [kind |-> "outcome", by |-> s, on |-> t, claim |-> i,
                        disposition |-> d]
Plain(s, n)         == [kind |-> "plain", by |-> s, text |-> n]
Opaque(s, n)        == [kind |-> "opaque", by |-> s, text |-> n]

VARIABLES
  world,     \* truth: the world's records in the order of their admission
  entries,   \* _entries: the arm's ledger; its length is now_tick
  lock,      \* holder of agenda_lock
  offer,     \* session -> its contribution under publication
  stage,     \* session -> open, reviewed, admitted, failed or settled
  released   \* session -> released_claim_refs of its receipt

vars == <<world, entries, lock, offer, stage, released>>

NoOffer == [kind |-> "none"]
BaseTick == Cardinality(Base)
NowTick == Len(entries)
Refs == DOMAIN entries

-----------------------------------------------------------------------------
(* The lease algebra of worklist.py, over the arm's ledger. *)

(* Mutant: an old admission is dated by its place in the sorted ledger.    *)
TickByPlace(i) == i

(* An admission that predates the launch is dated to the opening tick.     *)
Tick(i) == IF i <= BaseTick THEN BaseTick ELSE i

IsClaim(i) == i \in Refs /\ entries[i].kind = "claim"

(* admitted_tasks *)
Worklist == {entries[i].on : i \in {j \in Refs : /\ entries[j].kind = "task"
                                                 /\ entries[j].by \in Admitters}}

(* A closing record counts only if the claim's own holder wrote it.        *)
InCustody(j) ==
  LET i == entries[j].claim IN
  IsClaim(i) /\ entries[i].by = entries[j].by /\ entries[i].on = entries[j].on

Closed(i) ==
  \E j \in Refs : /\ entries[j].kind \in {"release", "outcome"}
                  /\ entries[j].claim = i /\ InCustody(j)

Expired(i) == NowTick >= Tick(i) + entries[i].ticks

(* blocking_claim_refs; the host dates every admission, so no claim is     *)
(* undecidable.                                                            *)
Blocking(t) ==
  {i \in Refs : /\ t \in Worklist /\ IsClaim(i) /\ entries[i].on = t
                /\ ~Closed(i) /\ ~Expired(i)}

(* task_is_completed *)
CompletedAt(t) ==
  {j \in Refs : /\ t \in Worklist
                /\ entries[j].kind = "outcome" /\ entries[j].on = t
                /\ entries[j].disposition = "COMPLETED" /\ InCustody(j)}
Completed(t) == CompletedAt(t) # {}

-----------------------------------------------------------------------------
(* review: the plugin's verdict, then for claims the host's release rule.  *)

(* A holder outside this launch is dead by construction. *)
HolderIsReleased(s) == s \notin Launch \/ stage[s] = "settled"

(* Mutant: dependencies need only be known.                                *)
ClaimAcceptedUnready(t) ==
  /\ t \in Worklist /\ ~Completed(t)
  /\ Depends[t] \subseteq Worklist
  /\ \A i \in Blocking(t) : HolderIsReleased(entries[i].by)

ClaimAccepted(t) ==
  /\ t \in Worklist /\ ~Completed(t)
  /\ \A u \in Depends[t] : u \in Worklist /\ Completed(u)
  /\ \A i \in Blocking(t) : HolderIsReleased(entries[i].by)

HeldBy(s, t, i) ==
  t \in Worklist /\ IsClaim(i) /\ entries[i].on = t /\ entries[i].by = s

(* Mutant: an expired lease may still report an outcome.                   *)
OutcomeAcceptedLate(s, t, i) == HeldBy(s, t, i) /\ ~Closed(i)

OutcomeAccepted(s, t, i) == HeldBy(s, t, i) /\ ~Closed(i) /\ ~Expired(i)

(* Contributions of s the arm admits now; ABANDONED is as good as BLOCKED. *)
Admissible(s) ==
  {Task(t) : t \in {u \in Tasks : /\ Author[u] = s /\ s \in Admitters
                                 /\ Depends[u] \subseteq Worklist}}
  \cup {Claim(s, t, k, n) : t \in {u \in Tasks : ClaimAccepted(u)},
                            k \in Leases, n \in Texts}
  \cup {Release(s, entries[i].on, i) :
          i \in {j \in Refs : IsClaim(j) /\ HeldBy(s, entries[j].on, j) /\ ~Closed(j)}}
  \cup {Outcome(s, entries[i].on, i, d) :
          i \in {j \in Refs : IsClaim(j) /\ OutcomeAccepted(s, entries[j].on, j)},
          d \in {"COMPLETED", "BLOCKED"}}
  \cup {Plain(s, n) : n \in Texts}

-----------------------------------------------------------------------------
(* Orderings of a finite set. *)
Orders(S) == {q \in [1..Cardinality(S) -> S] :
                \A i, j \in DOMAIN q : q[i] = q[j] => i = j}

(* The world adapter returns the base sorted by ref, not by admission; in  *)
(* the world a task came before the claims on it.                          *)
Init ==
  /\ world \in {q \in Orders(Base) : \A i, j \in DOMAIN q :
                  q[i].kind = "task" /\ q[j].kind = "claim" /\ q[i].on = q[j].on => i < j}
  /\ entries \in Orders(Base)
  /\ lock = Free /\ offer = [s \in Launch |-> NoOffer]
  /\ stage = [s \in Launch |-> "open"]
  /\ released = [s \in Launch |-> {}]

(* Mutant: the lock is not taken.                                          *)
ReviewUnlocked(s) ==
  /\ stage[s] = "open" /\ Len(world) < MaxLedger
  /\ \E c \in Admissible(s) : offer' = [offer EXCEPT ![s] = c]
  /\ stage' = [stage EXCEPT ![s] = "reviewed"] /\ lock' = s
  /\ UNCHANGED <<world, entries, released>>

(* _publish takes the lock for one contribution and has it reviewed; a     *)
(* rejected one is recorded and skipped.                                   *)
Review(s) ==
  /\ stage[s] = "open" /\ lock = Free /\ Len(world) < MaxLedger
  /\ \E c \in Admissible(s) : offer' = [offer EXCEPT ![s] = c]
  /\ stage' = [stage EXCEPT ![s] = "reviewed"] /\ lock' = s
  /\ UNCHANGED <<world, entries, released>>

(* Somewhere inside the publisher's await the world admits the record.     *)
Admitted(s) ==
  /\ stage[s] = "reviewed"
  /\ \E c \in {offer[s]} \cup {Opaque(s, n) : n \in IF "drift" \in Faults THEN Texts ELSE {}} :
       /\ offer' = [offer EXCEPT ![s] = c]
       /\ world' = IF \E i \in DOMAIN world : world[i] = c
                     THEN world ELSE Append(world, c)
  /\ stage' = [stage EXCEPT ![s] = "admitted"]
  /\ UNCHANGED <<entries, lock, released>>

(* observe: a ref that is already in the ledger makes no tick.  A result   *)
(* without an admission_ref, which observe notes and does not enter, is    *)
(* not modelled: the abstract publisher always returns one.                *)
Observed(s) ==
  /\ stage[s] = "admitted"
  /\ entries' = IF \E i \in Refs : entries[i] = offer[s]
                  THEN entries ELSE Append(entries, offer[s])
  /\ stage' = [stage EXCEPT ![s] = "open"]
  /\ lock' = Free /\ offer' = [offer EXCEPT ![s] = NoOffer]
  /\ UNCHANGED <<world, released>>

(* The publisher raises before or after the admission, or its identity has *)
(* drifted; the rest of the session's contributions is not published.      *)
PublishFails(s) ==
  /\ "publish" \in Faults
  /\ stage[s] \in {"reviewed", "admitted"} \/ (stage[s] = "open" /\ lock = Free)
  /\ stage' = [stage EXCEPT ![s] = "failed"]
  /\ lock' = Free /\ offer' = [offer EXCEPT ![s] = NoOffer]
  /\ UNCHANGED <<world, entries, released>>

(* Mutant: a session whose publication failed settles without its leases.  *)
ReleasedRefsUnlessFailed(s) ==
  {i \in Refs : /\ IsClaim(i) /\ entries[i].by = s /\ stage[s] # "failed"
                /\ i \in Blocking(entries[i].on)}

(* The session's claims that still occupy a task. *)
ReleasedRefs(s) ==
  {i \in Refs : IsClaim(i) /\ entries[i].by = s /\ i \in Blocking(entries[i].on)}

(* settle, called when the session's receipt is built.                     *)
Settle(s) ==
  /\ stage[s] \in {"open", "failed"}
  /\ released' = [released EXCEPT ![s] = ReleasedRefs(s)]
  /\ stage' = [stage EXCEPT ![s] = "settled"]
  /\ UNCHANGED <<world, entries, lock, offer>>

Next == \E s \in Launch :
  Review(s) \/ Admitted(s) \/ Observed(s) \/ PublishFails(s) \/ Settle(s)

Spec == Init /\ [][Next]_vars
=============================================================================
