----------------------- MODULE WorkStore_queue_proofs -----------------------
(***************************************************************************)
(* What those who queue work rely on, for every instance of WorkStore: due *)
(* times, attempts, dead rows, and that the table implements WorkQueue.    *)
(***************************************************************************)
EXTENDS WorkStore_proofs

(* What a step makes of one key. *)

Left(k) == work'[k] = work[k] /\ asks'[k] = asks[k] /\ wanted'[k] = wanted[k] /\ misses'[k] = misses[k]

Upserted(k) ==
    \E due \in Nat :
        /\ work'[k] = IF IsRow(k) THEN Rearmed(work[k], due) ELSE NewRow(due)
        /\ asks'[k] = [asks[k] EXCEPT !.made = @ + 1]
        /\ wanted'[k] = due
        /\ misses'[k] = IF IsRow(k) /\ ~work[k].dead THEN misses[k] ELSE 0
        /\ k \in Landed => asks[k].made = 0

CalledOff(k) ==
    /\ k \in Landed /\ IsRow(k) /\ ~work[k].dead
    /\ work'[k] = NoRow
    /\ asks'[k].made = asks[k].made /\ asks'[k].taken = asks[k].taken
    /\ wanted'[k] = wanted[k] /\ misses'[k] = misses[k]

TakenUp(k) ==
    \E token \in (tokens + 1)..tokens' :
        /\ k \in Due
        /\ work'[k] = Taken(work[k], token)
        /\ asks'[k] = [asks[k] EXCEPT !.taken = asks[k].made]
        /\ wanted'[k] = wanted[k]
        /\ misses'[k] = IF work[k].token # NoLease THEN misses[k] + 1 ELSE misses[k]

\* What an ended claim leaves of its own row, and of its count of misses.
FinishedAs(c, row, missed) ==
    \/ ~PastCap(c) /\ row = Completed(c) /\ missed = 0
    \/ ~PastCap(c) /\ missed = 0 /\ \E due \in Nat : row = Released(c, "rescheduled", due)
    \/ missed = misses[c.key] /\ \E due \in Nat : row = Released(c, "busy", due)
    \/ ~GivesUpNow(c) /\ missed = misses[c.key] + 1 /\ \E due \in Nat : row = Released(c, "failed", due)
    \/ GivesUpNow(c) /\ row = Buried(c) /\ missed = IF PastCap(c) THEN misses[c.key] ELSE misses[c.key] + 1

Finished(k) ==
    \E w \in Workers : \E c \in InHand(w) :
        /\ c.key = k /\ Owns(c)
        /\ FinishedAs(c, work'[k], misses'[k])
        /\ asks'[k].made = asks[k].made /\ asks'[k].taken = asks[k].taken
        /\ wanted'[k] = wanted[k]

\* A worker's claim ends, and its own row, if it still owns it, becomes `row`.
Ending(w, c, row, missed) ==
    /\ Ends(w, c, row)
    /\ Answers(c) \/ UNCHANGED asks
    /\ misses' = IF Owns(c) THEN [misses EXCEPT ![c.key] = missed] ELSE misses
    /\ FinishedAs(c, row, missed)

\* Nothing happens to a key but this.
KeySteps(k) == Left(k) \/ Upserted(k) \/ CalledOff(k) \/ TakenUp(k) \/ Finished(k)

\* A claim in hand after a step was in hand before it, or takes its row in it.
NewClaim(c) == TakenUp(c.key) /\ c.version = work'[c.key].version /\ c.attempts = work'[c.key].attempts

OldClaim(w, c) == c \in InHand(w) /\ (Owns(c)' => Owns(c))

ClaimSteps(w) == \A c \in InHand(w)' : OldClaim(w, c) \/ NewClaim(c)

-----------------------------------------------------------------------------
(* The inductive invariant. *)

AsksCounted(k) ==
    asks[k].taken <= asks[k].made /\ (k \in Landed => asks[k].made <= 1)

RowIsAsked(k) ==
    IsRow(k) => asks[k].made >= 1 /\ (work[k].token # NoLease => asks[k].taken >= 1)

RearmInTime(k) ==
    IsRow(k) /\ asks[k].made > asks[k].taken => work[k].due <= wanted[k]

\* The attempts a live row counts that neither ended well nor are still going on.
Ended(k) == IF work[k].token = NoLease THEN work[k].attempts ELSE work[k].attempts - 1

MissesCounted(k) ==
    IsRow(k) /\ ~work[k].dead =>
        /\ misses[k] <= Ended(k) /\ Ended(k) >= 0
        /\ CompleteResets => misses[k] >= Ended(k) \/ misses[k] >= MaxAttempts

DeadHadItsAttempts(k) ==
    IsRow(k) /\ work[k].dead => k \in GivesUp /\ (CompleteResets => misses[k] >= MaxAttempts)

KeyInv(k) ==
    AsksCounted(k) /\ RowIsAsked(k) /\ RearmInTime(k) /\ MissesCounted(k) /\ DeadHadItsAttempts(k)

MovedIsAsked(c) == Owns(c) /\ ~Unmoved(c) => asks[c.key].made > asks[c.key].taken

AttemptsAreRows(c) == Owns(c) => c.attempts = work[c.key].attempts

QueueInv ==
    /\ AskInv
    /\ \A k \in Keys : KeyInv(k)
    /\ \A w \in Workers : \A c \in InHand(w) : MovedIsAsked(c) /\ AttemptsAreRows(c)

-----------------------------------------------------------------------------
(* Every step is one of the steps above at each key. *)

\* The counts and the table have their types.
LEMMA AskTypes ==
    ASSUME AskInv
    PROVE  /\ TypeOK /\ now \in Nat /\ tokens \in Nat
           /\ work \in [Keys -> Row \cup {NoRow}] /\ asks \in [Keys -> Asks]
           /\ wanted \in [Keys -> Nat] /\ misses \in [Keys -> Nat]
           /\ hand \in [Workers -> Seq(Claim)]
BY DEF AskInv, ClaimInv, TypeOK

\* A step that leaves the table, the counts and, but for claims dropped, the
\* hands.
LEMMA IdleShape ==
    ASSUME UNCHANGED <<work, asks, wanted, misses>>, \A w \in Workers : InHand(w)' \subseteq InHand(w)
    PROVE  /\ \A k \in Keys : KeySteps(k)
           /\ \A w \in Workers : ClaimSteps(w)
BY DEF KeySteps, Left, ClaimSteps, OldClaim, Owns, IsRow

\* A queue write is an upsert of its key, and no claim comes to own a row by it.
LEMMA UpsertShape ==
    ASSUME AskInv, NEW k \in Keys, NEW due \in Nat, k \in Landed => asks[k].made = 0,
           Asked(k, due), Upsert(k, due)
    PROVE  /\ \A j \in Keys : KeySteps(j)
           /\ \A w \in Workers : ClaimSteps(w)
<1>0. /\ work \in [Keys -> Row \cup {NoRow}] /\ asks \in [Keys -> Asks]
      /\ wanted \in [Keys -> Nat] /\ misses \in [Keys -> Nat]
  BY AskTypes
<1>1. ASSUME NEW j \in Keys, j # k
      PROVE  Left(j)
  BY <1>0, <1>1 DEF Asked, Upsert, Left
<1>2. Upserted(k)
  BY <1>0 DEF Asked, Upsert, Upserted
<1>3. ASSUME NEW w \in Workers, NEW c \in InHand(w)', Owns(c)'
      PROVE  c \in InHand(w) /\ Owns(c)
  <2>1. c \in InHand(w)
    BY DEF InHand, Upsert
  <2>2. c.key \in Keys /\ c.token # NoLease
    BY <2>1, InHandType DEF AskInv, ClaimInv
  <2>3. CASE c.key # k
    BY <1>1, <1>3, <2>1, <2>2, <2>3 DEF Left, Owns, IsRow
  <2>4. CASE c.key = k
    <3>1. IsRow(k)
      BY <1>0, <1>3, <2>2, <2>4 DEF Upsert, NewRow, Owns
    <3>2. work[k] \in Row
      BY <1>0, <3>1 DEF IsRow
    <3>3. work'[k].id = work[k].id /\ work'[k].token = work[k].token
      BY <1>0, <3>1, <3>2 DEF Upsert, Rearmed, Row
    <3> QED
      BY <1>3, <2>1, <2>4, <3>1, <3>3 DEF Owns
  <2> QED
    BY <2>3, <2>4
<1>4. \A w \in Workers : InHand(w)' = InHand(w)
  BY DEF InHand, Upsert
<1> QED
  BY <1>1, <1>2, <1>3, <1>4 DEF KeySteps, ClaimSteps, OldClaim

\* A caller completes its own key.
LEMMA CompleteKeyShape ==
    ASSUME AskInv, NEW k \in Keys, CompleteKey(k)
    PROVE  /\ \A j \in Keys : KeySteps(j)
           /\ \A w \in Workers : ClaimSteps(w)
<1>0. work \in [Keys -> Row \cup {NoRow}] /\ asks \in [Keys -> Asks]
  BY AskTypes
<1>1. ASSUME NEW j \in Keys, j # k
      PROVE  Left(j)
  BY <1>0, <1>1 DEF CompleteKey, Left
<1>2. CalledOff(k)
  BY <1>0 DEF CompleteKey, CalledOff, Asks
<1>3. ASSUME NEW w \in Workers, NEW c \in InHand(w)
      PROVE  Owns(c)' => Owns(c)
  <2>1. c.key \in Keys
    BY InHandType DEF AskInv, ClaimInv
  <2> QED
    BY <1>0, <2>1 DEF CompleteKey, Owns, IsRow
<1>4. \A w \in Workers : InHand(w)' = InHand(w)
  BY DEF InHand, CompleteKey
<1> QED
  BY <1>1, <1>2, <1>3, <1>4 DEF KeySteps, ClaimSteps, OldClaim

\* A claim takes the rows of its batch up; those the worker has in hand after
\* are its own claims of them.
LEMMA ClaimDueShape ==
    ASSUME AskInv, NEW w \in Workers, ClaimDue(w)
    PROVE  /\ \A k \in Keys : KeySteps(k)
           /\ \A v \in Workers : ClaimSteps(v)
<1>1. PICK n \in 1..RowsPerDrain : \E batch \in [1..n -> Due] : ClaimBatch(w, n, batch)
  BY DEF ClaimDue
<1>2. PICK batch \in [1..n -> Due] : ClaimBatch(w, n, batch)
  BY <1>1
<1>3. /\ n \in Nat /\ tokens \in Nat /\ tokens' = tokens + n /\ DOMAIN batch = 1..n
      /\ hand \in [Workers -> Seq(Claim)] /\ work \in [Keys -> Row \cup {NoRow}]
      /\ asks \in [Keys -> Asks] /\ now \in Nat
  BY <1>2, AskTypes, LimitsAssumption DEF ClaimBatch
<1>4. /\ hand'[w] = [i \in 1..n |-> ClaimOf(batch, i)]
      /\ \A v \in Workers : v # w => hand'[v] = hand[v]
      /\ wanted' = wanted
      /\ \A k \in Keys : work'[k] = IF Picked(batch, k)
                                    THEN Taken(work[k], tokens + PlaceOf(batch, k))
                                    ELSE work[k]
      /\ \A k \in Keys : asks'[k] = IF Picked(batch, k) THEN [asks[k] EXCEPT !.taken = asks[k].made] ELSE asks[k]
      /\ \A k \in Keys : misses'[k] = IF Picked(batch, k) /\ work[k].token # NoLease THEN misses[k] + 1 ELSE misses[k]
  BY <1>2, <1>3 DEF ClaimBatch
<1>5. ASSUME NEW k \in Keys, Picked(batch, k)
      PROVE  TakenUp(k) /\ work'[k].token \in (tokens + 1)..(tokens + n)
  <2>1. k \in Due /\ PlaceOf(batch, k) \in 1..n
    BY <1>3, <1>5 DEF Picked, PlaceOf
  <2>2. tokens + PlaceOf(batch, k) \in (tokens + 1)..tokens'
    BY <1>3, <2>1
  <2>3. work[k] \in Row
    BY <1>3, <2>1 DEF Due, IsRow
  <2>4. Taken(work[k], tokens + PlaceOf(batch, k)).token = tokens + PlaceOf(batch, k)
    BY <2>3 DEF Taken, Row
  <2>5. /\ work'[k] = Taken(work[k], tokens + PlaceOf(batch, k))
        /\ asks'[k] = [asks[k] EXCEPT !.taken = asks[k].made]
        /\ wanted'[k] = wanted[k]
        /\ misses'[k] = IF work[k].token # NoLease THEN misses[k] + 1 ELSE misses[k]
    BY <1>4, <1>5
  <2>6. TakenUp(k)
    BY <2>1, <2>2, <2>5 DEF TakenUp
  <2>7. work'[k].token \in (tokens + 1)..(tokens + n)
    BY <1>3, <2>1, <2>4, <2>5
  <2> QED
    BY <2>6, <2>7
<1>6. ASSUME NEW k \in Keys, ~Picked(batch, k)
      PROVE  Left(k)
  BY <1>4, <1>6 DEF Left
<1>7. ASSUME NEW c \in InHand(w)'
      PROVE  NewClaim(c)
  <2>1. PICK i \in 1..n : c = ClaimOf(batch, i)
    BY <1>4 DEF InHand
  <2>2. batch[i] \in Due /\ batch[i] \in Keys /\ Picked(batch, batch[i])
    BY <1>3 DEF Due, Picked
  <2>3. work[batch[i]] \in Row
    BY <1>3, <2>2 DEF Due, IsRow
  <2>4. /\ work'[batch[i]].version = work[batch[i]].version + 1
        /\ work'[batch[i]].attempts = work[batch[i]].attempts + 1
    BY <1>4, <2>2, <2>3 DEF Taken, Row
  <2> QED
    BY <1>5, <2>1, <2>2, <2>4 DEF NewClaim, ClaimOf
<1>8. ASSUME NEW v \in Workers, v # w, NEW c \in InHand(v)'
      PROVE  OldClaim(v, c)
  <2>1. c \in InHand(v)
    BY <1>4, <1>8 DEF InHand
  <2>2. c.key \in Keys /\ c.token \in Nat /\ c.token <= tokens
    BY <2>1, InHandType DEF AskInv, ClaimInv
  <2>3. CASE Picked(batch, c.key)
    BY <1>3, <1>5, <2>1, <2>2, <2>3 DEF OldClaim, Owns
  <2>4. CASE ~Picked(batch, c.key)
    BY <1>6, <2>1, <2>2, <2>4 DEF OldClaim, Left, Owns, IsRow
  <2> QED
    BY <2>3, <2>4
<1> QED
  BY <1>5, <1>6, <1>7, <1>8 DEF KeySteps, ClaimSteps

\* A claim that ends finishes its own row, if it still owns it.
LEMMA EndsShape ==
    ASSUME AskInv, NEW w \in Workers, Working(w), NEW c, c = Head(hand[w]),
           NEW row, NEW missed, Ending(w, c, row, missed)
    PROVE  /\ \A k \in Keys : KeySteps(k)
           /\ \A v \in Workers : ClaimSteps(v)
<1>0. /\ Ends(w, c, row) /\ (Answers(c) \/ UNCHANGED asks) /\ FinishedAs(c, row, missed)
      /\ misses' = IF Owns(c) THEN [misses EXCEPT ![c.key] = missed] ELSE misses
  BY DEF Ending
<1>1. /\ c \in InHand(w)
      /\ \A v \in Workers : InHand(v)' \subseteq InHand(v)
  <2>1. /\ c = hand[w][1] /\ 1 \in DOMAIN hand[w]
        /\ \A v \in Workers : \A i \in DOMAIN hand'[v] :
              \E j \in DOMAIN hand[v] : hand'[v][i] = hand[v][j] /\ (v = w => j # 1)
    <3>1. Ends(w, Head(hand[w]), row) /\ TypeOK
      BY <1>0, AskTypes
    <3>2. /\ 1 \in DOMAIN hand[w] /\ Head(hand[w]) = hand[w][1]
          /\ \A v \in Workers : \A i \in DOMAIN hand'[v] :
                \E j \in DOMAIN hand[v] : hand'[v][i] = hand[v][j] /\ (v = w => j # 1)
      BY <3>1, TailOfHand
    <3> QED
      BY <3>2
  <2> QED
    BY <2>1 DEF InHand
<1>2. c.key \in Keys /\ c.token # NoLease
  BY <1>1, InHandType DEF AskInv, ClaimInv
<1>3. work \in [Keys -> Row \cup {NoRow}] /\ asks \in [Keys -> Asks] /\ misses \in [Keys -> Nat]
  BY AskTypes
<1>4. ASSUME NEW k \in Keys, ~(Owns(c) /\ k = c.key)
      PROVE  Left(k)
  BY <1>0, <1>2, <1>3, <1>4 DEF Left, Ends, Answers
<1>5. ASSUME Owns(c)
      PROVE  Finished(c.key)
  <2>1. work'[c.key] = row /\ misses'[c.key] = missed /\ wanted' = wanted
    BY <1>0, <1>2, <1>3, <1>5 DEF Ends
  <2>2. asks'[c.key].made = asks[c.key].made /\ asks'[c.key].taken = asks[c.key].taken
    BY <1>0, <1>2, <1>3, <1>5 DEF Answers, Asks
  <2> QED
    BY <1>0, <1>1, <1>5, <2>1, <2>2 DEF Finished
<1>6. ASSUME NEW v \in Workers, NEW d \in InHand(v)', Owns(d)'
      PROVE  Owns(d)
  <2>1. d \in InHand(v) /\ d.key \in Keys /\ d.token # NoLease
    BY <1>1, InHandType DEF AskInv, ClaimInv
  <2>2. CASE Owns(c) /\ d.key = c.key
    <3>1. work'[c.key] = row /\ IsRow(c.key)
      BY <1>0, <1>2, <1>3, <2>2 DEF Ends, Owns
    <3>2. row # NoRow => row.token = NoLease
      <4>1. \/ row = Completed(c)
            \/ row = Buried(c)
            \/ \E why \in {"failed", "busy", "rescheduled"}, due \in Nat : row = Released(c, why, due)
        BY <1>0 DEF FinishedAs
      <4> QED
        BY <1>1, <2>2, <4>1, FinishedRow
    <3> QED
      BY <1>6, <2>1, <2>2, <3>1, <3>2 DEF Owns, IsRow
  <2>3. CASE ~(Owns(c) /\ d.key = c.key)
    BY <1>4, <1>6, <2>1, <2>3 DEF Left, Owns, IsRow
  <2> QED
    BY <2>2, <2>3
<1> QED
  BY <1>1, <1>4, <1>5, <1>6 DEF KeySteps, ClaimSteps, OldClaim

\* However a worker ends a claim, it is one of the endings above.
LEMMA EndingOf ==
    ASSUME AskInv, NEW w \in Workers,
           \/ Complete(w)
           \/ \E due \in now..Horizon : Reschedule(w, due)
           \/ ReleaseBusy(w)
           \/ Fail(w)
           \/ GiveUp(w)
           \/ GiveUpLater(w)
    PROVE  Working(w) /\ \E row, missed : Ending(w, Head(hand[w]), row, missed)
<1> DEFINE c == Head(hand[w])
<1>1. Working(w)
  BY DEF Complete, Reschedule, ReleaseBusy, Fail, GiveUp, GiveUpLater
<1>2. c.key \in Keys /\ c.attempts \in Nat /\ misses \in [Keys -> Nat] /\ now \in Nat
  BY <1>1, HandType, AskTypes DEF Claim
<1> HIDE DEF c
<1>3. now + BusyRetry \in Nat /\ now + FailedRetry(c.attempts) \in Nat
  <2>1. FailedRetry(c.attempts) \in Nat
    BY <1>2, FailedRetryType
  <2> QED
    BY <1>2, <2>1, DelayTypes
<1>4. CASE Complete(w)
  <2>1. Ending(w, c, Completed(c), 0)
    BY <1>4 DEF Complete, Succeeds, Ending, FinishedAs, c
  <2> QED
    BY <1>1, <2>1 DEF c
<1>5. ASSUME NEW due \in now..Horizon, Reschedule(w, due)
      PROVE  \E row, missed : Ending(w, c, row, missed)
  <2>1. due \in Nat
    BY <1>2, BoundsAssumption
  <2>2. Ending(w, c, Released(c, "rescheduled", due), 0)
    BY <1>5, <2>1 DEF Reschedule, Succeeds, Ending, FinishedAs, c
  <2> QED
    BY <2>2
<1>6. CASE ReleaseBusy(w) \/ GiveUpLater(w)
  <2>1. Ends(w, c, Released(c, "busy", now + BusyRetry)) /\ UNCHANGED asks /\ misses' = misses
    BY <1>6 DEF ReleaseBusy, GiveUpLater, c
  <2>2. misses' = IF Owns(c) THEN [misses EXCEPT ![c.key] = misses[c.key]] ELSE misses
    BY <1>2, <2>1
  <2>3. FinishedAs(c, Released(c, "busy", now + BusyRetry), misses[c.key])
    BY <1>3 DEF FinishedAs
  <2>4. Ending(w, c, Released(c, "busy", now + BusyRetry), misses[c.key])
    BY <2>1, <2>2, <2>3 DEF Ending
  <2> QED
    BY <1>1, <2>4 DEF c
<1>7. CASE Fail(w)
  <2>1. /\ Ends(w, c, Released(c, "failed", now + FailedRetry(c.attempts))) /\ UNCHANGED asks /\ ~GivesUpNow(c)
        /\ misses' = IF Owns(c) THEN [misses EXCEPT ![c.key] = misses[c.key] + 1] ELSE misses
    BY <1>7 DEF Fail, c
  <2>2. FinishedAs(c, Released(c, "failed", now + FailedRetry(c.attempts)), misses[c.key] + 1)
    BY <1>3, <2>1 DEF FinishedAs
  <2>3. Ending(w, c, Released(c, "failed", now + FailedRetry(c.attempts)), misses[c.key] + 1)
    BY <2>1, <2>2 DEF Ending
  <2> QED
    BY <1>1, <2>3 DEF c
<1>8. CASE GiveUp(w)
  <2> DEFINE missed == IF PastCap(c) THEN misses[c.key] ELSE misses[c.key] + 1
  <2>1. /\ Ends(w, c, Buried(c)) /\ Answers(c) /\ GivesUpNow(c)
        /\ misses' = IF Owns(c) /\ ~PastCap(c) THEN [misses EXCEPT ![c.key] = misses[c.key] + 1] ELSE misses
    BY <1>8 DEF GiveUp, c
  <2>2. FinishedAs(c, Buried(c), missed)
    BY <2>1 DEF FinishedAs
  <2>3. misses' = IF Owns(c) THEN [misses EXCEPT ![c.key] = missed] ELSE misses
    BY <1>2, <2>1
  <2> HIDE DEF missed
  <2>4. Ending(w, c, Buried(c), missed)
    BY <2>1, <2>2, <2>3 DEF Ending
  <2> QED
    BY <1>1, <2>4 DEF c
<1>9. \E row, missed : Ending(w, c, row, missed)
  BY <1>4, <1>5, <1>6, <1>7, <1>8 DEF c
<1> QED
  BY <1>1, <1>9 DEF c

\* Every step is, at every key and for every claim in hand, one of those above.
LEMMA StepShape ==
    ASSUME AskInv, [Next]_vars
    PROVE  /\ \A k \in Keys : KeySteps(k)
           /\ \A w \in Workers : ClaimSteps(w)
<1>0. TypeOK /\ now \in Nat
  BY AskTypes
<1>1. ASSUME NEW k \in Keys, NEW due \in 0..Horizon, Enqueue(k, due) \/ EnqueueIfAbsent(k, due)
      PROVE  (\A j \in Keys : KeySteps(j)) /\ (\A w \in Workers : ClaimSteps(w))
  <2>1. k \notin Landed /\ due \in Nat /\ Asked(k, due) /\ Upsert(k, due)
    BY <1>1, KeysAssumption, BoundsAssumption DEF Enqueue, EnqueueIfAbsent
  <2> QED
    BY <2>1, UpsertShape
<1>2. ASSUME NEW k \in Keys, Land(k)
      PROVE  (\A j \in Keys : KeySteps(j)) /\ (\A w \in Workers : ClaimSteps(w))
  <2>1. now + WorkLease \in Nat
    BY <1>0, DelayTypes
  <2> QED
    BY <1>2, <2>1, UpsertShape DEF Land
<1>3. ASSUME NEW k \in Keys, CompleteKey(k)
      PROVE  (\A j \in Keys : KeySteps(j)) /\ (\A w \in Workers : ClaimSteps(w))
  BY <1>3, CompleteKeyShape
<1>4. ASSUME NEW w \in Workers, ClaimDue(w)
      PROVE  (\A j \in Keys : KeySteps(j)) /\ (\A v \in Workers : ClaimSteps(v))
  BY <1>4, ClaimDueShape
<1>5. ASSUME NEW w \in Workers,
             \/ Complete(w)
             \/ \E due \in now..Horizon : Reschedule(w, due)
             \/ ReleaseBusy(w)
             \/ Fail(w)
             \/ GiveUp(w)
             \/ GiveUpLater(w)
      PROVE  (\A j \in Keys : KeySteps(j)) /\ (\A v \in Workers : ClaimSteps(v))
  BY <1>5, EndingOf, EndsShape
<1>6. ASSUME NEW w \in Workers, Crash(w)
      PROVE  (\A j \in Keys : KeySteps(j)) /\ (\A v \in Workers : ClaimSteps(v))
  <2>1. /\ hand' = [hand EXCEPT ![w] = <<>>] /\ UNCHANGED <<work, asks, wanted, misses>>
        /\ hand \in [Workers -> Seq(Claim)]
    BY <1>6, AskTypes DEF Crash
  <2>2. \A v \in Workers : InHand(v)' \subseteq InHand(v)
    BY <2>1 DEF InHand
  <2> QED
    BY <2>1, <2>2, IdleShape
<1>7. CASE Tick \/ UNCHANGED vars
  <2>1. UNCHANGED <<work, asks, wanted, misses>> /\ \A v \in Workers : InHand(v)' \subseteq InHand(v)
    BY <1>7 DEF Tick, vars, InHand
  <2> QED
    BY <2>1, IdleShape
<1> QED
  BY <1>1, <1>2, <1>3, <1>4, <1>5, <1>6, <1>7 DEF Next, Drains

-----------------------------------------------------------------------------
(* What each step of a key keeps of what is true of the key. *)

\* A row has a row's fields, and its key the counts of a key.
LEMMA KeyTypes ==
    ASSUME AskInv, NEW k \in Keys
    PROVE  /\ IsRow(k) => work[k] \in Row
           /\ asks[k] \in Asks /\ wanted[k] \in Nat /\ misses[k] \in Nat
           /\ MaxAttempts \in Nat /\ MaxAttempts >= 1
           /\ IsRow(k) /\ work[k].dead => work[k].token = NoLease
BY AskTypes, LimitsAssumption DEF IsRow, AskInv, DeadUnleased

\* A key left alone.
LEMMA LeftKey ==
    ASSUME NEW k \in Keys, KeyInv(k), Left(k)
    PROVE  KeyInv(k)'
BY DEF Left, KeyInv, AsksCounted, RowIsAsked, RearmInTime, Ended, MissesCounted, DeadHadItsAttempts, IsRow

\* A key queued: a row there keeps its lease and, alive, its attempts; a held
\* row's new due time is the ask's, another's is no later than it.
LEMMA UpsertedKey ==
    ASSUME AskInv, AskInv', NEW k \in Keys, KeyInv(k), Upserted(k)
    PROVE  KeyInv(k)'
<1>1. PICK due \in Nat :
        /\ work'[k] = IF IsRow(k) THEN Rearmed(work[k], due) ELSE NewRow(due)
        /\ asks'[k] = [asks[k] EXCEPT !.made = @ + 1]
        /\ wanted'[k] = due
        /\ misses'[k] = IF IsRow(k) /\ ~work[k].dead THEN misses[k] ELSE 0
        /\ k \in Landed => asks[k].made = 0
  BY DEF Upserted
<1>2. asks'[k].made = asks[k].made + 1 /\ asks'[k].taken = asks[k].taken /\ asks[k].made \in Nat /\ asks[k].taken \in Nat
  BY <1>1, KeyTypes DEF Asks
<1>3. AsksCounted(k)'
  BY <1>1, <1>2 DEF KeyInv, AsksCounted
<1>4. CASE IsRow(k)
  <2>1. work[k] \in Row
    BY <1>4, KeyTypes
  <2>2. /\ work'[k].due = IF work[k].dead \/ Held(work[k]) THEN due ELSE Earlier(work[k].due, due)
        /\ work'[k].token = work[k].token
        /\ work'[k].attempts = IF work[k].dead THEN 0 ELSE work[k].attempts
        /\ ~work'[k].dead
    BY <1>1, <1>4, <2>1 DEF Rearmed, Row
  <2>3. RowIsAsked(k)'
    BY <1>2, <1>4, <2>2 DEF KeyInv, RowIsAsked
  <2>4. RearmInTime(k)'
    <3>1. work[k].due \in Nat
      BY <2>1 DEF Row
    <3> QED
      BY <1>1, <2>2, <3>1 DEF RearmInTime, Earlier
  <2>5. MissesCounted(k)'
    BY <1>1, <1>4, <2>1, <2>2, KeyTypes DEF KeyInv, MissesCounted, Ended
  <2>6. DeadHadItsAttempts(k)'
    BY <2>2 DEF DeadHadItsAttempts
  <2> QED
    BY <1>3, <2>3, <2>4, <2>5, <2>6 DEF KeyInv
<1>5. CASE ~IsRow(k)
  <2>1. work'[k] = NewRow(due) /\ misses'[k] = 0
    BY <1>1, <1>5
  <2>2. work'[k].due = due /\ work'[k].token = NoLease /\ work'[k].attempts = 0 /\ ~work'[k].dead
    BY <2>1 DEF NewRow
  <2> QED
    BY <1>1, <1>2, <1>3, <2>1, <2>2 DEF KeyInv, RowIsAsked, RearmInTime, MissesCounted, Ended, DeadHadItsAttempts
<1> QED
  BY <1>4, <1>5

\* A key called off has no row.
LEMMA CalledOffKey ==
    ASSUME NEW k \in Keys, KeyInv(k), CalledOff(k)
    PROVE  KeyInv(k)'
BY DEF CalledOff, KeyInv, AsksCounted, RowIsAsked, RearmInTime, MissesCounted, DeadHadItsAttempts, IsRow

\* A key taken up: the claim takes every ask, and the one before it, if its
\* lease lapsed, is a miss.
LEMMA TakenUpKey ==
    ASSUME AskInv, AskInv', NEW k \in Keys, KeyInv(k), TakenUp(k)
    PROVE  KeyInv(k)'
<1>1. PICK token \in (tokens + 1)..tokens' :
        /\ k \in Due
        /\ work'[k] = Taken(work[k], token)
        /\ asks'[k] = [asks[k] EXCEPT !.taken = asks[k].made]
        /\ wanted'[k] = wanted[k]
        /\ misses'[k] = IF work[k].token # NoLease THEN misses[k] + 1 ELSE misses[k]
  BY DEF TakenUp
<1>2. IsRow(k) /\ work[k] \in Row /\ ~work[k].dead /\ token # NoLease
  BY <1>1, KeyTypes, AskTypes DEF Due, NoLease
<1>3. /\ work'[k].token = token /\ work'[k].attempts = work[k].attempts + 1
      /\ ~work'[k].dead /\ work'[k].due = work[k].due
  BY <1>1, <1>2 DEF Taken, Row
<1>4. asks'[k].made = asks[k].made /\ asks'[k].taken = asks[k].made /\ asks[k].made \in Nat
  BY <1>1, KeyTypes DEF Asks
<1>5. AsksCounted(k)' /\ RowIsAsked(k)' /\ RearmInTime(k)'
  BY <1>2, <1>4 DEF KeyInv, AsksCounted, RowIsAsked, RearmInTime
<1>6. MissesCounted(k)'
  <2>1. work[k].attempts \in Nat /\ misses[k] \in Nat /\ MaxAttempts \in Nat
    BY <1>2, KeyTypes DEF Row
  <2>2. Ended(k)' = work[k].attempts
    BY <1>2, <1>3, <2>1 DEF Ended
  <2>3. Ended(k) = IF work[k].token = NoLease THEN work[k].attempts ELSE work[k].attempts - 1
    BY DEF Ended
  <2>4. /\ misses[k] <= Ended(k) /\ Ended(k) >= 0
        /\ CompleteResets => misses[k] >= Ended(k) \/ misses[k] >= MaxAttempts
    BY <1>2 DEF KeyInv, MissesCounted
  <2> QED
    BY <1>1, <2>1, <2>2, <2>3, <2>4 DEF MissesCounted
<1>7. DeadHadItsAttempts(k)'
  BY <1>3 DEF DeadHadItsAttempts
<1> QED
  BY <1>5, <1>6, <1>7 DEF KeyInv

\* A key whose claim ended: what re-armed the row since keeps its due time; a
\* claim that failed is a miss, and the one that is the cap's may bury the row.
LEMMA FinishedKey ==
    ASSUME AskInv, AskInv', NEW k \in Keys, KeyInv(k), Finished(k),
           \A w \in Workers : \A c \in InHand(w) : AttemptsAreRows(c)
    PROVE  KeyInv(k)' /\ (IsRow(k)' => work'[k].token = NoLease)
<1> PICK w \in Workers :
        \E c \in InHand(w) :
            /\ c.key = k /\ Owns(c)
            /\ FinishedAs(c, work'[k], misses'[k])
            /\ asks'[k].made = asks[k].made /\ asks'[k].taken = asks[k].taken
            /\ wanted'[k] = wanted[k]
  BY DEF Finished
<1>1. PICK c \in InHand(w) :
        /\ c.key = k /\ Owns(c)
        /\ FinishedAs(c, work'[k], misses'[k])
        /\ asks'[k].made = asks[k].made /\ asks'[k].taken = asks[k].taken
        /\ wanted'[k] = wanted[k]
  OBVIOUS
<1>2. /\ IsRow(k) /\ work[k] \in Row /\ work[k].token # NoLease /\ ~work[k].dead
      /\ c.attempts = work[k].attempts /\ c.key \in Keys
  BY <1>1, KeyTypes, InHandType DEF Owns, AttemptsAreRows, AskInv, ClaimInv
<1>3. asks[k].made \in Nat /\ asks[k].taken \in Nat /\ misses[k] \in Nat /\ MaxAttempts \in Nat /\ work[k].attempts \in Nat
  BY <1>2, KeyTypes DEF Asks, Row
<1>4. /\ misses[k] <= work[k].attempts - 1
      /\ CompleteResets => misses[k] >= work[k].attempts - 1 \/ misses[k] >= MaxAttempts
  BY <1>2 DEF KeyInv, MissesCounted, Ended
<1>5. Unmoved(c) => asks[k].made = asks[k].taken
  BY <1>1 DEF AskInv, VersionsSeen
<1>6. AsksCounted(k)'
  BY <1>1 DEF KeyInv, AsksCounted
<1> DEFINE row == Unleased(work[k])
<1>7. row \in Row /\ row.token = NoLease /\ ~row.dead /\ row.due = work[k].due /\ row.attempts = work[k].attempts
  BY <1>2 DEF Unleased, Row, NoLease
<1> HIDE DEF row
\* A row that is left, not dead.
<1>8. ASSUME NEW a \in Nat, NEW due \in Nat,
             IsRow(k)', work'[k].token = NoLease, ~work'[k].dead, work'[k].attempts = a, work'[k].due = due,
             Unmoved(c) \/ due = work[k].due,
             misses'[k] <= a, CompleteResets => misses'[k] >= a \/ misses'[k] >= MaxAttempts
      PROVE  KeyInv(k)' /\ work'[k].token = NoLease
  <2>1. RowIsAsked(k)'
    BY <1>1, <1>2, <1>8 DEF KeyInv, RowIsAsked
  <2>2. RearmInTime(k)'
    BY <1>1, <1>2, <1>3, <1>5, <1>8 DEF KeyInv, RearmInTime
  <2>3. MissesCounted(k)' /\ DeadHadItsAttempts(k)'
    BY <1>8 DEF MissesCounted, Ended, DeadHadItsAttempts
  <2> QED
    BY <1>6, <1>8, <2>1, <2>2, <2>3 DEF KeyInv
<1>9. CASE work'[k] = Completed(c) /\ misses'[k] = 0
  <2>1. CASE Unmoved(c)
    BY <1>6, <1>9, <2>1 DEF Completed, KeyInv, RowIsAsked, RearmInTime, MissesCounted, DeadHadItsAttempts, IsRow
  <2>2. CASE ~Unmoved(c)
    <3> DEFINE a == IF CompleteResets THEN 0 ELSE work[k].attempts
    <3>1. work'[k] = [row EXCEPT !.attempts = IF CompleteResets THEN 0 ELSE @]
      BY <1>1, <1>9, <2>2 DEF Completed, row
    <3>2. a \in Nat /\ (CompleteResets => a = 0)
      BY <1>3
    <3>3. /\ work'[k].token = NoLease /\ ~work'[k].dead /\ work'[k].attempts = a /\ work'[k].due = work[k].due
          /\ work'[k] \in Row
      BY <1>7, <3>1, <3>2 DEF Row
    <3>4. IsRow(k)' /\ work[k].due \in Nat
      BY <1>2, <3>3, NoRowAssumption DEF IsRow, Row
    <3> HIDE DEF a
    <3> QED
      BY <1>3, <1>8, <1>9, <3>2, <3>3, <3>4
  <2> QED
    BY <2>1, <2>2
<1>10. ASSUME NEW why \in {"failed", "busy", "rescheduled"}, NEW due \in Nat, work'[k] = Released(c, why, due)
       PROVE  /\ IsRow(k)' /\ work'[k].token = NoLease /\ ~work'[k].dead
              /\ work'[k].attempts = AttemptsLeft(why, work[k].attempts)
              /\ work'[k].due \in Nat /\ (Unmoved(c) \/ work'[k].due = work[k].due)
  <2>1. work'[k] = [row EXCEPT !.attempts = AttemptsLeft(why, @), !.due = IF Unmoved(c) THEN due ELSE @]
    BY <1>1, <1>10 DEF Released, row
  <2>2. /\ work'[k].token = NoLease /\ ~work'[k].dead /\ (Unmoved(c) \/ work'[k].due = work[k].due)
        /\ work'[k].attempts = AttemptsLeft(why, work[k].attempts)
    BY <1>7, <2>1 DEF Row
  <2>3. c \in Claim
    BY <1>1, InHandType DEF AskInv, ClaimInv
  <2>4. work'[k] \in Row
    BY <1>1, <1>10, <2>3, FinishedRowType, AskTypes
  <2> QED
    BY <2>2, <2>4, NoRowAssumption DEF IsRow, Row
<1>11. ASSUME misses'[k] = 0, NEW due \in Nat, work'[k] = Released(c, "rescheduled", due)
       PROVE  KeyInv(k)' /\ work'[k].token = NoLease
  <2>1. AttemptsLeft("rescheduled", work[k].attempts) = 0
    BY DEF AttemptsLeft
  <2> QED
    BY <1>3, <1>8, <1>10, <1>11, <2>1
<1>12. ASSUME misses'[k] = misses[k], NEW due \in Nat, work'[k] = Released(c, "busy", due)
       PROVE  KeyInv(k)' /\ work'[k].token = NoLease
  <2>1. AttemptsLeft("busy", work[k].attempts) = work[k].attempts - 1 /\ work[k].attempts - 1 \in Nat
    BY <1>3, <1>4 DEF AttemptsLeft
  <2> QED
    BY <1>3, <1>4, <1>8, <1>10, <1>12, <2>1
<1>13. ASSUME misses'[k] = misses[k] + 1, NEW due \in Nat, work'[k] = Released(c, "failed", due)
       PROVE  KeyInv(k)' /\ work'[k].token = NoLease
  <2>1. AttemptsLeft("failed", work[k].attempts) = work[k].attempts
    BY DEF AttemptsLeft
  <2> QED
    BY <1>3, <1>4, <1>8, <1>10, <1>13, <2>1
<1>14. ASSUME GivesUpNow(c), work'[k] = Buried(c),
              misses'[k] = IF PastCap(c) THEN misses[k] ELSE misses[k] + 1
       PROVE  KeyInv(k)' /\ work'[k].token = NoLease
  <2>1. work'[k] = [row EXCEPT !.dead = Unmoved(c)]
    BY <1>1, <1>14 DEF Buried, row
  <2>2. work'[k].token = NoLease /\ (work'[k].dead <=> Unmoved(c)) /\ work'[k].attempts = work[k].attempts /\ work'[k].due = work[k].due
    BY <1>7, <2>1 DEF Row
  <2>3. work'[k] \in Row
    BY <1>7, <2>1 DEF Row, Unmoved
  <2>4. IsRow(k)' /\ work[k].due \in Nat
    BY <1>2, <2>3, NoRowAssumption DEF IsRow, Row
  <2>5. k \in GivesUp /\ work[k].attempts >= MaxAttempts /\ (PastCap(c) <=> work[k].attempts > MaxAttempts)
    BY <1>1, <1>2, <1>14 DEF GivesUpNow, PastCap
  <2>6. misses'[k] <= work[k].attempts /\ (CompleteResets => misses'[k] >= MaxAttempts)
    BY <1>3, <1>4, <1>14, <2>5
  <2>7. CASE Unmoved(c)
    <3>1. RowIsAsked(k)' /\ RearmInTime(k)'
      BY <1>1, <1>2, <1>3, <1>5, <2>2, <2>7 DEF KeyInv, RowIsAsked, RearmInTime
    <3>2. MissesCounted(k)' /\ DeadHadItsAttempts(k)'
      BY <2>2, <2>5, <2>6, <2>7 DEF MissesCounted, DeadHadItsAttempts
    <3> QED
      BY <1>6, <2>2, <3>1, <3>2 DEF KeyInv
  <2>8. CASE ~Unmoved(c)
    BY <1>3, <1>8, <2>2, <2>4, <2>6, <2>8
  <2> QED
    BY <2>7, <2>8
<1>15. /\ \/ work'[k] = Completed(c) /\ misses'[k] = 0
          \/ misses'[k] = 0 /\ \E due \in Nat : work'[k] = Released(c, "rescheduled", due)
          \/ misses'[k] = misses[k] /\ \E due \in Nat : work'[k] = Released(c, "busy", due)
          \/ misses'[k] = misses[k] + 1 /\ \E due \in Nat : work'[k] = Released(c, "failed", due)
          \/ GivesUpNow(c) /\ work'[k] = Buried(c) /\ misses'[k] = IF PastCap(c) THEN misses[k] ELSE misses[k] + 1
  BY <1>1 DEF FinishedAs
<1>16. work'[k] = Completed(c) => (IsRow(k)' => work'[k].token = NoLease)
  <2>1. ASSUME work'[k] = Completed(c), ~Unmoved(c)
        PROVE  work'[k].token = NoLease
    <3>1. work'[k] = [row EXCEPT !.attempts = IF CompleteResets THEN 0 ELSE @]
      BY <1>1, <2>1 DEF Completed, row
    <3> QED
      BY <1>7, <3>1 DEF Row
  <2> QED
    BY <2>1 DEF Completed, IsRow
<1> QED
  BY <1>9, <1>11, <1>12, <1>13, <1>14, <1>15, <1>16

\* What a step leaves of the claims in hand: an old one's row moves only by an
\* ask, a new one has what the row says.
LEMMA ClaimsKeptStep ==
    ASSUME QueueInv, AskInv', \A k \in Keys : KeySteps(k), NEW w \in Workers, ClaimSteps(w), NEW c \in InHand(w)'
    PROVE  MovedIsAsked(c)' /\ AttemptsAreRows(c)'
<1> SUFFICES ASSUME Owns(c)'
             PROVE  /\ ~Unmoved(c)' => asks'[c.key].made > asks'[c.key].taken
                    /\ c.attempts = work'[c.key].attempts
  BY DEF MovedIsAsked, AttemptsAreRows
<1>0. AskInv
  BY DEF QueueInv
<1>1. CASE NewClaim(c)
  BY <1>1 DEF NewClaim, Unmoved
<1>2. CASE OldClaim(w, c)
  <2> DEFINE k == c.key
  <2>1. c \in InHand(w) /\ Owns(c)
    BY <1>2 DEF OldClaim
  <2>2. /\ c \in Claim /\ k \in Keys /\ c.token # NoLease /\ c.token <= tokens /\ c.token \in Nat /\ tokens \in Nat
    BY <1>0, <2>1, InHandType, AskTypes DEF AskInv, ClaimInv
  <2>3. /\ IsRow(k) /\ work[k] \in Row /\ ~work[k].dead
        /\ c.attempts = work[k].attempts /\ (~Unmoved(c) => asks[k].made > asks[k].taken)
        /\ asks[k].taken <= asks[k].made
    BY <1>0, <2>1, <2>2, KeyTypes DEF Owns, QueueInv, KeyInv, AsksCounted, MovedIsAsked, AttemptsAreRows
  <2>4. CASE Left(k)
    BY <2>3, <2>4 DEF Left, Unmoved
  <2>5. CASE Upserted(k)
    <3>1. asks[k].made \in Nat /\ asks[k].taken \in Nat
      BY <1>0, <2>2, KeyTypes DEF Asks
    <3>2. asks'[k].made = asks[k].made + 1 /\ asks'[k].taken = asks[k].taken
      BY <1>0, <2>2, <2>5, KeyTypes DEF Upserted, Asks
    <3>3. work'[k].attempts = work[k].attempts
      BY <2>3, <2>5 DEF Upserted, Rearmed, Row
    <3> QED
      BY <2>3, <3>1, <3>2, <3>3
  <2>6. CASE CalledOff(k)
    BY <2>6 DEF CalledOff, Owns, IsRow
  <2>7. CASE TakenUp(k)
    <3>1. work'[k].token > tokens
      BY <2>2, <2>3, <2>7 DEF TakenUp, Taken, Row
    <3> QED
      BY <2>2, <3>1 DEF Owns
  <2>8. CASE Finished(k)
    <3>1. KeyInv(k) /\ \A v \in Workers : \A d \in InHand(v) : AttemptsAreRows(d)
      BY <2>2 DEF QueueInv
    <3>2. IsRow(k)' => work'[k].token = NoLease
      BY <1>0, <2>2, <2>8, <3>1, FinishedKey
    <3> QED
      BY <2>2, <3>2 DEF Owns
  <2> QED
    BY <2>2, <2>4, <2>5, <2>6, <2>7, <2>8 DEF KeySteps
<1> QED
  BY <1>1, <1>2 DEF ClaimSteps

\* Every step keeps the queue.
LEMMA QueueStep == QueueInv /\ [Next]_vars => QueueInv'
<1> SUFFICES ASSUME QueueInv, [Next]_vars
             PROVE  QueueInv'
  OBVIOUS
<1>1. AskInv /\ AskInv'
  BY AskStep DEF QueueInv
<1>2. (\A k \in Keys : KeySteps(k)) /\ (\A w \in Workers : ClaimSteps(w))
  BY <1>1, StepShape
<1>3. ASSUME NEW k \in Keys
      PROVE  KeyInv(k)'
  <2>1. KeyInv(k) /\ \A w \in Workers : \A c \in InHand(w) : AttemptsAreRows(c)
    BY DEF QueueInv
  <2> QED
    BY <1>1, <1>2, <2>1, LeftKey, UpsertedKey, CalledOffKey, TakenUpKey, FinishedKey DEF KeySteps
<1>4. ASSUME NEW w \in Workers, NEW c \in InHand(w)'
      PROVE  MovedIsAsked(c)' /\ AttemptsAreRows(c)'
  BY <1>1, <1>2, ClaimsKeptStep
<1> QED
  BY <1>1, <1>3, <1>4 DEF QueueInv

\* The empty queue.
LEMMA QueueInitially == Init => QueueInv
<1> SUFFICES ASSUME Init
             PROVE  QueueInv
  OBVIOUS
<1>1. \A k \in Keys : ~IsRow(k) /\ asks[k].made = 0 /\ asks[k].taken = 0 /\ asks[k].done = 0
  BY DEF Init, IsRow
<1>2. \A w \in Workers : InHand(w) = {}
  BY DEF Init, InHand
<1>3. AskInv
  BY <1>1, <1>2, ClaimInit DEF AskInv, DeadUnleased, VersionsSeen, NoAskLost
<1> QED
  BY <1>1, <1>2, <1>3 DEF QueueInv, KeyInv, AsksCounted, RowIsAsked, RearmInTime, MissesCounted, DeadHadItsAttempts

\* The queue's inductive invariant.
LEMMA QueueCorrect == Spec => []QueueInv
BY QueueInitially, QueueStep, PTL DEF Spec

-----------------------------------------------------------------------------
(* What it gives those who queue work. *)

\* A row re-armed since its claim comes due no later than its last ask asked
\* for, whichever way its holder's claim ends (store.rs release, pg_store.rs):
\* in either store, for any backoff, lease and clock.
THEOREM RearmsKeepTheirTime == Spec => []RearmKeepsItsTime
<1>1. QueueInv => RearmKeepsItsTime
  BY DEF QueueInv, KeyInv, RearmInTime, RearmKeepsItsTime
<1> QED
  BY <1>1, QueueCorrect, PTL

\* A row that gives up is never worked once MAX_WORK_ATTEMPTS of its claims
\* failed or never ended since it last succeeded (run_host.rs give_up_work).
THEOREM NoWorkPastTheCap == Spec => []WorkedWithinCap
<1>1. QueueInv => WorkedWithinCap
  <2> SUFFICES ASSUME QueueInv, NEW w \in Workers, Working(w),
                      Head(hand[w]).key \in GivesUp, ~PastCap(Head(hand[w])), Owns(Head(hand[w]))
               PROVE  misses[Head(hand[w]).key] < MaxAttempts
    BY DEF WorkedWithinCap
  <2> DEFINE c == Head(hand[w])
  <2>1. AskInv /\ TypeOK
    BY AskTypes DEF QueueInv
  <2>2. c \in InHand(w)
    <3>1. hand[w] \in Seq(Claim) /\ hand[w] # <<>>
      BY <2>1 DEF TypeOK, Working
    <3>2. 1 \in DOMAIN hand[w] /\ c = hand[w][1]
      BY <3>1
    <3> QED
      BY <3>2 DEF InHand
  <2> HIDE DEF c
  <2>3. c.key \in Keys /\ c.attempts \in Nat /\ c.token # NoLease
    BY <2>1, <2>2, InHandType DEF AskInv, ClaimInv, Claim
  <2>4. /\ IsRow(c.key) /\ work[c.key].token = c.token /\ ~work[c.key].dead
        /\ misses[c.key] \in Nat /\ MaxAttempts \in Nat
    BY <2>1, <2>3, KeyTypes DEF Owns, c
  <2>5. misses[c.key] <= work[c.key].attempts - 1 /\ c.attempts = work[c.key].attempts
    BY <2>2, <2>3, <2>4 DEF QueueInv, KeyInv, MissesCounted, Ended, AttemptsAreRows, c
  <2>6. c.attempts <= MaxAttempts
    BY <2>3, <2>4 DEF PastCap, c
  <2>7. misses[c.key] < MaxAttempts
    BY <2>3, <2>4, <2>5, <2>6
  <2> QED
    BY <2>7 DEF c
<1> QED
  BY <1>1, QueueCorrect, PTL

\* Where completing a re-armed row resets its attempts, as pg_store.rs does and
\* store.rs does not, a row dies only after MAX_WORK_ATTEMPTS of its claims
\* failed or never ended since it last succeeded or was queued anew.
THEOREM DeadAfterItsAttempts == CompleteResets => (Spec => []DeadOnlyAfterItsAttempts)
<1> SUFFICES ASSUME CompleteResets
             PROVE  Spec => []DeadOnlyAfterItsAttempts
  OBVIOUS
<1>1. QueueInv => DeadOnlyAfterItsAttempts
  BY DEF QueueInv, KeyInv, DeadHadItsAttempts, DeadOnlyAfterItsAttempts
<1> QED
  BY <1>1, QueueCorrect, PTL

\* A dead row stays as it is until it is asked for, and comes back with no
\* attempts (store.rs claim_due, bury_work, enqueue_in).
THEOREM DeadStaysUntilAsked == Spec => DeadUntilAsked
<1>1. QueueInv /\ [Next]_vars =>
        \A k \in Keys : IsRow(k) /\ work[k].dead =>
            \/ work'[k] = work[k]
            \/ asks'[k].made > asks[k].made /\ ~work'[k].dead /\ work'[k].attempts = 0
  <2> SUFFICES ASSUME QueueInv, [Next]_vars, NEW k \in Keys, IsRow(k), work[k].dead
               PROVE  \/ work'[k] = work[k]
                      \/ asks'[k].made > asks[k].made /\ ~work'[k].dead /\ work'[k].attempts = 0
    OBVIOUS
  <2>1. AskInv /\ KeySteps(k)
    BY StepShape DEF QueueInv
  <2>2. work[k] \in Row /\ work[k].token = NoLease /\ asks[k] \in Asks
    BY <2>1, KeyTypes
  <2>3. CASE Upserted(k)
    <3>1. work'[k].attempts = 0 /\ ~work'[k].dead
      BY <2>2, <2>3 DEF Upserted, Rearmed, Row
    <3>2. asks'[k].made = asks[k].made + 1 /\ asks[k].made \in Nat
      BY <2>2, <2>3 DEF Upserted, Asks
    <3> QED
      BY <3>1, <3>2
  <2>4. ~TakenUp(k) /\ ~CalledOff(k)
    BY DEF TakenUp, CalledOff, Due
  <2>5. ~Finished(k)
    <3>1. ASSUME NEW w \in Workers, NEW c \in InHand(w)
          PROVE  c.token # NoLease
      BY <2>1, InHandType DEF AskInv, ClaimInv
    <3> QED
      BY <2>2, <3>1 DEF Finished, Owns
  <2> QED
    BY <2>1, <2>3, <2>4, <2>5 DEF KeySteps, Left
<1> QED
  BY <1>1, QueueCorrect, PTL DEF Spec, DeadUntilAsked

-----------------------------------------------------------------------------
(* The table implements the queue of WorkQueue, in either store and for    *)
(* every set of keys and workers, lease, backoff and cap.                  *)

(* What the table says of one key, and what a step of it makes of that. *)

\* A row nobody has leased, dead or not; a leased one; no row at all.
LEMMA AskStates ==
    ASSUME AskInv, NEW k \in Keys
    PROVE  /\ ~IsRow(k) => AskState(k) = "none"
           /\ IsRow(k) /\ work[k].dead => AskState(k) = "dead"
           /\ IsRow(k) /\ ~work[k].dead /\ work[k].token = NoLease => AskState(k) = "waiting"
           /\ IsRow(k) /\ work[k].token # NoLease =>
                AskState(k) = IF asks[k].made > asks[k].taken THEN "again" ELSE "taken"
BY KeyTypes DEF AskState

\* The same of the state after a step.
LEMMA NextAskStates ==
    ASSUME AskInv', NEW k \in Keys
    PROVE  /\ ~IsRow(k)' => AskState(k)' = "none"
           /\ IsRow(k)' /\ work'[k].dead => AskState(k)' = "dead"
           /\ IsRow(k)' /\ ~work'[k].dead /\ work'[k].token = NoLease => AskState(k)' = "waiting"
           /\ IsRow(k)' /\ work'[k].token # NoLease =>
                AskState(k)' = IF asks'[k].made > asks'[k].taken THEN "again" ELSE "taken"
<1>1. IsRow(k)' /\ work'[k].dead => work'[k].token = NoLease
  BY DEF AskInv, DeadUnleased
<1>2. CASE ~IsRow(k)'
  BY <1>2 DEF AskState
<1>3. CASE IsRow(k)' /\ work'[k].dead
  BY <1>1, <1>3 DEF AskState
<1>4. CASE IsRow(k)' /\ ~work'[k].dead
  BY <1>4 DEF AskState
<1> QED
  BY <1>2, <1>3, <1>4

\* The key of a claim that owns its row is held by that claim's worker alone,
\* and it is in a claim.
LEMMA OneHolder ==
    ASSUME AskInv, NEW w \in Workers, NEW c \in InHand(w), Owns(c)
    PROVE  /\ c.key \in Keys
           /\ HolderOf(c.key) = {w}
           /\ AskState(c.key) = IF asks[c.key].made > asks[c.key].taken THEN "again" ELSE "taken"
<1>1. c.key \in Keys /\ c.token # NoLease /\ IsRow(c.key) /\ work[c.key].token = c.token
  BY InHandType DEF AskInv, ClaimInv, Owns
<1>2. ASSUME NEW v \in Workers, NEW d \in InHand(v), d.key = c.key, Owns(d)
      PROVE  v = w
  <2>1. d.token = c.token
    BY <1>2 DEF Owns
  <2> QED
    BY <2>1 DEF InHand, AskInv, ClaimInv, TokensDistinct
<1>3. HolderOf(c.key) = {w}
  BY <1>2 DEF HolderOf
<1> QED
  BY <1>1, <1>3, AskStates

\* A key left alone keeps its state.
LEMMA LeftState ==
    ASSUME NEW k \in Keys, Left(k)
    PROVE  AskState(k)' = AskState(k)
BY DEF Left, AskState, IsRow

\* A key queued: an ask of a claimed one is one more, any other waits.
LEMMA UpsertedState ==
    ASSUME QueueInv, AskInv', NEW k \in Keys, Upserted(k)
    PROVE  AskState(k)' = IF AskState(k) \in {"taken", "again"} THEN "again" ELSE "waiting"
<1>0. AskInv /\ KeyInv(k)
  BY DEF QueueInv
<1>1. PICK due \in Nat :
        /\ work'[k] = IF IsRow(k) THEN Rearmed(work[k], due) ELSE NewRow(due)
        /\ asks'[k] = [asks[k] EXCEPT !.made = @ + 1]
  BY DEF Upserted
<1>2. /\ asks'[k].made = asks[k].made + 1 /\ asks'[k].taken = asks[k].taken
      /\ asks[k].made \in Nat /\ asks[k].taken \in Nat /\ asks[k].taken <= asks[k].made
  BY <1>0, <1>1, KeyTypes DEF Asks, KeyInv, AsksCounted
<1>3. IsRow(k)'
  <2>1. rowIds \in Nat
    BY <1>0, AskTypes DEF TypeOK
  <2>2. NewRow(due) \in Row
    BY <2>1 DEF NewRow, NoLease, Row
  <2>3. IsRow(k) => Rearmed(work[k], due) \in Row
    BY <1>0, KeyTypes, RearmedType
  <2> QED
    BY <1>1, <2>2, <2>3, NoRowAssumption DEF IsRow
<1>4. CASE IsRow(k)
  <2>1. work[k] \in Row
    BY <1>0, <1>4, KeyTypes
  <2>2. work'[k].token = work[k].token /\ ~work'[k].dead
    BY <1>1, <1>4, <2>1 DEF Rearmed, Row
  <2>3. AskState(k) \in {"taken", "again"} <=> work[k].token # NoLease
    BY <1>0, <1>4, AskStates, KeyTypes
  <2>4. AskState(k)' = IF work[k].token # NoLease THEN "again" ELSE "waiting"
    BY <1>2, <1>3, <2>2, NextAskStates
  <2> QED
    BY <2>3, <2>4
<1>5. CASE ~IsRow(k)
  <2>1. work'[k].token = NoLease /\ ~work'[k].dead
    BY <1>1, <1>5 DEF NewRow
  <2>2. AskState(k) = "none" /\ AskState(k)' = "waiting"
    BY <1>0, <1>3, <1>5, <2>1, AskStates, NextAskStates
  <2> QED
    BY <2>2
<1> QED
  BY <1>4, <1>5

\* A key called off was waiting or in a claim nobody asked it of since: a
\* landed key is asked for once.
LEMMA CalledOffState ==
    ASSUME QueueInv, AskInv', NEW k \in Keys, CalledOff(k)
    PROVE  AskState(k) \in {"waiting", "taken"} /\ AskState(k)' = "none"
<1>1. AskInv /\ KeyInv(k) /\ k \in Landed /\ IsRow(k) /\ ~work[k].dead
  BY DEF QueueInv, CalledOff
<1>2. asks[k].made <= 1 /\ (work[k].token # NoLease => asks[k].taken >= 1) /\ asks[k].made \in Nat /\ asks[k].taken \in Nat
  BY <1>1, KeyTypes DEF KeyInv, AsksCounted, RowIsAsked, Asks
<1>3. AskState(k) \in {"waiting", "taken"}
  BY <1>1, <1>2, AskStates
<1>4. AskState(k)' = "none"
  BY NextAskStates DEF CalledOff, IsRow
<1> QED
  BY <1>3, <1>4

\* A key taken up was live, and every ask of it is taken.
LEMMA TakenUpState ==
    ASSUME QueueInv, AskInv', NEW k \in Keys, TakenUp(k)
    PROVE  AskState(k) \in {"waiting", "taken", "again"} /\ AskState(k)' = "taken"
<1>1. PICK token \in (tokens + 1)..tokens' :
        /\ k \in Due
        /\ work'[k] = Taken(work[k], token)
        /\ asks'[k] = [asks[k] EXCEPT !.taken = asks[k].made]
  BY DEF TakenUp
<1>2. AskInv /\ IsRow(k) /\ work[k] \in Row /\ ~work[k].dead /\ token \in Nat /\ token # NoLease
  BY <1>1, KeyTypes, AskTypes DEF Due, QueueInv, NoLease
<1>3. AskState(k) \in {"waiting", "taken", "again"}
  BY <1>2, AskStates
<1>4. work'[k].token = token /\ work'[k] \in Row
  BY <1>1, <1>2, TakenType, AskTypes DEF Taken, Row
<1>5. asks'[k].made = asks[k].made /\ asks'[k].taken = asks[k].made /\ asks[k].made \in Nat
  BY <1>1, <1>2, KeyTypes DEF Asks
<1>6. AskState(k)' = "taken"
  BY <1>2, <1>4, <1>5, NextAskStates, NoRowAssumption DEF IsRow
<1> QED
  BY <1>3, <1>6

\* A claim's end is what its worker made of it, or, if the key was asked for
\* since, the wait of that ask; only a row that gives up dies.
LEMMA FinishedState ==
    ASSUME QueueInv, AskInv', NEW w \in Workers, NEW c \in InHand(w), Owns(c), FinishedAs(c, work'[c.key], misses'[c.key])
    PROVE  /\ AskState(c.key) = "again" => AskState(c.key)' = "waiting"
           /\ AskState(c.key) = "taken" => \/ AskState(c.key)' \in {"none", "waiting"}
                                           \/ AskState(c.key)' = "dead" /\ c.key \in GivesUp
           /\ AskState(c.key) \in {"taken", "again"}
           /\ IsRow(c.key)' => work'[c.key].token = NoLease
<1> DEFINE k == c.key
<1>1. AskInv /\ MovedIsAsked(c)
  BY DEF QueueInv
<1>2. k \in Keys /\ AskState(k) = IF asks[k].made > asks[k].taken THEN "again" ELSE "taken"
  BY <1>1, OneHolder
<1>3. asks[k].made \in Nat /\ asks[k].taken \in Nat
  BY <1>1, <1>2, KeyTypes DEF Asks
<1>4. AskState(k) = "again" <=> ~Unmoved(c)
  BY <1>1, <1>2, <1>3 DEF MovedIsAsked, AskInv, VersionsSeen
<1>5. \/ work'[k] = Completed(c)
      \/ work'[k] = Buried(c)
      \/ \E why \in {"failed", "busy", "rescheduled"}, due \in Nat : work'[k] = Released(c, why, due)
  BY DEF FinishedAs
<1>6. /\ work'[k] \in Row \cup {NoRow}
      /\ work'[k] # NoRow => work'[k].token = NoLease
      /\ work'[k] = NoRow \/ work'[k].dead => Unmoved(c) /\ (work'[k] = Completed(c) \/ work'[k] = Buried(c))
  BY <1>1, <1>5, FinishedRow
<1>7. AskState(k)' \in {"none", "waiting", "dead"}
  BY <1>2, <1>6, NextAskStates DEF IsRow
<1>8. AskState(k) = "again" => AskState(k)' = "waiting"
  BY <1>2, <1>4, <1>6, NextAskStates DEF IsRow
<1>9. AskState(k)' = "dead" => k \in GivesUp
  <2>1. SUFFICES ASSUME k \notin GivesUp
                 PROVE  ~(IsRow(k)' /\ work'[k].dead)
    BY <1>2, <1>6, NextAskStates DEF IsRow
  <2>2. \/ work'[k] = Completed(c)
        \/ \E why \in {"failed", "busy", "rescheduled"}, due \in Nat : work'[k] = Released(c, why, due)
    BY <2>1 DEF FinishedAs, GivesUpNow
  <2>3. work[k] \in Row /\ ~work[k].dead
    BY <1>1, <1>2, KeyTypes, InHandType DEF Owns, AskInv, ClaimInv
  <2>4. Unleased(work[k]) \in Row /\ ~Unleased(work[k]).dead
    BY <2>3 DEF Unleased, Row, NoLease
  <2> QED
    BY <2>2, <2>4 DEF Completed, Released, Row, IsRow
<1> QED
  BY <1>2, <1>6, <1>7, <1>8, <1>9 DEF IsRow

-----------------------------------------------------------------------------
(* Each of the table's writes is one of the queue's, or none. *)

Same == \A k \in Keys : AskState(k)' = AskState(k) /\ HolderOf(k)' = HolderOf(k)

\* A step that leaves every key's state and holders is a stutter.
LEMMA SameStutters == Same => UNCHANGED Queue!queueVars
BY DEF Same, Queue!queueVars

\* A queue write is an ask of its key: no claim comes or goes by it.
LEMMA UpsertRefines ==
    ASSUME QueueInv, AskInv', NEW k \in Keys, NEW due \in Nat, k \in Landed => asks[k].made = 0,
           Asked(k, due), Upsert(k, due)
    PROVE  Queue!Ask(k)
<1>0. /\ AskInv /\ work \in [Keys -> Row \cup {NoRow}] /\ asks \in [Keys -> Asks]
      /\ wanted \in [Keys -> Nat] /\ misses \in [Keys -> Nat]
  BY AskTypes DEF QueueInv
<1>1. ASSUME NEW j \in Keys, j # k
      PROVE  Left(j)
  BY <1>0, <1>1 DEF Asked, Upsert, Left
<1>2. Upserted(k)
  BY <1>0 DEF Asked, Upsert, Upserted
<1>3. ASSUME NEW w \in Workers, NEW c \in InHand(w)
      PROVE  Owns(c)' <=> Owns(c)
  <2>1. c.key \in Keys /\ c.token # NoLease
    BY <1>0, InHandType DEF AskInv, ClaimInv
  <2>2. CASE c.key # k
    BY <1>1, <2>1, <2>2 DEF Left, Owns, IsRow
  <2>3. CASE c.key = k /\ IsRow(k)
    <3>1. work[k] \in Row
      BY <1>0, <2>3, KeyTypes
    <3>2. work'[k] = Rearmed(work[k], due)
      BY <1>0, <2>3 DEF Upsert
    <3>3. work'[k].id = work[k].id /\ work'[k].token = work[k].token
      BY <3>1, <3>2 DEF Rearmed, Row
    <3>4. IsRow(k)'
      BY <3>1, <3>2, RearmedType, NoRowAssumption DEF IsRow
    <3> QED
      BY <2>3, <3>3, <3>4 DEF Owns
  <2>4. CASE c.key = k /\ ~IsRow(k)
    BY <1>0, <2>1, <2>4 DEF Upsert, NewRow, Owns
  <2> QED
    BY <2>2, <2>3, <2>4
<1>4. \A w \in Workers : InHand(w)' = InHand(w)
  BY DEF Upsert, InHand
<1>5. ASSUME NEW j \in Keys
      PROVE  HolderOf(j)' = HolderOf(j)
  BY <1>3, <1>4 DEF HolderOf
<1>6. ASSUME NEW j \in Keys
      PROVE  AskState(j)' = IF j = k THEN IF AskState(k) \in {"taken", "again"} THEN "again" ELSE "waiting" ELSE AskState(j)
  BY <1>1, <1>2, LeftState, UpsertedState
<1> QED
  BY <1>5, <1>6 DEF Queue!Ask, Queue!InClaim

\* A key completed by its caller is called off.
LEMMA CompleteKeyRefines ==
    ASSUME QueueInv, AskInv', NEW k \in Keys, CompleteKey(k)
    PROVE  Queue!CallOff(k)
<1>0. AskInv /\ work \in [Keys -> Row \cup {NoRow}] /\ asks \in [Keys -> Asks]
  BY AskTypes DEF QueueInv
<1>1. ASSUME NEW j \in Keys, j # k
      PROVE  Left(j)
  BY <1>0, <1>1 DEF CompleteKey, Left
<1>2. CalledOff(k)
  BY <1>0 DEF CompleteKey, CalledOff, Asks
<1>3. \A w \in Workers : InHand(w)' = InHand(w)
  BY DEF CompleteKey, InHand
<1>4. HolderOf(k)' = {}
  BY <1>2 DEF CalledOff, HolderOf, Owns, IsRow
<1>5. ASSUME NEW j \in Keys, j # k
      PROVE  HolderOf(j)' = HolderOf(j) /\ AskState(j)' = AskState(j)
  BY <1>1, <1>3, <1>5, LeftState DEF HolderOf, Left, Owns, IsRow
<1>6. AskState(k) \in {"waiting", "taken"} /\ AskState(k)' = "none" /\ k \in Landed
  BY <1>2, CalledOffState DEF CalledOff
<1> QED
  BY <1>4, <1>5, <1>6 DEF Queue!CallOff

\* A batch claimed is taken, all of it by one worker: none of its rows' older
\* claims still own them.
LEMMA ClaimDueRefines ==
    ASSUME QueueInv, AskInv', NEW w \in Workers, ClaimDue(w)
    PROVE  \E taken \in SUBSET Keys : Queue!Take(w, taken)
<1>1. PICK n \in 1..RowsPerDrain : \E batch \in [1..n -> Due] : ClaimBatch(w, n, batch)
  BY DEF ClaimDue
<1>2. PICK batch \in [1..n -> Due] : ClaimBatch(w, n, batch)
  BY <1>1
<1>3. /\ AskInv /\ TypeOK /\ n \in Nat /\ n >= 1 /\ tokens \in Nat /\ tokens' = tokens + n /\ DOMAIN batch = 1..n
      /\ hand \in [Workers -> Seq(Claim)] /\ work \in [Keys -> Row \cup {NoRow}]
      /\ asks \in [Keys -> Asks]
  BY <1>2, AskTypes, LimitsAssumption DEF ClaimBatch, QueueInv
<1>4. /\ hand[w] = <<>> /\ hand'[w] = [i \in 1..n |-> ClaimOf(batch, i)]
      /\ \A v \in Workers : v # w => hand'[v] = hand[v]
      /\ \A k \in Keys : work'[k] = IF Picked(batch, k)
                                    THEN Taken(work[k], tokens + PlaceOf(batch, k))
                                    ELSE work[k]
      /\ \A k \in Keys : asks'[k] = IF Picked(batch, k) THEN [asks[k] EXCEPT !.taken = asks[k].made] ELSE asks[k]
      /\ wanted' = wanted
      /\ \A k \in Keys : misses'[k] = IF Picked(batch, k) /\ work[k].token # NoLease THEN misses[k] + 1 ELSE misses[k]
  BY <1>2, <1>3 DEF ClaimBatch
<1>5. \A i \in 1..n : PlaceOf(batch, batch[i]) = i
  BY <1>2, <1>3, BatchDistinct DEF ClaimBatch
<1> DEFINE taken == {k \in Keys : Picked(batch, k)}
<1>6. ASSUME NEW k \in Keys, Picked(batch, k)
      PROVE  /\ k \in Due /\ TakenUp(k)
             /\ work'[k].token = tokens + PlaceOf(batch, k) /\ work'[k].id = work[k].id /\ IsRow(k)'
             /\ PlaceOf(batch, k) \in 1..n
  <2>1. k \in Due /\ PlaceOf(batch, k) \in 1..n
    BY <1>3, <1>6 DEF Picked, PlaceOf
  <2>2. tokens + PlaceOf(batch, k) \in (tokens + 1)..tokens' /\ tokens + PlaceOf(batch, k) \in Nat
    BY <1>3, <2>1
  <2>3. work[k] \in Row
    BY <1>3, <2>1 DEF Due, IsRow
  <2>4. work'[k] = Taken(work[k], tokens + PlaceOf(batch, k))
    BY <1>4, <1>6
  <2>5. work'[k].token = tokens + PlaceOf(batch, k) /\ work'[k].id = work[k].id
    BY <2>3, <2>4 DEF Taken, Row
  <2>6. IsRow(k)'
    BY <1>3, <2>2, <2>3, <2>4, TakenType, NoRowAssumption DEF IsRow
  <2>7. TakenUp(k)
    BY <1>4, <1>6, <2>1, <2>2, <2>4 DEF TakenUp
  <2> QED
    BY <2>1, <2>5, <2>6, <2>7
<1>7. ASSUME NEW k \in Keys, ~Picked(batch, k)
      PROVE  Left(k)
  BY <1>4, <1>7 DEF Left
<1>8. ASSUME NEW v \in Workers, v # w, NEW c \in InHand(v), Picked(batch, c.key)
      PROVE  ~Owns(c)'
  <2>1. c.key \in Keys /\ c.token \in Nat /\ c.token <= tokens
    BY <1>3, InHandType DEF AskInv, ClaimInv
  <2>2. work'[c.key].token > tokens
    BY <1>3, <1>6, <1>8, <2>1
  <2> QED
    BY <1>3, <2>1, <2>2 DEF Owns
<1>9. ASSUME NEW k \in Keys, Picked(batch, k)
      PROVE  HolderOf(k)' = {w}
  <2>1. PICK i \in 1..n : batch[i] = k
    BY <1>3, <1>9 DEF Picked
  <2> PICK c : c = ClaimOf(batch, i)
    OBVIOUS
  <2>2. c \in InHand(w)'
    BY <1>4, <2>1 DEF InHand
  <2>3. c.key = k /\ c.id = work[k].id /\ c.token = tokens + i
    BY <2>1 DEF ClaimOf
  <2>4. Owns(c)'
    BY <1>5, <1>6, <1>9, <2>1, <2>3 DEF Owns
  <2>5. w \in HolderOf(k)'
    BY <2>2, <2>3, <2>4 DEF HolderOf
  <2>6. ASSUME NEW v \in Workers, v # w
        PROVE  v \notin HolderOf(k)'
    BY <1>4, <1>8, <1>9, <2>6 DEF HolderOf, InHand
  <2> QED
    BY <2>5, <2>6 DEF HolderOf
<1>10. ASSUME NEW k \in Keys, ~Picked(batch, k)
       PROVE  HolderOf(k)' = HolderOf(k)
  <2>1. \A c : c.key = k => (Owns(c)' <=> Owns(c))
    BY <1>7, <1>10 DEF Left, Owns, IsRow
  <2>2. \A v \in Workers : v # w => InHand(v)' = InHand(v)
    BY <1>4 DEF InHand
  <2>3. InHand(w) = {}
    BY <1>4 DEF InHand
  <2>4. \A c \in InHand(w)' : c.key # k
    <3>1. SUFFICES ASSUME NEW i \in 1..n, ClaimOf(batch, i).key = k
                   PROVE  FALSE
      BY <1>4 DEF InHand
    <3> QED
      BY <1>3, <1>10, <3>1 DEF ClaimOf, Picked
  <2> QED
    BY <2>1, <2>2, <2>3, <2>4 DEF HolderOf
<1>11. ASSUME NEW k \in Keys
       PROVE  /\ AskState(k)' = IF k \in taken THEN "taken" ELSE AskState(k)
              /\ HolderOf(k)' = IF k \in taken THEN {w} ELSE HolderOf(k)
              /\ k \in taken => AskState(k) \in {"waiting", "taken", "again"}
  BY <1>6, <1>7, <1>9, <1>10, LeftState, TakenUpState
<1>12. taken # {}
  BY <1>3 DEF Due, Picked
<1> HIDE DEF taken
<1>13. taken \in SUBSET Keys
  BY DEF taken
<1>14. Queue!Take(w, taken)
  BY <1>11, <1>12, <1>13 DEF Queue!Take
<1> QED
  BY <1>13, <1>14

\* A claim that ends leaves its key to nobody, and what became of it stands
\* unless the key was asked for since; one that lost its row changes nothing.
LEMMA EndingRefines ==
    ASSUME QueueInv, AskInv', NEW w \in Workers, Working(w), NEW c, c = Head(hand[w]),
           NEW row, NEW missed, Ending(w, c, row, missed)
    PROVE  \/ Queue!Complete(c.key, w) \/ Queue!GiveBack(c.key, w) \/ Queue!Bury(c.key, w)
           \/ Same
<1>0. /\ Ends(w, c, row) /\ (Answers(c) \/ UNCHANGED asks) /\ FinishedAs(c, row, missed)
      /\ misses' = IF Owns(c) THEN [misses EXCEPT ![c.key] = missed] ELSE misses
  BY DEF Ending
<1>1. /\ AskInv /\ TypeOK /\ work \in [Keys -> Row \cup {NoRow}] /\ asks \in [Keys -> Asks]
      /\ misses \in [Keys -> Nat] /\ hand \in [Workers -> Seq(Claim)]
  BY AskTypes DEF QueueInv
<1>2. /\ c \in InHand(w)
      /\ \A v \in Workers : InHand(v)' \subseteq InHand(v)
      /\ \A v \in Workers : \A d \in InHand(v) : d = c \/ d \in InHand(v)'
  <2>1. Ends(w, Head(hand[w]), row)
    BY <1>0
  <2>2. /\ 1 \in DOMAIN hand[w] /\ Head(hand[w]) = hand[w][1]
        /\ \A v \in Workers : \A i \in DOMAIN hand'[v] : \E j \in DOMAIN hand[v] : hand'[v][i] = hand[v][j]
    <3>1. TypeOK
      BY <1>1
    <3>2. /\ 1 \in DOMAIN hand[w] /\ Head(hand[w]) = hand[w][1]
          /\ \A v \in Workers : \A i \in DOMAIN hand'[v] :
                \E j \in DOMAIN hand[v] : /\ hand'[v][i] = hand[v][j]
                                          /\ j = IF v = w THEN i + 1 ELSE i
                                          /\ v = w => j # 1
      BY <2>1, <3>1, TailOfHand, Zenon
    <3> QED BY <3>2, Zenon
  <2>3. c \in InHand(w) /\ \A v \in Workers : InHand(v)' \subseteq InHand(v)
    BY <2>2 DEF InHand
  <2>4. ASSUME NEW d \in InHand(w), d # c
        PROVE  d \in InHand(w)'
    <3>1. hand[w] \in Seq(Claim) /\ hand[w] # <<>> /\ hand'[w] = Tail(hand[w])
      BY <1>0, <1>1 DEF Working, Ends
    <3>2. /\ Tail(hand[w]) \in Seq(Claim) /\ Len(Tail(hand[w])) = Len(hand[w]) - 1
          /\ \A i \in 1 .. Len(Tail(hand[w])) : Tail(hand[w])[i] = hand[w][i+1]
      BY <3>1, HeadTailProperties
    <3>3. DOMAIN hand[w] = 1..Len(hand[w]) /\ Len(hand[w]) \in Nat
      BY <3>1
    <3>4. PICK i \in 1..Len(hand[w]) : d = hand[w][i]
      BY <3>3 DEF InHand
    <3>5. i # 1 /\ i - 1 \in 1..Len(Tail(hand[w])) /\ DOMAIN hand'[w] = 1..Len(Tail(hand[w]))
      BY <2>2, <2>4, <3>1, <3>2, <3>3, <3>4, LenProperties
    <3>6. hand'[w][i - 1] = d
      BY <3>1, <3>2, <3>4, <3>5
    <3> QED
      BY <3>5, <3>6 DEF InHand
  <2>5. ASSUME NEW v \in Workers, v # w
        PROVE  InHand(v)' = InHand(v)
    BY <1>0, <1>1, <2>5 DEF InHand, Ends
  <2> QED
    BY <2>3, <2>4, <2>5
<1>3. c.key \in Keys
  BY <1>1, <1>2, InHandType DEF AskInv, ClaimInv
<1>4. ASSUME NEW k \in Keys, ~(Owns(c) /\ k = c.key)
      PROVE  AskState(k)' = AskState(k) /\ HolderOf(k)' = HolderOf(k)
  <2>1. Left(k)
    BY <1>0, <1>1, <1>3, <1>4 DEF Left, Ends, Answers
  <2>2. \A d : d.key = k => (Owns(d)' <=> Owns(d))
    BY <2>1 DEF Left, Owns, IsRow
  <2>3. \A v \in Workers : \A d : d.key = k /\ Owns(d) => (d \in InHand(v)' <=> d \in InHand(v))
    BY <1>2, <1>4
  <2> QED
    BY <2>1, <2>2, <2>3, LeftState DEF HolderOf
<1>5. CASE ~Owns(c)
  BY <1>4, <1>5 DEF Same
<1>6. CASE Owns(c)
  <2>1. work'[c.key] = row /\ misses'[c.key] = missed
    BY <1>0, <1>1, <1>3, <1>6 DEF Ends
  <2>2. FinishedAs(c, work'[c.key], misses'[c.key])
    BY <1>0, <2>1
  <2>3. /\ AskState(c.key) = "again" => AskState(c.key)' = "waiting"
        /\ AskState(c.key) = "taken" => \/ AskState(c.key)' \in {"none", "waiting"}
                                        \/ AskState(c.key)' = "dead" /\ c.key \in GivesUp
        /\ AskState(c.key) \in {"taken", "again"}
        /\ IsRow(c.key)' => work'[c.key].token = NoLease
    BY <1>2, <1>6, <2>2, FinishedState
  <2>4. HolderOf(c.key)' = {}
    <3>1. ASSUME NEW v \in Workers, NEW d \in InHand(v)', d.key = c.key
          PROVE  ~Owns(d)'
      <4>1. d.token # NoLease
        BY <1>1, <1>2, InHandType DEF AskInv, ClaimInv
      <4> QED
        BY <2>3, <3>1, <4>1 DEF Owns, IsRow
    <3> QED
      BY <3>1 DEF HolderOf
  <2>5. HolderOf(c.key) = {w}
    BY <1>1, <1>2, <1>6, OneHolder
  <2>6. ASSUME NEW outcome \in {"none", "waiting", "dead"},
               AskState(c.key)' = IF AskState(c.key) = "again" THEN "waiting" ELSE outcome
        PROVE  Queue!Finish(c.key, w, outcome)
    BY <1>3, <1>4, <2>3, <2>4, <2>5, <2>6 DEF Queue!Finish, Queue!InClaim
  <2> QED
    BY <2>3, <2>6 DEF Queue!Complete, Queue!GiveBack, Queue!Bury
<1> QED
  BY <1>5, <1>6

\* A worker that stops lets go of what it had; what was asked stays asked.
LEMMA CrashRefines ==
    ASSUME QueueInv, NEW w \in Workers, Crash(w)
    PROVE  Queue!Die(w) \/ Same
<1>1. /\ hand' = [hand EXCEPT ![w] = <<>>] /\ work' = work /\ asks' = asks
      /\ hand \in [Workers -> Seq(Claim)]
  BY AskTypes DEF Crash, QueueInv
<1>2. \A v \in Workers : InHand(v)' = IF v = w THEN {} ELSE InHand(v)
  BY <1>1 DEF InHand
<1>3. \A d : Owns(d)' <=> Owns(d)
  BY <1>1 DEF Owns, IsRow
<1>4. ASSUME NEW k \in Keys
      PROVE  HolderOf(k)' = HolderOf(k) \ {w} /\ AskState(k)' = AskState(k)
  BY <1>1, <1>2, <1>3 DEF HolderOf, AskState, IsRow
<1>5. CASE \E k \in Keys : w \in HolderOf(k)
  BY <1>4, <1>5 DEF Queue!Die
<1>6. CASE \A k \in Keys : w \notin HolderOf(k)
  BY <1>4, <1>6 DEF Same
<1> QED
  BY <1>5, <1>6

\* Every step of the table is a step of the queue, or none.
LEMMA TableStepRefines == QueueInv /\ [Next]_vars => [Queue!QueueNext]_Queue!queueVars
<1> SUFFICES ASSUME QueueInv, [Next]_vars
             PROVE  Queue!QueueNext \/ UNCHANGED Queue!queueVars
  OBVIOUS
<1>0. AskInv /\ AskInv' /\ TypeOK /\ now \in Nat
  BY AskStep, AskTypes DEF QueueInv
<1>1. ASSUME NEW k \in Keys, NEW due \in 0..Horizon, Enqueue(k, due) \/ EnqueueIfAbsent(k, due)
      PROVE  Queue!QueueNext
  <2>1. k \notin Landed /\ due \in Nat /\ Asked(k, due) /\ Upsert(k, due)
    BY <1>1, KeysAssumption, BoundsAssumption DEF Enqueue, EnqueueIfAbsent
  <2> QED
    BY <1>0, <2>1, UpsertRefines DEF Queue!QueueNext
<1>2. ASSUME NEW k \in Keys, Land(k)
      PROVE  Queue!QueueNext
  <2>1. now + WorkLease \in Nat
    BY <1>0, DelayTypes
  <2> QED
    BY <1>0, <1>2, <2>1, UpsertRefines DEF Land, Queue!QueueNext
<1>3. ASSUME NEW k \in Keys, CompleteKey(k)
      PROVE  Queue!QueueNext
  BY <1>0, <1>3, CompleteKeyRefines DEF Queue!QueueNext
<1>4. ASSUME NEW w \in Workers, ClaimDue(w)
      PROVE  Queue!QueueNext
  BY <1>0, <1>4, ClaimDueRefines DEF Queue!QueueNext
<1>5. ASSUME NEW w \in Workers,
             \/ Complete(w)
             \/ \E due \in now..Horizon : Reschedule(w, due)
             \/ ReleaseBusy(w)
             \/ Fail(w)
             \/ GiveUp(w)
             \/ GiveUpLater(w)
      PROVE  Queue!QueueNext \/ UNCHANGED Queue!queueVars
  <2>1. Working(w) /\ \E row, missed : Ending(w, Head(hand[w]), row, missed)
    BY <1>0, <1>5, EndingOf
  <2>2. Head(hand[w]).key \in Keys
    BY <1>0, <2>1, HandType
  <2> QED
    BY <1>0, <2>1, <2>2, EndingRefines, SameStutters DEF Queue!QueueNext
<1>6. ASSUME NEW w \in Workers, Crash(w)
      PROVE  Queue!QueueNext \/ UNCHANGED Queue!queueVars
  BY <1>6, CrashRefines, SameStutters DEF Queue!QueueNext
<1>7. CASE Tick \/ UNCHANGED vars
  <2>1. work' = work /\ asks' = asks /\ hand' = hand
    BY <1>7 DEF Tick, vars
  <2>2. Same
    BY <2>1 DEF Same, AskState, HolderOf, InHand, Owns, IsRow
  <2> QED
    BY <2>2, SameStutters
<1> QED
  BY <1>1, <1>2, <1>3, <1>4, <1>5, <1>6, <1>7 DEF Next, Drains

\* The table implements the queue its contract promises (backend.rs, "The work
\* queue"): every write is an ask, a take, an end of a claim that still
\* stands, a call-off, a worker lost, or invisible. In either store.
THEOREM TableImplementsQueue == Spec => ImplementsQueue
<1>1. Init => Queue!QueueInit
  BY DEF Init, Queue!QueueInit, AskState, HolderOf, InHand, IsRow
<1> QED
  BY <1>1, QueueCorrect, TableStepRefines, PTL DEF Spec, ImplementsQueue, Queue!Safety
=============================================================================
