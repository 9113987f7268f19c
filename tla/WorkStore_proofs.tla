--------------------------- MODULE WorkStore_proofs ---------------------------
(***************************************************************************)
(* Theorems about WorkStore, for every set of keys and workers, every lease *)
(* length, backoff, cap and bound.                                         *)
(***************************************************************************)
EXTENDS WorkStore, TLAPS, SequenceTheorems

\* The delay of a failed row's next attempt is one of the backoff's.
LEMMA FailedRetryType ==
    ASSUME NEW a \in Nat
    PROVE  FailedRetry(a) \in Nat
<1> DEFINE i == IF a > Len(Backoff) THEN Len(Backoff) ELSE IF a < 1 THEN 1 ELSE a
<1>1. Backoff \in Seq(Nat) /\ Len(Backoff) \in Nat /\ Len(Backoff) >= 1
  BY TimesAssumption
<1>2. i \in 1..Len(Backoff)
  BY <1>1
<1> QED
  BY <1>1, <1>2 DEF FailedRetry

\* The lease of a row and the delay of a busy one are times.
LEMMA DelayTypes == WorkLease \in Nat /\ BusyRetry \in Nat
BY TimesAssumption

\* What a release leaves of a row's attempts is a count.
LEMMA AttemptsLeftType ==
    ASSUME NEW a \in Nat, NEW why \in {"failed", "busy", "rescheduled"}
    PROVE  AttemptsLeft(why, a) \in Nat
BY DEF AttemptsLeft

\* The head of a worker's hand is a claim, and the rest of it claims.
LEMMA HandType ==
    ASSUME TypeOK, NEW w \in Workers, Working(w)
    PROVE  /\ Head(hand[w]) \in Claim
           /\ Tail(hand[w]) \in Seq(Claim)
           /\ Head(hand[w]).key \in Keys
<1>1. hand[w] \in Seq(Claim) /\ hand[w] # <<>>
  BY DEF TypeOK, Working
<1>2. Head(hand[w]) \in Claim /\ Tail(hand[w]) \in Seq(Claim)
  BY <1>1, HeadTailProperties
<1> QED
  BY <1>2 DEF Claim

\* A re-armed row is a row.
LEMMA RearmedType ==
    ASSUME NEW row \in Row, NEW due \in Nat
    PROVE  Rearmed(row, due) \in Row
<1> DEFINE d == IF row.dead \/ Held(row) THEN due ELSE Earlier(row.due, due)
           a == IF row.dead THEN 0 ELSE row.attempts
           v == row.version + 1
<1>1. d \in Nat /\ a \in Nat /\ v \in Nat
  BY DEF Earlier, Row
<1>2. Rearmed(row, due) = [row EXCEPT !.due = d, !.attempts = a, !.dead = FALSE, !.version = v]
  BY DEF Rearmed
<1> HIDE DEF d, a, v
<1> QED
  BY <1>1, <1>2 DEF Row

\* A queue write keeps the type invariant.
LEMMA UpsertType ==
    ASSUME TypeOK, NEW k \in Keys, NEW due \in Nat, Asked(k, due), Upsert(k, due)
    PROVE  TypeOK'
<1>1. NewRow(due) \in Row
  <2>1. rowIds + 1 \in Nat
    BY DEF TypeOK
  <2> QED
    BY <2>1 DEF NewRow, NoLease, Row
<1>2. IsRow(k) => Rearmed(work[k], due) \in Row
  BY RearmedType DEF IsRow, TypeOK
<1>3. work' \in [Keys -> Row \cup {NoRow}]
  BY <1>1, <1>2 DEF Upsert, TypeOK
<1>4. asks' \in [Keys -> Asks]
  <2>1. asks[k] \in Asks
    BY DEF TypeOK
  <2>2. [asks[k] EXCEPT !.made = @ + 1] \in Asks
    BY <2>1 DEF Asks
  <2> QED
    BY <2>2 DEF Asked, TypeOK
<1>5. wanted' \in [Keys -> Nat] /\ misses' \in [Keys -> Nat]
  BY DEF Asked, TypeOK
<1>6. rowIds' \in Nat /\ now' \in Nat /\ tokens' \in Nat /\ hand' \in [Workers -> Seq(Claim)]
  BY DEF Upsert, TypeOK
<1> QED
  BY <1>3, <1>4, <1>5, <1>6 DEF TypeOK

\* A claim that ends keeps the type of all but the counts of asks and misses,
\* which keep theirs whichever way it ended.
LEMMA EndsType ==
    ASSUME TypeOK, NEW w \in Workers, Working(w),
           NEW c, c = Head(hand[w]),
           NEW row, Owns(c) => row \in Row \cup {NoRow}, Ends(w, c, row)
    PROVE  /\ now' \in Nat /\ rowIds' \in Nat /\ tokens' \in Nat
           /\ work' \in [Keys -> Row \cup {NoRow}]
           /\ hand' \in [Workers -> Seq(Claim)]
           /\ wanted' \in [Keys -> Nat]
           /\ Answers(c) => asks' \in [Keys -> Asks]
           /\ Succeeds(c) => misses' \in [Keys -> Nat]
<1>1. c \in Claim /\ c.key \in Keys /\ Tail(hand[w]) \in Seq(Claim)
  BY HandType
<1>2. work' \in [Keys -> Row \cup {NoRow}]
  BY <1>1 DEF Ends, TypeOK
<1>3. hand' \in [Workers -> Seq(Claim)]
  BY <1>1 DEF Ends, TypeOK
<1>4. Answers(c) => asks' \in [Keys -> Asks]
  <2>1. asks[c.key] \in Asks
    BY <1>1 DEF TypeOK
  <2>2. [asks[c.key] EXCEPT !.done = asks[c.key].taken] \in Asks
    BY <2>1 DEF Asks
  <2> QED
    BY <1>1, <2>2 DEF Answers, TypeOK
<1>5. Succeeds(c) => misses' \in [Keys -> Nat]
  BY <1>1 DEF Succeeds, TypeOK
<1> QED
  BY <1>2, <1>3, <1>4, <1>5 DEF Ends, TypeOK

\* What a finish makes of a row it still owns is a row, or none.
LEMMA FinishedRowType ==
    ASSUME TypeOK, NEW c \in Claim, Owns(c)
    PROVE  /\ Completed(c) \in Row \cup {NoRow}
           /\ Buried(c) \in Row
           /\ \A due \in Nat : \A why \in {"failed", "busy", "rescheduled"} : Released(c, why, due) \in Row
<1>1. c.key \in Keys /\ work[c.key] \in Row
  BY DEF TypeOK, Claim, Owns, IsRow
<1>2. Unleased(work[c.key]) \in Row
  BY <1>1 DEF Unleased, Row, NoLease
<1>3. Completed(c) \in Row \cup {NoRow}
  BY <1>1, <1>2 DEF Completed, Row
<1>4. Buried(c) \in Row
  BY <1>1, <1>2 DEF Buried, Row, Unmoved
<1>5. ASSUME NEW due \in Nat, NEW why \in {"failed", "busy", "rescheduled"}
      PROVE  Released(c, why, due) \in Row
  <2>1. AttemptsLeft(why, Unleased(work[c.key]).attempts) \in Nat
    BY <1>2, AttemptsLeftType DEF Row
  <2> QED
    BY <1>1, <1>2, <2>1 DEF Released, Row
<1> QED
  BY <1>3, <1>4, <1>5

\* A row taken under a lease is a row.
LEMMA TakenType ==
    ASSUME TypeOK, NEW row \in Row, NEW token \in Nat
    PROVE  Taken(row, token) \in Row
<1> DEFINE u == now + WorkLease
           v == row.version + 1
           a == row.attempts + 1
<1>1. u \in Nat /\ v \in Nat /\ a \in Nat
  BY DelayTypes DEF TypeOK, Row
<1>2. Taken(row, token) = [row EXCEPT !.token = token, !.until = u, !.version = v, !.attempts = a]
  BY DEF Taken
<1> HIDE DEF u, v, a
<1> QED
  BY <1>1, <1>2 DEF Row

\* Every claim of a batch is of a due row, under a token of its own: batch[i]
\* is taken under tokens + i.
LEMMA BatchDistinct ==
    ASSUME TypeOK, NEW n \in Nat, NEW batch \in [1..n -> Due], IsDueBatch(batch)
    PROVE  /\ \A i, j \in 1..n : batch[i] = batch[j] => i = j
           /\ \A i \in 1..n : PlaceOf(batch, batch[i]) = i
<1>1. ASSUME NEW i \in 1..n, NEW j \in 1..n, i < j
      PROVE  batch[i] # batch[j]
  <2>1. Before(batch[i], batch[j])
    BY <1>1 DEF IsDueBatch
  <2>2. batch[i] \in Keys /\ work[batch[i]] \in Row
    BY DEF Due, IsRow, TypeOK
  <2>3. ~Before(batch[i], batch[i])
    BY <2>2 DEF Before, Row
  <2> QED
    BY <2>1, <2>3
<1>2. \A i, j \in 1..n : batch[i] = batch[j] => i = j
  <2> TAKE i \in 1..n, j \in 1..n
  <2>1. i < j \/ j < i \/ i = j
    OBVIOUS
  <2> QED
    BY <1>1, <2>1
<1> QED
  BY <1>2 DEF PlaceOf

\* Claiming due rows keeps the type invariant.
LEMMA ClaimDueType ==
    ASSUME TypeOK, NEW w \in Workers, ClaimDue(w)
    PROVE  TypeOK'
<1>1. PICK n \in 1..RowsPerDrain : \E batch \in [1..n -> Due] : ClaimBatch(w, n, batch)
  BY DEF ClaimDue
<1>2. PICK batch \in [1..n -> Due] : ClaimBatch(w, n, batch)
  BY <1>1
<1>3. n \in Nat /\ now + WorkLease \in Nat /\ tokens \in Nat /\ tokens' \in Nat
  <2>1. n \in Nat /\ tokens \in Nat /\ now \in Nat
    BY LimitsAssumption DEF TypeOK
  <2>2. tokens' = tokens + n
    BY <1>2 DEF ClaimBatch
  <2> QED
    BY <2>1, <2>2, DelayTypes
<1>4. ASSUME NEW k \in Keys, Picked(batch, k)
      PROVE  k \in Due /\ work[k] \in Row /\ PlaceOf(batch, k) \in 1..n
  <2>1. \E i \in 1..n : batch[i] = k
    BY <1>4 DEF Picked
  <2>2. k \in Due /\ PlaceOf(batch, k) \in 1..n
    BY <2>1 DEF PlaceOf
  <2> QED
    BY <2>2 DEF Due, IsRow, TypeOK
<1>5. work' \in [Keys -> Row \cup {NoRow}]
  <2>1. ASSUME NEW k \in Keys, Picked(batch, k)
        PROVE  Taken(work[k], tokens + PlaceOf(batch, k)) \in Row
    <3>1. k \in Due /\ work[k] \in Row /\ tokens + PlaceOf(batch, k) \in Nat
      BY <1>3, <1>4, <2>1
    <3> QED
      BY <1>3, <3>1, TakenType
  <2> QED
    BY <1>2, <2>1 DEF ClaimBatch, TypeOK
<1>6. hand' \in [Workers -> Seq(Claim)]
  <2>1. ASSUME NEW i \in 1..n
        PROVE  ClaimOf(batch, i) \in Claim
    <3>1. batch[i] \in Keys /\ work[batch[i]] \in Row
      BY DEF Due, IsRow, TypeOK
    <3>2. /\ work[batch[i]].id \in Nat /\ work[batch[i]].version + 1 \in Nat
          /\ work[batch[i]].attempts + 1 \in Nat /\ tokens + i \in Nat
      BY <1>3, <3>1 DEF Row
    <3> QED
      BY <1>3, <3>1, <3>2 DEF ClaimOf, Claim
  <2>2. [i \in 1..n |-> ClaimOf(batch, i)] \in Seq(Claim)
    BY <1>3, <2>1, IsASeq
  <2> QED
    BY <1>2, <2>2 DEF ClaimBatch, TypeOK
<1>7. asks' \in [Keys -> Asks]
  <2>1. ASSUME NEW k \in Keys
        PROVE  [asks[k] EXCEPT !.taken = asks[k].made] \in Asks
    BY DEF TypeOK, Asks
  <2> QED
    BY <1>2, <2>1 DEF ClaimBatch, TypeOK
<1>8. misses' \in [Keys -> Nat]
  BY <1>2 DEF ClaimBatch, TypeOK
<1> QED
  BY <1>2, <1>3, <1>5, <1>6, <1>7, <1>8 DEF TypeOK, ClaimBatch

\* Whichever way a worker's claim ends, the type invariant holds after.
LEMMA FinishType ==
    ASSUME TypeOK, NEW w \in Workers,
           \/ Complete(w)
           \/ \E due \in now..Horizon : Reschedule(w, due)
           \/ ReleaseBusy(w)
           \/ Fail(w)
           \/ GiveUp(w)
           \/ GiveUpLater(w)
    PROVE  TypeOK'
<1> DEFINE c == Head(hand[w])
<1>1. Working(w)
  BY DEF Complete, Reschedule, ReleaseBusy, Fail, GiveUp, GiveUpLater
<1>2. c \in Claim /\ c.key \in Keys /\ c.attempts \in Nat
  BY <1>1, HandType DEF Claim
<1> HIDE DEF c
<1>3. now + BusyRetry \in Nat /\ now + FailedRetry(c.attempts) \in Nat
  <2>1. FailedRetry(c.attempts) \in Nat /\ now \in Nat
    BY <1>2, FailedRetryType DEF TypeOK
  <2> QED
    BY <2>1, DelayTypes
<1>4. misses[c.key] + 1 \in Nat /\ asks \in [Keys -> Asks] /\ misses \in [Keys -> Nat]
  BY <1>2 DEF TypeOK
<1>5. CASE Complete(w)
  <2>1. Ends(w, c, Completed(c)) /\ Answers(c) /\ Succeeds(c)
    BY <1>5 DEF Complete, c
  <2> QED
    BY <1>1, <1>2, <2>1, FinishedRowType, EndsType DEF TypeOK, c
<1>6. ASSUME NEW due \in now..Horizon, Reschedule(w, due)
      PROVE  TypeOK'
  <2>1. Ends(w, c, Released(c, "rescheduled", due)) /\ Answers(c) /\ Succeeds(c) /\ due \in Nat
    BY <1>6 DEF Reschedule, c, TypeOK
  <2> QED
    BY <1>1, <1>2, <2>1, FinishedRowType, EndsType DEF TypeOK, c
<1>7. CASE ReleaseBusy(w) \/ GiveUpLater(w)
  <2>1. Ends(w, c, Released(c, "busy", now + BusyRetry)) /\ UNCHANGED <<asks, misses>>
    BY <1>7 DEF ReleaseBusy, GiveUpLater, c
  <2> QED
    BY <1>1, <1>2, <1>3, <1>4, <2>1, FinishedRowType, EndsType DEF TypeOK, c
<1>8. CASE Fail(w)
  <2>1. /\ Ends(w, c, Released(c, "failed", now + FailedRetry(c.attempts)))
        /\ misses' = IF Owns(c) THEN [misses EXCEPT ![c.key] = @ + 1] ELSE misses
        /\ UNCHANGED asks
    BY <1>8 DEF Fail, c
  <2>2. misses' \in [Keys -> Nat]
    BY <1>2, <1>4, <2>1
  <2> QED
    BY <1>1, <1>2, <1>3, <1>4, <2>1, <2>2, FinishedRowType, EndsType DEF TypeOK, c
<1>9. CASE GiveUp(w)
  <2>1. /\ Ends(w, c, Buried(c)) /\ Answers(c)
        /\ misses' = IF Owns(c) /\ ~PastCap(c) THEN [misses EXCEPT ![c.key] = @ + 1] ELSE misses
    BY <1>9 DEF GiveUp, c
  <2>2. misses' \in [Keys -> Nat]
    BY <1>2, <1>4, <2>1
  <2> QED
    BY <1>1, <1>2, <2>1, <2>2, FinishedRowType, EndsType DEF TypeOK, c
<1> QED
  BY <1>5, <1>6, <1>7, <1>8, <1>9

\* Every step keeps the type invariant.
LEMMA TypeStep == TypeOK /\ [Next]_vars => TypeOK'
<1> SUFFICES ASSUME TypeOK, [Next]_vars
             PROVE  TypeOK'
  OBVIOUS
<1>1. ASSUME NEW k \in Keys, NEW due \in 0..Horizon, Enqueue(k, due) \/ EnqueueIfAbsent(k, due)
      PROVE  TypeOK'
  BY <1>1, UpsertType, BoundsAssumption DEF Enqueue, EnqueueIfAbsent
<1>2. ASSUME NEW k \in Keys, Land(k)
      PROVE  TypeOK'
  <2>1. now + WorkLease \in Nat
    BY DelayTypes DEF TypeOK
  <2> QED
    BY <1>2, <2>1, UpsertType DEF Land
<1>3. ASSUME NEW k \in Keys, CompleteKey(k)
      PROVE  TypeOK'
  <2>1. [asks[k] EXCEPT !.done = asks[k].made] \in Asks
    BY DEF TypeOK, Asks
  <2> QED
    BY <1>3, <2>1 DEF CompleteKey, TypeOK
<1>4. ASSUME NEW w \in Workers, Drains(w)
      PROVE  TypeOK'
  <2>1. CASE ClaimDue(w)
    BY <2>1, ClaimDueType
  <2>2. CASE Crash(w)
    BY <2>2, EmptySeq DEF Crash, TypeOK
  <2> QED
    BY <1>4, <2>1, <2>2, FinishType DEF Drains
<1>5. CASE Tick
  BY <1>5 DEF Tick, TypeOK
<1>6. CASE UNCHANGED vars
  BY <1>6 DEF vars, TypeOK
<1> QED
  BY <1>1, <1>2, <1>3, <1>4, <1>5, <1>6 DEF Next

\* The type invariant: the table's rows, the claims in hand and the counts
\* keep their shapes, in either store.
THEOREM TypeCorrect == Spec => []TypeOK
<1>1. Init => TypeOK
  <2>1. [made |-> 0, taken |-> 0, done |-> 0] \in Asks
    BY DEF Asks
  <2> QED
    BY <2>1, EmptySeq DEF Init, TypeOK
<1> QED
  BY <1>1, TypeStep, PTL DEF Spec

-----------------------------------------------------------------------------
(* Why a live claim is its row's: the tokens tell all claims apart, and a  *)
(* row says of its own claim when the lease ends.                          *)

TokensGiven ==
    \A w \in Workers : \A c \in InHand(w) : c.token \in 1..tokens

TokensDistinct ==
    \A v, w \in Workers : \A i \in DOMAIN hand[v], j \in DOMAIN hand[w] :
        hand[v][i].token = hand[w][j].token => v = w /\ i = j

OwnedUntil ==
    \A w \in Workers : \A c \in InHand(w) : Owns(c) => work[c.key].until = c.until

\* The inductive invariant of the claims.
ClaimInv == TypeOK /\ TokensGiven /\ TokensDistinct /\ OwnedUntil /\ LiveClaimHolds

\* A claim in hand is a claim, under a token that is not the null one.
LEMMA InHandType ==
    ASSUME TypeOK, TokensGiven, NEW w \in Workers, NEW c \in InHand(w)
    PROVE  /\ c \in Claim /\ c.key \in Keys
           /\ c.token \in Nat /\ c.token # NoLease /\ c.token <= tokens /\ c.until \in Nat
<1>1. c \in Claim
  <2>1. hand[w] \in Seq(Claim)
    BY DEF TypeOK
  <2> QED
    BY <2>1, ElementOfSeq DEF InHand
<1>2. c.token \in 1..tokens /\ tokens \in Nat
  BY DEF TokensGiven, TypeOK
<1> QED
  BY <1>1, <1>2 DEF Claim, NoLease

\* What is left in hand once a claim ended: the same claims but the one at
\* the head, each one place nearer.
LEMMA TailOfHand ==
    ASSUME TypeOK, NEW w \in Workers, Working(w), NEW row, Ends(w, Head(hand[w]), row)
    PROVE  /\ 1 \in DOMAIN hand[w] /\ Head(hand[w]) = hand[w][1]
           /\ \A v \in Workers : \A i \in DOMAIN hand'[v] :
                 \E j \in DOMAIN hand[v] : /\ hand'[v][i] = hand[v][j]
                                           /\ j = IF v = w THEN i + 1 ELSE i
                                           /\ v = w => j # 1
<1>1. hand[w] \in Seq(Claim) /\ hand[w] # <<>> /\ hand' = [hand EXCEPT ![w] = Tail(hand[w])] /\ hand \in [Workers -> Seq(Claim)]
  BY DEF TypeOK, Working, Ends
<1>2. /\ Tail(hand[w]) \in Seq(Claim) /\ Len(Tail(hand[w])) = Len(hand[w]) - 1
      /\ \A i \in 1 .. Len(Tail(hand[w])) : Tail(hand[w])[i] = hand[w][i+1]
  BY <1>1, HeadTailProperties
<1>3. DOMAIN hand[w] = 1..Len(hand[w]) /\ Len(hand[w]) \in Nat /\ Len(hand[w]) >= 1
  BY <1>1
<1>4. 1 \in DOMAIN hand[w] /\ Head(hand[w]) = hand[w][1]
  BY <1>1, <1>3
<1>5. ASSUME NEW i \in DOMAIN hand'[w]
      PROVE  /\ i + 1 \in DOMAIN hand[w] /\ hand'[w][i] = hand[w][i + 1] /\ i + 1 # 1
  <2>1. hand'[w] = Tail(hand[w])
    BY <1>1
  <2>2. i \in 1..Len(Tail(hand[w]))
    BY <1>2, <2>1, LenProperties
  <2> QED
    BY <1>2, <1>3, <2>1, <2>2
<1>6. ASSUME NEW v \in Workers, v # w
      PROVE  hand'[v] = hand[v]
  BY <1>1, <1>6
<1> QED
  BY <1>4, <1>5, <1>6

\* A queue write keeps every hand, and of every row its id, token and lease:
\* it keeps the claims.
LEMMA UpsertClaims ==
    ASSUME ClaimInv, TypeOK', NEW k \in Keys, NEW due \in Nat, Upsert(k, due)
    PROVE  ClaimInv'
<1>1. hand' = hand /\ tokens' = tokens /\ now' = now /\ \A w : InHand(w)' = InHand(w)
  BY DEF Upsert, InHand
<1>2. ASSUME NEW w \in Workers, NEW c \in InHand(w)
      PROVE  /\ Owns(c)' <=> Owns(c)
             /\ Owns(c) => work'[c.key].until = work[c.key].until
  <2>1. c.key \in Keys /\ c.token # NoLease
    BY InHandType DEF ClaimInv
  <2>2. CASE IsRow(k)
    <3>1. work' = [work EXCEPT ![k] = Rearmed(work[k], due)]
      BY <2>2 DEF Upsert
    <3>2. work[k] \in Row /\ work \in [Keys -> Row \cup {NoRow}]
      BY <2>2 DEF IsRow, ClaimInv, TypeOK
    <3>3. /\ Rearmed(work[k], due).id = work[k].id /\ Rearmed(work[k], due).token = work[k].token
          /\ Rearmed(work[k], due).until = work[k].until
      BY <3>2 DEF Rearmed, Row
    <3>4. IsRow(k)'
      BY <3>1, <3>2, RearmedType, NoRowAssumption DEF IsRow
    <3> QED
      BY <2>1, <2>2, <3>1, <3>2, <3>3, <3>4 DEF Owns, IsRow
  <2>3. CASE ~IsRow(k)
    <3>1. work' = [work EXCEPT ![k] = NewRow(due)] /\ NewRow(due).token = NoLease
      BY <2>3 DEF Upsert, NewRow
    <3>2. work \in [Keys -> Row \cup {NoRow}]
      BY DEF ClaimInv, TypeOK
    <3> QED
      BY <2>1, <2>3, <3>1, <3>2 DEF Owns, IsRow
  <2> QED
    BY <2>2, <2>3
<1>3. TokensGiven' /\ TokensDistinct'
  BY <1>1 DEF ClaimInv, TokensGiven, TokensDistinct
<1>4. OwnedUntil' /\ LiveClaimHolds'
  BY <1>1, <1>2 DEF ClaimInv, OwnedUntil, LiveClaimHolds
<1> QED
  BY <1>3, <1>4 DEF ClaimInv

\* A key is completed by its caller only where no live claim has its row.
LEMMA CompleteKeyClaims ==
    ASSUME ClaimInv, TypeOK', NEW k \in Keys, CompleteKey(k)
    PROVE  ClaimInv'
<1>1. /\ hand' = hand /\ tokens' = tokens /\ now' = now /\ \A w : InHand(w)' = InHand(w)
      /\ work' = [work EXCEPT ![k] = NoRow] /\ work \in [Keys -> Row \cup {NoRow}]
  BY DEF CompleteKey, InHand, ClaimInv, TypeOK
<1>2. ASSUME NEW w \in Workers, NEW c \in InHand(w)
      PROVE  /\ Owns(c)' => Owns(c) /\ work'[c.key] = work[c.key]
             /\ Owns(c) /\ c.key = k => c.until < now
  <2>1. c.key \in Keys /\ c.token # NoLease
    BY InHandType DEF ClaimInv
  <2>2. Owns(c)' => Owns(c) /\ work'[c.key] = work[c.key]
    BY <1>1, <2>1 DEF Owns, IsRow
  <2>3. ASSUME Owns(c), c.key = k
        PROVE  c.until < now
    <3>1. Free(work[k]) /\ work[k].token # NoLease /\ work[k].until = c.until
      BY <2>1, <2>3 DEF CompleteKey, Owns, ClaimInv, OwnedUntil
    <3> QED
      BY <3>1 DEF Free
  <2> QED
    BY <2>2, <2>3
<1>3. TokensGiven' /\ TokensDistinct'
  BY <1>1 DEF ClaimInv, TokensGiven, TokensDistinct
<1>4. OwnedUntil'
  BY <1>1, <1>2 DEF ClaimInv, OwnedUntil
<1>5. ASSUME NEW w \in Workers, NEW c \in InHand(w), c.until >= now
      PROVE  Owns(c)'
  <2>1. Owns(c) /\ c.until \in Nat /\ now \in Nat /\ c.key \in Keys
    BY <1>5, InHandType DEF ClaimInv, LiveClaimHolds, TypeOK
  <2>2. c.key # k
    BY <1>2, <1>5, <2>1
  <2> QED
    BY <1>1, <2>1, <2>2 DEF Owns, IsRow
<1>6. LiveClaimHolds'
  BY <1>1, <1>5 DEF LiveClaimHolds
<1> QED
  BY <1>3, <1>4, <1>6 DEF ClaimInv

\* A claim that ends changes its own row only: no other claim has its token.
LEMMA EndsClaims ==
    ASSUME ClaimInv, TypeOK', NEW w \in Workers, Working(w), NEW row,
           Ends(w, Head(hand[w]), row),
           row # NoRow => row.token = NoLease
    PROVE  ClaimInv'
<1> DEFINE c == Head(hand[w])
<1>1. /\ 1 \in DOMAIN hand[w] /\ c = hand[w][1]
      /\ \A v \in Workers : \A i \in DOMAIN hand'[v] :
            \E j \in DOMAIN hand[v] : /\ hand'[v][i] = hand[v][j]
                                      /\ j = IF v = w THEN i + 1 ELSE i
                                      /\ v = w => j # 1
  BY TailOfHand DEF ClaimInv
<1>2. c \in InHand(w) /\ tokens' = tokens /\ now' = now
  BY <1>1 DEF InHand, Ends
<1>3. c.key \in Keys /\ c.token # NoLease /\ work \in [Keys -> Row \cup {NoRow}]
  BY <1>2, InHandType DEF ClaimInv, TypeOK
<1>4. work' = IF Owns(c) THEN [work EXCEPT ![c.key] = row] ELSE work
  BY DEF Ends
<1> HIDE DEF c
<1>5. ASSUME NEW v \in Workers, NEW d \in InHand(v)'
      PROVE  d \in InHand(v) /\ d.token # c.token
  <2>1. PICK i \in DOMAIN hand'[v] : d = hand'[v][i]
    BY DEF InHand
  <2>2. PICK j \in DOMAIN hand[v] : d = hand[v][j] /\ (v = w => j # 1)
    BY <1>1, <2>1
  <2>3. d \in InHand(v)
    BY <2>2 DEF InHand
  <2>4. d.token # c.token
    BY <1>1, <2>2 DEF ClaimInv, TokensDistinct
  <2> QED
    BY <2>3, <2>4
<1>6. TokensGiven'
  BY <1>2, <1>5 DEF ClaimInv, TokensGiven
<1>7. TokensDistinct'
  <2> SUFFICES ASSUME NEW u \in Workers, NEW v \in Workers,
                      NEW i \in DOMAIN hand'[u], NEW j \in DOMAIN hand'[v],
                      hand'[u][i].token = hand'[v][j].token
               PROVE  u = v /\ i = j
    BY DEF TokensDistinct
  <2>1. PICK p \in DOMAIN hand[u] : hand'[u][i] = hand[u][p] /\ p = IF u = w THEN i + 1 ELSE i
    BY <1>1
  <2>2. PICK q \in DOMAIN hand[v] : hand'[v][j] = hand[v][q] /\ q = IF v = w THEN j + 1 ELSE j
    BY <1>1
  <2>3. u = v /\ p = q
    BY <2>1, <2>2 DEF ClaimInv, TokensDistinct
  <2>4. i \in Int /\ j \in Int
    <3>1. hand'[u] \in Seq(Claim) /\ hand'[v] \in Seq(Claim)
      BY DEF TypeOK
    <3> QED
      BY <3>1, LenProperties
  <2> QED
    BY <2>1, <2>2, <2>3, <2>4
<1>8. ASSUME NEW v \in Workers, NEW d \in InHand(v)'
      PROVE  /\ Owns(d)' <=> Owns(d)
             /\ Owns(d) => work'[d.key] = work[d.key]
  <2>1. d.key \in Keys /\ d.token # NoLease /\ d.token # c.token
    BY <1>5, InHandType DEF ClaimInv
  <2>2. CASE Owns(c) /\ d.key = c.key
    <3>1. ~Owns(d)
      BY <2>1, <2>2 DEF Owns
    <3>2. ~Owns(d)'
      BY <1>3, <1>4, <2>1, <2>2 DEF Owns, IsRow
    <3> QED
      BY <3>1, <3>2
  <2>3. CASE ~(Owns(c) /\ d.key = c.key)
    <3>1. work'[d.key] = work[d.key]
      BY <1>3, <1>4, <2>1, <2>3
    <3> QED
      BY <3>1 DEF Owns, IsRow
  <2> QED
    BY <2>2, <2>3
<1>9. OwnedUntil'
  BY <1>5, <1>8 DEF ClaimInv, OwnedUntil
<1>10. LiveClaimHolds'
  BY <1>2, <1>5, <1>8 DEF ClaimInv, LiveClaimHolds
<1> QED
  BY <1>6, <1>7, <1>9, <1>10 DEF ClaimInv

\* Claiming takes free rows only, each under a token nobody was given.
LEMMA ClaimDueClaims ==
    ASSUME ClaimInv, TypeOK', NEW w \in Workers, ClaimDue(w)
    PROVE  ClaimInv'
<1>1. PICK n \in 1..RowsPerDrain : \E batch \in [1..n -> Due] : ClaimBatch(w, n, batch)
  BY DEF ClaimDue
<1>2. PICK batch \in [1..n -> Due] : ClaimBatch(w, n, batch)
  BY <1>1
<1>3. /\ n \in Nat /\ tokens \in Nat /\ now' = now /\ tokens' = tokens + n
      /\ hand \in [Workers -> Seq(Claim)] /\ work \in [Keys -> Row \cup {NoRow}]
      /\ DOMAIN batch = 1..n
  BY <1>2, LimitsAssumption DEF ClaimBatch, ClaimInv, TypeOK
<1>4. /\ \A i, j \in 1..n : batch[i] = batch[j] => i = j
      /\ \A i \in 1..n : PlaceOf(batch, batch[i]) = i
  BY <1>2, <1>3, BatchDistinct DEF ClaimBatch, ClaimInv
<1>5. /\ hand[w] = <<>> /\ hand'[w] = [i \in 1..n |-> ClaimOf(batch, i)]
      /\ \A v \in Workers : v # w => hand'[v] = hand[v]
      /\ \A k \in Keys : work'[k] = IF Picked(batch, k)
                                    THEN Taken(work[k], tokens + PlaceOf(batch, k))
                                    ELSE work[k]
  BY <1>2, <1>3 DEF ClaimBatch
<1>6. DOMAIN hand'[w] = 1..n /\ \A i \in 1..n : hand'[w][i] = ClaimOf(batch, i) /\ ClaimOf(batch, i).token = tokens + i
  BY <1>5 DEF ClaimOf
\* A claim in hand before is another worker's, and a picked row is not its own
\* or its lease lapsed.
<1>7. ASSUME NEW v \in Workers, NEW d \in InHand(v)
      PROVE  /\ v # w
             /\ d.token \in 1..tokens /\ d.key \in Keys
             /\ Picked(batch, d.key) => ~Owns(d)'
             /\ ~Picked(batch, d.key) => (Owns(d)' <=> Owns(d)) /\ work'[d.key] = work[d.key]
             /\ Picked(batch, d.key) /\ Owns(d) => d.until < now
  <2>1. v # w
    BY <1>5 DEF InHand
  <2>2. d.token \in 1..tokens /\ d.key \in Keys /\ d.token # NoLease
    BY InHandType DEF ClaimInv, TokensGiven
  <2>3. ASSUME Picked(batch, d.key)
        PROVE  ~Owns(d)' /\ (Owns(d) => d.until < now)
    <3>1. PICK i \in 1..n : batch[i] = d.key
      BY <1>3, <2>3 DEF Picked
    <3>2. d.key \in Due /\ work'[d.key] = Taken(work[d.key], tokens + i)
      BY <1>4, <1>5, <2>2, <2>3, <3>1
    <3>3. work[d.key] \in Row
      BY <1>3, <2>2, <3>2 DEF Due, IsRow
    <3>4. work'[d.key].token = tokens + i
      BY <3>2, <3>3 DEF Taken, Row
    <3>5. ~Owns(d)'
      BY <1>3, <2>2, <3>4 DEF Owns
    <3>6. Owns(d) => d.until < now
      BY <2>2, <3>2 DEF Due, Free, Owns, ClaimInv, OwnedUntil
    <3> QED
      BY <3>5, <3>6
  <2>4. ASSUME ~Picked(batch, d.key)
        PROVE  (Owns(d)' <=> Owns(d)) /\ work'[d.key] = work[d.key]
    BY <1>5, <2>2, <2>4 DEF Owns, IsRow
  <2> QED
    BY <2>1, <2>2, <2>3, <2>4
<1>8. ASSUME NEW i \in 1..n, NEW d, d = ClaimOf(batch, i)
      PROVE  Owns(d)' /\ work'[d.key].until = d.until
  <2> DEFINE k == batch[i]
  <2>1. k \in Due /\ k \in Keys /\ work[k] \in Row /\ Picked(batch, k)
    BY <1>3 DEF Due, IsRow, Picked
  <2>2. work'[k] = Taken(work[k], tokens + i)
    BY <1>4, <1>5, <2>1
  <2>3. tokens + i \in Nat
    BY <1>3
  <2>4. Taken(work[k], tokens + i) \in Row
    BY <2>1, <2>3, TakenType DEF ClaimInv
  <2>5. /\ Taken(work[k], tokens + i).id = work[k].id
        /\ Taken(work[k], tokens + i).token = tokens + i
        /\ Taken(work[k], tokens + i).until = now + WorkLease
    BY <2>1 DEF Taken, Row
  <2>6. IsRow(k)'
    BY <2>2, <2>4, NoRowAssumption DEF IsRow
  <2>7. d.key = k /\ d.id = work[k].id /\ d.token = tokens + i /\ d.until = now + WorkLease
    BY <1>8 DEF ClaimOf
  <2> QED
    BY <2>2, <2>5, <2>6, <2>7 DEF Owns
<1>9. ASSUME NEW v \in Workers, NEW d \in InHand(v)'
      PROVE  \/ v = w /\ \E i \in 1..n : d = ClaimOf(batch, i)
             \/ v # w /\ d \in InHand(v)
  BY <1>5, <1>6 DEF InHand
<1>10. TokensGiven'
  <2> SUFFICES ASSUME NEW v \in Workers, NEW d \in InHand(v)'
               PROVE  d.token \in 1..tokens'
    BY DEF TokensGiven
  <2>1. CASE d \in InHand(v)
    BY <1>3, <1>7, <2>1
  <2>2. CASE \E i \in 1..n : d = ClaimOf(batch, i)
    BY <1>3, <1>6, <2>2
  <2> QED
    BY <1>9, <2>1, <2>2
<1>11. TokensDistinct'
  <2>1. ASSUME NEW v \in Workers, v # w, NEW i \in DOMAIN hand[v]
        PROVE  hand[v][i].token \in 1..tokens
    BY <1>7 DEF InHand
  <2>2. \A u, v \in Workers : \A i \in DOMAIN hand[u], j \in DOMAIN hand[v] :
            hand[u][i].token = hand[v][j].token => u = v /\ i = j
    BY DEF ClaimInv, TokensDistinct
  <2> SUFFICES ASSUME NEW u \in Workers, NEW v \in Workers,
                      NEW i \in DOMAIN hand'[u], NEW j \in DOMAIN hand'[v],
                      hand'[u][i].token = hand'[v][j].token
               PROVE  u = v /\ i = j
    BY DEF TokensDistinct
  <2>3. CASE u = w /\ v = w
    <3>1. i \in 1..n /\ j \in 1..n
      BY <1>6, <2>3
    <3>2. hand'[u][i].token = tokens + i /\ hand'[v][j].token = tokens + j
      BY <1>6, <2>3, <3>1
    <3> QED
      BY <1>3, <2>3, <3>1, <3>2
  <2>4. CASE u = w /\ v # w
    <3>1. hand'[u][i].token = tokens + i /\ i \in 1..n
      BY <1>6, <2>4
    <3>2. hand'[v][j].token \in 1..tokens
      BY <1>5, <2>1, <2>4
    <3> QED
      BY <1>3, <3>1, <3>2
  <2>5. CASE u # w /\ v = w
    <3>1. hand'[v][j].token = tokens + j /\ j \in 1..n
      BY <1>6, <2>5
    <3>2. hand'[u][i].token \in 1..tokens
      BY <1>5, <2>1, <2>5
    <3> QED
      BY <1>3, <3>1, <3>2
  <2>6. CASE u # w /\ v # w
    BY <1>5, <2>2, <2>6
  <2> QED
    BY <2>3, <2>4, <2>5, <2>6
<1>12. OwnedUntil' /\ LiveClaimHolds'
  <2> SUFFICES ASSUME NEW v \in Workers, NEW d \in InHand(v)'
               PROVE  /\ Owns(d)' => work'[d.key].until = d.until
                      /\ d.until >= now' => Owns(d)'
    BY DEF OwnedUntil, LiveClaimHolds
  <2>1. CASE d \in InHand(v)
    <3>1. d.until \in Nat /\ now \in Nat
      BY <2>1, InHandType DEF ClaimInv, TypeOK
    <3>2. (Owns(d) => work[d.key].until = d.until) /\ (d.until >= now => Owns(d))
      BY <2>1 DEF ClaimInv, OwnedUntil, LiveClaimHolds
    <3> QED
      BY <1>3, <1>7, <2>1, <3>1, <3>2
  <2>2. CASE \E i \in 1..n : d = ClaimOf(batch, i)
    BY <1>3, <1>8, <2>2
  <2> QED
    BY <1>9, <2>1, <2>2
<1> QED
  BY <1>10, <1>11, <1>12 DEF ClaimInv

\* Every step keeps the claims.
LEMMA ClaimStep == ClaimInv /\ [Next]_vars => ClaimInv'
<1> SUFFICES ASSUME ClaimInv, [Next]_vars
             PROVE  ClaimInv'
  OBVIOUS
<1>0. TypeOK /\ TypeOK'
  BY TypeStep DEF ClaimInv
<1>1. ASSUME NEW k \in Keys, NEW due \in 0..Horizon, Enqueue(k, due) \/ EnqueueIfAbsent(k, due)
      PROVE  ClaimInv'
  BY <1>0, <1>1, UpsertClaims, BoundsAssumption DEF Enqueue, EnqueueIfAbsent
<1>2. ASSUME NEW k \in Keys, Land(k)
      PROVE  ClaimInv'
  <2>1. now + WorkLease \in Nat
    BY <1>0, DelayTypes DEF TypeOK
  <2> QED
    BY <1>0, <1>2, <2>1, UpsertClaims DEF Land
<1>3. ASSUME NEW k \in Keys, CompleteKey(k)
      PROVE  ClaimInv'
  BY <1>0, <1>3, CompleteKeyClaims
<1>4. ASSUME NEW w \in Workers, ClaimDue(w)
      PROVE  ClaimInv'
  BY <1>0, <1>4, ClaimDueClaims
<1>5. ASSUME NEW w \in Workers, NEW row, Working(w), Ends(w, Head(hand[w]), row), row # NoRow => row.token = NoLease
      PROVE  ClaimInv'
  BY <1>0, <1>5, EndsClaims
<1>6. ASSUME NEW w \in Workers,
             \/ Complete(w)
             \/ \E due \in now..Horizon : Reschedule(w, due)
             \/ ReleaseBusy(w)
             \/ Fail(w)
             \/ GiveUp(w)
             \/ GiveUpLater(w)
      PROVE  ClaimInv'
  <2> DEFINE c == Head(hand[w])
  <2>1. /\ Working(w)
        /\ \/ Ends(w, c, Completed(c))
           \/ Ends(w, c, Buried(c))
           \/ \E why, due : Ends(w, c, Released(c, why, due))
    BY <1>6 DEF Complete, Reschedule, ReleaseBusy, Fail, GiveUp, GiveUpLater
  <2>2. c \in Claim
    BY <1>0, <2>1, HandType
  <2> HIDE DEF c
  <2>3. CASE Owns(c)
    <3>1. work[c.key] \in Row
      BY <1>0, <2>2, <2>3 DEF Owns, IsRow, TypeOK, Claim
    <3>2. Unleased(work[c.key]) \in [id : Nat, due : Nat, token : {NoLease}, until : Nat, version : Nat, attempts : Nat, dead : BOOLEAN]
      BY <3>1 DEF Unleased, Row
    <3>3. /\ Completed(c) # NoRow => Completed(c).token = NoLease
          /\ Buried(c).token = NoLease
          /\ \A why, due : Released(c, why, due).token = NoLease
      BY <3>2 DEF Completed, Buried, Released
    <3> QED
      BY <1>5, <2>1, <3>3 DEF c
  <2>4. CASE ~Owns(c)
    <3>1. Ends(w, c, NoRow)
      BY <2>1, <2>4 DEF Ends
    <3> QED
      BY <1>5, <2>1, <3>1 DEF c
  <2> QED
    BY <2>3, <2>4
<1>7. ASSUME NEW w \in Workers, Crash(w)
      PROVE  ClaimInv'
  <2>1. /\ hand' = [hand EXCEPT ![w] = <<>>] /\ now' = now /\ tokens' = tokens /\ work' = work
        /\ hand \in [Workers -> Seq(Claim)]
    BY <1>0, <1>7 DEF Crash, TypeOK
  <2>2. \A v \in Workers : DOMAIN hand'[v] \subseteq DOMAIN hand[v] /\ \A i \in DOMAIN hand'[v] : hand'[v][i] = hand[v][i]
    BY <2>1
  <2>3. \A v \in Workers : InHand(v)' \subseteq InHand(v)
    BY <2>2 DEF InHand
  <2>4. \A d : Owns(d)' <=> Owns(d)
    BY <2>1 DEF Owns, IsRow
  <2>5. TokensDistinct'
    BY <2>2 DEF ClaimInv, TokensDistinct
  <2> QED
    BY <1>0, <2>1, <2>3, <2>4, <2>5 DEF ClaimInv, TokensGiven, OwnedUntil, LiveClaimHolds
<1>8. CASE Tick
  <2>1. now' = now + 1 /\ UNCHANGED <<work, hand, tokens>> /\ \A v : InHand(v)' = InHand(v)
    BY <1>8 DEF Tick, InHand
  <2>2. \A d : Owns(d)' <=> Owns(d)
    BY <2>1 DEF Owns, IsRow
  <2>3. TokensGiven' /\ TokensDistinct' /\ OwnedUntil'
    BY <2>1, <2>2 DEF ClaimInv, TokensGiven, TokensDistinct, OwnedUntil
  <2>4. LiveClaimHolds'
    <3> SUFFICES ASSUME NEW v \in Workers, NEW d \in InHand(v), d.until >= now + 1
                 PROVE  Owns(d)
      BY <2>1, <2>2 DEF LiveClaimHolds
    <3>1. d.until \in Nat /\ now \in Nat
      BY <1>0, InHandType DEF ClaimInv, TypeOK
    <3>2. d.until >= now
      BY <3>1
    <3> QED
      BY <3>2 DEF ClaimInv, LiveClaimHolds
  <2> QED
    BY <1>0, <2>3, <2>4 DEF ClaimInv
<1>9. CASE UNCHANGED vars
  <2>1. UNCHANGED <<now, work, hand, tokens>>
    BY <1>9 DEF vars
  <2> QED
    BY <1>0, <2>1 DEF ClaimInv, TokensGiven, TokensDistinct, OwnedUntil, LiveClaimHolds, InHand, Owns, IsRow
<1> QED
  BY <1>1, <1>2, <1>3, <1>4, <1>6, <1>7, <1>8, <1>9 DEF Next, Drains

\* The empty table has no claims.
LEMMA ClaimInit == Init => ClaimInv
<1> SUFFICES ASSUME Init
             PROVE  ClaimInv
  OBVIOUS
<1>1. [made |-> 0, taken |-> 0, done |-> 0] \in Asks
  BY DEF Asks
<1>2. TypeOK
  BY <1>1, EmptySeq DEF Init, TypeOK
<1>3. \A w \in Workers : DOMAIN hand[w] = {} /\ InHand(w) = {}
  BY DEF Init, InHand
<1> QED
  BY <1>2, <1>3 DEF ClaimInv, TokensGiven, TokensDistinct, OwnedUntil, LiveClaimHolds

\* A claim is its row's until its lease lapses, whatever is queued, completed,
\* released or buried meanwhile: in either store, for any number of workers.
THEOREM LiveClaimsHold == Spec => []LiveClaimHolds
<1>1. ClaimInv => LiveClaimHolds
  BY DEF ClaimInv
<1> QED
  BY <1>1, ClaimInit, ClaimStep, PTL DEF Spec

\* Two workers never hold claims on one row whose leases both run.
THEOREM ClaimsExclude == Spec => []OneLiveClaim
<1>1. ClaimInv => OneLiveClaim
  <2> SUFFICES ASSUME ClaimInv, NEW v \in Workers, NEW w \in Workers,
                      NEW c \in InHand(v), NEW d \in InHand(w),
                      v # w, c.key = d.key, ~(c.until < now), ~(d.until < now)
               PROVE  FALSE
    BY DEF OneLiveClaim
  <2>1. c.until \in Nat /\ d.until \in Nat /\ now \in Nat
    BY InHandType DEF ClaimInv, TypeOK
  <2>2. Owns(c) /\ Owns(d)
    BY <2>1 DEF ClaimInv, LiveClaimHolds
  <2>3. c.token = d.token
    BY <2>2 DEF Owns
  <2> QED
    BY <2>3 DEF ClaimInv, TokensDistinct, InHand
<1> QED
  BY <1>1, ClaimInit, ClaimStep, PTL DEF Spec

-----------------------------------------------------------------------------
(* Why no ask is lost: a row whose version has not moved since its claim   *)
(* was not asked for since, so what ends the claim answers every ask.      *)

DeadUnleased == \A k \in Keys : IsRow(k) /\ work[k].dead => work[k].token = NoLease

VersionsSeen ==
    \A w \in Workers : \A c \in InHand(w) : Owns(c) =>
        /\ c.version <= work[c.key].version
        /\ Unmoved(c) => asks[c.key].made = asks[c.key].taken

AskInv == ClaimInv /\ DeadUnleased /\ VersionsSeen /\ NoAskLost

\* A queue write moves the version of a row that is there and leaves a live row.
LEMMA UpsertAsks ==
    ASSUME AskInv, ClaimInv', NEW k \in Keys, NEW due \in Nat, Asked(k, due), Upsert(k, due)
    PROVE  AskInv'
<1>1. /\ \A w : InHand(w)' = InHand(w)
      /\ work \in [Keys -> Row \cup {NoRow}] /\ asks \in [Keys -> Asks]
      /\ \A j \in Keys : j # k => work'[j] = work[j] /\ asks'[j] = asks[j]
  BY DEF Upsert, Asked, InHand, AskInv, ClaimInv, TypeOK
<1>2. IsRow(k) => /\ work[k] \in Row
                  /\ work'[k].id = work[k].id /\ work'[k].token = work[k].token
                  /\ work'[k].version = work[k].version + 1
                  /\ ~work'[k].dead
  BY <1>1 DEF Upsert, Rearmed, Row, IsRow
<1>3. ~IsRow(k) => ~work'[k].dead /\ work'[k].token = NoLease
  BY <1>1 DEF Upsert, NewRow, IsRow
<1>4. IsRow(k)'
  <2>1. work'[k] \in Row \cup {NoRow}
    BY DEF ClaimInv, TypeOK
  <2>2. IsRow(k) => Rearmed(work[k], due) # NoRow
    BY <1>2, RearmedType, NoRowAssumption
  <2>3. rowIds + 1 \in Nat
    BY DEF AskInv, ClaimInv, TypeOK
  <2>4. NewRow(due) \in Row
    BY <2>3 DEF NewRow, NoLease, Row
  <2> QED
    BY <1>1, <2>2, <2>4, NoRowAssumption DEF Upsert, IsRow
<1>5. NoAskLost'
  BY <1>1, <1>2, <1>3, <1>4 DEF AskInv, NoAskLost, IsRow
<1>6. DeadUnleased'
  BY <1>1, <1>2, <1>3 DEF AskInv, DeadUnleased, IsRow
<1>7. VersionsSeen'
  <2> SUFFICES ASSUME NEW w \in Workers, NEW c \in InHand(w), Owns(c)'
               PROVE  /\ c.version <= work'[c.key].version
                      /\ Unmoved(c)' => asks'[c.key].made = asks'[c.key].taken
    BY <1>1 DEF VersionsSeen
  <2>1. c.key \in Keys /\ c.token # NoLease /\ c.version \in Nat
    BY InHandType DEF AskInv, ClaimInv, Claim
  <2>2. CASE c.key # k
    BY <1>1, <2>1, <2>2 DEF Owns, IsRow, Unmoved, AskInv, VersionsSeen
  <2>3. CASE c.key = k
    <3>1. IsRow(k)
      BY <1>3, <2>1, <2>3 DEF Owns
    <3>2. Owns(c)
      BY <1>2, <2>3, <3>1 DEF Owns, IsRow
    <3>3. c.version <= work[k].version /\ work[k].version \in Nat /\ work'[k].version = work[k].version + 1
      BY <1>2, <2>3, <3>1, <3>2 DEF AskInv, VersionsSeen, Row
    <3> QED
      BY <2>1, <2>3, <3>3 DEF Unmoved
  <2> QED
    BY <2>2, <2>3
<1> QED
  BY <1>5, <1>6, <1>7 DEF AskInv

\* What a finish leaves: none only where nothing re-armed the row since, and
\* dead only then too.
LEMMA FinishedRow ==
    ASSUME AskInv, NEW w \in Workers, NEW c \in InHand(w), Owns(c),
           NEW row,
           \/ row = Completed(c)
           \/ row = Buried(c)
           \/ \E why \in {"failed", "busy", "rescheduled"}, due \in Nat : row = Released(c, why, due)
    PROVE  /\ row \in Row \cup {NoRow}
           /\ row # NoRow => row.token = NoLease
           /\ row = NoRow \/ row.dead => Unmoved(c) /\ (row = Completed(c) \/ row = Buried(c))
<1>1. c \in Claim /\ c.key \in Keys /\ c.token # NoLease
  BY InHandType DEF AskInv, ClaimInv
<1>2. work[c.key] \in Row /\ ~work[c.key].dead
  BY <1>1 DEF AskInv, ClaimInv, TypeOK, DeadUnleased, Owns, IsRow
<1>3. /\ Unleased(work[c.key]) \in Row
      /\ Unleased(work[c.key]).token = NoLease
      /\ ~Unleased(work[c.key]).dead
  BY <1>2 DEF Unleased, Row, NoLease
<1>4. row \in Row \cup {NoRow}
  BY <1>1, FinishedRowType DEF AskInv, ClaimInv
<1>5. CASE row = Completed(c)
  <2>1. ~Unmoved(c) => row.token = NoLease /\ ~row.dead
    BY <1>3, <1>5 DEF Completed, Row
  <2>2. ~Unmoved(c) => row \in Row
    BY <1>3, <1>5 DEF Completed, Row
  <2> QED
    BY <1>4, <1>5, <2>1, <2>2, NoRowAssumption DEF Completed
<1>6. CASE row = Buried(c)
  <2>1. row.token = NoLease /\ row.dead = Unmoved(c)
    BY <1>3, <1>6 DEF Buried, Row
  <2>2. row \in Row
    BY <1>1, <1>6, FinishedRowType DEF AskInv, ClaimInv
  <2> QED
    BY <1>6, <2>1, <2>2, NoRowAssumption
<1>7. ASSUME NEW why \in {"failed", "busy", "rescheduled"}, NEW due \in Nat, row = Released(c, why, due)
      PROVE  row \in Row /\ row.token = NoLease /\ ~row.dead
  <2>1. row.token = NoLease /\ row.dead = Unleased(work[c.key]).dead
    BY <1>3, <1>7 DEF Released, Row
  <2>2. row \in Row
    BY <1>1, <1>7, FinishedRowType DEF AskInv, ClaimInv
  <2> QED
    BY <1>3, <2>1, <2>2
<1> QED
  BY <1>4, <1>5, <1>6, <1>7, NoRowAssumption

\* A claim that ends answers what it took up, and loses no ask made since.
LEMMA EndsAsks ==
    ASSUME AskInv, ClaimInv', NEW w \in Workers, Working(w),
           NEW row, Ends(w, Head(hand[w]), row),
           \/ row = Completed(Head(hand[w]))
           \/ row = Buried(Head(hand[w]))
           \/ \E why \in {"failed", "busy", "rescheduled"}, due \in Nat : row = Released(Head(hand[w]), why, due),
           \/ Answers(Head(hand[w]))
           \/ UNCHANGED asks /\ \E why \in {"failed", "busy", "rescheduled"}, due \in Nat : row = Released(Head(hand[w]), why, due)
    PROVE  AskInv'
<1> DEFINE c == Head(hand[w])
<1>1. /\ c = hand[w][1] /\ 1 \in DOMAIN hand[w]
      /\ \A v \in Workers : \A i \in DOMAIN hand'[v] :
            \E j \in DOMAIN hand[v] : hand'[v][i] = hand[v][j] /\ (v = w => j # 1)
  BY TailOfHand DEF AskInv, ClaimInv
<1>2. c \in InHand(w)
  BY <1>1 DEF InHand
<1>3. c.key \in Keys /\ work \in [Keys -> Row \cup {NoRow}] /\ asks \in [Keys -> Asks]
  BY <1>2, InHandType DEF AskInv, ClaimInv, TypeOK
<1>4. work' = IF Owns(c) THEN [work EXCEPT ![c.key] = row] ELSE work
  BY DEF Ends
<1>5. Answers(c) \/ UNCHANGED asks
  OBVIOUS
<1>6. Owns(c) => /\ row \in Row \cup {NoRow}
                 /\ row # NoRow => row.token = NoLease
                 /\ row = NoRow \/ row.dead => Unmoved(c) /\ (row = Completed(c) \/ row = Buried(c))
  BY <1>2, FinishedRow
<1>7. Owns(c) /\ UNCHANGED asks /\ ~Answers(c) => row # NoRow /\ ~row.dead
  <2>1. ASSUME Owns(c), NEW why \in {"failed", "busy", "rescheduled"}, NEW due \in Nat, row = Released(c, why, due)
        PROVE  row # NoRow /\ ~row.dead
    <3>1. c \in Claim /\ c.token # NoLease
      BY <1>2, InHandType DEF AskInv, ClaimInv
    <3>2. work[c.key] \in Row /\ ~work[c.key].dead
      BY <1>3, <2>1, <3>1 DEF AskInv, DeadUnleased, Owns, IsRow
    <3>3. Released(c, why, due) \in Row
      BY <2>1, <3>1, FinishedRowType DEF AskInv, ClaimInv
    <3>4. ~Released(c, why, due).dead
      BY <3>2 DEF Released, Unleased, Row
    <3> QED
      BY <2>1, <3>3, <3>4, NoRowAssumption
  <2> QED
    BY <2>1
<1> HIDE DEF c
<1>8. ASSUME NEW k \in Keys, ~(Owns(c) /\ k = c.key)
      PROVE  work'[k] = work[k] /\ asks'[k] = asks[k]
  BY <1>3, <1>4, <1>5, <1>8 DEF Answers
<1>9. Owns(c) => /\ work'[c.key] = row
                 /\ Answers(c) => asks'[c.key].made = asks[c.key].made /\ asks'[c.key].done = asks[c.key].taken
                 /\ UNCHANGED asks => asks'[c.key] = asks[c.key]
  BY <1>3, <1>4 DEF Answers, Asks
<1>10. NoAskLost'
  <2> SUFFICES ASSUME NEW k \in Keys, asks'[k].made > asks'[k].done
               PROVE  IsRow(k)' /\ ~work'[k].dead
    BY DEF NoAskLost
  <2>1. CASE ~(Owns(c) /\ k = c.key)
    BY <1>8, <2>1 DEF AskInv, NoAskLost, IsRow
  <2>2. CASE Owns(c) /\ k = c.key
    <3>1. SUFFICES ASSUME row = NoRow \/ row.dead
                   PROVE  FALSE
      BY <1>9, <2>2 DEF IsRow
    <3>2. Answers(c) /\ Unmoved(c)
      BY <1>5, <1>6, <1>7, <2>2, <3>1
    <3>3. asks[k].made = asks[k].taken /\ asks[k].made \in Nat
      BY <1>2, <1>3, <2>2, <3>2 DEF AskInv, VersionsSeen, Asks
    <3> QED
      BY <1>9, <2>2, <3>2, <3>3
  <2> QED
    BY <2>1, <2>2
<1>11. DeadUnleased'
  BY <1>6, <1>8, <1>9 DEF AskInv, DeadUnleased, IsRow
<1>12. VersionsSeen'
  <2> SUFFICES ASSUME NEW v \in Workers, NEW d \in InHand(v)', Owns(d)'
               PROVE  /\ d.version <= work'[d.key].version
                      /\ Unmoved(d)' => asks'[d.key].made = asks'[d.key].taken
    BY DEF VersionsSeen
  <2>1. d \in InHand(v)
    BY <1>1 DEF InHand
  <2>2. d.key \in Keys /\ d.token # NoLease
    BY <2>1, InHandType DEF AskInv, ClaimInv
  <2>3. ~(Owns(c) /\ d.key = c.key)
    BY <1>6, <1>9, <2>2 DEF Owns, IsRow
  <2>4. work'[d.key] = work[d.key] /\ asks'[d.key] = asks[d.key]
    BY <1>8, <2>2, <2>3
  <2>5. Owns(d) /\ (Unmoved(d)' <=> Unmoved(d))
    BY <2>4 DEF Owns, IsRow, Unmoved
  <2> QED
    BY <2>1, <2>4, <2>5 DEF AskInv, VersionsSeen
<1> QED
  BY <1>10, <1>11, <1>12 DEF AskInv

\* A claim takes up every ask made so far, at the version it wrote.
LEMMA ClaimDueAsks ==
    ASSUME AskInv, ClaimInv', NEW w \in Workers, ClaimDue(w)
    PROVE  AskInv'
<1>1. PICK n \in 1..RowsPerDrain : \E batch \in [1..n -> Due] : ClaimBatch(w, n, batch)
  BY DEF ClaimDue
<1>2. PICK batch \in [1..n -> Due] : ClaimBatch(w, n, batch)
  BY <1>1
<1>3. /\ n \in Nat /\ tokens \in Nat /\ DOMAIN batch = 1..n
      /\ hand \in [Workers -> Seq(Claim)] /\ work \in [Keys -> Row \cup {NoRow}]
      /\ asks \in [Keys -> Asks]
  BY <1>2, LimitsAssumption DEF AskInv, ClaimInv, TypeOK
<1>4. /\ hand'[w] = [i \in 1..n |-> ClaimOf(batch, i)]
      /\ \A v \in Workers : v # w => hand'[v] = hand[v]
      /\ \A k \in Keys : work'[k] = IF Picked(batch, k)
                                    THEN Taken(work[k], tokens + PlaceOf(batch, k))
                                    ELSE work[k]
      /\ \A k \in Keys : asks'[k] = IF Picked(batch, k) THEN [asks[k] EXCEPT !.taken = asks[k].made] ELSE asks[k]
  BY <1>2, <1>3 DEF ClaimBatch
<1>5. ASSUME NEW k \in Keys, Picked(batch, k)
      PROVE  /\ k \in Due /\ IsRow(k)' /\ ~work'[k].dead
             /\ work'[k].version = work[k].version + 1
             /\ work'[k].token = tokens + PlaceOf(batch, k)
             /\ asks'[k].made = asks[k].made /\ asks'[k].taken = asks[k].made /\ asks'[k].done = asks[k].done
  <2>1. k \in Due /\ PlaceOf(batch, k) \in 1..n
    BY <1>3, <1>5 DEF Picked, PlaceOf
  <2>2. work[k] \in Row /\ ~work[k].dead
    BY <1>3, <2>1 DEF Due, IsRow
  <2>3. tokens + PlaceOf(batch, k) \in Nat
    BY <1>3, <2>1
  <2>4. work'[k] = Taken(work[k], tokens + PlaceOf(batch, k)) /\ work'[k] \in Row
    BY <1>4, <1>5, <2>2, <2>3, TakenType DEF AskInv, ClaimInv
  <2>5. IsRow(k)'
    BY <2>4, NoRowAssumption DEF IsRow
  <2>6. /\ work'[k].version = work[k].version + 1 /\ ~work'[k].dead
        /\ work'[k].token = tokens + PlaceOf(batch, k)
    BY <2>2, <2>4 DEF Taken, Row
  <2>7. asks'[k].made = asks[k].made /\ asks'[k].taken = asks[k].made /\ asks'[k].done = asks[k].done
    BY <1>3, <1>4, <1>5 DEF Asks
  <2> QED
    BY <2>1, <2>5, <2>6, <2>7
<1>6. ASSUME NEW k \in Keys, ~Picked(batch, k)
      PROVE  work'[k] = work[k] /\ asks'[k] = asks[k]
  BY <1>4, <1>6
<1>7. NoAskLost'
  <2> SUFFICES ASSUME NEW k \in Keys, asks'[k].made > asks'[k].done
               PROVE  IsRow(k)' /\ ~work'[k].dead
    BY DEF NoAskLost
  <2> QED
    BY <1>5, <1>6 DEF AskInv, NoAskLost, IsRow
<1>8. DeadUnleased'
  BY <1>5, <1>6 DEF AskInv, DeadUnleased, IsRow
<1>9. VersionsSeen'
  <2> SUFFICES ASSUME NEW v \in Workers, NEW c \in InHand(v)', Owns(c)'
               PROVE  /\ c.version <= work'[c.key].version
                      /\ Unmoved(c)' => asks'[c.key].made = asks'[c.key].taken
    BY DEF VersionsSeen
  <2>1. CASE v = w
    <3>1. PICK i \in 1..n : c = ClaimOf(batch, i)
      BY <1>4, <2>1 DEF InHand
    <3>2. c.key = batch[i] /\ c.version = work[batch[i]].version + 1 /\ batch[i] \in Keys /\ Picked(batch, batch[i])
      BY <1>3, <3>1 DEF ClaimOf, Due, Picked
    <3>3. work'[c.key].version = c.version /\ asks'[c.key].made = asks'[c.key].taken
      BY <1>5, <3>2
    <3>4. c.version \in Nat
      <4>1. work[batch[i]] \in Row
        BY <1>3 DEF Due, IsRow
      <4> QED
        BY <3>2, <4>1 DEF Row
    <3> QED
      BY <3>3, <3>4
  <2>2. CASE v # w
    <3>1. c \in InHand(v)
      BY <1>4, <2>2 DEF InHand
    <3>2. c.key \in Keys /\ c.token \in Nat /\ c.token <= tokens
      BY <3>1, InHandType DEF AskInv, ClaimInv
    <3>3. ~Picked(batch, c.key)
      <4>1. SUFFICES ASSUME Picked(batch, c.key)
                     PROVE  FALSE
        OBVIOUS
      <4>2. work'[c.key].token = tokens + PlaceOf(batch, c.key)
        BY <1>5, <3>2, <4>1
      <4>3. PlaceOf(batch, c.key) \in 1..n
        BY <1>3, <4>1 DEF Picked, PlaceOf
      <4> QED
        BY <1>3, <3>2, <4>2, <4>3 DEF Owns
    <3>4. work'[c.key] = work[c.key] /\ asks'[c.key] = asks[c.key]
      BY <1>6, <3>2, <3>3
    <3>5. Owns(c) /\ (Unmoved(c)' <=> Unmoved(c))
      BY <3>4 DEF Owns, IsRow, Unmoved
    <3> QED
      BY <3>1, <3>4, <3>5 DEF AskInv, VersionsSeen
  <2> QED
    BY <2>1, <2>2
<1> QED
  BY <1>7, <1>8, <1>9 DEF AskInv

\* Every step keeps the asks.
LEMMA AskStep == AskInv /\ [Next]_vars => AskInv'
<1> SUFFICES ASSUME AskInv, [Next]_vars
             PROVE  AskInv'
  OBVIOUS
<1>0. TypeOK /\ ClaimInv'
  BY ClaimStep DEF AskInv, ClaimInv
<1>1. ASSUME NEW k \in Keys, NEW due \in 0..Horizon, Enqueue(k, due) \/ EnqueueIfAbsent(k, due)
      PROVE  AskInv'
  BY <1>0, <1>1, UpsertAsks, BoundsAssumption DEF Enqueue, EnqueueIfAbsent
<1>2. ASSUME NEW k \in Keys, Land(k)
      PROVE  AskInv'
  <2>1. now + WorkLease \in Nat
    BY <1>0, DelayTypes DEF TypeOK
  <2> QED
    BY <1>0, <1>2, <2>1, UpsertAsks DEF Land
<1>3. ASSUME NEW k \in Keys, CompleteKey(k)
      PROVE  AskInv'
  <2>1. /\ \A w : InHand(w)' = InHand(w)
        /\ work \in [Keys -> Row \cup {NoRow}] /\ asks \in [Keys -> Asks]
        /\ work' = [work EXCEPT ![k] = NoRow] /\ asks' = [asks EXCEPT ![k].done = asks[k].made]
    BY <1>0, <1>3 DEF CompleteKey, InHand, TypeOK
  <2>2. asks'[k].made = asks[k].made /\ asks'[k].done = asks[k].made /\ asks[k].made \in Nat
    BY <2>1 DEF Asks
  <2>3. \A j \in Keys : j # k => work'[j] = work[j] /\ asks'[j] = asks[j]
    BY <2>1
  <2>4. NoAskLost' /\ DeadUnleased'
    BY <2>1, <2>2, <2>3 DEF AskInv, NoAskLost, DeadUnleased, IsRow
  <2>5. ASSUME NEW w \in Workers, NEW c \in InHand(w), Owns(c)'
        PROVE  Owns(c) /\ work'[c.key] = work[c.key] /\ asks'[c.key] = asks[c.key]
    <3>1. c.key \in Keys
      BY <1>0, InHandType DEF AskInv, ClaimInv
    <3>2. c.key # k
      BY <2>1, <2>5, <3>1 DEF Owns, IsRow
    <3> QED
      BY <2>3, <2>5, <3>1, <3>2 DEF Owns, IsRow
  <2>6. VersionsSeen'
    BY <2>1, <2>5 DEF AskInv, VersionsSeen, Unmoved
  <2> QED
    BY <1>0, <2>4, <2>6 DEF AskInv
<1>4. ASSUME NEW w \in Workers, ClaimDue(w)
      PROVE  AskInv'
  BY <1>0, <1>4, ClaimDueAsks
<1>5. ASSUME NEW w \in Workers,
             \/ Complete(w)
             \/ \E due \in now..Horizon : Reschedule(w, due)
             \/ ReleaseBusy(w)
             \/ Fail(w)
             \/ GiveUp(w)
             \/ GiveUpLater(w)
      PROVE  AskInv'
  <2> DEFINE c == Head(hand[w])
             why == {"failed", "busy", "rescheduled"}
  <2>1. Working(w)
    BY <1>5 DEF Complete, Reschedule, ReleaseBusy, Fail, GiveUp, GiveUpLater
  <2>2. c \in Claim /\ c.attempts \in Nat /\ now \in Nat
    BY <1>0, <2>1, HandType DEF Claim, TypeOK
  <2>3. now + BusyRetry \in Nat /\ now + FailedRetry(c.attempts) \in Nat
    <3>1. FailedRetry(c.attempts) \in Nat
      BY <2>2, FailedRetryType
    <3> HIDE DEF c
    <3> QED
      BY <2>2, <3>1, DelayTypes
  <2>4. CASE Complete(w)
    BY <1>0, <2>1, <2>4, EndsAsks DEF Complete
  <2>5. ASSUME NEW due \in now..Horizon, Reschedule(w, due)
        PROVE  AskInv'
    <3>1. due \in Nat
      BY <2>2, BoundsAssumption
    <3>2. Ends(w, c, Released(c, "rescheduled", due)) /\ Answers(c)
      BY <2>5 DEF Reschedule
    <3> QED
      BY <1>0, <2>1, <3>1, <3>2, EndsAsks
  <2>6. CASE ReleaseBusy(w) \/ GiveUpLater(w)
    <3>1. Ends(w, c, Released(c, "busy", now + BusyRetry)) /\ UNCHANGED asks
      BY <2>6 DEF ReleaseBusy, GiveUpLater
    <3> QED
      BY <1>0, <2>1, <2>3, <3>1, EndsAsks
  <2>7. CASE Fail(w)
    <3>1. Ends(w, c, Released(c, "failed", now + FailedRetry(c.attempts))) /\ UNCHANGED asks
      BY <2>7 DEF Fail
    <3> QED
      BY <1>0, <2>1, <2>3, <3>1, EndsAsks
  <2>8. CASE GiveUp(w)
    BY <1>0, <2>1, <2>8, EndsAsks DEF GiveUp
  <2> QED
    BY <1>5, <2>4, <2>5, <2>6, <2>7, <2>8
<1>6. ASSUME NEW w \in Workers, Crash(w)
      PROVE  AskInv'
  <2>1. /\ hand' = [hand EXCEPT ![w] = <<>>] /\ work' = work /\ asks' = asks
        /\ hand \in [Workers -> Seq(Claim)]
    BY <1>0, <1>6 DEF Crash, TypeOK
  <2>2. \A v \in Workers : InHand(v)' \subseteq InHand(v)
    BY <2>1 DEF InHand
  <2> QED
    BY <1>0, <2>1, <2>2 DEF AskInv, NoAskLost, DeadUnleased, VersionsSeen, Owns, IsRow, Unmoved
<1>7. CASE Tick \/ UNCHANGED vars
  <2>1. work' = work /\ asks' = asks /\ hand' = hand
    BY <1>7 DEF Tick, vars
  <2> QED
    BY <1>0, <2>1 DEF AskInv, NoAskLost, DeadUnleased, VersionsSeen, InHand, Owns, IsRow, Unmoved
<1> QED
  BY <1>1, <1>2, <1>3, <1>4, <1>5, <1>6, <1>7 DEF Next, Drains

\* An ask no ended claim took up has a live row to answer it, in either store,
\* whichever workers finish late, fail, give up or stop.
THEOREM AsksKept == Spec => []NoAskLost
<1>1. Init => AskInv
  <2> SUFFICES ASSUME Init
               PROVE  AskInv
    OBVIOUS
  <2>1. ClaimInv
    BY ClaimInit
  <2>2. \A k \in Keys : ~IsRow(k) /\ asks[k].made = 0 /\ asks[k].done = 0
    BY DEF Init, IsRow
  <2>3. \A w \in Workers : InHand(w) = {}
    BY DEF Init, InHand
  <2> QED
    BY <2>1, <2>2, <2>3 DEF AskInv, DeadUnleased, VersionsSeen, NoAskLost
<1>2. AskInv => NoAskLost
  BY DEF AskInv
<1> QED
  BY <1>1, <1>2, AskStep, PTL DEF Spec
=============================================================================
