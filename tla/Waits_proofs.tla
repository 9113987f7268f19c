---------------------------- MODULE Waits_proofs ----------------------------
(***************************************************************************)
(* What Waits promises, for any runs, records, awaits and bounds: its      *)
(* types; that a wait reads what is logged after its mark, and is stranded *)
(* as reported, where logs take turns; and that an arrival is bound once,  *)
(* kept and woken for, where of two awaits on one record one comes after   *)
(* the other.                                                              *)
(***************************************************************************)
EXTENDS Waits, FiniteSetTheorems, WellFoundedInduction, SequenceTheorems, TLAPS

-----------------------------------------------------------------------------
(* Least and greatest elements. *)

\* A set of naturals that is not empty has a least element.
LEMMA LeastNat ==
    ASSUME NEW S \in SUBSET Nat, S # {}
    PROVE  \E m \in S : \A k \in S : m <= k
<1> DEFINE R == StrictSubsetOrdering(Nat)
           F == FiniteSubsetsOf(Nat)
           T == {0 .. n : n \in S}
<1>1. IsWellFoundedOn(R, F)
  BY FS_StrictSubsetOrderingWellFounded, Zenon
<1>2. T \subseteq F /\ T # {}
  <2>1. \A n \in S : 0 .. n \in SUBSET Nat /\ IsFiniteSet(0 .. n)
    BY FS_Interval
  <2> QED BY <2>1 DEF FiniteSubsetsOf
<1>3. \E x \in T : \A y \in T : ~(<<y, x>> \in R)
  <2> HIDE DEF R, T, F
  <2> QED BY <1>1, <1>2, WFMin
<1>4. PICK m \in S : \A k \in S : ~(<<0 .. k, 0 .. m>> \in R)
  BY <1>3
<1>5. ASSUME NEW k \in S, k < m PROVE FALSE
  <2>1. m \in 0 .. m /\ m \notin 0 .. k
    BY <1>5
  <2>2. 0 .. k \in SUBSET Nat /\ 0 .. m \in SUBSET Nat /\ 0 .. k \subseteq 0 .. m /\ 0 .. k # 0 .. m
    BY <1>5, <2>1
  <2>3. <<0 .. k, 0 .. m>> \in R
    BY <2>2 DEF StrictSubsetOrdering
  <2> QED BY <2>3, <1>4
<1> QED BY <1>4, <1>5

\* Min of a set of naturals that is not empty.
LEMMA MinIs ==
    ASSUME NEW S \in SUBSET Nat, S # {}
    PROVE  Min(S) \in S /\ \A k \in S : Min(S) <= k
<1>1. \E m \in S : \A k \in S : m <= k
  BY LeastNat
<1> QED BY <1>1, Zenon DEF Min

\* A finite set of naturals that is not empty has a greatest element.
LEMMA GreatestNat ==
    ASSUME NEW S \in SUBSET Nat, IsFiniteSet(S), S # {}
    PROVE  \E m \in S : \A k \in S : k <= m
<1> DEFINE R == StrictSubsetOrdering(S)
           T == {U \in SUBSET S : U # {} /\ ~ \E m \in U : \A k \in U : k <= m}
<1> SUFFICES ASSUME T # {} PROVE FALSE
  OBVIOUS
<1>1. IsWellFoundedOn(R, SUBSET S)
  BY FS_StrictSubsetOrderingWellFounded, FS_FiniteSubsetsOfFinite
<1>2. \E x \in T : \A y \in T : ~(<<y, x>> \in R)
  <2>1. T \subseteq SUBSET S
    OBVIOUS
  <2> HIDE DEF R, T
  <2> QED BY <1>1, <2>1, WFMin
<1>3. PICK U \in T : \A V \in T : ~(<<V, U>> \in R)
  BY <1>2
<1>4. PICK u \in U : TRUE
  OBVIOUS
<1> DEFINE V == U \ {u}
<1>5. V # {}
  <2> SUFFICES ASSUME V = {} PROVE FALSE
    OBVIOUS
  <2>1. U = {u} /\ u \in Nat
    BY <1>4
  <2>2. \A k \in U : k <= u
    BY <2>1
  <2> QED BY <2>1, <2>2
<1>6. V \notin T
  <2>1. <<V, U>> \in R
    BY <1>4 DEF StrictSubsetOrdering
  <2> QED BY <2>1, <1>3
<1>7. PICK m \in V : \A k \in V : k <= m
  BY <1>5, <1>6
<1>8. \A k \in U : k <= m \/ k = u
  BY <1>7
<1>9. m \in U /\ u \in U /\ m \in Nat /\ u \in Nat
  BY <1>7
<1>10. CASE u <= m
  BY <1>8, <1>9, <1>10
<1>11. CASE m <= u
  <2>1. \A k \in U : k \in Nat
    OBVIOUS
  <2>2. \A k \in U : k <= u
    BY <1>8, <1>9, <1>11, <2>1
  <2> QED BY <2>2, <1>9
<1> QED BY <1>9, <1>10, <1>11

\* Max of a finite set of naturals that is not empty.
LEMMA MaxIs ==
    ASSUME NEW S \in SUBSET Nat, IsFiniteSet(S), S # {}
    PROVE  Max(S) \in S /\ \A k \in S : k <= Max(S)
<1>1. \E m \in S : \A k \in S : m >= k
  BY GreatestNat
<1>2. Max(S) \in S /\ \A k \in S : Max(S) >= k
  BY <1>1, Zenon DEF Max
<1> QED BY <1>2

-----------------------------------------------------------------------------
(* The types. *)

Marks == [seq : 0 .. MaxArrivals, before : SUBSET (1 .. MaxArrivals)] \cup {NoMark}

Bounds == [at : Addresses \cup {Nowhere}, rec : Records, id : Identities, ver : Versions, listed : BOOLEAN]

RunTypes ==
    [status : {"none", "queued", "running", "parked", "ended"}, lease : {"free", "held", "lapsed"},
     mark : 0 .. MaxArrivals, entered : SUBSET Records, done : SUBSET Addresses, bound : Seq(Bounds)]

Rows == Runs \X Records \X Addresses

JobTypes ==
    [on : BOOLEAN, by : Addresses \cup {Nowhere}, marks : [Records -> Marks], at : Addresses \cup {Nowhere},
     todo : SUBSET Nat, parks : SUBSET Addresses, done : SUBSET Addresses, entered : SUBSET Records,
     bound : Seq(Bounds), row : Rows \cup {NoRow}]

LogTyped ==
    /\ reported \in Seq(Reports) /\ Len(reported) <= MaxArrivals
    /\ flight \subseteq Seqs /\ swept \subseteq Seqs \ flight
    /\ known \subseteq Records \X Identities \X Versions
    /\ failures \in 0 .. MaxFailures

RunsTyped ==
    /\ run \in [Runs -> RunTypes]
    /\ leaf \in [Runs -> [Addresses -> {"none", "parked", "resuming"}]]

WaitsTyped ==
    /\ wait \in [Runs -> [Records -> Wait \cup {NoWait}]]
    /\ seen \in [Runs -> [Records -> SUBSET Notes]]
    /\ \A r \in Runs : \A k \in Records : IsFiniteSet(seen[r][k])

JobsTyped == job \in [Runs -> JobTypes] /\ wakes \subseteq Rows

Typed == LogTyped /\ RunsTyped /\ WaitsTyped /\ JobsTyped

\* Where a run stands: a process steps one under way, with the row of the leaf
\* it resumes, or ends one; only a run that was asked for waits, and only a
\* parked one has leaves; what a process has to judge was logged on the record
\* it awaits.
JobStands(r) ==
    /\ job[r].on \/ job[r] = Idle
    /\ job[r].on => run[r].status \in {"running", "parked", "ended"}
    /\ job[r].on /\ run[r].status = "ended" => job[r] = Ending(job[r].row)
    /\ job[r].row # NoRow => job[r].row[2] = AwaitOf[job[r].row[3]]
    /\ job[r].by = Nowhere => job[r].row = NoRow \/ run[r].status = "ended"
    /\ job[r].by # Nowhere => job[r].row = <<r, AwaitOf[job[r].by], job[r].by>>
    /\ \A s \in job[r].todo : /\ s \in Seqs /\ ~reported[s].gone
                              /\ job[r].at \in Addresses /\ reported[s].rec = AwaitOf[job[r].at]

WaitStands(r) ==
    /\ \A k \in Records : wait[r][k] # NoWait =>
          /\ run[r].status # "none"
          /\ wait[r][k].at = Nowhere \/ AwaitOf[wait[r][k].at] = k
    /\ \A a \in Addresses : leaf[r][a] # "none" => run[r].status = "parked"

Standing ==
    /\ \A r \in Runs : JobStands(r) /\ WaitStands(r)
    /\ \A w \in wakes : w[2] = AwaitOf[w[3]]

TypeInv == Typed /\ Standing

\* What any report is.
LEMMA ReportIs ==
    ASSUME NEW a \in Reports
    PROVE  /\ a \in Arrival
           /\ a.rec \in Records /\ a.id \in Identities \cup {Nowhere} /\ a.ver \in Versions /\ a.gone \in BOOLEAN
           /\ ~a.gone => a.id \in Identities
<1>1. Min(Versions) \in Versions
  BY VersionsAssumption, MinIs
<1>2. CASE \E k \in Records, i \in Identities, v \in Versions : a = [rec |-> k, id |-> i, ver |-> v, gone |-> FALSE]
  BY <1>2 DEF Arrival
<1>3. CASE \E k \in Records : a = [rec |-> k, id |-> Nowhere, ver |-> Min(Versions), gone |-> TRUE]
  <2>1. PICK k \in Records : a = [rec |-> k, id |-> Nowhere, ver |-> Min(Versions), gone |-> TRUE]
    BY <1>3
  <2>2. a.rec = k /\ a.id = Nowhere /\ a.ver \in Versions /\ a.gone = TRUE
    BY <1>1, <2>1
  <2>3. a \in [rec : Records, id : Identities \cup {Nowhere}, ver : Versions, gone : BOOLEAN]
    BY <1>1, <2>1
  <2> QED BY <2>2, <2>3 DEF Arrival
<1> QED BY <1>2, <1>3 DEF Reports

\* The seqs drawn, and the latest a reader sees.
LEMMA SeqsAre ==
    ASSUME LogTyped
    PROVE  /\ Seqs = 1 .. Len(reported) /\ Len(reported) \in Nat
           /\ Seqs \subseteq 1 .. MaxArrivals
           /\ \A s \in Seqs : reported[s] \in Reports
           /\ Latest \in Logged \cup {0} /\ Latest \in 0 .. Len(reported)
           /\ \A s \in Logged : s <= Latest
<1>1. Seqs = 1 .. Len(reported) /\ Len(reported) \in Nat /\ \A s \in Seqs : reported[s] \in Reports
  BY DEF LogTyped, Seqs
<1>2. Seqs \subseteq 1 .. MaxArrivals
  BY <1>1, WaitsBoundsAssumption DEF LogTyped
<1>3. /\ Logged \cup {0} \in SUBSET Nat /\ Logged \cup {0} # {}
      /\ IsFiniteSet(Logged \cup {0})
  <2>1. IsFiniteSet(0 .. Len(reported))
    BY <1>1, FS_Interval
  <2>2. Logged \cup {0} \subseteq 0 .. Len(reported)
    BY <1>1 DEF Logged
  <2> QED BY <1>1, <2>1, <2>2, FS_Subset
<1>4. Latest \in Logged \cup {0} /\ \A s \in Logged \cup {0} : s <= Latest
  BY <1>3, MaxIs DEF Latest
<1>5. Latest \in 0 .. Len(reported)
  BY <1>1, <1>4 DEF Logged
<1> QED BY <1>1, <1>2, <1>4, <1>5

LEMMA MarkIs ==
    ASSUME LogTyped
    PROVE  MarkNow \in [seq : 0 .. MaxArrivals, before : SUBSET (1 .. MaxArrivals)]
<1>1. Latest \in 0 .. MaxArrivals /\ Seqs \ flight \in SUBSET (1 .. MaxArrivals)
  BY SeqsAre, WaitsBoundsAssumption DEF LogTyped
<1> QED BY <1>1 DEF MarkNow

LEMMA IdleIs ==
    /\ Idle \in JobTypes /\ ~Idle.on /\ Idle.by = Nowhere /\ Idle.at = Nowhere /\ Idle.todo = {} /\ Idle.row = NoRow
    /\ Idle.parks = {} /\ Idle.done = {} /\ Idle.entered = {} /\ Idle.bound = <<>>
    /\ Idle.marks = [k \in Records |-> NoMark]
<1>1. <<>> \in Seq(Bounds)
  OBVIOUS
<1>2. [k \in Records |-> NoMark] \in [Records -> Marks]
  BY DEF Marks
<1> QED BY <1>1, <1>2 DEF Idle, JobTypes

\* What each report that is logged does to the waits.
LEMMA StrandingsTyped ==
    ASSUME WaitsTyped, NEW a \in Reports
    PROVE  /\ Strandings(wait, a) \in [Runs -> [Records -> Wait \cup {NoWait}]]
           /\ \A r \in Runs : \A k \in Records :
                /\ Strandings(wait, a)[r][k] = NoWait <=> wait[r][k] = NoWait
                /\ wait[r][k] # NoWait =>
                     Strandings(wait, a)[r][k] =
                        [wait[r][k] EXCEPT !.stranded =
                            IF k # a.rec \/ (a.gone /\ ~Parked(r, k)) THEN @ ELSE a.gone]
<1>1. a.rec \in Records /\ a.gone \in BOOLEAN
  BY ReportIs
<1>2. \A w \in Wait : \A b \in BOOLEAN : [w EXCEPT !.stranded = b] \in Wait /\ w = [w EXCEPT !.stranded = @]
  BY DEF Wait
<1>3. ASSUME NEW r \in Runs
      PROVE  \E new \in Wait \cup {NoWait} :
                /\ Strandings(wait, a)[r] = [wait[r] EXCEPT ![a.rec] = new]
                /\ new = IF wait[r][a.rec] = NoWait \/ (a.gone /\ ~Parked(r, a.rec)) THEN wait[r][a.rec]
                         ELSE [wait[r][a.rec] EXCEPT !.stranded = a.gone]
  <2>1. wait[r] \in [Records -> Wait \cup {NoWait}] /\ wait[r][a.rec] \in Wait \cup {NoWait}
    BY <1>1, <1>3 DEF WaitsTyped
  <2> QED BY <1>1, <1>2, <1>3, <2>1 DEF Strandings
<1>4. Strandings(wait, a) \in [Runs -> [Records -> Wait \cup {NoWait}]]
  <2>1. ASSUME NEW r \in Runs PROVE Strandings(wait, a)[r] \in [Records -> Wait \cup {NoWait}]
    <3>1. PICK new \in Wait \cup {NoWait} : Strandings(wait, a)[r] = [wait[r] EXCEPT ![a.rec] = new]
      BY <1>3
    <3>2. wait[r] \in [Records -> Wait \cup {NoWait}]
      BY DEF WaitsTyped
    <3> QED BY <1>1, <3>1, <3>2
  <2>2. Strandings(wait, a) = [r \in Runs |-> Strandings(wait, a)[r]]
    BY DEF Strandings
  <2> QED BY <2>1, <2>2
<1>5. ASSUME NEW r \in Runs, NEW k \in Records
      PROVE  /\ Strandings(wait, a)[r][k] = NoWait <=> wait[r][k] = NoWait
             /\ wait[r][k] # NoWait =>
                     Strandings(wait, a)[r][k] =
                        [wait[r][k] EXCEPT !.stranded =
                            IF k # a.rec \/ (a.gone /\ ~Parked(r, k)) THEN @ ELSE a.gone]
  <2>1. PICK new \in Wait \cup {NoWait} :
                /\ Strandings(wait, a)[r] = [wait[r] EXCEPT ![a.rec] = new]
                /\ new = IF wait[r][a.rec] = NoWait \/ (a.gone /\ ~Parked(r, a.rec)) THEN wait[r][a.rec]
                         ELSE [wait[r][a.rec] EXCEPT !.stranded = a.gone]
    BY <1>3, <1>5
  <2>2. wait[r] \in [Records -> Wait \cup {NoWait}] /\ wait[r][k] \in Wait \cup {NoWait}
    BY <1>5 DEF WaitsTyped
  <2>3. Strandings(wait, a)[r][k] = IF k = a.rec THEN new ELSE wait[r][k]
    BY <2>1, <2>2
  <2>4. CASE k # a.rec
    BY <1>2, <2>2, <2>3, <2>4
  <2>5. CASE k = a.rec /\ wait[r][k] = NoWait
    BY <2>1, <2>3, <2>5
  <2>6. CASE k = a.rec /\ wait[r][k] # NoWait /\ a.gone /\ ~Parked(r, k)
    BY <1>2, <2>1, <2>2, <2>3, <2>6
  <2>7. CASE k = a.rec /\ wait[r][k] # NoWait /\ ~(a.gone /\ ~Parked(r, k))
    <3>1. Strandings(wait, a)[r][k] = [wait[r][k] EXCEPT !.stranded = a.gone]
      BY <2>1, <2>3, <2>7
    <3>2. Strandings(wait, a)[r][k] # NoWait
      BY <3>1, <2>2, <2>7, <1>1, <1>2, NoWaitAssumption
    <3> QED BY <3>1, <3>2, <2>7
  <2> QED BY <2>4, <2>5, <2>6, <2>7
<1> QED BY <1>4, <1>5

\* The same, of each wait.
LEMMA StrandingsAre ==
    ASSUME WaitsTyped, NEW a \in Reports, NEW r \in Runs, NEW k \in Records
    PROVE  /\ Strandings(wait, a)[r][k] = NoWait <=> wait[r][k] = NoWait
           /\ wait[r][k] # NoWait =>
                /\ Strandings(wait, a)[r][k] \in Wait /\ wait[r][k] \in Wait
                /\ Strandings(wait, a)[r][k].since = wait[r][k].since
                /\ Strandings(wait, a)[r][k].before = wait[r][k].before
                /\ Strandings(wait, a)[r][k].at = wait[r][k].at
                /\ Strandings(wait, a)[r][k].stranded =
                     IF k # a.rec \/ (a.gone /\ ~Parked(r, k)) THEN wait[r][k].stranded ELSE a.gone
<1>1. Strandings(wait, a)[r][k] = NoWait <=> wait[r][k] = NoWait
  BY StrandingsTyped
<1>2. ASSUME wait[r][k] # NoWait
      PROVE  /\ Strandings(wait, a)[r][k] \in Wait /\ wait[r][k] \in Wait
             /\ Strandings(wait, a)[r][k].since = wait[r][k].since
             /\ Strandings(wait, a)[r][k].before = wait[r][k].before
             /\ Strandings(wait, a)[r][k].at = wait[r][k].at
             /\ Strandings(wait, a)[r][k].stranded =
                     IF k # a.rec \/ (a.gone /\ ~Parked(r, k)) THEN wait[r][k].stranded ELSE a.gone
  <2>1. wait[r][k] \in Wait
    BY <1>2 DEF WaitsTyped
  <2>2. Strandings(wait, a)[r][k] =
            [wait[r][k] EXCEPT !.stranded = IF k # a.rec \/ (a.gone /\ ~Parked(r, k)) THEN @ ELSE a.gone]
    BY <1>2, StrandingsTyped
  <2>3. a.gone \in BOOLEAN
    BY ReportIs
  <2> QED BY <2>1, <2>2, <2>3 DEF Wait
<1> QED BY <1>1, <1>2

-----------------------------------------------------------------------------
(* Each step keeps the types, and where each run stands. *)

\* A seq is drawn for a report.
LEMMA DrawTyped ==
    ASSUME LogTyped, NEW a \in Reports, Draw(a)
    PROVE  /\ reported' \in Seq(Reports) /\ Len(reported') <= MaxArrivals
           /\ Len(reported') = Len(reported) + 1 /\ Seqs' = Seqs \cup {Len(reported) + 1}
           /\ Len(reported) + 1 \notin Seqs
           /\ reported'[Len(reported) + 1] = a
           /\ \A s \in Seqs : reported'[s] = reported[s]
           /\ known' \subseteq Records \X Identities \X Versions
<1>1. /\ reported \in Seq(Reports) /\ Len(reported) < MaxArrivals /\ MaxArrivals \in Nat
      /\ reported' = Append(reported, a) /\ Len(reported) \in Nat
  BY WaitsBoundsAssumption DEF LogTyped, Draw
<1>2. /\ reported' \in Seq(Reports) /\ Len(reported') = Len(reported) + 1
      /\ reported'[Len(reported) + 1] = a
      /\ \A s \in 1 .. Len(reported) : reported'[s] = reported[s]
  BY <1>1
<1>3. Seqs = 1 .. Len(reported) /\ Seqs' = 1 .. Len(reported')
  BY <1>1, <1>2 DEF Seqs
<1>4. known' \subseteq Records \X Identities \X Versions
  <2>1. known \subseteq Records \X Identities \X Versions
    BY DEF LogTyped
  <2>2. a.rec \in Records /\ a.ver \in Versions /\ (a.id # Nowhere => a.id \in Identities)
    BY ReportIs
  <2> QED BY <2>1, <2>2 DEF Draw
<1>5. Seqs' = Seqs \cup {Len(reported) + 1} /\ Len(reported) + 1 \notin Seqs /\ Len(reported') <= MaxArrivals
  BY <1>1, <1>2, <1>3
<1> QED BY <1>2, <1>3, <1>4, <1>5

\* The rows a report's commit asks for are of parked leaves.
LEMMA WakesAre ==
    ASSUME WaitsTyped, NEW a \in Reports, NEW w \in WakesOf(a)
    PROVE  \E r \in Runs : /\ ~a.gone /\ Parked(r, a.rec)
                           /\ wait[r][a.rec] \in Wait /\ wait[r][a.rec].at \in Addresses
                           /\ w = <<r, a.rec, wait[r][a.rec].at>> /\ w \in Rows
<1>1. PICK r \in Runs : ~a.gone /\ Parked(r, a.rec) /\ w = <<r, a.rec, wait[r][a.rec].at>>
  BY DEF WakesOf
<1>2. a.rec \in Records
  BY ReportIs
<1>3. wait[r][a.rec] \in Wait /\ wait[r][a.rec].at \in Addresses
  BY <1>1, <1>2 DEF WaitsTyped, Parked, Wait
<1> QED BY <1>1, <1>2, <1>3 DEF Rows

\* A run's process goes on as it stands while the log grows.
LEMMA JobStaysWhileLogged ==
    ASSUME Standing, NEW r \in Runs, job'[r] = job[r],
           Seqs \subseteq Seqs', \A s \in Seqs : reported'[s] = reported[s],
           run'[r].status = run[r].status \/ ~job[r].on
    PROVE  JobStands(r)'
BY IdleIs DEF Standing, JobStands

LEMMA BeginLogKeepsTypes ==
    ASSUME TypeInv, NEW a \in Reports, BeginLog(a)
    PROVE  TypeInv'
<1>1. Draw(a) /\ LogTyped /\ flight' = flight \cup {Len(reported) + 1}
      /\ UNCHANGED <<swept, run, leaf, wait, seen, wakes, job, failures>>
  BY DEF BeginLog, TypeInv, Typed
<1>2. LogTyped'
  BY <1>1, DrawTyped DEF LogTyped
<1>3. RunsTyped' /\ WaitsTyped' /\ JobsTyped'
  BY <1>1 DEF TypeInv, Typed, RunsTyped, WaitsTyped, JobsTyped
<1>4. Standing'
  <2>1. \A r \in Runs : JobStands(r)'
    BY <1>1, DrawTyped, JobStaysWhileLogged DEF TypeInv
  <2>2. \A r \in Runs : WaitStands(r)'
    BY <1>1 DEF TypeInv, Standing, WaitStands
  <2> QED BY <1>1, <2>1, <2>2 DEF TypeInv, Standing
<1> QED BY <1>2, <1>3, <1>4 DEF TypeInv, Typed

LEMMA EndLogKeepsTypes ==
    ASSUME TypeInv, NEW s \in flight, EndLog(s)
    PROVE  TypeInv'
<1>1. /\ LogTyped /\ WaitsTyped /\ reported[s] \in Reports
      /\ flight' = flight \ {s} /\ wait' = Strandings(wait, reported[s]) /\ wakes' = wakes \cup WakesOf(reported[s])
      /\ UNCHANGED <<reported, swept, known, run, leaf, seen, job, failures>>
  BY SeqsAre DEF EndLog, TypeInv, Typed, LogTyped
<1>2. LogTyped'
  BY <1>1 DEF LogTyped, Seqs
<1>3. WaitsTyped'
  BY <1>1, StrandingsTyped DEF WaitsTyped
<1>4. RunsTyped' /\ JobsTyped'
  <2>1. WakesOf(reported[s]) \subseteq Rows
    BY <1>1, WakesAre
  <2> QED BY <1>1, <2>1 DEF TypeInv, Typed, RunsTyped, JobsTyped
<1>5. Standing'
  <2>1. \A r \in Runs : JobStands(r)'
    BY <1>1 DEF TypeInv, Standing, JobStands, Seqs
  <2>2. ASSUME NEW r \in Runs PROVE WaitStands(r)'
    <3>1. ASSUME NEW k \in Records, wait'[r][k] # NoWait
          PROVE  wait[r][k] # NoWait /\ wait'[r][k].at = wait[r][k].at
      BY <1>1, <3>1, StrandingsAre
    <3> QED BY <1>1, <3>1 DEF TypeInv, Standing, WaitStands
  <2>3. ASSUME NEW w \in WakesOf(reported[s]) PROVE w[2] = AwaitOf[w[3]]
    <3>1. PICK r \in Runs : /\ Parked(r, reported[s].rec) /\ w = <<r, reported[s].rec, wait[r][reported[s].rec].at>>
      BY <1>1, <2>3, WakesAre
    <3>2. reported[s].rec \in Records
      BY <1>1, ReportIs
    <3> QED BY <3>1, <3>2 DEF TypeInv, Standing, WaitStands, Parked
  <2> QED BY <1>1, <2>1, <2>2, <2>3 DEF TypeInv, Standing
<1> QED BY <1>2, <1>3, <1>4, <1>5 DEF TypeInv, Typed

LEMMA BoundIs ==
    ASSUME NEW a \in Reports, ~a.gone, NEW at \in Addresses \cup {Nowhere}, NEW listed \in BOOLEAN
    PROVE  Bound(a, at, listed) \in Bounds
BY ReportIs DEF Bound, Bounds

LEMMA DeliverKeepsTypes ==
    ASSUME TypeInv, NEW r \in Runs, NEW a \in Reports, Deliver(r, a)
    PROVE  TypeInv'
<1>1. /\ LogTyped /\ WaitsTyped /\ RunsTyped /\ JobsTyped /\ Standing /\ Draw(a) /\ run[r].status = "none"
      /\ a.rec = Trigger /\ ~a.gone /\ Trigger \in Records
      /\ run' = [run EXCEPT ![r].status = "queued", ![r].bound = <<Bound(a, Nowhere, TRUE)>>]
      /\ wait' = [Strandings(wait, a) EXCEPT ![r][Trigger] =
                    [since |-> Latest, before |-> Seqs \ flight, at |-> Nowhere, stranded |-> FALSE]]
      /\ seen' = [seen EXCEPT ![r][Trigger] = PreNoted(a)]
      /\ wakes' = wakes \cup WakesOf(a)
      /\ UNCHANGED <<flight, swept, leaf, job, failures>>
  BY RecordsAssumption DEF Deliver, TypeInv, Typed
<1>2. LogTyped'
  BY <1>1, DrawTyped DEF LogTyped
<1>3. RunsTyped'
  <2>1. PICK b \in Seq(Bounds) : b = <<Bound(a, Nowhere, TRUE)>>
    <3>1. PICK x \in Bounds : x = Bound(a, Nowhere, TRUE)
      BY <1>1, BoundIs
    <3>2. <<x>> \in Seq(Bounds)
      OBVIOUS
    <3> QED BY <3>1, <3>2
  <2>2. run' \in [Runs -> RunTypes]
    <3>1. run[r] \in RunTypes /\ run \in [Runs -> RunTypes]
      BY <1>1 DEF RunsTyped
    <3>2. [run[r] EXCEPT !.status = "queued", !.bound = b] \in RunTypes
      BY <3>1 DEF RunTypes
    <3>3. run' = [run EXCEPT ![r] = [run[r] EXCEPT !.status = "queued", !.bound = b]]
      BY <1>1, <2>1, <3>1
    <3> QED BY <3>1, <3>2, <3>3
  <2> QED BY <1>1, <2>2 DEF RunsTyped
<1>4. WaitsTyped' /\ \A q \in Runs : \A k \in Records :
                        \/ q = r /\ k = Trigger /\ wait'[q][k].at = Nowhere
                        \/ wait'[q][k] = Strandings(wait, a)[q][k]
  <2>1. [since |-> Latest, before |-> Seqs \ flight, at |-> Nowhere, stranded |-> FALSE] \in Wait
    <3>1. Latest \in 0 .. MaxArrivals /\ Seqs \ flight \in SUBSET (1 .. MaxArrivals)
      BY <1>1, SeqsAre, WaitsBoundsAssumption DEF LogTyped
    <3> QED BY <3>1 DEF Wait
  <2>2. /\ wait' \in [Runs -> [Records -> Wait \cup {NoWait}]]
        /\ \A q \in Runs : \A k \in Records :
                        \/ q = r /\ k = Trigger /\ wait'[q][k].at = Nowhere
                        \/ wait'[q][k] = Strandings(wait, a)[q][k]
    <3>1. Strandings(wait, a) \in [Runs -> [Records -> Wait \cup {NoWait}]]
      BY <1>1, StrandingsTyped
    <3> QED BY <1>1, <2>1, <3>1
  <2>3. PreNoted(a) \in SUBSET Notes /\ IsFiniteSet(PreNoted(a))
    <3>1. [id |-> a.id, ver |-> a.ver, matched |-> FALSE, by |-> Nowhere, nth |-> 1] \in Notes
      BY <1>1, ReportIs DEF Notes
    <3> QED BY <3>1, FS_Singleton DEF PreNoted
  <2>4. /\ seen' \in [Runs -> [Records -> SUBSET Notes]]
        /\ \A q \in Runs : \A k \in Records : IsFiniteSet(seen'[q][k])
    BY <1>1, <2>3 DEF WaitsTyped
  <2> QED BY <2>2, <2>4 DEF WaitsTyped
<1>5. JobsTyped'
  <2>1. WakesOf(a) \subseteq Rows
    BY <1>1, WakesAre
  <2> QED BY <1>1, <2>1 DEF JobsTyped
<1>6. Standing'
  <2>0. ~job[r].on /\ \A q \in Runs : run'[q].status = IF q = r THEN "queued" ELSE run[q].status
    BY <1>1 DEF Standing, JobStands, RunsTyped, RunTypes
  <2>1. \A q \in Runs : JobStands(q)'
    BY <1>1, <2>0, DrawTyped, JobStaysWhileLogged
  <2>2. ASSUME NEW q \in Runs PROVE WaitStands(q)'
    <3>1. ASSUME NEW k \in Records, wait'[q][k] # NoWait
          PROVE  /\ run'[q].status # "none"
                 /\ wait'[q][k].at = Nowhere \/ AwaitOf[wait'[q][k].at] = k
      <4>1. CASE q = r /\ k = Trigger /\ wait'[q][k].at = Nowhere
        BY <2>0, <4>1
      <4>2. CASE wait'[q][k] = Strandings(wait, a)[q][k]
        <5>1. wait[q][k] # NoWait /\ wait'[q][k].at = wait[q][k].at
          BY <1>1, <3>1, <4>2, StrandingsAre
        <5>2. run[q].status # "none" /\ (wait[q][k].at = Nowhere \/ AwaitOf[wait[q][k].at] = k)
          BY <1>1, <5>1 DEF Standing, WaitStands
        <5> QED BY <2>0, <5>1, <5>2
      <4> QED BY <1>4, <4>1, <4>2
    <3> QED BY <1>1, <2>0, <3>1 DEF Standing, WaitStands
  <2>3. ASSUME NEW w \in WakesOf(a) PROVE w[2] = AwaitOf[w[3]]
    <3>1. PICK q \in Runs : Parked(q, a.rec) /\ w = <<q, a.rec, wait[q][a.rec].at>>
      BY <1>1, <2>3, WakesAre
    <3> QED BY <1>1, <3>1 DEF Standing, WaitStands, Parked
  <2> QED BY <1>1, <2>1, <2>2, <2>3 DEF Standing
<1> QED BY <1>2, <1>3, <1>4, <1>5, <1>6 DEF TypeInv, Typed

\* The steps that leave the runs, their waits and their jobs alone.
LEMMA SweepKeepsTypes ==
    ASSUME TypeInv, (\E x \in known : WindowEnds(x)) \/ Sweep
    PROVE  TypeInv'
<1>1. /\ LogTyped /\ RunsTyped /\ WaitsTyped /\ JobsTyped /\ Standing
      /\ UNCHANGED <<reported, flight, run, leaf, wait, seen, wakes, job, failures>>
      /\ known' \subseteq known
  BY DEF WindowEnds, Sweep, TypeInv, Typed
<1>2. swept' \subseteq Seqs \ flight
  <2>1. CASE Sweep
    <3>1. Sweepable \in SUBSET Nat /\ Sweepable # {} /\ Sweepable \subseteq Seqs \ flight
      BY <1>1, <2>1, SeqsAre DEF Sweep, Sweepable, Logged
    <3>2. Min(Sweepable) \in Sweepable
      BY <3>1, MinIs
    <3> QED BY <1>1, <2>1, <3>1, <3>2 DEF Sweep, LogTyped
  <2>2. CASE \E x \in known : WindowEnds(x)
    BY <1>1, <2>2 DEF WindowEnds, LogTyped
  <2> QED BY <2>1, <2>2
<1>3. LogTyped'
  BY <1>1, <1>2 DEF LogTyped, Seqs
<1>4. RunsTyped' /\ WaitsTyped' /\ JobsTyped' /\ Standing'
  BY <1>1 DEF RunsTyped, WaitsTyped, JobsTyped, Standing, JobStands, WaitStands, Seqs
<1> QED BY <1>3, <1>4 DEF TypeInv, Typed

\* What any step of a run's process is: one of that run alone.
LeafTypes == [Addresses -> {"none", "parked", "resuming"}]

NotesTypes == {s \in [Records -> SUBSET Notes] : \A k \in Records : IsFiniteSet(s[k])}

StepOf(r) ==
    /\ UNCHANGED <<reported, flight, swept, known>> /\ failures' \in 0 .. MaxFailures
    /\ \E new \in RunTypes : run' = [run EXCEPT ![r] = new]
    /\ \E new \in LeafTypes : leaf' = [leaf EXCEPT ![r] = new]
    /\ \E new \in [Records -> Wait \cup {NoWait}] : wait' = [wait EXCEPT ![r] = new]
    /\ \E new \in NotesTypes : seen' = [seen EXCEPT ![r] = new]
    /\ \E new \in JobTypes : job' = [job EXCEPT ![r] = new]
    /\ wakes' \subseteq Rows /\ \A w \in wakes' : w[2] = AwaitOf[w[3]]

LEMMA RunIs ==
    ASSUME TypeInv, NEW r \in Runs
    PROVE  /\ run[r] \in RunTypes /\ leaf[r] \in LeafTypes /\ wait[r] \in [Records -> Wait \cup {NoWait}]
           /\ seen[r] \in NotesTypes /\ job[r] \in JobTypes /\ failures \in 0 .. MaxFailures
           /\ JobStands(r) /\ WaitStands(r)
           /\ wakes \subseteq Rows /\ \A w \in wakes : w[2] = AwaitOf[w[3]]
BY DEF TypeInv, Typed, LogTyped, RunsTyped, WaitsTyped, JobsTyped, Standing, LeafTypes, NotesTypes

\* What such a step leaves of what it does not change.
LEMMA SameIs ==
    ASSUME TypeInv, NEW r \in Runs
    PROVE  /\ run' = run => \E new \in RunTypes : run' = [run EXCEPT ![r] = new]
           /\ leaf' = leaf => \E new \in LeafTypes : leaf' = [leaf EXCEPT ![r] = new]
           /\ wait' = wait => \E new \in [Records -> Wait \cup {NoWait}] : wait' = [wait EXCEPT ![r] = new]
           /\ seen' = seen => \E new \in NotesTypes : seen' = [seen EXCEPT ![r] = new]
           /\ job' = job => \E new \in JobTypes : job' = [job EXCEPT ![r] = new]
           /\ wakes' \subseteq wakes => wakes' \subseteq Rows /\ \A w \in wakes' : w[2] = AwaitOf[w[3]]
           /\ failures' = failures => failures' \in 0 .. MaxFailures
<1>1. /\ run \in [Runs -> RunTypes] /\ leaf \in [Runs -> LeafTypes] /\ wait \in [Runs -> [Records -> Wait \cup {NoWait}]]
      /\ seen \in [Runs -> NotesTypes] /\ job \in [Runs -> JobTypes]
  BY DEF TypeInv, Typed, RunsTyped, WaitsTyped, JobsTyped, LeafTypes, NotesTypes
<1>2. /\ run = [run EXCEPT ![r] = run[r]] /\ leaf = [leaf EXCEPT ![r] = leaf[r]] /\ wait = [wait EXCEPT ![r] = wait[r]]
      /\ seen = [seen EXCEPT ![r] = seen[r]] /\ job = [job EXCEPT ![r] = job[r]]
  BY <1>1
<1> QED BY <1>2, RunIs

LEMMA StepIs ==
    ASSUME TypeInv, NEW r \in Runs, StepOf(r)
    PROVE  /\ \A q \in Runs : q # r => /\ run'[q] = run[q] /\ leaf'[q] = leaf[q] /\ wait'[q] = wait[q]
                                       /\ seen'[q] = seen[q] /\ job'[q] = job[q]
           /\ UNCHANGED <<reported, flight, swept, known>>
           /\ Typed'
<1>1. /\ run \in [Runs -> RunTypes] /\ leaf \in [Runs -> LeafTypes] /\ wait \in [Runs -> [Records -> Wait \cup {NoWait}]]
      /\ seen \in [Runs -> NotesTypes] /\ job \in [Runs -> JobTypes] /\ LogTyped
  BY DEF TypeInv, Typed, RunsTyped, WaitsTyped, JobsTyped, LeafTypes, NotesTypes
<1>2. \A q \in Runs : q # r => /\ run'[q] = run[q] /\ leaf'[q] = leaf[q] /\ wait'[q] = wait[q]
                               /\ seen'[q] = seen[q] /\ job'[q] = job[q]
  BY <1>1 DEF StepOf
<1>3. /\ run' \in [Runs -> RunTypes] /\ leaf' \in [Runs -> LeafTypes] /\ wait' \in [Runs -> [Records -> Wait \cup {NoWait}]]
      /\ seen' \in [Runs -> NotesTypes] /\ job' \in [Runs -> JobTypes]
  BY <1>1 DEF StepOf
<1>4. LogTyped' /\ RunsTyped' /\ WaitsTyped' /\ JobsTyped'
  BY <1>1, <1>3 DEF StepOf, LogTyped, Seqs, RunsTyped, WaitsTyped, JobsTyped, LeafTypes, NotesTypes
<1> QED BY <1>2, <1>4 DEF StepOf, Typed

LEMMA StepKeepsTypes ==
    ASSUME TypeInv, NEW r \in Runs, StepOf(r), JobStands(r)', WaitStands(r)'
    PROVE  TypeInv'
<1>1. ASSUME NEW q \in Runs, q # r PROVE JobStands(q)' /\ WaitStands(q)'
  <2>1. /\ run'[q] = run[q] /\ leaf'[q] = leaf[q] /\ wait'[q] = wait[q] /\ job'[q] = job[q] /\ reported' = reported
    BY <1>1, StepIs
  <2> QED BY <2>1, <1>1, RunIs DEF JobStands, WaitStands, Seqs
<1> QED BY <1>1, StepIs DEF TypeInv, Standing, StepOf

-----------------------------------------------------------------------------
(* Each step of a run's process. *)

LEMMA JobOfIs ==
    ASSUME NEW by \in Addresses \cup {Nowhere}, NEW entered \in SUBSET Records, NEW row \in Rows \cup {NoRow}
    PROVE  JobOf(by, entered, row) \in JobTypes
BY IdleIs DEF JobOf, JobTypes

LEMMA EndingIs ==
    ASSUME NEW row \in Rows \cup {NoRow}
    PROVE  /\ Ending(row) \in JobTypes /\ Ending(row).on /\ Ending(row).row = row
           /\ Ending(row).by = Nowhere /\ Ending(row).at = Nowhere /\ Ending(row).todo = {}
           /\ Ending(row).parks = {} /\ Ending(row).done = {} /\ Ending(row).entered = {} /\ Ending(row).bound = <<>>
           /\ Ending(row).marks = [k \in Records |-> NoMark]
<1>1. Ending(row) = [Idle EXCEPT !.on = TRUE, !.by = Nowhere, !.entered = {}, !.row = row]
  BY DEF Ending, JobOf
<1> QED BY <1>1, IdleIs, JobOfIs DEF JobTypes, Ending

\* A process with a record to read, or an await it is at, steps a run under way.
LEMMA UnderWay ==
    ASSUME TypeInv, NEW r \in Runs, job[r].on, job[r].at # Nowhere \/ job[r].todo # {} \/ Between(r)
    PROVE  run[r].status \in {"running", "parked"}
<1>1. job[r] \in JobTypes /\ JobStands(r)
  BY RunIs
<1>2. job[r].row \in Rows \cup {NoRow}
  BY <1>1 DEF JobTypes
<1> QED BY <1>1, <1>2, EndingIs DEF JobStands, Between

LEMMA LeasedIs ==
    ASSUME TypeInv, NEW r \in Runs, NEW status \in {"running", "parked", "ended"}, run' = Leased(r, status)
    PROVE  /\ \E new \in RunTypes : run' = [run EXCEPT ![r] = new]
           /\ run'[r].status = status /\ run'[r].lease = "held" /\ run'[r].mark = Latest
           /\ run'[r].entered = run[r].entered /\ run'[r].done = run[r].done /\ run'[r].bound = run[r].bound
<1>1. run[r] \in RunTypes /\ run \in [Runs -> RunTypes]
  BY DEF TypeInv, Typed, RunsTyped
<1>2. Latest \in 0 .. MaxArrivals
  BY SeqsAre, WaitsBoundsAssumption DEF TypeInv, Typed, LogTyped
<1>3. [run[r] EXCEPT !.status = status, !.lease = "held", !.mark = Latest] \in RunTypes
  BY <1>1, <1>2 DEF RunTypes
<1>4. run' = [run EXCEPT ![r] = [run[r] EXCEPT !.status = status, !.lease = "held", !.mark = Latest]]
  BY <1>1 DEF Leased
<1>5. run'[r] = [run[r] EXCEPT !.status = status, !.lease = "held", !.mark = Latest]
  BY <1>1, <1>4
<1> QED BY <1>1, <1>3, <1>4, <1>5 DEF RunTypes

LEMMA StartIs ==
    ASSUME TypeInv, NEW r \in Runs, Start(r)
    PROVE  /\ StepOf(r) /\ JobStands(r)' /\ WaitStands(r)'
           /\ ~job[r].on
           /\ run'[r].status = "running" /\ run'[r].lease = "held" /\ run'[r].mark = Latest
           /\ run'[r].entered = run[r].entered /\ run'[r].done = run[r].done /\ run'[r].bound = run[r].bound
           /\ job'[r] = JobOf(Nowhere, IF run[r].status = "queued" THEN {Trigger} ELSE {}, NoRow)
<1> DEFINE entered == IF run[r].status = "queued" THEN {Trigger} ELSE {}
<1>1. /\ run[r].status \in {"none", "queued"} /\ run' = Leased(r, "running")
      /\ job' = [job EXCEPT ![r] = JobOf(Nowhere, entered, NoRow)]
      /\ UNCHANGED <<reported, flight, swept, known, leaf, wait, seen, wakes, failures>>
  BY DEF Start
<1>2. entered \in SUBSET Records /\ job \in [Runs -> JobTypes]
  BY RecordsAssumption DEF TypeInv, Typed, JobsTyped
<1> HIDE DEF entered
<1>3. PICK new \in JobTypes :
          /\ new = JobOf(Nowhere, entered, NoRow)
          /\ new.on /\ new.by = Nowhere /\ new.row = NoRow /\ new.todo = {}
  <2>1. JobOf(Nowhere, entered, NoRow) \in JobTypes
    BY <1>2, JobOfIs
  <2> QED BY <2>1 DEF JobOf, Idle
<1>4. StepOf(r)
  BY <1>1, <1>3, LeasedIs, SameIs DEF StepOf
<1>5. job'[r] = new
  BY <1>1, <1>2, <1>3
<1>6. JobStands(r)'
  <2>1. job'[r].on /\ job'[r].by = Nowhere /\ job'[r].row = NoRow /\ job'[r].todo = {}
    BY <1>3, <1>5
  <2>2. run'[r].status = "running"
    BY <1>1, LeasedIs
  <2> QED BY <2>1, <2>2 DEF JobStands
<1>7. WaitStands(r)'
  BY <1>1, LeasedIs, RunIs DEF WaitStands
<1>8. ~job[r].on
  BY <1>1, RunIs DEF JobStands
<1> QED BY <1>1, <1>3, <1>4, <1>5, <1>6, <1>7, <1>8, LeasedIs DEF entered

LEMMA NoWaitsIs ==
    ASSUME TypeInv, NEW r \in Runs, WaitsDropped(r)
    PROVE  /\ \E new \in [Records -> Wait \cup {NoWait}] : wait' = [wait EXCEPT ![r] = new]
           /\ \E new \in NotesTypes : seen' = [seen EXCEPT ![r] = new]
           /\ \A k \in Records : wait'[r][k] = NoWait /\ seen'[r][k] = {}
<1>1. [k \in Records |-> NoWait] \in [Records -> Wait \cup {NoWait}]
  OBVIOUS
<1>2. [k \in Records |-> {}] \in NotesTypes
  BY FS_EmptySet DEF NotesTypes
<1>3. wait \in [Runs -> [Records -> Wait \cup {NoWait}]] /\ seen \in [Runs -> [Records -> SUBSET Notes]]
  BY DEF TypeInv, Typed, WaitsTyped
<1>4. wait'[r] = [k \in Records |-> NoWait] /\ seen'[r] = [k \in Records |-> {}]
  BY <1>3 DEF WaitsDropped
<1> QED BY <1>1, <1>2, <1>4 DEF WaitsDropped

\* A run ends that never started, its waits with it.
LEMMA NeverStartsIs ==
    ASSUME TypeInv, NEW r \in Runs, NeverStarts(r)
    PROVE  /\ StepOf(r) /\ JobStands(r)' /\ WaitStands(r)'
           /\ ~job[r].on /\ run[r].status = "queued" /\ UNCHANGED <<leaf, wakes, job>>
           /\ run'[r].status = "ended" /\ run'[r].bound = run[r].bound /\ run'[r].lease = run[r].lease
           /\ run'[r].mark = run[r].mark /\ run'[r].done = run[r].done /\ run'[r].entered = run[r].entered
           /\ \A k \in Records : wait'[r][k] = NoWait /\ seen'[r][k] = {}
<1>1. /\ run' = [run EXCEPT ![r].status = "ended"] /\ WaitsDropped(r)
      /\ run[r].status = "queued" /\ ~job[r].on
      /\ UNCHANGED <<reported, flight, swept, known, leaf, wakes, job, failures>>
  BY RunIs DEF NeverStarts, JobStands
<1>2. run[r] \in RunTypes /\ run \in [Runs -> RunTypes]
  BY DEF TypeInv, Typed, RunsTyped
<1>3. [run[r] EXCEPT !.status = "ended"] \in RunTypes /\ run' = [run EXCEPT ![r] = [run[r] EXCEPT !.status = "ended"]]
  BY <1>1, <1>2 DEF RunTypes
<1>4. StepOf(r)
  BY <1>1, <1>3, SameIs, NoWaitsIs DEF StepOf
<1>5. run'[r] = [run[r] EXCEPT !.status = "ended"]
  BY <1>2, <1>3
<1>6. /\ run'[r].status = "ended" /\ run'[r].bound = run[r].bound /\ run'[r].lease = run[r].lease
      /\ run'[r].mark = run[r].mark /\ run'[r].done = run[r].done /\ run'[r].entered = run[r].entered
  BY <1>2, <1>5 DEF RunTypes
<1>7. JobStands(r)'
  BY <1>1, RunIs DEF JobStands, Seqs
<1>8. WaitStands(r)'
  BY <1>1, RunIs, NoWaitsIs DEF WaitStands
<1> QED BY <1>1, <1>4, <1>6, <1>7, <1>8, NoWaitsIs

\* A run that was lost before it parked is failed, its waits still to be dropped.
LEMMA FailLostIs ==
    ASSUME TypeInv, NEW r \in Runs, FailLost(r)
    PROVE  /\ StepOf(r) /\ JobStands(r)' /\ WaitStands(r)'
           /\ ~job[r].on /\ run[r].status = "running" /\ UNCHANGED <<leaf, wait, seen, wakes>>
           /\ run'[r].status = "ended" /\ run'[r].lease = "held" /\ run'[r].mark = Latest
           /\ run'[r].entered = run[r].entered /\ run'[r].done = run[r].done /\ run'[r].bound = run[r].bound
           /\ job'[r] = Ending(NoRow)
<1>1. /\ run[r].status = "running" /\ ~job[r].on /\ run' = Leased(r, "ended")
      /\ job' = [job EXCEPT ![r] = Ending(NoRow)]
      /\ UNCHANGED <<reported, flight, swept, known, leaf, wait, seen, wakes, failures>>
  BY DEF FailLost
<1>2. PICK new \in JobTypes : new = Ending(NoRow) /\ new.on /\ new.by = Nowhere /\ new.row = NoRow /\ new.todo = {}
  BY EndingIs
<1>3. job'[r] = new
  BY <1>1, <1>2 DEF TypeInv, Typed, JobsTyped
<1>4. StepOf(r)
  BY <1>1, <1>2, LeasedIs, SameIs DEF StepOf
<1>5. JobStands(r)'
  <2>1. run'[r].status = "ended"
    BY <1>1, LeasedIs
  <2> QED BY <1>2, <1>3, <2>1 DEF JobStands
<1>6. WaitStands(r)'
  BY <1>1, LeasedIs, RunIs DEF WaitStands
<1> QED BY <1>1, <1>2, <1>3, <1>4, <1>5, <1>6, LeasedIs

\* What a run that is over has left is dropped.
LEMMA DropIs ==
    ASSUME TypeInv, NEW r \in Runs, Drop(r)
    PROVE  /\ StepOf(r) /\ JobStands(r)' /\ WaitStands(r)'
           /\ job[r].on /\ run[r].status = "ended" /\ Held(r) /\ UNCHANGED <<leaf, wakes>>
           /\ run'[r] = [run[r] EXCEPT !.lease = "free"]
           /\ job'[r] = Idle
           /\ \A k \in Records : wait'[r][k] = NoWait /\ seen'[r][k] = {}
<1>1. /\ job[r].on /\ run[r].status = "ended" /\ Held(r) /\ WaitsDropped(r)
      /\ run' = [run EXCEPT ![r].lease = "free"]
      /\ job' = [job EXCEPT ![r] = Idle]
      /\ UNCHANGED <<reported, flight, swept, known, leaf, wakes, failures>>
  BY DEF Drop
<1>2. run[r] \in RunTypes /\ run \in [Runs -> RunTypes] /\ job \in [Runs -> JobTypes]
  BY DEF TypeInv, Typed, RunsTyped, JobsTyped
<1> DEFINE new == [run[r] EXCEPT !.lease = "free"]
<1>3. new \in RunTypes /\ new.status = "ended"
  BY <1>1, <1>2 DEF RunTypes
<1>4. run' = [run EXCEPT ![r] = new] /\ run'[r] = new /\ job'[r] = Idle
  BY <1>1, <1>2
<1> HIDE DEF new
<1>5. StepOf(r)
  BY <1>1, <1>3, <1>4, SameIs, NoWaitsIs, IdleIs DEF StepOf
<1>6. JobStands(r)'
  BY <1>4, IdleIs DEF JobStands
<1>7. WaitStands(r)'
  BY <1>1, <1>3, <1>4, RunIs, NoWaitsIs DEF WaitStands
<1> QED BY <1>1, <1>4, <1>5, <1>6, <1>7, NoWaitsIs DEF new

LEMMA ResumeIs ==
    ASSUME TypeInv, NEW w \in wakes, Resume(w)
    PROVE  \E r \in Runs : \E a \in Addresses :
           /\ w = <<r, AwaitOf[a], a>> /\ StepOf(r) /\ JobStands(r)' /\ WaitStands(r)'
           /\ run[r].status = "parked" /\ leaf[r][a] # "none" /\ ~job[r].on
           /\ wait' = wait /\ wakes' = wakes \ {w}
           /\ run'[r].status = "parked" /\ run'[r].lease = "held" /\ run'[r].mark = Latest
           /\ run'[r].entered = run[r].entered /\ run'[r].done = run[r].done /\ run'[r].bound = run[r].bound
           /\ \A b \in Addresses : leaf'[r][b] = "none" <=> leaf[r][b] = "none"
           /\ \A k \in Records : seen'[r][k] = {n \in seen[r][k] : n.by # a}
           /\ job'[r] = JobOf(a, {}, w)
<1>1. PICK r \in Runs, k \in Records, a \in Addresses : w = <<r, k, a>> /\ k = AwaitOf[a]
  BY DEF TypeInv, Typed, JobsTyped, Standing, Rows
<1>2. /\ run[r].status = "parked" /\ leaf[r][a] # "none" /\ ~job[r].on
      /\ run' = Leased(r, "parked")
      /\ leaf' = [leaf EXCEPT ![r] = [b \in Addresses |->
                    IF b = a THEN "resuming" ELSE IF leaf[r][b] = "resuming" THEN "parked" ELSE leaf[r][b]]]
      /\ seen' = [seen EXCEPT ![r] = NotesWithout(r, a)]
      /\ job' = [job EXCEPT ![r] = JobOf(a, {}, w)]
      /\ wakes' = wakes \ {w}
      /\ UNCHANGED <<reported, flight, swept, known, wait, failures>>
  BY <1>1 DEF Resume
<1>3. leaf[r] \in LeafTypes /\ leaf \in [Runs -> LeafTypes] /\ seen[r] \in NotesTypes /\ seen \in [Runs -> NotesTypes]
      /\ job \in [Runs -> JobTypes] /\ w \in Rows
  BY DEF TypeInv, Typed, RunsTyped, WaitsTyped, JobsTyped, LeafTypes, NotesTypes
<1>4. \E new \in LeafTypes : /\ leaf' = [leaf EXCEPT ![r] = new]
                             /\ \A b \in Addresses : new[b] = "none" <=> leaf[r][b] = "none"
  <2>1. leaf[r] \in [Addresses -> {"none", "parked", "resuming"}]
    BY <1>3 DEF LeafTypes
  <2> DEFINE new == [b \in Addresses |-> IF b = a THEN "resuming" ELSE IF leaf[r][b] = "resuming" THEN "parked" ELSE leaf[r][b]]
  <2>2. new \in LeafTypes
    BY <2>1 DEF LeafTypes
  <2>3. \A b \in Addresses : new[b] = "none" <=> leaf[r][b] = "none"
    BY <1>2, <2>1
  <2>4. leaf' = [leaf EXCEPT ![r] = new]
    BY <1>2
  <2> QED BY <2>2, <2>3, <2>4
<1>5. NotesWithout(r, a) \in NotesTypes
  <2>1. ASSUME NEW q \in Records
        PROVE  /\ {n \in seen[r][q] : n.by # a} \in SUBSET Notes /\ IsFiniteSet({n \in seen[r][q] : n.by # a})
    <3>1. seen[r][q] \in SUBSET Notes /\ IsFiniteSet(seen[r][q])
      BY <1>3 DEF NotesTypes
    <3> QED BY <3>1, FS_Subset
  <2> QED BY <2>1 DEF NotesWithout, NotesTypes
<1>6. PICK new \in JobTypes : /\ new = JobOf(a, {}, w)
                              /\ new.on /\ new.by = a /\ new.row = w /\ new.todo = {}
  <2>1. JobOf(a, {}, w) \in JobTypes
    BY <1>3, JobOfIs
  <2> QED BY <2>1 DEF JobOf, Idle
<1>7. StepOf(r)
  <2>1. \E x \in RunTypes : run' = [run EXCEPT ![r] = x]
    BY <1>2, LeasedIs
  <2> QED BY <1>2, <1>4, <1>5, <1>6, <2>1, SameIs DEF StepOf
<1>8. run'[r].status = "parked" /\ run'[r].lease = "held" /\ run'[r].mark = Latest
      /\ run'[r].entered = run[r].entered /\ run'[r].done = run[r].done /\ run'[r].bound = run[r].bound
  BY <1>2, LeasedIs
<1>9. /\ \A b \in Addresses : leaf'[r][b] = "none" <=> leaf[r][b] = "none"
      /\ \A q \in Records : seen'[r][q] = {n \in seen[r][q] : n.by # a}
      /\ job'[r] = new
  BY <1>2, <1>3, <1>4, <1>6 DEF NotesWithout
<1>10. JobStands(r)'
  BY <1>1, <1>6, <1>8, <1>9, NowhereAssumption DEF JobStands
<1>11. WaitStands(r)'
  BY <1>2, <1>8, RunIs DEF WaitStands
<1> QED BY <1>1, <1>2, <1>6, <1>7, <1>8, <1>9, <1>10, <1>11

LEMMA RowFindsNothingIs ==
    ASSUME TypeInv, NEW w \in wakes, RowFindsNothing(w)
    PROVE  \E r \in Runs : \E a \in Addresses :
           /\ w = <<r, AwaitOf[a], a>> /\ StepOf(r) /\ JobStands(r)' /\ WaitStands(r)'
           /\ run[r].status = "ended" \/ leaf[r][a] = "none"
           /\ UNCHANGED <<run, leaf, wait, seen, job>> /\ wakes' = wakes \ {w}
<1>1. PICK r \in Runs, k \in Records, a \in Addresses : w = <<r, k, a>> /\ k = AwaitOf[a]
  BY DEF TypeInv, Typed, JobsTyped, Standing, Rows
<1>2. /\ run[r].status = "ended" \/ leaf[r][a] = "none"
      /\ UNCHANGED <<reported, flight, swept, known, run, leaf, wait, seen, job, failures>> /\ wakes' = wakes \ {w}
  BY <1>1 DEF RowFindsNothing
<1>3. StepOf(r)
  BY <1>2, SameIs DEF StepOf
<1>4. JobStands(r)' /\ WaitStands(r)'
  BY <1>2, RunIs DEF JobStands, WaitStands, Seqs
<1> QED BY <1>1, <1>2, <1>3, <1>4

\* The mark of a record about to be written or read.
LEMMA TakeMarkIs ==
    ASSUME TypeInv, NEW r \in Runs, NEW k \in Records, TakeMark(r, k)
    PROVE  /\ StepOf(r) /\ JobStands(r)' /\ WaitStands(r)'
           /\ job[r].on /\ k \notin Entered(r) /\ MarkNow \in Marks /\ MarkNow # NoMark
           /\ UNCHANGED <<run, leaf, wait, seen, wakes>>
           /\ job'[r] = [job[r] EXCEPT !.marks = [job[r].marks EXCEPT ![k] = MarkNow]]
<1>0. run[r].status \in {"running", "parked"}
  BY UnderWay DEF TakeMark, Between
<1>1. /\ job[r].on /\ k \notin Entered(r)
      /\ job' = [job EXCEPT ![r].marks[k] = MarkNow]
      /\ UNCHANGED <<reported, flight, swept, known, run, leaf, wait, seen, wakes, failures>>
  BY DEF TakeMark, Between
<1>2. job[r] \in JobTypes /\ job \in [Runs -> JobTypes]
  BY DEF TypeInv, Typed, JobsTyped
<1>3. MarkNow \in Marks /\ MarkNow # NoMark
  <2>1. MarkNow \in [seq : 0 .. MaxArrivals, before : SUBSET (1 .. MaxArrivals)]
    BY MarkIs DEF TypeInv, Typed
  <2>2. MarkNow.seq \in Nat
    BY <2>1, WaitsBoundsAssumption
  <2> QED BY <2>1, <2>2 DEF Marks, NoMark
<1> DEFINE new == [job[r] EXCEPT !.marks = [job[r].marks EXCEPT ![k] = MarkNow]]
<1>4. new \in JobTypes
  <2>1. [job[r].marks EXCEPT ![k] = MarkNow] \in [Records -> Marks]
    BY <1>2, <1>3 DEF JobTypes
  <2> QED BY <1>2, <2>1 DEF JobTypes
<1>5. job' = [job EXCEPT ![r] = new] /\ job'[r] = new
  BY <1>1, <1>2
<1>6. new.on = job[r].on /\ new.by = job[r].by /\ new.row = job[r].row /\ new.todo = job[r].todo /\ new.at = job[r].at
  BY <1>2 DEF JobTypes
<1> HIDE DEF new
<1>7. StepOf(r)
  BY <1>1, <1>4, <1>5, SameIs DEF StepOf
<1>8. JobStands(r)'
  BY <1>0, <1>1, <1>5, <1>6, RunIs DEF JobStands, Seqs
<1>9. WaitStands(r)'
  BY <1>1, RunIs DEF WaitStands
<1> QED BY <1>1, <1>3, <1>5, <1>7, <1>8, <1>9 DEF new

\* The wait opened at the mark taken, or the one there kept.
LEMMA OpenedIs ==
    ASSUME TypeInv, NEW r \in Runs, NEW k \in Records, NEW mark \in Marks, mark # NoMark
    PROVE  /\ Opened(r, k, mark) \in Wait
           /\ wait[r][k] = NoWait =>
                /\ Opened(r, k, mark).since = mark.seq /\ Opened(r, k, mark).at = Nowhere
                /\ ~Opened(r, k, mark).stranded
                /\ Opened(r, k, mark).before = IF Held(r) THEN mark.before ELSE 1 .. MaxArrivals
           /\ wait[r][k] # NoWait =>
                /\ wait[r][k] \in Wait
                /\ Opened(r, k, mark).since = wait[r][k].since /\ Opened(r, k, mark).at = wait[r][k].at
                /\ Opened(r, k, mark).stranded = wait[r][k].stranded
                /\ Opened(r, k, mark).before =
                     wait[r][k].before \cap (IF Held(r) THEN mark.before ELSE 1 .. MaxArrivals)
<1>1. wait[r][k] \in Wait \cup {NoWait}
  BY RunIs
<1>2. mark.seq \in 0 .. MaxArrivals /\ mark.before \in SUBSET (1 .. MaxArrivals)
  BY DEF Marks
<1>3. PICK before \in SUBSET (1 .. MaxArrivals) : before = IF Held(r) THEN mark.before ELSE 1 .. MaxArrivals
  BY <1>2
<1>4. CASE wait[r][k] = NoWait
  <2>1. Opened(r, k, mark) = [since |-> mark.seq, before |-> before, at |-> Nowhere, stranded |-> FALSE]
    BY <1>3, <1>4 DEF Opened
  <2> QED BY <1>2, <1>3, <1>4, <2>1 DEF Wait
<1>5. CASE wait[r][k] # NoWait
  <2>1. wait[r][k] \in Wait
    BY <1>1, <1>5
  <2>2. Opened(r, k, mark) = [wait[r][k] EXCEPT !.before = @ \cap before]
    BY <1>3, <1>5 DEF Opened
  <2> QED BY <1>3, <1>5, <2>1, <2>2 DEF Wait
<1> QED BY <1>4, <1>5

LEMMA OpenIs ==
    ASSUME TypeInv, NEW r \in Runs, NEW k \in Records, Open(r, k)
    PROVE  /\ StepOf(r) /\ JobStands(r)' /\ WaitStands(r)'
           /\ job[r].on /\ k \notin Entered(r) /\ job[r].marks[k] \in Marks /\ job[r].marks[k] # NoMark
           /\ UNCHANGED <<run, leaf, seen, wakes>>
           /\ job'[r] = [job[r] EXCEPT !.entered = @ \cup {k}]
           /\ \A q \in Records : wait'[r][q] = IF q = k THEN Opened(r, k, job[r].marks[k]) ELSE wait[r][q]
<1>0. run[r].status \in {"running", "parked"}
  BY UnderWay DEF Open, Between
<1>1. /\ job[r].on /\ k \notin Entered(r) /\ job[r].marks[k] # NoMark
      /\ wait' = [wait EXCEPT ![r][k] = Opened(r, k, job[r].marks[k])]
      /\ job' = [job EXCEPT ![r].entered = @ \cup {k}]
      /\ UNCHANGED <<reported, flight, swept, known, run, leaf, seen, wakes, failures>>
  BY DEF Open, Between
<1>2. /\ job[r] \in JobTypes /\ job \in [Runs -> JobTypes] /\ job[r].marks[k] \in Marks
      /\ wait \in [Runs -> [Records -> Wait \cup {NoWait}]]
  BY DEF TypeInv, Typed, JobsTyped, WaitsTyped, JobTypes
<1>3. PICK w \in Wait : w = Opened(r, k, job[r].marks[k])
  BY <1>1, <1>2, OpenedIs
<1>4. w.at = Nowhere \/ (wait[r][k] # NoWait /\ w.at = wait[r][k].at)
  BY <1>1, <1>2, <1>3, OpenedIs
<1> DEFINE new == [job[r] EXCEPT !.entered = @ \cup {k}]
<1>5. new \in JobTypes
  BY <1>2 DEF JobTypes
<1>6. job' = [job EXCEPT ![r] = new] /\ job'[r] = new
  BY <1>1, <1>2
<1>7. new.on = job[r].on /\ new.by = job[r].by /\ new.row = job[r].row /\ new.todo = job[r].todo /\ new.at = job[r].at
  BY <1>2 DEF JobTypes
<1> HIDE DEF new
<1>8. /\ \E x \in [Records -> Wait \cup {NoWait}] : wait' = [wait EXCEPT ![r] = x]
      /\ \A q \in Records : wait'[r][q] = IF q = k THEN w ELSE wait[r][q]
  <2>1. [wait[r] EXCEPT ![k] = w] \in [Records -> Wait \cup {NoWait}]
    BY <1>2
  <2>2. wait' = [wait EXCEPT ![r] = [wait[r] EXCEPT ![k] = w]]
    BY <1>1, <1>2, <1>3
  <2> QED BY <1>2, <2>1, <2>2
<1>9. StepOf(r)
  BY <1>1, <1>5, <1>6, <1>8, SameIs DEF StepOf
<1>10. JobStands(r)'
  BY <1>0, <1>1, <1>6, <1>7, RunIs DEF JobStands, Seqs
<1>11. WaitStands(r)'
  BY <1>1, <1>4, <1>8, RunIs DEF WaitStands, JobStands
<1> QED BY <1>1, <1>2, <1>3, <1>6, <1>8, <1>9, <1>10, <1>11 DEF new

\* What there is to read was logged on the record, and is not gone.
LEMMA UnreadIs ==
    ASSUME TypeInv, NEW r \in Runs, NEW k \in Records
    PROVE  /\ Unread(r, k) \in SUBSET Nat
           /\ \A s \in Unread(r, k) : /\ s \in Seqs /\ ~reported[s].gone /\ reported[s].rec = k
<1>1. Unread(r, k) \subseteq Seqs /\ \A s \in Unread(r, k) : ~reported[s].gone /\ reported[s].rec = k
  BY DEF Unread, On, Logged
<1> QED BY <1>1, SeqsAre DEF TypeInv, Typed

LEMMA ReachIs ==
    ASSUME TypeInv, NEW r \in Runs, NEW a \in Addresses, Reach(r, a)
    PROVE  /\ StepOf(r) /\ JobStands(r)' /\ WaitStands(r)'
           /\ Reaches(r, a)
           /\ UNCHANGED <<run, leaf, wait, seen, wakes>>
           /\ job'[r] = [job[r] EXCEPT !.at = a, !.todo = Unread(r, AwaitOf[a])]
<1>0. run[r].status \in {"running", "parked"}
  BY UnderWay DEF Reach, Reaches, Between
<1>1. /\ Reaches(r, a) /\ job[r].on
      /\ job' = [job EXCEPT ![r].at = a, ![r].todo = Unread(r, AwaitOf[a])]
      /\ UNCHANGED <<reported, flight, swept, known, run, leaf, wait, seen, wakes, failures>>
  BY DEF Reach, Reaches, Between
<1>2. job[r] \in JobTypes /\ job \in [Runs -> JobTypes]
  BY DEF TypeInv, Typed, JobsTyped
<1>3. PICK todo \in SUBSET Nat : /\ todo = Unread(r, AwaitOf[a])
                                 /\ \A s \in todo : s \in Seqs /\ ~reported[s].gone /\ reported[s].rec = AwaitOf[a]
  BY UnreadIs, AwaitsAssumption
<1> DEFINE new == [job[r] EXCEPT !.at = a, !.todo = todo]
<1>4. new \in JobTypes
  BY <1>2 DEF JobTypes
<1>5. job' = [job EXCEPT ![r] = new] /\ job'[r] = new
  BY <1>1, <1>2, <1>3
<1>6. new.on = job[r].on /\ new.by = job[r].by /\ new.row = job[r].row /\ new.todo = todo /\ new.at = a
  BY <1>2 DEF JobTypes
<1> HIDE DEF new
<1>7. StepOf(r)
  BY <1>1, <1>4, <1>5, SameIs DEF StepOf
<1>8. JobStands(r)'
  <2>1. /\ job'[r].on /\ run'[r].status # "ended" /\ run'[r].status \in {"running", "parked"}
        /\ job'[r].by = job[r].by /\ job'[r].row = job[r].row /\ job'[r].todo = todo /\ job'[r].at = a
    BY <1>0, <1>1, <1>5, <1>6
  <2>2. \A s \in todo : s \in Seqs' /\ ~reported'[s].gone /\ reported'[s].rec = AwaitOf[a]
    BY <1>1, <1>3 DEF Seqs
  <2>3. JobStands(r)
    BY RunIs
  <2>4. /\ job[r].row # NoRow => job[r].row[2] = AwaitOf[job[r].row[3]]
        /\ job[r].by = Nowhere => job[r].row = NoRow
        /\ job[r].by # Nowhere => job[r].row = <<r, AwaitOf[job[r].by], job[r].by>>
    BY <1>0, <2>3 DEF JobStands
  <2> QED BY <2>1, <2>2, <2>4 DEF JobStands
<1>9. WaitStands(r)'
  BY <1>1, RunIs DEF WaitStands
<1> QED BY <1>1, <1>3, <1>5, <1>7, <1>8, <1>9 DEF new

\* What judging an arrival notes: nothing where it is noted, else a note newer
\* than the others.
LEMMA NoteIs ==
    ASSUME TypeInv, NEW r \in Runs, NEW k \in Records, NEW a \in Reports, ~a.gone, NEW matched \in BOOLEAN,
           seen' = Note(r, k, a, matched)
    PROVE  /\ \E new \in NotesTypes : seen' = [seen EXCEPT ![r] = new]
           /\ \A q \in Records : q # k => seen'[r][q] = seen[r][q]
           /\ Noted(r, k, a) => seen' = seen
           /\ ~Noted(r, k, a) =>
                \E n \in Notes : /\ seen'[r][k] = seen[r][k] \cup {n}
                                 /\ n.id = a.id /\ n.ver = a.ver /\ n.matched = matched /\ n.by = job[r].by
                                 /\ \A m \in seen[r][k] : m.nth < n.nth
<1>1. CASE Noted(r, k, a)
  <2>1. seen' = seen
    BY <1>1 DEF Note
  <2> QED BY <1>1, <2>1, SameIs
<1>2. CASE ~Noted(r, k, a)
  <2>1. seen[r] \in [Records -> SUBSET Notes] /\ IsFiniteSet(seen[r][k]) /\ seen[r] \in NotesTypes
    BY RunIs DEF NotesTypes
  <2> DEFINE places == {n.nth : n \in seen[r][k]} \cup {0}
             n == [id |-> a.id, ver |-> a.ver, matched |-> matched, by |-> job[r].by, nth |-> 1 + Max(places)]
  <2>2. /\ Max(places) \in Nat /\ \A m \in seen[r][k] : m.nth < 1 + Max(places)
    <3>1. IsFiniteSet({m.nth : m \in seen[r][k]})
      <4> DEFINE f == [m \in seen[r][k] |-> m.nth]
                 T == {m.nth : m \in seen[r][k]}
      <4>1. f \in Surjection(seen[r][k], T)
        BY DEF Surjection
      <4> HIDE DEF f, T
      <4>2. IsFiniteSet(T)
        BY <2>1, <4>1, FS_Surjection
      <4> QED BY <4>2 DEF T
    <3>2. places \in SUBSET Nat /\ places # {} /\ IsFiniteSet(places)
      <4>1. \A m \in seen[r][k] : m.nth \in Nat
        BY <2>1 DEF Notes
      <4>2. IsFiniteSet({0})
        BY FS_Singleton
      <4>3. places \in SUBSET Nat /\ places # {}
        BY <4>1
      <4>4. IsFiniteSet(places)
        BY <3>1, <4>2, FS_Union
      <4> QED BY <4>3, <4>4
    <3> HIDE DEF places
    <3>3. Max(places) \in places /\ \A p \in places : p <= Max(places)
      BY <3>2, MaxIs
    <3>4. \A m \in seen[r][k] : m.nth \in places
      BY DEF places
    <3>5. Max(places) \in Nat
      BY <3>2, <3>3
    <3>6. ASSUME NEW m \in seen[r][k] PROVE m.nth < 1 + Max(places)
      <4>1. m.nth \in Nat /\ m.nth <= Max(places)
        BY <3>2, <3>3, <3>4, <3>6
      <4> QED BY <3>5, <4>1
    <3> QED BY <3>5, <3>6
  <2> HIDE DEF places
  <2>3. n \in Notes
    <3>1. a.id \in Identities /\ a.ver \in Versions /\ job[r].by \in Addresses \cup {Nowhere}
      BY ReportIs, RunIs DEF JobTypes
    <3> QED BY <2>2, <3>1 DEF Notes
  <2>4. seen' = [seen EXCEPT ![r] = [seen[r] EXCEPT ![k] = @ \cup {n}]]
    <3>1. seen' = [seen EXCEPT ![r][k] = @ \cup {[id |-> a.id, ver |-> a.ver, matched |-> matched, by |-> job[r].by,
                                                  nth |-> 1 + Max({m.nth : m \in @} \cup {0})]}]
      BY <1>2 DEF Note
    <3>2. seen \in [Runs -> NotesTypes]
      BY DEF TypeInv, Typed, WaitsTyped, NotesTypes
    <3> QED BY <3>1, <3>2, <2>1 DEF places
  <2>5. n.id = a.id /\ n.ver = a.ver /\ n.matched = matched /\ n.by = job[r].by /\ n.nth = 1 + Max(places)
    OBVIOUS
  <2> HIDE DEF n
  <2>6. [seen[r] EXCEPT ![k] = @ \cup {n}] \in NotesTypes
    <3>1. IsFiniteSet(seen[r][k] \cup {n})
      BY <2>1, FS_AddElement
    <3> QED BY <2>1, <2>3, <3>1 DEF NotesTypes
  <2>7. seen'[r] = [seen[r] EXCEPT ![k] = @ \cup {n}]
    <3>1. seen \in [Runs -> NotesTypes]
      BY DEF TypeInv, Typed, WaitsTyped, NotesTypes
    <3> QED BY <2>4, <3>1
  <2>8. \A m \in seen[r][k] : m.nth < n.nth
    BY <2>2, <2>5
  <2> QED BY <1>2, <2>1, <2>3, <2>4, <2>5, <2>6, <2>7, <2>8
<1> QED BY <1>1, <1>2

\* A process goes on with the segment it began.
SameStep(new, old) ==
    /\ new.on = old.on /\ new.by = old.by /\ new.row = old.row
    /\ new.marks = old.marks /\ new.entered = old.entered /\ new.parks = old.parks

LEMMA BindListedIs ==
    ASSUME TypeInv, NEW r \in Runs, NEW a \in Addresses, NEW s \in Seqs, BindListed(r, a, s)
    PROVE  /\ StepOf(r) /\ JobStands(r)' /\ WaitStands(r)'
           /\ Reaches(r, a) /\ Held(r) /\ job[r].by # a
           /\ reported[s] \in Reports /\ reported[s].rec = AwaitOf[a] /\ ~reported[s].gone
           /\ seen' = Note(r, AwaitOf[a], reported[s], TRUE)
           /\ Bound(reported[s], a, TRUE) \in Bounds
           /\ UNCHANGED <<run, leaf, wait, wakes>>
           /\ SameStep(job'[r], job[r])
           /\ job'[r].at = job[r].at /\ job'[r].todo = job[r].todo
           /\ job'[r].done = job[r].done \cup {a}
           /\ job'[r].bound = Append(job[r].bound, Bound(reported[s], a, TRUE))
<1>0. run[r].status \in {"running", "parked"}
  BY UnderWay DEF BindListed, Reaches, Between
<1>1. /\ Reaches(r, a) /\ Held(r) /\ job[r].by # a /\ job[r].on
      /\ reported[s].rec = AwaitOf[a] /\ ~reported[s].gone
      /\ seen' = Note(r, AwaitOf[a], reported[s], TRUE)
      /\ job' = [job EXCEPT ![r].done = @ \cup {a}, ![r].bound = Append(@, Bound(reported[s], a, TRUE))]
      /\ UNCHANGED <<reported, flight, swept, known, run, leaf, wait, wakes, failures>>
  BY DEF BindListed, Reaches, Between
<1>2. job[r] \in JobTypes /\ job \in [Runs -> JobTypes] /\ reported[s] \in Reports
  BY SeqsAre DEF TypeInv, Typed, JobsTyped
<1>3. PICK b \in Bounds : b = Bound(reported[s], a, TRUE)
  BY <1>1, <1>2, BoundIs
<1> DEFINE new == [job[r] EXCEPT !.done = @ \cup {a}, !.bound = Append(@, b)]
<1>4. new \in JobTypes
  <2>1. Append(job[r].bound, b) \in Seq(Bounds)
    BY <1>2 DEF JobTypes
  <2> QED BY <1>2, <2>1 DEF JobTypes
<1>5. job' = [job EXCEPT ![r] = new] /\ job'[r] = new
  BY <1>1, <1>2, <1>3
<1>6. /\ SameStep(new, job[r]) /\ new.todo = job[r].todo /\ new.at = job[r].at
      /\ new.done = job[r].done \cup {a} /\ new.bound = Append(job[r].bound, b)
  BY <1>2 DEF JobTypes, SameStep
<1> HIDE DEF new
<1>7. \E x \in NotesTypes : seen' = [seen EXCEPT ![r] = x]
  BY <1>1, <1>2, NoteIs, AwaitsAssumption
<1>8. StepOf(r)
  BY <1>1, <1>4, <1>5, <1>7, SameIs DEF StepOf
<1>9. JobStands(r)'
  <2>1. run' = run /\ reported' = reported /\ JobStands(r) /\ job[r].on
    BY <1>1, RunIs
  <2>2. job'[r] = new
    BY <1>5
  <2> QED BY <1>0, <1>6, <2>1, <2>2 DEF JobStands, SameStep, Seqs
<1>10. WaitStands(r)'
  BY <1>1, RunIs DEF WaitStands
<1> QED BY <1>1, <1>2, <1>3, <1>5, <1>6, <1>8, <1>9, <1>10

\* The least of what there is to judge is judged: bound where it counts, else
\* noted and passed over.
LEMMA JudgeIs ==
    ASSUME TypeInv, NEW r \in Runs, NEW matched \in BOOLEAN, Judge(r, matched)
    PROVE  \E s \in job[r].todo : \E at \in Addresses :
           /\ StepOf(r) /\ JobStands(r)' /\ WaitStands(r)'
           /\ s = Min(job[r].todo) /\ at = job[r].at /\ job[r].on /\ Held(r) /\ s \in Seqs
           /\ reported[s] \in Reports /\ reported[s].rec = AwaitOf[at] /\ ~reported[s].gone
           /\ seen' = Note(r, AwaitOf[at], reported[s], matched)
           /\ Bound(reported[s], at, FALSE) \in Bounds
           /\ UNCHANGED <<run, leaf, wait, wakes>>
           /\ SameStep(job'[r], job[r])
           /\ \/ job'[r].done = job[r].done \cup {at} /\ job'[r].at = Nowhere
              \/ job'[r].done = job[r].done /\ job'[r].at = at
           /\ Counts(r, AwaitOf[at], reported[s], matched) =>
                /\ job'[r].at = Nowhere /\ job'[r].todo = {} /\ job'[r].done = job[r].done \cup {at}
                /\ job'[r].bound = Append(job[r].bound, Bound(reported[s], at, FALSE))
           /\ ~Counts(r, AwaitOf[at], reported[s], matched) =>
                /\ job'[r].at = at /\ job'[r].todo = job[r].todo \ {s} /\ job'[r].done = job[r].done
                /\ job'[r].bound = job[r].bound
<1>0. run[r].status \in {"running", "parked"}
  BY UnderWay DEF Judge
<1>1. job[r].on /\ job[r].todo # {} /\ Held(r)
      /\ UNCHANGED <<reported, flight, swept, known, run, leaf, wait, wakes, failures>>
  BY DEF Judge
<1>2. job[r] \in JobTypes /\ job \in [Runs -> JobTypes] /\ JobStands(r)
  BY RunIs DEF TypeInv, Typed, JobsTyped
<1>3. PICK s \in job[r].todo : s = Min(job[r].todo)
  <2>1. job[r].todo \in SUBSET Nat
    BY <1>2 DEF JobTypes
  <2> QED BY <1>1, <2>1, MinIs
<1>4. PICK at \in Addresses : at = job[r].at
  BY <1>2 DEF JobStands
<1>5. s \in Seqs /\ reported[s] \in Reports /\ reported[s].rec = AwaitOf[at] /\ ~reported[s].gone
  BY <1>2, <1>3, <1>4, SeqsAre DEF JobStands, TypeInv, Typed
<1>6. PICK b \in Bounds : b = Bound(reported[s], at, FALSE)
  BY <1>5, BoundIs
<1> DEFINE counted == [job[r] EXCEPT !.at = Nowhere, !.todo = {}, !.done = @ \cup {at}, !.bound = Append(@, b)]
           passed  == [job[r] EXCEPT !.todo = @ \ {s}]
<1>7. /\ seen' = Note(r, AwaitOf[at], reported[s], matched)
      /\ job' = [job EXCEPT ![r] = IF Counts(r, AwaitOf[at], reported[s], matched) THEN counted ELSE passed]
  <2>1. seen' = Note(r, AwaitOf[at], reported[s], matched)
    BY <1>3, <1>4 DEF Judge
  <2>2. job' = IF Counts(r, AwaitOf[at], reported[s], matched)
               THEN [job EXCEPT ![r].at = Nowhere, ![r].todo = {}, ![r].done = @ \cup {at},
                                ![r].bound = Append(@, Bound(reported[s], at, FALSE))]
               ELSE [job EXCEPT ![r].todo = @ \ {s}]
    BY <1>3, <1>4 DEF Judge
  <2>3. [job EXCEPT ![r].todo = @ \ {s}] = [job EXCEPT ![r] = passed]
    BY <1>2
  <2>4. [job EXCEPT ![r].at = Nowhere, ![r].todo = {}, ![r].done = @ \cup {at},
                    ![r].bound = Append(@, Bound(reported[s], at, FALSE))] = [job EXCEPT ![r] = counted]
    BY <1>2, <1>6
  <2> HIDE DEF counted, passed
  <2>5. job' = [job EXCEPT ![r] = IF Counts(r, AwaitOf[at], reported[s], matched) THEN counted ELSE passed]
    BY <2>2, <2>3, <2>4
  <2> QED BY <2>1, <2>5
<1>8. counted \in JobTypes /\ passed \in JobTypes
  <2>1. Append(job[r].bound, b) \in Seq(Bounds)
    BY <1>2 DEF JobTypes
  <2>2. counted \in JobTypes
    BY <1>2, <2>1 DEF JobTypes
  <2>3. passed \in JobTypes
    BY <1>2 DEF JobTypes
  <2> QED BY <2>2, <2>3
<1>9. /\ SameStep(counted, job[r]) /\ counted.at = Nowhere /\ counted.todo = {}
      /\ counted.done = job[r].done \cup {at} /\ counted.bound = Append(job[r].bound, b)
      /\ SameStep(passed, job[r]) /\ passed.at = job[r].at /\ passed.todo = job[r].todo \ {s}
      /\ passed.done = job[r].done /\ passed.bound = job[r].bound
  BY <1>2 DEF JobTypes, SameStep
<1> HIDE DEF counted, passed
<1>10. PICK new \in {counted, passed} :
          /\ job' = [job EXCEPT ![r] = new] /\ job'[r] = new
          /\ new = IF Counts(r, AwaitOf[at], reported[s], matched) THEN counted ELSE passed
  BY <1>2, <1>7
<1>11. \E x \in NotesTypes : seen' = [seen EXCEPT ![r] = x]
  BY <1>5, <1>7, NoteIs, AwaitsAssumption
<1>12. StepOf(r)
  <2>1. new \in JobTypes
    BY <1>8, <1>10
  <2>2. \E x \in JobTypes : job' = [job EXCEPT ![r] = x]
    BY <1>10, <2>1
  <2> QED BY <1>1, <1>11, <2>2, SameIs DEF StepOf
<1>13. JobStands(r)'
  <2>1. CASE job'[r] = counted
    BY <1>0, <1>1, <1>2, <1>9, <2>1 DEF JobStands, SameStep
  <2>2. CASE job'[r] = passed
    <3>1. /\ job'[r].on /\ run'[r].status # "ended" /\ run'[r].status \in {"running", "parked"}
          /\ job'[r].by = job[r].by /\ job'[r].row = job[r].row
          /\ job'[r].todo \subseteq job[r].todo /\ job'[r].at = job[r].at
      BY <1>0, <1>1, <1>2, <1>9, <2>2 DEF SameStep
    <3>2. \A x \in job[r].todo : /\ x \in Seqs' /\ ~reported'[x].gone
                                 /\ job[r].at \in Addresses /\ reported'[x].rec = AwaitOf[job[r].at]
      BY <1>1, <1>2 DEF JobStands, Seqs
    <3>3. /\ job[r].row # NoRow => job[r].row[2] = AwaitOf[job[r].row[3]]
          /\ job[r].by = Nowhere => job[r].row = NoRow
          /\ job[r].by # Nowhere => job[r].row = <<r, AwaitOf[job[r].by], job[r].by>>
      BY <1>0, <1>2 DEF JobStands
    <3> QED BY <3>1, <3>2, <3>3 DEF JobStands
  <2> QED BY <1>10, <2>1, <2>2
<1>14. WaitStands(r)'
  BY <1>1, RunIs DEF WaitStands
<1>15. /\ SameStep(job'[r], job[r])
       /\ Counts(r, AwaitOf[at], reported[s], matched) =>
                /\ job'[r].at = Nowhere /\ job'[r].todo = {} /\ job'[r].done = job[r].done \cup {at}
                /\ job'[r].bound = Append(job[r].bound, Bound(reported[s], at, FALSE))
       /\ ~Counts(r, AwaitOf[at], reported[s], matched) =>
                /\ job'[r].at = at /\ job'[r].todo = job[r].todo \ {s} /\ job'[r].done = job[r].done
                /\ job'[r].bound = job[r].bound
  BY <1>4, <1>6, <1>9, <1>10
<1>16. Bound(reported[s], at, FALSE) \in Bounds
  BY <1>6
<1>17. \/ job'[r].done = job[r].done \cup {at} /\ job'[r].at = Nowhere
       \/ job'[r].done = job[r].done /\ job'[r].at = at
  BY <1>4, <1>9, <1>10
<1> QED BY <1>1, <1>3, <1>4, <1>5, <1>7, <1>12, <1>13, <1>14, <1>15, <1>16, <1>17

LEMMA HoldParkIs ==
    ASSUME TypeInv, NEW r \in Runs, HoldPark(r)
    PROVE  \E at \in Addresses :
           /\ StepOf(r) /\ JobStands(r)' /\ WaitStands(r)'
           /\ job[r].on /\ at = job[r].at /\ job[r].todo = {}
           /\ UNCHANGED <<run, leaf, wait, seen, wakes>>
           /\ job'[r] = [job[r] EXCEPT !.at = Nowhere, !.parks = @ \cup {at}]
<1>0. run[r].status \in {"running", "parked"}
  BY UnderWay DEF HoldPark
<1>1. /\ job[r].on /\ job[r].at # Nowhere /\ job[r].todo = {}
      /\ job' = [job EXCEPT ![r].at = Nowhere, ![r].parks = @ \cup {job[r].at}]
      /\ UNCHANGED <<reported, flight, swept, known, run, leaf, wait, seen, wakes, failures>>
  BY DEF HoldPark
<1>2. job[r] \in JobTypes /\ job \in [Runs -> JobTypes]
  BY DEF TypeInv, Typed, JobsTyped
<1>3. PICK at \in Addresses : at = job[r].at
  BY <1>1, <1>2 DEF JobTypes
<1> DEFINE new == [job[r] EXCEPT !.at = Nowhere, !.parks = @ \cup {at}]
<1>4. new \in JobTypes
  BY <1>2 DEF JobTypes
<1>5. job' = [job EXCEPT ![r] = new] /\ job'[r] = new
  BY <1>1, <1>2, <1>3
<1>6. new.on = job[r].on /\ new.by = job[r].by /\ new.row = job[r].row /\ new.todo = {}
  BY <1>1, <1>2 DEF JobTypes
<1> HIDE DEF new
<1>7. StepOf(r)
  BY <1>1, <1>4, <1>5, SameIs DEF StepOf
<1>8. JobStands(r)'
  BY <1>0, <1>1, <1>5, <1>6, RunIs DEF JobStands
<1>9. WaitStands(r)'
  BY <1>1, RunIs DEF WaitStands
<1> QED BY <1>1, <1>3, <1>5, <1>7, <1>8, <1>9 DEF new

\* The order of a segment's parks has each of them.
LEMMA OrderIs ==
    ASSUME TypeInv, NEW r \in Runs, NEW order \in SetToSeqs(job[r].parks)
    PROVE  /\ DOMAIN order \in SUBSET Nat /\ IsFiniteSet(DOMAIN order)
           /\ \A i \in DOMAIN order : order[i] \in job[r].parks
           /\ Range(order) = job[r].parks
<1> DEFINE parks == job[r].parks
           D == 1 .. Cardinality(parks)
<1>1. parks \subseteq Addresses /\ IsFiniteSet(parks)
  <2>1. parks \subseteq Addresses
    BY RunIs DEF JobTypes
  <2> QED BY <2>1, AwaitsAssumption, FS_Subset
<1>2. order \in [D -> parks] /\ \A i, j \in D : i # j => order[i] # order[j]
  BY DEF SetToSeqs
<1>3. Cardinality(parks) \in Nat
  BY <1>1, FS_CardinalityType
<1>4. IsFiniteSet(D) /\ Cardinality(D) = Cardinality(parks)
  <2>1. Cardinality(D) = IF 1 > Cardinality(parks) THEN 0 ELSE Cardinality(parks) - 1 + 1
    BY <1>3, FS_Interval
  <2> QED BY <1>3, <2>1, FS_Interval
<1>5. order \in Injection(D, parks)
  BY <1>2 DEF Injection, IsInjective
<1>6. order \in Surjection(D, parks)
  <2> HIDE DEF parks, D
  <2> QED BY <1>1, <1>4, <1>5, FS_Injection
<1>7. \A a \in parks : \E i \in D : order[i] = a
  BY <1>6 DEF Surjection
<1> QED BY <1>2, <1>3, <1>4, <1>7 DEF Range

\* The wait a park leaves: its mark kept, its place the last park's.
LEMMA ParkedWaitsAre ==
    ASSUME TypeInv, NEW r \in Runs, NEW order \in SetToSeqs(job[r].parks), NEW k \in Records
    PROVE  /\ ParkedWaits(r, order)[k] \in Wait \cup {NoWait}
           /\ ParkedWaits(r, order)[k] = NoWait <=> wait[r][k] = NoWait
           /\ (\A a \in job[r].parks : AwaitOf[a] # k) => ParkedWaits(r, order)[k] = wait[r][k]
           /\ wait[r][k] # NoWait =>
                /\ wait[r][k] \in Wait
                /\ ParkedWaits(r, order)[k].since = wait[r][k].since
                /\ ParkedWaits(r, order)[k].before = wait[r][k].before
                /\ (\E a \in job[r].parks : AwaitOf[a] = k) =>
                     /\ ParkedWaits(r, order)[k].at \in job[r].parks /\ AwaitOf[ParkedWaits(r, order)[k].at] = k
                     /\ ParkedWaits(r, order)[k].stranded = (wait[r][k].stranded \/ NewestGone(r, k))
<1> DEFINE here == {i \in DOMAIN order : AwaitOf[order[i]] = k}
           w == wait[r][k]
<1>1. w \in Wait \cup {NoWait} /\ job[r].parks \subseteq Addresses
  BY RunIs DEF JobTypes
<1>2. here \in SUBSET Nat /\ IsFiniteSet(here)
  BY OrderIs, FS_Subset
<1>3. here = {} <=> \A a \in job[r].parks : AwaitOf[a] # k
  BY OrderIs DEF Range
<1>4. CASE w = NoWait \/ here = {}
  <2>1. ParkedWaits(r, order)[k] = w
    BY <1>4 DEF ParkedWaits
  <2> QED BY <1>1, <1>3, <1>4, <2>1
<1>5. CASE w # NoWait /\ here # {}
  <2>1. w \in Wait
    BY <1>1, <1>5
  <2>2. PICK at \in job[r].parks : at = order[Max(here)] /\ AwaitOf[at] = k
    <3>1. Max(here) \in here
      BY <1>2, <1>5, MaxIs
    <3> QED BY <3>1, OrderIs
  <2>3. PICK stranded \in BOOLEAN : stranded = (w.stranded \/ NewestGone(r, k))
    OBVIOUS
  <2>4. ParkedWaits(r, order)[k] = [w EXCEPT !.at = at, !.stranded = stranded]
    BY <1>5, <2>1, <2>2, <2>3 DEF ParkedWaits, StrandsAtPark
  <2>5. [w EXCEPT !.at = at, !.stranded = stranded] \in Wait
    BY <1>1, <2>1, <2>2, <2>3 DEF Wait
  <2>6. ParkedWaits(r, order)[k] # NoWait
    BY <2>4, <2>5, NoWaitAssumption
  <2>7. /\ ParkedWaits(r, order)[k].since = w.since /\ ParkedWaits(r, order)[k].before = w.before
        /\ ParkedWaits(r, order)[k].at = at /\ ParkedWaits(r, order)[k].stranded = stranded
    BY <2>1, <2>4 DEF Wait
  <2> QED BY <1>3, <1>5, <2>1, <2>2, <2>3, <2>4, <2>5, <2>6, <2>7
<1> QED BY <1>4, <1>5

\* The notes a segment's end keeps: as they were, but for who made them.
LEMMA KeptIs ==
    ASSUME TypeInv, NEW r \in Runs
    PROVE  /\ Kept(r) \in NotesTypes
           /\ \A k \in Records :
                /\ \A n \in seen[r][k] : \E m \in Kept(r)[k] :
                      /\ m.id = n.id /\ m.ver = n.ver /\ m.matched = n.matched /\ m.nth = n.nth
                      /\ m.by = IF n.by \in {job[r].by} \cup job[r].parks THEN Nowhere ELSE n.by
                /\ \A m \in Kept(r)[k] : \E n \in seen[r][k] :
                      /\ m.id = n.id /\ m.ver = n.ver /\ m.matched = n.matched /\ m.nth = n.nth
                      /\ m.by = IF n.by \in {job[r].by} \cup job[r].parks THEN Nowhere ELSE n.by
<1> DEFINE over == {job[r].by} \cup job[r].parks
           Keep(n) == [n EXCEPT !.by = IF @ \in over THEN Nowhere ELSE @]
<1>1. seen[r] \in [Records -> SUBSET Notes] /\ \A k \in Records : IsFiniteSet(seen[r][k])
  BY RunIs DEF NotesTypes
<1>2. ASSUME NEW n \in Notes
      PROVE  /\ Keep(n) \in Notes
             /\ Keep(n).id = n.id /\ Keep(n).ver = n.ver /\ Keep(n).matched = n.matched /\ Keep(n).nth = n.nth
             /\ Keep(n).by = IF n.by \in over THEN Nowhere ELSE n.by
  <2>1. PICK by \in Addresses \cup {Nowhere} : by = IF n.by \in over THEN Nowhere ELSE n.by
    BY DEF Notes
  <2>2. Keep(n) = [n EXCEPT !.by = by]
    BY <2>1 DEF Notes
  <2> QED BY <2>1, <2>2 DEF Notes
<1>3. \A k \in Records : Kept(r)[k] = {Keep(n) : n \in seen[r][k]}
  BY DEF Kept
<1> HIDE DEF Keep
<1>4. \A k \in Records : {Keep(n) : n \in seen[r][k]} \in SUBSET Notes
  BY <1>1, <1>2
<1>5. ASSUME NEW k \in Records PROVE IsFiniteSet({Keep(n) : n \in seen[r][k]})
  <2> DEFINE f == [n \in seen[r][k] |-> Keep(n)]
             T == {Keep(n) : n \in seen[r][k]}
  <2>1. f \in Surjection(seen[r][k], T)
    BY DEF Surjection
  <2> HIDE DEF f, T
  <2>2. IsFiniteSet(T)
    BY <1>1, <2>1, FS_Surjection
  <2> QED BY <2>2 DEF T
<1>6. Kept(r) \in NotesTypes
  <2>1. Kept(r) = [k \in Records |-> Kept(r)[k]]
    BY DEF Kept
  <2> QED BY <1>3, <1>4, <1>5, <2>1 DEF NotesTypes
<1>7. ASSUME NEW k \in Records, NEW n \in seen[r][k]
      PROVE  \E m \in Kept(r)[k] :
                      /\ m.id = n.id /\ m.ver = n.ver /\ m.matched = n.matched /\ m.nth = n.nth
                      /\ m.by = IF n.by \in over THEN Nowhere ELSE n.by
  <2>1. n \in Notes /\ Keep(n) \in Kept(r)[k]
    BY <1>1, <1>3, <1>7
  <2> QED BY <1>2, <2>1
<1>8. ASSUME NEW k \in Records, NEW m \in Kept(r)[k]
      PROVE  \E n \in seen[r][k] :
                      /\ m.id = n.id /\ m.ver = n.ver /\ m.matched = n.matched /\ m.nth = n.nth
                      /\ m.by = IF n.by \in over THEN Nowhere ELSE n.by
  <2>1. PICK n \in seen[r][k] : m = Keep(n)
    BY <1>3, <1>8
  <2>2. n \in Notes
    BY <1>1, <2>1
  <2> QED BY <1>2, <2>1, <2>2
<1> QED BY <1>6, <1>7, <1>8

\* What reading again at the commit finds has rows.
LEMMA WakesAtParkAre ==
    ASSUME TypeInv, NEW r \in Runs, NEW order \in SetToSeqs(job[r].parks)
    PROVE  /\ WakesAtPark(r, order) = {<<r, AwaitOf[a], a>> : a \in {b \in job[r].parks : Unread(r, AwaitOf[b]) # {}}}
           /\ WakesAtPark(r, order) \subseteq Rows /\ \A w \in WakesAtPark(r, order) : w[2] = AwaitOf[w[3]]
<1>1. Range(order) = job[r].parks /\ job[r].parks \subseteq Addresses
  BY OrderIs, RunIs DEF JobTypes
<1>2. WakesAtPark(r, order) = {<<r, AwaitOf[a], a>> : a \in {b \in job[r].parks : Unread(r, AwaitOf[b]) # {}}}
  BY <1>1 DEF WakesAtPark
<1>3. \A w \in WakesAtPark(r, order) : w \in Rows /\ w[2] = AwaitOf[w[3]]
  BY <1>1, <1>2, AwaitsAssumption DEF Rows
<1> QED BY <1>2, <1>3

\* A segment's commit: what it kept of the run, and of its leaves.
LEMMA CommitRunIs ==
    ASSUME TypeInv, NEW r \in Runs, NEW order \in SetToSeqs(job[r].parks), Commit(r, order)
    PROVE  /\ \E new \in RunTypes : run' = [run EXCEPT ![r] = new]
           /\ \E new \in LeafTypes : leaf' = [leaf EXCEPT ![r] = new]
           /\ \A a \in Addresses : leaf'[r][a] = LeavesAfter(r)[a]
           /\ run'[r].status \in {"ended", "parked"} /\ run'[r].mark = run[r].mark
           /\ run'[r].lease = IF run'[r].status = "ended" THEN "held" ELSE "free"
           /\ run'[r].status = "ended" <=> \A a \in Addresses : leaf'[r][a] = "none"
           /\ run'[r].entered = run[r].entered \cup job[r].entered
           /\ run'[r].done = run[r].done \cup job[r].done
           /\ run'[r].bound = run[r].bound \o job[r].bound
<1> DEFINE left == {a \in Addresses : LeavesAfter(r)[a] # "none"}
<1>1. /\ leaf' = [leaf EXCEPT ![r] = LeavesAfter(r)]
      /\ run' = [run EXCEPT ![r] =
                [status |-> IF left = {} THEN "ended" ELSE "parked",
                 lease |-> IF left = {} THEN "held" ELSE "free", mark |-> @.mark,
                 entered |-> @.entered \cup job[r].entered, done |-> @.done \cup job[r].done,
                 bound |-> @.bound \o job[r].bound]]
  BY DEF Commit
<1>2. /\ run \in [Runs -> RunTypes] /\ run[r] \in RunTypes /\ leaf \in [Runs -> LeafTypes] /\ leaf[r] \in LeafTypes
      /\ job[r] \in JobTypes
  BY RunIs DEF TypeInv, Typed, RunsTyped, LeafTypes
<1>3. LeavesAfter(r) \in LeafTypes
  BY <1>2 DEF LeavesAfter, LeafTypes
<1>4. leaf'[r] = LeavesAfter(r)
  BY <1>1, <1>2
<1>5. PICK status \in {"ended", "parked"}, lease \in {"held", "free"} :
          /\ status = IF left = {} THEN "ended" ELSE "parked"
          /\ lease = IF left = {} THEN "held" ELSE "free"
  OBVIOUS
<1>6. PICK bound \in Seq(Bounds) : bound = run[r].bound \o job[r].bound
  <2>1. PICK x \in Seq(Bounds), y \in Seq(Bounds) : x = run[r].bound /\ y = job[r].bound
    BY <1>2 DEF RunTypes, JobTypes
  <2>2. x \o y \in Seq(Bounds)
    OBVIOUS
  <2> QED BY <2>1, <2>2
<1> DEFINE new == [status |-> status, lease |-> lease, mark |-> run[r].mark,
                   entered |-> run[r].entered \cup job[r].entered, done |-> run[r].done \cup job[r].done, bound |-> bound]
<1>7. new \in RunTypes
  BY <1>2 DEF RunTypes, JobTypes
<1>8. run' = [run EXCEPT ![r] = new]
  BY <1>1, <1>2, <1>5, <1>6
<1>9. run'[r] = new
  BY <1>2, <1>8
<1>10. status = "ended" <=> \A a \in Addresses : leaf'[r][a] = "none"
  BY <1>4, <1>5
<1>11. /\ run'[r].status = status /\ run'[r].lease = lease /\ run'[r].mark = run[r].mark
       /\ run'[r].entered = run[r].entered \cup job[r].entered /\ run'[r].done = run[r].done \cup job[r].done
       /\ run'[r].bound = run[r].bound \o job[r].bound
  <2>1. /\ new.status = status /\ new.lease = lease /\ new.mark = run[r].mark
        /\ new.entered = run[r].entered \cup job[r].entered /\ new.done = run[r].done \cup job[r].done
        /\ new.bound = bound
    OBVIOUS
  <2> HIDE DEF new
  <2> QED BY <1>6, <1>9, <2>1
<1>12. \E x \in RunTypes : run' = [run EXCEPT ![r] = x]
  BY <1>7, <1>8
<1> HIDE DEF new
<1>13. lease = IF status = "ended" THEN "held" ELSE "free"
  BY <1>5
<1> QED BY <1>1, <1>3, <1>4, <1>10, <1>11, <1>12, <1>13

LEMMA CommitIs ==
    ASSUME TypeInv, NEW r \in Runs, NEW order \in SetToSeqs(job[r].parks), Commit(r, order)
    PROVE  /\ StepOf(r) /\ JobStands(r)' /\ WaitStands(r)'
           /\ Between(r) /\ Held(r)
           /\ job[r].by = Nowhere \/ job[r].by \in job[r].done \cup job[r].parks
           /\ \A a \in job[r].parks : Unlocked(AwaitOf[a])
           /\ wait'[r] = ParkedWaits(r, order) /\ seen'[r] = Kept(r)
           /\ wakes' = wakes \cup WakesAtPark(r, order)
           /\ job'[r] = IF run'[r].status = "ended" THEN Ending(job[r].row) ELSE Idle
<1> DEFINE left == {a \in Addresses : LeavesAfter(r)[a] # "none"}
<1>1. /\ Between(r) /\ Held(r)
      /\ job[r].by = Nowhere \/ job[r].by \in job[r].done \cup job[r].parks
      /\ \A a \in job[r].parks : Unlocked(AwaitOf[a])
      /\ wait' = [wait EXCEPT ![r] = ParkedWaits(r, order)]
      /\ seen' = [seen EXCEPT ![r] = Kept(r)]
      /\ wakes' = wakes \cup WakesAtPark(r, order)
      /\ job' = [job EXCEPT ![r] = IF left = {} THEN Ending(job[r].row) ELSE Idle]
      /\ UNCHANGED <<reported, flight, swept, known, failures>>
  BY DEF Commit
<1>2. job[r] \in JobTypes /\ job[r].row \in Rows \cup {NoRow} /\ job[r].on
      /\ run[r].status \in {"running", "parked"} /\ JobStands(r)
  BY <1>1, RunIs, UnderWay DEF JobTypes, Between
<1>3. run'[r].status = "ended" <=> left = {}
  <2>1. leaf' = [leaf EXCEPT ![r] = LeavesAfter(r)] /\ leaf \in [Runs -> LeafTypes]
    BY DEF Commit, TypeInv, Typed, RunsTyped, LeafTypes
  <2>2. leaf'[r] = LeavesAfter(r)
    BY <2>1
  <2>3. run'[r].status = "ended" <=> \A a \in Addresses : leaf'[r][a] = "none"
    BY CommitRunIs
  <2> QED BY <2>2, <2>3
<1> HIDE DEF left
<1>4. ParkedWaits(r, order) \in [Records -> Wait \cup {NoWait}]
  <2>1. ParkedWaits(r, order) = [k \in Records |-> ParkedWaits(r, order)[k]]
    BY DEF ParkedWaits
  <2>2. \A k \in Records : ParkedWaits(r, order)[k] \in Wait \cup {NoWait}
    BY ParkedWaitsAre
  <2> QED BY <2>1, <2>2
<1>5. /\ wait \in [Runs -> [Records -> Wait \cup {NoWait}]] /\ seen \in [Runs -> NotesTypes] /\ job \in [Runs -> JobTypes]
  BY DEF TypeInv, Typed, WaitsTyped, JobsTyped, NotesTypes
<1>6. wait'[r] = ParkedWaits(r, order) /\ seen'[r] = Kept(r)
  BY <1>1, <1>5
<1>7. /\ \E x \in [Records -> Wait \cup {NoWait}] : wait' = [wait EXCEPT ![r] = x]
      /\ \E x \in NotesTypes : seen' = [seen EXCEPT ![r] = x]
  BY <1>1, <1>4, KeptIs
<1>8. \E x \in JobTypes : job' = [job EXCEPT ![r] = x] /\ x = IF left = {} THEN Ending(job[r].row) ELSE Idle
  BY <1>1, <1>2, IdleIs, EndingIs
<1>9. job'[r] = IF run'[r].status = "ended" THEN Ending(job[r].row) ELSE Idle
  BY <1>3, <1>5, <1>8
<1>10. wakes' \subseteq Rows /\ \A w \in wakes' : w[2] = AwaitOf[w[3]]
  BY <1>1, WakesAtParkAre, RunIs
<1>11. failures' \in 0 .. MaxFailures
  BY <1>1, RunIs
<1>12. StepOf(r)
  BY <1>1, <1>7, <1>8, <1>10, <1>11, CommitRunIs DEF StepOf
<1>13. JobStands(r)'
  <2>1. job[r].row # NoRow => job[r].row[2] = AwaitOf[job[r].row[3]]
    BY <1>2 DEF JobStands
  <2>2. CASE run'[r].status = "ended"
    BY <1>2, <1>9, <2>1, <2>2, EndingIs DEF JobStands
  <2>3. CASE run'[r].status # "ended"
    BY <1>9, <2>3, IdleIs DEF JobStands
  <2> QED BY <2>2, <2>3
<1>14. WaitStands(r)'
  <2>1. run'[r].status \in {"ended", "parked"} /\ (run'[r].status = "ended" <=> \A a \in Addresses : leaf'[r][a] = "none")
    BY CommitRunIs
  <2>2. ASSUME NEW k \in Records, wait'[r][k] # NoWait
        PROVE  run'[r].status # "none" /\ (wait'[r][k].at = Nowhere \/ AwaitOf[wait'[r][k].at] = k)
    <3>1. run'[r].status # "none" /\ wait'[r][k] = ParkedWaits(r, order)[k]
      BY <1>6, <2>1, <2>2
    <3>2. wait[r][k] # NoWait
      BY <2>2, <3>1, ParkedWaitsAre
    <3>3. CASE \A a \in job[r].parks : AwaitOf[a] # k
      <4>1. wait'[r][k] = wait[r][k]
        BY <3>1, <3>3, ParkedWaitsAre
      <4> QED BY <3>1, <3>2, <4>1, RunIs DEF WaitStands
    <3>4. CASE \E a \in job[r].parks : AwaitOf[a] = k
      BY <3>1, <3>2, <3>4, ParkedWaitsAre
    <3> QED BY <3>3, <3>4
  <2>3. \A a \in Addresses : leaf'[r][a] # "none" => run'[r].status = "parked"
    BY <2>1
  <2> QED BY <2>2, <2>3 DEF WaitStands
<1> QED BY <1>1, <1>6, <1>9, <1>12, <1>13, <1>14

\* A process that ends with nothing kept, be it dead or without its lease.
LEMMA EndsIs ==
    ASSUME TypeInv, NEW r \in Runs, LosesRun(r) \/ Crash(r)
    PROVE  /\ StepOf(r) /\ JobStands(r)' /\ WaitStands(r)'
           /\ job[r].on /\ UNCHANGED <<run, leaf, wait, seen>>
           /\ job'[r] = Idle
           /\ wakes \subseteq wakes'
           /\ run[r].status # "ended" =>
                wakes' = wakes \cup (IF job[r].by = Nowhere THEN {} ELSE {<<r, AwaitOf[job[r].by], job[r].by>>})
<1>1. /\ job[r].on /\ job' = [job EXCEPT ![r] = Idle] /\ wakes' = wakes \cup RowOf(r)
      /\ UNCHANGED <<reported, flight, swept, known, run, leaf, wait, seen>>
  BY DEF LosesRun, Crash, Ends
<1>2. job \in [Runs -> JobTypes] /\ job[r] \in JobTypes /\ JobStands(r)
  BY RunIs DEF TypeInv, Typed, JobsTyped
<1>3. ASSUME run[r].status # "ended"
      PROVE  RowOf(r) = IF job[r].by = Nowhere THEN {} ELSE {<<r, AwaitOf[job[r].by], job[r].by>>}
  <2>1. CASE job[r].by = Nowhere
    BY <1>2, <1>3, <2>1 DEF JobStands, RowOf
  <2>2. CASE job[r].by # Nowhere
    <3>1. job[r].row = <<r, AwaitOf[job[r].by], job[r].by>>
      BY <1>2, <2>2 DEF JobStands
    <3>2. job[r].row # NoRow
      BY <3>1 DEF NoRow
    <3> QED BY <2>2, <3>1, <3>2 DEF RowOf
  <2> QED BY <2>1, <2>2
<1>4. RowOf(r) \subseteq Rows /\ \A w \in RowOf(r) : w[2] = AwaitOf[w[3]]
  BY <1>2 DEF JobTypes, JobStands, RowOf
<1>5. failures' \in 0 .. MaxFailures
  <2>1. failures \in 0 .. MaxFailures
    BY RunIs
  <2> QED BY <2>1, WaitsBoundsAssumption DEF LosesRun, Crash
<1>6. \E x \in JobTypes : job' = [job EXCEPT ![r] = x]
  BY <1>1, IdleIs
<1>7. wakes' \subseteq Rows /\ \A w \in wakes' : w[2] = AwaitOf[w[3]]
  BY <1>1, <1>4, RunIs
<1>8. StepOf(r)
  BY <1>1, <1>5, <1>6, <1>7, SameIs DEF StepOf
<1>9. job'[r] = Idle
  BY <1>1, <1>2
<1>10. JobStands(r)'
  BY <1>9, IdleIs DEF JobStands
<1>11. WaitStands(r)'
  BY <1>1, RunIs DEF WaitStands
<1> QED BY <1>1, <1>3, <1>8, <1>9, <1>10, <1>11

LEMMA LeaseLapsesIs ==
    ASSUME TypeInv, NEW r \in Runs, LeaseLapses(r)
    PROVE  /\ StepOf(r) /\ JobStands(r)' /\ WaitStands(r)'
           /\ Held(r) /\ UNCHANGED <<leaf, wait, seen, wakes, job>>
           /\ run'[r] = [run[r] EXCEPT !.lease = "lapsed"]
<1>1. /\ Held(r) /\ run' = [run EXCEPT ![r].lease = "lapsed"]
      /\ failures' = IF job[r].on THEN failures + 1 ELSE failures
      /\ job[r].on => failures < MaxFailures
      /\ UNCHANGED <<reported, flight, swept, known, leaf, wait, seen, wakes, job>>
  BY DEF LeaseLapses
<1>2. run[r] \in RunTypes /\ run \in [Runs -> RunTypes]
  BY DEF TypeInv, Typed, RunsTyped
<1> DEFINE new == [run[r] EXCEPT !.lease = "lapsed"]
<1>3. new \in RunTypes /\ new.status = run[r].status
  BY <1>2 DEF RunTypes
<1>4. run' = [run EXCEPT ![r] = new] /\ run'[r] = new
  BY <1>1, <1>2
<1> HIDE DEF new
<1>5. failures' \in 0 .. MaxFailures
  <2>1. failures \in 0 .. MaxFailures
    BY RunIs
  <2> QED BY <1>1, <2>1, WaitsBoundsAssumption
<1>6. StepOf(r)
  BY <1>1, <1>3, <1>4, <1>5, SameIs DEF StepOf
<1>7. JobStands(r)'
  BY <1>1, <1>3, <1>4, RunIs DEF JobStands, Seqs
<1>8. WaitStands(r)'
  BY <1>1, <1>3, <1>4, RunIs DEF WaitStands
<1> QED BY <1>1, <1>4, <1>6, <1>7, <1>8 DEF new

-----------------------------------------------------------------------------
(* The types, always. *)

LEMMA StepsStand ==
    ASSUME TypeInv, NEW r \in Runs, Step(r)
    PROVE  StepOf(r) /\ JobStands(r)' /\ WaitStands(r)'
<1>1. CASE Start(r)
  BY <1>1, StartIs
<1>2. CASE NeverStarts(r)
  BY <1>2, NeverStartsIs
<1>3. CASE LosesRun(r) \/ Crash(r)
  BY <1>3, EndsIs
<1>6. CASE FailLost(r)
  BY <1>6, FailLostIs
<1>7. CASE Drop(r)
  BY <1>7, DropIs
<1>4. CASE LeaseLapses(r)
  BY <1>4, LeaseLapsesIs
<1>5. CASE Segment(r)
  <2>1. CASE \E k \in Records : TakeMark(r, k)
    BY <2>1, TakeMarkIs
  <2>2. CASE \E k \in Records : Open(r, k)
    BY <2>2, OpenIs
  <2>3. CASE \E a \in Addresses : Reach(r, a)
    BY <2>3, ReachIs
  <2>4. CASE \E a \in Addresses : \E s \in Seqs : BindListed(r, a, s)
    BY <2>4, BindListedIs
  <2>5. CASE \E matched \in BOOLEAN : Judge(r, matched)
    BY <2>5, JudgeIs
  <2>6. CASE HoldPark(r)
    BY <2>6, HoldParkIs
  <2>7. CASE \E order \in SetToSeqs(job[r].parks) : Commit(r, order)
    BY <2>7, CommitIs
  <2> QED BY <1>5, <2>1, <2>2, <2>3, <2>4, <2>5, <2>6, <2>7 DEF Segment
<1> QED BY <1>1, <1>2, <1>3, <1>4, <1>5, <1>6, <1>7 DEF Step

LEMMA NextKeepsTypes ==
    ASSUME TypeInv, [Next]_vars
    PROVE  TypeInv'
<1>1. CASE \E a \in Reports : BeginLog(a)
  BY <1>1, BeginLogKeepsTypes
<1>2. CASE \E a \in Reports : \E r \in Runs : Deliver(r, a)
  BY <1>2, DeliverKeepsTypes
<1>3. CASE \E s \in flight : EndLog(s)
  BY <1>3, EndLogKeepsTypes
<1>4. CASE (\E x \in known : WindowEnds(x)) \/ Sweep
  BY <1>4, SweepKeepsTypes
<1>5. CASE \E w \in wakes : Resume(w)
  BY <1>5, ResumeIs, StepKeepsTypes
<1>6. CASE \E w \in wakes : RowFindsNothing(w)
  BY <1>6, RowFindsNothingIs, StepKeepsTypes
<1>7. CASE \E r \in Runs : Step(r)
  BY <1>7, StepsStand, StepKeepsTypes
<1>8. CASE UNCHANGED vars
  BY <1>8 DEF vars, TypeInv, Typed, LogTyped, RunsTyped, WaitsTyped, JobsTyped, Standing, JobStands, WaitStands, Seqs
<1> QED BY <1>1, <1>2, <1>3, <1>4, <1>5, <1>6, <1>7, <1>8 DEF Next, Log

LEMMA InitTyped == Init => TypeInv
<1> SUFFICES ASSUME Init PROVE TypeInv
  OBVIOUS
<1>1. LogTyped
  <2>1. reported = <<>> /\ Seqs = {} /\ Len(reported) = 0
    BY DEF Init, Seqs
  <2>2. reported \in Seq(Reports)
    BY <2>1
  <2> QED BY <2>1, <2>2, WaitsBoundsAssumption DEF Init, LogTyped
<1>2. RunsTyped
  <2>1. <<>> \in Seq(Bounds)
    OBVIOUS
  <2>2. [status |-> "none", lease |-> "free", mark |-> 0, entered |-> {}, done |-> {}, bound |-> <<>>] \in RunTypes
    BY <2>1, WaitsBoundsAssumption DEF RunTypes
  <2> QED BY <2>2 DEF Init, RunsTyped
<1>3. WaitsTyped
  BY FS_EmptySet DEF Init, WaitsTyped
<1>4. JobsTyped
  BY IdleIs DEF Init, JobsTyped
<1>5. ASSUME NEW r \in Runs PROVE JobStands(r) /\ WaitStands(r)
  <2>1. job[r] = Idle /\ (\A k \in Records : wait[r][k] = NoWait) /\ \A a \in Addresses : leaf[r][a] = "none"
    BY DEF Init
  <2> QED BY <2>1, IdleIs DEF JobStands, WaitStands
<1>6. wakes = {}
  BY DEF Init
<1> QED BY <1>1, <1>2, <1>3, <1>4, <1>5, <1>6 DEF TypeInv, Typed, Standing

\* A process without its run's lease lost it, and a run that is over has waits
\* only while its process is still to drop them, or where one failed.
EndStands(r) ==
    /\ job[r].on => Held(r) \/ failures > 0
    /\ run[r].status = "ended" => job[r].on \/ failures > 0 \/ \A k \in Records : wait[r][k] = NoWait

EndsInv == \A r \in Runs : EndStands(r)

LEMMA StepEnds ==
    ASSUME TypeInv, NEW r \in Runs, EndStands(r), Step(r)
    PROVE  EndStands(r)' /\ failures' >= failures
<1>1. failures \in Nat /\ run[r] \in RunTypes
  BY RunIs, WaitsBoundsAssumption
<1>2. CASE Start(r)
  <2>1. run'[r].lease = "held" /\ run'[r].status = "running"
    BY <1>2, StartIs
  <2>2. failures' = failures
    BY <1>2 DEF Start
  <2> QED BY <1>1, <2>1, <2>2 DEF EndStands, Held
<1>3. CASE NeverStarts(r)
  <2>1. /\ \A k \in Records : wait'[r][k] = NoWait
        /\ ~job'[r].on
    BY <1>3, NeverStartsIs
  <2>2. failures' = failures
    BY <1>3 DEF NeverStarts
  <2> QED BY <1>1, <2>1, <2>2 DEF EndStands
<1>4. CASE FailLost(r)
  <2>1. run'[r].lease = "held" /\ job'[r] = Ending(NoRow)
    BY <1>4, FailLostIs
  <2>2. job'[r].on
    BY <2>1, EndingIs
  <2>3. failures' = failures
    BY <1>4 DEF FailLost
  <2> QED BY <1>1, <2>1, <2>2, <2>3 DEF EndStands, Held
<1>5. CASE Drop(r)
  <2>1. /\ \A k \in Records : wait'[r][k] = NoWait
        /\ job'[r] = Idle
    BY <1>5, DropIs
  <2>2. ~job'[r].on
    BY <2>1, IdleIs
  <2>3. failures' = failures
    BY <1>5 DEF Drop
  <2> QED BY <1>1, <2>1, <2>2, <2>3 DEF EndStands
<1>6. CASE LosesRun(r)
  <2>1. run[r].lease = "lapsed" /\ job[r].on /\ UNCHANGED <<run, wait, failures>>
    BY <1>6 DEF LosesRun, Ends
  <2> QED BY <1>1, <1>6, <2>1, EndsIs, IdleIs DEF EndStands, Held
<1>7. CASE Crash(r)
  <2>1. failures' = failures + 1
    BY <1>7 DEF Crash
  <2> QED BY <1>1, <2>1 DEF EndStands
<1>8. CASE LeaseLapses(r)
  <2>1. /\ failures' = IF job[r].on THEN failures + 1 ELSE failures
        /\ UNCHANGED <<wait, job>>
    BY <1>8 DEF LeaseLapses
  <2>2. run'[r].status = run[r].status
    BY <1>1, <1>8, LeaseLapsesIs DEF RunTypes
  <2> QED BY <1>1, <2>1, <2>2 DEF EndStands
<1>9. CASE Segment(r)
  <2>1. failures' = failures
    BY <1>9 DEF Segment, TakeMark, Open, Reach, BindListed, Judge, HoldPark, Commit
  <2>2. CASE \E order \in SetToSeqs(job[r].parks) : Commit(r, order)
    <3>1. PICK order \in SetToSeqs(job[r].parks) : Commit(r, order)
      BY <2>2
    <3>2. run'[r].lease = (IF run'[r].status = "ended" THEN "held" ELSE "free")
      BY <3>1, CommitRunIs
    <3>3. job'[r] = (IF run'[r].status = "ended" THEN Ending(job[r].row) ELSE Idle)
      BY <3>1, CommitIs
    <3>4. job[r].row \in Rows \cup {NoRow}
      BY RunIs DEF JobTypes
    <3>5. CASE run'[r].status = "ended"
      <4>1. run'[r].lease = "held" /\ job'[r].on
        BY <3>2, <3>3, <3>4, <3>5, EndingIs
      <4> QED BY <1>1, <2>1, <4>1 DEF EndStands, Held
    <3>6. CASE run'[r].status # "ended"
      <4>1. ~job'[r].on
        BY <3>3, <3>6, IdleIs
      <4> QED BY <1>1, <2>1, <3>6, <4>1 DEF EndStands
    <3> QED BY <3>5, <3>6
  <2>3. CASE ~ \E order \in SetToSeqs(job[r].parks) : Commit(r, order)
    <3>1. run' = run /\ job[r].on /\ (job[r].at # Nowhere \/ job[r].todo # {} \/ Between(r)) /\ job'[r].on
      <4> USE RunIs
      <4>1. CASE \E k \in Records : TakeMark(r, k)
        <5>1. run' = run /\ Between(r) /\ job[r].on /\ \E k \in Records : job' = [job EXCEPT ![r].marks[k] = MarkNow]
          BY <4>1 DEF TakeMark, Between
        <5> QED BY <5>1 DEF TypeInv, Typed, JobsTyped, JobTypes
      <4>2. CASE \E k \in Records : Open(r, k)
        <5>1. run' = run /\ Between(r) /\ job[r].on /\ \E k \in Records : job' = [job EXCEPT ![r].entered = @ \cup {k}]
          BY <4>2 DEF Open, Between
        <5> QED BY <5>1 DEF TypeInv, Typed, JobsTyped, JobTypes
      <4>3. CASE \E a \in Addresses : Reach(r, a)
        <5>1. /\ run' = run /\ Between(r) /\ job[r].on
              /\ \E a \in Addresses : job' = [job EXCEPT ![r].at = a, ![r].todo = Unread(r, AwaitOf[a])]
          BY <4>3 DEF Reach, Reaches, Between
        <5> QED BY <5>1 DEF TypeInv, Typed, JobsTyped, JobTypes
      <4>4. CASE \E a \in Addresses : \E s \in Seqs : BindListed(r, a, s)
        <5>1. PICK a \in Addresses, s \in Seqs : BindListed(r, a, s)
          BY <4>4
        <5>2. run' = run /\ Between(r) /\ job[r].on
          BY <5>1 DEF BindListed, Reaches, Between
        <5>3. SameStep(job'[r], job[r])
          BY <5>1, BindListedIs
        <5> QED BY <5>2, <5>3 DEF SameStep
      <4>5. CASE \E matched \in BOOLEAN : Judge(r, matched)
        <5>1. PICK matched \in BOOLEAN : Judge(r, matched)
          BY <4>5
        <5>2. run' = run /\ job[r].todo # {} /\ job[r].on
          BY <5>1 DEF Judge
        <5>3. SameStep(job'[r], job[r])
          BY <5>1, JudgeIs
        <5> QED BY <5>2, <5>3 DEF SameStep
      <4>6. CASE HoldPark(r)
        <5>1. /\ run' = run /\ job[r].at # Nowhere /\ job[r].on
              /\ job' = [job EXCEPT ![r].at = Nowhere, ![r].parks = @ \cup {job[r].at}]
          BY <4>6 DEF HoldPark
        <5> QED BY <5>1 DEF TypeInv, Typed, JobsTyped, JobTypes
      <4> QED BY <1>9, <2>3, <4>1, <4>2, <4>3, <4>4, <4>5, <4>6 DEF Segment
    <3>2. run[r].status # "ended"
      BY <3>1, UnderWay
    <3> QED BY <1>1, <2>1, <3>1, <3>2 DEF EndStands, Held
  <2> QED BY <2>2, <2>3
<1> QED BY <1>2, <1>3, <1>4, <1>5, <1>6, <1>7, <1>8, <1>9 DEF Step

LEMMA NextEnds ==
    ASSUME TypeInv, EndsInv, [Next]_vars
    PROVE  EndsInv'
<1>1. CASE \E a \in Reports : BeginLog(a)
  BY <1>1 DEF BeginLog, EndsInv, EndStands, Held
<1>2. CASE \E a \in Reports : \E r \in Runs : Deliver(r, a)
  <2>1. PICK a \in Reports, r \in Runs : Deliver(r, a)
    BY <1>2
  <2>2. /\ run[r] \in RunTypes /\ run \in [Runs -> RunTypes] /\ job' = job /\ failures' = failures
        /\ run[r].status = "none" /\ ~job[r].on
    BY <2>1, RunIs DEF Deliver, TypeInv, Typed, RunsTyped, JobStands
  <2>3. /\ run'[r].status = "queued"
        /\ \A q \in Runs : q # r => run'[q] = run[q]
    BY <2>1, <2>2 DEF Deliver, RunTypes
  <2>4. ASSUME NEW q \in Runs, q # r, NEW k \in Records PROVE wait'[q][k] = NoWait <=> wait[q][k] = NoWait
    <3>1. wait'[q][k] = Strandings(wait, a)[q][k] /\ WaitsTyped
      <4>1. Strandings(wait, a) \in [Runs -> [Records -> Wait \cup {NoWait}]]
        BY StrandingsTyped DEF TypeInv, Typed
      <4> QED BY <2>1, <2>4, <4>1 DEF Deliver, TypeInv, Typed
    <3> QED BY <3>1, StrandingsAre
  <2> QED BY <2>2, <2>3, <2>4 DEF EndsInv, EndStands, Held
<1>3. CASE \E s \in flight : EndLog(s)
  <2>1. PICK s \in flight : EndLog(s)
    BY <1>3
  <2>2. reported[s] \in Reports /\ WaitsTyped
    BY <2>1, SeqsAre DEF TypeInv, Typed, LogTyped
  <2>3. \A r \in Runs : \A k \in Records : wait'[r][k] = NoWait <=> wait[r][k] = NoWait
    BY <2>1, <2>2, StrandingsAre DEF EndLog
  <2> QED BY <2>1, <2>3 DEF EndLog, EndsInv, EndStands, Held
<1>4. CASE (\E x \in known : WindowEnds(x)) \/ Sweep
  BY <1>4 DEF WindowEnds, Sweep, EndsInv, EndStands, Held
<1>5. CASE \E w \in wakes : Resume(w)
  <2>1. PICK w \in wakes : Resume(w)
    BY <1>5
  <2>2. PICK r \in Runs : StepOf(r) /\ run'[r].status = "parked" /\ run'[r].lease = "held"
    BY <2>1, ResumeIs
  <2>3. failures' = failures
    BY <2>1 DEF Resume
  <2> QED BY <2>2, <2>3, StepIs DEF EndsInv, EndStands, Held
<1>6. CASE \E w \in wakes : RowFindsNothing(w)
  BY <1>6 DEF RowFindsNothing, EndsInv, EndStands, Held
<1>7. CASE \E r \in Runs : Step(r)
  <2>1. PICK r \in Runs : Step(r)
    BY <1>7
  <2>2. StepOf(r) /\ EndStands(r)' /\ failures' >= failures /\ failures \in Nat /\ failures' \in Nat
    BY <2>1, StepEnds, StepsStand, RunIs, WaitsBoundsAssumption DEF EndsInv, StepOf
  <2>3. ASSUME NEW q \in Runs, q # r PROVE EndStands(q)'
    BY <2>2, <2>3, StepIs DEF EndsInv, EndStands, Held
  <2> QED BY <2>2, <2>3 DEF EndsInv
<1>8. CASE UNCHANGED vars
  BY <1>8 DEF vars, EndsInv, EndStands, Held
<1> QED BY <1>1, <1>2, <1>3, <1>4, <1>5, <1>6, <1>7, <1>8 DEF Next, Log

LEMMA InitEnds == Init => EndsInv
BY IdleIs DEF Init, EndsInv, EndStands

LEMMA TypeInvImpliesTypeOK == TypeInv /\ EndsInv => TypeOK
<1> SUFFICES ASSUME TypeInv, EndsInv PROVE TypeOK
  OBVIOUS
<1>1. LogTyped
  BY DEF TypeInv, Typed
<1>2. reported \in Seq(Arrival)
  <2>1. Len(reported) \in Nat /\ reported = [i \in 1 .. Len(reported) |-> reported[i]]
    BY <1>1 DEF LogTyped
  <2>2. \A i \in 1 .. Len(reported) : reported[i] \in Arrival
    BY <1>1, SeqsAre, ReportIs
  <2> QED BY <2>1, <2>2
<1>3. \A w \in wakes : w[1] \in Runs /\ w[3] \in Addresses /\ w[2] = AwaitOf[w[3]]
  BY DEF TypeInv, Typed, JobsTyped, Standing, Rows
<1>4. ASSUME NEW r \in Runs
      PROVE  /\ run[r].status \in {"none", "queued", "running", "parked", "ended"}
             /\ run[r].lease \in {"free", "held", "lapsed"} /\ run[r].mark \in 0 .. MaxArrivals
             /\ leaf[r] \in [Addresses -> {"none", "parked", "resuming"}]
             /\ job[r].on => run[r].status \in {"running", "parked", "ended"}
  BY RunIs DEF RunTypes, LeafTypes, JobStands
<1>5. ASSUME NEW r \in Runs, NEW k \in Records
      PROVE  /\ seen[r][k] \subseteq Notes
             /\ wait[r][k] # NoWait =>
                  wait[r][k] \in Wait /\ (run[r].status = "ended" => job[r].on \/ failures > 0)
  BY RunIs DEF NotesTypes, EndsInv, EndStands
<1> QED BY <1>1, <1>2, <1>3, <1>4, <1>5 DEF TypeOK, LogTyped

LEMMA TypeInvAlways == Spec => []TypeInv
<1>1. Init => TypeInv
  BY InitTyped
<1>2. TypeInv /\ [Next]_vars => TypeInv'
  BY NextKeepsTypes
<1> QED BY <1>1, <1>2, PTL DEF Spec

\* The log, the waits, the leaves and the jobs stay within their types, and a
\* run that is over has waits only while its process is still to drop them, or
\* where a process died or lost its lease (clear_if_quiescent,
\* drop_unstarted_waits).
THEOREM WaitsTypes == Spec => []TypeOK
<1>1. Init => EndsInv
  BY InitEnds
<1>2. TypeInv /\ EndsInv /\ [Next]_vars => EndsInv'
  BY NextEnds
<1> QED BY <1>1, <1>2, TypeInvAlways, TypeInvImpliesTypeOK, PTL DEF Spec

-----------------------------------------------------------------------------
(* Where logs take turns, a wait reads all that is logged after its mark.  *)

\* Nothing drawn but not yet committed is at or below a mark taken, or out of
\* the sweep's floor; and so for the record's wait, be it opened at the mark or
\* before it.
MarkReads(r, k) ==
    LET m == job[r].marks[k] IN
    job[r].on /\ m # NoMark /\ k \notin Entered(r) =>
        /\ m.seq \in Committed \cup {0}
        /\ \A s \in Seqs \ m.before :
              /\ s > m.seq
              /\ wait[r][k] # NoWait => s > wait[r][k].since
              /\ Held(r) => s > run[r].mark /\ s \notin swept

WaitReads(r, k) ==
    wait[r][k] # NoWait =>
        /\ wait[r][k].since \in Committed \cup {0}
        /\ \A s \in Seqs \ wait[r][k].before :
              reported[s].rec = k => s > wait[r][k].since /\ s \notin swept

ReadOf(r) ==
    /\ run[r].mark \in Committed \cup {0}
    /\ \A k \in Records : WaitReads(r, k) /\ MarkReads(r, k)

\* The seq in flight, if any, is the last one drawn.
ReadInv ==
    /\ flight \subseteq {Len(reported)}
    /\ \A r \in Runs : ReadOf(r)

LEMMA ReadInvImpliesReadsAll == TypeInv /\ ReadInv => WaitsReadAll
<1> SUFFICES ASSUME TypeInv, ReadInv, NEW r \in Runs, NEW k \in Records
             PROVE  /\ wait[r][k] # NoWait => InReach(k, wait[r][k].since, wait[r][k].before)
                    /\ job[r].on /\ Held(r) /\ job[r].marks[k] # NoMark /\ k \notin Entered(r) =>
                           InReach(k, job[r].marks[k].seq, job[r].marks[k].before)
  BY DEF WaitsReadAll
<1>1. WaitReads(r, k) /\ MarkReads(r, k)
  BY DEF ReadInv, ReadOf
<1> QED BY <1>1 DEF WaitReads, MarkReads, InReach, Committed

\* What is committed, and the latest of it.
LEMMA CommittedIs ==
    ASSUME TypeInv
    PROVE  /\ Seqs = 1 .. Len(reported) /\ Len(reported) \in Nat
           /\ Committed \subseteq Seqs /\ Logged \subseteq Committed /\ swept \subseteq Committed
           /\ Latest \in Committed \cup {0} /\ Latest \in Nat
BY SeqsAre DEF TypeInv, Typed, LogTyped, Committed, Logged

\* While the log grows by at most one seq, what a run reads stays in reach.
LEMMA ReadWhileLogged ==
    ASSUME TypeInv, NEW r \in Runs, ReadOf(r),
           Seqs \subseteq Seqs', Seqs' \subseteq Seqs \cup {Len(reported) + 1},
           \A s \in Seqs : reported'[s] = reported[s],
           Committed \subseteq Committed', swept' = swept,
           run'[r].mark = run[r].mark, run'[r].lease = run[r].lease, run'[r].entered = run[r].entered,
           job'[r] = job[r],
           \A k \in Records : wait'[r][k] # NoWait =>
                /\ wait[r][k] # NoWait
                /\ wait'[r][k].since = wait[r][k].since /\ wait'[r][k].before = wait[r][k].before
    PROVE  ReadOf(r)'
<1>1. run'[r].mark \in Committed' \cup {0}
  BY DEF ReadOf
<1>2. ASSUME NEW k \in Records PROVE WaitReads(r, k)'
  <2>1. WaitReads(r, k)
    BY DEF ReadOf
  <2> SUFFICES ASSUME wait'[r][k] # NoWait
               PROVE  /\ wait'[r][k].since \in Committed' \cup {0}
                      /\ \A s \in Seqs' \ wait'[r][k].before :
                            reported'[s].rec = k => s > wait'[r][k].since /\ s \notin swept'
    BY DEF WaitReads
  <2>3. /\ wait[r][k] # NoWait /\ wait[r][k].since \in Committed \cup {0}
        /\ wait'[r][k].since = wait[r][k].since /\ wait'[r][k].before = wait[r][k].before
    BY <2>1 DEF WaitReads
  <2>4. ASSUME NEW s \in Seqs' \ wait'[r][k].before, reported'[s].rec = k
        PROVE  s > wait'[r][k].since /\ s \notin swept'
    <3>1. CASE s \in Seqs
      BY <2>1, <2>3, <2>4, <3>1 DEF WaitReads
    <3>2. CASE s = Len(reported) + 1
      BY <2>3, <3>2, CommittedIs
    <3> QED BY <3>1, <3>2
  <2> QED BY <2>3, <2>4
<1>3. ASSUME NEW k \in Records PROVE MarkReads(r, k)'
  <2> DEFINE m == job[r].marks[k]
  <2>1. MarkReads(r, k)
    BY DEF ReadOf
  <2>2. Entered(r)' = Entered(r) /\ (Held(r)' <=> Held(r))
    BY DEF Entered, Held
  <2> SUFFICES ASSUME job[r].on, m # NoMark, k \notin Entered(r)
               PROVE  /\ m.seq \in Committed' \cup {0}
                      /\ \A s \in Seqs' \ m.before :
                            /\ s > m.seq
                            /\ wait'[r][k] # NoWait => s > wait'[r][k].since
                            /\ Held(r) => s > run[r].mark /\ s \notin swept
    BY <2>2 DEF MarkReads
  <2>3. m.seq \in Committed \cup {0}
    BY <2>1 DEF MarkReads
  <2>4. wait'[r][k] # NoWait => wait[r][k] # NoWait /\ wait'[r][k].since = wait[r][k].since
                                /\ wait[r][k].since \in Committed \cup {0}
    BY DEF ReadOf, WaitReads
  <2>5. ASSUME NEW s \in Seqs' \ m.before
        PROVE  /\ s > m.seq
               /\ wait'[r][k] # NoWait => s > wait'[r][k].since
               /\ Held(r) => s > run[r].mark /\ s \notin swept
    <3>1. CASE s \in Seqs
      BY <2>1, <2>4, <3>1 DEF MarkReads
    <3>2. CASE s = Len(reported) + 1
      <4>1. run[r].mark \in Committed \cup {0}
        BY DEF ReadOf
      <4> QED BY <2>3, <2>4, <3>2, <4>1, CommittedIs
    <3> QED BY <3>1, <3>2
  <2> QED BY <2>3, <2>5
<1> QED BY <1>1, <1>2, <1>3 DEF ReadOf

LEMMA BeginLogReads ==
    ASSUME TypeInv, ReadInv, TakesTurns, NEW a \in Reports, BeginLog(a)
    PROVE  ReadInv'
<1>1. /\ Draw(a) /\ flight = {} /\ flight' = {Len(reported) + 1}
      /\ UNCHANGED <<swept, run, leaf, wait, seen, wakes, job, failures>>
  BY DEF BeginLog, MayLog
<1>2. /\ Seqs' = Seqs \cup {Len(reported) + 1} /\ Len(reported') = Len(reported) + 1
      /\ \A s \in Seqs : reported'[s] = reported[s]
  BY <1>1, DrawTyped DEF TypeInv, Typed
<1>3. Committed' = Committed
  <2>1. Len(reported) + 1 \notin Seqs
    BY CommittedIs
  <2> QED BY <1>1, <1>2, <2>1 DEF Committed
<1>4. ASSUME NEW r \in Runs PROVE ReadOf(r)'
  BY <1>1, <1>2, <1>3, ReadWhileLogged DEF ReadInv
<1> QED BY <1>1, <1>2, <1>4 DEF ReadInv

LEMMA EndLogReads ==
    ASSUME TypeInv, ReadInv, NEW s \in flight, EndLog(s)
    PROVE  ReadInv'
<1>1. /\ WaitsTyped /\ reported[s] \in Reports
      /\ flight' = flight \ {s} /\ wait' = Strandings(wait, reported[s])
      /\ UNCHANGED <<reported, swept, known, run, leaf, seen, job, failures>>
  BY SeqsAre DEF EndLog, TypeInv, Typed, LogTyped
<1>2. Seqs' = Seqs /\ Committed \subseteq Committed'
  BY <1>1 DEF Seqs, Committed
<1>3. ASSUME NEW r \in Runs, NEW k \in Records, wait'[r][k] # NoWait
      PROVE  /\ wait[r][k] # NoWait
             /\ wait'[r][k].since = wait[r][k].since /\ wait'[r][k].before = wait[r][k].before
  BY <1>1, <1>3, StrandingsAre
<1>4. ASSUME NEW r \in Runs PROVE ReadOf(r)'
  BY <1>1, <1>2, <1>3, ReadWhileLogged DEF ReadInv
<1> QED BY <1>1, <1>4 DEF ReadInv

LEMMA DeliverReads ==
    ASSUME TypeInv, ReadInv, TakesTurns, NEW r \in Runs, NEW a \in Reports, Deliver(r, a)
    PROVE  ReadInv'
<1>1. /\ WaitsTyped /\ Draw(a) /\ flight = {} /\ run[r].status = "none" /\ Trigger \in Records
      /\ run' = [run EXCEPT ![r].status = "queued", ![r].bound = <<Bound(a, Nowhere, TRUE)>>]
      /\ wait' = [Strandings(wait, a) EXCEPT ![r][Trigger] =
                    [since |-> Latest, before |-> Seqs \ flight, at |-> Nowhere, stranded |-> FALSE]]
      /\ UNCHANGED <<flight, swept, leaf, job, failures>>
  BY RecordsAssumption DEF Deliver, MayLog, TypeInv, Typed
<1>2. /\ Seqs' = Seqs \cup {Len(reported) + 1} /\ Len(reported) + 1 \notin Seqs
      /\ Len(reported) + 1 \notin swept
      /\ \A s \in Seqs : reported'[s] = reported[s]
  BY <1>1, DrawTyped, CommittedIs DEF TypeInv, Typed
<1>3. Committed' = Committed \cup {Len(reported) + 1} /\ Committed = Seqs
  BY <1>1, <1>2 DEF Committed
<1>4. /\ Strandings(wait, a) \in [Runs -> [Records -> Wait \cup {NoWait}]]
      /\ run \in [Runs -> RunTypes] /\ run[r] \in RunTypes
  BY <1>1, StrandingsTyped, RunIs DEF TypeInv, Typed, RunsTyped
<1>5. \A q \in Runs : run'[q].mark = run[q].mark /\ run'[q].lease = run[q].lease /\ run'[q].entered = run[q].entered
  BY <1>1, <1>4 DEF RunTypes
<1>6. ASSUME NEW q \in Runs, q # r PROVE ReadOf(q)'
  <2>1. ASSUME NEW k \in Records, wait'[q][k] # NoWait
        PROVE  /\ wait[q][k] # NoWait
               /\ wait'[q][k].since = wait[q][k].since /\ wait'[q][k].before = wait[q][k].before
    <3>1. wait'[q][k] = Strandings(wait, a)[q][k]
      BY <1>1, <1>4, <1>6
    <3> QED BY <1>1, <2>1, <3>1, StrandingsAre
  <2> QED BY <1>1, <1>2, <1>3, <1>5, <2>1, ReadWhileLogged DEF ReadInv
<1>7. ReadOf(r)'
  <2>1. run'[r].mark \in Committed' \cup {0}
    BY <1>3, <1>5 DEF ReadInv, ReadOf
  <2>2. ASSUME NEW k \in Records PROVE WaitReads(r, k)'
    <3>1. CASE k = Trigger
      <4>1. wait'[r][k].since = Latest /\ wait'[r][k].before = Seqs
        BY <1>1, <1>4, <3>1
      <4>2. Latest \in Committed' \cup {0} /\ Latest < Len(reported) + 1
        BY <1>3, CommittedIs
      <4> QED BY <1>1, <1>2, <4>1, <4>2 DEF WaitReads
    <3>2. CASE k # Trigger
      <4>1. wait'[r][k] = Strandings(wait, a)[r][k]
        BY <1>1, <1>4, <3>2
      <4>2. wait[r][k] = NoWait
        BY <1>1, RunIs DEF WaitStands
      <4>3. wait'[r][k] = NoWait
        BY <1>1, <4>1, <4>2, StrandingsAre
      <4> QED BY <4>3 DEF WaitReads
    <3> QED BY <3>1, <3>2
  <2>3. ~job'[r].on
    BY <1>1, RunIs DEF JobStands
  <2> QED BY <2>1, <2>2, <2>3 DEF ReadOf, MarkReads
<1> QED BY <1>1, <1>6, <1>7 DEF ReadInv

\* The sweep's floor is at or below the mark of every lease that runs.
LEMMA FloorIs ==
    ASSUME TypeInv, NEW r \in Runs, Held(r)
    PROVE  Floor \in Nat /\ Floor <= run[r].mark
<1> DEFINE marks == {run[q].mark : q \in {p \in Runs : run[p].lease = "held"}}
<1>1. run[r].mark \in marks
  BY DEF Held
<1>2. marks \in SUBSET Nat
  BY RunIs, WaitsBoundsAssumption DEF RunTypes
<1>3. Floor = Min(marks)
  BY <1>1 DEF Floor
<1> HIDE DEF marks
<1> QED BY <1>1, <1>2, <1>3, MinIs

LEMMA SweepReads ==
    ASSUME TypeInv, ReadInv, (\E x \in known : WindowEnds(x)) \/ Sweep
    PROVE  ReadInv'
<1>1. UNCHANGED <<reported, flight, run, leaf, wait, seen, wakes, job, failures>> /\ Seqs' = Seqs /\ Committed' = Committed
  BY DEF WindowEnds, Sweep, Seqs, Committed
<1>2. CASE \E x \in known : WindowEnds(x)
  <2>1. swept' = swept
    BY <1>2 DEF WindowEnds
  <2> QED BY <1>1, <2>1 DEF ReadInv, ReadOf, WaitReads, MarkReads, Entered, Held
<1>3. CASE Sweep
  <2>1. PICK x \in Sweepable : swept' = swept \cup {x}
    <3>1. Sweepable \in SUBSET Nat /\ Sweepable # {}
      BY <1>3, CommittedIs DEF Sweep, Sweepable
    <3> QED BY <1>3, <3>1, MinIs DEF Sweep
  <2>2. /\ x \in Nat /\ x <= Floor
        /\ \A r \in Runs : wait[r][reported[x].rec] # NoWait => wait[r][reported[x].rec].since >= x
    BY <2>1, CommittedIs DEF Sweepable
  <2>3. ASSUME NEW r \in Runs PROVE ReadOf(r)'
    <3>1. ReadOf(r)
      BY DEF ReadInv
    <3>2. run'[r].mark \in Committed' \cup {0}
      BY <1>1, <3>1 DEF ReadOf
    <3>3. ASSUME NEW k \in Records PROVE WaitReads(r, k)'
      <4> SUFFICES ASSUME wait[r][k] # NoWait, NEW s \in Seqs \ wait[r][k].before, reported[s].rec = k
                   PROVE  s # x
        BY <1>1, <2>1, <3>1 DEF ReadOf, WaitReads
      <4>1. s > wait[r][k].since /\ wait[r][k].since \in Nat /\ s \in Nat
        BY <3>1, CommittedIs DEF ReadOf, WaitReads
      <4> QED BY <2>2, <4>1
    <3>4. ASSUME NEW k \in Records PROVE MarkReads(r, k)'
      <4> SUFFICES ASSUME job[r].on, job[r].marks[k] # NoMark, k \notin Entered(r), Held(r),
                          NEW s \in Seqs \ job[r].marks[k].before
                   PROVE  s # x
        BY <1>1, <2>1, <3>1 DEF ReadOf, MarkReads, Entered, Held
      <4>1. s > run[r].mark /\ run[r].mark \in Nat /\ s \in Nat
        BY <3>1, CommittedIs DEF ReadOf, MarkReads
      <4> QED BY <2>2, <4>1, FloorIs
    <3> QED BY <3>2, <3>3, <3>4 DEF ReadOf
  <2> QED BY <1>1, <2>3 DEF ReadInv
<1> QED BY <1>2, <1>3

\* A step of a run's process leaves the others' as they are.
LEMMA StepReads ==
    ASSUME TypeInv, ReadInv, NEW r \in Runs, StepOf(r), ReadOf(r)'
    PROVE  ReadInv'
<1>1. Seqs' = Seqs /\ Committed' = Committed /\ reported' = reported /\ flight' = flight /\ swept' = swept
  BY StepIs DEF Seqs, Committed
<1>2. ASSUME NEW q \in Runs, q # r PROVE ReadOf(q)'
  <2>1. ReadOf(q) /\ run'[q] = run[q] /\ wait'[q] = wait[q] /\ job'[q] = job[q]
    BY <1>2, StepIs DEF ReadInv
  <2> QED BY <1>1, <2>1 DEF ReadOf, WaitReads, MarkReads, Entered, Held
<1> QED BY <1>1, <1>2 DEF ReadInv

\* One that opens nothing, takes no mark, and has its lease still or has lost it.
LEMMA QuietReads ==
    ASSUME TypeInv, ReadInv, NEW r \in Runs, StepOf(r),
           run'[r].mark = run[r].mark, Held(r)' => Held(r),
           job'[r].on => job[r].on /\ job'[r].marks = job[r].marks,
           Entered(r) \subseteq Entered(r)',
           wait'[r] = wait[r]
    PROVE  ReadOf(r)'
<1>1. Seqs' = Seqs /\ Committed' = Committed /\ reported' = reported /\ swept' = swept /\ ReadOf(r)
  BY StepIs DEF Seqs, Committed, ReadInv
<1>2. run'[r].mark \in Committed' \cup {0}
  BY <1>1 DEF ReadOf
<1>3. \A k \in Records : WaitReads(r, k)'
  BY <1>1 DEF ReadOf, WaitReads
<1>4. \A k \in Records : MarkReads(r, k)'
  BY <1>1 DEF ReadOf, MarkReads
<1> QED BY <1>2, <1>3, <1>4 DEF ReadOf

\* One after which the run has no process, or one that has taken no mark.
LEMMA FreshReads ==
    ASSUME TypeInv, ReadInv, NEW r \in Runs, StepOf(r),
           run'[r].mark = run[r].mark \/ run'[r].mark = Latest,
           \A k \in Records : ~job'[r].on \/ job'[r].marks[k] = NoMark,
           \A k \in Records : wait'[r][k] # NoWait =>
                /\ wait[r][k] # NoWait
                /\ wait'[r][k].since = wait[r][k].since /\ wait'[r][k].before = wait[r][k].before
    PROVE  ReadOf(r)'
<1>1. Seqs' = Seqs /\ Committed' = Committed /\ reported' = reported /\ swept' = swept /\ ReadOf(r)
  BY StepIs DEF Seqs, Committed, ReadInv
<1>2. run'[r].mark \in Committed' \cup {0}
  BY <1>1, CommittedIs DEF ReadOf
<1>3. \A k \in Records : WaitReads(r, k)'
  BY <1>1 DEF ReadOf, WaitReads
<1>4. \A k \in Records : MarkReads(r, k)'
  BY <1>1 DEF MarkReads, NoMark
<1> QED BY <1>2, <1>3, <1>4 DEF ReadOf

\* The mark taken is the latest: what is in flight is past it, past the run's
\* own mark and past the mark of the wait there.
LEMMA TakeMarkReads ==
    ASSUME TypeInv, ReadInv, NEW r \in Runs, NEW k \in Records, TakeMark(r, k)
    PROVE  ReadOf(r)'
<1>1. /\ StepOf(r) /\ job[r].on /\ k \notin Entered(r) /\ UNCHANGED <<run, wait>>
      /\ job'[r] = [job[r] EXCEPT !.marks = [job[r].marks EXCEPT ![k] = MarkNow]]
  BY TakeMarkIs
<1>2. /\ Seqs' = Seqs /\ Committed' = Committed /\ reported' = reported /\ swept' = swept /\ ReadOf(r)
      /\ job[r] \in JobTypes /\ flight \subseteq {Len(reported)}
  BY <1>1, StepIs, RunIs DEF Seqs, Committed, ReadInv
<1>3. /\ job'[r].on = job[r].on /\ job'[r].entered = job[r].entered
      /\ \A q \in Records : job'[r].marks[q] = IF q = k THEN MarkNow ELSE job[r].marks[q]
  <2> DEFINE marks == [job[r].marks EXCEPT ![k] = MarkNow]
  <2>1. job[r].marks \in [Records -> Marks] /\ job[r] \in JobTypes
    BY <1>2 DEF JobTypes
  <2>2. \A q \in Records : marks[q] = IF q = k THEN MarkNow ELSE job[r].marks[q]
    BY <2>1
  <2>3. job'[r] = [job[r] EXCEPT !.marks = marks]
    BY <1>1
  <2> HIDE DEF marks
  <2>4. job'[r].marks = marks /\ job'[r].on = job[r].on /\ job'[r].entered = job[r].entered
    BY <2>1, <2>3 DEF JobTypes
  <2> QED BY <2>2, <2>4
<1>4. Entered(r)' = Entered(r) /\ (Held(r)' <=> Held(r))
  BY <1>1, <1>3 DEF Entered, Held
<1>5. ASSUME NEW q \in Records, q # k PROVE MarkReads(r, q)'
  <2>1. MarkReads(r, q) /\ job'[r].marks[q] = job[r].marks[q]
    BY <1>2, <1>3, <1>5 DEF ReadOf
  <2> QED BY <1>1, <1>2, <1>3, <1>4, <2>1 DEF MarkReads
<1>6. MarkReads(r, k)'
  <2>1. job'[r].marks[k] = MarkNow /\ MarkNow.seq = Latest /\ MarkNow.before = Committed
    BY <1>3 DEF MarkNow, Committed
  <2>2. Latest \in Committed \cup {0} /\ run[r].mark \in Committed \cup {0}
        /\ (wait[r][k] # NoWait => wait[r][k].since \in Committed \cup {0})
    BY <1>2, CommittedIs DEF ReadOf, WaitReads
  <2>3. ASSUME NEW s \in Seqs \ Committed, NEW m \in Committed \cup {0}
        PROVE  s > m /\ s \notin swept
    <3>1. s = Len(reported) /\ s \in flight /\ s \in Seqs
      BY <1>2, <2>3 DEF Committed
    <3>2. m # s /\ m \in 0 .. Len(reported)
      BY <2>3, <3>1, CommittedIs DEF Committed
    <3> QED BY <3>1, <3>2, <2>3, CommittedIs
  <2> QED BY <1>1, <1>2, <1>4, <2>1, <2>2, <2>3 DEF MarkReads
<1>7. \A q \in Records : WaitReads(r, q)'
  BY <1>1, <1>2 DEF ReadOf, WaitReads
<1>8. run'[r].mark \in Committed' \cup {0}
  BY <1>1, <1>2 DEF ReadOf
<1> QED BY <1>5, <1>6, <1>7, <1>8 DEF ReadOf

\* The wait opened at that mark.
LEMMA OpenReads ==
    ASSUME TypeInv, ReadInv, NEW r \in Runs, NEW k \in Records, Open(r, k)
    PROVE  ReadOf(r)'
<1> DEFINE m == job[r].marks[k]
<1>1. /\ StepOf(r) /\ job[r].on /\ k \notin Entered(r) /\ m \in Marks /\ m # NoMark
      /\ run' = run
      /\ job'[r] = [job[r] EXCEPT !.entered = @ \cup {k}]
      /\ \A q \in Records : wait'[r][q] = IF q = k THEN Opened(r, k, m) ELSE wait[r][q]
  BY OpenIs
<1>2. /\ Seqs' = Seqs /\ Committed' = Committed /\ reported' = reported /\ swept' = swept /\ ReadOf(r)
      /\ job[r] \in JobTypes /\ Seqs \subseteq 1 .. MaxArrivals
  BY <1>1, StepIs, RunIs, SeqsAre DEF Seqs, Committed, ReadInv, TypeInv, Typed
<1>3. job'[r].on /\ job'[r].entered = job[r].entered \cup {k} /\ job'[r].marks = job[r].marks
  <2>1. job'[r] = [job[r] EXCEPT !.entered = @ \cup {k}] /\ job[r].on
    BY <1>1
  <2>2. job[r] \in JobTypes
    BY <1>2
  <2> HIDE DEF m
  <2> QED BY <2>1, <2>2 DEF JobTypes
<1>4. Entered(r)' = Entered(r) \cup {k} /\ (Held(r)' <=> Held(r))
  BY <1>1, <1>3 DEF Entered, Held
<1>5. WaitReads(r, k) /\ MarkReads(r, k)
  BY <1>2 DEF ReadOf
<1>6. WaitReads(r, k)'
  <2>0. wait'[r][k] = Opened(r, k, m)
    BY <1>1
  <2>1. CASE wait[r][k] = NoWait
    <3>1. /\ wait'[r][k].since = m.seq
          /\ wait'[r][k].before = IF Held(r) THEN m.before ELSE 1 .. MaxArrivals
      BY <1>1, <2>0, <2>1, OpenedIs
    <3> QED BY <1>1, <1>2, <1>5, <3>1 DEF WaitReads, MarkReads
  <2>2. CASE wait[r][k] # NoWait
    <3>1. /\ wait'[r][k].since = wait[r][k].since
          /\ wait'[r][k].before = wait[r][k].before \cap (IF Held(r) THEN m.before ELSE 1 .. MaxArrivals)
      BY <1>1, <2>0, <2>2, OpenedIs
    <3> QED BY <1>1, <1>2, <1>5, <2>2, <3>1 DEF WaitReads, MarkReads
  <2> QED BY <2>1, <2>2
<1>7. ASSUME NEW q \in Records, q # k PROVE WaitReads(r, q)' /\ MarkReads(r, q)'
  <2>1. WaitReads(r, q) /\ MarkReads(r, q) /\ wait'[r][q] = wait[r][q]
    BY <1>1, <1>2, <1>7 DEF ReadOf
  <2> QED BY <1>1, <1>2, <1>3, <1>4, <2>1 DEF WaitReads, MarkReads
<1>8. MarkReads(r, k)'
  BY <1>4 DEF MarkReads
<1>9. run'[r].mark \in Committed' \cup {0}
  BY <1>1, <1>2 DEF ReadOf
<1> QED BY <1>6, <1>7, <1>8, <1>9 DEF ReadOf

LEMMA SegmentReads ==
    ASSUME TypeInv, ReadInv, NEW r \in Runs, Segment(r)
    PROVE  StepOf(r) /\ ReadOf(r)'
<1>0. StepOf(r)
  BY StepsStand DEF Step
<1>1. CASE \E k \in Records : TakeMark(r, k)
  BY <1>0, <1>1, TakeMarkReads
<1>2. CASE \E k \in Records : Open(r, k)
  BY <1>0, <1>2, OpenReads
<1>3. CASE \E a \in Addresses : Reach(r, a)
  <2>1. PICK a \in Addresses : /\ run' = run /\ wait' = wait
                               /\ job'[r] = [job[r] EXCEPT !.at = a, !.todo = Unread(r, AwaitOf[a])]
    BY <1>3, ReachIs
  <2>2. job'[r].on = job[r].on /\ job'[r].marks = job[r].marks /\ job'[r].entered = job[r].entered
    BY <2>1, RunIs DEF JobTypes
  <2> QED BY <1>0, <2>1, <2>2, QuietReads DEF Entered, Held
<1>4. CASE \E a \in Addresses : \E s \in Seqs : BindListed(r, a, s)
  <2>1. run' = run /\ wait' = wait /\ SameStep(job'[r], job[r])
    BY <1>4, BindListedIs
  <2> QED BY <1>0, <2>1, QuietReads DEF SameStep, Entered, Held
<1>5. CASE \E matched \in BOOLEAN : Judge(r, matched)
  <2>1. run' = run /\ wait' = wait /\ SameStep(job'[r], job[r])
    BY <1>5, JudgeIs
  <2> QED BY <1>0, <2>1, QuietReads DEF SameStep, Entered, Held
<1>6. CASE HoldPark(r)
  <2>1. PICK at \in Addresses : /\ run' = run /\ wait' = wait
                                /\ job'[r] = [job[r] EXCEPT !.at = Nowhere, !.parks = @ \cup {at}]
    BY <1>6, HoldParkIs
  <2>2. job'[r].on = job[r].on /\ job'[r].marks = job[r].marks /\ job'[r].entered = job[r].entered
    BY <2>1, RunIs DEF JobTypes
  <2> QED BY <1>0, <2>1, <2>2, QuietReads DEF Entered, Held
<1>7. CASE \E order \in SetToSeqs(job[r].parks) : Commit(r, order)
  <2>1. PICK order \in SetToSeqs(job[r].parks) : Commit(r, order)
    BY <1>7
  <2>2. run'[r].mark = run[r].mark
    BY <2>1, CommitRunIs
  <2>4. job'[r] = (IF run'[r].status = "ended" THEN Ending(job[r].row) ELSE Idle) /\ job[r].row \in Rows \cup {NoRow}
    BY <2>1, CommitIs, RunIs DEF JobTypes
  <2>5. \A k \in Records : ~job'[r].on \/ job'[r].marks[k] = NoMark
    BY <2>4, EndingIs, IdleIs
  <2>3. ASSUME NEW k \in Records, wait'[r][k] # NoWait
        PROVE  /\ wait[r][k] # NoWait
               /\ wait'[r][k].since = wait[r][k].since /\ wait'[r][k].before = wait[r][k].before
    <3>1. wait'[r][k] = ParkedWaits(r, order)[k]
      BY <2>1, <2>3, CommitIs
    <3> QED BY <2>3, <3>1, ParkedWaitsAre
  <2> QED BY <1>0, <2>2, <2>5, <2>3, FreshReads
<1> QED BY <1>1, <1>2, <1>3, <1>4, <1>5, <1>6, <1>7 DEF Segment

LEMMA NextKeepsReads ==
    ASSUME TypeInv, ReadInv, TakesTurns, [Next]_vars
    PROVE  ReadInv'
<1>1. CASE \E a \in Reports : BeginLog(a)
  BY <1>1, BeginLogReads
<1>2. CASE \E a \in Reports : \E r \in Runs : Deliver(r, a)
  BY <1>2, DeliverReads
<1>3. CASE \E s \in flight : EndLog(s)
  BY <1>3, EndLogReads
<1>4. CASE (\E x \in known : WindowEnds(x)) \/ Sweep
  BY <1>4, SweepReads
<1>5. CASE \E w \in wakes : Resume(w)
  <2>1. PICK w \in wakes : Resume(w)
    BY <1>5
  <2>2. PICK r \in Runs, a \in Addresses :
            /\ StepOf(r) /\ wait' = wait /\ run'[r].mark = Latest /\ job'[r] = JobOf(a, {}, w)
    BY <2>1, ResumeIs
  <2>3. \A k \in Records : job'[r].marks[k] = NoMark
    BY <2>2 DEF JobOf, Idle
  <2>4. ReadOf(r)'
    BY <2>2, <2>3, FreshReads
  <2> QED BY <2>2, <2>4, StepReads
<1>6. CASE \E w \in wakes : RowFindsNothing(w)
  <2>1. PICK w \in wakes : RowFindsNothing(w)
    BY <1>6
  <2>2. PICK r \in Runs : StepOf(r) /\ run' = run /\ wait' = wait /\ job' = job
    BY <2>1, RowFindsNothingIs
  <2>3. ReadOf(r)'
    BY <2>2, QuietReads DEF Entered, Held
  <2> QED BY <2>2, <2>3, StepReads
<1>7. ASSUME NEW r \in Runs, Step(r) PROVE StepOf(r) /\ ReadOf(r)'
  <2>0. StepOf(r)
    BY <1>7, StepsStand
  <2>1. CASE Start(r)
    <3>1. /\ run'[r].mark = Latest /\ wait' = wait
          /\ job'[r] = JobOf(Nowhere, IF run[r].status = "queued" THEN {Trigger} ELSE {}, NoRow)
      BY <2>1, StartIs DEF Start
    <3>2. \A k \in Records : job'[r].marks[k] = NoMark
      BY <3>1 DEF JobOf, Idle
    <3> QED BY <2>0, <3>1, <3>2, FreshReads
  <2>2. CASE NeverStarts(r)
    <3>1. run'[r].mark = run[r].mark /\ ~job'[r].on /\ \A k \in Records : wait'[r][k] = NoWait
      BY <2>2, NeverStartsIs
    <3> QED BY <2>0, <3>1, FreshReads
  <2>6. CASE Drop(r)
    <3>1. job'[r] = Idle /\ \A k \in Records : wait'[r][k] = NoWait
      BY <2>6, DropIs
    <3>2. run'[r] = [run[r] EXCEPT !.lease = "free"] /\ run[r] \in RunTypes
      BY <2>6, DropIs, RunIs
    <3>3. run'[r].mark = run[r].mark
      BY <3>2 DEF RunTypes
    <3> QED BY <2>0, <3>1, <3>3, IdleIs, FreshReads
  <2>7. CASE FailLost(r)
    <3>1. run'[r].mark = Latest /\ wait' = wait /\ job'[r] = Ending(NoRow)
      BY <2>7, FailLostIs
    <3>2. \A k \in Records : job'[r].marks[k] = NoMark
      BY <3>1, EndingIs
    <3> QED BY <2>0, <3>1, <3>2, FreshReads
  <2>3. CASE Segment(r)
    BY <2>3, SegmentReads
  <2>4. CASE LosesRun(r) \/ Crash(r)
    <3>1. run' = run /\ wait' = wait /\ ~job'[r].on
      BY <2>4, EndsIs, IdleIs
    <3> QED BY <2>0, <3>1, FreshReads
  <2>5. CASE LeaseLapses(r)
    <3>1. /\ wait' = wait /\ job' = job /\ run'[r] = [run[r] EXCEPT !.lease = "lapsed"] /\ Held(r)
      BY <2>5, LeaseLapsesIs
    <3>2. run'[r].mark = run[r].mark /\ run'[r].entered = run[r].entered
      BY <3>1, RunIs DEF RunTypes
    <3> QED BY <2>0, <3>1, <3>2, QuietReads DEF Entered
  <2> QED BY <1>7, <2>1, <2>2, <2>3, <2>4, <2>5, <2>6, <2>7, <2>0 DEF Step
<1>8. CASE UNCHANGED vars
  BY <1>8 DEF vars, ReadInv, ReadOf, WaitReads, MarkReads, Entered, Held, Seqs, Committed
<1> QED BY <1>1, <1>2, <1>3, <1>4, <1>5, <1>6, <1>7, <1>8, StepReads DEF Next, Log

LEMMA InitReads == Init => ReadInv
BY DEF Init, ReadInv, ReadOf, WaitReads, MarkReads, Idle

LEMMA ReadInvAlways ==
    ASSUME TakesTurns
    PROVE  Spec => []ReadInv
<1>1. Init => ReadInv
  BY InitReads
<1>2. TypeInv /\ ReadInv /\ [Next]_vars => ReadInv'
  BY NextKeepsReads
<1> QED BY <1>1, <1>2, TypeInvAlways, PTL DEF Spec

\* Where logs take turns, a wait reads every arrival logged after the mark its
\* run took before the record was written or read: the sweep keeps what a
\* lease's step or a wait may still read, and nothing commits below a mark
\* taken (entry_at, open_wait, sweep_arrivals).
THEOREM TurnsReadAll ==
    ASSUME TakesTurns
    PROVE  Spec => []WaitsReadAll
BY ReadInvAlways, TypeInvAlways, ReadInvImpliesReadsAll, PTL

-----------------------------------------------------------------------------
(* Where logs take turns, a wait is stranded as reported.                  *)

\* What is logged on a wait's record after its mark.
AfterMark(r, k) == {s \in On(k) : s > wait[r][k].since}

StrandedOf(r) ==
    \A k \in Records : wait[r][k] # NoWait =>
        /\ wait[r][k].stranded => NewestGone(r, k)
        /\ Parked(r, k) /\ NewestGone(r, k) => wait[r][k].stranded

LEMMA AfterMarkIs ==
    ASSUME TypeInv, NEW r \in Runs, NEW k \in Records
    PROVE  /\ AfterMark(r, k) \in SUBSET Nat /\ IsFiniteSet(AfterMark(r, k))
           /\ AfterMark(r, k) # {} => Max(AfterMark(r, k)) \in AfterMark(r, k)
                                      /\ \A s \in AfterMark(r, k) : s <= Max(AfterMark(r, k))
           /\ NewestGone(r, k) <=> AfterMark(r, k) # {} /\ reported[Max(AfterMark(r, k))].gone
<1>1. AfterMark(r, k) \subseteq 1 .. Len(reported) /\ Len(reported) \in Nat
  BY CommittedIs DEF AfterMark, On
<1>2. AfterMark(r, k) \in SUBSET Nat /\ IsFiniteSet(AfterMark(r, k))
  <2>1. IsFiniteSet(1 .. Len(reported))
    BY <1>1, FS_Interval
  <2> QED BY <1>1, <2>1, FS_Subset
<1>3. NewestGone(r, k) <=> AfterMark(r, k) # {} /\ reported[Max(AfterMark(r, k))].gone
  BY DEF NewestGone, AfterMark
<1> QED BY <1>2, <1>3, MaxIs

LEMMA NewestSame ==
    ASSUME TypeInv, TypeInv', NEW r \in Runs, NEW k \in Records,
           AfterMark(r, k)' = AfterMark(r, k), \A s \in Seqs : reported'[s] = reported[s]
    PROVE  NewestGone(r, k)' <=> NewestGone(r, k)
<1>1. NewestGone(r, k) <=> AfterMark(r, k) # {} /\ reported[Max(AfterMark(r, k))].gone
  BY AfterMarkIs
<1>2. NewestGone(r, k)' <=> AfterMark(r, k)' # {} /\ reported'[Max(AfterMark(r, k)')].gone
  BY DEF NewestGone, AfterMark
<1>3. CASE AfterMark(r, k) = {}
  BY <1>1, <1>2, <1>3
<1>4. CASE AfterMark(r, k) # {}
  <2>1. Max(AfterMark(r, k)) \in Seqs
    BY <1>4, AfterMarkIs DEF AfterMark, On, Logged
  <2>2. Max(AfterMark(r, k)') = Max(AfterMark(r, k))
    OBVIOUS
  <2> QED BY <1>1, <1>2, <2>1, <2>2
<1> QED BY <1>3, <1>4

\* A report logged last of all is the newest on its record.
LEMMA NewestIs ==
    ASSUME TypeInv, TypeInv', NEW r \in Runs, NEW k \in Records, NEW s \in Nat,
           AfterMark(r, k)' = AfterMark(r, k) \cup {s}, \A t \in AfterMark(r, k) : t < s
    PROVE  NewestGone(r, k)' <=> reported'[s].gone
<1> DEFINE after == AfterMark(r, k) \cup {s}
<1>1. AfterMark(r, k) \in SUBSET Nat /\ IsFiniteSet(AfterMark(r, k))
  BY AfterMarkIs
<1>2. after \in SUBSET Nat /\ IsFiniteSet(after) /\ after # {}
  BY <1>1, FS_AddElement
<1>3. Max(after) = s
  <2>1. Max(after) \in after /\ s <= Max(after)
    <3> HIDE DEF after
    <3>1. Max(after) \in after /\ \A t \in after : t <= Max(after)
      BY <1>2, MaxIs
    <3> QED BY <3>1 DEF after
  <2> QED BY <1>1, <2>1
<1>4. NewestGone(r, k)' <=> AfterMark(r, k)' # {} /\ reported'[Max(AfterMark(r, k)')].gone
  BY DEF NewestGone, AfterMark
<1> QED BY <1>2, <1>3, <1>4

LEMMA SinceIs ==
    ASSUME TypeInv, ReadInv, NEW r \in Runs, NEW k \in Records, wait[r][k] # NoWait
    PROVE  /\ wait[r][k] \in Wait /\ wait[r][k].since \in Committed \cup {0}
           /\ wait[r][k].since \in Nat
           /\ \A s \in flight : s > wait[r][k].since
           /\ Len(reported) + 1 > wait[r][k].since
<1>1. wait[r][k].since \in Committed \cup {0} /\ flight \subseteq {Len(reported)}
  BY DEF ReadInv, ReadOf, WaitReads
<1>2. wait[r][k] \in Wait
  BY RunIs
<1>3. flight \subseteq Seqs
  BY DEF TypeInv, Typed, LogTyped
<1>4. ASSUME NEW s \in flight PROVE s > wait[r][k].since
  <2>1. s = Len(reported) /\ wait[r][k].since # s /\ wait[r][k].since \in 0 .. Len(reported)
    BY <1>1, <1>3, <1>4, CommittedIs DEF Committed
  <2> QED BY <2>1, CommittedIs
<1>5. Len(reported) + 1 > wait[r][k].since /\ wait[r][k].since \in Nat
  BY <1>1, CommittedIs
<1> QED BY <1>1, <1>2, <1>4, <1>5

LEMMA BeginLogStrands ==
    ASSUME TypeInv, TypeInv', StrandedAsReported, NEW a \in Reports, BeginLog(a)
    PROVE  StrandedAsReported'
<1>1. Draw(a) /\ flight' = flight \cup {Len(reported) + 1} /\ UNCHANGED <<swept, leaf, wait>>
  BY DEF BeginLog
<1>2. /\ Seqs' = Seqs \cup {Len(reported) + 1} /\ Len(reported) + 1 \notin Seqs
      /\ \A s \in Seqs : reported'[s] = reported[s]
  BY <1>1, DrawTyped DEF TypeInv, Typed
<1>3. Logged' = Logged
  BY <1>1, <1>2 DEF Logged
<1>4. ASSUME NEW r \in Runs, NEW k \in Records PROVE NewestGone(r, k)' <=> NewestGone(r, k)
  <2>1. AfterMark(r, k)' = AfterMark(r, k)
    BY <1>1, <1>2, <1>3 DEF AfterMark, On, Logged
  <2> QED BY <1>2, <2>1, NewestSame
<1> QED BY <1>1, <1>4 DEF StrandedAsReported, Parked

\* What a report of its record does to a wait, as it is logged last of all.
LEMMA StrandingsStrand ==
    ASSUME TypeInv, TypeInv', ReadInv, StrandedAsReported,
           NEW a \in Reports, NEW s \in Nat \ Logged, NEW r \in Runs, NEW k \in Records,
           reported'[s] = a, \A t \in Seqs : reported'[t] = reported[t],
           Logged' = Logged \cup {s}, \A t \in Logged : t < s,
           wait[r][k] # NoWait => s > wait[r][k].since,
           leaf' = leaf, wait'[r][k] = Strandings(wait, a)[r][k], wait'[r][k] # NoWait
    PROVE  /\ wait'[r][k].stranded => NewestGone(r, k)'
           /\ Parked(r, k)' /\ NewestGone(r, k)' => wait'[r][k].stranded
<1>1. /\ wait[r][k] # NoWait /\ wait[r][k] \in Wait /\ wait'[r][k] \in Wait
      /\ wait'[r][k].since = wait[r][k].since /\ wait'[r][k].at = wait[r][k].at
      /\ wait'[r][k].stranded = IF k # a.rec \/ (a.gone /\ ~Parked(r, k)) THEN wait[r][k].stranded ELSE a.gone
  BY StrandingsAre DEF TypeInv, Typed
<1>2. Parked(r, k)' <=> Parked(r, k)
  BY <1>1 DEF Parked
<1>3. On(k)' = IF k = a.rec THEN On(k) \cup {s} ELSE On(k)
  BY DEF On, Logged
<1>4. CASE k # a.rec
  <2>1. AfterMark(r, k)' = AfterMark(r, k)
    BY <1>1, <1>3, <1>4 DEF AfterMark
  <2>2. NewestGone(r, k)' <=> NewestGone(r, k)
    BY <2>1, NewestSame
  <2> QED BY <1>1, <1>2, <1>4, <2>2 DEF StrandedAsReported
<1>5. CASE k = a.rec
  <2>1. AfterMark(r, k)' = AfterMark(r, k) \cup {s}
    BY <1>1, <1>3, <1>5 DEF AfterMark
  <2>2. \A t \in AfterMark(r, k) : t < s
    BY DEF AfterMark, On
  <2>3. NewestGone(r, k)' <=> a.gone
    BY <2>1, <2>2, NewestIs
  <2>4. a.gone \in BOOLEAN
    BY ReportIs
  <2> QED BY <1>1, <1>2, <1>5, <2>3, <2>4 DEF StrandedAsReported
<1> QED BY <1>4, <1>5

LEMMA EndLogStrands ==
    ASSUME TypeInv, TypeInv', ReadInv, StrandedAsReported, NEW s \in flight, EndLog(s)
    PROVE  StrandedAsReported'
<1>1. /\ reported[s] \in Reports /\ s \in Seqs /\ s \in Nat
      /\ flight' = flight \ {s} /\ wait' = Strandings(wait, reported[s])
      /\ UNCHANGED <<reported, swept, leaf>>
  BY SeqsAre DEF EndLog, TypeInv, Typed, LogTyped
<1>2. s \notin swept /\ s \notin Logged /\ flight \subseteq {Len(reported)}
  BY DEF TypeInv, Typed, LogTyped, Logged, ReadInv
<1>3. Logged' = Logged \cup {s}
  BY <1>1, <1>2 DEF Logged, Seqs
<1>4. \A t \in Logged : t < s
  BY <1>1, <1>2, CommittedIs DEF Logged
<1>5. ASSUME NEW r \in Runs, NEW k \in Records, wait'[r][k] # NoWait
      PROVE  /\ wait'[r][k].stranded => NewestGone(r, k)'
             /\ Parked(r, k)' /\ NewestGone(r, k)' => wait'[r][k].stranded
  <2>1. wait[r][k] # NoWait => s > wait[r][k].since
    BY SinceIs
  <2>2. s \in Nat \ Logged
    BY <1>1, <1>2
  <2> QED BY <1>1, <1>3, <1>4, <1>5, <2>1, <2>2, StrandingsStrand
<1> QED BY <1>5 DEF StrandedAsReported

LEMMA DeliverStrands ==
    ASSUME TypeInv, TypeInv', ReadInv, StrandedAsReported, TakesTurns,
           NEW r \in Runs, NEW a \in Reports, Deliver(r, a)
    PROVE  StrandedAsReported'
<1>1. /\ WaitsTyped /\ Draw(a) /\ flight = {} /\ Trigger \in Records
      /\ wait' = [Strandings(wait, a) EXCEPT ![r][Trigger] =
                    [since |-> Latest, before |-> Seqs \ flight, at |-> Nowhere, stranded |-> FALSE]]
      /\ UNCHANGED <<flight, swept, leaf>>
  BY RecordsAssumption DEF Deliver, MayLog, TypeInv, Typed
<1> DEFINE s == Len(reported) + 1
<1>2. /\ Seqs' = Seqs \cup {s} /\ s \notin Seqs /\ s \notin swept /\ reported'[s] = a
      /\ \A t \in Seqs : reported'[t] = reported[t]
  BY <1>1, DrawTyped, CommittedIs DEF TypeInv, Typed
<1>3. Logged' = Logged \cup {s} /\ s \in Nat \ Logged /\ \A t \in Logged : t < s
  BY <1>1, <1>2, CommittedIs DEF Logged
<1>4. Strandings(wait, a) \in [Runs -> [Records -> Wait \cup {NoWait}]]
  BY <1>1, StrandingsTyped
<1>5. ASSUME NEW q \in Runs, NEW k \in Records, wait'[q][k] # NoWait
      PROVE  /\ wait'[q][k].stranded => NewestGone(q, k)'
             /\ Parked(q, k)' /\ NewestGone(q, k)' => wait'[q][k].stranded
  <2>1. CASE q = r /\ k = Trigger
    <3>1. wait'[q][k] = [since |-> Latest, before |-> Seqs \ flight, at |-> Nowhere, stranded |-> FALSE]
      BY <1>1, <1>4, <2>1
    <3> QED BY <3>1 DEF Parked
  <2>2. CASE ~(q = r /\ k = Trigger)
    <3>1. wait'[q][k] = Strandings(wait, a)[q][k]
      BY <1>1, <1>4, <2>2
    <3>2. wait[q][k] # NoWait => s > wait[q][k].since
      BY SinceIs
    <3> HIDE DEF s
    <3> QED BY <1>1, <1>2, <1>3, <1>5, <3>1, <3>2, StrandingsStrand
  <2> QED BY <2>1, <2>2
<1> QED BY <1>5 DEF StrandedAsReported

LEMMA SweepStrands ==
    ASSUME TypeInv, TypeInv', ReadInv, StrandedAsReported, (\E x \in known : WindowEnds(x)) \/ Sweep
    PROVE  StrandedAsReported'
<1>1. UNCHANGED <<reported, flight, leaf, wait>> /\ Seqs' = Seqs
  BY DEF WindowEnds, Sweep, Seqs
<1>2. ASSUME NEW r \in Runs, NEW k \in Records, wait[r][k] # NoWait
      PROVE  NewestGone(r, k)' <=> NewestGone(r, k)
  <2>1. AfterMark(r, k)' = AfterMark(r, k)
    <3>1. CASE \E x \in known : WindowEnds(x)
      BY <1>1, <3>1 DEF WindowEnds, AfterMark, On, Logged, Seqs
    <3>2. CASE Sweep
      <4>1. PICK x \in Sweepable : swept' = swept \cup {x}
        <5>1. Sweepable \in SUBSET Nat /\ Sweepable # {}
          BY <3>2, CommittedIs DEF Sweep, Sweepable
        <5> QED BY <3>2, <5>1, MinIs DEF Sweep
      <4>2. x \in Nat /\ (reported[x].rec = k => wait[r][k].since >= x)
        BY <1>2, <4>1, CommittedIs DEF Sweepable
      <4>3. wait[r][k].since \in Nat
        BY <1>2, SinceIs
      <4>4. x \notin AfterMark(r, k)
        BY <4>2, <4>3 DEF AfterMark, On
      <4> QED BY <1>1, <4>1, <4>4 DEF AfterMark, On, Logged
    <3> QED BY <3>1, <3>2
  <2> QED BY <1>1, <2>1, NewestSame
<1> QED BY <1>1, <1>2 DEF StrandedAsReported, Parked

\* A step of a run's process leaves each of its waits as it was, open and not
\* stranded, or stranded as reported.
LEMMA StepStrands ==
    ASSUME TypeInv, TypeInv', StrandedAsReported, NEW r \in Runs, StepOf(r),
           \A k \in Records : wait'[r][k] # NoWait =>
              \/ wait'[r][k].at = Nowhere /\ ~wait'[r][k].stranded
              \/ /\ wait[r][k] # NoWait /\ wait'[r][k].since = wait[r][k].since
                 /\ \/ wait'[r][k].stranded <=> (wait[r][k].stranded \/ NewestGone(r, k))
                    \/ /\ wait'[r][k].at = wait[r][k].at /\ (wait'[r][k].stranded <=> wait[r][k].stranded)
                       /\ wait[r][k].at # Nowhere /\ leaf'[r][wait[r][k].at] # "none" =>
                             leaf[r][wait[r][k].at] # "none"
    PROVE  StrandedAsReported'
<1>1. /\ UNCHANGED <<reported, flight, swept>> /\ Seqs' = Seqs /\ Logged' = Logged
      /\ \A q \in Runs : q # r => wait'[q] = wait[q] /\ leaf'[q] = leaf[q]
  BY StepIs DEF Seqs, Logged
<1>2. ASSUME NEW q \in Runs, NEW k \in Records, wait'[q][k].since = wait[q][k].since
      PROVE  NewestGone(q, k)' <=> NewestGone(q, k)
  <2>1. AfterMark(q, k)' = AfterMark(q, k)
    BY <1>1, <1>2 DEF AfterMark, On, Logged
  <2> QED BY <1>1, <2>1, NewestSame
<1>3. ASSUME NEW q \in Runs, NEW k \in Records, wait'[q][k] # NoWait
      PROVE  /\ wait'[q][k].stranded => NewestGone(q, k)'
             /\ Parked(q, k)' /\ NewestGone(q, k)' => wait'[q][k].stranded
  <2>1. CASE q # r
    <3>1. wait'[q][k] = wait[q][k] /\ leaf'[q] = leaf[q]
      BY <1>1, <2>1
    <3>2. NewestGone(q, k)' <=> NewestGone(q, k)
      BY <1>2, <3>1
    <3> QED BY <1>3, <3>1, <3>2 DEF StrandedAsReported, Parked
  <2>2. CASE q = r /\ wait'[q][k].at = Nowhere /\ ~wait'[q][k].stranded
    BY <2>2 DEF Parked
  <2>3. CASE /\ q = r /\ wait[r][k] # NoWait /\ wait'[r][k].since = wait[r][k].since
             /\ wait'[r][k].stranded <=> (wait[r][k].stranded \/ NewestGone(r, k))
    <3>1. NewestGone(r, k)' <=> NewestGone(r, k)
      BY <1>2, <2>3
    <3> QED BY <2>3, <3>1 DEF StrandedAsReported
  <2>4. CASE /\ q = r /\ wait[r][k] # NoWait /\ wait'[r][k].since = wait[r][k].since
             /\ wait'[r][k].at = wait[r][k].at /\ (wait'[r][k].stranded <=> wait[r][k].stranded)
             /\ wait[r][k].at # Nowhere /\ leaf'[r][wait[r][k].at] # "none" => leaf[r][wait[r][k].at] # "none"
    <3>1. NewestGone(r, k)' <=> NewestGone(r, k)
      BY <1>2, <2>4
    <3>2. Parked(r, k)' => Parked(r, k)
      BY <2>4 DEF Parked
    <3> QED BY <2>4, <3>1, <3>2 DEF StrandedAsReported
  <2> QED BY <1>3, <2>1, <2>2, <2>3, <2>4
<1> QED BY <1>3 DEF StrandedAsReported

LEMMA SegmentStrands ==
    ASSUME TypeInv, TypeInv', StrandedAsReported, NEW r \in Runs, Segment(r)
    PROVE  StrandedAsReported'
<1>0. StepOf(r)
  BY StepsStand DEF Step
<1>1. CASE wait' = wait /\ leaf' = leaf
  BY <1>0, <1>1, StepStrands
<1>2. CASE \E k \in Records : Open(r, k)
  <2>1. PICK k \in Records : Open(r, k)
    BY <1>2
  <2>2. /\ leaf' = leaf /\ job[r].marks[k] \in Marks /\ job[r].marks[k] # NoMark
        /\ \A q \in Records : wait'[r][q] = IF q = k THEN Opened(r, k, job[r].marks[k]) ELSE wait[r][q]
    BY <2>1, OpenIs
  <2>3. \/ wait'[r][k].at = Nowhere /\ ~wait'[r][k].stranded
        \/ /\ wait[r][k] # NoWait /\ wait'[r][k].since = wait[r][k].since
           /\ wait'[r][k].at = wait[r][k].at /\ (wait'[r][k].stranded <=> wait[r][k].stranded)
    BY <2>2, OpenedIs
  <2>4. \A q \in Records : q # k => wait'[r][q] = wait[r][q]
    BY <2>2
  <2> QED BY <1>0, <2>2, <2>3, <2>4, StepStrands
<1>3. CASE \E order \in SetToSeqs(job[r].parks) : Commit(r, order)
  <2>1. PICK order \in SetToSeqs(job[r].parks) : Commit(r, order)
    BY <1>3
  <2>2. ASSUME NEW k \in Records, wait'[r][k] # NoWait
        PROVE  /\ wait[r][k] # NoWait /\ wait'[r][k].since = wait[r][k].since
               /\ \/ wait'[r][k].stranded <=> (wait[r][k].stranded \/ NewestGone(r, k))
                  \/ /\ wait'[r][k].at = wait[r][k].at /\ (wait'[r][k].stranded <=> wait[r][k].stranded)
                     /\ wait[r][k].at # Nowhere /\ leaf'[r][wait[r][k].at] # "none" =>
                             leaf[r][wait[r][k].at] # "none"
    <3>1. wait'[r][k] = ParkedWaits(r, order)[k]
      BY <2>1, <2>2, CommitIs
    <3>2. wait[r][k] # NoWait /\ wait[r][k] \in Wait /\ wait'[r][k].since = wait[r][k].since
      BY <2>2, <3>1, ParkedWaitsAre
    <3>3. CASE \E a \in job[r].parks : AwaitOf[a] = k
      <4>1. wait'[r][k].stranded = (wait[r][k].stranded \/ NewestGone(r, k))
        BY <3>1, <3>2, <3>3, ParkedWaitsAre
      <4> QED BY <3>2, <4>1
    <3>4. CASE \A a \in job[r].parks : AwaitOf[a] # k
      <4>1. wait'[r][k] = wait[r][k]
        BY <3>1, <3>4, ParkedWaitsAre
      <4>2. ASSUME wait[r][k].at # Nowhere, leaf'[r][wait[r][k].at] # "none"
            PROVE  leaf[r][wait[r][k].at] # "none"
        <5>1. PICK at \in Addresses : at = wait[r][k].at /\ AwaitOf[at] = k
          BY <3>2, <4>2, RunIs DEF WaitStands, Wait
        <5>2. at \notin job[r].parks /\ leaf'[r][at] = LeavesAfter(r)[at]
          BY <2>1, <3>4, <5>1, CommitRunIs
        <5> QED BY <4>2, <5>1, <5>2 DEF LeavesAfter
      <4> QED BY <3>2, <4>1, <4>2
    <3> QED BY <3>3, <3>4
  <2> QED BY <1>0, <2>2, StepStrands
<1>4. (\E k \in Records : TakeMark(r, k)) => wait' = wait /\ leaf' = leaf
  BY DEF TakeMark
<1>5. (\E a \in Addresses : Reach(r, a)) \/ HoldPark(r) => wait' = wait /\ leaf' = leaf
  BY DEF Reach, HoldPark
<1>6. (\E a \in Addresses : \E s \in Seqs : BindListed(r, a, s)) => wait' = wait /\ leaf' = leaf
  BY DEF BindListed
<1>7. (\E matched \in BOOLEAN : Judge(r, matched)) => wait' = wait /\ leaf' = leaf
  BY DEF Judge
<1> QED BY <1>1, <1>2, <1>3, <1>4, <1>5, <1>6, <1>7 DEF Segment

LEMMA NextKeepsStrands ==
    ASSUME TypeInv, ReadInv, StrandedAsReported, TakesTurns, [Next]_vars
    PROVE  StrandedAsReported'
<1>0. TypeInv'
  BY NextKeepsTypes
<1>1. CASE \E a \in Reports : BeginLog(a)
  BY <1>0, <1>1, BeginLogStrands
<1>2. CASE \E a \in Reports : \E r \in Runs : Deliver(r, a)
  BY <1>0, <1>2, DeliverStrands
<1>3. CASE \E s \in flight : EndLog(s)
  BY <1>0, <1>3, EndLogStrands
<1>4. CASE (\E x \in known : WindowEnds(x)) \/ Sweep
  BY <1>0, <1>4, SweepStrands
<1>5. CASE \E w \in wakes : Resume(w)
  <2>1. PICK w \in wakes : Resume(w)
    BY <1>5
  <2>2. PICK r \in Runs : StepOf(r) /\ wait' = wait /\ \A b \in Addresses : leaf'[r][b] = "none" <=> leaf[r][b] = "none"
    BY <2>1, ResumeIs
  <2>3. \A k \in Records : wait[r][k] # NoWait => wait[r][k].at \in Addresses \cup {Nowhere}
    BY RunIs DEF Wait
  <2> QED BY <1>0, <2>2, <2>3, StepStrands
<1>6. CASE \E w \in wakes : RowFindsNothing(w)
  <2>1. PICK r \in Runs : StepOf(r) /\ leaf' = leaf /\ wait' = wait
    BY <1>6, RowFindsNothingIs
  <2> QED BY <1>0, <2>1, StepStrands
<1>7. ASSUME NEW r \in Runs, Step(r) PROVE StrandedAsReported'
  <2>0. StepOf(r)
    BY <1>7, StepsStand
  <2>1. CASE Start(r) \/ LosesRun(r) \/ Crash(r) \/ LeaseLapses(r) \/ FailLost(r)
    <3>1. leaf' = leaf /\ wait' = wait
      BY <2>1 DEF Start, LosesRun, Crash, Ends, LeaseLapses, FailLost
    <3> QED BY <1>0, <2>0, <3>1, StepStrands
  <2>2. CASE NeverStarts(r) \/ Drop(r)
    <3>1. \A k \in Records : wait'[r][k] = NoWait
      BY <2>2, NeverStartsIs, DropIs
    <3> QED BY <1>0, <2>0, <3>1, StepStrands
  <2>3. CASE Segment(r)
    BY <1>0, <2>3, SegmentStrands
  <2> QED BY <1>7, <2>1, <2>2, <2>3 DEF Step
<1>8. CASE UNCHANGED vars
  BY <1>8 DEF vars, StrandedAsReported, Parked, NewestGone, On, Logged, Seqs
<1> QED BY <1>1, <1>2, <1>3, <1>4, <1>5, <1>6, <1>7, <1>8 DEF Next, Log

\* Where logs take turns, a parked wait is stranded exactly when the newest
\* report on its record says it is gone, in whatever order the report, the park
\* and the resume come (log_arrivals, park_wait).
THEOREM TurnsStrand ==
    ASSUME TakesTurns
    PROVE  Spec => []StrandedAsReported
<1>1. Init => StrandedAsReported
  BY DEF Init, StrandedAsReported
<1>2. TypeInv /\ ReadInv /\ StrandedAsReported /\ [Next]_vars => StrandedAsReported'
  BY NextKeepsStrands
<1> QED BY <1>1, <1>2, ReadInvAlways, TypeInvAlways, PTL DEF Spec

-----------------------------------------------------------------------------
(* Awaits in turn: no two arms of the movement wait on one record at once. *)

\* Of two awaits on one record, one comes after the other.
InTurn == \A a, b \in Addresses : a # b /\ AwaitOf[a] = AwaitOf[b] => a \in After[b] \/ b \in After[a]

\* A run that has not started has matched nothing.
FreshOf(r) ==
    /\ run[r].status = "none" => run[r].bound = <<>>
    /\ run[r].status \in {"none", "queued"} =>
         run[r].entered = {} /\ \A k \in Records : \A n \in seen[r][k] : ~n.matched
    /\ run[r].status = "queued" => wait[r][Trigger] # NoWait

\* A leaf is at an await not passed, past all that come before it, and has the
\* wait of the record it is on.
LeavesOf(r) ==
    \A a \in Addresses : leaf[r][a] # "none" =>
        /\ a \notin run[r].done /\ After[a] \subseteq run[r].done
        /\ AwaitOf[a] \in run[r].entered
        /\ wait[r][AwaitOf[a]] # NoWait /\ wait[r][AwaitOf[a]].at = a

EnteredOf(r) == run[r].status # "ended" => \A k \in Entered(r) : wait[r][k] # NoWait

\* The awaits a segment has reached.
Reached(r) == job[r].done \cup job[r].parks \cup ({job[r].at} \ {Nowhere})

\* An await the segment may be at.
AtOf(r, a) ==
    /\ a \notin run[r].done /\ After[a] \subseteq run[r].done \cup job[r].done
    /\ AwaitOf[a] \in Entered(r)
    /\ a # job[r].by => leaf[r][a] = "none" /\ (job[r].by # Nowhere => job[r].by \in After[a])

SegmentOf(r) ==
    job[r].on =>
        /\ job[r].by # Nowhere => leaf[r][job[r].by] # "none"
        /\ job[r].by = Nowhere => run[r].status \in {"running", "ended"}
        /\ job[r].at \notin job[r].done \cup job[r].parks /\ job[r].parks \cap job[r].done = {}
        /\ \A a \in Reached(r) : AtOf(r, a)

\* What a segment noted on a record and has not kept: its leaf is parked still,
\* every await there is passed, or is the leaf's or after it, and nothing was
\* noted there since by any other.
NotesOf(r) ==
    \A k \in Records : \A n \in seen[r][k] : n.by # Nowhere =>
        /\ leaf[r][n.by] # "none"
        /\ \A c \in Addresses : AwaitOf[c] = k => c \in run[r].done \/ c = n.by \/ n.by \in After[c]
        /\ \A m \in seen[r][k] : m.by = n.by \/ (m.by = Nowhere /\ m.nth < n.nth)

TurnOf(r) == FreshOf(r) /\ LeavesOf(r) /\ EnteredOf(r) /\ SegmentOf(r) /\ NotesOf(r)

TurnInv == \A r \in Runs : TurnOf(r)

\* Where the segment is, no other leaf of the record is left, nobody else has
\* noted what is not kept, and every other await of the record is passed, or
\* comes after the leaf resumed.
LEMMA AtIs ==
    ASSUME TypeInv, InTurn, NEW r \in Runs, TurnOf(r), job[r].on, NEW a \in Addresses, AtOf(r, a)
    PROVE  /\ \A b \in Addresses : leaf[r][b] # "none" /\ AwaitOf[b] = AwaitOf[a] => b = job[r].by
           /\ \A n \in seen[r][AwaitOf[a]] : n.by \in {Nowhere, job[r].by}
           /\ job[r].by # Nowhere =>
                \A c \in Addresses : AwaitOf[c] = AwaitOf[a] =>
                    c \in run[r].done \/ c = job[r].by \/ job[r].by \in After[c]
<1>1. /\ LeavesOf(r) /\ SegmentOf(r) /\ NotesOf(r) /\ AwaitOf[a] \in Records /\ job[r] \in JobTypes
      /\ run[r].done \subseteq Addresses /\ job[r].done \subseteq Addresses
  BY AwaitsAssumption, RunIs DEF TurnOf, JobTypes, RunTypes
<1>2. \A b \in job[r].done : AtOf(r, b)
  BY <1>1 DEF SegmentOf, Reached
<1>3. ASSUME NEW b \in Addresses, leaf[r][b] # "none", AwaitOf[b] = AwaitOf[a] PROVE b = job[r].by
  <2> SUFFICES ASSUME b # job[r].by PROVE FALSE
    OBVIOUS
  <2>1. b # a
    BY <1>3 DEF AtOf
  <2>2. CASE a \in After[b]
    BY <1>1, <1>3, <2>2 DEF LeavesOf, AtOf
  <2>3. CASE b \in After[a]
    <3>1. b \in job[r].done
      BY <1>1, <1>3, <2>3 DEF LeavesOf, AtOf
    <3> QED BY <1>2, <1>3, <3>1 DEF AtOf
  <2> QED BY <1>3, <2>1, <2>2, <2>3 DEF InTurn
<1>4. ASSUME NEW n \in seen[r][AwaitOf[a]] PROVE n.by \in {Nowhere, job[r].by}
  <2> SUFFICES ASSUME n.by # Nowhere, n.by # job[r].by PROVE FALSE
    OBVIOUS
  <2>0. n.by \in Addresses
    BY <1>1, <1>4, RunIs DEF NotesTypes, Notes
  <2>1. leaf[r][n.by] # "none" /\ (a \in run[r].done \/ a = n.by \/ n.by \in After[a])
    BY <1>1, <1>4 DEF NotesOf
  <2>2. a # n.by /\ n.by \in After[a]
    BY <2>1 DEF AtOf
  <2>3. n.by \in job[r].done
    BY <1>1, <2>0, <2>1, <2>2 DEF AtOf, LeavesOf
  <2> QED BY <1>2, <2>1, <2>3 DEF AtOf
<1>5. ASSUME job[r].by # Nowhere, NEW c \in Addresses, AwaitOf[c] = AwaitOf[a], c \notin run[r].done, c # job[r].by
      PROVE  job[r].by \in After[c]
  <2>1. CASE c = a
    BY <1>5, <2>1 DEF AtOf
  <2>2. CASE a \in After[c]
    <3>1. a = job[r].by \/ job[r].by \in After[a]
      BY <1>5 DEF AtOf
    <3> QED BY <2>2, <3>1, AwaitsAssumption
  <2>3. CASE c \in After[a]
    <3>1. c \in job[r].done
      BY <1>5, <2>3 DEF AtOf
    <3> QED BY <1>2, <1>5, <3>1 DEF AtOf
  <2> QED BY <1>5, <2>1, <2>2, <2>3 DEF InTurn
<1> QED BY <1>3, <1>4, <1>5

\* An await reached is one the segment may be at, and was not yet.
LEMMA ReachesIs ==
    ASSUME TypeInv, NEW r \in Runs, TurnOf(r), NEW a \in Addresses, Reaches(r, a)
    PROVE  AtOf(r, a) /\ a \notin Reached(r) /\ job[r].on /\ job[r].at = Nowhere
<1>1. /\ job[r].on /\ job[r].at = Nowhere /\ a \notin job[r].done \cup job[r].parks
  BY DEF Reaches, Between
<1>2. a \notin Reached(r)
  BY <1>1, NowhereAssumption DEF Reached
<1>3. CASE job[r].by = a
  <2>1. leaf[r][a] # "none"
    BY <1>1, <1>3, NowhereAssumption DEF TurnOf, SegmentOf
  <2> QED BY <1>1, <1>2, <1>3, <2>1 DEF TurnOf, LeavesOf, AtOf, Entered
<1>4. CASE job[r].by # a
  BY <1>1, <1>2, <1>4 DEF Reaches, AtOf
<1> QED BY <1>3, <1>4

\* What the segment notes where it is.
LEMMA NoteKeepsTurn ==
    ASSUME TypeInv, InTurn, NEW r \in Runs, TurnOf(r), job[r].on, NEW a \in Addresses, AtOf(r, a),
           NEW x \in Reports, ~x.gone, NEW matched \in BOOLEAN, seen' = Note(r, AwaitOf[a], x, matched),
           run' = run, leaf' = leaf
    PROVE  NotesOf(r)'
<1> DEFINE k == AwaitOf[a]
<1>1. k \in Records /\ NotesOf(r) /\ SegmentOf(r) /\ seen[r] \in NotesTypes
  BY AwaitsAssumption, RunIs DEF TurnOf
<1>2. CASE Noted(r, k, x)
  <2>1. seen' = seen
    BY <1>2 DEF Note
  <2> QED BY <1>1, <2>1 DEF NotesOf
<1>3. CASE ~Noted(r, k, x)
  <2>1. PICK n \in Notes : /\ seen'[r][k] = seen[r][k] \cup {n} /\ n.by = job[r].by
                           /\ \A m \in seen[r][k] : m.nth < n.nth
    BY <1>1, <1>3, NoteIs
  <2>2. \A q \in Records : q # k => seen'[r][q] = seen[r][q]
    BY <1>1, NoteIs
  <2>3. ASSUME NEW q \in Records, q # k, NEW m \in seen'[r][q], m.by # Nowhere
        PROVE  /\ leaf'[r][m.by] # "none"
               /\ \A c \in Addresses : AwaitOf[c] = q => c \in run'[r].done \/ c = m.by \/ m.by \in After[c]
               /\ \A o \in seen'[r][q] : o.by = m.by \/ (o.by = Nowhere /\ o.nth < m.nth)
    BY <1>1, <2>2, <2>3 DEF NotesOf
  <2>4. \A m \in seen[r][k] : m.by \in {Nowhere, job[r].by}
    BY AtIs
  <2>5. ASSUME NEW m \in seen'[r][k], m.by # Nowhere
        PROVE  /\ leaf'[r][m.by] # "none"
               /\ \A c \in Addresses : AwaitOf[c] = k => c \in run'[r].done \/ c = m.by \/ m.by \in After[c]
               /\ \A o \in seen'[r][k] : o.by = m.by \/ (o.by = Nowhere /\ o.nth < m.nth)
    <3>1. m.by = job[r].by /\ job[r].by # Nowhere
      BY <2>1, <2>4, <2>5
    <3>2. leaf[r][job[r].by] # "none"
      BY <1>1, <3>1 DEF SegmentOf
    <3>3. \A c \in Addresses : AwaitOf[c] = k => c \in run[r].done \/ c = job[r].by \/ job[r].by \in After[c]
      BY <3>1, AtIs
    <3>4. ASSUME NEW o \in seen'[r][k] PROVE o.by = m.by \/ (o.by = Nowhere /\ o.nth < m.nth)
      <4>1. CASE o.by = job[r].by
        BY <3>1, <4>1
      <4>2. CASE o.by # job[r].by
        <5>1. o \in seen[r][k] /\ o.by = Nowhere
          BY <2>1, <2>4, <4>2
        <5>2. CASE m \in seen[r][k]
          BY <1>1, <2>5, <3>1, <4>2, <5>1, <5>2 DEF NotesOf
        <5>3. CASE m = n
          BY <2>1, <5>1, <5>3
        <5> QED BY <2>1, <5>2, <5>3
      <4> QED BY <4>1, <4>2
    <3> QED BY <3>1, <3>2, <3>3, <3>4
  <2> QED BY <2>3, <2>5 DEF NotesOf
<1> QED BY <1>2, <1>3

\* What a log leaves of a run that it does not start.
LEMMA TurnWhileLogged ==
    ASSUME TypeInv, NEW r \in Runs, TurnOf(r),
           run'[r] = run[r], leaf'[r] = leaf[r], seen'[r] = seen[r], job'[r] = job[r],
           \A k \in Records : /\ wait'[r][k] = NoWait <=> wait[r][k] = NoWait
                              /\ wait[r][k] # NoWait => wait'[r][k].at = wait[r][k].at
    PROVE  TurnOf(r)'
<1>1. FreshOf(r)' /\ EnteredOf(r)' /\ NotesOf(r)'
  <2>1. Trigger \in Records
    BY RecordsAssumption
  <2>2. FreshOf(r)' /\ NotesOf(r)'
    BY <2>1 DEF TurnOf, FreshOf, NotesOf
  <2>3. EnteredOf(r)'
    <3>1. Entered(r)' = Entered(r) /\ Entered(r) \subseteq Records
      BY RunIs DEF Entered, RunTypes, JobTypes
    <3> QED BY <3>1 DEF TurnOf, EnteredOf
  <2> QED BY <2>2, <2>3
<1>2. LeavesOf(r)'
  BY AwaitsAssumption DEF TurnOf, LeavesOf
<1>3. SegmentOf(r)'
  BY DEF TurnOf, SegmentOf, Reached, AtOf, Entered
<1> QED BY <1>1, <1>2, <1>3 DEF TurnOf

LEMMA LogTurns ==
    ASSUME TypeInv, TurnInv, Log
    PROVE  TurnInv'
<1>1. CASE (\E a \in Reports : BeginLog(a)) \/ (\E x \in known : WindowEnds(x)) \/ Sweep
  <2>1. UNCHANGED <<run, leaf, wait, seen, job>>
    BY <1>1 DEF BeginLog, WindowEnds, Sweep
  <2> QED BY <2>1, TurnWhileLogged DEF TurnInv
<1>2. ASSUME NEW s \in flight, EndLog(s) PROVE TurnInv'
  <2>1. PICK x \in Reports : /\ WaitsTyped /\ wait' = Strandings(wait, x)
                             /\ UNCHANGED <<run, leaf, seen, job>>
    BY <1>2, SeqsAre DEF EndLog, TypeInv, Typed, LogTyped
  <2>2. ASSUME NEW r \in Runs PROVE TurnOf(r)'
    <3>1. ASSUME NEW k \in Records
          PROVE  /\ wait'[r][k] = NoWait <=> wait[r][k] = NoWait
                 /\ wait[r][k] # NoWait => wait'[r][k].at = wait[r][k].at
      BY <2>1, StrandingsAre
    <3> QED BY <2>1, <3>1, TurnWhileLogged DEF TurnInv
  <2> QED BY <2>2 DEF TurnInv
<1>3. ASSUME NEW a \in Reports, NEW r \in Runs, Deliver(r, a) PROVE TurnInv'
  <2>1. /\ WaitsTyped /\ run[r].status = "none" /\ Trigger \in Records
        /\ run' = [run EXCEPT ![r].status = "queued", ![r].bound = <<Bound(a, Nowhere, TRUE)>>]
        /\ wait' = [Strandings(wait, a) EXCEPT ![r][Trigger] =
                      [since |-> Latest, before |-> Seqs \ flight, at |-> Nowhere, stranded |-> FALSE]]
        /\ seen' = [seen EXCEPT ![r][Trigger] = PreNoted(a)]
        /\ UNCHANGED <<leaf, job>>
    BY <1>3, RecordsAssumption DEF Deliver, TypeInv, Typed
  <2>2. /\ Strandings(wait, a) \in [Runs -> [Records -> Wait \cup {NoWait}]]
        /\ run \in [Runs -> RunTypes] /\ run[r] \in RunTypes /\ seen \in [Runs -> NotesTypes] /\ seen[r] \in NotesTypes
        /\ JobStands(r) /\ WaitStands(r) /\ job[r] \in JobTypes
    BY <2>1, StrandingsTyped, RunIs DEF TypeInv, Typed, RunsTyped, WaitsTyped, NotesTypes
  <2>3. ASSUME NEW q \in Runs, q # r PROVE TurnOf(q)'
    <3>1. run'[q] = run[q] /\ seen'[q] = seen[q] /\ wait'[q] = Strandings(wait, a)[q]
      BY <2>1, <2>2, <2>3
    <3>2. ASSUME NEW k \in Records
          PROVE  /\ wait'[q][k] = NoWait <=> wait[q][k] = NoWait
                 /\ wait[q][k] # NoWait => wait'[q][k].at = wait[q][k].at
      <4>1. Strandings(wait, a)[q][k] = NoWait <=> wait[q][k] = NoWait
        BY <2>1, StrandingsAre
      <4>2. wait[q][k] # NoWait => Strandings(wait, a)[q][k].at = wait[q][k].at
        BY <2>1, StrandingsAre
      <4>3. wait'[q][k] = Strandings(wait, a)[q][k]
        BY <3>1
      <4> QED BY <4>1, <4>2, <4>3
    <3> QED BY <2>1, <3>1, <3>2, TurnWhileLogged DEF TurnInv
  <2>4. TurnOf(r)'
    <3>1. /\ run'[r].status = "queued" /\ run'[r].entered = run[r].entered /\ run'[r].done = run[r].done
          /\ ~job[r].on /\ \A b \in Addresses : leaf[r][b] = "none"
      BY <2>1, <2>2 DEF RunTypes, JobStands, WaitStands
    <3>2. TurnOf(r) /\ run[r].entered = {} /\ \A k \in Records : \A n \in seen[r][k] : ~n.matched
      BY <2>1 DEF TurnInv, TurnOf, FreshOf
    <3>3. \A k \in Records : seen'[r][k] = IF k = Trigger THEN PreNoted(a) ELSE seen[r][k]
      BY <2>1, <2>2 DEF NotesTypes
    <3>4. \A n \in PreNoted(a) : ~n.matched /\ n.by = Nowhere
      BY DEF PreNoted
    <3>5. wait'[r][Trigger] # NoWait
      <4>1. PICK w \in Wait : w = [since |-> Latest, before |-> Seqs \ flight, at |-> Nowhere, stranded |-> FALSE]
        <5>1. Latest \in 0 .. MaxArrivals /\ Seqs \ flight \in SUBSET (1 .. MaxArrivals)
          BY SeqsAre, WaitsBoundsAssumption DEF TypeInv, Typed, LogTyped
        <5> QED BY <5>1 DEF Wait
      <4>2. wait'[r][Trigger] = w
        BY <2>1, <2>2, <4>1
      <4> QED BY <4>2, NoWaitAssumption
    <3>6. job[r].entered = {}
      BY <2>2, <3>1, IdleIs DEF JobStands
    <3>7. FreshOf(r)'
      BY <3>1, <3>2, <3>3, <3>4, <3>5 DEF FreshOf
    <3>8. LeavesOf(r)' /\ SegmentOf(r)'
      BY <2>1, <3>1 DEF LeavesOf, SegmentOf
    <3>9. EnteredOf(r)'
      BY <2>1, <3>1, <3>2, <3>6 DEF EnteredOf, Entered
    <3>10. NotesOf(r)'
      <4>1. ASSUME NEW k \in Records, NEW n \in seen'[r][k] PROVE n.by = Nowhere
        <5>1. CASE n \in seen[r][k]
          <6>1. n.by \in Addresses \cup {Nowhere}
            BY <2>2, <5>1 DEF NotesTypes, Notes
          <6> QED BY <3>1, <3>2, <5>1, <6>1 DEF TurnOf, NotesOf
        <5>2. CASE n \in PreNoted(a)
          BY <3>4, <5>2
        <5> QED BY <3>3, <4>1, <5>1, <5>2
      <4> QED BY <4>1 DEF NotesOf
    <3> QED BY <3>7, <3>8, <3>9, <3>10 DEF TurnOf
  <2> QED BY <2>3, <2>4 DEF TurnInv
<1> QED BY <1>1, <1>2, <1>3 DEF Log

\* A step of a run's process leaves the others' as they are.
LEMMA StepTurns ==
    ASSUME TypeInv, TurnInv, NEW r \in Runs, StepOf(r), TurnOf(r)'
    PROVE  TurnInv'
<1>1. ASSUME NEW q \in Runs, q # r PROVE TurnOf(q)'
  BY <1>1, StepIs, TurnWhileLogged DEF TurnInv
<1> QED BY <1>1 DEF TurnInv

\* What of a segment that goes on is left to be shown.
LEMMA SegmentTurns ==
    ASSUME TypeInv, NEW r \in Runs, TurnOf(r), StepOf(r), job[r].on, run' = run, leaf' = leaf,
           \A k \in Records : wait[r][k] # NoWait => wait'[r][k] # NoWait /\ wait'[r][k].at = wait[r][k].at,
           \A k \in job'[r].entered : k \in job[r].entered \/ wait'[r][k] # NoWait,
           SegmentOf(r)', NotesOf(r)'
    PROVE  TurnOf(r)'
<1>1. run[r].status \in {"running", "parked", "ended"}
  BY RunIs DEF JobStands
<1>2. FreshOf(r)'
  BY <1>1 DEF FreshOf
<1>3. LeavesOf(r)'
  BY AwaitsAssumption DEF TurnOf, LeavesOf
<1>4. EnteredOf(r)'
  <2>1. run[r].entered \subseteq Records /\ job[r].entered \subseteq Records
    BY RunIs DEF RunTypes, JobTypes
  <2>2. run[r].status # "ended" => \A k \in run[r].entered \cup job[r].entered : wait[r][k] # NoWait
    BY DEF TurnOf, EnteredOf, Entered
  <2> QED BY <2>1, <2>2 DEF EnteredOf, Entered
<1> QED BY <1>2, <1>3, <1>4 DEF TurnOf

\* A segment that has reached the same goes on.
LEMMA SameReachTurns ==
    ASSUME NEW r \in Runs, TurnOf(r), run' = run, leaf' = leaf, seen' = seen,
           job'[r].on = job[r].on, job'[r].by = job[r].by, job'[r].at = job[r].at,
           job'[r].done = job[r].done, job'[r].parks = job[r].parks,
           job[r].entered \subseteq job'[r].entered
    PROVE  SegmentOf(r)' /\ NotesOf(r)'
<1>1. NotesOf(r)'
  BY DEF TurnOf, NotesOf
<1>2. SegmentOf(r)'
  BY DEF TurnOf, SegmentOf, Reached, AtOf, Entered
<1> QED BY <1>1, <1>2

LEMMA OpensTurn ==
    ASSUME TypeInv, NEW r \in Runs, TurnOf(r), NEW k \in Records, TakeMark(r, k) \/ Open(r, k)
    PROVE  TurnOf(r)'
<1>0. job[r] \in JobTypes
  BY RunIs
<1>1. CASE TakeMark(r, k)
  <2>1. /\ StepOf(r) /\ job[r].on /\ UNCHANGED <<run, leaf, wait, seen>>
        /\ job'[r] = [job[r] EXCEPT !.marks = [job[r].marks EXCEPT ![k] = MarkNow]]
    BY <1>1, TakeMarkIs
  <2>2. /\ job'[r].on = job[r].on /\ job'[r].by = job[r].by /\ job'[r].at = job[r].at
        /\ job'[r].done = job[r].done /\ job'[r].parks = job[r].parks /\ job'[r].entered = job[r].entered
    <3> DEFINE marks == [job[r].marks EXCEPT ![k] = MarkNow]
    <3>1. job'[r] = [job[r] EXCEPT !.marks = marks]
      BY <2>1
    <3> HIDE DEF marks
    <3> QED BY <1>0, <3>1 DEF JobTypes
  <2> QED BY <2>1, <2>2, SameReachTurns, SegmentTurns
<1>2. CASE Open(r, k)
  <2>1. /\ StepOf(r) /\ job[r].on /\ UNCHANGED <<run, leaf, seen>>
        /\ job'[r] = [job[r] EXCEPT !.entered = @ \cup {k}]
    BY <1>2, OpenIs
  <2>2. ASSUME NEW q \in Records, q # k PROVE wait'[r][q] = wait[r][q]
    <3>1. wait \in [Runs -> [Records -> Wait \cup {NoWait}]]
      BY DEF TypeInv, Typed, WaitsTyped
    <3>2. wait' = [wait EXCEPT ![r][k] = Opened(r, k, job[r].marks[k])]
      BY <1>2 DEF Open
    <3> QED BY <2>2, <3>1, <3>2
  <2>3. wait'[r][k] \in Wait /\ (wait[r][k] # NoWait => wait'[r][k].at = wait[r][k].at)
    <3>1. wait'[r][k] = Opened(r, k, job[r].marks[k]) /\ job[r].marks[k] \in Marks /\ job[r].marks[k] # NoMark
      BY <1>2, OpenIs
    <3> QED BY <3>1, OpenedIs
  <2>4. wait'[r][k] # NoWait
    BY <2>3, NoWaitAssumption
  <2>5. /\ job'[r].on = job[r].on /\ job'[r].by = job[r].by /\ job'[r].at = job[r].at
        /\ job'[r].done = job[r].done /\ job'[r].parks = job[r].parks /\ job'[r].entered = job[r].entered \cup {k}
    BY <1>0, <2>1 DEF JobTypes
  <2>6. SegmentOf(r)' /\ NotesOf(r)'
    BY <2>1, <2>5, SameReachTurns
  <2> QED BY <2>1, <2>2, <2>3, <2>4, <2>5, <2>6, SegmentTurns
<1> QED BY <1>1, <1>2

LEMMA ReachTurns ==
    ASSUME TypeInv, NEW r \in Runs, TurnOf(r), NEW a \in Addresses, Reach(r, a)
    PROVE  TurnOf(r)'
<1>1. /\ StepOf(r) /\ Reaches(r, a) /\ UNCHANGED <<run, leaf, wait, seen>>
      /\ job'[r] = [job[r] EXCEPT !.at = a, !.todo = Unread(r, AwaitOf[a])]
  BY ReachIs
<1>2. AtOf(r, a) /\ a \notin Reached(r) /\ job[r].on /\ job[r].at = Nowhere
  BY <1>1, ReachesIs
<1>3. /\ job'[r].on = job[r].on /\ job'[r].by = job[r].by /\ job'[r].at = a
      /\ job'[r].done = job[r].done /\ job'[r].parks = job[r].parks /\ job'[r].entered = job[r].entered
  BY <1>1, RunIs DEF JobTypes
<1>4. SegmentOf(r)'
  <2>1. SegmentOf(r) /\ Entered(r)' = Entered(r)
    BY <1>1, <1>3 DEF TurnOf, Entered
  <2>2. ASSUME NEW b \in Reached(r)' PROVE AtOf(r, b)'
    <3>1. AtOf(r, b)
      BY <1>2, <1>3, <2>1, <2>2 DEF Reached, SegmentOf
    <3> QED BY <1>1, <1>3, <2>1, <3>1 DEF AtOf
  <2>3. a \notin job[r].done \cup job[r].parks
    BY <1>2 DEF Reached
  <2> QED BY <1>1, <1>3, <2>1, <2>2, <2>3 DEF SegmentOf
<1>5. NotesOf(r)'
  BY <1>1 DEF TurnOf, NotesOf
<1> QED BY <1>1, <1>2, <1>3, <1>4, <1>5, SegmentTurns

\* An await passed, be it bound from a listing or by an arrival judged.
LEMMA PassedTurns ==
    ASSUME TypeInv, NEW r \in Runs, TurnOf(r), StepOf(r), UNCHANGED <<run, leaf, wait>>,
           job[r].on, NEW a \in Addresses, AtOf(r, a), a \notin job[r].done \cup job[r].parks, SameStep(job'[r], job[r]),
           \/ job'[r].done = job[r].done \cup {a} /\ job'[r].at = Nowhere
           \/ job'[r].done = job[r].done /\ job'[r].at = a,
           NotesOf(r)'
    PROVE  TurnOf(r)'
<1>1. SegmentOf(r) /\ Entered(r)' = Entered(r) /\ job[r] \in JobTypes
  BY RunIs DEF TurnOf, SameStep, Entered
<1>2. SegmentOf(r)'
  <2>1. ASSUME NEW b \in Reached(r)' PROVE AtOf(r, b)'
    <3>1. AtOf(r, b)
      BY <1>1, <2>1 DEF Reached, SegmentOf, SameStep
    <3> QED BY <1>1, <3>1 DEF AtOf, SameStep
  <2>2. Nowhere \notin job'[r].done \cup job'[r].parks
    BY <1>1, NowhereAssumption DEF SameStep, JobTypes
  <2> QED BY <1>1, <2>1, <2>2 DEF SegmentOf, SameStep
<1> QED BY <1>2, SegmentTurns DEF SameStep

LEMMA BindListedTurns ==
    ASSUME TypeInv, InTurn, NEW r \in Runs, TurnOf(r), NEW a \in Addresses, NEW s \in Seqs, BindListed(r, a, s)
    PROVE  TurnOf(r)'
<1>1. /\ StepOf(r) /\ Reaches(r, a) /\ UNCHANGED <<run, leaf, wait>>
      /\ reported[s] \in Reports /\ ~reported[s].gone /\ seen' = Note(r, AwaitOf[a], reported[s], TRUE)
      /\ SameStep(job'[r], job[r]) /\ job'[r].at = job[r].at /\ job'[r].done = job[r].done \cup {a}
  <2>1. StepOf(r) /\ Reaches(r, a) /\ UNCHANGED <<run, leaf, wait>>
    BY BindListedIs
  <2>2. reported[s] \in Reports /\ ~reported[s].gone
    BY BindListedIs
  <2>3. seen' = Note(r, AwaitOf[a], reported[s], TRUE)
    BY DEF BindListed
  <2>4. SameStep(job'[r], job[r]) /\ job'[r].at = job[r].at /\ job'[r].done = job[r].done \cup {a}
    BY BindListedIs
  <2> QED BY <2>1, <2>2, <2>3, <2>4
<1>2. AtOf(r, a) /\ a \notin Reached(r) /\ job[r].on /\ job[r].at = Nowhere
  BY <1>1, ReachesIs
<1>3. NotesOf(r)'
  BY <1>1, <1>2, NoteKeepsTurn
<1> QED BY <1>1, <1>2, <1>3, PassedTurns DEF Reached

LEMMA JudgeTurns ==
    ASSUME TypeInv, InTurn, NEW r \in Runs, TurnOf(r),
           \E matched \in BOOLEAN : Judge(r, matched)
    PROVE  TurnOf(r)'
<1>0. PICK s \in job[r].todo, at \in Addresses :
         /\ StepOf(r) /\ UNCHANGED <<run, leaf, wait>> /\ job[r].on /\ at = job[r].at
         /\ s = Min(job[r].todo)
         /\ reported[s] \in Reports /\ ~reported[s].gone
         /\ SameStep(job'[r], job[r])
         /\ \/ job'[r].done = job[r].done \cup {at} /\ job'[r].at = Nowhere
            \/ job'[r].done = job[r].done /\ job'[r].at = at
  <2>1. StepOf(r) /\ UNCHANGED <<run, leaf, wait>> /\ job[r].on /\ SameStep(job'[r], job[r])
    BY ZenonT(60), JudgeIs
  <2>2. PICK s \in job[r].todo : s = Min(job[r].todo) /\ reported[s] \in Reports /\ ~reported[s].gone
    BY ZenonT(60), JudgeIs
  <2>3. job[r].at \in Addresses
    BY ZenonT(60), JudgeIs
  <2>4. \/ job'[r].done = job[r].done \cup {job[r].at} /\ job'[r].at = Nowhere
        \/ job'[r].done = job[r].done /\ job'[r].at = job[r].at
    BY ZenonT(60), JudgeIs
  <2> QED BY <2>1, <2>2, <2>3, <2>4
<1>1. PICK matched \in BOOLEAN : seen' = Note(r, AwaitOf[at], reported[s], matched)
  BY <1>0 DEF Judge
<1>2. at \in Reached(r)
  BY <1>0, NowhereAssumption DEF Reached
<1>3. AtOf(r, at) /\ at \notin job[r].done \cup job[r].parks
  BY <1>0, <1>2 DEF TurnOf, SegmentOf
<1>4. NotesOf(r)'
  BY <1>0, <1>1, <1>3, NoteKeepsTurn
<1> QED BY <1>0, <1>3, <1>4, PassedTurns

LEMMA HoldParkTurns ==
    ASSUME TypeInv, NEW r \in Runs, TurnOf(r), HoldPark(r)
    PROVE  TurnOf(r)'
<1>1. PICK at \in Addresses :
         /\ StepOf(r) /\ UNCHANGED <<run, leaf, wait, seen>> /\ job[r].on /\ at = job[r].at
         /\ job'[r] = [job[r] EXCEPT !.at = Nowhere, !.parks = @ \cup {at}]
  BY HoldParkIs
<1>2. /\ job'[r].on = job[r].on /\ job'[r].by = job[r].by /\ job'[r].at = Nowhere
      /\ job'[r].done = job[r].done /\ job'[r].parks = job[r].parks \cup {at} /\ job'[r].entered = job[r].entered
      /\ job[r] \in JobTypes
  <2>1. job[r] \in JobTypes /\ job'[r] = [job[r] EXCEPT !.at = Nowhere, !.parks = @ \cup {at}]
    BY <1>1, RunIs
  <2> QED BY <2>1 DEF JobTypes
<1>3. SegmentOf(r)'
  <2>1. SegmentOf(r) /\ Entered(r)' = Entered(r)
    BY <1>1, <1>2 DEF TurnOf, Entered
  <2>2. Reached(r)' = Reached(r)
    BY <1>1, <1>2, NowhereAssumption DEF Reached
  <2>3. ASSUME NEW b \in Reached(r) PROVE AtOf(r, b)'
    BY <1>1, <1>2, <2>1, <2>3 DEF AtOf, SegmentOf
  <2>4. at \notin job[r].done /\ job[r].parks \cap job[r].done = {}
    BY <1>1, <2>1 DEF SegmentOf
  <2>5. Nowhere \notin job'[r].done \cup job'[r].parks
    BY <1>2, NowhereAssumption DEF JobTypes
  <2> QED BY <1>1, <1>2, <2>1, <2>2, <2>3, <2>4, <2>5 DEF SegmentOf
<1>4. NotesOf(r)'
  BY <1>1 DEF TurnOf, NotesOf
<1> QED BY <1>1, <1>2, <1>3, <1>4, SegmentTurns

\* The leaves a commit leaves are those it parks, and those it did not resume.
LEMMA LeavesKept ==
    ASSUME TypeInv, InTurn, NEW r \in Runs, TurnOf(r), NEW order \in SetToSeqs(job[r].parks), Commit(r, order),
           run'[r].status # "ended", NEW a \in Addresses, leaf'[r][a] # "none"
    PROVE  /\ a \notin run'[r].done /\ After[a] \subseteq run'[r].done /\ AwaitOf[a] \in run'[r].entered
           /\ wait[r][AwaitOf[a]] # NoWait /\ wait'[r][AwaitOf[a]] # NoWait /\ wait'[r][AwaitOf[a]].at = a
           /\ \/ a \in job[r].parks
              \/ /\ a # job[r].by /\ leaf[r][a] # "none"
                 /\ \A b \in job[r].parks : AwaitOf[b] # AwaitOf[a]
<1>1. /\ job[r].on /\ LeavesOf(r) /\ EnteredOf(r) /\ SegmentOf(r) /\ AwaitOf[a] \in Records
      /\ job[r].parks \subseteq Addresses /\ job[r].done \subseteq Addresses
      /\ run[r].status \in {"running", "parked"}
  <2>1. job[r].on /\ Between(r) /\ LeavesOf(r) /\ EnteredOf(r) /\ SegmentOf(r) /\ AwaitOf[a] \in Records
    BY CommitIs, AwaitsAssumption DEF TurnOf, Between
  <2> QED BY <2>1, UnderWay, RunIs DEF JobTypes
<1>2. /\ run'[r].entered = Entered(r) /\ run'[r].done = run[r].done \cup job[r].done
      /\ leaf'[r][a] = LeavesAfter(r)[a]
  BY CommitRunIs DEF Entered
<1>3. wait'[r] = ParkedWaits(r, order)
  BY CommitIs
<1>4. \A b \in job[r].done \cup job[r].parks : AtOf(r, b)
  BY <1>1 DEF SegmentOf, Reached
<1>5. CASE a \in job[r].parks
  <2>1. AtOf(r, a) /\ a \notin job[r].done
    BY <1>1, <1>4, <1>5 DEF SegmentOf
  <2>2. a \notin run'[r].done /\ After[a] \subseteq run'[r].done /\ AwaitOf[a] \in run'[r].entered
    BY <1>2, <2>1 DEF AtOf
  <2>3. wait[r][AwaitOf[a]] # NoWait
    BY <1>1, <1>2, <2>2 DEF EnteredOf
  <2>4. PICK b \in job[r].parks : wait'[r][AwaitOf[a]].at = b /\ AwaitOf[b] = AwaitOf[a]
    BY <1>1, <1>3, <1>5, <2>3, ParkedWaitsAre
  <2>5. b = a
    <3> SUFFICES ASSUME b # a PROVE FALSE
      OBVIOUS
    <3>1. AtOf(r, b) /\ b \in Addresses /\ b \notin job[r].done
      BY <1>1, <1>4 DEF SegmentOf
    <3>2. CASE a \in After[b]
      BY <2>1, <3>1, <3>2 DEF AtOf
    <3>3. CASE b \in After[a]
      BY <2>1, <3>1, <3>3 DEF AtOf
    <3> QED BY <2>4, <3>1, <3>2, <3>3 DEF InTurn
  <2>6. wait'[r][AwaitOf[a]] # NoWait
    BY <1>1, <1>3, <2>3, ParkedWaitsAre
  <2>7. wait'[r][AwaitOf[a]].at = a
    BY <2>4, <2>5
  <2> QED BY <1>5, <2>2, <2>3, <2>6, <2>7
<1>6. CASE a \notin job[r].parks
  <2>1. a # job[r].by /\ leaf[r][a] # "none"
    BY <1>2, <1>6 DEF LeavesAfter
  <2>2. /\ a \notin run[r].done /\ After[a] \subseteq run[r].done /\ AwaitOf[a] \in run[r].entered
        /\ wait[r][AwaitOf[a]] # NoWait /\ wait[r][AwaitOf[a]].at = a
    BY <1>1, <2>1 DEF LeavesOf
  <2>3. a \notin job[r].done
    BY <1>4, <2>1 DEF AtOf
  <2>4. ASSUME NEW b \in job[r].parks, AwaitOf[b] = AwaitOf[a] PROVE FALSE
    <3>1. AtOf(r, b) /\ b \in Addresses
      BY <1>1, <1>4
    <3> QED BY <1>1, <2>1, <2>4, <3>1, AtIs
  <2>5. wait'[r][AwaitOf[a]] = wait[r][AwaitOf[a]]
    BY <1>1, <1>3, <2>4, ParkedWaitsAre
  <2> QED BY <1>2, <1>6, <2>1, <2>2, <2>3, <2>4, <2>5 DEF Entered
<1> QED BY <1>5, <1>6

\* The notes a commit keeps are as they were, but for who made them.
LEMMA NotesKept ==
    ASSUME TypeInv, NEW r \in Runs, NEW order \in SetToSeqs(job[r].parks), Commit(r, order),
           NEW k \in Records
    PROVE  /\ \A n \in seen[r][k] : \E m \in seen'[r][k] :
                /\ m.id = n.id /\ m.ver = n.ver /\ m.matched = n.matched /\ m.nth = n.nth
                /\ m.by = IF n.by \in {job[r].by} \cup job[r].parks THEN Nowhere ELSE n.by
           /\ \A m \in seen'[r][k] : \E n \in seen[r][k] :
                /\ m.id = n.id /\ m.ver = n.ver /\ m.matched = n.matched /\ m.nth = n.nth
                /\ m.by = IF n.by \in {job[r].by} \cup job[r].parks THEN Nowhere ELSE n.by
<1>1. seen'[r][k] = Kept(r)[k]
  BY CommitIs
<1> QED BY <1>1, KeptIs

LEMMA CommitTurns ==
    ASSUME TypeInv, InTurn, NEW r \in Runs, TurnOf(r), NEW order \in SetToSeqs(job[r].parks), Commit(r, order)
    PROVE  TurnOf(r)'
<1>1. /\ job[r].on /\ EnteredOf(r) /\ NotesOf(r) /\ run[r].status \in {"running", "parked"}
      /\ job'[r] = (IF run'[r].status = "ended" THEN Ending(job[r].row) ELSE Idle) /\ job[r].row \in Rows \cup {NoRow}
      /\ run'[r].status \in {"ended", "parked"}
      /\ run'[r].entered = Entered(r) /\ run'[r].done = run[r].done \cup job[r].done
      /\ \A a \in Addresses : leaf'[r][a] = LeavesAfter(r)[a]
  <2>1. Between(r) /\ job[r].on /\ EnteredOf(r) /\ NotesOf(r)
    BY CommitIs DEF TurnOf, Between
  <2>2. run[r].status \in {"running", "parked"}
    BY <2>1, UnderWay
  <2>3. job'[r] = (IF run'[r].status = "ended" THEN Ending(job[r].row) ELSE Idle) /\ job[r].row \in Rows \cup {NoRow}
    BY CommitIs, RunIs DEF JobTypes
  <2>4. /\ run'[r].status \in {"ended", "parked"}
        /\ run'[r].entered = Entered(r) /\ run'[r].done = run[r].done \cup job[r].done
        /\ \A a \in Addresses : leaf'[r][a] = LeavesAfter(r)[a]
    BY CommitRunIs DEF Entered
  <2> QED BY <2>1, <2>2, <2>3, <2>4
<1>2. FreshOf(r)'
  BY <1>1 DEF FreshOf
<1>5. NotesOf(r)'
  <2>1. ASSUME NEW k \in Records, NEW n \in seen'[r][k], n.by # Nowhere
        PROVE  /\ leaf'[r][n.by] # "none"
               /\ \A c \in Addresses : AwaitOf[c] = k => c \in run'[r].done \/ c = n.by \/ n.by \in After[c]
               /\ \A m \in seen'[r][k] : m.by = n.by \/ (m.by = Nowhere /\ m.nth < n.nth)
    <3>1. PICK x \in seen[r][k] : n.by = x.by /\ n.nth = x.nth /\ x.by \notin {job[r].by} \cup job[r].parks
      BY <2>1, NotesKept
    <3>2. /\ x.by \in Addresses /\ leaf[r][x.by] # "none"
          /\ \A c \in Addresses : AwaitOf[c] = k => c \in run[r].done \/ c = x.by \/ x.by \in After[c]
          /\ \A m \in seen[r][k] : m.by = x.by \/ (m.by = Nowhere /\ m.nth < x.nth)
      BY <1>1, <2>1, <3>1, RunIs DEF NotesOf, NotesTypes, Notes
    <3>3. leaf'[r][n.by] # "none"
      BY <1>1, <3>1, <3>2 DEF LeavesAfter
    <3>4. ASSUME NEW m \in seen'[r][k] PROVE m.by = n.by \/ (m.by = Nowhere /\ m.nth < n.nth)
      <4>1. PICK y \in seen[r][k] :
               m.nth = y.nth /\ m.by = IF y.by \in {job[r].by} \cup job[r].parks THEN Nowhere ELSE y.by
        BY NotesKept
      <4>2. y.by = x.by \/ (y.by = Nowhere /\ y.nth < x.nth)
        BY <3>2
      <4> QED BY <3>1, <4>1, <4>2
    <3> QED BY <1>1, <3>1, <3>2, <3>3, <3>4
  <2> QED BY <2>1 DEF NotesOf
<1>3. CASE run'[r].status = "ended"
  <2>1. \A a \in Addresses : leaf'[r][a] = "none"
    BY <1>3, CommitRunIs
  <2>2. /\ job'[r].on /\ job'[r].by = Nowhere /\ job'[r].at = Nowhere /\ job'[r].done = {} /\ job'[r].parks = {}
    BY <1>1, <1>3, EndingIs
  <2>3. SegmentOf(r)'
    BY <1>3, <2>2 DEF SegmentOf, Reached
  <2> QED BY <1>2, <1>3, <1>5, <2>1, <2>3 DEF TurnOf, LeavesOf, EnteredOf
<1>4. CASE run'[r].status # "ended"
  <2>3. ~job'[r].on /\ job'[r].entered = {}
    BY <1>1, <1>4, IdleIs
  <2>1. LeavesOf(r)'
    BY <1>4, LeavesKept DEF LeavesOf
  <2>2. EnteredOf(r)'
    <3>1. ASSUME NEW k \in Entered(r) PROVE wait'[r][k] # NoWait
      <4>1. k \in Records
        BY RunIs DEF Entered, RunTypes, JobTypes
      <4>2. wait[r][k] # NoWait
        BY <1>1 DEF EnteredOf
      <4> QED BY <1>4, <4>1, <4>2, CommitIs, ParkedWaitsAre
    <3> QED BY <1>1, <2>3, <3>1 DEF EnteredOf, Entered
  <2>4. SegmentOf(r)'
    BY <2>3 DEF SegmentOf
  <2> QED BY <1>2, <1>5, <2>1, <2>2, <2>4 DEF TurnOf
<1> QED BY <1>3, <1>4

LEMMA StartTurns ==
    ASSUME TypeInv, NEW r \in Runs, TurnOf(r), Start(r)
    PROVE  TurnOf(r)'
<1>1. /\ run[r].status \in {"none", "queued"} /\ UNCHANGED <<leaf, wait, seen>> /\ WaitStands(r)
      /\ run'[r].status = "running" /\ run'[r].entered = run[r].entered /\ run'[r].done = run[r].done
  <2>1. run'[r].status = "running" /\ run'[r].entered = run[r].entered /\ run'[r].done = run[r].done
    BY StartIs
  <2> QED BY <2>1, RunIs DEF Start
<1>2. /\ job'[r].on /\ job'[r].by = Nowhere /\ job'[r].at = Nowhere /\ job'[r].done = {} /\ job'[r].parks = {}
      /\ job'[r].entered = IF run[r].status = "queued" THEN {Trigger} ELSE {}
  <2> DEFINE entered == IF run[r].status = "queued" THEN {Trigger} ELSE {}
  <2>1. entered \in SUBSET Records /\ Nowhere \in Addresses \cup {Nowhere} /\ NoRow \in Rows \cup {NoRow}
    BY RecordsAssumption
  <2>2. job'[r] = JobOf(Nowhere, entered, NoRow)
    BY StartIs
  <2> HIDE DEF entered
  <2>3. /\ job'[r].on /\ job'[r].by = Nowhere /\ job'[r].at = Nowhere /\ job'[r].done = {} /\ job'[r].parks = {}
        /\ job'[r].entered = entered
    BY <2>2 DEF JobOf, Idle
  <2> QED BY <2>3 DEF entered
<1>3. \A b \in Addresses : leaf[r][b] = "none"
  BY <1>1 DEF WaitStands
<1>4. FreshOf(r)' /\ LeavesOf(r)'
  BY <1>1, <1>3 DEF FreshOf, LeavesOf
<1>5. EnteredOf(r)'
  BY <1>1, <1>2 DEF TurnOf, FreshOf, EnteredOf, Entered
<1>6. SegmentOf(r)'
  BY <1>1, <1>2 DEF SegmentOf, Reached
<1>7. NotesOf(r)'
  <2>1. ASSUME NEW k \in Records, NEW n \in seen[r][k] PROVE n.by = Nowhere
    <3>1. n.by \in Addresses \cup {Nowhere}
      BY <2>1, RunIs DEF NotesTypes, Notes
    <3> QED BY <1>3, <2>1, <3>1 DEF TurnOf, NotesOf
  <2> QED BY <1>1, <2>1 DEF NotesOf
<1> QED BY <1>4, <1>5, <1>6, <1>7 DEF TurnOf

LEMMA EndedTurns ==
    ASSUME TypeInv, NEW r \in Runs, TurnOf(r), NeverStarts(r) \/ Drop(r)
    PROVE  TurnOf(r)'
<1>1. /\ run'[r].status = "ended" /\ leaf' = leaf /\ ~job'[r].on /\ run[r].status # "parked"
      /\ \A k \in Records : wait'[r][k] = NoWait /\ seen'[r][k] = {}
  <2>1. CASE NeverStarts(r)
    BY <2>1, NeverStartsIs
  <2>2. CASE Drop(r)
    <3>1. /\ run[r] \in RunTypes /\ run'[r] = [run[r] EXCEPT !.lease = "free"] /\ run[r].status = "ended"
          /\ leaf' = leaf /\ job'[r] = Idle /\ \A k \in Records : wait'[r][k] = NoWait /\ seen'[r][k] = {}
      BY <2>2, DropIs, RunIs
    <3>2. run'[r].status = run[r].status
      BY <3>1 DEF RunTypes
    <3> QED BY <3>1, <3>2, IdleIs
  <2> QED BY <2>1, <2>2
<1>2. \A b \in Addresses : leaf[r][b] = "none"
  BY <1>1, RunIs DEF WaitStands
<1> QED BY <1>1, <1>2 DEF TurnOf, FreshOf, LeavesOf, EnteredOf, SegmentOf, NotesOf

LEMMA FailLostTurns ==
    ASSUME TypeInv, NEW r \in Runs, TurnOf(r), FailLost(r)
    PROVE  TurnOf(r)'
<1>1. /\ run'[r].status = "ended" /\ run[r].status = "running" /\ UNCHANGED <<leaf, wait, seen>>
      /\ job'[r] = Ending(NoRow) /\ run'[r].done = run[r].done
  BY FailLostIs
<1>2. \A b \in Addresses : leaf[r][b] = "none"
  BY <1>1, RunIs DEF WaitStands
<1>3. /\ job'[r].on /\ job'[r].by = Nowhere /\ job'[r].at = Nowhere /\ job'[r].done = {} /\ job'[r].parks = {}
  BY <1>1, EndingIs
<1>4. SegmentOf(r)'
  BY <1>1, <1>3 DEF SegmentOf, Reached
<1>5. FreshOf(r)' /\ LeavesOf(r)' /\ EnteredOf(r)' /\ NotesOf(r)'
  BY <1>1, <1>2 DEF TurnOf, FreshOf, LeavesOf, EnteredOf, NotesOf
<1> QED BY <1>4, <1>5 DEF TurnOf

LEMMA ResumeTurns ==
    ASSUME TypeInv, TurnInv, NEW w \in wakes, Resume(w)
    PROVE  TurnInv'
<1>1. PICK r \in Runs, a \in Addresses :
           /\ w = <<r, AwaitOf[a], a>> /\ StepOf(r)
           /\ run[r].status = "parked" /\ leaf[r][a] # "none" /\ ~job[r].on
           /\ wait' = wait
           /\ run'[r].status = "parked"
           /\ run'[r].entered = run[r].entered /\ run'[r].done = run[r].done
           /\ \A b \in Addresses : leaf'[r][b] = "none" <=> leaf[r][b] = "none"
           /\ \A k \in Records : seen'[r][k] = {n \in seen[r][k] : n.by # a}
           /\ job'[r] = JobOf(a, {}, w)
  BY ResumeIs
<1>2. /\ job'[r].on /\ job'[r].by = a /\ job'[r].at = Nowhere /\ job'[r].done = {} /\ job'[r].parks = {}
      /\ job'[r].entered = {}
  <2>1. job'[r] = JobOf(a, {}, w)
    BY <1>1
  <2> QED BY <2>1 DEF JobOf, Idle
<1>3. TurnOf(r) /\ Nowhere \notin Addresses
  BY NowhereAssumption DEF TurnInv
<1>4. FreshOf(r)' /\ SegmentOf(r)'
  BY <1>1, <1>2, <1>3 DEF FreshOf, SegmentOf, Reached
<1>5. LeavesOf(r)'
  BY <1>1, <1>3 DEF TurnOf, LeavesOf
<1>6. EnteredOf(r)'
  BY <1>1, <1>2, <1>3 DEF TurnOf, EnteredOf, Entered
<1>7. NotesOf(r)'
  <2>1. ASSUME NEW k \in Records, NEW n \in seen'[r][k], n.by # Nowhere
        PROVE  /\ leaf'[r][n.by] # "none"
               /\ \A c \in Addresses : AwaitOf[c] = k => c \in run'[r].done \/ c = n.by \/ n.by \in After[c]
               /\ \A m \in seen'[r][k] : m.by = n.by \/ (m.by = Nowhere /\ m.nth < n.nth)
    <3>1. n \in seen[r][k] /\ \A m \in seen'[r][k] : m \in seen[r][k]
      BY <1>1, <2>1
    <3>2. n.by \in Addresses
      BY <2>1, <3>1, RunIs DEF NotesTypes, Notes
    <3> QED BY <1>1, <1>3, <2>1, <3>1, <3>2 DEF TurnOf, NotesOf
  <2> QED BY <2>1 DEF NotesOf
<1>8. TurnOf(r)'
  BY <1>4, <1>5, <1>6, <1>7 DEF TurnOf
<1> QED BY <1>1, <1>8, StepTurns

LEMMA EndsTurns ==
    ASSUME TypeInv, NEW r \in Runs, TurnOf(r), LosesRun(r) \/ Crash(r)
    PROVE  TurnOf(r)'
<1>1. UNCHANGED <<run, leaf, wait, seen>> /\ job'[r] = Idle
  BY EndsIs
<1>2. ~job'[r].on /\ job'[r].entered = {}
  BY <1>1, IdleIs
<1> QED BY <1>1, <1>2 DEF TurnOf, FreshOf, LeavesOf, EnteredOf, Entered, SegmentOf, NotesOf

LEMMA LeaseLapsesTurns ==
    ASSUME TypeInv, NEW r \in Runs, TurnOf(r), LeaseLapses(r)
    PROVE  TurnOf(r)'
<1>1. UNCHANGED <<leaf, wait, seen, job>> /\ run'[r] = [run[r] EXCEPT !.lease = "lapsed"]
  BY LeaseLapsesIs
<1>2. /\ run'[r].status = run[r].status /\ run'[r].bound = run[r].bound
      /\ run'[r].entered = run[r].entered /\ run'[r].done = run[r].done
  BY <1>1, RunIs DEF RunTypes
<1> QED BY <1>1, <1>2 DEF TurnOf, FreshOf, LeavesOf, EnteredOf, Entered, SegmentOf, Reached, AtOf, NotesOf

LEMMA SegmentKeepsTurns ==
    ASSUME TypeInv, InTurn, NEW r \in Runs, TurnOf(r), Segment(r)
    PROVE  TurnOf(r)'
<1>1. CASE \E k \in Records : TakeMark(r, k) \/ Open(r, k)
  BY <1>1, OpensTurn
<1>2. CASE \E a \in Addresses : Reach(r, a)
  BY <1>2, ReachTurns
<1>3. CASE \E a \in Addresses : \E s \in Seqs : BindListed(r, a, s)
  BY <1>3, BindListedTurns
<1>4. CASE \E matched \in BOOLEAN : Judge(r, matched)
  BY <1>4, JudgeTurns
<1>5. CASE HoldPark(r)
  BY <1>5, HoldParkTurns
<1>6. CASE \E order \in SetToSeqs(job[r].parks) : Commit(r, order)
  BY <1>6, CommitTurns
<1> QED BY <1>1, <1>2, <1>3, <1>4, <1>5, <1>6 DEF Segment

LEMMA NextKeepsTurns ==
    ASSUME TypeInv, InTurn, TurnInv, [Next]_vars
    PROVE  TurnInv'
<1>1. CASE Log
  BY <1>1, LogTurns
<1>2. CASE \E w \in wakes : Resume(w)
  BY <1>2, ResumeTurns
<1>3. CASE (\E w \in wakes : RowFindsNothing(w)) \/ UNCHANGED vars
  <2>1. UNCHANGED <<run, leaf, wait, seen, job>>
    BY <1>3 DEF RowFindsNothing, vars
  <2> QED BY <2>1, TurnWhileLogged DEF TurnInv
<1>4. ASSUME NEW r \in Runs, Step(r) PROVE TurnInv'
  <2>1. StepOf(r) /\ TurnOf(r)
    BY <1>4, StepsStand DEF TurnInv
  <2>2. TurnOf(r)'
    BY <1>4, <2>1, StartTurns, EndedTurns, FailLostTurns, EndsTurns, LeaseLapsesTurns, SegmentKeepsTurns DEF Step
  <2> QED BY <2>1, <2>2, StepTurns
<1> QED BY <1>1, <1>2, <1>3, <1>4 DEF Next

LEMMA InitTurns == Init => TurnInv
<1> SUFFICES ASSUME Init, NEW r \in Runs PROVE TurnOf(r)
  BY DEF TurnInv
<1>1. /\ run[r].status = "none" /\ run[r].bound = <<>> /\ run[r].entered = {} /\ job[r] = Idle
      /\ \A k \in Records : seen[r][k] = {}
      /\ \A a \in Addresses : leaf[r][a] = "none"
  BY DEF Init
<1>2. ~job[r].on /\ job[r].entered = {}
  BY <1>1, IdleIs
<1> QED BY <1>1, <1>2 DEF TurnOf, FreshOf, LeavesOf, EnteredOf, Entered, SegmentOf, NotesOf

LEMMA TurnInvAlways ==
    ASSUME InTurn
    PROVE  Spec => []TurnInv
<1>1. Init => TurnInv
  BY InitTurns
<1>2. TypeInv /\ TurnInv /\ [Next]_vars => TurnInv'
  BY NextKeepsTurns
<1> QED BY <1>1, <1>2, TypeInvAlways, PTL DEF Spec

-----------------------------------------------------------------------------
(* What a run binds, once. *)

Repeats(x, y) == x.rec = y.rec /\ SameVersion(x, y)

\* A later binding of one version is one listed.
Listed(bound) == \A i, j \in DOMAIN bound : i < j /\ Repeats(bound[i], bound[j]) => bound[j].listed

\* What a run bound is noted, of its progress for good, of its segment until it
\* dies.
BoundOf(r) ==
    run[r].status \in {"queued", "running", "parked"} =>
        /\ \A i \in DOMAIN run[r].bound : \E n \in seen[r][run[r].bound[i].rec] :
              SameVersion(n, run[r].bound[i]) /\ n.by = Nowhere
        /\ \A i \in DOMAIN job[r].bound : \E n \in seen[r][job[r].bound[i].rec] :
              SameVersion(n, job[r].bound[i]) /\ n.by \in {Nowhere, job[r].by}

\* Neither the progress nor the segment binds a version again, unless listed.
OnceOf(r) ==
    /\ Listed(run[r].bound) /\ Listed(job[r].bound)
    /\ \A i \in DOMAIN run[r].bound : \A j \in DOMAIN job[r].bound :
          Repeats(run[r].bound[i], job[r].bound[j]) => job[r].bound[j].listed

BoundInv == \A r \in Runs : BoundOf(r) /\ OnceOf(r)

LEMMA BindingIs ==
    ASSUME NEW s \in Seq(Bounds), NEW i \in DOMAIN s
    PROVE  s[i] \in Bounds /\ s[i].rec \in Records
<1>1. s[i] \in Bounds
  OBVIOUS
<1> QED BY <1>1 DEF Bounds

LEMMA AppendListed ==
    ASSUME NEW s \in Seq(Bounds), NEW x \in Bounds, Listed(s), \A i \in DOMAIN s : Repeats(s[i], x) => x.listed
    PROVE  Listed(Append(s, x))
<1>1. /\ DOMAIN Append(s, x) = 1 .. Len(s) + 1 /\ DOMAIN s = 1 .. Len(s) /\ Len(s) \in Nat
      /\ \A i \in 1 .. Len(s) : Append(s, x)[i] = s[i]
      /\ Append(s, x)[Len(s) + 1] = x
  OBVIOUS
<1>2. ASSUME NEW i \in 1 .. Len(s) + 1, NEW j \in 1 .. Len(s) + 1, i < j, Repeats(Append(s, x)[i], Append(s, x)[j])
      PROVE  Append(s, x)[j].listed
  <2>1. i \in 1 .. Len(s) /\ Append(s, x)[i] = s[i]
    BY <1>1, <1>2
  <2>2. CASE j \in 1 .. Len(s)
    <3>1. Append(s, x)[j] = s[j]
      BY <1>1, <2>2
    <3> QED BY <1>1, <1>2, <2>1, <2>2, <3>1 DEF Listed
  <2>3. CASE j = Len(s) + 1
    <3>1. Append(s, x)[j] = x
      BY <1>1, <2>3
    <3>2. Repeats(s[i], x)
      BY <1>2, <2>1, <3>1
    <3> QED BY <1>1, <2>1, <3>1, <3>2
  <2> QED BY <1>1, <2>2, <2>3
<1> QED BY <1>1, <1>2 DEF Listed

LEMMA ConcatListed ==
    ASSUME NEW s \in Seq(Bounds), NEW t \in Seq(Bounds), Listed(s), Listed(t),
           \A i \in DOMAIN s : \A j \in DOMAIN t : Repeats(s[i], t[j]) => t[j].listed
    PROVE  Listed(s \o t)
<1>1. /\ DOMAIN (s \o t) = 1 .. Len(s) + Len(t) /\ DOMAIN s = 1 .. Len(s) /\ DOMAIN t = 1 .. Len(t)
      /\ Len(s) \in Nat /\ Len(t) \in Nat
      /\ \A i \in 1 .. Len(s) : (s \o t)[i] = s[i]
      /\ \A i \in Len(s) + 1 .. Len(s) + Len(t) : (s \o t)[i] = t[i - Len(s)]
  OBVIOUS
<1>2. ASSUME NEW i \in 1 .. Len(s) + Len(t), NEW j \in 1 .. Len(s) + Len(t), i < j,
             Repeats((s \o t)[i], (s \o t)[j])
      PROVE  (s \o t)[j].listed
  <2>1. CASE j \in 1 .. Len(s)
    <3>1. i \in 1 .. Len(s) /\ (s \o t)[i] = s[i] /\ (s \o t)[j] = s[j]
      BY <1>1, <1>2, <2>1
    <3> QED BY <1>1, <1>2, <2>1, <3>1 DEF Listed
  <2>2. CASE j \in Len(s) + 1 .. Len(s) + Len(t)
    <3>1. PICK q \in 1 .. Len(t) : q = j - Len(s) /\ (s \o t)[j] = t[q]
      BY <1>1, <2>2
    <3>2. CASE i \in 1 .. Len(s)
      <4>1. (s \o t)[i] = s[i]
        BY <1>1, <3>2
      <4> QED BY <1>1, <1>2, <3>1, <3>2, <4>1
    <3>3. CASE i \in Len(s) + 1 .. Len(s) + Len(t)
      <4>1. PICK p \in 1 .. Len(t) : p = i - Len(s) /\ (s \o t)[i] = t[p]
        BY <1>1, <3>3
      <4>2. p < q
        BY <1>1, <1>2, <3>1, <4>1
      <4> QED BY <1>1, <1>2, <3>1, <4>1, <4>2 DEF Listed
    <3> QED BY <1>1, <1>2, <3>2, <3>3
  <2> QED BY <1>1, <1>2, <2>1, <2>2
<1> QED BY <1>1, <1>2 DEF Listed

\* A step that binds nothing more keeps what is bound noted: of the progress
\* always, of the segment while it lasts.
LEMMA BoundKept ==
    ASSUME TypeInv, NEW r \in Runs, BoundOf(r), OnceOf(r),
           run'[r].bound = run[r].bound,
           \/ run'[r].status = "ended"
           \/ /\ run[r].status \in {"queued", "running", "parked"} \/ run[r].bound = <<>>
              /\ \A k \in Records : \A n \in seen[r][k] : n.by = Nowhere => n \in seen'[r][k],
           \/ job'[r].bound = <<>>
           \/ /\ job'[r].bound = job[r].bound /\ job'[r].by = job[r].by
              /\ run'[r].status # "ended" => run[r].status \in {"queued", "running", "parked"}
              /\ \A k \in Records : \A n \in seen[r][k] : n \in seen'[r][k] \/ run'[r].status = "ended"
    PROVE  BoundOf(r)' /\ OnceOf(r)'
<1>1. run[r].bound \in Seq(Bounds) /\ job[r].bound \in Seq(Bounds)
  BY RunIs DEF RunTypes, JobTypes
<1>2. /\ \A i \in DOMAIN run[r].bound : run[r].bound[i].rec \in Records
      /\ \A i \in DOMAIN job[r].bound : job[r].bound[i].rec \in Records
  BY <1>1, BindingIs
<1>3. DOMAIN <<>> = {}
  OBVIOUS
<1>4. OnceOf(r)'
  <2>1. CASE job'[r].bound = <<>>
    BY <1>3, <2>1 DEF OnceOf, Listed
  <2>2. CASE job'[r].bound = job[r].bound
    BY <2>2 DEF OnceOf
  <2> QED BY <2>1, <2>2
<1>5. ASSUME run'[r].status # "ended", NEW i \in DOMAIN run'[r].bound
      PROVE  \E n \in seen'[r][run'[r].bound[i].rec] : SameVersion(n, run'[r].bound[i]) /\ n.by = Nowhere
  <2>1. run[r].status \in {"queued", "running", "parked"}
    BY <1>3, <1>5
  <2>2. PICK n \in seen[r][run[r].bound[i].rec] : SameVersion(n, run[r].bound[i]) /\ n.by = Nowhere
    BY <1>5, <2>1 DEF BoundOf
  <2> QED BY <1>2, <1>5, <2>2
<1>6. ASSUME run'[r].status # "ended", NEW i \in DOMAIN job'[r].bound
      PROVE  \E n \in seen'[r][job'[r].bound[i].rec] :
                SameVersion(n, job'[r].bound[i]) /\ n.by \in {Nowhere, job'[r].by}
  <2>1. /\ run[r].status \in {"queued", "running", "parked"}
        /\ job'[r].bound = job[r].bound /\ job'[r].by = job[r].by
        /\ \A k \in Records : \A n \in seen[r][k] : n \in seen'[r][k]
    BY <1>3, <1>6
  <2>2. PICK n \in seen[r][job[r].bound[i].rec] : SameVersion(n, job[r].bound[i]) /\ n.by \in {Nowhere, job[r].by}
    BY <1>6, <2>1 DEF BoundOf
  <2> QED BY <1>2, <1>6, <2>1, <2>2
<1> QED BY <1>4, <1>5, <1>6 DEF BoundOf

\* Where a segment binds what it notes, unless it was noted already: a version
\* noted is bound again only off a listing.
LEMMA NotedBound ==
    ASSUME TypeInv, InTurn, NEW r \in Runs, TurnOf(r), BoundOf(r), OnceOf(r),
           job[r].on, run[r].status # "ended", NEW a \in Addresses, AtOf(r, a), NEW x \in Reports, ~x.gone, x.rec = AwaitOf[a],
           NEW matched \in BOOLEAN, seen' = Note(r, AwaitOf[a], x, matched), run' = run, job'[r].by = job[r].by,
           NEW b \in Bounds, b.rec = x.rec, b.id = x.id, b.ver = x.ver, b.listed \/ ~Noted(r, AwaitOf[a], x),
           job'[r].bound = Append(job[r].bound, b)
    PROVE  BoundOf(r)' /\ OnceOf(r)'
<1> DEFINE k == AwaitOf[a]
<1>1. /\ k \in Records /\ run[r].bound \in Seq(Bounds) /\ job[r].bound \in Seq(Bounds)
      /\ run[r].status \in {"queued", "running", "parked"}
  BY AwaitsAssumption, RunIs DEF RunTypes, JobTypes, JobStands
<1>2. /\ \A i \in DOMAIN run[r].bound : \E n \in seen[r][run[r].bound[i].rec] :
            SameVersion(n, run[r].bound[i]) /\ n.by = Nowhere
      /\ \A i \in DOMAIN job[r].bound : \E n \in seen[r][job[r].bound[i].rec] :
            SameVersion(n, job[r].bound[i]) /\ n.by \in {Nowhere, job[r].by}
  BY <1>1 DEF BoundOf
<1>3. \A q \in Records : \A n \in seen[r][q] : n \in seen'[r][q]
  <2>1. CASE Noted(r, k, x)
    <3>1. seen' = seen
      BY <2>1 DEF Note
    <3> QED BY <3>1
  <2>2. CASE ~Noted(r, k, x)
    <3>1. PICK n \in Notes : seen'[r][k] = seen[r][k] \cup {n}
      BY <1>1, <2>2, NoteIs
    <3>2. \A q \in Records : q # k => seen'[r][q] = seen[r][q]
      BY <1>1, NoteIs
    <3> QED BY <3>1, <3>2
  <2> QED BY <2>1, <2>2
<1>4. PICK n \in seen'[r][k] : n.id = x.id /\ n.ver = x.ver /\ n.by \in {Nowhere, job[r].by}
  <2>1. CASE Noted(r, k, x)
    <3>1. PICK n \in seen[r][k] : SameVersion(n, x)
      BY <2>1 DEF Noted
    <3>2. n.by \in {Nowhere, job[r].by}
      BY AtIs
    <3>3. n \in seen'[r][k]
      BY <1>1, <1>3
    <3> QED BY <3>1, <3>2, <3>3 DEF SameVersion
  <2>2. CASE ~Noted(r, k, x)
    <3>1. PICK n \in Notes : seen'[r][k] = seen[r][k] \cup {n} /\ n.id = x.id /\ n.ver = x.ver /\ n.by = job[r].by
      BY <1>1, <2>2, NoteIs
    <3> QED BY <3>1
  <2> QED BY <2>1, <2>2
<1>5. /\ DOMAIN job'[r].bound = 1 .. Len(job[r].bound) + 1 /\ DOMAIN job[r].bound = 1 .. Len(job[r].bound)
      /\ Len(job[r].bound) \in Nat
      /\ \A i \in 1 .. Len(job[r].bound) : job'[r].bound[i] = job[r].bound[i]
      /\ job'[r].bound[Len(job[r].bound) + 1] = b
  <2>1. PICK s \in Seq(Bounds) : s = job[r].bound
    BY <1>1
  <2>2. /\ DOMAIN Append(s, b) = 1 .. Len(s) + 1 /\ DOMAIN s = 1 .. Len(s)
        /\ Len(s) \in Nat
        /\ \A i \in 1 .. Len(s) : Append(s, b)[i] = s[i]
        /\ Append(s, b)[Len(s) + 1] = b
    OBVIOUS
  <2> QED BY <2>1, <2>2
<1>6. BoundOf(r)'
  <2>1. ASSUME NEW i \in DOMAIN run[r].bound
        PROVE  \E m \in seen'[r][run[r].bound[i].rec] : SameVersion(m, run[r].bound[i]) /\ m.by = Nowhere
    <3>1. run[r].bound[i].rec \in Records
      BY <1>1, BindingIs
    <3> QED BY <1>2, <1>3, <3>1
  <2>2. ASSUME NEW i \in DOMAIN job'[r].bound
        PROVE  \E m \in seen'[r][job'[r].bound[i].rec] :
                  SameVersion(m, job'[r].bound[i]) /\ m.by \in {Nowhere, job[r].by}
    <3>1. CASE i \in DOMAIN job[r].bound
      <4>1. job[r].bound[i].rec \in Records /\ job'[r].bound[i] = job[r].bound[i]
        BY <1>1, <1>5, <3>1, BindingIs
      <4>2. PICK m \in seen[r][job[r].bound[i].rec] : SameVersion(m, job[r].bound[i]) /\ m.by \in {Nowhere, job[r].by}
        BY <1>2, <3>1
      <4> QED BY <1>3, <4>1, <4>2
    <3>2. CASE i = Len(job[r].bound) + 1
      <4>1. job'[r].bound[i] = b /\ b.rec = k
        BY <1>5, <3>2
      <4> QED BY <1>4, <4>1 DEF SameVersion
    <3> QED BY <1>5, <2>2, <3>1, <3>2
  <2> QED BY <2>1, <2>2 DEF BoundOf
<1>7. ASSUME NEW y \in Bounds, y.rec \in Records, Repeats(y, b), \E z \in seen[r][y.rec] : SameVersion(z, y)
      PROVE  b.listed
  <2>1. Noted(r, k, x)
    BY <1>7 DEF Repeats, SameVersion, Noted
  <2> QED BY <2>1
<1>8. \A i \in DOMAIN job[r].bound : Repeats(job[r].bound[i], b) => b.listed
  BY <1>1, <1>2, <1>7, BindingIs
<1>9. \A i \in DOMAIN run[r].bound : Repeats(run[r].bound[i], b) => b.listed
  BY <1>1, <1>2, <1>7, BindingIs
<1>10. OnceOf(r)'
  <2>1. Listed(job'[r].bound)
    BY <1>1, <1>8, AppendListed DEF OnceOf
  <2>2. ASSUME NEW i \in DOMAIN run[r].bound, NEW j \in DOMAIN job'[r].bound,
               Repeats(run[r].bound[i], job'[r].bound[j])
        PROVE  job'[r].bound[j].listed
    <3>1. CASE j \in DOMAIN job[r].bound
      BY <1>5, <2>2, <3>1 DEF OnceOf
    <3>2. CASE j = Len(job[r].bound) + 1
      <4>1. job'[r].bound[j] = b
        BY <1>5, <3>2
      <4> QED BY <1>9, <2>2, <4>1
    <3> QED BY <1>5, <2>2, <3>1, <3>2
  <2> QED BY <2>1, <2>2 DEF OnceOf
<1> QED BY <1>6, <1>10

LEMMA BindListedBinds ==
    ASSUME TypeInv, InTurn, NEW r \in Runs, TurnOf(r), BoundOf(r), OnceOf(r),
           NEW a \in Addresses, NEW s \in Seqs, BindListed(r, a, s)
    PROVE  BoundOf(r)' /\ OnceOf(r)'
<1>1. /\ StepOf(r) /\ Reaches(r, a) /\ run' = run
      /\ reported[s] \in Reports /\ reported[s].rec = AwaitOf[a] /\ ~reported[s].gone
      /\ SameStep(job'[r], job[r])
  <2>1. StepOf(r) /\ Reaches(r, a) /\ run' = run
    BY BindListedIs
  <2>2. reported[s] \in Reports /\ reported[s].rec = AwaitOf[a] /\ ~reported[s].gone
    <3>1. reported[s] \in Reports /\ ~reported[s].gone
      BY BindListedIs
    <3> QED BY <3>1 DEF BindListed
  <2>3. SameStep(job'[r], job[r])
    BY BindListedIs
  <2> QED BY <2>1, <2>2, <2>3
<1>2. seen' = Note(r, AwaitOf[a], reported[s], TRUE)
  BY DEF BindListed
<1>3. PICK b \in Bounds : b = Bound(reported[s], a, TRUE)
  BY <1>1, BoundIs
<1>4. b.rec = reported[s].rec /\ b.id = reported[s].id /\ b.ver = reported[s].ver /\ b.listed
  BY <1>3 DEF Bound
<1>5. job'[r].bound = Append(job[r].bound, b)
  <2>1. job' = [job EXCEPT ![r].done = @ \cup {a}, ![r].bound = Append(@, b)]
    BY <1>3 DEF BindListed
  <2>2. job \in [Runs -> JobTypes] /\ job[r] \in JobTypes
    BY RunIs DEF TypeInv, Typed, JobsTyped
  <2> QED BY <2>1, <2>2 DEF JobTypes
<1>6. AtOf(r, a) /\ job[r].on /\ run[r].status # "ended"
  <2>1. AtOf(r, a) /\ job[r].on
    BY <1>1, ReachesIs
  <2> QED BY <1>1, <2>1 DEF Reaches, Between
<1> QED BY <1>1, <1>2, <1>4, <1>5, <1>6, NotedBound DEF SameStep

LEMMA JudgeBinds ==
    ASSUME TypeInv, InTurn, NEW r \in Runs, TurnOf(r), BoundOf(r), OnceOf(r),
           \E matched \in BOOLEAN : Judge(r, matched)
    PROVE  BoundOf(r)' /\ OnceOf(r)'
<1>1. /\ StepOf(r) /\ UNCHANGED <<run, leaf, wait>> /\ job[r].on /\ SameStep(job'[r], job[r])
      /\ job[r].at \in Addresses
  <2>1. StepOf(r) /\ UNCHANGED <<run, leaf, wait>> /\ job[r].on /\ SameStep(job'[r], job[r])
    BY ZenonT(60), JudgeIs
  <2>2. job[r].at \in Addresses
    BY ZenonT(60), JudgeIs
  <2> QED BY <2>1, <2>2
<1>2. PICK s \in job[r].todo : /\ s = Min(job[r].todo) /\ reported[s] \in Reports /\ ~reported[s].gone
                               /\ reported[s].rec = AwaitOf[job[r].at]
  <2>1. PICK s \in job[r].todo : s = Min(job[r].todo) /\ reported[s] \in Reports /\ ~reported[s].gone
    BY ZenonT(60), JudgeIs
  <2>2. reported[s].rec = AwaitOf[job[r].at]
    BY RunIs DEF JobStands
  <2> QED BY <2>1, <2>2
<1>3. PICK matched \in BOOLEAN : Judge(r, matched)
  OBVIOUS
<1>4. seen' = Note(r, AwaitOf[job[r].at], reported[s], matched)
  BY <1>2, <1>3 DEF Judge
<1>5. AtOf(r, job[r].at)
  <2>1. job[r].at \in Reached(r)
    BY <1>1, NowhereAssumption DEF Reached
  <2> QED BY <1>1, <2>1 DEF TurnOf, SegmentOf
<1>6. CASE Counts(r, AwaitOf[job[r].at], reported[s], matched)
  <2>2. PICK b \in Bounds : b = Bound(reported[s], job[r].at, FALSE)
    BY <1>1, <1>2, BoundIs
  <2>3. b.rec = reported[s].rec /\ b.id = reported[s].id /\ b.ver = reported[s].ver
    BY <2>2 DEF Bound
  <2>4. job'[r].bound = Append(job[r].bound, b)
    <3>1. job' = [job EXCEPT ![r].at = Nowhere, ![r].todo = {}, ![r].done = @ \cup {job[r].at},
                             ![r].bound = Append(@, b)]
      BY <1>2, <1>3, <1>6, <2>2 DEF Judge
    <3>2. job \in [Runs -> JobTypes] /\ job[r] \in JobTypes
      BY RunIs DEF TypeInv, Typed, JobsTyped
    <3> QED BY <3>1, <3>2 DEF JobTypes
  <2>5. ~Noted(r, AwaitOf[job[r].at], reported[s])
    BY <1>6 DEF Counts
  <2>6. run[r].status # "ended"
    BY <1>1, NowhereAssumption, UnderWay
  <2> QED BY <1>1, <1>2, <1>4, <1>5, <2>3, <2>4, <2>5, <2>6, NotedBound DEF SameStep
<1>7. CASE ~Counts(r, AwaitOf[job[r].at], reported[s], matched)
  <2>1. job'[r].bound = job[r].bound
    BY ZenonT(60), <1>2, <1>3, <1>7, JudgeIs
  <2>2. \A k \in Records : \A n \in seen[r][k] : n \in seen'[r][k]
    <3>1. AwaitOf[job[r].at] \in Records
      BY <1>1, AwaitsAssumption
    <3>2. CASE Noted(r, AwaitOf[job[r].at], reported[s])
      <4>1. seen' = seen
        BY <1>4, <3>2 DEF Note
      <4> QED BY <4>1
    <3>3. CASE ~Noted(r, AwaitOf[job[r].at], reported[s])
      <4>1. PICK n \in Notes : seen'[r][AwaitOf[job[r].at]] = seen[r][AwaitOf[job[r].at]] \cup {n}
        BY <1>2, <1>4, <3>1, <3>3, NoteIs
      <4>2. \A q \in Records : q # AwaitOf[job[r].at] => seen'[r][q] = seen[r][q]
        BY <1>2, <1>4, <3>1, NoteIs
      <4> QED BY <4>1, <4>2
    <3> QED BY <3>2, <3>3
  <2>3. run[r].status \in {"queued", "running", "parked"}
    BY <1>1, NowhereAssumption, UnderWay
  <2> QED BY <1>1, <2>1, <2>2, <2>3, BoundKept DEF SameStep
<1> QED BY <1>6, <1>7

LEMMA CommitBinds ==
    ASSUME TypeInv, NEW r \in Runs, BoundOf(r), OnceOf(r),
           NEW order \in SetToSeqs(job[r].parks), Commit(r, order)
    PROVE  BoundOf(r)' /\ OnceOf(r)'
<1>1. /\ run[r].bound \in Seq(Bounds) /\ job[r].bound \in Seq(Bounds)
      /\ run[r].status \in {"queued", "running", "parked"}
      /\ run'[r].bound = run[r].bound \o job[r].bound /\ job'[r].bound = <<>>
  <2>1. run[r].bound \in Seq(Bounds) /\ job[r].bound \in Seq(Bounds) /\ run'[r].bound = run[r].bound \o job[r].bound
    BY CommitRunIs, RunIs DEF RunTypes, JobTypes
  <2>2. run[r].status \in {"queued", "running", "parked"}
    BY CommitIs, UnderWay DEF Between
  <2>3. job'[r].bound = <<>>
    <3>1. job'[r] = (IF run'[r].status = "ended" THEN Ending(job[r].row) ELSE Idle) /\ job[r].row \in Rows \cup {NoRow}
      BY CommitIs, RunIs DEF JobTypes
    <3> QED BY <3>1, IdleIs, EndingIs
  <2> QED BY <2>1, <2>2, <2>3
<1>2. DOMAIN <<>> = {}
  OBVIOUS
<1>3. OnceOf(r)'
  <2>1. Listed(run'[r].bound)
    BY <1>1, ConcatListed DEF OnceOf
  <2> QED BY <1>1, <1>2, <2>1 DEF OnceOf, Listed
<1>4. BoundOf(r)'
  <2>1. ASSUME run'[r].status # "ended", NEW i \in DOMAIN run'[r].bound
        PROVE  \E n \in seen'[r][run'[r].bound[i].rec] : SameVersion(n, run'[r].bound[i]) /\ n.by = Nowhere
    <3>1. PICK b \in Bounds : /\ b = run'[r].bound[i] /\ b.rec \in Records
                              /\ \/ \E j \in DOMAIN run[r].bound : b = run[r].bound[j]
                                 \/ \E j \in DOMAIN job[r].bound : b = job[r].bound[j]
      <4>1. PICK p \in Seq(Bounds), q \in Seq(Bounds) : p = run[r].bound /\ q = job[r].bound
        BY <1>1
      <4>2. /\ DOMAIN (p \o q) = 1 .. Len(p) + Len(q) /\ DOMAIN p = 1 .. Len(p) /\ DOMAIN q = 1 .. Len(q)
            /\ Len(p) \in Nat /\ Len(q) \in Nat
            /\ \A j \in 1 .. Len(p) : (p \o q)[j] = p[j]
            /\ \A j \in Len(p) + 1 .. Len(p) + Len(q) : (p \o q)[j] = q[j - Len(p)]
        OBVIOUS
      <4>3. run'[r].bound = p \o q /\ i \in 1 .. Len(p) + Len(q)
        BY <1>1, <2>1, <4>1, <4>2
      <4>4. CASE i \in 1 .. Len(p)
        <5>1. run'[r].bound[i] = p[i] /\ i \in DOMAIN p
          BY <4>2, <4>3, <4>4
        <5>2. p[i] \in Bounds /\ p[i].rec \in Records
          BY <5>1, BindingIs
        <5> QED BY <4>1, <5>1, <5>2
      <4>5. CASE i \in Len(p) + 1 .. Len(p) + Len(q)
        <5>1. run'[r].bound[i] = q[i - Len(p)] /\ i - Len(p) \in DOMAIN q
          BY <4>2, <4>3, <4>5
        <5>2. q[i - Len(p)] \in Bounds /\ q[i - Len(p)].rec \in Records
          BY <5>1, BindingIs
        <5> QED BY <4>1, <5>1, <5>2
      <4> QED BY <4>2, <4>3, <4>4, <4>5
    <3>2. PICK n \in seen[r][b.rec] : SameVersion(n, b) /\ n.by \in {Nowhere, job[r].by}
      BY <1>1, <3>1 DEF BoundOf
    <3>3. PICK m \in seen'[r][b.rec] :
             m.id = n.id /\ m.ver = n.ver /\ m.by = IF n.by \in {job[r].by} \cup job[r].parks THEN Nowhere ELSE n.by
      BY <3>1, NotesKept
    <3> QED BY <3>1, <3>2, <3>3 DEF SameVersion
  <2> QED BY <1>1, <1>2, <2>1 DEF BoundOf
<1> QED BY <1>3, <1>4

\* A step of a run's process leaves the others' as they are.
LEMMA StepBinds ==
    ASSUME TypeInv, BoundInv, NEW r \in Runs, StepOf(r), BoundOf(r)' /\ OnceOf(r)'
    PROVE  BoundInv'
<1>1. ASSUME NEW q \in Runs, q # r PROVE BoundOf(q)' /\ OnceOf(q)'
  <2>1. run'[q] = run[q] /\ seen'[q] = seen[q] /\ job'[q] = job[q]
    BY <1>1, StepIs
  <2> QED BY <2>1 DEF BoundInv, BoundOf, OnceOf
<1> QED BY <1>1 DEF BoundInv

LEMMA DeliverBinds ==
    ASSUME TypeInv, BoundInv, NEW a \in Reports, NEW r \in Runs, Deliver(r, a)
    PROVE  BoundInv'
<1>1. /\ run[r].status = "none" /\ a.rec = Trigger /\ Trigger \in Records
      /\ run' = [run EXCEPT ![r].status = "queued", ![r].bound = <<Bound(a, Nowhere, TRUE)>>]
      /\ seen' = [seen EXCEPT ![r][Trigger] = PreNoted(a)]
      /\ job' = job
  BY RecordsAssumption DEF Deliver
<1>2. /\ run \in [Runs -> RunTypes] /\ run[r] \in RunTypes /\ seen \in [Runs -> [Records -> SUBSET Notes]]
      /\ JobStands(r)
  BY RunIs DEF TypeInv, Typed, RunsTyped, WaitsTyped
<1>3. ASSUME NEW q \in Runs, q # r PROVE BoundOf(q)' /\ OnceOf(q)'
  <2>1. run'[q] = run[q] /\ seen'[q] = seen[q] /\ job'[q] = job[q]
    BY <1>1, <1>2, <1>3
  <2> QED BY <2>1 DEF BoundInv, BoundOf, OnceOf
<1>4. BoundOf(r)' /\ OnceOf(r)'
  <2> DEFINE b == Bound(a, Nowhere, TRUE)
  <2>1. b.rec = Trigger /\ b.id = a.id /\ b.ver = a.ver
    BY <1>1 DEF Bound
  <2>2. run'[r].bound = <<b>>
    BY <1>1, <1>2 DEF RunTypes
  <2>3. seen'[r][Trigger] = PreNoted(a)
    BY <1>1, <1>2
  <2>4. PICK n \in seen'[r][Trigger] : n.id = a.id /\ n.ver = a.ver /\ n.by = Nowhere
    BY <2>3 DEF PreNoted
  <2>5. ~job[r].on
    BY <1>1, <1>2 DEF JobStands
  <2>6. job'[r].bound = <<>> /\ DOMAIN <<>> = {}
    BY <1>1, <1>2, <2>5, IdleIs DEF JobStands
  <2> HIDE DEF b
  <2>7. DOMAIN <<b>> = {1} /\ <<b>>[1] = b
    OBVIOUS
  <2>8. BoundOf(r)'
    BY <2>1, <2>2, <2>4, <2>6, <2>7 DEF BoundOf, SameVersion
  <2>9. OnceOf(r)'
    <3>1. \A i, j \in DOMAIN <<b>> : ~(i < j)
      BY <2>7
    <3> QED BY <2>2, <2>6, <3>1 DEF OnceOf, Listed
  <2> QED BY <2>8, <2>9
<1> QED BY <1>3, <1>4 DEF BoundInv

LEMMA SegmentBinds ==
    ASSUME TypeInv, InTurn, NEW r \in Runs, TurnOf(r), BoundOf(r), OnceOf(r), Segment(r)
    PROVE  BoundOf(r)' /\ OnceOf(r)'
<1>1. ASSUME job[r].on, UNCHANGED <<run, seen>>, job'[r].bound = job[r].bound, job'[r].by = job[r].by
      PROVE  BoundOf(r)' /\ OnceOf(r)'
  <2>1. run[r].status \in {"queued", "running", "parked", "ended"}
    BY <1>1, RunIs DEF JobStands
  <2> QED BY <1>1, <2>1, BoundKept
<1>2. job \in [Runs -> JobTypes] /\ job[r] \in JobTypes
  BY RunIs DEF TypeInv, Typed, JobsTyped
<1>3. ASSUME NEW k \in Records, TakeMark(r, k) \/ Open(r, k) PROVE BoundOf(r)' /\ OnceOf(r)'
  <2>1. job[r].on /\ UNCHANGED <<run, seen>>
    BY <1>3 DEF TakeMark, Open, Between
  <2>2. job'[r].bound = job[r].bound /\ job'[r].by = job[r].by
    BY <1>2, <1>3 DEF TakeMark, Open, JobTypes
  <2> QED BY <1>1, <2>1, <2>2
<1>4. ASSUME NEW a \in Addresses, Reach(r, a) PROVE BoundOf(r)' /\ OnceOf(r)'
  <2>1. job[r].on /\ UNCHANGED <<run, seen>>
    BY <1>4 DEF Reach, Reaches, Between
  <2>2. job'[r].bound = job[r].bound /\ job'[r].by = job[r].by
    BY <1>2, <1>4 DEF Reach, JobTypes
  <2> QED BY <1>1, <2>1, <2>2
<1>5. ASSUME HoldPark(r) PROVE BoundOf(r)' /\ OnceOf(r)'
  <2>1. job[r].on /\ UNCHANGED <<run, seen>>
    BY <1>5 DEF HoldPark
  <2>2. job'[r].bound = job[r].bound /\ job'[r].by = job[r].by
    BY <1>2, <1>5 DEF HoldPark, JobTypes
  <2> QED BY <1>1, <2>1, <2>2
<1>6. CASE \E a \in Addresses : \E s \in Seqs : BindListed(r, a, s)
  BY <1>6, BindListedBinds
<1>7. CASE \E matched \in BOOLEAN : Judge(r, matched)
  BY <1>7, JudgeBinds
<1>8. CASE \E order \in SetToSeqs(job[r].parks) : Commit(r, order)
  BY <1>8, CommitBinds
<1> QED BY <1>3, <1>4, <1>5, <1>6, <1>7, <1>8 DEF Segment

LEMMA NextKeepsBound ==
    ASSUME TypeInv, InTurn, TurnInv, BoundInv, [Next]_vars
    PROVE  BoundInv'
<1>1. CASE UNCHANGED <<run, seen, job>>
  BY <1>1 DEF BoundInv, BoundOf, OnceOf
<1>2. CASE \E a \in Reports : \E r \in Runs : Deliver(r, a)
  BY <1>2, DeliverBinds
<1>3. ASSUME NEW w \in wakes, Resume(w) PROVE BoundInv'
  <2>1. PICK r \in Runs, a \in Addresses :
           /\ StepOf(r) /\ run[r].status = "parked" /\ run'[r].bound = run[r].bound
           /\ \A k \in Records : seen'[r][k] = {n \in seen[r][k] : n.by # a}
           /\ job'[r] = JobOf(a, {}, w)
    BY <1>3, ResumeIs
  <2>2. job'[r].bound = <<>>
    BY <2>1 DEF JobOf, Idle
  <2>3. BoundOf(r)' /\ OnceOf(r)'
    BY <2>1, <2>2, BoundKept, NowhereAssumption DEF BoundInv
  <2> QED BY <2>1, <2>3, StepBinds
<1>4. ASSUME NEW r \in Runs, Step(r) PROVE BoundInv'
  <2>1. StepOf(r) /\ TurnOf(r) /\ BoundOf(r) /\ OnceOf(r)
    BY <1>4, StepsStand DEF TurnInv, BoundInv
  <2>2. CASE Start(r)
    <3>1. run'[r].bound = run[r].bound
      BY <2>2, StartIs
    <3>2. run[r].status \in {"none", "queued"} /\ seen' = seen
      BY <2>2 DEF Start
    <3>3. PICK entered : job'[r] = JobOf(Nowhere, entered, NoRow)
      BY <2>2, StartIs
    <3>4. job'[r].bound = <<>>
      BY <3>3 DEF JobOf, Idle
    <3>5. run[r].status = "none" => run[r].bound = <<>>
      BY <2>1 DEF TurnOf, FreshOf
    <3> QED BY <2>1, <3>1, <3>2, <3>4, <3>5, BoundKept, StepBinds
  <2>3. CASE NeverStarts(r) \/ FailLost(r) \/ Drop(r)
    <3>1. run'[r].status = "ended" /\ run'[r].bound = run[r].bound /\ job'[r].bound = <<>>
      <4>1. CASE NeverStarts(r)
        <5>1. run'[r].status = "ended" /\ run'[r].bound = run[r].bound /\ job' = job /\ ~job[r].on
          BY <4>1, NeverStartsIs
        <5> QED BY <5>1, RunIs, IdleIs DEF JobStands
      <4>2. CASE FailLost(r)
        BY <4>2, FailLostIs, EndingIs
      <4>3. CASE Drop(r)
        <5>1. /\ run[r].status = "ended" /\ run'[r] = [run[r] EXCEPT !.lease = "free"] /\ run[r] \in RunTypes
              /\ job'[r] = Idle
          BY <4>3, DropIs, RunIs
        <5> QED BY <5>1, IdleIs DEF RunTypes
      <4> QED BY <2>3, <4>1, <4>2, <4>3
    <3> QED BY <2>1, <3>1, BoundKept, StepBinds
  <2>4. CASE LosesRun(r) \/ Crash(r)
    <3>1. UNCHANGED <<run, seen>> /\ job'[r] = Idle /\ job[r].on
      BY <2>4, EndsIs
    <3>2. job'[r].bound = <<>> /\ run[r].status \in {"queued", "running", "parked", "ended"}
      BY <3>1, IdleIs, RunIs DEF JobStands
    <3> QED BY <2>1, <3>1, <3>2, BoundKept, StepBinds
  <2>5. CASE LeaseLapses(r)
    <3>1. UNCHANGED <<seen, job>> /\ run'[r] = [run[r] EXCEPT !.lease = "lapsed"]
      BY <2>5, LeaseLapsesIs
    <3>2. run'[r].status = run[r].status /\ run'[r].bound = run[r].bound
      BY <3>1, RunIs DEF RunTypes
    <3>3. BoundOf(r)' /\ OnceOf(r)'
      BY <2>1, <3>1, <3>2 DEF BoundOf, OnceOf
    <3> QED BY <2>1, <3>3, StepBinds
  <2>6. CASE Segment(r)
    BY <2>1, <2>6, SegmentBinds, StepBinds
  <2> QED BY <1>4, <2>2, <2>3, <2>4, <2>5, <2>6 DEF Step
<1>5. (\E a \in Reports : BeginLog(a)) => UNCHANGED <<run, seen, job>>
  BY DEF BeginLog
<1>6. (\E s \in flight : EndLog(s)) \/ (\E x \in known : WindowEnds(x)) => UNCHANGED <<run, seen, job>>
  BY DEF EndLog, WindowEnds
<1>7. Sweep \/ (\E w \in wakes : RowFindsNothing(w)) \/ UNCHANGED vars => UNCHANGED <<run, seen, job>>
  BY DEF Sweep, RowFindsNothing, vars
<1> QED BY <1>1, <1>2, <1>3, <1>4, <1>5, <1>6, <1>7 DEF Next, Log

LEMMA InitBinds == Init => BoundInv
<1> SUFFICES ASSUME Init, NEW r \in Runs PROVE BoundOf(r) /\ OnceOf(r)
  BY DEF BoundInv
<1>1. run[r].bound = <<>> /\ job[r].bound = <<>> /\ run[r].status = "none"
  BY IdleIs DEF Init
<1>2. DOMAIN <<>> = {}
  OBVIOUS
<1> QED BY <1>1, <1>2 DEF BoundOf, OnceOf, Listed

\* Where a movement's awaits on one record come one after the other, a run
\* binds an arrival off the log once, and never its own trigger, through
\* repeats, lapses and segments that die (note_arrival, drop_leaf_notes,
\* keep_leaf_notes).
THEOREM InTurnBindsOnce ==
    ASSUME InTurn
    PROVE  Spec => []BoundOnce
<1>1. TypeInv /\ TurnInv /\ BoundInv /\ [Next]_vars => BoundInv'
  BY NextKeepsBound
<1>2. BoundInv => BoundOnce
  BY DEF BoundInv, OnceOf, Listed, Repeats, BoundOnce
<1> QED BY <1>1, <1>2, InitBinds, TypeInvAlways, TurnInvAlways, PTL DEF Spec

-----------------------------------------------------------------------------
(* What there is to read has a row. *)

Owed(r, a) ==
    leaf[r][a] # "none" /\ ToRead(r, a) # {} /\ ~(job[r].on /\ job[r].by = a) =>
        <<r, AwaitOf[a], a>> \in wakes

\* What nobody noted of a version is read, from its first report on.
LEMMA UnreadFound ==
    ASSUME TypeInv, NEW r \in Runs, NEW k \in Records, NEW s \in On(k),
           s > wait[r][k].since, ~reported[s].gone, ~Noted(r, k, reported[s])
    PROVE  Unread(r, k) # {}
<1> DEFINE C == {t \in On(k) : /\ t > wait[r][k].since /\ ~reported[t].gone
                               /\ SameVersion(reported[s], reported[t])}
<1>1. On(k) \subseteq Nat
  BY SeqsAre DEF On, Logged, TypeInv, Typed
<1>2. s \in C
  BY DEF SameVersion
<1>3. C \subseteq Nat /\ C # {}
  BY <1>1, <1>2
<1>4. PICK m \in C : \A t \in C : m <= t
  <2> HIDE DEF C
  <2> QED BY <1>3, LeastNat
<1>5. /\ m \in On(k) /\ m \in Nat /\ m > wait[r][k].since /\ ~reported[m].gone
      /\ SameVersion(reported[s], reported[m])
  BY <1>1, <1>4
<1>6. ~Noted(r, k, reported[m])
  BY <1>5 DEF Noted, SameVersion
<1>7. ASSUME NEW t \in On(k), t > wait[r][k].since, ~reported[t].gone, SameVersion(reported[m], reported[t])
      PROVE  t >= m
  <2>1. t \in C
    BY <1>5, <1>7 DEF SameVersion
  <2> QED BY <1>1, <1>4, <1>5, <1>7, <2>1
<1>8. m \in Unread(r, k)
  <2> HIDE DEF C
  <2> QED BY <1>5, <1>6, <1>7 DEF Unread
<1> QED BY <1>8

\* A leaf with nothing more to read, no process less and its row still is owed
\* nothing more.
LEMMA OwedKept ==
    ASSUME NEW r \in Runs, NEW a \in Addresses, Owed(r, a),
           leaf'[r][a] # "none" => leaf[r][a] # "none",
           job[r].on /\ job[r].by = a => job'[r].on /\ job'[r].by = a,
           <<r, AwaitOf[a], a>> \in wakes => <<r, AwaitOf[a], a>> \in wakes',
           ToRead(r, a)' \subseteq ToRead(r, a)
    PROVE  Owed(r, a)'
BY DEF Owed

\* There is nothing more to read where the log, and the wait's mark, are as they
\* were, and every note but the leaf's own is there still.
LEMMA ReadsNoMore ==
    ASSUME TypeInv, NEW r \in Runs, NEW a \in Addresses,
           UNCHANGED <<reported, flight, swept>>, wait'[r][AwaitOf[a]].since = wait[r][AwaitOf[a]].since,
           \A n \in seen[r][AwaitOf[a]] : n.by # a =>
              \E m \in seen'[r][AwaitOf[a]] : m.id = n.id /\ m.ver = n.ver /\ m.by # a
    PROVE  ToRead(r, a)' \subseteq ToRead(r, a)
<1>1. On(AwaitOf[a])' = On(AwaitOf[a])
  BY DEF On, Logged, Seqs
<1>2. ASSUME NEW s \in ToRead(r, a)' PROVE s \in ToRead(r, a)
  <2>1. /\ s \in On(AwaitOf[a]) /\ s > wait[r][AwaitOf[a]].since /\ ~reported[s].gone
        /\ \A n \in seen'[r][AwaitOf[a]] : SameVersion(n, reported[s]) => n.by = a
    BY <1>1, <1>2 DEF ToRead
  <2>2. \A n \in seen[r][AwaitOf[a]] : SameVersion(n, reported[s]) => n.by = a
    BY <2>1 DEF SameVersion
  <2> QED BY <2>1, <2>2 DEF ToRead
<1> QED BY <1>2

\* A log of at most one report more: it wakes the leaf parked on its record.
LEMMA LoggedOwed ==
    ASSUME TypeInv, NEW r \in Runs, TurnOf(r), NEW a \in Addresses, Owed(r, a), NEW s,
           leaf' = leaf, seen'[r] = seen[r], job' = job,
           wait[r][AwaitOf[a]] # NoWait => wait'[r][AwaitOf[a]].since = wait[r][AwaitOf[a]].since,
           Logged' \subseteq Logged \cup {s}, \A t \in Logged : reported'[t] = reported[t],
           wakes \cup WakesOf(reported'[s]) \subseteq wakes' \/ (wakes' = wakes /\ Logged' \subseteq Logged)
    PROVE  Owed(r, a)'
<1> DEFINE k == AwaitOf[a]
<1> SUFFICES ASSUME leaf[r][a] # "none" PROVE Owed(r, a)'
  BY DEF Owed
<1>1. k \in Records /\ wait[r][k] # NoWait /\ wait[r][k].at = a /\ a # Nowhere
  BY AwaitsAssumption, NowhereAssumption DEF TurnOf, LeavesOf
<1>2. Parked(r, k)
  BY <1>1 DEF Parked
<1>3. CASE s \in Logged' /\ s \notin Logged /\ reported'[s].rec = k /\ ~reported'[s].gone
  <2>1. <<r, k, a>> \in WakesOf(reported'[s])
    BY <1>1, <1>2, <1>3 DEF WakesOf
  <2> QED BY <1>3, <2>1 DEF Owed
<1>4. CASE ~(s \in Logged' /\ s \notin Logged /\ reported'[s].rec = k /\ ~reported'[s].gone)
  <2>1. ASSUME NEW t \in ToRead(r, a)' PROVE t \in ToRead(r, a)
    <3>1. /\ t \in Logged' /\ reported'[t].rec = k /\ t > wait[r][k].since /\ ~reported'[t].gone
          /\ \A n \in seen[r][k] : SameVersion(n, reported'[t]) => n.by = a
      BY <1>1, <2>1 DEF ToRead, On
    <3>2. t \in Logged /\ reported'[t] = reported[t]
      BY <1>4, <3>1
    <3> QED BY <3>1, <3>2 DEF ToRead, On
  <2>2. <<r, AwaitOf[a], a>> \in wakes => <<r, AwaitOf[a], a>> \in wakes'
    OBVIOUS
  <2> QED BY <2>1, <2>2, OwedKept
<1> QED BY <1>3, <1>4

OwedInv == \A r \in Runs : \A a \in Addresses : Owed(r, a)

LEMMA LogOwed ==
    ASSUME TypeInv, TurnInv, OwedInv, Log
    PROVE  OwedInv'
<1>1. Seqs = 1 .. Len(reported) /\ Len(reported) \in Nat /\ WaitsTyped /\ Logged \subseteq Seqs
  BY CommittedIs DEF TypeInv, Typed, Logged
<1>2. ASSUME NEW x \in Reports, Draw(x)
      PROVE  /\ Seqs' = Seqs \cup {Len(reported) + 1} /\ reported'[Len(reported) + 1] = x
             /\ \A t \in Logged : reported'[t] = reported[t]
  <2>1. reported \in Seq(Reports) /\ reported' = Append(reported, x)
    BY <1>2 DEF Draw, TypeInv, Typed, LogTyped
  <2> QED BY <1>1, <2>1 DEF Seqs
<1>3. ASSUME NEW x \in Reports, BeginLog(x), NEW r \in Runs, NEW a \in Addresses PROVE Owed(r, a)'
  <2>1. UNCHANGED <<leaf, wait, seen, wakes, job, swept>> /\ flight' = flight \cup {Len(reported) + 1} /\ Draw(x)
    BY <1>3 DEF BeginLog
  <2>2. Logged' \subseteq Logged
    BY <1>2, <2>1 DEF Logged
  <2> QED BY <1>2, <2>1, <2>2, LoggedOwed DEF TurnInv, OwedInv
<1>4. ASSUME NEW s \in flight, EndLog(s), NEW r \in Runs, NEW a \in Addresses PROVE Owed(r, a)'
  <2>1. /\ UNCHANGED <<reported, leaf, seen, job, swept>> /\ flight' = flight \ {s}
        /\ wait' = Strandings(wait, reported[s]) /\ wakes' = wakes \cup WakesOf(reported[s])
    BY <1>4 DEF EndLog
  <2>2. Logged' \subseteq Logged \cup {s}
    BY <2>1 DEF Logged, Seqs
  <2>3. reported[s] \in Reports /\ AwaitOf[a] \in Records
    BY SeqsAre, AwaitsAssumption DEF TypeInv, Typed, LogTyped
  <2>4. wait[r][AwaitOf[a]] # NoWait => wait'[r][AwaitOf[a]].since = wait[r][AwaitOf[a]].since
    BY <1>1, <2>1, <2>3, StrandingsAre
  <2> QED BY <2>1, <2>2, <2>4, LoggedOwed DEF TurnInv, OwedInv
<1>5. ASSUME NEW x \in Reports, NEW q \in Runs, Deliver(q, x), NEW r \in Runs, NEW a \in Addresses PROVE Owed(r, a)'
  <2>1. /\ UNCHANGED <<leaf, job, flight, swept>> /\ Draw(x) /\ run[q].status = "none"
        /\ wait' = [Strandings(wait, x) EXCEPT ![q][Trigger] =
                      [since |-> Latest, before |-> Seqs \ flight, at |-> Nowhere, stranded |-> FALSE]]
        /\ seen' = [seen EXCEPT ![q][Trigger] = PreNoted(x)]
        /\ wakes' = wakes \cup WakesOf(x)
    BY <1>5 DEF Deliver
  <2>2. CASE r = q
    <3>1. leaf[r][a] = "none"
      BY <2>1, <2>2, RunIs DEF WaitStands
    <3> QED BY <2>1, <3>1 DEF Owed
  <2>3. CASE r # q
    <3>1. Logged' \subseteq Logged \cup {Len(reported) + 1}
      BY <1>2, <2>1 DEF Logged
    <3>2. AwaitOf[a] \in Records /\ Strandings(wait, x) \in [Runs -> [Records -> Wait \cup {NoWait}]]
      BY <1>1, StrandingsTyped, AwaitsAssumption
    <3>3. wait'[r] = Strandings(wait, x)[r] /\ seen'[r] = seen[r]
      <4>1. seen \in [Runs -> [Records -> SUBSET Notes]]
        BY <1>1 DEF WaitsTyped
      <4> QED BY <2>1, <2>3, <3>2, <4>1
    <3>4. wait[r][AwaitOf[a]] # NoWait => wait'[r][AwaitOf[a]].since = wait[r][AwaitOf[a]].since
      <4>1. wait[r][AwaitOf[a]] # NoWait => Strandings(wait, x)[r][AwaitOf[a]].since = wait[r][AwaitOf[a]].since
        BY <1>1, <3>2, StrandingsAre
      <4> QED BY <3>3, <4>1
    <3> QED BY <1>2, <2>1, <3>1, <3>3, <3>4, LoggedOwed DEF TurnInv, OwedInv
  <2> QED BY <2>2, <2>3
<1>6. ASSUME (\E x \in known : WindowEnds(x)) \/ Sweep, NEW r \in Runs, NEW a \in Addresses PROVE Owed(r, a)'
  <2>1. UNCHANGED <<reported, leaf, wait, seen, wakes, job, flight>> /\ swept \subseteq swept'
    BY <1>6 DEF WindowEnds, Sweep
  <2>2. Logged' \subseteq Logged
    BY <2>1 DEF Logged, Seqs
  <2> QED BY <2>1, <2>2, LoggedOwed DEF TurnInv, OwedInv
<1> QED BY <1>3, <1>4, <1>5, <1>6 DEF Log, OwedInv

\* A step of a run's process leaves what the others are owed.
LEMMA StepOwed ==
    ASSUME TypeInv, OwedInv, NEW r \in Runs, StepOf(r),
           \A w \in wakes : w \in wakes' \/ w[1] = r,
           \A a \in Addresses : Owed(r, a)'
    PROVE  OwedInv'
<1>1. ASSUME NEW q \in Runs, q # r, NEW a \in Addresses PROVE Owed(q, a)'
  <2>1. /\ leaf'[q] = leaf[q] /\ wait'[q] = wait[q] /\ seen'[q] = seen[q] /\ job'[q] = job[q]
        /\ UNCHANGED <<reported, flight, swept>>
    BY <1>1, StepIs
  <2>2. ToRead(q, a)' \subseteq ToRead(q, a)
    BY <2>1, ReadsNoMore
  <2>3. <<q, AwaitOf[a], a>>[1] = q
    OBVIOUS
  <2> QED BY <1>1, <2>1, <2>2, <2>3, OwedKept DEF OwedInv
<1> QED BY <1>1 DEF OwedInv

LEMMA ResumeOwed ==
    ASSUME TypeInv, TurnInv, OwedInv, NEW w \in wakes, Resume(w)
    PROVE  OwedInv'
<1>1. PICK r \in Runs, a \in Addresses :
           /\ w = <<r, AwaitOf[a], a>> /\ StepOf(r)
           /\ leaf[r][a] # "none" /\ ~job[r].on
           /\ wait' = wait /\ wakes' = wakes \ {w}
           /\ \A b \in Addresses : leaf'[r][b] = "none" <=> leaf[r][b] = "none"
           /\ \A k \in Records : seen'[r][k] = {n \in seen[r][k] : n.by # a}
           /\ job'[r] = JobOf(a, {}, w)
  BY ResumeIs
<1>2. job'[r].on /\ job'[r].by = a
  <2>1. job'[r] = JobOf(a, {}, w)
    BY <1>1
  <2> QED BY <2>1 DEF JobOf, Idle
<1>3. TurnOf(r) /\ UNCHANGED <<reported, flight, swept>> /\ w[1] = r /\ Nowhere \notin Addresses
  BY <1>1, StepIs, NowhereAssumption DEF TurnInv
<1>4. ASSUME NEW b \in Addresses PROVE Owed(r, b)'
  <2>1. CASE b = a
    BY <1>2, <2>1 DEF Owed
  <2>2. CASE leaf[r][b] = "none"
    BY <1>1, <2>2 DEF Owed
  <2>3. CASE b # a /\ leaf[r][b] # "none"
    <3>1. AwaitOf[b] \in Records
      BY AwaitsAssumption
    <3>2. a \notin run[r].done /\ b \notin run[r].done /\ After[b] \subseteq run[r].done
      BY <1>1, <1>3, <2>3 DEF TurnOf, LeavesOf
    <3>3. \A n \in seen[r][AwaitOf[b]] : n.by # a
      BY <1>3, <2>3, <3>1, <3>2 DEF TurnOf, NotesOf
    <3>4. seen'[r][AwaitOf[b]] = seen[r][AwaitOf[b]]
      BY <1>1, <3>1, <3>3
    <3>5. ToRead(r, b)' \subseteq ToRead(r, b)
      BY <1>1, <1>3, <3>4, ReadsNoMore
    <3>6. <<r, AwaitOf[b], b>> # w
      BY <1>1, <2>3
    <3> QED BY <1>1, <2>3, <3>5, <3>6, OwedKept DEF OwedInv
  <2> QED BY <2>1, <2>2, <2>3
<1> QED BY <1>1, <1>3, <1>4, StepOwed

LEMMA RowFindsNothingOwed ==
    ASSUME TypeInv, OwedInv, NEW w \in wakes, RowFindsNothing(w)
    PROVE  OwedInv'
<1>1. PICK r \in Runs, a \in Addresses :
           /\ w = <<r, AwaitOf[a], a>> /\ StepOf(r)
           /\ run[r].status = "ended" \/ leaf[r][a] = "none"
           /\ UNCHANGED <<run, leaf, wait, seen, job>> /\ wakes' = wakes \ {w}
  BY RowFindsNothingIs
<1>2. leaf[r][a] = "none" /\ UNCHANGED <<reported, flight, swept>> /\ w[1] = r
  BY <1>1, StepIs, RunIs DEF WaitStands
<1>3. ASSUME NEW b \in Addresses PROVE Owed(r, b)'
  <2>1. CASE b = a
    BY <1>1, <1>2, <2>1 DEF Owed
  <2>2. CASE b # a
    <3>1. ToRead(r, b)' \subseteq ToRead(r, b)
      BY <1>1, <1>2, ReadsNoMore
    <3>2. <<r, AwaitOf[b], b>> # w
      BY <1>1, <2>2
    <3> QED BY <1>1, <3>1, <3>2, OwedKept DEF OwedInv
  <2> QED BY <2>1, <2>2
<1> QED BY <1>1, <1>2, <1>3, StepOwed

LEMMA CommitOwed ==
    ASSUME TypeInv, InTurn, TurnInv, OwedInv, NEW r \in Runs,
           NEW order \in SetToSeqs(job[r].parks), Commit(r, order)
    PROVE  OwedInv'
<1>1. /\ StepOf(r) /\ TurnOf(r) /\ wakes' = wakes \cup WakesAtPark(r, order)
      /\ UNCHANGED <<reported, flight, swept>>
  BY CommitIs, StepIs DEF TurnInv
<1>2. ASSUME NEW a \in Addresses, leaf'[r][a] # "none" PROVE Owed(r, a)'
  <2>1. run'[r].status # "ended" /\ AwaitOf[a] \in Records
    BY <1>2, CommitRunIs, AwaitsAssumption
  <2>2. /\ wait[r][AwaitOf[a]] # NoWait
        /\ \/ a \in job[r].parks
           \/ a # job[r].by /\ leaf[r][a] # "none"
    BY <1>1, <1>2, <2>1, LeavesKept
  <2>3. wait'[r][AwaitOf[a]].since = wait[r][AwaitOf[a]].since
    <3>1. wait'[r] = ParkedWaits(r, order)
      BY <2>1, CommitIs
    <3> QED BY <2>1, <2>2, <3>1, ParkedWaitsAre
  <2>4. \A n \in seen[r][AwaitOf[a]] : \E m \in seen'[r][AwaitOf[a]] :
           /\ m.id = n.id /\ m.ver = n.ver
           /\ m.by = IF n.by \in {job[r].by} \cup job[r].parks THEN Nowhere ELSE n.by
    BY <2>1, NotesKept
  <2>5. CASE a \notin job[r].parks
    <3>1. ToRead(r, a)' \subseteq ToRead(r, a)
      <4>1. a # Nowhere
        BY NowhereAssumption
      <4> QED BY <1>1, <2>3, <2>4, <4>1, ReadsNoMore
    <3> QED BY <1>1, <2>2, <2>5, <3>1, OwedKept DEF OwedInv
  <2>6. CASE a \in job[r].parks
    <3> SUFFICES ASSUME NEW s \in ToRead(r, a)' PROVE <<r, AwaitOf[a], a>> \in wakes'
      BY DEF Owed
    <3>1. On(AwaitOf[a])' = On(AwaitOf[a])
      BY <1>1 DEF On, Logged, Seqs
    <3>2. /\ s \in On(AwaitOf[a]) /\ s > wait[r][AwaitOf[a]].since /\ ~reported[s].gone
          /\ \A m \in seen'[r][AwaitOf[a]] : SameVersion(m, reported[s]) => m.by = a
      BY <1>1, <2>3, <3>1 DEF ToRead
    <3>3. ~Noted(r, AwaitOf[a], reported[s])
      <4> SUFFICES ASSUME NEW n \in seen[r][AwaitOf[a]], SameVersion(n, reported[s]) PROVE FALSE
        BY DEF Noted
      <4>1. PICK m \in seen'[r][AwaitOf[a]] :
               /\ m.id = n.id /\ m.ver = n.ver
               /\ m.by = IF n.by \in {job[r].by} \cup job[r].parks THEN Nowhere ELSE n.by
        BY <2>4
      <4>2. m.by = a
        BY <3>2, <4>1 DEF SameVersion
      <4> QED BY <2>6, <4>1, <4>2, NowhereAssumption
    <3>4. Unread(r, AwaitOf[a]) # {}
      BY <2>1, <3>2, <3>3, UnreadFound
    <3>5. <<r, AwaitOf[a], a>> \in WakesAtPark(r, order)
      BY <2>6, <3>4, WakesAtParkAre
    <3> QED BY <1>1, <3>5
  <2> QED BY <2>5, <2>6
<1>3. \A a \in Addresses : Owed(r, a)'
  BY <1>2 DEF Owed
<1> QED BY <1>1, <1>3, StepOwed

\* A segment that goes on notes what it judges: its leaf has no more to read,
\* and nor have the others.
LEMMA GoesOnOwed ==
    ASSUME TypeInv, TurnInv, OwedInv, NEW r \in Runs, StepOf(r), leaf' = leaf, wakes \subseteq wakes',
           job[r].on => job'[r].on /\ job'[r].by = job[r].by,
           \A k \in Records : wait[r][k] # NoWait => wait'[r][k].since = wait[r][k].since,
           \A k \in Records : \A n \in seen[r][k] : n \in seen'[r][k]
    PROVE  OwedInv'
<1>1. TurnOf(r) /\ UNCHANGED <<reported, flight, swept>>
  BY StepIs DEF TurnInv
<1>2. ASSUME NEW a \in Addresses, leaf[r][a] # "none" PROVE Owed(r, a)'
  <2>1. AwaitOf[a] \in Records /\ wait[r][AwaitOf[a]] # NoWait
    BY <1>1, <1>2, AwaitsAssumption DEF TurnOf, LeavesOf
  <2>2. \A n \in seen[r][AwaitOf[a]] : n \in seen'[r][AwaitOf[a]]
    BY <2>1
  <2>3. ToRead(r, a)' \subseteq ToRead(r, a)
    BY <1>1, <2>1, <2>2, ReadsNoMore
  <2> QED BY <2>3, OwedKept DEF OwedInv
<1>3. \A a \in Addresses : Owed(r, a)'
  BY <1>2 DEF Owed
<1> QED BY <1>3, StepOwed

LEMMA NoLeavesOwed ==
    ASSUME TypeInv, OwedInv, NEW r \in Runs, StepOf(r), leaf' = leaf, wakes \subseteq wakes',
           run[r].status # "parked"
    PROVE  OwedInv'
<1>1. \A a \in Addresses : leaf'[r][a] = "none"
  BY RunIs DEF WaitStands
<1>2. \A a \in Addresses : Owed(r, a)'
  BY <1>1 DEF Owed
<1> QED BY <1>2, StepOwed

LEMMA EndsOwed ==
    ASSUME TypeInv, TurnInv, OwedInv, NEW r \in Runs, LosesRun(r) \/ Crash(r), run[r].status # "ended"
    PROVE  OwedInv'
<1>1. /\ StepOf(r) /\ UNCHANGED <<run, leaf, wait, seen>>
      /\ wakes' = wakes \cup (IF job[r].by = Nowhere THEN {} ELSE {<<r, AwaitOf[job[r].by], job[r].by>>})
      /\ UNCHANGED <<reported, flight, swept>>
  BY EndsIs, StepIs
<1>2. ASSUME NEW a \in Addresses PROVE Owed(r, a)'
  <2>1. CASE job[r].by = a
    <3>1. <<r, AwaitOf[a], a>> \in wakes'
      BY <1>1, <2>1, NowhereAssumption
    <3> QED BY <3>1 DEF Owed
  <2>2. CASE job[r].by # a
    <3>1. ToRead(r, a)' \subseteq ToRead(r, a)
      BY <1>1, ReadsNoMore
    <3> QED BY <1>1, <2>2, <3>1, OwedKept DEF OwedInv
  <2> QED BY <2>1, <2>2
<1> QED BY <1>1, <1>2, StepOwed

LEMMA SegmentOwed ==
    ASSUME TypeInv, InTurn, TurnInv, OwedInv, NEW r \in Runs, Segment(r)
    PROVE  OwedInv'
<1>0. StepOf(r) /\ job \in [Runs -> JobTypes] /\ job[r] \in JobTypes
  BY StepsStand, RunIs DEF Step, TypeInv, Typed, JobsTyped
<1>1. ASSUME NEW k \in Records, TakeMark(r, k) \/ Open(r, k) PROVE OwedInv'
  <2>1. job'[r].on = job[r].on /\ job'[r].by = job[r].by /\ UNCHANGED <<leaf, seen, wakes>>
    BY <1>0, <1>1 DEF TakeMark, Open, JobTypes
  <2>2. CASE TakeMark(r, k)
    <3>1. wait' = wait
      BY <2>2 DEF TakeMark
    <3> QED BY <1>0, <2>1, <3>1, GoesOnOwed
  <2>3. CASE Open(r, k)
    <3>1. ASSUME NEW q \in Records, wait[r][q] # NoWait PROVE wait'[r][q].since = wait[r][q].since
      <4>1. /\ job[r].marks[k] \in Marks /\ job[r].marks[k] # NoMark
            /\ wait'[r][q] = IF q = k THEN Opened(r, k, job[r].marks[k]) ELSE wait[r][q]
        <5>1. job[r].marks[k] \in Marks /\ job[r].marks[k] # NoMark
          BY <2>3, OpenIs
        <5>2. wait'[r][q] = IF q = k THEN Opened(r, k, job[r].marks[k]) ELSE wait[r][q]
          <6>1. wait \in [Runs -> [Records -> Wait \cup {NoWait}]]
            BY DEF TypeInv, Typed, WaitsTyped
          <6> QED BY <2>3, <6>1 DEF Open
        <5> QED BY <5>1, <5>2
      <4>2. CASE q = k
        BY <3>1, <4>1, <4>2, OpenedIs
      <4>3. CASE q # k
        BY <4>1, <4>3
      <4> QED BY <4>2, <4>3
    <3> QED BY <1>0, <2>1, <3>1, GoesOnOwed
  <2> QED BY <1>1, <2>2, <2>3
<1>2. ASSUME (\E a \in Addresses : Reach(r, a)) \/ HoldPark(r) PROVE OwedInv'
  <2>1. job'[r].on = job[r].on /\ job'[r].by = job[r].by /\ UNCHANGED <<leaf, wait, seen, wakes>>
    <3>1. ASSUME NEW a \in Addresses, Reach(r, a)
          PROVE  job'[r].on = job[r].on /\ job'[r].by = job[r].by /\ UNCHANGED <<leaf, wait, seen, wakes>>
      BY <1>0, <3>1 DEF Reach, JobTypes
    <3>2. ASSUME HoldPark(r)
          PROVE  job'[r].on = job[r].on /\ job'[r].by = job[r].by /\ UNCHANGED <<leaf, wait, seen, wakes>>
      BY <1>0, <3>2 DEF HoldPark, JobTypes
    <3> QED BY <1>2, <3>1, <3>2
  <2> QED BY <1>0, <2>1, GoesOnOwed
<1>3. ASSUME NEW k \in Records, NEW x \in Reports, ~x.gone, NEW matched \in BOOLEAN, seen' = Note(r, k, x, matched)
      PROVE  \A q \in Records : \A n \in seen[r][q] : n \in seen'[r][q]
  <2>1. CASE Noted(r, k, x)
    <3>1. seen' = seen
      BY <1>3, <2>1 DEF Note
    <3> QED BY <3>1
  <2>2. CASE ~Noted(r, k, x)
    <3>1. PICK n \in Notes : seen'[r][k] = seen[r][k] \cup {n}
      BY <1>3, <2>2, NoteIs
    <3>2. \A q \in Records : q # k => seen'[r][q] = seen[r][q]
      BY <1>3, NoteIs
    <3> QED BY <3>1, <3>2
  <2> QED BY <2>1, <2>2
<1>4. ASSUME NEW a \in Addresses, NEW s \in Seqs, BindListed(r, a, s) PROVE OwedInv'
  <2>1. reported[s] \in Reports /\ ~reported[s].gone
    BY <1>4, BindListedIs
  <2>2. seen' = Note(r, AwaitOf[a], reported[s], TRUE) /\ UNCHANGED <<leaf, wait, wakes>> /\ AwaitOf[a] \in Records
    BY <1>4, AwaitsAssumption DEF BindListed
  <2>3. SameStep(job'[r], job[r])
    BY <1>4, BindListedIs
  <2>4. \A q \in Records : \A n \in seen[r][q] : n \in seen'[r][q]
    BY <1>3, <2>1, <2>2
  <2> QED BY <1>0, <2>2, <2>3, <2>4, GoesOnOwed DEF SameStep
<1>5. ASSUME \E matched \in BOOLEAN : Judge(r, matched) PROVE OwedInv'
  <2>1. SameStep(job'[r], job[r])
    BY ZenonT(60), <1>5, JudgeIs
  <2>2. job[r].at \in Addresses
    BY ZenonT(60), <1>5, JudgeIs
  <2>3. PICK s \in job[r].todo : s = Min(job[r].todo) /\ reported[s] \in Reports /\ ~reported[s].gone
    BY ZenonT(60), <1>5, JudgeIs
  <2>4. PICK matched \in BOOLEAN : Judge(r, matched)
    BY <1>5
  <2>5. /\ seen' = Note(r, AwaitOf[job[r].at], reported[s], matched) /\ UNCHANGED <<leaf, wait, wakes>>
        /\ AwaitOf[job[r].at] \in Records
    BY <2>2, <2>3, <2>4, AwaitsAssumption DEF Judge
  <2>6. \A q \in Records : \A n \in seen[r][q] : n \in seen'[r][q]
    BY <1>3, <2>3, <2>5
  <2> QED BY <1>0, <2>1, <2>5, <2>6, GoesOnOwed DEF SameStep
<1>6. CASE \E order \in SetToSeqs(job[r].parks) : Commit(r, order)
  BY <1>6, CommitOwed
<1> QED BY <1>1, <1>2, <1>4, <1>5, <1>6 DEF Segment

LEMMA NextKeepsOwed ==
    ASSUME TypeInv, InTurn, TurnInv, OwedInv, [Next]_vars
    PROVE  OwedInv'
<1>1. CASE Log
  BY <1>1, LogOwed
<1>2. CASE \E w \in wakes : Resume(w)
  BY <1>2, ResumeOwed
<1>3. CASE \E w \in wakes : RowFindsNothing(w)
  BY <1>3, RowFindsNothingOwed
<1>4. ASSUME NEW r \in Runs, Step(r) PROVE OwedInv'
  <2>1. StepOf(r)
    BY <1>4, StepsStand
  <2>2. CASE Start(r)
    <3>1. run[r].status # "parked" /\ UNCHANGED <<leaf, wakes>>
      BY <2>2 DEF Start
    <3> QED BY <2>1, <3>1, NoLeavesOwed
  <2>3. CASE NeverStarts(r) \/ FailLost(r) \/ Drop(r)
    <3>1. run[r].status # "parked" /\ UNCHANGED <<leaf, wakes>>
      BY <2>3 DEF NeverStarts, FailLost, Drop
    <3> QED BY <2>1, <3>1, NoLeavesOwed
  <2>4. CASE LosesRun(r) \/ Crash(r)
    <3>1. leaf' = leaf /\ wakes \subseteq wakes'
      BY <2>4, EndsIs
    <3> QED BY <2>1, <2>4, <3>1, NoLeavesOwed, EndsOwed
  <2>5. CASE LeaseLapses(r)
    <3>1. UNCHANGED <<leaf, wait, seen, wakes, job>>
      BY <2>5 DEF LeaseLapses
    <3> QED BY <2>1, <3>1, GoesOnOwed
  <2>6. CASE Segment(r)
    BY <2>6, SegmentOwed
  <2> QED BY <1>4, <2>2, <2>3, <2>4, <2>5, <2>6 DEF Step
<1>5. CASE UNCHANGED vars
  BY <1>5 DEF vars, OwedInv, Owed, ToRead, On, Logged, Seqs
<1> QED BY <1>1, <1>2, <1>3, <1>4, <1>5 DEF Next

\* Where a movement's awaits on one record come one after the other, a leaf
\* parked on a wait with an arrival to read has a row that will resume it: the
\* log woke the park, or the commit's read after it saw the arrival
\* (log_arrivals, commit_segment, drain).
THEOREM InTurnWakes ==
    ASSUME InTurn
    PROVE  Spec => []WakeOwed
<1>1. Init => OwedInv
  BY DEF Init, OwedInv, Owed
<1>2. TypeInv /\ TurnInv /\ OwedInv /\ [Next]_vars => OwedInv'
  BY NextKeepsOwed
<1>3. OwedInv => WakeOwed
  BY DEF OwedInv, Owed, WakeOwed
<1> QED BY <1>1, <1>2, <1>3, TypeInvAlways, TurnInvAlways, PTL DEF Spec

-----------------------------------------------------------------------------
(* What counted is bound. *)

\* A note that counted when it was made: it matched, and the identity's newest
\* note before it did not.
Counted(notes, n) ==
    /\ n.matched
    /\ ~\E m \in notes : /\ m.id = n.id /\ m.nth < n.nth /\ m.matched
                         /\ \A e \in notes : e.id = n.id /\ e.nth < n.nth => e.nth <= m.nth

InBound(bound, k, n) == \E i \in DOMAIN bound : bound[i].rec = k /\ bound[i].id = n.id /\ bound[i].ver = n.ver

\* What counted is bound by the progress kept, or by the segment that noted it.
AnswersOf(r) ==
    \A k \in Records : \A n \in seen[r][k] : Counted(seen[r][k], n) =>
        /\ run[r].status = "parked" /\ n.by = Nowhere => InBound(run[r].bound, k, n)
        /\ job[r].on /\ run[r].status # "ended" /\ n.by = job[r].by =>
              InBound(run[r].bound, k, n) \/ InBound(job[r].bound, k, n)

AnswersInv == \A r \in Runs : AnswersOf(r)

LEMMA AnswersInvImpliesAnswersKept == TypeInv /\ AnswersInv => AnswersKept
<1> SUFFICES ASSUME TypeInv, AnswersInv, NEW r \in Runs, ~job[r].on, run[r].status = "parked",
                    NEW k \in Records, NEW n \in seen[r][k], n.by = Nowhere, n.matched,
                    LET earlier == {m \in seen[r][k] : m.id = n.id /\ m.nth < n.nth}
                    IN  ~\E m \in earlier : m.matched /\ \A e \in earlier : e.nth <= m.nth
             PROVE  \E b \in Range(run[r].bound) : b.rec = k /\ SameVersion(b, n)
  BY DEF AnswersKept
<1>1. Counted(seen[r][k], n)
  BY DEF Counted
<1>2. InBound(run[r].bound, k, n)
  BY <1>1 DEF AnswersInv, AnswersOf
<1> QED BY <1>2 DEF InBound, Range, SameVersion

\* A step that notes nothing, and whose process binds as before, or is over.
LEMMA AnswersSame ==
    ASSUME NEW r \in Runs, AnswersOf(r), seen'[r] = seen[r],
           run'[r].bound = run[r].bound, run'[r].status = run[r].status,
           job'[r].on => job[r].on /\ job'[r].by = job[r].by /\ job'[r].bound = job[r].bound
    PROVE  AnswersOf(r)'
BY DEF AnswersOf

\* A note newer than the others changes nothing of what counted among them.
LEMMA CountedSame ==
    ASSUME NEW notes \in SUBSET Notes, NEW n \in notes, NEW new \in Notes, \A m \in notes : m.nth < new.nth
    PROVE  Counted(notes \cup {new}, n) <=> Counted(notes, n)
<1>1. n.nth < new.nth /\ n.nth \in Nat /\ new.nth \in Nat
  BY DEF Notes
<1>2. ~(new.nth < n.nth)
  BY <1>1
<1> QED BY <1>2 DEF Counted

LEMMA NotedAnswers ==
    ASSUME TypeInv, NEW r \in Runs, TurnOf(r), AnswersOf(r), job[r].on, NEW k \in Records,
           NEW x \in Reports, ~x.gone, NEW matched \in BOOLEAN, seen' = Note(r, k, x, matched),
           run' = run, job'[r].on, job'[r].by = job[r].by,
           \A i \in DOMAIN job[r].bound : i \in DOMAIN job'[r].bound /\ job'[r].bound[i] = job[r].bound[i],
           matched /\ ~Noted(r, k, x) /\ ~MatchedBefore(r, k, x.id) =>
              \E i \in DOMAIN job'[r].bound :
                 job'[r].bound[i].rec = k /\ job'[r].bound[i].id = x.id /\ job'[r].bound[i].ver = x.ver
    PROVE  AnswersOf(r)'
<1>1. \A q \in Records : \A n \in seen[r][q] : InBound(job[r].bound, q, n) => InBound(job'[r].bound, q, n)
  BY DEF InBound
<1>2. CASE Noted(r, k, x)
  <2>1. seen' = seen
    BY <1>2 DEF Note
  <2> QED BY <1>1, <2>1 DEF AnswersOf
<1>3. CASE ~Noted(r, k, x)
  <2>1. PICK new \in Notes : /\ seen'[r][k] = seen[r][k] \cup {new}
                             /\ new.id = x.id /\ new.ver = x.ver /\ new.matched = matched /\ new.by = job[r].by
                             /\ \A m \in seen[r][k] : m.nth < new.nth
    BY <1>3, NoteIs
  <2>2. \A q \in Records : q # k => seen'[r][q] = seen[r][q]
    BY NoteIs
  <2>3. seen[r][k] \in SUBSET Notes
    BY RunIs DEF NotesTypes
  <2>4. ASSUME NEW q \in Records, NEW n \in seen[r][q], Counted(seen'[r][q], n) PROVE Counted(seen[r][q], n)
    <3>1. CASE q = k
      BY <2>1, <2>3, <2>4, <3>1, CountedSame
    <3>2. CASE q # k
      BY <2>2, <2>4, <3>2
    <3> QED BY <3>1, <3>2
  <2>5. ASSUME Counted(seen'[r][k], new)
        PROVE  InBound(job'[r].bound, k, new) /\ (new.by # Nowhere \/ run[r].status # "parked")
    <3>1. matched
      BY <2>1, <2>5 DEF Counted
    <3>2. ~MatchedBefore(r, k, x.id)
      <4> SUFFICES ASSUME NEW m \in seen[r][k], m.id = x.id, m.matched,
                          \A e \in seen[r][k] : e.id = x.id => e.nth <= m.nth
                   PROVE  FALSE
        BY DEF MatchedBefore
      <4>1. m.nth < new.nth
        BY <2>1
      <4>2. \A e \in seen'[r][k] : e.id = new.id /\ e.nth < new.nth => e.nth <= m.nth
        <5> SUFFICES ASSUME NEW e \in seen'[r][k], e.id = new.id, e.nth < new.nth PROVE e.nth <= m.nth
          OBVIOUS
        <5>1. e # new
          BY DEF Notes
        <5> QED BY <2>1, <5>1
      <4> QED BY <2>1, <2>5, <4>1, <4>2 DEF Counted
    <3>3. InBound(job'[r].bound, k, new)
      BY <1>3, <2>1, <3>1, <3>2 DEF InBound
    <3>4. new.by # Nowhere \/ run[r].status # "parked"
      BY <2>1 DEF TurnOf, SegmentOf
    <3> QED BY <3>3, <3>4
  <2>6. ASSUME NEW q \in Records, NEW n \in seen'[r][q], Counted(seen'[r][q], n)
        PROVE  /\ run'[r].status = "parked" /\ n.by = Nowhere => InBound(run'[r].bound, q, n)
               /\ job'[r].on /\ run'[r].status # "ended" /\ n.by = job'[r].by =>
                    InBound(run'[r].bound, q, n) \/ InBound(job'[r].bound, q, n)
    <3>1. CASE n \in seen[r][q]
      BY <1>1, <2>4, <2>6, <3>1 DEF AnswersOf
    <3>2. CASE n \notin seen[r][q]
      <4>1. q = k /\ n = new
        BY <2>1, <2>2, <2>6, <3>2
      <4> QED BY <2>5, <2>6, <4>1
    <3> QED BY <3>1, <3>2
  <2> QED BY <2>6 DEF AnswersOf
<1> QED BY <1>2, <1>3

LEMMA AppendHas ==
    ASSUME NEW s \in Seq(Bounds), NEW b \in Bounds
    PROVE  /\ \A i \in DOMAIN s : i \in DOMAIN Append(s, b) /\ Append(s, b)[i] = s[i]
           /\ \E i \in DOMAIN Append(s, b) : Append(s, b)[i] = b
<1>1. /\ DOMAIN Append(s, b) = 1 .. Len(s) + 1 /\ DOMAIN s = 1 .. Len(s) /\ Len(s) \in Nat
      /\ \A i \in 1 .. Len(s) : Append(s, b)[i] = s[i]
      /\ Append(s, b)[Len(s) + 1] = b
  OBVIOUS
<1>2. Len(s) + 1 \in DOMAIN Append(s, b)
  BY <1>1
<1> QED BY <1>1, <1>2

LEMMA ConcatHas ==
    ASSUME NEW s \in Seq(Bounds), NEW t \in Seq(Bounds)
    PROVE  /\ \A i \in DOMAIN s : \E j \in DOMAIN (s \o t) : (s \o t)[j] = s[i]
           /\ \A i \in DOMAIN t : \E j \in DOMAIN (s \o t) : (s \o t)[j] = t[i]
<1>1. /\ DOMAIN (s \o t) = 1 .. Len(s) + Len(t) /\ DOMAIN s = 1 .. Len(s) /\ DOMAIN t = 1 .. Len(t)
      /\ Len(s) \in Nat /\ Len(t) \in Nat
      /\ \A i \in 1 .. Len(s) : (s \o t)[i] = s[i]
      /\ \A i \in Len(s) + 1 .. Len(s) + Len(t) : (s \o t)[i] = t[i - Len(s)]
  OBVIOUS
<1>2. ASSUME NEW i \in DOMAIN s PROVE \E j \in DOMAIN (s \o t) : (s \o t)[j] = s[i]
  BY <1>1, <1>2
<1>3. ASSUME NEW i \in DOMAIN t PROVE \E j \in DOMAIN (s \o t) : (s \o t)[j] = t[i]
  <2>1. /\ Len(s) + i \in Len(s) + 1 .. Len(s) + Len(t) /\ Len(s) + i - Len(s) = i
        /\ Len(s) + i \in 1 .. Len(s) + Len(t)
    BY <1>1, <1>3
  <2>2. (s \o t)[Len(s) + i] = t[i]
    BY <1>1, <2>1
  <2> QED BY <1>1, <2>1, <2>2
<1> QED BY <1>2, <1>3

LEMMA BindListedAnswers ==
    ASSUME TypeInv, NEW r \in Runs, TurnOf(r), AnswersOf(r), NEW a \in Addresses, NEW s \in Seqs, BindListed(r, a, s)
    PROVE  AnswersOf(r)'
<1>1. StepOf(r) /\ Reaches(r, a) /\ run' = run
  BY BindListedIs
<1>2. PICK x \in Reports : x = reported[s] /\ ~x.gone /\ x.rec = AwaitOf[a]
  <2>1. reported[s] \in Reports /\ ~reported[s].gone
    BY BindListedIs
  <2> QED BY <2>1 DEF BindListed
<1>3. seen' = Note(r, AwaitOf[a], x, TRUE) /\ AwaitOf[a] \in Records /\ job[r].on
  BY <1>1, <1>2, AwaitsAssumption DEF BindListed, Reaches, Between
<1>4. PICK b \in Bounds : b = Bound(x, a, TRUE)
  BY <1>2, BoundIs
<1>5. b.rec = x.rec /\ b.id = x.id /\ b.ver = x.ver
  BY <1>4 DEF Bound
<1>6. /\ job'[r].bound = Append(job[r].bound, b) /\ job[r].bound \in Seq(Bounds)
      /\ job'[r].on = job[r].on /\ job'[r].by = job[r].by
  <2>1. job' = [job EXCEPT ![r].done = @ \cup {a}, ![r].bound = Append(@, b)]
    BY <1>2, <1>4 DEF BindListed
  <2>2. job \in [Runs -> JobTypes] /\ job[r] \in JobTypes
    BY RunIs DEF TypeInv, Typed, JobsTyped
  <2> QED BY <2>1, <2>2 DEF JobTypes
<1>7. /\ \A i \in DOMAIN job[r].bound : i \in DOMAIN job'[r].bound /\ job'[r].bound[i] = job[r].bound[i]
      /\ \E i \in DOMAIN job'[r].bound : job'[r].bound[i] = b
  BY <1>6, AppendHas
<1> QED BY <1>1, <1>2, <1>3, <1>5, <1>6, <1>7, NotedAnswers

LEMMA JudgeAnswers ==
    ASSUME TypeInv, NEW r \in Runs, TurnOf(r), AnswersOf(r), \E matched \in BOOLEAN : Judge(r, matched)
    PROVE  AnswersOf(r)'
<1>1. /\ run' = run /\ job[r].on /\ SameStep(job'[r], job[r]) /\ job[r].at \in Addresses
      /\ AwaitOf[job[r].at] \in Records
  <2>1. run' = run /\ job[r].on /\ SameStep(job'[r], job[r])
    BY ZenonT(60), JudgeIs
  <2>2. job[r].at \in Addresses
    BY ZenonT(60), JudgeIs
  <2> QED BY <2>1, <2>2, AwaitsAssumption
<1>2. PICK s \in job[r].todo : s = Min(job[r].todo) /\ reported[s] \in Reports /\ ~reported[s].gone
  BY ZenonT(60), JudgeIs
<1>3. PICK x \in Reports : x = reported[s] /\ ~x.gone /\ x.rec = AwaitOf[job[r].at]
  BY <1>2, RunIs DEF JobStands
<1>4. PICK matched \in BOOLEAN : Judge(r, matched)
  OBVIOUS
<1>5. seen' = Note(r, AwaitOf[job[r].at], x, matched)
  BY <1>2, <1>3, <1>4 DEF Judge
<1>6. job \in [Runs -> JobTypes] /\ job[r] \in JobTypes /\ job[r].bound \in Seq(Bounds)
  BY RunIs DEF TypeInv, Typed, JobsTyped, JobTypes
<1>7. CASE matched /\ ~Noted(r, AwaitOf[job[r].at], x) /\ ~MatchedBefore(r, AwaitOf[job[r].at], x.id)
  <2>1. PICK b \in Bounds : b = Bound(x, job[r].at, FALSE)
    BY <1>1, <1>3, BoundIs
  <2>2. b.rec = x.rec /\ b.id = x.id /\ b.ver = x.ver
    BY <2>1 DEF Bound
  <2>3. job'[r].bound = Append(job[r].bound, b)
    <3>1. Counts(r, AwaitOf[job[r].at], x, matched)
      BY <1>7 DEF Counts
    <3>2. job' = [job EXCEPT ![r].at = Nowhere, ![r].todo = {}, ![r].done = @ \cup {job[r].at},
                             ![r].bound = Append(@, b)]
      BY <1>2, <1>3, <1>4, <3>1, <2>1 DEF Judge
    <3> QED BY <1>6, <3>2 DEF JobTypes
  <2>4. /\ \A i \in DOMAIN job[r].bound : i \in DOMAIN job'[r].bound /\ job'[r].bound[i] = job[r].bound[i]
        /\ \E i \in DOMAIN job'[r].bound : job'[r].bound[i] = b
    BY <1>6, <2>3, AppendHas
  <2> QED BY <1>1, <1>3, <1>5, <2>2, <2>4, NotedAnswers DEF SameStep
<1>8. CASE ~(matched /\ ~Noted(r, AwaitOf[job[r].at], x) /\ ~MatchedBefore(r, AwaitOf[job[r].at], x.id))
  <2>1. job'[r].bound = job[r].bound
    <3>1. ~Counts(r, AwaitOf[job[r].at], x, matched)
      BY <1>8 DEF Counts
    <3>2. job' = [job EXCEPT ![r].todo = @ \ {s}]
      BY <1>2, <1>3, <1>4, <3>1 DEF Judge
    <3> QED BY <1>6, <3>2 DEF JobTypes
  <2> QED BY <1>1, <1>3, <1>5, <1>8, <2>1, NotedAnswers DEF SameStep
<1> QED BY <1>7, <1>8

\* What counted of the notes kept had counted.
LEMMA CommitAnswers ==
    ASSUME TypeInv, NEW r \in Runs, TurnOf(r), AnswersOf(r),
           NEW order \in SetToSeqs(job[r].parks), Commit(r, order)
    PROVE  AnswersOf(r)'
<1>1. /\ run[r].bound \in Seq(Bounds) /\ job[r].bound \in Seq(Bounds) /\ job[r].on
      /\ run'[r].status \in {"ended", "parked"} /\ (run'[r].status # "ended" => ~job'[r].on)
      /\ run'[r].bound = run[r].bound \o job[r].bound /\ run[r].status \in {"running", "parked"}
  <2>1. run[r].bound \in Seq(Bounds) /\ job[r].bound \in Seq(Bounds) /\ run'[r].bound = run[r].bound \o job[r].bound
    BY CommitRunIs, RunIs DEF RunTypes, JobTypes
  <2>2. job[r].on /\ (run'[r].status # "ended" => ~job'[r].on)
    BY CommitIs, IdleIs DEF Between
  <2>3. run[r].status \in {"running", "parked"}
    BY CommitIs, UnderWay DEF Between
  <2> QED BY <2>1, <2>2, <2>3, CommitRunIs
<1>2. CASE run'[r].status = "ended"
  BY <1>1, <1>2 DEF AnswersOf
<1>3. CASE run'[r].status # "ended"
  <2>0. ASSUME NEW k \in Records, NEW p \in seen[r][k]
        PROVE  \E q \in seen'[r][k] : q.id = p.id /\ q.matched = p.matched /\ q.nth = p.nth
    BY <1>3, NotesKept
  <2>1. ASSUME NEW k \in Records, NEW m \in seen'[r][k], Counted(seen'[r][k], m), m.by = Nowhere
        PROVE  InBound(run'[r].bound, k, m)
    <3>1. PICK n \in seen[r][k] :
             /\ m.id = n.id /\ m.ver = n.ver /\ m.matched = n.matched /\ m.nth = n.nth
             /\ m.by = IF n.by \in {job[r].by} \cup job[r].parks THEN Nowhere ELSE n.by
      BY <1>3, NotesKept
    <3>2. Counted(seen[r][k], n)
      <4> SUFFICES ASSUME NEW p \in seen[r][k], p.id = n.id, p.nth < n.nth, p.matched,
                          \A e \in seen[r][k] : e.id = n.id /\ e.nth < n.nth => e.nth <= p.nth
                   PROVE  FALSE
        BY <2>1, <3>1 DEF Counted
      <4>1. PICK q \in seen'[r][k] : q.id = p.id /\ q.matched = p.matched /\ q.nth = p.nth
        BY <2>0
      <4>2. ASSUME NEW e \in seen'[r][k], e.id = m.id, e.nth < m.nth PROVE e.nth <= q.nth
        <5>1. PICK f \in seen[r][k] : e.id = f.id /\ e.nth = f.nth
          BY <1>3, NotesKept
        <5> QED BY <3>1, <4>1, <4>2, <5>1
      <4> QED BY <2>1, <3>1, <4>1, <4>2 DEF Counted
    <3>3. n.by \in {Nowhere, job[r].by}
      <4> SUFFICES ASSUME n.by # Nowhere, n.by # job[r].by PROVE FALSE
        OBVIOUS
      <4>1. n.by \in job[r].parks
        BY <2>1, <3>1
      <4>2. AtOf(r, n.by)
        BY <1>1, <4>1 DEF TurnOf, SegmentOf, Reached
      <4> QED BY <4>2 DEF TurnOf, NotesOf, AtOf
    <3>4. InBound(run[r].bound, k, n) \/ InBound(job[r].bound, k, n)
      <4>1. CASE n.by = job[r].by
        BY <1>1, <3>2, <4>1 DEF AnswersOf
      <4>2. CASE n.by = Nowhere /\ job[r].by # Nowhere
        <5>1. job[r].by \in Addresses /\ leaf[r][job[r].by] # "none"
          BY <1>1, <4>2, RunIs DEF TurnOf, SegmentOf, JobTypes
        <5>2. run[r].status = "parked"
          BY <5>1, RunIs DEF WaitStands
        <5> QED BY <3>2, <4>2, <5>2 DEF AnswersOf
      <4> QED BY <3>3, <4>1, <4>2
    <3>5. InBound(run'[r].bound, k, n)
      <4>1. CASE InBound(run[r].bound, k, n)
        <5>1. PICK i \in DOMAIN run[r].bound :
                 run[r].bound[i].rec = k /\ run[r].bound[i].id = n.id /\ run[r].bound[i].ver = n.ver
          BY <4>1 DEF InBound
        <5>2. PICK j \in DOMAIN run'[r].bound : run'[r].bound[j] = run[r].bound[i]
          <6>1. PICK s \in Seq(Bounds), t \in Seq(Bounds) : s = run[r].bound /\ t = job[r].bound
            BY <1>1
          <6>2. \E j \in DOMAIN (s \o t) : (s \o t)[j] = s[i]
            BY <5>1, <6>1, ConcatHas
          <6> QED BY <1>1, <6>1, <6>2
        <5> QED BY <5>1, <5>2 DEF InBound
      <4>2. CASE InBound(job[r].bound, k, n)
        <5>1. PICK i \in DOMAIN job[r].bound :
                 job[r].bound[i].rec = k /\ job[r].bound[i].id = n.id /\ job[r].bound[i].ver = n.ver
          BY <4>2 DEF InBound
        <5>2. PICK j \in DOMAIN run'[r].bound : run'[r].bound[j] = job[r].bound[i]
          <6>1. PICK s \in Seq(Bounds), t \in Seq(Bounds) : s = run[r].bound /\ t = job[r].bound
            BY <1>1
          <6>2. \E j \in DOMAIN (s \o t) : (s \o t)[j] = t[i]
            BY <5>1, <6>1, ConcatHas
          <6> QED BY <1>1, <6>1, <6>2
        <5> QED BY <5>1, <5>2 DEF InBound
      <4> QED BY <3>4, <4>1, <4>2
    <3> QED BY <3>1, <3>5 DEF InBound
  <2> QED BY <1>1, <2>1 DEF AnswersOf
<1> QED BY <1>2, <1>3

LEMMA SegmentAnswers ==
    ASSUME TypeInv, NEW r \in Runs, TurnOf(r), AnswersOf(r), Segment(r)
    PROVE  AnswersOf(r)'
<1>1. job \in [Runs -> JobTypes] /\ job[r] \in JobTypes
  BY RunIs DEF TypeInv, Typed, JobsTyped
<1>2. ASSUME NEW k \in Records, TakeMark(r, k) \/ Open(r, k) PROVE AnswersOf(r)'
  <2>1. UNCHANGED <<run, seen>>
    BY <1>2 DEF TakeMark, Open
  <2>2. job'[r].on = job[r].on /\ job'[r].bound = job[r].bound /\ job'[r].by = job[r].by
    BY <1>1, <1>2 DEF TakeMark, Open, JobTypes
  <2> QED BY <2>1, <2>2, AnswersSame
<1>3. ASSUME NEW a \in Addresses, Reach(r, a) PROVE AnswersOf(r)'
  <2>1. UNCHANGED <<run, seen>>
    BY <1>3 DEF Reach
  <2>2. job'[r].on = job[r].on /\ job'[r].bound = job[r].bound /\ job'[r].by = job[r].by
    BY <1>1, <1>3 DEF Reach, JobTypes
  <2> QED BY <2>1, <2>2, AnswersSame
<1>4. ASSUME HoldPark(r) PROVE AnswersOf(r)'
  <2>1. UNCHANGED <<run, seen>>
    BY <1>4 DEF HoldPark
  <2>2. job'[r].on = job[r].on /\ job'[r].bound = job[r].bound /\ job'[r].by = job[r].by
    BY <1>1, <1>4 DEF HoldPark, JobTypes
  <2> QED BY <2>1, <2>2, AnswersSame
<1>5. CASE \E a \in Addresses : \E s \in Seqs : BindListed(r, a, s)
  BY <1>5, BindListedAnswers
<1>6. CASE \E matched \in BOOLEAN : Judge(r, matched)
  BY <1>6, JudgeAnswers
<1>7. CASE \E order \in SetToSeqs(job[r].parks) : Commit(r, order)
  BY <1>7, CommitAnswers
<1> QED BY <1>2, <1>3, <1>4, <1>5, <1>6, <1>7 DEF Segment

\* The notes dropped as a leaf is claimed are newer than any kept.
LEMMA ResumeAnswers ==
    ASSUME TypeInv, NEW r \in Runs, TurnOf(r), AnswersOf(r), NEW a \in Addresses,
           \A k \in Records : seen'[r][k] = {n \in seen[r][k] : n.by # a},
           run[r].status = "parked", run'[r].bound = run[r].bound, job'[r].by = a
    PROVE  AnswersOf(r)'
<1>1. ASSUME NEW k \in Records, NEW n \in seen'[r][k], Counted(seen'[r][k], n), n.by = Nowhere
      PROVE  InBound(run[r].bound, k, n)
  <2>1. n \in seen[r][k] /\ n \in Notes /\ seen[r][k] \subseteq Notes
    BY <1>1, RunIs DEF NotesTypes
  <2>2. \A m \in seen[r][k] : m.by = a => n.nth < m.nth
    BY <2>1, <1>1, NowhereAssumption DEF TurnOf, NotesOf
  <2>3. \A m \in seen[r][k] : m.nth < n.nth => m \in seen'[r][k]
    <3> SUFFICES ASSUME NEW m \in seen[r][k], m.nth < n.nth PROVE m \in seen'[r][k]
      OBVIOUS
    <3>1. m.nth \in Nat /\ n.nth \in Nat
      BY <2>1 DEF Notes
    <3>2. m.by # a
      BY <2>2, <3>1
    <3> QED BY <3>2
  <2>4. Counted(seen[r][k], n)
    <3> SUFFICES ASSUME NEW p \in seen[r][k], p.id = n.id, p.nth < n.nth, p.matched,
                        \A e \in seen[r][k] : e.id = n.id /\ e.nth < n.nth => e.nth <= p.nth
                 PROVE  FALSE
      BY <1>1 DEF Counted
    <3>1. p \in seen'[r][k] /\ \A e \in seen'[r][k] : e \in seen[r][k]
      BY <2>3
    <3> QED BY <1>1, <3>1 DEF Counted
  <2> QED BY <1>1, <2>1, <2>4 DEF AnswersOf
<1>2. \A k \in Records : \A n \in seen'[r][k] : n.by # a
  OBVIOUS
<1> QED BY <1>1, <1>2 DEF AnswersOf

\* A step of a run's process leaves the others' as they are.
LEMMA StepAnswers ==
    ASSUME TypeInv, AnswersInv, NEW r \in Runs, StepOf(r), AnswersOf(r)'
    PROVE  AnswersInv'
<1>1. ASSUME NEW q \in Runs, q # r PROVE AnswersOf(q)'
  <2>1. run'[q] = run[q] /\ seen'[q] = seen[q] /\ job'[q] = job[q]
    BY <1>1, StepIs
  <2> QED BY <2>1, AnswersSame DEF AnswersInv
<1> QED BY <1>1 DEF AnswersInv

LEMMA NextKeepsAnswers ==
    ASSUME TypeInv, TurnInv, AnswersInv, [Next]_vars
    PROVE  AnswersInv'
<1>1. CASE UNCHANGED <<run, seen, job>>
  BY <1>1, AnswersSame DEF AnswersInv
<1>2. ASSUME NEW a \in Reports, NEW r \in Runs, Deliver(r, a) PROVE AnswersInv'
  <2>1. /\ run[r].status = "none"
        /\ run' = [run EXCEPT ![r].status = "queued", ![r].bound = <<Bound(a, Nowhere, TRUE)>>]
        /\ seen' = [seen EXCEPT ![r][Trigger] = PreNoted(a)] /\ job' = job
    BY <1>2 DEF Deliver
  <2>2. run \in [Runs -> RunTypes] /\ run[r] \in RunTypes /\ seen \in [Runs -> [Records -> SUBSET Notes]]
    BY RunIs DEF TypeInv, Typed, RunsTyped, WaitsTyped
  <2>3. run'[r].status = "queued" /\ ~job'[r].on
    BY <2>1, <2>2, RunIs DEF RunTypes, JobStands
  <2>4. AnswersOf(r)'
    BY <2>3 DEF AnswersOf
  <2>5. ASSUME NEW q \in Runs, q # r PROVE AnswersOf(q)'
    <3>1. run'[q] = run[q] /\ seen'[q] = seen[q] /\ job'[q] = job[q]
      BY <2>1, <2>2, <2>5
    <3> QED BY <3>1, AnswersSame DEF AnswersInv
  <2> QED BY <2>4, <2>5 DEF AnswersInv
<1>3. ASSUME NEW w \in wakes, Resume(w) PROVE AnswersInv'
  <2>1. PICK r \in Runs, a \in Addresses :
           /\ StepOf(r) /\ run[r].status = "parked" /\ run'[r].bound = run[r].bound
           /\ \A k \in Records : seen'[r][k] = {n \in seen[r][k] : n.by # a}
           /\ job'[r] = JobOf(a, {}, w)
    BY <1>3, ResumeIs
  <2>2. job'[r].by = a
    BY <2>1 DEF JobOf, Idle
  <2>3. AnswersOf(r)'
    BY <2>1, <2>2, ResumeAnswers DEF AnswersInv, TurnInv
  <2> QED BY <2>1, <2>3, StepAnswers
<1>4. ASSUME NEW r \in Runs, Step(r) PROVE AnswersInv'
  <2>1. StepOf(r) /\ TurnOf(r) /\ AnswersOf(r)
    BY <1>4, StepsStand DEF TurnInv, AnswersInv
  <2>2. CASE Start(r)
    <3>1. run[r].status \in {"none", "queued"} /\ seen' = seen
      BY <2>2 DEF Start
    <3>2. \A k \in Records : \A n \in seen'[r][k] : ~n.matched
      BY <2>1, <3>1 DEF TurnOf, FreshOf
    <3>3. AnswersOf(r)'
      BY <3>2 DEF AnswersOf, Counted
    <3> QED BY <2>1, <3>3, StepAnswers
  <2>3. CASE NeverStarts(r) \/ Drop(r)
    <3>1. \A k \in Records : seen'[r][k] = {}
      BY <2>3, NeverStartsIs, DropIs
    <3>2. AnswersOf(r)'
      BY <3>1 DEF AnswersOf
    <3> QED BY <2>1, <3>2, StepAnswers
  <2>7. CASE FailLost(r)
    <3>1. run'[r].status = "ended"
      BY <2>7, FailLostIs
    <3>2. AnswersOf(r)'
      BY <3>1 DEF AnswersOf
    <3> QED BY <2>1, <3>2, StepAnswers
  <2>4. CASE LosesRun(r) \/ Crash(r)
    <3>1. UNCHANGED <<run, seen>> /\ job'[r] = Idle
      BY <2>4, EndsIs
    <3>2. ~job'[r].on
      BY <3>1, IdleIs
    <3> QED BY <2>1, <3>1, <3>2, AnswersSame, StepAnswers
  <2>5. CASE LeaseLapses(r)
    <3>1. UNCHANGED <<seen, job>> /\ run'[r] = [run[r] EXCEPT !.lease = "lapsed"]
      BY <2>5, LeaseLapsesIs
    <3>2. run'[r].status = run[r].status /\ run'[r].bound = run[r].bound
      BY <3>1, RunIs DEF RunTypes
    <3> QED BY <2>1, <3>1, <3>2, AnswersSame, StepAnswers
  <2>6. CASE Segment(r)
    BY <2>1, <2>6, SegmentAnswers, StepAnswers
  <2> QED BY <1>4, <2>2, <2>3, <2>4, <2>5, <2>6, <2>7 DEF Step
<1>5. (\E a \in Reports : BeginLog(a)) => UNCHANGED <<run, seen, job>>
  BY DEF BeginLog
<1>6. (\E s \in flight : EndLog(s)) \/ (\E x \in known : WindowEnds(x)) => UNCHANGED <<run, seen, job>>
  BY DEF EndLog, WindowEnds
<1>7. Sweep \/ (\E w \in wakes : RowFindsNothing(w)) \/ UNCHANGED vars => UNCHANGED <<run, seen, job>>
  BY DEF Sweep, RowFindsNothing, vars
<1> QED BY <1>1, <1>2, <1>3, <1>4, <1>5, <1>6, <1>7 DEF Next, Log

\* Where a movement's awaits on one record come one after the other, an arrival
\* noted as counting was bound by progress the run kept: none is used up by a
\* segment that died (drop_leaf_notes, keep_leaf_notes).
THEOREM InTurnKeepsAnswers ==
    ASSUME InTurn
    PROVE  Spec => []AnswersKept
<1>1. Init => AnswersInv
  BY DEF Init, AnswersInv, AnswersOf
<1>2. TypeInv /\ TurnInv /\ AnswersInv /\ [Next]_vars => AnswersInv'
  BY NextKeepsAnswers
<1> QED BY <1>1, <1>2, AnswersInvImpliesAnswersKept, TypeInvAlways, TurnInvAlways, PTL DEF Spec
=============================================================================
