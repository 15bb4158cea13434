------------------------ MODULE LeaseRecoveryProofs ------------------------
(***************************************************************************)
(* Fencing tokens, takeovers of expired leases only and the completeness   *)
(* of the paged scan, for any number of executions, owners and processes   *)
(* and any scan policy.                                                    *)
(***************************************************************************)
EXTENDS LeaseRecovery, FiniteSetTheorems, TLAPS

\* A sweep works with a cutoff that is past.
CutoffPast == \A s \in Sweepers : sweep[s].cutoff <= now

\* No activation is ahead of its row's generation.
TokensBelow == \A h \in held : h.gen <= row[h.exec].gen

\* The inductive invariant.
IInv == TypeOK /\ CutoffPast /\ TokensBelow /\ FencingTokensUnique /\ ScanMissesNothing

----------------------------------------------------------------------------
(* The scan order *)

\* Execution f comes after e in scan order.
Succeeds(f, e) == Precedes(row[e].expiry, e, row[f].expiry, f)

\* A leased row has a number for its expiry.
LEMMA LeasedExpiry ==
    ASSUME TypeOK, NEW e \in Executions, Leased(e)
    PROVE  row[e].expiry \in Nat /\ row[e].owner \in Owners
BY DEF TypeOK, RowType, LeaseShape, Leased

\* Scan order is a strict total order on leased rows.
LEMMA ScanOrder ==
    ASSUME TypeOK, NEW e \in Executions, NEW f \in Executions, NEW g \in Executions,
           Leased(e), Leased(f), Leased(g)
    PROVE  /\ ~Succeeds(e, e)
           /\ e = f \/ Succeeds(e, f) \/ Succeeds(f, e)
           /\ Succeeds(g, f) /\ Succeeds(f, e) => Succeeds(g, e)
<1>1. row[e].expiry \in Nat /\ row[f].expiry \in Nat /\ row[g].expiry \in Nat
  BY LeasedExpiry
<1>2. e \in Nat /\ f \in Nat /\ g \in Nat
  BY SetsAssumption
<1> QED
  BY <1>1, <1>2 DEF Succeeds, Precedes

\* A nonempty set of leased rows has a last one in scan order.
LEMMA LastExists ==
    ASSUME TypeOK, NEW P \in SUBSET Executions, P # {}, \A e \in P : Leased(e)
    PROVE  \E x \in P : \A y \in P \ {x} : Succeeds(x, y)
<1> DEFINE Later(x) == {y \in P : Succeeds(y, x)}
           T == {Later(x) : x \in P}
<1>1. T \subseteq FiniteSubsetsOf(Executions) /\ T # {}
  <2>1. ASSUME NEW x \in P PROVE Later(x) \in FiniteSubsetsOf(Executions)
    <3>1. Later(x) \in SUBSET Executions
      OBVIOUS
    <3>2. IsFiniteSet(Later(x))
      BY <3>1, SetsAssumption, FS_Subset
    <3> QED
      BY <3>1, <3>2 DEF FiniteSubsetsOf
  <2> QED
    BY Zenon, <2>1
<1>2. IsWellFoundedOn(StrictSubsetOrdering(Executions), FiniteSubsetsOf(Executions))
  BY FS_StrictSubsetOrderingWellFounded
<1>3. \E L \in T : \A K \in T : ~(<<K, L>> \in StrictSubsetOrdering(Executions))
  <2> HIDE DEF T
  <2> QED
    BY <1>1, <1>2, WFMin
<1>4. PICK x \in P : \A K \in T : ~(<<K, Later(x)>> \in StrictSubsetOrdering(Executions))
  BY Zenon, <1>3
<1>5. ASSUME NEW y \in P, Succeeds(y, x) PROVE FALSE
  <2>1. Later(y) \subseteq Later(x)
    BY <1>5, ScanOrder
  <2>2. y \in Later(x) /\ y \notin Later(y)
    BY <1>5, ScanOrder
  <2>3. Later(y) \in SUBSET Executions /\ Later(x) \in SUBSET Executions
    OBVIOUS
  <2>4. Later(y) \in T
    OBVIOUS
  <2>5. <<Later(y), Later(x)>> \in StrictSubsetOrdering(Executions)
    <3> HIDE DEF Later
    <3> QED
      BY <2>1, <2>2, <2>3 DEF StrictSubsetOrdering
  <2> QED
    BY <1>4, <2>4, <2>5
<1>6. \A y \in P \ {x} : Succeeds(x, y)
  BY <1>5, ScanOrder
<1> QED
  BY <1>6

\* The last position of a nonempty page is that of its last row.
LEMMA LastOfPage ==
    ASSUME TypeOK, NEW P \in SUBSET Executions, P # {}, \A e \in P : Leased(e), NEW a
    PROVE  \E x \in P : /\ LastOf(P, a) = <<row[x].expiry, x>>
                        /\ \A y \in P \ {x} : Succeeds(x, y)
<1> DEFINE e == CHOOSE x \in P : \A y \in P \ {x} : Succeeds(x, y)
<1>1. e \in P /\ \A y \in P \ {e} : Succeeds(e, y)
  BY SMTT(60), LastExists
<1>2. LastOf(P, a) = <<row[e].expiry, e>>
  BY SMTT(60) DEF LastOf, Succeeds
<1> QED
  BY Zenon, <1>1, <1>2

\* The rows of a page are leased executions.
LEMMA PageType ==
    ASSUME NEW s, NEW n
    PROVE  /\ Page(s, n) \subseteq Candidates(s)
           /\ Candidates(s) \in SUBSET Executions
           /\ \A e \in Candidates(s) : Leased(e)
BY DEF Page, Candidates, Expired

\* A page is an initial part of the candidates: it leaves none out before one it
\* contains.
LEMMA PageInitial ==
    ASSUME TypeOK, NEW s \in Sweepers, NEW n \in Int,
           NEW e \in Candidates(s), NEW f \in Page(s, n), Succeeds(f, e)
    PROVE  e \in Page(s, n)
<1> DEFINE Before(x) == {g \in Candidates(s) : Precedes(row[g].expiry, g, row[x].expiry, x)}
<1>1. f \in Candidates(s) /\ Cardinality(Before(f)) < n
  BY DEF Page
<1>2. Before(e) \in SUBSET Before(f)
  BY <1>1, PageType, ScanOrder DEF Succeeds
<1>3. Before(f) \in SUBSET Executions
  BY PageType
<1>4. IsFiniteSet(Before(f)) /\ IsFiniteSet(Before(e))
  BY <1>2, <1>3, SetsAssumption, FS_Subset
<1>5. Cardinality(Before(e)) <= Cardinality(Before(f))
  <2> HIDE DEF Before
  <2> QED
    BY <1>2, <1>4, FS_Subset
<1>6. Cardinality(Before(e)) \in Nat /\ Cardinality(Before(f)) \in Nat
  <2> HIDE DEF Before
  <2> QED
    BY <1>4, FS_CardinalityType
<1>7. Cardinality(Before(e)) < n
  <2> HIDE DEF Before
  <2> QED
    BY <1>1, <1>5, <1>6
<1> QED
  BY <1>7 DEF Page

\* A nonempty set of leased rows has a first one in scan order.
LEMMA FirstExists ==
    ASSUME TypeOK, NEW P \in SUBSET Executions, P # {}, \A e \in P : Leased(e)
    PROVE  \E x \in P : \A y \in P : ~Succeeds(x, y)
<1> DEFINE Earlier(x) == {y \in P : Succeeds(x, y)}
           T == {Earlier(x) : x \in P}
<1>1. T \subseteq FiniteSubsetsOf(Executions) /\ T # {}
  <2>1. ASSUME NEW x \in P PROVE Earlier(x) \in FiniteSubsetsOf(Executions)
    <3>1. Earlier(x) \in SUBSET Executions
      OBVIOUS
    <3>2. IsFiniteSet(Earlier(x))
      BY <3>1, SetsAssumption, FS_Subset
    <3> QED
      BY <3>1, <3>2 DEF FiniteSubsetsOf
  <2> QED
    BY Zenon, <2>1
<1>2. IsWellFoundedOn(StrictSubsetOrdering(Executions), FiniteSubsetsOf(Executions))
  BY FS_StrictSubsetOrderingWellFounded
<1>3. \E L \in T : \A K \in T : ~(<<K, L>> \in StrictSubsetOrdering(Executions))
  <2> HIDE DEF T
  <2> QED
    BY <1>1, <1>2, WFMin
<1>4. PICK x \in P : \A K \in T : ~(<<K, Earlier(x)>> \in StrictSubsetOrdering(Executions))
  BY Zenon, <1>3
<1>5. ASSUME NEW y \in P, Succeeds(x, y) PROVE FALSE
  <2>1. Earlier(y) \subseteq Earlier(x)
    BY <1>5, ScanOrder
  <2>2. y \in Earlier(x) /\ y \notin Earlier(y)
    BY <1>5, ScanOrder
  <2>3. Earlier(y) \in SUBSET Executions /\ Earlier(x) \in SUBSET Executions
    OBVIOUS
  <2>4. Earlier(y) \in T
    OBVIOUS
  <2>5. <<Earlier(y), Earlier(x)>> \in StrictSubsetOrdering(Executions)
    <3> HIDE DEF Earlier
    <3> QED
      BY <2>1, <2>2, <2>3 DEF StrictSubsetOrdering
  <2> QED
    BY <1>4, <2>4, <2>5
<1> QED
  BY <1>5

\* A short page contains every candidate: the first one it left out would have had
\* fewer than the requested number before it.
LEMMA ShortPageIsAll ==
    ASSUME TypeOK, NEW s \in Sweepers, NEW n \in Int, Cardinality(Page(s, n)) < n
    PROVE  Candidates(s) \subseteq Page(s, n)
<1> DEFINE C == Candidates(s)
           P == Page(s, n)
           Before(x) == {g \in C : Precedes(row[g].expiry, g, row[x].expiry, x)}
<1>1. C \in SUBSET Executions /\ P \subseteq C /\ \A e \in C : Leased(e)
  BY PageType
<1> SUFFICES ASSUME C \ P # {} PROVE FALSE
  OBVIOUS
<1>2. PICK x \in C \ P : \A y \in C \ P : ~Succeeds(x, y)
  <2>1. C \ P \in SUBSET Executions /\ \A e \in C \ P : Leased(e)
    BY <1>1
  <2> HIDE DEF C, P
  <2> QED
    BY Zenon, <2>1, FirstExists
<1>3. Before(x) \in SUBSET P
  BY <1>2 DEF Succeeds
<1>4. IsFiniteSet(P)
  <2> HIDE DEF P
  <2> QED
    BY <1>1, SetsAssumption, FS_Subset
<1>5. IsFiniteSet(Before(x)) /\ Cardinality(Before(x)) <= Cardinality(P)
  <2> HIDE DEF Before, P
  <2> QED
    BY <1>3, <1>4, FS_Subset
<1>6. Cardinality(Before(x)) \in Nat /\ Cardinality(P) \in Nat
  <2> HIDE DEF Before, P
  <2> QED
    BY <1>4, <1>5, FS_CardinalityType
<1>7. Cardinality(Before(x)) < n
  <2> HIDE DEF Before
  <2> QED
    BY <1>5, <1>6
<1>8. x \in Page(s, n)
  BY <1>2, <1>7 DEF Page
<1> QED
  BY <1>2, <1>8

----------------------------------------------------------------------------
(* Steps *)

\* What a step may do to a row's lease: leave it, end it, or have it expire later
\* than now.
RowMoves(e) ==
    \/ row'[e] = row[e]
    \/ row'[e].state # "RUNNING" \/ row'[e].owner = None \/ now < row'[e].expiry

\* The step gives up the sweep of s, or leaves what it has gone through and
\* observed as it is.
ScanKept(s) ==
    \/ sweep'[s].pc = "idle"
    \/ /\ sweep[s].pc # "idle"
       /\ sweep'[s].cutoff = sweep[s].cutoff /\ sweep'[s].start = sweep[s].start
       /\ sweep'[s].after = sweep[s].after /\ sweep'[s].exhausted = sweep[s].exhausted
       /\ sweep'[s].found = sweep[s].found

LEMMA ScansUnmoved ==
    ASSUME sweep' = sweep
    PROVE  \A s \in Sweepers : ScanKept(s)
BY Zenon DEF ScanKept

\* A sweep that a step leaves alone, with all rows, is as complete as it was.
LEMMA OtherScanKept ==
    ASSUME ScanMissesNothing, row' = row, NEW t \in Sweepers, sweep'[t] = sweep[t],
           sweep'[t].pc # "idle",
           NEW e \in Executions \ Malformed,
           Expired(e, sweep[t].cutoff)', GonePast(t, e)'
    PROVE  Receipt(e)' \in sweep'[t].found
<1>1. Expired(e, sweep[t].cutoff)
  BY Zenon DEF Expired, Leased
<1>2. Beyond(e, sweep[t].start) /\ (Beyond(e, sweep[t].after)' <=> Beyond(e, sweep[t].after))
  BY Zenon DEF GonePast, Beyond
<1>3. GonePast(t, e)
  BY Zenon, <1>2 DEF GonePast
<1>4. Receipt(e) \in sweep[t].found
  BY Zenon, <1>1, <1>3 DEF ScanMissesNothing
<1>5. Receipt(e)' = Receipt(e)
  BY Zenon DEF Receipt
<1> QED
  BY Zenon, <1>4, <1>5

\* A step that moves rows this way, and starts or advances no scan, keeps the scans
\* complete: a row that has come to be leased again is not expired at any cutoff.
LEMMA RowsKeepScan ==
    ASSUME TypeOK, TypeOK', CutoffPast, ScanMissesNothing,
           \A s \in Sweepers : ScanKept(s),
           \A e \in Executions : RowMoves(e)
    PROVE  ScanMissesNothing'
<1> SUFFICES ASSUME NEW s \in Sweepers, sweep'[s].pc # "idle",
                    NEW e \in Executions \ Malformed,
                    Expired(e, sweep[s].cutoff)', GonePast(s, e)'
             PROVE  Receipt(e)' \in sweep'[s].found
  BY Zenon DEF ScanMissesNothing
<1>1. /\ sweep[s].pc # "idle"
      /\ sweep'[s].cutoff = sweep[s].cutoff /\ sweep'[s].start = sweep[s].start
      /\ sweep'[s].after = sweep[s].after /\ sweep'[s].exhausted = sweep[s].exhausted
      /\ sweep'[s].found = sweep[s].found
  BY Zenon DEF ScanKept
<1>2. row'[e].expiry \in Nat
  <2>1. row'[e].owner # None
    BY DEF Expired, Leased
  <2> QED
    BY SMTT(60), <2>1 DEF TypeOK, RowType, LeaseShape
<1>3. sweep[s].cutoff <= now /\ sweep[s].cutoff \in Nat /\ now \in Nat
  BY SMTT(60) DEF CutoffPast, TypeOK, SweepType
<1>4. row'[e] = row[e]
  BY SMTT(60), <1>1, <1>2, <1>3 DEF RowMoves, Expired, Leased
<1>5. Expired(e, sweep[s].cutoff) /\ GonePast(s, e)
  BY SMTT(60), <1>1, <1>4 DEF Expired, Leased, GonePast, Beyond
<1>6. Receipt(e) \in sweep[s].found
  BY Zenon, <1>1, <1>5 DEF ScanMissesNothing
<1>7. Receipt(e)' = Receipt(e)
  BY Zenon, <1>4 DEF Receipt
<1> QED
  BY Zenon, <1>1, <1>6, <1>7

\* Nothing is leased and no scan is under way at the start.
LEMMA InitIInv == Init => IInv
<1> SUFFICES ASSUME Init PROVE IInv
  OBVIOUS
<1> USE DEF Init, NoSweep
<1>1. TypeOK
  BY DEF TypeOK, RowType, SweepType, LeaseShape, Positions
<1>2. CutoffPast /\ TokensBelow /\ FencingTokensUnique
  BY DEF CutoffPast, TokensBelow, FencingTokensUnique
<1>3. ScanMissesNothing
  BY DEF ScanMissesNothing
<1> QED
  BY <1>1, <1>2, <1>3 DEF IInv

\* Taking a lease gives the row the next generation and issues it as the token.
LEMMA LeaseStep ==
    ASSUME IInv, NEW e \in Executions, NEW o \in Owners, Activate(e, o) \/ Acquire(e, o)
    PROVE  IInv'
<1> DEFINE h == [exec |-> e, owner |-> o, gen |-> row[e].gen + 1, expiry |-> now + LeaseTime]
<1> USE SetsAssumption, NumbersAssumption
<1>1. /\ row'[e].state = "RUNNING" /\ row'[e].owner = o /\ row'[e].gen = row[e].gen + 1
      /\ row'[e].expiry = now + LeaseTime
      /\ row'[e].rev \in Nat
      /\ DOMAIN row' = Executions
      /\ \A f \in Executions \ {e} : row'[f] = row[f]
      /\ held' = held \cup {h}
      /\ UNCHANGED <<now, cursor, sweep>>
  BY SMTT(60) DEF Activate, Acquire, IInv, TypeOK, RowType
<1>2. TypeOK'
  <2>1. RowType'
    BY DEF Activate, Acquire, IInv, TypeOK, RowType
  <2>2. LeaseShape'
    BY <1>1 DEF IInv, TypeOK, LeaseShape
  <2>3. h \in [exec : Executions, owner : Owners, gen : Nat, expiry : Nat]
    BY DEF IInv, TypeOK, RowType
  <2> QED
    BY <1>1, <2>1, <2>2, <2>3 DEF IInv, TypeOK, SweepType
<1>3. CutoffPast'
  BY SMTT(60), <1>1 DEF IInv, CutoffPast
<1>4. TokensBelow'
  <2>1. row[e].gen \in Nat
    BY DEF IInv, TypeOK, RowType
  <2>0. row'[e].gen = row[e].gen + 1 /\ \A f \in Executions \ {e} : row'[f] = row[f]
    BY <1>1
  <2>2. ASSUME NEW k \in held PROVE k.gen <= row'[k.exec].gen
    <3>1. k.gen \in Nat /\ k.exec \in Executions /\ k.gen <= row[k.exec].gen
      BY DEF IInv, TypeOK, TokensBelow
    <3>2. CASE k.exec = e
      BY <2>0, <2>1, <3>1, <3>2
    <3>3. CASE k.exec # e
      BY Zenon, <2>0, <3>1, <3>3
    <3> QED
      BY <3>2, <3>3
  <2>3. h.gen <= row'[h.exec].gen
    BY SMTT(60), <1>1, <2>1
  <2> QED
    BY <1>1, <2>2, <2>3 DEF TokensBelow
<1>5. FencingTokensUnique'
  BY <1>1 DEF IInv, TokensBelow, FencingTokensUnique, TypeOK, RowType
<1>6. ScanMissesNothing'
  <2>1. \A f \in Executions : RowMoves(f)
    <3>1. now < now + LeaseTime
      BY DEF IInv, TypeOK
    <3> QED
      BY Zenon, <1>1, <3>1 DEF RowMoves
  <2>2. \A s \in Sweepers : ScanKept(s)
    BY Zenon, <1>1, ScansUnmoved
  <2> QED
    BY Zenon, <1>2, <2>1, <2>2, RowsKeepScan DEF IInv
<1> QED
  BY SMTT(60), <1>2, <1>3, <1>4, <1>5, <1>6 DEF IInv

\* Renewing, releasing, finishing and losing an activation issue no token.
LEMMA HolderStep ==
    ASSUME IInv, NEW h \in held,
           Renew(h) \/ Release(h) \/ FinishFenced(h) \/ LoseHold(h)
    PROVE  IInv'
<1> USE SetsAssumption, NumbersAssumption
<1>1. h.exec \in Executions
  BY DEF IInv, TypeOK
<1>2. /\ \A e \in Executions : row'[e].gen = row[e].gen
      /\ held' \subseteq held
      /\ UNCHANGED <<now, cursor, sweep>>
  BY SMTT(60), <1>1 DEF Renew, Release, FinishFenced, LoseHold, IInv, TypeOK, RowType
<1>3. RowType'
  BY SMTT(60), <1>1 DEF Renew, Release, FinishFenced, LoseHold, IInv, TypeOK, RowType
<1>4. LeaseShape'
  <2>1. CASE Renew(h)
    BY <1>1, <2>1 DEF Renew, Leased, IInv, TypeOK, RowType, LeaseShape
  <2>2. CASE Release(h)
    BY <1>1, <2>2 DEF Release, IInv, TypeOK, RowType, LeaseShape
  <2>3. CASE FinishFenced(h)
    BY <1>1, <2>3 DEF FinishFenced, IInv, TypeOK, RowType, LeaseShape
  <2>4. CASE LoseHold(h)
    BY Zenon, <2>4 DEF LoseHold, IInv, TypeOK, LeaseShape
  <2> QED
    BY <2>1, <2>2, <2>3, <2>4
<1>5. TypeOK'
  BY <1>2, <1>3, <1>4 DEF IInv, TypeOK, SweepType
<1>6. CutoffPast' /\ TokensBelow' /\ FencingTokensUnique'
  BY ZenonT(60), <1>2 DEF IInv, TypeOK, CutoffPast, TokensBelow, FencingTokensUnique
<1>7. \A e \in Executions : RowMoves(e)
  <2>1. CASE Renew(h)
    BY <1>1, <2>1 DEF Renew, RowMoves, IInv, TypeOK, RowType
  <2>2. CASE Release(h)
    BY <1>1, <2>2 DEF Release, RowMoves, IInv, TypeOK, RowType
  <2>3. CASE FinishFenced(h)
    BY <1>1, <2>3 DEF FinishFenced, RowMoves, IInv, TypeOK, RowType
  <2>4. CASE LoseHold(h)
    BY <2>4 DEF LoseHold, RowMoves
  <2> QED
    BY <2>1, <2>2, <2>3, <2>4
<1>8. ScanMissesNothing'
  BY Zenon, <1>2, <1>5, <1>7, ScansUnmoved, RowsKeepScan DEF IInv
<1> QED
  BY <1>5, <1>6, <1>8 DEF IInv

\* Time only moves cutoffs further into the past.
LEMMA TickStep ==
    ASSUME IInv, Tick
    PROVE  IInv'
<1>1. TypeOK'
  BY DEF Tick, IInv, TypeOK, RowType, SweepType, LeaseShape
<1>2. CutoffPast'
  BY DEF Tick, IInv, TypeOK, SweepType, CutoffPast
<1>3. TokensBelow' /\ FencingTokensUnique'
  BY DEF Tick, IInv, TokensBelow, FencingTokensUnique
<1>4. ScanMissesNothing'
  BY Zenon, <1>1, ScansUnmoved, RowsKeepScan DEF Tick, IInv, RowMoves
<1> QED
  BY <1>1, <1>2, <1>3, <1>4 DEF IInv

\* A sweep starts with nothing gone past.
LEMMA SweepStartsStep ==
    ASSUME IInv, NEW s \in Sweepers, SweepStarts(s)
    PROVE  IInv'
<1> DEFINE w == [pc |-> "scan", cutoff |-> now, start |-> cursor[s], after |-> cursor[s],
                 pages |-> 0, rows |-> 0, exhausted |-> FALSE, found |-> {}, todo |-> {}]
<1>1. sweep' = [sweep EXCEPT ![s] = w] /\ UNCHANGED <<row, now, held, cursor>>
  BY Zenon DEF SweepStarts
<1>2. TypeOK'
  BY SMTT(60), <1>1 DEF IInv, TypeOK, RowType, SweepType, LeaseShape
<1>3. CutoffPast' /\ TokensBelow' /\ FencingTokensUnique'
  BY SMTT(60), <1>1 DEF IInv, TypeOK, SweepType, CutoffPast, TokensBelow, FencingTokensUnique
<1>4. ScanMissesNothing'
  <2> SUFFICES ASSUME NEW t \in Sweepers, sweep'[t].pc # "idle",
                      NEW e \in Executions \ Malformed,
                      Expired(e, sweep[t].cutoff)', GonePast(t, e)'
               PROVE  Receipt(e)' \in sweep'[t].found
    BY Zenon DEF ScanMissesNothing
  <2>1. CASE t = s
    <3>1. sweep'[s].start = sweep'[s].after /\ ~sweep'[s].exhausted
      BY SMTT(60), <1>1 DEF IInv, TypeOK, SweepType
    <3> QED
      BY SMTT(60), <2>1, <3>1 DEF GonePast, Beyond
  <2>2. CASE t # s
    <3>1. sweep'[t] = sweep[t]
      BY SMTT(60), <1>1, <2>2 DEF IInv, TypeOK, SweepType
    <3> QED
      BY Zenon, <1>1, <3>1, OtherScanKept DEF IInv
  <2> QED
    BY <2>1, <2>2
<1> QED
  BY <1>2, <1>3, <1>4 DEF IInv

\* A page moves the position to its last row and observes every row up to there, and
\* when it is short every row there is.
LEMMA ScanPageStep ==
    ASSUME IInv, NEW s \in Sweepers, ScanPage(s)
    PROVE  IInv'
<1> DEFINE n == RequestLimit(s)
           P == Page(s, n)
           a == LastOf(P, sweep[s].after)
           new == {Receipt(e) : e \in P \ Malformed}
<1> USE SetsAssumption, NumbersAssumption
<1>1. n \in Int
  BY DEF RequestLimit, IInv, TypeOK, SweepType
<1>2. P \in SUBSET Executions /\ P \subseteq Candidates(s) /\ \A e \in P : Leased(e)
  BY PageType
<1>3. IsFiniteSet(P) /\ Cardinality(P) \in Nat
  <2> HIDE DEF P
  <2> QED
    BY Zenon, <1>2, FS_Subset, FS_CardinalityType
<1>4. a \in Positions
  <2>1. CASE P = {}
    BY SMTT(60), <2>1 DEF LastOf, IInv, TypeOK, SweepType
  <2>2. CASE P # {}
    <3> HIDE DEF P
    <3>1. PICK x \in P : a = <<row[x].expiry, x>>
      BY SMTT(60), <1>2, <2>2, LastOfPage DEF IInv
    <3>2. row[x].expiry \in Nat
      BY Zenon, <1>2, LeasedExpiry DEF IInv
    <3> QED
      BY <1>2, <3>1, <3>2 DEF Positions
  <2> QED
    BY SMTT(60), <2>1, <2>2
<1>5. new \in SUBSET Receipts
  <2>1. ASSUME NEW e \in P PROVE Receipt(e) \in Receipts
    <3>1. e \in Executions /\ Leased(e)
      BY <1>2
    <3>2. row[e].expiry \in Nat /\ row[e].owner \in Owners
      BY <3>1, LeasedExpiry DEF IInv
    <3>3. row[e].rev \in Nat /\ row[e].gen \in Nat
      BY <3>1 DEF IInv, TypeOK, RowType
    <3> QED
      BY <3>1, <3>2, <3>3 DEF Receipt, Receipts
  <2> QED
    BY <2>1
<1> DEFINE stop == \/ Cardinality(P) < n
                   \/ sweep[s].rows + Cardinality(P) >= MaxRows
                   \/ sweep[s].pages + 1 >= MaxPages
           w == [pc |-> IF stop THEN "evacuate" ELSE "scan",
                 cutoff |-> sweep[s].cutoff, start |-> sweep[s].start, after |-> a,
                 pages |-> sweep[s].pages + 1, rows |-> sweep[s].rows + Cardinality(P),
                 exhausted |-> Cardinality(P) < n,
                 found |-> sweep[s].found \cup new, todo |-> sweep[s].todo \cup new]
<1>6. sweep' = [sweep EXCEPT ![s] = w]
  BY Zenon DEF ScanPage
<1>7. UNCHANGED <<row, now, held>>
  BY DEF ScanPage
<1>8. cursor' \in [Sweepers -> Positions]
  <2>1. cursor \in [Sweepers -> Positions] /\ None \in Positions
    BY SMTT(60) DEF IInv, TypeOK, SweepType, Positions
  <2>2. \E c \in {None, a} : cursor' = [cursor EXCEPT ![s] = c] \/ cursor' = cursor
    BY DEF ScanPage
  <2> QED
    BY <1>4, <2>1, <2>2
<1> HIDE DEF n, P, a, new, stop
<1>9. TypeOK'
  <2>1. w \in [pc : {"idle", "scan", "evacuate"}, cutoff : Nat, start : Positions,
               after : Positions, pages : Nat, rows : Nat, exhausted : BOOLEAN,
               found : SUBSET Receipts, todo : SUBSET Receipts]
    <3>1. /\ sweep[s].cutoff \in Nat /\ sweep[s].start \in Positions
          /\ sweep[s].pages \in Nat /\ sweep[s].rows \in Nat
          /\ sweep[s].found \in SUBSET Receipts /\ sweep[s].todo \in SUBSET Receipts
      BY DEF IInv, TypeOK, SweepType
    <3> QED
      BY SMTT(60), <1>3, <1>4, <1>5, <1>6, <3>1
  <2>2. SweepType'
    BY Zenon, <1>6, <1>8, <2>1 DEF IInv, TypeOK, SweepType
  <2> QED
    BY SMTT(60), <1>7, <2>2 DEF IInv, TypeOK, RowType, LeaseShape
<1>10. CutoffPast'
  <2>1. \A t \in Sweepers : sweep'[t].cutoff = sweep[t].cutoff
    BY <1>6 DEF IInv, TypeOK, SweepType
  <2> QED
    BY SMTT(60), <1>7, <2>1 DEF IInv, CutoffPast
<1>11. TokensBelow' /\ FencingTokensUnique'
  BY SMTT(60), <1>7 DEF IInv, TokensBelow, FencingTokensUnique
<1>12. ScanMissesNothing'
  <2> SUFFICES ASSUME NEW t \in Sweepers, sweep'[t].pc # "idle",
                      NEW e \in Executions \ Malformed,
                      Expired(e, sweep[t].cutoff)', GonePast(t, e)'
               PROVE  Receipt(e)' \in sweep'[t].found
    BY ZenonT(60) DEF ScanMissesNothing
  <2>1. CASE t # s
    <3>1. sweep'[t] = sweep[t]
      BY SMTT(60), <1>6, <2>1 DEF IInv, TypeOK, SweepType
    <3> QED
      BY Zenon, <1>7, <3>1, OtherScanKept DEF IInv
  <2>2. CASE t = s
    <3>1. sweep'[s] = w
      BY SMTT(60), <1>6 DEF IInv, TypeOK, SweepType
    <3>2. /\ Expired(e, sweep[s].cutoff) /\ Beyond(e, sweep[s].start)
          /\ Cardinality(P) < n \/ (a # None /\ ~Beyond(e, a))
      <4>1. sweep'[s].cutoff = sweep[s].cutoff /\ sweep'[s].start = sweep[s].start
            /\ sweep'[s].after = a
        BY <3>1
      <4>4. sweep'[s].exhausted <=> Cardinality(P) < n
        <5>1. w.exhausted = (Cardinality(P) < n)
          BY SMT
        <5> HIDE DEF w
        <5> QED
          BY Zenon, <3>1, <5>1
      <4>2. Expired(e, sweep'[s].cutoff) /\ Beyond(e, sweep'[s].start)
        BY Zenon, <1>7, <2>2 DEF Expired, Leased, GonePast, Beyond
      <4>3. sweep'[s].exhausted \/ (sweep'[s].after # None /\ ~Beyond(e, sweep'[s].after))
        BY ZenonT(60), <1>7, <2>2 DEF GonePast, Beyond
      <4> QED
        BY ZenonT(60), <4>1, <4>2, <4>3, <4>4
    <3>3. Receipt(e)' = Receipt(e) /\ sweep'[s].found = sweep[s].found \cup new
      BY SMTT(60), <1>7, <3>1 DEF Receipt
    <3>4. CASE sweep[s].after # None /\ ~Beyond(e, sweep[s].after)
      <4>1. sweep[s].pc = "scan"
        BY SMTT(60) DEF ScanPage
      <4>2. Receipt(e) \in sweep[s].found
        BY SMTT(60), <3>2, <3>4, <4>1 DEF IInv, ScanMissesNothing, GonePast
      <4> QED
        BY SMTT(60), <2>2, <3>3, <4>2
    <3>5. CASE Beyond(e, sweep[s].after)
      <4>1. e \in Candidates(s)
        BY SMTT(60), <3>2, <3>5 DEF Candidates
      <4>2. e \in P
        <5>1. CASE Cardinality(P) < n
          BY Zenon, <1>1, <4>1, <5>1, ShortPageIsAll DEF IInv, P
        <5>2. CASE a # None /\ ~Beyond(e, a)
          <6>1. P # {}
            BY SMTT(60), <3>5, <5>2 DEF LastOf, a
          <6>2. PICK x \in P : a = <<row[x].expiry, x>>
            BY SMTT(60), <1>2, <6>1, LastOfPage DEF IInv, a
          <6>3. ~Succeeds(e, x)
            BY SMTT(60), <5>2, <6>2 DEF Beyond, Succeeds
          <6>4. Leased(e) /\ Leased(x) /\ x \in Executions
            BY SMTT(60), <1>2, <3>2 DEF Expired
          <6>5. e = x \/ Succeeds(x, e)
            BY Zenon, <6>3, <6>4, ScanOrder DEF IInv
          <6> QED
            BY SMTT(60), <1>1, <4>1, <6>2, <6>5, PageInitial DEF IInv, P
        <5> QED
          BY Zenon, <3>2, <5>1, <5>2
      <4> QED
        BY SMTT(60), <2>2, <3>3, <4>2 DEF new
    <3> QED
      BY SMTT(60), <3>4, <3>5 DEF Beyond
  <2> QED
    BY <2>1, <2>2
<1> QED
  BY SMTT(60), <1>9, <1>10, <1>11, <1>12 DEF IInv

\* Giving up a scan, and handling observations, advance no scan.
LEMMA SweepMovesStep ==
    ASSUME IInv, NEW s \in Sweepers,
           ScanTimesOut(s) \/ ScanRaises(s) \/ Noop(s) \/ Defer(s) \/ SweepEnds(s) \/ Restart(s)
    PROVE  IInv'
<1> DEFINE Sweeps == [pc : {"idle", "scan", "evacuate"}, cutoff : Nat, start : Positions,
                      after : Positions, pages : Nat, rows : Nat, exhausted : BOOLEAN,
                      found : SUBSET Receipts, todo : SUBSET Receipts]
<1>1. UNCHANGED <<row, now, held>>
  BY SMTT(60) DEF ScanTimesOut, ScanRaises, Noop, Defer, SweepEnds, Restart
<1>2. NoSweep \in Sweeps /\ sweep \in [Sweepers -> Sweeps]
  BY SMTT(60) DEF NoSweep, Positions, IInv, TypeOK, SweepType
<1>3. \E w \in Sweeps :
        /\ sweep' = [sweep EXCEPT ![s] = w]
        /\ \/ w.pc = "idle" /\ w.cutoff = 0
           \/ /\ sweep[s].pc # "idle"
              /\ w.cutoff = sweep[s].cutoff /\ w.start = sweep[s].start
              /\ w.after = sweep[s].after /\ w.exhausted = sweep[s].exhausted
              /\ w.found = sweep[s].found
  <2>1. CASE ScanRaises(s) \/ SweepEnds(s) \/ Restart(s)
    <3>1. sweep' = [sweep EXCEPT ![s] = NoSweep]
      BY Zenon, <2>1 DEF ScanRaises, SweepEnds, Restart
    <3>2. NoSweep.pc = "idle" /\ NoSweep.cutoff = 0
      BY DEF NoSweep
    <3> QED
      BY Zenon, <1>2, <3>1, <3>2
  <2>2. CASE ScanTimesOut(s)
    <3> DEFINE w == [sweep[s] EXCEPT !.pc = "evacuate"]
    <3>1. /\ w \in Sweeps /\ w.cutoff = sweep[s].cutoff /\ w.start = sweep[s].start
          /\ w.after = sweep[s].after /\ w.exhausted = sweep[s].exhausted
          /\ w.found = sweep[s].found
      BY SMTT(60), <1>2
    <3>2. sweep' = [sweep EXCEPT ![s] = w] /\ sweep[s].pc # "idle"
      BY <1>2, <2>2 DEF ScanTimesOut
    <3> QED
      BY Zenon, <3>1, <3>2
  <2>3. CASE Noop(s) \/ Defer(s)
    <3> DEFINE F == sweep[s].todo \ {NextObservation(s)}
               w == [sweep[s] EXCEPT !.todo = F]
    <3>1. F \in SUBSET Receipts
      BY <1>2
    <3>2. sweep' = [sweep EXCEPT ![s] = w] /\ sweep[s].pc # "idle"
      BY <1>2, <2>3 DEF Noop, Defer, Handled
    <3> HIDE DEF F
    <3>3. /\ w \in Sweeps /\ w.cutoff = sweep[s].cutoff /\ w.start = sweep[s].start
          /\ w.after = sweep[s].after /\ w.exhausted = sweep[s].exhausted
          /\ w.found = sweep[s].found
      BY SMTT(60), <1>2, <3>1
    <3> QED
      BY Zenon, <3>2, <3>3
  <2> QED
    BY Zenon, <2>1, <2>2, <2>3
<1>4. cursor' \in [Sweepers -> Positions]
  BY SMTT(60) DEF ScanTimesOut, ScanRaises, Noop, Defer, SweepEnds, Restart, IInv, TypeOK, SweepType,
      Positions
<1>5. TypeOK'
  <2>1. sweep' \in [Sweepers -> Sweeps]
    BY SMTT(60), <1>2, <1>3
  <2> QED
    BY <1>1, <1>4, <2>1 DEF IInv, TypeOK, SweepType, RowType, LeaseShape
<1>6. CutoffPast'
  <2>1. \A t \in Sweepers : sweep'[t].cutoff \in {0, sweep[t].cutoff}
    BY SMTT(60), <1>2, <1>3
  <2> QED
    BY <1>1, <2>1 DEF IInv, CutoffPast, TypeOK
<1>7. TokensBelow' /\ FencingTokensUnique'
  BY <1>1 DEF IInv, TokensBelow, FencingTokensUnique
<1>8. \A t \in Sweepers : ScanKept(t)
  <2> HIDE DEF Sweeps
  <2> QED
    BY SMTT(60), <1>2, <1>3 DEF ScanKept
<1>9. ScanMissesNothing'
  BY Zenon, <1>1, <1>5, <1>8, RowsKeepScan DEF IInv, RowMoves
<1> QED
  BY <1>5, <1>6, <1>7, <1>9 DEF IInv

\* A takeover finds the row as it was observed, expired at a cutoff that is past.
LEMMA TakeoverExpired ==
    ASSUME IInv, NEW s \in Sweepers, Evacuate(s)
    PROVE  LET r == NextObservation(s)
           IN  r.exec \in Executions =>
                   row[r.exec].expiry <= now /\ row[r.exec].gen = r.gen /\ row[r.exec].rev = r.rev
<1> DEFINE r == NextObservation(s)
<1> SUFFICES ASSUME r.exec \in Executions
             PROVE  row[r.exec].expiry <= now /\ row[r.exec].gen = r.gen /\ row[r.exec].rev = r.rev
  BY SMTT(60)
<1> HIDE DEF r
<1>1. Matches(s, r) /\ sweep[s].todo # {}
  BY DEF Evacuate, r
<1>2. row[r.exec].expiry <= sweep[s].cutoff /\ row[r.exec].gen = r.gen /\ row[r.exec].rev = r.rev
  BY <1>1 DEF Matches
<1>3. sweep[s].cutoff <= now /\ sweep[s].cutoff \in Nat /\ now \in Nat
  BY SMTT(60) DEF IInv, CutoffPast, TypeOK, SweepType
<1>4. row[r.exec].expiry \in Nat
  BY <1>1 DEF Matches, IInv, TypeOK, RowType
<1> QED
  BY SMTT(60), <1>2, <1>3, <1>4

\* A takeover ends the lease under the next generation.
LEMMA EvacuateStep ==
    ASSUME IInv, NEW s \in Sweepers, Evacuate(s)
    PROVE  IInv'
<1> DEFINE r == NextObservation(s)
           x == r.exec
           F == sweep[s].todo \ {r}
           st == IF x \in Corrupt THEN "FAILED" ELSE "WAITING"
           v == [state |-> st, rev |-> r.rev + 1, owner |-> None, gen |-> r.gen + 1,
                 expiry |-> None]
<1>1. /\ row' = [row EXCEPT ![x] = v]
      /\ sweep' = [sweep EXCEPT ![s].todo = F]
      /\ sweep[s].pc = "evacuate"
      /\ UNCHANGED <<now, held, cursor>>
  BY Zenon DEF Evacuate, TakenOver, Handled
<1>2. x \in Executions => row[x].gen = r.gen /\ row[x].rev = r.rev
  BY TakeoverExpired
<1>3. st \in {"FAILED", "WAITING"}
  OBVIOUS
<1>4. F \in SUBSET Receipts
  BY DEF IInv, TypeOK, SweepType
<1> HIDE DEF r, F, st
<1>5. \A e \in Executions :
        \/ row'[e] = row[e]
        \/ /\ row'[e] = v /\ row'[e].state = st /\ row'[e].owner = None /\ row'[e].expiry = None
           /\ row'[e].gen = row[e].gen + 1 /\ row'[e].rev = row[e].rev + 1
  BY <1>1, <1>2 DEF IInv, TypeOK, RowType
<1>6. RowType'
  <2>1. x \in Executions =>
            v \in [state : {"WAITING", "RUNNING", "COMPLETED", "FAILED"}, rev : Nat,
                   owner : Owners \cup {None}, gen : Nat, expiry : Nat \cup {None}]
    BY SMTT(60), <1>2, <1>3 DEF IInv, TypeOK, RowType
  <2> HIDE DEF v
  <2> QED
    BY Zenon, <1>1, <2>1 DEF IInv, TypeOK, RowType
<1> HIDE DEF v
<1>7. LeaseShape'
  BY <1>5 DEF IInv, TypeOK, LeaseShape
<1>8. SweepType'
  BY SMTT(60), <1>1, <1>4 DEF IInv, TypeOK, SweepType
<1>9. TypeOK'
  BY <1>1, <1>6, <1>7, <1>8 DEF IInv, TypeOK
<1>10. CutoffPast'
  BY SMTT(60), <1>1 DEF IInv, CutoffPast, TypeOK, SweepType
<1>11. TokensBelow'
  <2> SUFFICES ASSUME NEW h \in held PROVE h.gen <= row'[h.exec].gen
    BY <1>1 DEF TokensBelow
  <2>1. h.exec \in Executions /\ h.gen \in Nat /\ h.gen <= row[h.exec].gen
    BY DEF IInv, TypeOK, TokensBelow
  <2>2. row[h.exec].gen \in Nat
    BY SMTT(60), <2>1 DEF IInv, TypeOK, RowType
  <2>3. row'[h.exec].gen \in {row[h.exec].gen, row[h.exec].gen + 1}
    BY <1>5, <2>1
  <2> QED
    BY <2>1, <2>2, <2>3
<1>12. FencingTokensUnique'
  BY <1>1 DEF IInv, FencingTokensUnique
<1>13. \A t \in Sweepers : ScanKept(t)
  BY SMTT(60), <1>1 DEF ScanKept, IInv, TypeOK, SweepType
<1>14. \A e \in Executions : RowMoves(e)
  BY <1>5 DEF RowMoves
<1>15. ScanMissesNothing'
  BY Zenon, <1>9, <1>13, <1>14, RowsKeepScan DEF IInv
<1> QED
  BY <1>9, <1>10, <1>11, <1>12, <1>15 DEF IInv

\* Every step keeps the invariant.
LEMMA NextIInv == IInv /\ [Next]_vars => IInv'
<1> SUFFICES ASSUME IInv, [Next]_vars PROVE IInv'
  BY SMTT(60)
<1>1. CASE UNCHANGED vars
  <2>1. row' = row /\ now' = now /\ held' = held /\ cursor' = cursor /\ sweep' = sweep
    BY <1>1 DEF vars
  <2>2. TypeOK'
    BY Zenon, <2>1 DEF IInv, TypeOK, RowType, SweepType, LeaseShape
  <2>3. CutoffPast' /\ TokensBelow' /\ FencingTokensUnique'
    BY Zenon, <2>1 DEF IInv, CutoffPast, TokensBelow, FencingTokensUnique
  <2>4. ScanMissesNothing'
    BY Zenon, <2>1, <2>2, ScansUnmoved, RowsKeepScan DEF IInv, RowMoves
  <2> QED
    BY Zenon, <2>2, <2>3, <2>4 DEF IInv
<1>2. CASE Tick
  BY <1>2, TickStep
<1>3. CASE Holder
  BY SMTT(60), <1>3, LeaseStep, HolderStep DEF Holder
<1>4. ASSUME NEW s \in Sweepers, Sweeper(s) PROVE IInv'
  BY SMTT(60), <1>4, SweepStartsStep, ScanPageStep, SweepMovesStep, EvacuateStep DEF Sweeper
<1> QED
  BY <1>1, <1>2, <1>3, <1>4 DEF Next

----------------------------------------------------------------------------
(* Theorems *)

\* Generations bound the tokens and scans leave nothing behind, at all times.
THEOREM Inductive == Spec => []IInv
BY InitIInv, NextIInv, PTL DEF Spec

\* Rows, activations and sweeps keep their shapes, and no row has half a lease.
THEOREM TypeCorrect == Spec => []TypeOK
<1>1. IInv => TypeOK
  BY DEF IInv
<1> QED
  BY <1>1, Inductive, PTL

\* No fencing token of acquire_execution_lease is issued twice.
THEOREM TokensNeverReissued == Spec => []FencingTokensUnique
<1>1. IInv => FencingTokensUnique
  BY DEF IInv
<1> QED
  BY <1>1, Inductive, PTL

\* The paged scan has observed every expired lease it went past, and when a short page
\* exhausts it every one there is, for every page size and bound and whatever happens
\* between its pages.
THEOREM ScanComplete == Spec => []ScanMissesNothing
<1>1. IInv => ScanMissesNothing
  BY DEF IInv
<1> QED
  BY <1>1, Inductive, PTL

\* Only the newest outstanding activation of an execution ever completes it.
THEOREM NewestOnly == Spec => NewestCompletes
<1>1. IInv /\ [Next]_vars =>
        [\A h, k \in held : FinishFenced(h) /\ k.exec = h.exec => k.gen <= h.gen]_vars
  BY DEF IInv, TokensBelow, FinishFenced, FenceHolds
<1> QED
  BY <1>1, Inductive, PTL DEF Spec, NewestCompletes

\* Only expired leases are ever taken over.
THEOREM TakeoverOnlyExpired == Spec => NoLiveTakeover
<1>1. IInv /\ [Next]_vars =>
        [\A e \in Executions :
            Leased(e) /\ row'[e].state \in {"WAITING", "FAILED"} => row[e].expiry <= now]_vars
  <2> SUFFICES ASSUME IInv, Next, NEW e \in Executions, Leased(e),
                      row'[e].state \in {"WAITING", "FAILED"}
               PROVE  row[e].expiry <= now
    OBVIOUS
  <2>1. row[e].state = "RUNNING"
    BY SMTT(60) DEF Leased
  <2>2. PICK s \in Sweepers : Evacuate(s)
    <3>1. CASE Tick
      BY <2>1, <3>1 DEF Tick
    <3>2. ASSUME NEW f \in Executions, NEW o \in Owners, Activate(f, o) \/ Acquire(f, o)
          PROVE  FALSE
      BY SMTT(60), <2>1, <3>2 DEF Activate, Acquire, IInv, TypeOK, RowType
    <3>3. ASSUME NEW h \in held, Renew(h) \/ Release(h) \/ FinishFenced(h) \/ LoseHold(h)
          PROVE  FALSE
      BY SMTT(60), <2>1, <3>3 DEF Renew, Release, FinishFenced, LoseHold, IInv, TypeOK, RowType
    <3>4. ASSUME NEW s \in Sweepers, Sweeper(s), ~Evacuate(s)
          PROVE  FALSE
      BY SMTT(60), <2>1, <3>4 DEF Sweeper, SweepStarts, ScanPage, ScanTimesOut, ScanRaises, Noop, Defer,
          SweepEnds, Restart
    <3> QED
      BY SMTT(60), <3>1, <3>2, <3>3, <3>4 DEF Next, Holder
  <2>3. CASE e = NextObservation(s).exec
    BY SMTT(60), <2>2, <2>3, TakeoverExpired
  <2>4. CASE e # NextObservation(s).exec
    <3>1. row'[e] = row[e]
      BY SMTT(60), <2>2, <2>4 DEF Evacuate, TakenOver, IInv, TypeOK, RowType
    <3> QED
      BY SMTT(60), <2>1, <3>1
  <2> QED
    BY <2>3, <2>4
<1> QED
  BY <1>1, Inductive, PTL DEF Spec, NoLiveTakeover

=============================================================================
