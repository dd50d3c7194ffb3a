---------------------------- MODULE QuasiNewton ----------------------------
(***************************************************************************)
(* The bookkeeping of the quasi-Newton acceleration: which differences of  *)
(* residuals are columns of the least-squares system (_matrixV, with       *)
(* _matrixW moved alongside), how many of them belong to which time window *)
(* (_matrixCols), what the QR factorization has been told of them (_qrV),  *)
(* and for IQN-IMVJ the matrix _Wtil = W - J_prev * V and the pairs stored *)
(* for the inverse Jacobian in restart mode.                               *)
(*                                                                         *)
(* The coupling scheme calls performAcceleration() after an iteration that *)
(* did not converge and iterationsConverged() after one that did.  Numbers *)
(* are abstracted: a column is the pair of residuals it is the difference  *)
(* of, each named by its window and iteration; what the orthogonalization  *)
(* rejects and what the filter finds dependent are free choices.           *)
(***************************************************************************)
EXTENDS Integers, Sequences, FiniteSets, SequencesExt

CONSTANTS
  Confs,       \* the configurations that are checked
  Windows,     \* bound: time windows
  Iterations   \* bound: iterations of a window

VARIABLES
  conf,        \* the configuration
  qn,          \* the acceleration object
  used,        \* history: what the last quasi-Newton update was computed from
  window,      \* number of the current time window (tWindows + 1)
  iteration    \* number of the current iteration (its + 1)

vars == <<conf, qn, used, window, iteration>>

\* A configuration the XML schema and the constructors accept.
Admissible(c) ==
  /\ c.method \in {"ILS", "IMVJ"} /\ c.filter \in {"QR1", "QR2"}
  /\ c.maxIterationsUsed \in Nat \ {0} /\ c.timeWindowsReused \in Nat
  /\ c.rows \in Nat \ {0} /\ c.chunkSize \in Nat \ {0}
  /\ {c.forceInitialRelaxation, c.constantWeights, c.dependent, c.alwaysBuildJacobian} \subseteq BOOLEAN
  /\ c.restart \in {"none", "zero", "slide", "svd"}
  /\ c.method = "ILS" => c.restart = "none" /\ ~c.alwaysBuildJacobian
  /\ c.alwaysBuildJacobian => c.restart = "none"
  /\ c.dependent => c.filter = "QR2"   \* with QR1, columns are dependent in square systems only

ASSUME ConfAssumption == \A c \in Confs : Admissible(c)

---------------------------------------------------------------------------
(* Sequences of columns and their counters.                                *)

Without(s, indices) ==
  LET left == SetToSortSeq(DOMAIN s \ indices, <) IN [k \in DOMAIN left |-> s[left[k]]]

SumOf(cols) == FoldLeft(+, 0, cols)

\* The first column before those that counter g counts.
Offset(cols, g) == SumOf(SubSeq(cols, 1, g - 1))

\* removeMatrixColumn() for each of the indices: the counters that fall to 0 are erased.
Recounted(cols, indices) ==
  LET left == [g \in DOMAIN cols |-> cols[g]
                 - Cardinality(indices \cap (Offset(cols, g) + 1 .. Offset(cols, g) + cols[g]))]
  IN  Without(left, {g \in DOMAIN cols : cols[g] > 0 /\ left[g] = 0})

\* A new column in front; the last one goes if there is no room.
ShiftedIn(column, s, room) == <<column>> \o (IF room THEN s ELSE Front(s))

CountedZero(cols, room) ==   \* fault: an oldest window without columns keeps its counter
  LET more == [cols EXCEPT ![1] = @ + 1]
  IN  IF room THEN more ELSE [more EXCEPT ![Len(cols)] = @ - 1]

\* The counters after it: the newest window has one more, and without room the oldest one less.
Counted(cols, room) ==
  LET more == [cols EXCEPT ![1] = @ + 1]
      less == [more EXCEPT ![Len(cols)] = @ - 1]
  IN  IF room THEN more ELSE IF Last(less) = 0 THEN Front(less) ELSE less

\* The residual of the current iteration.
Now == <<window, iteration>>
WindowOf(column) == column[2][1]

HasRoomForOneMore(columns) ==   \* fault: the limit is passed by one
  columns <= conf.maxIterationsUsed /\ columns <= conf.rows

HasRoom(columns) == columns # conf.maxIterationsUsed /\ columns <= conf.rows

\* Does IMVJ update _Wtil column by column?
UpdatesWtil == conf.method = "IMVJ" /\ ~conf.alwaysBuildJacobian

\* Does the first iteration relax instead of taking a quasi-Newton step?
Relaxes(q) == q.firstIteration /\ (q.firstTimeWindow \/ conf.forceInitialRelaxation)

---------------------------------------------------------------------------
(* The parts of the two calls.                                             *)

\* Called in the first iteration until a window has taken more than one.
InitializeVectors(q) ==
  IF q.firstTimeWindow /\ q.firstIteration
    THEN [q EXCEPT !.matrixV = <<>>, !.qrV = <<>>, !.Wtil = <<>>, !.chunk = <<>>]
    ELSE q

\* pushFront() drops a column that cannot be orthogonalized; never does one fit into a square system.
MayFit(q) ==
  {fits \in BOOLEAN : /\ fits => Len(q.qrV) # conf.rows
                      /\ ~fits => conf.dependent \/ Len(q.qrV) = conf.rows}

AddColumn(q, fits) ==
  LET column == <<q.oldResidual, Now>>
      room   == HasRoom(SumOf(q.matrixCols))
      pushed == (IF fits THEN <<column>> ELSE <<>>) \o q.qrV
      wtil   == [of |-> column, in |-> window]
  IN  [q EXCEPT !.matrixV = ShiftedIn(column, @, room),
                !.qrV = IF room THEN pushed ELSE Front(pushed),
                !.matrixCols = Counted(@, room),
                !.Wtil = IF UpdatesWtil THEN ShiftedIn(wtil, @, HasRoom(Len(@))) ELSE @]

UpdateDifferenceMatrices(q, fits) ==
  IF Relaxes(q) THEN q
  ELSE [(IF q.firstIteration THEN q ELSE AddColumn(q, fits)) EXCEPT !.oldResidual = Now]

\* The matrices of the window before, should the last one have left none.
RestoreBackup(q) ==
  IF /\ ~q.firstTimeWindow /\ SumOf(q.matrixCols) < 1
     /\ conf.timeWindowsReused = 0 /\ ~conf.forceInitialRelaxation
    THEN [q EXCEPT !.matrixCols = q.backupCols, !.matrixV = q.backupV,
                   !.qrV = q.backupV, !.resetLS = TRUE]
    ELSE q

\* New weights require a factorization from scratch; the QR2 filter makes one anyway.
Refactored(q) ==
  [q EXCEPT !.qrV = IF q.requireNewQR /\ conf.filter # "QR2"
                      THEN SubSeq(q.matrixV, 1, IF Len(q.matrixV) < conf.rows THEN Len(q.matrixV) ELSE conf.rows)
                      ELSE @,
            !.requireNewQR = FALSE]

\* What the filter may find to keep.  QR2 factorizes V anew from its newest column, which
\* stays; QR1 looks at the factorization there is, and a single column passes.
Kept(q) ==
  IF conf.filter = "QR2"
    THEN {kept \in SUBSET DOMAIN q.matrixV : /\ q.matrixV # <<>> => 1 \in kept
                                             /\ Cardinality(kept) <= conf.rows}
    ELSE {kept \in SUBSET DOMAIN q.qrV : q.qrV # <<>> => kept # {}}

ApplyFilterToFactors(q, kept) ==   \* fault: only the factorization loses the columns
  LET factored == IF conf.filter = "QR2" THEN q.matrixV ELSE q.qrV
      deleted  == DOMAIN factored \ kept
  IN  [q EXCEPT !.qrV = Without(factored, deleted)]

ApplyFilter(q, kept) ==
  LET factored == IF conf.filter = "QR2" THEN q.matrixV ELSE q.qrV
      deleted  == DOMAIN factored \ kept
  IN  [q EXCEPT !.qrV = Without(factored, deleted),
                !.matrixV = Without(@, deleted),
                !.matrixCols = Recounted(@, deleted),
                !.Wtil = IF UpdatesWtil /\ ~q.resetLS THEN Without(@, deleted) ELSE @]

BuildWtil(q) ==
  [q EXCEPT !.Wtil = [k \in DOMAIN q.matrixV |-> [of |-> q.matrixV[k], in |-> window]],
            !.resetLS = FALSE]

\* The matrix _Wtil that the update is computed with.
WithWtil(q) ==
  IF conf.method = "IMVJ" /\ (conf.alwaysBuildJacobian \/ q.resetLS) THEN BuildWtil(q) ELSE q

\* After the first step of a window nothing of the window before is used, if none is reused.
PendingDeletion(q) ==
  IF q.firstIteration /\ conf.timeWindowsReused = 0 /\ ~conf.forceInitialRelaxation
    THEN LET saved == IF SumOf(q.matrixCols) > 0
                        THEN [q EXCEPT !.backupCols = q.matrixCols, !.backupV = q.matrixV] ELSE q
         IN  [saved EXCEPT !.matrixV = <<>>, !.matrixCols = <<0>>, !.qrV = <<>>, !.resetLS = TRUE,
                           !.Wtil = IF UpdatesWtil THEN <<>> ELSE @]
    ELSE q

WithoutEmptyFront(cols) == IF cols # <<>> /\ Head(cols) = 0 THEN Tail(cols) ELSE cols

\* The restart of IMVJ, once there are chunkSize + 1 pairs.
Restarted(chunk) ==
  IF Len(chunk) < conf.chunkSize + 1 THEN chunk
  ELSE CASE conf.restart = "zero" -> <<>>
         [] conf.restart = "svd" -> <<[Wtil |-> 1, Z |-> 1]>>
         [] conf.restart = "slide" -> <<Last(chunk)>>

KeepJacobianAndWtil(q) ==   \* fault: _Wtil is not marked as outdated
  IF conf.restart = "none" THEN WithWtil(q)
  ELSE [q EXCEPT !.chunk = Restarted(Append(@, [Wtil |-> Len(q.Wtil), Z |-> Len(q.qrV)]))]

\* The Jacobian of the window: the pair (_Wtil, Z) is stored, or multiplied out.
KeepJacobian(q) ==
  LET kept == IF conf.restart = "none" THEN WithWtil(q)
              ELSE [q EXCEPT !.chunk = Restarted(Append(@, [Wtil |-> Len(q.Wtil), Z |-> Len(q.qrV)]))]
  IN  [kept EXCEPT !.resetLS = @ \/ conf.timeWindowsReused > 0 \/ conf.forceInitialRelaxation]

DropOldWindowsLate(q) ==   \* fault: a window too many stays
  IF conf.timeWindowsReused > 0 /\ Len(q.matrixCols) > conf.timeWindowsReused + 1
    THEN [q EXCEPT !.matrixV = SubSeq(@, 1, Len(@) - Last(q.matrixCols)),
                   !.qrV = SubSeq(@, 1, Len(@) - Last(q.matrixCols)),
                   !.matrixCols = Front(@)]
    ELSE q

\* The columns of the oldest window go when there are too many windows.
DropOldWindows(q) ==
  IF conf.timeWindowsReused = 0
    THEN IF conf.forceInitialRelaxation
           THEN [q EXCEPT !.matrixV = <<>>, !.qrV = <<>>, !.matrixCols = <<>>] ELSE q
    ELSE IF Len(q.matrixCols) > conf.timeWindowsReused
           THEN LET toRemove == Last(q.matrixCols)
                IN  [q EXCEPT !.matrixV = SubSeq(@, 1, Len(@) - toRemove),
                              !.qrV = SubSeq(@, 1, Len(@) - toRemove),
                              !.matrixCols = Front(@)]
           ELSE q

---------------------------------------------------------------------------

NothingUsed == [V |-> <<>>, qr |-> <<>>, Wtil |-> <<>>, at |-> <<0, 0>>, first |-> FALSE]

Init ==
  /\ conf \in Confs
  /\ qn = [matrixV |-> <<>>, matrixCols |-> <<0>>, qrV |-> <<>>, Wtil |-> <<>>, chunk |-> <<>>,
           backupV |-> <<>>, backupCols |-> <<>>, oldResidual |-> <<0, 0>>,
           firstIteration |-> TRUE, firstTimeWindow |-> TRUE, resetLS |-> FALSE, requireNewQR |-> FALSE]
  /\ used = NothingUsed
  /\ window = 1 /\ iteration = 1

\* Do the weights of the preconditioner change?  Constant and frozen ones do not.
MayChange == {changed \in BOOLEAN : changed => ~conf.constantWeights}

Relax(updated) ==
  /\ qn' = [updated EXCEPT !.oldResidual = Now, !.firstIteration = FALSE]
  /\ UNCHANGED used

QuasiNewtonStep(updated) ==
  \E changed \in MayChange :
    LET prepared == Refactored([RestoreBackup(updated) EXCEPT !.requireNewQR = @ \/ changed])
    IN  \E kept \in Kept(prepared) :
          LET system == WithWtil(ApplyFilter(prepared, kept))
          IN  /\ used' = [V |-> system.matrixV, qr |-> system.qrV, Wtil |-> system.Wtil,
                          at |-> Now, first |-> system.firstIteration]
              /\ qn' = [PendingDeletion(system) EXCEPT !.firstIteration = FALSE]

\* performAcceleration(): the iteration did not converge.
PerformAcceleration ==
  /\ iteration < Iterations
  /\ LET initialized == InitializeVectors(qn)
     IN  \E fits \in MayFit(initialized) :
           LET updated == UpdateDifferenceMatrices(initialized, fits)
           IN  IF Relaxes(updated) THEN Relax(updated) ELSE QuasiNewtonStep(updated)
  /\ iteration' = iteration + 1
  /\ UNCHANGED <<conf, window>>

\* specializedIterationsConverged() of IQN-ILS and of IQN-IMVJ.
Specialized(q, kept) ==
  IF conf.method = "ILS" THEN [q EXCEPT !.matrixCols = WithoutEmptyFront(@)]
  ELSE IF UpdatesWtil THEN KeepJacobian(ApplyFilter(Refactored(q), kept))
  ELSE q

\* iterationsConverged(): the window is complete.
IterationsConverged ==
  /\ window < Windows
  /\ LET initialized == InitializeVectors(qn)
     IN  \E fits \in MayFit(initialized), changed \in MayChange :
           LET updated == UpdateDifferenceMatrices(initialized, fits)
               counted == [updated EXCEPT !.matrixCols = WithoutEmptyFront(@)]
           IN  \E kept \in IF UpdatesWtil THEN Kept(Refactored(counted)) ELSE {{}} :
                 LET done == [Specialized(counted, kept) EXCEPT
                                !.firstTimeWindow = @ /\ qn.firstIteration,
                                !.requireNewQR = @ \/ changed]
                 IN  qn' = [DropOldWindows(done) EXCEPT !.matrixCols = <<0>> \o @,
                                                        !.firstIteration = TRUE]
  /\ window' = window + 1 /\ iteration' = 1
  /\ UNCHANGED <<conf, used>>

Next == PerformAcceleration \/ IterationsConverged

Spec == Init /\ [][Next]_vars

---------------------------------------------------------------------------
(* Properties.                                                             *)

\* Types: the matrices are sequences of columns, the counters are natural numbers, and no
\* matrix is wider than max-used-iterations or, by more than a column, the system is high.
TypeOK ==
  /\ conf \in Confs /\ window \in 1..Windows /\ iteration \in 1..Iterations
  /\ \A s \in {qn.matrixV, qn.qrV, qn.backupV} :
       /\ Len(s) <= conf.maxIterationsUsed /\ Len(s) <= conf.rows + 1
       /\ \A k \in DOMAIN s : s[k] \in ((1..Windows) \X (1..Iterations)) \X ((1..Windows) \X (1..Iterations))
  /\ \A k \in DOMAIN qn.matrixCols : qn.matrixCols[k] \in 0..conf.maxIterationsUsed
  /\ {qn.firstIteration, qn.firstTimeWindow, qn.resetLS, qn.requireNewQR} \subseteq BOOLEAN

\* The counters of _matrixCols add up to the columns there are (getLSSystemCols() asserts it),
\* there always is one for the current window, and only that one may be 0: whatever was
\* appended, shifted out, filtered, restored or dropped.
CountersMatch ==
  /\ SumOf(qn.matrixCols) = Len(qn.matrixV)
  /\ qn.matrixCols # <<>>
  /\ \A g \in 2..Len(qn.matrixCols) : qn.matrixCols[g] > 0

\* An update uses columns of no more windows of the past than time-windows-reused; if that is
\* 0, the first step of a window uses those of a single one.  With the QR1 filter, which may
\* discard the newest column and with it the counter of the window, this does not hold.
OnlyReusedWindows ==
  conf.filter = "QR2" =>
    LET past == {WindowOf(used.V[k]) : k \in DOMAIN used.V} \ {used.at[1]}
    IN  Cardinality(past) <= IF conf.timeWindowsReused = 0 /\ used.first THEN 1 ELSE conf.timeWindowsReused

\* The factorization an update solves with is one of exactly the columns of V, in their order.
FactorsMatch == used.qr = used.V

\* _Wtil = W - J_prev * V, for the V of the update and the Jacobian of the window before.  The
\* first step of a window keeps that of the window before if nothing is reused (its deletion is
\* pending until after the step).
WtilIsCurrent ==
  conf.method = "IMVJ" =>
    /\ [k \in DOMAIN used.Wtil |-> used.Wtil[k].of] = used.V
    /\ \/ \A k \in DOMAIN used.Wtil : used.Wtil[k].in = used.at[1]
       \/ used.first /\ conf.timeWindowsReused = 0

\* The pairs stored for the inverse Jacobian in restart mode can be multiplied: Z has a row for
\* each column of _Wtil.  buildWtil() and the updates assert it of each pair they use.
ChunkMatches == \A k \in DOMAIN qn.chunk : qn.chunk[k].Wtil = qn.chunk[k].Z

=============================================================================
