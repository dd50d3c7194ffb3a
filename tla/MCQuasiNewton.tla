--------------------------- MODULE MCQuasiNewton ---------------------------
(* Small instances of QuasiNewton. *)
EXTENDS QuasiNewton

Configurations(methods, filters, limits, reused, rows, dependent, restarts, chunks) ==
  {c \in [method : methods, filter : filters, maxIterationsUsed : limits, timeWindowsReused : reused,
          rows : rows, chunkSize : chunks, forceInitialRelaxation : BOOLEAN, constantWeights : BOOLEAN,
          dependent : dependent, alwaysBuildJacobian : BOOLEAN, restart : restarts] :
     /\ Admissible(c)
     /\ c.method = "ILS" => ~c.alwaysBuildJacobian}

\* IQN-ILS with the QR2 filter: limits of columns and windows, systems that become square,
\* dependent columns.  With the QR1 filter: columns that are independent, fewer than rows.
LeastSquares ==
  Configurations({"ILS"}, {"QR2"}, 1..4, 0..2, {2, 5}, BOOLEAN, {"none"}, {1})
    \cup Configurations({"ILS"}, {"QR1"}, {3}, 0..2, {5}, {FALSE}, {"none"}, {1})

\* IQN-IMVJ without restart.
MultiVector == Configurations({"IMVJ"}, {"QR2"}, {3}, 0..2, {2, 5}, BOOLEAN, {"none"}, {1})

\* IQN-IMVJ in restart mode, with nothing of the windows before.
Restarting ==
  {c \in Configurations({"IMVJ"}, {"QR2"}, {3}, {0}, {5}, {FALSE}, {"zero", "slide", "svd"}, {1, 2}) :
     ~c.forceInitialRelaxation}

MCConfs == LeastSquares \cup MultiVector \cup Restarting

\* IQN-IMVJ in restart mode, of the default type and chunk size, with a window reused.
ReusingRestart ==
  {c \in Configurations({"IMVJ"}, {"QR2"}, {4}, {1}, {5}, {FALSE}, {"svd"}, {8}) : ~c.forceInitialRelaxation}

=============================================================================
