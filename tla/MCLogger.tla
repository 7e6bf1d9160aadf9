------------------------------- MODULE MCLogger -------------------------------
(* A small instance of Logger for TLC: a ring that a few messages fill, a buffer that *)
(* two fill, and rotation that does not see all files at once.                        *)
EXTENDS Logger, TLC

MCSymmetry == Permutations(Cores)

\* The ring and the buffer on the one hand and the rotation on the other share no variable
\* but active: it is enough to log on the first day, and to rotate in silence.
MCLogsAtFirst == written > 0 => clock = 0 /\ session = 1

MCLengths == {1, 2}
=============================================================================
