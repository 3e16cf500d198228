----------------------------- MODULE MCCheckSync -----------------------------
\* CheckSync for TLC.
EXTENDS CheckSync, TLC

\* The second edit is invalid if it is check 1's and needs the k6 feature if it
\* is check 2's; check 1's third edit needs it too.
MCInvalid == {<<1, 2>>}
MCGated == {<<1, 3>>} \cup ((Checks \ {1}) \X {2})
==============================================================================
