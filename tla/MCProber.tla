------------------------------ MODULE MCProber ------------------------------
\* A pool of two slots, the second of an address range: it yields one of two
\* addresses at random.
EXTENDS Prober
CONSTANTS a1, b1, b2
Pool == <<{a1}, {b1, b2}>>
=============================================================================
