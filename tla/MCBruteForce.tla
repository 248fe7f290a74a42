---------------------------- MODULE MCBruteForce ----------------------------
EXTENDS BruteForce

MCTries == << 1, 2 >>

Block(f, n) == [ file |-> f, k |-> n ]

\* The arrangements of a file of three blocks, one of two and a block of no file
\* in which the last block of the first file is behind the middle one.
Pieces == << Block("A", 0), Block("A", 1), Block("A", 2), Block("B", 0), Block("B", 1),
             Block("-", 0) >>

Orders == { p \in [ 1 .. Len(Pieces) -> 1 .. Len(Pieces) ] :
              /\ Range(p) = 1 .. Len(Pieces)
              /\ SelectInSeq(p, LAMBDA x : x = 2) < SelectInSeq(p, LAMBDA x : x = 3) }

MCArrangements == { [ a \in Blocks |-> Pieces[p[a \div BS + 1]] ] : p \in Orders }

\* A format that does not locate errors is late with none, and a data_check does
\* not make a difference to one that is.
MCFormats == { f \in [ locates : BOOLEAN, late : { 0, 1 }, marker : BOOLEAN, data_check : BOOLEAN ] :
                 /\ f.locates \/ (f.late = 0 /\ ~ f.marker)
                 /\ f.data_check => f.late = 0 /\ f.locates }
=============================================================================
