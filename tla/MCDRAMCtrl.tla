----------------------------- MODULE MCDRAMCtrl -----------------------------
\* Small instances of DRAMCtrl for TLC.
EXTENDS DRAMCtrl, TLC

CONSTANT NumRanks

MCRanks == 0 .. NumRanks - 1

\* Bursts go to the ranks in turn.
MCRankOf(a) == (a \div BurstSize) % NumRanks

At(a, n) == [addr |-> a, size |-> n]

\* One partial burst, and a packet that starts and ends inside a burst.
SplitReads == {At(0, 1), At(1, 2)}

\* The end of a burst, and two full bursts.
SplitWrites == {At(1, 1), At(0, 4)}

OneBurstReads  == {At(0, 2), At(2, 2)}
OneBurstWrites == {At(0, 2), At(2, 2)}

\* Read identities are only compared for equality.
ReadSymmetry == Permutations(Reads)

=============================================================================
