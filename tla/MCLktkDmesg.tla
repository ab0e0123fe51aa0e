---------------------------- MODULE MCLktkDmesg ----------------------------
(* Small instances of LktkDmesg for TLC. *)
EXTENDS LktkDmesg

\* The boundary of each half of the filter, in a whole message and in a fragment.
SomeRecords ==
  {[flag |-> "-", level |-> 1, time |-> 1], [flag |-> "c", level |-> 1, time |-> 1],
   [flag |-> "-", level |-> 2, time |-> 1], [flag |-> "c", level |-> 1, time |-> 0]}

SomeRequests ==
  {[level |-> 1, after |-> 0, verbose |-> TRUE], [level |-> 2, after |-> 1, verbose |-> TRUE],
   [level |-> 2, after |-> 0, verbose |-> FALSE]}

\* Messages of one record and of fragments.
TwoRecords ==
  {[flag |-> "-", level |-> 1, time |-> 1], [flag |-> "c", level |-> 1, time |-> 1]}

OneRequest == {[level |-> 1, after |-> 0, verbose |-> TRUE]}

AllKernels == KernelKinds
NewKernel == {"new"}

=============================================================================
