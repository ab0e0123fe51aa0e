----------------------------- MODULE LktkDmesg -----------------------------
(***************************************************************************)
(* grep_kernel_messages of dmesg-util/dmesg.c: count, and on demand print, *)
(* the kernel messages that are at least as severe as a level and younger  *)
(* than a time.  It reads /dev/kmsg record by record, without blocking,    *)
(* joins the fragments of one message, and falls back on klogctl.          *)
(*                                                                         *)
(* The control block of the reader is static: the method, the counter, the *)
(* record set aside behind a fragment and the read buffer survive the call.*)
(* The kernel goes on logging, and overwrites its oldest records, while    *)
(* the reader reads.                                                       *)
(***************************************************************************)
EXTENDS Integers, Sequences, FiniteSets

CONSTANTS
  Records,    \* the records that are logged: flag, level (0 is the strongest), time
  Requests,   \* the arguments of the calls: level, after, verbose
  Kernels,    \* the systems the program meets: subset of KernelKinds
  FragCap,    \* sizeof(fragment_buf), in records
  MaxLog,     \* bound on the records ever logged
  MaxCalls    \* bound on the calls of grep_kernel_messages

\* "denied": /dev/kmsg cannot be opened; "old": it can, but read() returns EINVAL.
KernelKinds == {"denied", "old", "new"}

\* '-' ends a message of its own, 'c' (or '+') is a fragment of one.
Flags == {"-", "c"}

ASSUME RecordsAssumption == Records \subseteq [flag : Flags, level : Nat, time : Nat]
ASSUME RequestsAssumption == Requests \subseteq [level : Nat, after : Nat, verbose : BOOLEAN]
ASSUME BoundsAssumption == FragCap \in Nat \ {0} /\ MaxLog \in Nat /\ MaxCalls \in Nat
ASSUME KernelsAssumption == Kernels \subseteq KernelKinds

VARIABLES
  kernel,     \* the kind of the running kernel
  log,        \* every record ever logged
  oldest,     \* the first record that is not overwritten
  cleared,    \* the first record after the last SYSLOG_ACTION_CLEAR
  pc,         \* where the call is
  wanted,     \* the request: severity, after and quiet of the control block
  method,     \* how messages are read
  fd,         \* whether /dev/kmsg is open
  next,       \* its position
  first,      \* whether this is the read of init_kmsg
  buf,        \* kmsg_buf: the records of the message in it
  frag,       \* fragment_buf: the records of the fragment in progress
  saved,      \* kmsg_saved: the record set aside, or none
  count,      \* messages counted, over all calls
  shown,      \* messages printed by this call, by their first record
  delivered,  \* records handed to the filter by this call (history)
  before,     \* count, log length and first readable record at the call (history)
  calls       \* calls made (history)

kernelVars == <<kernel, log, oldest, cleared>>
readerVars == <<next, first, buf, frag, saved>>
historyVars == <<delivered, before, calls>>
vars == <<kernelVars, pc, wanted, method, fd, readerVars, count, shown, historyVars>>

None == <<>>
Larger(a, b) == IF a > b THEN a ELSE b
Smaller(a, b) == IF a < b THEN a ELSE b

Init ==
  /\ kernel \in Kernels
  /\ log = <<>> /\ oldest = 1 /\ cleared = 1
  /\ pc = "idle"
  /\ wanted = [level |-> 0, after |-> 0, verbose |-> TRUE]
  /\ method = "kmsg"
  /\ fd = FALSE /\ next = 1 /\ first = FALSE
  /\ buf = None /\ frag = None /\ saved = None
  /\ count = 0
  /\ shown = <<>> /\ delivered = <<>>
  /\ before = [count |-> 0, end |-> 0, start |-> 1]
  /\ calls = 0

-----------------------------------------------------------------------------
(* The kernel                                                              *)

\* A record is logged; it may cost any number of the oldest ones.
Log ==
  /\ Len(log) < MaxLog
  /\ \E r \in Records : log' = Append(log, r)
  /\ oldest' \in oldest..Len(log) + 1
  /\ UNCHANGED <<kernel, cleared, pc, wanted, method, fd, readerVars, count, shown, historyVars>>

\* Some other program clears the log for later readers.
Clear ==
  /\ cleared' = Len(log) + 1
  /\ UNCHANGED <<kernel, log, oldest, pc, wanted, method, fd, readerVars, count, shown, historyVars>>

-----------------------------------------------------------------------------
(* grep_kernel_messages and init_kmsg                                      *)

Call(w) ==
  /\ pc = "idle" /\ calls < MaxCalls
  /\ wanted' = w
  /\ pc' = IF method = "kmsg" THEN "open" ELSE "klog"
  /\ shown' = <<>> /\ delivered' = <<>>
  /\ before' = [count |-> count, end |-> Len(log), start |-> Larger(oldest, cleared)]
  /\ calls' = calls + 1
  /\ UNCHANGED <<kernelVars, method, fd, readerVars, count>>

\* Faulty: /dev/kmsg stays open.
FallBackOpen ==
  /\ method' = "syslog"
  /\ fd' = fd
  /\ pc' = "klog"

\* From now on, in every later call too, the messages come from klogctl.
FallBack ==
  /\ method' = "syslog"
  /\ fd' = FALSE
  /\ pc' = "klog"

OpenFails ==
  /\ pc = "open" /\ kernel = "denied"
  /\ FallBack
  /\ UNCHANGED <<kernelVars, wanted, readerVars, count, shown, historyVars>>

\* lseek(SEEK_DATA): after the last clear, even if that record is overwritten.
Open ==
  /\ pc = "open" /\ kernel # "denied"
  /\ fd' = TRUE
  /\ next' = cleared
  /\ first' = TRUE
  /\ pc' = "read"
  /\ UNCHANGED <<kernelVars, wanted, method, buf, frag, saved, count, shown, historyVars>>

-----------------------------------------------------------------------------
(* read_kmsg_one, one action for every read()                              *)

Reading == pc = "read" /\ saved = None
Available == kernel = "new" /\ next \in oldest..Len(log)

\* read_kmsg_one returns the size of what is in kmsg_buf.
ReturnMessage(records) ==
  /\ buf' = records
  /\ frag' = None
  /\ first' = FALSE
  /\ pc' = "deliver"
  /\ UNCHANGED <<method, fd>>

\* It returns -1: init_kmsg gives /dev/kmsg up, read_kmsg is done.
ReturnError ==
  /\ frag' = None
  /\ first' = FALSE
  /\ IF first THEN FallBack ELSE pc' = "finish" /\ UNCHANGED <<method, fd>>
  /\ UNCHANGED <<buf, saved>>

TakeSaved ==
  /\ pc = "read" /\ saved # None
  /\ ReturnMessage(saved)
  /\ saved' = None
  /\ UNCHANGED <<kernelVars, wanted, next, count, shown, historyVars>>

\* Where memcpy ends in fragment_buf: it copies the length of both parts.
CopyEnd == Len(frag) + Smaller(Len(frag) + 1, FragCap)

\* Faulty: every fragment is a message.
ReadFragmentAlone ==
  /\ Reading /\ Available /\ log[next].flag = "c"
  /\ ReturnMessage(<<next>>)
  /\ next' = next + 1
  /\ UNCHANGED <<kernelVars, wanted, saved, count, shown, historyVars>>

\* The first fragment is copied with its header, the text of others is appended.
ReadFragment ==
  /\ Reading /\ Available /\ log[next].flag = "c"
  /\ frag # None => CopyEnd <= FragCap
  /\ buf' = <<next>>
  /\ frag' = Append(frag, next)
  /\ next' = next + 1
  /\ UNCHANGED <<kernelVars, pc, wanted, method, fd, first, saved, count, shown, historyVars>>

\* memcpy leaves fragment_buf: the behaviour of the program ends here.
ReadTooMuch ==
  /\ Reading /\ Available /\ log[next].flag = "c"
  /\ frag # None /\ CopyEnd > FragCap
  /\ pc' = "undefined"
  /\ UNCHANGED <<kernelVars, wanted, method, fd, readerVars, count, shown, historyVars>>

ReadPlain ==
  /\ Reading /\ Available /\ log[next].flag = "-"
  /\ frag = None
  /\ ReturnMessage(<<next>>)
  /\ next' = next + 1
  /\ UNCHANGED <<kernelVars, wanted, saved, count, shown, historyVars>>

\* Faulty: the record behind the fragment is not set aside.
ReadBehindFragmentLost ==
  /\ Reading /\ Available /\ log[next].flag = "-"
  /\ frag # None
  /\ saved' = None
  /\ ReturnMessage(frag)
  /\ next' = next + 1
  /\ UNCHANGED <<kernelVars, wanted, count, shown, historyVars>>

\* The fragment is complete: its message goes first, the record is set aside.
ReadBehindFragment ==
  /\ Reading /\ Available /\ log[next].flag = "-"
  /\ frag # None
  /\ saved' = <<next>>
  /\ ReturnMessage(frag)
  /\ next' = next + 1
  /\ UNCHANGED <<kernelVars, wanted, count, shown, historyVars>>

AtEnd == kernel = "new" /\ next > Len(log)

\* EAGAIN with a fragment in progress: nothing follows it for now.
ReadEndOfFragment ==
  /\ Reading /\ AtEnd /\ frag # None
  /\ ReturnMessage(frag)
  /\ UNCHANGED <<kernelVars, wanted, next, saved, count, shown, historyVars>>

\* Faulty: read() is repeated on EAGAIN as on EPIPE.
ReadNothingAgain ==
  /\ Reading
  /\ AtEnd /\ frag = None
  /\ UNCHANGED vars

\* EAGAIN, or EINVAL from an old kernel.
ReadNothing ==
  /\ Reading
  /\ \/ AtEnd /\ frag = None
     \/ kernel = "old"
  /\ ReturnError
  /\ UNCHANGED <<kernelVars, wanted, next, count, shown, historyVars>>

Overrun == kernel = "new" /\ next < oldest

\* EPIPE, and kmsg_buf is empty: nothing is parsed, errno stays, read() is repeated.
ReadOverrunAgain ==
  /\ Reading /\ Overrun /\ buf = None
  /\ next' = oldest
  /\ UNCHANGED <<kernelVars, pc, wanted, method, fd, first, buf, frag, saved, count, shown, historyVars>>

\* EPIPE, and the last record still is in kmsg_buf: parsing it resets errno,
\* so the loop takes EPIPE for the end.
ReadOverrun ==
  /\ Reading /\ Overrun /\ buf # None
  /\ next' = oldest
  /\ ReturnError
  /\ UNCHANGED <<kernelVars, wanted, count, shown, historyVars>>

-----------------------------------------------------------------------------
(* read_kmsg, and the end of grep_kernel_messages                          *)

Accepted(k) == log[k].level <= wanted.level /\ log[k].time > wanted.after

\* Faulty: the filter judges a joined message by its last fragment.
DeliverLast ==
  /\ pc = "deliver"
  /\ LET k == buf[Len(buf)] IN
       /\ count' = IF Accepted(k) THEN count + 1 ELSE count
       /\ shown' = IF Accepted(k) /\ wanted.verbose THEN Append(shown, k) ELSE shown
  /\ delivered' = delivered \o buf
  /\ pc' = "read"
  /\ UNCHANGED <<kernelVars, wanted, method, fd, readerVars, before, calls>>

\* The header of a joined message is that of its first fragment.
Deliver ==
  /\ pc = "deliver"
  /\ LET k == Head(buf) IN
       /\ count' = IF Accepted(k) THEN count + 1 ELSE count
       /\ shown' = IF Accepted(k) /\ wanted.verbose THEN Append(shown, k) ELSE shown
  /\ delivered' = delivered \o buf
  /\ pc' = "read"
  /\ UNCHANGED <<kernelVars, wanted, method, fd, readerVars, before, calls>>

\* close, and count is returned.
Finish ==
  /\ pc = "finish"
  /\ fd' = FALSE
  /\ pc' = "idle"
  /\ UNCHANGED <<kernelVars, wanted, method, readerVars, count, shown, historyVars>>

\* klogctl: the whole log is printed as it is; nothing is filtered or counted.
ReadSyslog ==
  /\ pc = "klog"
  /\ LET start == Larger(oldest, cleared) IN
       shown' = IF wanted.verbose
                THEN [j \in 1..Len(log) + 1 - start |-> start + j - 1]
                ELSE <<>>
  /\ pc' = "idle"
  /\ UNCHANGED <<kernelVars, wanted, method, fd, readerVars, count, historyVars>>

\* klogctl fails: err() ends the program.
SyslogFails ==
  /\ pc = "klog" /\ kernel = "denied"
  /\ pc' = "exited"
  /\ UNCHANGED <<kernelVars, wanted, method, fd, readerVars, count, shown, historyVars>>

Read ==
  \/ TakeSaved \/ ReadFragment \/ ReadTooMuch \/ ReadPlain \/ ReadBehindFragment
  \/ ReadEndOfFragment \/ ReadNothing \/ ReadOverrunAgain \/ ReadOverrun

Reader ==
  \/ OpenFails \/ Open \/ Read \/ Deliver \/ Finish \/ ReadSyslog \/ SyslogFails

Next ==
  \/ \E w \in Requests : Call(w)
  \/ Reader
  \/ Log \/ Clear

Spec == Init /\ [][Next]_vars

\* The reader never blocks: it opened /dev/kmsg with O_NONBLOCK.
FairSpec == Spec /\ WF_vars(Reader)

-----------------------------------------------------------------------------
(* Properties                                                              *)

Position == 1..MaxLog

TypeOK ==
  /\ kernel \in KernelKinds
  /\ log \in Seq(Records) /\ Len(log) <= MaxLog
  /\ oldest \in 1..MaxLog + 1 /\ cleared \in 1..MaxLog + 1 /\ next \in 1..MaxLog + 1
  /\ pc \in {"idle", "open", "read", "deliver", "finish", "klog", "exited", "undefined"}
  /\ wanted \in [level : Nat, after : Nat, verbose : BOOLEAN]
  /\ method \in {"kmsg", "syslog"}
  /\ fd \in BOOLEAN /\ first \in BOOLEAN
  /\ {buf, frag, saved, shown, delivered} \subseteq Seq(Position)
  /\ count \in Nat
  /\ before \in [count : Nat, end : 0..MaxLog, start : 1..MaxLog + 1]
  /\ calls \in 0..MaxCalls

\* Every record read from /dev/kmsg, in the order it goes to the filter.
Consumed == delivered \o (IF pc = "deliver" THEN buf ELSE None) \o frag \o saved

\* Whatever the kernel overwrites meanwhile, the filter sees an unbroken run of
\* records in their order, none twice, and all that has been read so far: while a
\* call lasts the fragment in progress and the record behind it are neither lost
\* nor swapped. A fragment that has no end when the call ends goes with the call.
EveryRecordOnce ==
  pc \in {"read", "deliver"} =>
    LET c == Consumed IN
      \A j \in 1..Len(c) : c[j] = next - 1 - Len(c) + j

\* Only complete messages go to the filter: a record of its own, or fragments up
\* to the record that ends them or to the end of the log.
MessagesWhole ==
  [][pc = "read" /\ pc' = "deliver" =>
       \/ Len(buf') = 1 /\ log[buf'[1]].flag = "-"
       \/ /\ \A j \in 1..Len(buf') : log[buf'[j]].flag = "c"
          /\ saved' # None \/ next' > Len(log)]_vars

\* The first records of the messages in the log, from record start on.
Messages(start) ==
  {k \in start..Len(log) : k = start \/ log[k].flag = "-" \/ log[k - 1].flag = "-"}

\* The call ran over a log that did not change.
Still == before.end = Len(log) /\ before.start = Larger(oldest, cleared)

\* On a log that stands still the answer, which main prints as the number of
\* messages of a level after a time, exceeds the one of the call before by just
\* that number, and these messages are the ones printed.
StillLogCounted ==
  pc = "finish" /\ Still =>
    LET hits == {k \in Messages(before.start) : Accepted(k)} IN
      /\ count = before.count + Cardinality(hits)
      /\ wanted.verbose => {shown[j] : j \in 1..Len(shown)} = hits

\* Between calls /dev/kmsg is closed and no record is left for the next call; a
\* call that reads with klogctl has closed it, too.
NothingLeftOver ==
  pc \in {"idle", "open", "klog", "exited"} => ~fd /\ saved = None /\ frag = None

\* A call ends, once the kernel pauses: no loop spins on a saved record or an error.
CallEnds == pc = "open" ~> pc \in {"idle", "exited", "undefined"}

\* read_kmsg_one means to read again on EPIPE: reading ends at the end of the log.
ReadsToEnd == [][pc = "read" /\ pc' = "finish" => next > Len(log)]_vars

\* A fragment that is too long is truncated: fragment_buf is never left.
FragmentsTruncated == pc # "undefined"

=============================================================================
