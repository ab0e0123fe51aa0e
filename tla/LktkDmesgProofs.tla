-------------------------- MODULE LktkDmesgProofs --------------------------
(***************************************************************************)
(* Theorems about LktkDmesg, for any records, requests, kernels and sizes. *)
(* IInv says where the records read so far are: in the messages given to   *)
(* the filter, in the one under way to it, in the fragment in progress and *)
(* in the record set aside, each a run of records that ends where the next *)
(* begins.                                                                 *)
(***************************************************************************)
EXTENDS LktkDmesg, SequenceTheorems, FiniteSetTheorems, TLAPS

Places ==
  /\ log \in Seq(Records)
  /\ oldest \in 1..Len(log) + 1 /\ cleared \in 1..Len(log) + 1 /\ next \in 1..Len(log) + 1
  /\ buf \in Seq(Nat) /\ frag \in Seq(Nat) /\ saved \in Seq(Nat) /\ delivered \in Seq(Nat)

\* What is empty when.
Empty ==
  /\ pc \notin {"read", "deliver", "undefined"} => saved = None /\ frag = None
  /\ pc \in {"idle", "open", "klog", "exited"} => fd = FALSE
  /\ pc = "deliver" => buf # None
  /\ pc = "open" => delivered = None
  /\ buf = None => frag = None /\ saved = None /\ delivered = None
  /\ saved # None => frag = None

\* s is the run of records that ends with record e.
Run(s, e) == \A j \in 1..Len(s) : s[j] = e - Len(s) + j

Underway == IF pc = "deliver" THEN Len(buf) ELSE 0

Runs ==
  pc \in {"read", "deliver"} =>
    /\ Run(saved, next - 1)
    /\ Run(frag, next - 1 - Len(saved))
    /\ pc = "deliver" => frag = None /\ Run(buf, next - 1 - Len(saved))
    /\ Run(delivered, next - 1 - Len(saved) - Len(frag) - Underway)

Flagged ==
  /\ \A j \in 1..Len(frag) : frag[j] \in 1..Len(log) /\ log[frag[j]].flag = "c"
  /\ saved # None => Len(saved) = 1 /\ saved[1] \in 1..Len(log) /\ log[saved[1]].flag = "-"

IInv == Places /\ Empty /\ Runs /\ Flagged
-----------------------------------------------------------------------------
LEMMA NoneIsEmpty ==
  /\ \A S : None \in Seq(S)
  /\ Len(None) = 0
  /\ \A s \in Seq(Nat) : Len(s) \in Nat /\ (s = None <=> Len(s) = 0)
  BY EmptySeq, LenProperties DEF None

LEMMA NoneRuns == \A e : Run(None, e)
  BY NoneIsEmpty DEF Run

LEMMA RunOfOne == \A k \in Nat : <<k>> \in Seq(Nat) /\ Len(<<k>>) = 1 /\ <<k>> # None /\ Run(<<k>>, k)
<1> SUFFICES ASSUME NEW k \in Nat PROVE <<k>> \in Seq(Nat) /\ Len(<<k>>) = 1 /\ <<k>> # None /\ Run(<<k>>, k)
  OBVIOUS
<1>1. <<k>> \in Seq(Nat) /\ Len(<<k>>) = 1 /\ <<k>>[1] = k
  OBVIOUS
<1>2. \A j \in 1..Len(<<k>>) : j = 1
  BY <1>1
<1> QED
  BY <1>1, <1>2, NoneIsEmpty DEF Run

\* Two runs, the second where the first ends, are one.
LEMMA RunsJoin ==
  ASSUME NEW s \in Seq(Nat), NEW t \in Seq(Nat), NEW e \in Int, Run(t, e), Run(s, e - Len(t))
  PROVE  s \o t \in Seq(Nat) /\ Len(s \o t) = Len(s) + Len(t) /\ Run(s \o t, e)
<1>1. s \o t \in Seq(Nat) /\ Len(s) \in Nat /\ Len(t) \in Nat /\ Len(s \o t) = Len(s) + Len(t)
  BY ConcatProperties, LenProperties
<1>2. ASSUME NEW j \in 1..Len(s \o t) PROVE (s \o t)[j] = e - Len(s \o t) + j
  <2>1. (s \o t)[j] = IF j <= Len(s) THEN s[j] ELSE t[j - Len(s)]
    BY <1>1, ConcatProperties
  <2>2. CASE j <= Len(s)
    BY <1>1, <2>1, <2>2 DEF Run
  <2>3. CASE j > Len(s)
    <3>1. j - Len(s) \in 1..Len(t)
      BY <1>1, <2>3
    <3> QED
      BY <1>1, <2>1, <2>3, <3>1 DEF Run
  <2> QED
    BY <1>1, <2>2, <2>3
<1> QED
  BY <1>1, <1>2 DEF Run
-----------------------------------------------------------------------------
LEMMA InitIInv == Init => IInv
<1> SUFFICES ASSUME Init PROVE IInv
  OBVIOUS
<1>1. /\ log = None /\ oldest = 1 /\ cleared = 1 /\ next = 1 /\ pc = "idle" /\ fd = FALSE
      /\ buf = None /\ frag = None /\ saved = None /\ delivered = None
  BY Zenon DEF Init, None
<1>2. Places
  <2>1. Len(log) = 0 /\ 1 \in 1..0 + 1
    BY <1>1, NoneIsEmpty
  <2> QED
    BY <1>1, <2>1, NoneIsEmpty, Zenon DEF Places
<1>3. Flagged
  <2>1. 1..Len(frag) = {}
    BY <1>1, NoneIsEmpty
  <2> QED
    BY <1>1, <2>1 DEF Flagged
<1> QED
  BY <1>1, <1>2, <1>3 DEF IInv, Empty, Runs

\* Records that are logged later change nothing about those read.
LEMMA LogStep == ASSUME IInv, Log PROVE IInv'
<1>1. PICK r \in Records : log' = Append(log, r)
  BY DEF Log
<1>2. /\ log \in Seq(Records) /\ Len(log) \in Nat /\ log' \in Seq(Records) /\ Len(log') = Len(log) + 1
      /\ \A k \in 1..Len(log) : log'[k] = log[k]
  BY <1>1 DEF IInv, Places
<1>3. UNCHANGED <<cleared, pc, fd, next, buf, frag, saved, delivered>> /\ oldest' \in oldest..Len(log) + 1
  BY DEF Log, readerVars, historyVars
<1>4. Places'
  BY <1>2, <1>3 DEF IInv, Places
<1>5. Empty' /\ Runs'
  BY <1>3 DEF IInv, Empty, Runs, Run, Underway
<1>6. Flagged'
  BY <1>2, <1>3 DEF IInv, Flagged
<1> QED
  BY <1>4, <1>5, <1>6 DEF IInv

\* Steps that read no record: a call begins or ends.
LEMMA CallStep ==
  ASSUME IInv, Clear \/ (\E w \in Requests : Call(w)) \/ OpenFails \/ Open \/ Finish \/ ReadSyslog \/ SyslogFails
  PROVE  IInv'
<1> USE DEF IInv
<1>1. UNCHANGED <<log, oldest, buf, frag, saved>>
  BY DEF Clear, Call, OpenFails, Open, Finish, ReadSyslog, SyslogFails, kernelVars, readerVars
<1>2. Len(log) \in Nat
  BY DEF Places
<1>3. CASE Clear
  <2>1. UNCHANGED <<pc, fd, next, delivered>> /\ cleared' = Len(log) + 1
    BY <1>3 DEF Clear, readerVars, historyVars
  <2>2. Places'
    BY <1>1, <1>2, <2>1 DEF Places
  <2>3. Empty' /\ Flagged'
    BY <1>1, <2>1 DEF Empty, Flagged
  <2>4. Runs'
    BY <1>1, <2>1 DEF Runs, Run, Underway
  <2> QED
    BY <2>2, <2>3, <2>4
<1>4. CASE \E w \in Requests : Call(w)
  <2>1. /\ pc = "idle" /\ pc' \in {"open", "klog"} /\ delivered' = None /\ UNCHANGED <<cleared, fd, next>>
    BY <1>4, Zenon DEF Call, kernelVars, readerVars, None
  <2>2. delivered' \in Seq(Nat)
    BY <2>1, NoneIsEmpty
  <2>3. Places' /\ Flagged'
    BY <1>1, <2>1, <2>2 DEF Places, Flagged
  <2> QED
    BY <1>1, <2>1, <2>3 DEF Empty, Runs
<1>5. CASE Open
  <2>1. /\ pc = "open" /\ pc' = "read" /\ next' = cleared /\ UNCHANGED <<cleared, delivered>>
        /\ saved = None /\ frag = None /\ delivered = None
    BY <1>5 DEF Open, kernelVars, historyVars, Empty
  <2> QED
    BY <1>1, <1>2, <2>1, NoneRuns DEF Places, Empty, Runs, Flagged
<1>6. CASE OpenFails \/ Finish \/ ReadSyslog \/ SyslogFails
  <2>1. /\ UNCHANGED <<cleared, next, delivered>> /\ pc \in {"open", "finish", "klog"} /\ pc' \in {"klog", "idle", "exited"}
        /\ fd' = FALSE
    BY <1>6 DEF OpenFails, Finish, ReadSyslog, SyslogFails, FallBack, kernelVars, readerVars, historyVars, Empty
  <2> QED
    BY <1>1, <1>2, <2>1 DEF Places, Empty, Runs, Flagged
<1> QED
  BY <1>3, <1>4, <1>5, <1>6

\* A message goes to the filter: to the run of those before it.
LEMMA DeliverStep == ASSUME IInv, Deliver PROVE IInv'
<1> USE DEF IInv
<1>1. /\ pc = "deliver" /\ pc' = "read" /\ delivered' = delivered \o buf
      /\ UNCHANGED <<log, oldest, cleared, next, buf, frag, saved>>
  BY DEF Deliver, kernelVars, readerVars
<1>2. buf # None /\ frag = None /\ Len(frag) = 0 /\ Len(saved) \in Nat /\ Len(buf) \in Nat /\ next \in Nat /\ Len(log) \in Nat
  BY <1>1, NoneIsEmpty DEF Empty, Runs, Places
<1>3. Run(buf, next - 1 - Len(saved)) /\ Run(delivered, next - 1 - Len(saved) - Len(buf))
  BY <1>1, <1>2 DEF Runs, Underway
<1>4. /\ delivered' \in Seq(Nat) /\ Len(delivered') = Len(delivered) + Len(buf)
      /\ Run(delivered', next - 1 - Len(saved))
  BY <1>1, <1>2, <1>3, RunsJoin DEF Places
<1>5. Runs'
  BY <1>1, <1>2, <1>3, <1>4 DEF Runs, Run, Underway
<1>6. Places' /\ Empty' /\ Flagged'
  BY <1>1, <1>2, <1>4 DEF Places, Empty, Flagged
<1> QED
  BY <1>5, <1>6
-----------------------------------------------------------------------------
\* A record is read, or what was set aside is taken.  ReturnMessage(m) for a run m
\* that ends before record e, where what is set aside begins.
LEMMA Returned ==
  ASSUME IInv, pc = "read", NEW m \in Seq(Nat), m # None, ReturnMessage(m),
         saved' \in Seq(Nat), next' \in Nat, UNCHANGED <<log, delivered>>,
         Run(saved', next' - 1), Run(m, next' - 1 - Len(saved')), Run(delivered, next' - 1 - Len(saved') - Len(m))
  PROVE  Empty' /\ Runs' /\ buf' \in Seq(Nat) /\ frag' \in Seq(Nat)
<1>1. buf' = m /\ pc' = "deliver"
  BY DEF ReturnMessage
<1>2. frag' = None
  BY Zenon DEF ReturnMessage
<1>3. frag' \in Seq(Nat) /\ Len(frag') = 0 /\ Run(frag', next' - 1 - Len(saved')) /\ Len(saved') \in Nat /\ Len(m) \in Nat
  BY <1>2, NoneIsEmpty, NoneRuns
<1>4. Empty'
  BY <1>1, <1>2 DEF Empty
<1>5. Run(saved', next' - 1) /\ Run(buf', next' - 1 - Len(saved')) /\ Run(delivered', next' - 1 - Len(saved') - Len(frag') - Len(buf'))
  BY <1>1, <1>3 DEF Run
<1>6. Runs'
  BY <1>1, <1>2, <1>3, <1>5 DEF Runs, Run, Underway
<1> QED
  BY <1>1, <1>3, <1>4, <1>6

LEMMA TakeSavedStep == ASSUME IInv, TakeSaved PROVE IInv'
<1> USE DEF IInv
<1>1. /\ pc = "read" /\ saved # None /\ ReturnMessage(saved) /\ frag = None
      /\ UNCHANGED <<log, oldest, cleared, next, delivered>> /\ next \in Nat /\ saved \in Seq(Nat) /\ Len(saved) \in Nat
  BY DEF TakeSaved, kernelVars, historyVars, Empty, Places
<1>2. saved' = None
  BY DEF TakeSaved
<1>3. saved' \in Seq(Nat) /\ Len(saved') = 0 /\ Len(frag) = 0 /\ Run(saved', next' - 1)
  BY <1>1, <1>2, NoneIsEmpty, NoneRuns
<1>4. Run(saved, next' - 1 - Len(saved')) /\ Run(delivered, next' - 1 - Len(saved') - Len(saved))
  BY <1>1, <1>3 DEF Runs, Run, Underway
<1>5. Empty' /\ Runs' /\ buf' \in Seq(Nat) /\ frag' \in Seq(Nat)
  BY <1>1, <1>3, <1>4, Returned
<1>6. frag' = None
  BY <1>1, Zenon DEF ReturnMessage
<1>7. Places' /\ Flagged'
  BY <1>1, <1>2, <1>3, <1>5, <1>6, NoneIsEmpty DEF Places, Flagged
<1> QED
  BY <1>5, <1>7

\* The record at hand.
LEMMA RecordRead ==
  ASSUME IInv, Reading, Available
  PROVE  /\ pc = "read" /\ saved = None /\ Len(saved) = 0
         /\ next \in 1..Len(log) /\ next \in Nat /\ Len(log) \in Nat /\ next + 1 \in 1..Len(log) + 1
         /\ frag \in Seq(Nat) /\ Len(frag) \in Nat /\ delivered \in Seq(Nat) /\ Len(delivered) \in Nat
         /\ Run(frag, next - 1) /\ Run(delivered, next - 1 - Len(frag))
<1>1. pc = "read" /\ saved = None /\ Len(saved) = 0
  BY NoneIsEmpty DEF Reading
<1>2. /\ next \in 1..Len(log) /\ next \in Nat /\ Len(log) \in Nat /\ next + 1 \in 1..Len(log) + 1
      /\ frag \in Seq(Nat) /\ Len(frag) \in Nat /\ delivered \in Seq(Nat) /\ Len(delivered) \in Nat
  BY DEF Available, IInv, Places
<1>3. Run(frag, next - 1) /\ Run(delivered, next - 1 - Len(frag))
  BY <1>1, <1>2 DEF IInv, Runs, Run, Underway
<1> QED
  BY <1>1, <1>2, <1>3

\* The fragment in progress grows.
LEMMA ReadFragmentStep == ASSUME IInv, ReadFragment PROVE IInv'
<1> USE DEF IInv
<1>1. /\ Reading /\ Available /\ log[next].flag = "c" /\ buf' = <<next>> /\ frag' = Append(frag, next) /\ next' = next + 1
      /\ UNCHANGED <<log, oldest, cleared, pc, fd, saved, delivered>>
  BY DEF ReadFragment, kernelVars, historyVars
<1>2. /\ pc = "read" /\ saved = None /\ Len(saved) = 0
      /\ next \in 1..Len(log) /\ next \in Nat /\ Len(log) \in Nat /\ next + 1 \in 1..Len(log) + 1
      /\ frag \in Seq(Nat) /\ Len(frag) \in Nat /\ delivered \in Seq(Nat) /\ Len(delivered) \in Nat
      /\ Run(frag, next - 1) /\ Run(delivered, next - 1 - Len(frag))
  BY <1>1, RecordRead
<1>3. /\ frag' \in Seq(Nat) /\ Len(frag') = Len(frag) + 1
      /\ \A j \in 1..Len(frag') : frag'[j] = IF j = Len(frag) + 1 THEN next ELSE frag[j]
  BY <1>1, <1>2
<1>4. buf' \in Seq(Nat) /\ buf' # None
  BY <1>1, <1>2, RunOfOne
<1>5. Places' /\ Empty'
  BY <1>1, <1>2, <1>3, <1>4 DEF Places, Empty
<1>6. Run(frag', next' - 1) /\ Run(delivered', next' - 1 - Len(frag'))
  <2>1. next' - 1 - Len(frag') = next - 1 - Len(frag)
    BY <1>1, <1>2, <1>3, SMTT(30)
  <2>2. ASSUME NEW j \in 1..Len(frag') PROVE frag'[j] = next' - 1 - Len(frag') + j
    <3>1. CASE j = Len(frag) + 1
      BY <1>1, <1>2, <1>3, <2>1, <3>1
    <3>2. CASE j # Len(frag) + 1
      <4>1. j \in 1..Len(frag) /\ frag'[j] = frag[j]
        BY <1>2, <1>3, <3>2
      <4>2. frag[j] = next - 1 - Len(frag) + j
        BY <1>2, <4>1 DEF Run
      <4> QED
        BY <2>1, <4>1, <4>2
    <3> QED
      BY <3>1, <3>2
  <2> QED
    <3>1. Run(frag', next' - 1)
      BY <2>2 DEF Run
    <3>2. Run(delivered, next - 1 - Len(frag)) /\ delivered' = delivered
      BY <1>1, <1>2
    <3>3. Run(delivered', next' - 1 - Len(frag'))
      BY <2>1, <3>2
    <3> QED
      BY <3>1, <3>3
<1>7. Runs'
  BY <1>1, <1>2, <1>3, <1>6, NoneRuns, SMTT(30) DEF Runs, Run, Underway
<1>8. Flagged'
  BY <1>1, <1>2, <1>3, SMTT(30) DEF Flagged
<1> QED
  BY <1>5, <1>7, <1>8

LEMMA ReadPlainStep == ASSUME IInv, ReadPlain PROVE IInv'
<1> USE DEF IInv
<1>1. /\ Reading /\ Available /\ frag = None /\ ReturnMessage(<<next>>) /\ next' = next + 1
      /\ UNCHANGED <<log, oldest, cleared, saved, delivered>>
  BY Zenon DEF ReadPlain, kernelVars, historyVars
<1>2. /\ pc = "read" /\ saved = None /\ Len(saved) = 0
      /\ next \in Nat /\ Len(log) \in Nat /\ next + 1 \in 1..Len(log) + 1
      /\ delivered \in Seq(Nat) /\ Run(delivered, next - 1 - Len(frag)) /\ Len(frag) = 0
  BY <1>1, RecordRead, NoneIsEmpty
<1>3. <<next>> \in Seq(Nat) /\ Len(<<next>>) = 1 /\ <<next>> # None /\ Run(<<next>>, next)
  BY <1>2, RunOfOne
<1>4. saved' = None /\ Len(saved') = 0 /\ saved' \in Seq(Nat) /\ Run(saved', next' - 1)
  BY <1>1, <1>2, NoneIsEmpty, NoneRuns
<1>5. /\ next' - 1 - Len(saved') = next /\ next' - 1 - Len(saved') - Len(<<next>>) = next - 1 - Len(frag) /\ next' \in Nat
  BY <1>1, <1>2, <1>3, <1>4
<1>6. Empty' /\ Runs' /\ buf' \in Seq(Nat) /\ frag' \in Seq(Nat)
  BY <1>1, <1>2, <1>3, <1>4, <1>5, Returned
<1>7. frag' = None
  BY <1>1, Zenon DEF ReturnMessage
<1>8. Places' /\ Flagged'
  BY <1>1, <1>2, <1>4, <1>6, <1>7, NoneIsEmpty DEF Places, Flagged
<1> QED
  BY <1>6, <1>8

\* The fragment goes first, the record behind it is set aside.
LEMMA ReadBehindFragmentStep == ASSUME IInv, ReadBehindFragment PROVE IInv'
<1> USE DEF IInv
<1>1. /\ Reading /\ Available /\ log[next].flag = "-" /\ frag # None /\ ReturnMessage(frag)
      /\ saved' = <<next>> /\ next' = next + 1 /\ UNCHANGED <<log, oldest, cleared, delivered>>
  BY DEF ReadBehindFragment, kernelVars, historyVars
<1>2. /\ pc = "read" /\ next \in 1..Len(log) /\ next \in Nat /\ Len(log) \in Nat /\ next + 1 \in 1..Len(log) + 1
      /\ frag \in Seq(Nat) /\ Len(frag) \in Nat /\ delivered \in Seq(Nat)
      /\ Run(frag, next - 1) /\ Run(delivered, next - 1 - Len(frag))
  BY <1>1, RecordRead
<1>3. saved' \in Seq(Nat) /\ Len(saved') = 1 /\ saved' # None /\ Run(saved', next) /\ saved'[1] = next
  BY <1>1, <1>2, RunOfOne
<1>4. next' - 1 = next /\ next' - 1 - Len(saved') = next - 1 /\ next' \in Nat
  BY <1>1, <1>2, <1>3
<1>5. Empty' /\ Runs' /\ buf' \in Seq(Nat) /\ frag' \in Seq(Nat)
  BY <1>1, <1>2, <1>3, <1>4, Returned
<1>6. frag' = None /\ Len(frag') = 0
  BY <1>1, NoneIsEmpty, Zenon DEF ReturnMessage
<1>7. Places'
  BY <1>1, <1>2, <1>3, <1>5 DEF Places
<1>8. Flagged'
  BY <1>1, <1>2, <1>3, <1>6 DEF Flagged
<1> QED
  BY <1>5, <1>7, <1>8

LEMMA ReadEndOfFragmentStep == ASSUME IInv, ReadEndOfFragment PROVE IInv'
<1> USE DEF IInv
<1>1. /\ pc = "read" /\ saved = None /\ frag # None /\ ReturnMessage(frag) /\ UNCHANGED <<log, oldest, cleared, next, saved, delivered>>
  BY DEF ReadEndOfFragment, Reading, kernelVars, historyVars
<1>2. /\ next \in Nat /\ frag \in Seq(Nat) /\ Len(frag) \in Nat /\ delivered \in Seq(Nat) /\ Len(saved) = 0 /\ saved \in Seq(Nat)
  BY <1>1, NoneIsEmpty DEF Places
<1>3. Run(saved, next - 1) /\ Run(frag, next - 1 - Len(saved)) /\ Run(delivered, next - 1 - Len(saved) - Len(frag))
  BY <1>1, <1>2 DEF Runs, Run, Underway
<1>4. Empty' /\ Runs' /\ buf' \in Seq(Nat) /\ frag' \in Seq(Nat)
  BY <1>1, <1>2, <1>3, Returned
<1>5. frag' = None /\ Len(frag') = 0
  BY <1>1, NoneIsEmpty, Zenon DEF ReturnMessage
<1>6. Places' /\ Flagged'
  BY <1>1, <1>4, <1>5 DEF Places, Flagged
<1> QED
  BY <1>4, <1>6

\* Nothing to read: the call ends, or the reader falls back or looks further on.
LEMMA ReadFailsStep == ASSUME IInv, ReadNothing \/ ReadOverrun PROVE IInv'
<1> USE DEF IInv
<1>1. saved = None /\ UNCHANGED <<log, oldest, cleared, delivered, buf, saved>> /\ next' \in {next, oldest}
  BY DEF ReadNothing, ReadOverrun, Reading, ReturnError, kernelVars, historyVars
<1>2. frag' = None
  BY Zenon DEF ReadNothing, ReadOverrun, ReturnError
<1>3. frag' \in Seq(Nat) /\ Len(frag') = 0
  BY <1>2, NoneIsEmpty
<1>4. (pc' = "klog" /\ fd' = FALSE) \/ pc' = "finish"
  BY DEF ReadNothing, ReadOverrun, ReturnError, FallBack
<1>5. Empty' /\ Runs'
  BY <1>1, <1>2, <1>4 DEF Empty, Runs
<1>6. Places' /\ Flagged'
  BY <1>1, <1>2, <1>3, NoneIsEmpty DEF Places, Flagged
<1> QED
  BY <1>5, <1>6

LEMMA ReadOverrunAgainStep == ASSUME IInv, ReadOverrunAgain PROVE IInv'
<1> USE DEF IInv
<1>1. /\ pc = "read" /\ buf = None /\ next' = oldest /\ UNCHANGED <<log, oldest, cleared, pc, fd, delivered, buf, frag, saved>>
  BY DEF ReadOverrunAgain, Reading, kernelVars, historyVars
<1>2. saved = None /\ frag = None /\ delivered = None
  BY <1>1 DEF Empty
<1>3. Runs'
  BY <1>1, <1>2, NoneRuns DEF Runs
<1>4. Places' /\ Empty' /\ Flagged'
  BY <1>1, <1>2 DEF Places, Empty, Flagged
<1> QED
  BY <1>3, <1>4

LEMMA ReadTooMuchStep == ASSUME IInv, ReadTooMuch PROVE IInv'
<1>1. pc' = "undefined" /\ UNCHANGED <<log, oldest, cleared, next, buf, frag, saved, delivered>>
  BY DEF ReadTooMuch, kernelVars, readerVars, historyVars
<1> QED
  BY <1>1 DEF IInv, Places, Empty, Runs, Flagged

LEMMA NextIInv == IInv /\ [Next]_vars => IInv'
<1> SUFFICES ASSUME IInv, [Next]_vars PROVE IInv'
  OBVIOUS
<1>1. CASE UNCHANGED vars
  <2>1. UNCHANGED <<log, oldest, cleared, pc, fd, next, buf, frag, saved, delivered>>
    BY <1>1 DEF vars, kernelVars, readerVars, historyVars
  <2>2. Places' /\ Flagged' /\ Empty'
    BY <2>1 DEF IInv, Places, Empty, Flagged
  <2>3. Runs'
    BY <2>1 DEF IInv, Runs, Run, Underway
  <2> QED
    BY <2>2, <2>3 DEF IInv
<1>2. CASE Next
  <2>1. CASE Read
    BY <2>1, TakeSavedStep, ReadFragmentStep, ReadTooMuchStep, ReadPlainStep, ReadBehindFragmentStep,
       ReadEndOfFragmentStep, ReadFailsStep, ReadOverrunAgainStep DEF Read
  <2> QED
    BY <1>2, <2>1, CallStep, LogStep, DeliverStep DEF Next, Reader
<1> QED
  BY <1>1, <1>2

THEOREM Invariance == Spec => []IInv
  BY InitIInv, NextIInv, PTL DEF Spec
-----------------------------------------------------------------------------
(***************************************************************************)
(* Whatever the kernel logs or overwrites while a call reads, the filter   *)
(* sees an unbroken run of records, none twice.                            *)
(***************************************************************************)
THEOREM RecordsReadOnce == Spec => []EveryRecordOnce
<1>1. IInv => EveryRecordOnce
  <2> SUFFICES ASSUME IInv, pc \in {"read", "deliver"}
               PROVE  \A j \in 1..Len(Consumed) : Consumed[j] = next - 1 - Len(Consumed) + j
    BY DEF EveryRecordOnce
  <2> DEFINE now == IF pc = "deliver" THEN buf ELSE None
  <2>1. /\ next \in Nat /\ buf \in Seq(Nat) /\ frag \in Seq(Nat) /\ saved \in Seq(Nat) /\ delivered \in Seq(Nat)
        /\ Len(frag) \in Nat /\ Len(saved) \in Nat
    BY DEF IInv, Places
  <2>2. now \in Seq(Nat) /\ Len(now) \in Nat /\ Len(now) = Underway
    BY <2>1, NoneIsEmpty DEF Underway
  <2>3. Run(now, next - 1 - Len(saved) - Len(frag))
    <3>1. CASE pc = "deliver"
      BY <2>1, <3>1, NoneIsEmpty DEF IInv, Runs, Run
    <3>2. CASE pc # "deliver"
      BY <3>2, NoneRuns
    <3> QED
      BY <3>1, <3>2
  <2>4. Run(delivered, next - 1 - Len(saved) - Len(frag) - Len(now)) /\ Run(frag, next - 1 - Len(saved)) /\ Run(saved, next - 1)
    BY <2>2 DEF IInv, Runs
  <2> HIDE DEF now
  <2> DEFINE early == delivered \o now
             all == early \o frag
  <2>5. early \in Seq(Nat) /\ Run(early, (next - 1 - Len(saved)) - Len(frag))
    BY <2>1, <2>2, <2>3, <2>4, RunsJoin
  <2> HIDE DEF early
  <2>6. all \in Seq(Nat) /\ Run(all, (next - 1) - Len(saved))
    <3>1. next - 1 - Len(saved) \in Int
      BY <2>1
    <3> QED
      BY <2>1, <2>4, <2>5, <3>1, RunsJoin
  <2> HIDE DEF all
  <2>7. Run(all \o saved, next - 1)
    <3>1. next - 1 \in Int
      BY <2>1
    <3> QED
      BY <2>1, <2>4, <2>6, <3>1, RunsJoin
  <2>8. Consumed = all \o saved
    BY DEF Consumed, now, early, all
  <2> QED
    BY <2>7, <2>8 DEF Run
<1> QED
  BY <1>1, Invariance, PTL

(***************************************************************************)
(* Between calls the device is closed, and nothing read is kept back.      *)
(***************************************************************************)
THEOREM NothingIsLeft == Spec => []NothingLeftOver
<1>1. IInv => NothingLeftOver
  BY DEF IInv, Empty, NothingLeftOver
<1> QED
  BY <1>1, Invariance, PTL

(***************************************************************************)
(* The filter gets whole messages.                                         *)
(***************************************************************************)
THEOREM WholeMessages == Spec => MessagesWhole
<1> DEFINE Whole ==
      pc = "read" /\ pc' = "deliver" =>
        \/ Len(buf') = 1 /\ log[buf'[1]].flag = "-"
        \/ /\ \A j \in 1..Len(buf') : log[buf'[j]].flag = "c"
           /\ saved' # None \/ next' > Len(log)
<1>1. ASSUME IInv, [Next]_vars, pc = "read", pc' = "deliver" PROVE Whole
  <2>1. TakeSaved \/ ReadPlain \/ ReadBehindFragment \/ ReadEndOfFragment
    BY <1>1 DEF vars, Next, Reader, Read, Call, OpenFails, FallBack, Open, ReadFragment, ReadTooMuch, ReadNothing,
       ReadOverrun, ReadOverrunAgain, ReturnError, Deliver, Finish, ReadSyslog, SyslogFails, Log, Clear
  <2>2. CASE TakeSaved
    BY <1>1, <2>2 DEF TakeSaved, ReturnMessage, IInv, Flagged
  <2>3. CASE ReadPlain
    <3>1. buf' = <<next>> /\ log[next].flag = "-" /\ next \in Nat
      BY <2>3, <1>1 DEF ReadPlain, ReturnMessage, IInv, Places
    <3> QED
      BY <3>1
  <2>4. CASE ReadBehindFragment
    <3>1. buf' = frag /\ saved' = <<next>> /\ next \in Nat
      BY <2>4, <1>1 DEF ReadBehindFragment, ReturnMessage, IInv, Places
    <3>2. saved' # None
      BY <3>1, RunOfOne
    <3> QED
      BY <1>1, <3>1, <3>2 DEF IInv, Flagged
  <2>5. CASE ReadEndOfFragment
    BY <1>1, <2>5 DEF ReadEndOfFragment, ReturnMessage, AtEnd, IInv, Flagged
  <2> QED
    BY <2>1, <2>2, <2>3, <2>4, <2>5
<1>2. IInv /\ [Next]_vars => [Whole]_vars
  BY <1>1
<1> QED
  BY <1>2, Invariance, PTL DEF Spec, MessagesWhole
-----------------------------------------------------------------------------
(***************************************************************************)
(* The count of a call over a log that stands still.  All records from its *)
(* start on are delivered or on their way (Reached), messages are joined   *)
(* as they lie in the log (Joined), and those delivered are counted        *)
(* (Counted).                                                              *)
(***************************************************************************)

\* Whether a call reads /dev/kmsg.
Under == pc \in {"open", "read", "deliver", "finish"}

\* What the call found when it began only grows, and only a new kernel yields records.
History ==
  /\ count \in Nat /\ (Under => shown \in Seq(Nat))
  /\ before \in [count : Nat, end : Nat, start : Nat]
  /\ before.end <= Len(log) /\ 1 <= before.start /\ before.start <= Larger(oldest, cleared)
  /\ (pc \in {"read", "deliver"} /\ ~first) \/ saved # None => kernel = "new"
  /\ pc = "deliver" => ~first

\* A fragment at k begins a message.
Fresh(k) == k = before.start \/ log[k - 1].flag = "-"

\* The records before e that begin a message and pass the filter.
Hits(e) == {k \in Messages(before.start) : k < e /\ Accepted(k)}

\* Where the records delivered end.
Frontier == before.start + Len(delivered)

\* The first read may still look for the start of the log.
Reached ==
  /\ pc = "open" => delivered = None
  /\ pc \in {"read", "deliver"} =>
       IF next < before.start
       THEN first /\ oldest = before.start /\ delivered = None /\ frag = None /\ saved = None
       ELSE Frontier + Underway + Len(frag) + Len(saved) = next
  /\ pc = "finish" => Frontier = Len(log) + 1

Joined ==
  /\ pc = "deliver" =>
       \/ Len(buf) = 1 /\ log[buf[1]].flag = "-"
       \/ /\ \A j \in 1..Len(buf) : log[buf[j]].flag = "c"
          /\ Fresh(buf[1]) /\ (saved # None \/ next > Len(log))
  /\ pc = "read" =>
       /\ frag # None => Fresh(frag[1])
       /\ frag = None /\ saved = None /\ next > before.start => log[next - 1].flag = "-" \/ next > Len(log)

Counted ==
  /\ count = before.count + Cardinality(Hits(Frontier))
  /\ wanted.verbose => {shown[j] : j \in 1..Len(shown)} = Hits(Frontier)

StillInv == Under /\ Still => Reached /\ Joined /\ Counted

Measured == IInv /\ History /\ StillInv

LEMMA InitMeasured == Init => History /\ StillInv
<1> SUFFICES ASSUME Init PROVE History /\ StillInv
  OBVIOUS
<1>1. /\ pc = "idle" /\ count = 0 /\ before = [count |-> 0, end |-> 0, start |-> 1] /\ oldest = 1 /\ cleared = 1
      /\ saved = None /\ log = None
  BY Zenon DEF Init, None
<1> QED
  BY <1>1, NoneIsEmpty DEF History, StillInv, Under, Larger

\* What the records of a call are does not change while the log stands still.
LEMMA SameHits ==
  ASSUME UNCHANGED <<log, before, wanted>>
  PROVE  \A k : Hits(k)' = Hits(k) /\ Fresh(k)' = Fresh(k)
<1>1. \A k : Accepted(k)' = Accepted(k) /\ Fresh(k)' = Fresh(k)
  BY DEF Accepted, Fresh
<1>2. Messages(before.start)' = Messages(before.start)
  BY DEF Messages
<1> QED
  BY <1>1, <1>2 DEF Hits

LEMMA Numbers ==
  ASSUME IInv, History
  PROVE  /\ before.start \in Nat /\ before.end \in Nat /\ before.count \in Nat /\ Len(log) \in Nat
         /\ oldest \in Nat /\ cleared \in Nat /\ next \in Nat /\ next <= Len(log) + 1
         /\ oldest <= Len(log) + 1 /\ cleared <= Len(log) + 1
         /\ Len(delivered) \in Nat /\ Len(buf) \in Nat /\ Len(frag) \in Nat /\ Len(saved) \in Nat
         /\ before.start <= Len(log) + 1
<1>1. /\ before.start \in Nat /\ before.end \in Nat /\ before.count \in Nat /\ Len(log) \in Nat
      /\ oldest \in 1..Len(log) + 1 /\ cleared \in 1..Len(log) + 1 /\ next \in 1..Len(log) + 1
      /\ Len(delivered) \in Nat /\ Len(buf) \in Nat /\ Len(frag) \in Nat /\ Len(saved) \in Nat
      /\ before.start <= Larger(oldest, cleared)
  BY LenProperties DEF IInv, Places, History
<1> QED
  BY <1>1 DEF Larger
-----------------------------------------------------------------------------
(* Steps in which no message is delivered.                                 *)

\* A record more in the log: it no longer stands still.
LEMMA LogMeasured == ASSUME Measured, Log PROVE History' /\ StillInv'
<1>1. PICK r \in Records : log' = Append(log, r)
  BY DEF Log
<1>2. Len(log) \in Nat /\ Len(log') = Len(log) + 1
  BY <1>1 DEF Measured, IInv, Places
<1>3. UNCHANGED <<kernel, cleared, pc, first, saved, count, shown, before>> /\ oldest' \in oldest..Len(log) + 1
  BY DEF Log, readerVars, historyVars
<1>4. History'
  BY <1>2, <1>3, Numbers DEF Measured, History, Under, Larger
<1>5. ~Still'
  BY <1>2, <1>3, Numbers DEF Measured, History, Still
<1> QED
  BY <1>4, <1>5 DEF StillInv

\* The log is cleared: it stands still only if the call found it empty.
LEMMA ClearMeasured == ASSUME Measured, Clear PROVE History' /\ StillInv'
<1>1. /\ UNCHANGED <<kernel, log, oldest, pc, next, first, buf, frag, saved, count, shown, delivered, before, wanted>>
      /\ cleared' = Len(log) + 1
  BY DEF Clear, readerVars, historyVars
<1>2. History'
  BY <1>1, Numbers DEF Measured, History, Under, Larger
<1>3. Still' => Still
  BY <1>1, Numbers DEF Measured, History, Still, Larger
<1>4. Hits(Frontier)' = Hits(Frontier)
  BY <1>1, SameHits DEF Frontier
<1>5. Reached' = Reached /\ Counted' = Counted
  BY <1>1, <1>4 DEF Reached, Counted, Frontier, Underway
<1>6. Joined' = Joined
  BY <1>1 DEF Joined, Fresh
<1> QED
  BY <1>1, <1>2, <1>3, <1>5, <1>6 DEF Measured, StillInv, Under

\* A call begins: nothing is counted yet.
LEMMA CallMeasured == ASSUME Measured, NEW w \in Requests, Call(w) PROVE History' /\ StillInv'
<1>1. /\ pc = "idle" /\ pc' \in {"open", "klog"}
      /\ before' = [count |-> count, end |-> Len(log), start |-> Larger(oldest, cleared)]
      /\ UNCHANGED <<kernel, log, oldest, cleared, first, saved, count>>
  BY DEF Call, kernelVars, readerVars
<1>2. shown' = None /\ delivered' = None
  BY Zenon DEF Call, None
<1>3. Len(delivered') = 0 /\ Len(shown') = 0 /\ shown' \in Seq(Nat)
  BY <1>2, NoneIsEmpty
<1>4. History'
  BY <1>1, <1>3, Numbers DEF Measured, History, Under, Larger
<1>5. Hits(Frontier)' = {}
  <2>1. Frontier' = before'.start /\ before'.start \in Nat
    BY <1>1, <1>3, Numbers DEF Measured, Frontier, Larger
  <2> QED
    BY <1>1, <2>1, Numbers DEF Measured, Hits, Messages
<1>6. Counted'
  <2>1. Cardinality(Hits(Frontier)') = 0
    BY <1>5, FS_EmptySet
  <2>2. {shown'[j] : j \in 1..Len(shown')} = {}
    BY <1>3
  <2>3. count' = before'.count + 0
    BY <1>1 DEF Measured, History
  <2> QED
    BY <1>5, <2>1, <2>2, <2>3 DEF Counted
<1> QED
  BY <1>1, <1>2, <1>4, <1>6 DEF StillInv, Reached, Joined, Under

\* The call ends, or it goes on with klogctl.
LEMMA EndMeasured ==
  ASSUME Measured, OpenFails \/ Finish \/ ReadSyslog \/ SyslogFails \/ ReadTooMuch
  PROVE  History' /\ StillInv'
<1>1. /\ UNCHANGED <<kernel, log, oldest, cleared, first, saved, count, before>>
      /\ pc' \in {"klog", "idle", "exited", "undefined"}
  BY DEF OpenFails, Finish, ReadSyslog, SyslogFails, ReadTooMuch, FallBack, kernelVars, readerVars, historyVars
<1> QED
  BY <1>1 DEF Measured, History, StillInv, Under

LEMMA OpenMeasured == ASSUME Measured, Open PROVE History' /\ StillInv'
<1>1. /\ pc = "open" /\ pc' = "read" /\ next' = cleared /\ first' = TRUE
      /\ UNCHANGED <<kernel, log, oldest, cleared, frag, saved, count, shown, delivered, before, wanted>>
      /\ saved = None /\ frag = None /\ delivered = None
  BY DEF Open, kernelVars, historyVars, Measured, IInv, Empty
<1>2. History'
  BY <1>1 DEF Measured, History, Under
<1>3. SUFFICES ASSUME Still' PROVE Reached' /\ Joined' /\ Counted'
  BY <1>2 DEF StillInv
<1>4. Still /\ Under
  BY <1>1, <1>3 DEF Still, Under
<1>5. Len(None) = 0 /\ before.start = Larger(oldest, cleared)
  BY <1>4, NoneIsEmpty DEF Still
<1>6. Reached'
  BY <1>1, <1>5, Numbers DEF Measured, Reached, Frontier, Underway, Larger
<1>7. Joined'
  BY <1>1, <1>5, Numbers DEF Measured, Joined, Larger
<1>8. Hits(Frontier)' = Hits(Frontier)
  BY <1>1, SameHits DEF Frontier
<1>9. Counted'
  BY <1>1, <1>4, <1>8 DEF Measured, StillInv, Counted
<1> QED
  BY <1>6, <1>7, <1>9

\* A read that leaves the answer and what is delivered alone.
LEMMA ReadSteps ==
  ASSUME Measured, Read
  PROVE  /\ pc = "read" /\ UNCHANGED <<kernel, log, oldest, cleared, count, shown, delivered, before, wanted>>
         /\ Hits(Frontier)' = Hits(Frontier)
<1>1. pc = "read" /\ UNCHANGED <<kernel, log, oldest, cleared, count, shown, delivered, before, wanted>>
  BY DEF Read, TakeSaved, ReadFragment, ReadTooMuch, ReadPlain, ReadBehindFragment, ReadEndOfFragment, ReadNothing,
     ReadOverrunAgain, ReadOverrun, Reading, kernelVars, readerVars, historyVars
<1>2. Hits(Frontier)' = Hits(Frontier)
  BY <1>1, SameHits DEF Frontier
<1> QED
  BY <1>1, <1>2

\* It remains to see where the records read are.
LEMMA ReadMeasured ==
  ASSUME Measured, Read, kernel = "new",
         pc' = "read" \/ (pc' = "deliver" /\ ~first'),
         Still => Reached' /\ Joined'
  PROVE  History' /\ StillInv'
<1>1. /\ pc = "read" /\ UNCHANGED <<kernel, log, oldest, cleared, count, shown, delivered, before, wanted>>
      /\ Hits(Frontier)' = Hits(Frontier)
  BY ReadSteps
<1>2. History'
  BY <1>1 DEF Measured, History, Under
<1>3. Still' => Still /\ Under
  BY <1>1 DEF Still, Under
<1>4. Still' => Counted'
  BY <1>1, <1>3 DEF Measured, StillInv, Counted
<1> QED
  BY <1>2, <1>3, <1>4 DEF StillInv

\* What Reached and Joined say when a read returns a record or fragment.
LEMMA WhereReadStands ==
  ASSUME Measured, pc = "read", Still
  PROVE  /\ Under /\ Reached /\ Joined /\ Underway = 0 /\ Frontier \in Nat
         /\ before.start = Larger(oldest, cleared) /\ oldest <= before.start
         /\ next >= before.start => Frontier + Len(frag) + Len(saved) = next
         /\ frag # None => Fresh(frag[1])
         /\ next < before.start => first /\ oldest = before.start /\ delivered = None /\ frag = None /\ saved = None
<1>1. Under /\ Reached /\ Joined /\ Underway = 0
  BY DEF Measured, StillInv, Under, Underway
<1>2. before.start = Larger(oldest, cleared) /\ oldest <= before.start
  BY Numbers DEF Measured, Still, Larger
<1>3. Frontier \in Nat
  BY Numbers DEF Measured, Frontier
<1>4. frag # None => Fresh(frag[1])
  BY <1>1 DEF Joined
<1>5. /\ next >= before.start => Frontier + Len(frag) + Len(saved) = next
      /\ next < before.start => first /\ oldest = before.start /\ delivered = None /\ frag = None /\ saved = None
  BY <1>1, <1>3, Numbers DEF Measured, Reached
<1> QED
  BY <1>1, <1>2, <1>3, <1>4, <1>5

\* In a call over a log that stands still, a record that is read is the next one.
LEMMA RecordCounted ==
  ASSUME Measured, Reading, Available, Still
  PROVE  /\ pc = "read" /\ saved = None /\ Len(saved) = 0 /\ kernel = "new" /\ next <= Len(log)
         /\ next >= before.start /\ Frontier + Len(frag) = next
         /\ frag = None => Fresh(next)
         /\ frag # None => Fresh(frag[1])
<1>1. pc = "read" /\ saved = None /\ Len(saved) = 0 /\ kernel = "new" /\ next \in oldest..Len(log)
  BY NoneIsEmpty DEF Reading, Available
<1>2. next >= before.start /\ next <= Len(log)
  BY <1>1, WhereReadStands, Numbers DEF Measured
<1>3. Frontier + Len(frag) = next /\ (frag # None => Fresh(frag[1]))
  BY <1>1, <1>2, WhereReadStands, Numbers DEF Measured
<1>4. frag = None => Fresh(next)
  BY <1>1, <1>2, WhereReadStands, Numbers DEF Measured, Joined, Fresh
<1> QED
  BY <1>1, <1>2, <1>3, <1>4

LEMMA TakeSavedMeasured == ASSUME Measured, TakeSaved PROVE History' /\ StillInv'
<1>1. /\ Read /\ pc = "read" /\ pc' = "deliver" /\ first' = FALSE /\ buf' = saved /\ saved # None
      /\ next' = next /\ kernel = "new"
  BY DEF TakeSaved, ReturnMessage, Read, Measured, History
<1>2. saved' = None /\ frag' = None /\ Len(None) = 0 /\ frag = None
  BY NoneIsEmpty, Zenon DEF TakeSaved, ReturnMessage, Measured, IInv, Empty
<1>3. UNCHANGED <<log, oldest, before, delivered>>
  BY <1>1, ReadSteps
<1>4. SUFFICES ASSUME Still PROVE Reached' /\ Joined'
  BY <1>1, ReadMeasured
<1>5. next >= before.start /\ Frontier + Len(saved) = next
  BY <1>1, <1>2, <1>4, WhereReadStands, Numbers DEF Measured
<1>6. Reached'
  BY <1>1, <1>2, <1>3, <1>5, Numbers DEF Measured, Reached, Frontier, Underway
<1>7. Joined'
  BY <1>1, <1>3 DEF Joined, Measured, IInv, Flagged
<1> QED
  BY <1>6, <1>7

LEMMA ReadFragmentMeasured == ASSUME Measured, ReadFragment PROVE History' /\ StillInv'
<1>1. /\ Read /\ Reading /\ Available /\ pc = "read" /\ pc' = "read" /\ kernel = "new"
      /\ frag' = Append(frag, next) /\ next' = next + 1 /\ saved' = saved
  BY DEF ReadFragment, Read, Reading, Available
<1>2. UNCHANGED <<log, oldest, before, delivered>>
  BY <1>1, ReadSteps
<1>3. SUFFICES ASSUME Still PROVE Reached' /\ Joined'
  BY <1>1, ReadMeasured
<1>4. frag \in Seq(Nat) /\ next \in Nat
  BY DEF Measured, IInv, Places
<1>5. Len(frag') = Len(frag) + 1 /\ frag'[1] = (IF frag = None THEN next ELSE frag[1])
  <2>1. frag = None => Len(frag) = 0
    BY <1>4, NoneIsEmpty
  <2>2. frag # None => Len(frag) \in Nat /\ Len(frag) # 0
    BY <1>4, NoneIsEmpty
  <2> QED
    BY <1>1, <1>4, <2>1, <2>2
<1>6. /\ next >= before.start /\ Frontier + Len(frag) = next /\ saved = None /\ Len(saved) = 0
      /\ frag = None => Fresh(next)
      /\ frag # None => Fresh(frag[1])
  BY <1>1, <1>3, RecordCounted
<1>7. Reached'
  <2>1. Frontier' = Frontier /\ Underway' = 0 /\ Frontier \in Nat /\ Len(frag) \in Nat /\ Len(saved') = 0
    BY <1>1, <1>2, <1>6, Numbers, SMTT(30) DEF Measured, Frontier, Underway
  <2>2. Frontier' + Underway' + Len(frag') + Len(saved') = next'
    BY <1>1, <1>4, <1>5, <1>6, <2>1
  <2>3. ~(next' < before'.start)
    BY <1>1, <1>2, <1>6, Numbers DEF Measured
  <2> QED
    BY <1>1, <2>2, <2>3 DEF Reached
<1>8. Joined'
  <2>1. frag' # None
    BY <1>1, <1>4, NoneIsEmpty DEF None
  <2>2. Fresh(frag'[1])
    BY <1>5, <1>6
  <2> QED
    BY <1>1, <1>2, <2>1, <2>2 DEF Joined, Fresh
<1> QED
  BY <1>7, <1>8

LEMMA ReadPlainMeasured == ASSUME Measured, ReadPlain PROVE History' /\ StillInv'
<1>1. /\ Read /\ Reading /\ Available /\ pc = "read" /\ pc' = "deliver" /\ first' = FALSE /\ kernel = "new"
      /\ buf' = <<next>> /\ next' = next + 1 /\ saved' = saved /\ log[next].flag = "-"
  BY DEF ReadPlain, ReturnMessage, Read, Reading, Available
<1>2. frag = None /\ frag' = None /\ Len(None) = 0
  BY NoneIsEmpty, Zenon DEF ReadPlain, ReturnMessage
<1>3. UNCHANGED <<log, oldest, before, delivered>>
  BY <1>1, ReadSteps
<1>4. SUFFICES ASSUME Still PROVE Reached' /\ Joined'
  BY <1>1, ReadMeasured
<1>5. Len(buf') = 1 /\ buf'[1] = next
  BY <1>1
<1>6. next >= before.start /\ Frontier + Len(frag) = next /\ saved = None /\ Len(saved) = 0
  BY <1>1, <1>4, RecordCounted
<1>7. Reached'
  BY <1>1, <1>2, <1>3, <1>5, <1>6, Numbers DEF Measured, Reached, Frontier, Underway
<1>8. Joined'
  BY <1>1, <1>3, <1>5 DEF Joined
<1> QED
  BY <1>7, <1>8

LEMMA ReadBehindFragmentMeasured == ASSUME Measured, ReadBehindFragment PROVE History' /\ StillInv'
<1>1. /\ Read /\ Reading /\ Available /\ pc = "read" /\ pc' = "deliver" /\ first' = FALSE /\ kernel = "new"
      /\ buf' = frag /\ frag # None /\ next' = next + 1 /\ saved' = <<next>>
  BY DEF ReadBehindFragment, ReturnMessage, Read, Reading, Available
<1>2. frag' = None /\ Len(None) = 0
  BY NoneIsEmpty, Zenon DEF ReadBehindFragment, ReturnMessage
<1>3. UNCHANGED <<log, oldest, before, delivered>>
  BY <1>1, ReadSteps
<1>4. SUFFICES ASSUME Still PROVE Reached' /\ Joined'
  BY <1>1, ReadMeasured
<1>5. Len(saved') = 1 /\ saved' # None
  BY <1>1, RunOfOne, Numbers DEF Measured
<1>6. next >= before.start /\ Frontier + Len(frag) = next /\ Fresh(frag[1])
  BY <1>1, <1>4, RecordCounted
<1>7. Reached'
  <2>1. Frontier' = Frontier /\ Underway' = Len(frag) /\ Frontier \in Nat /\ Len(frag) \in Nat /\ Len(frag') = 0
    BY <1>1, <1>2, <1>3, Numbers DEF Measured, Frontier, Underway
  <2>2. Frontier' + Underway' + Len(frag') + Len(saved') = next'
    BY <1>1, <1>5, <1>6, <2>1
  <2>3. ~(next' < before'.start)
    BY <1>1, <1>3, <1>6, Numbers DEF Measured
  <2> QED
    BY <1>1, <2>2, <2>3 DEF Reached
<1>8. Joined'
  BY <1>1, <1>3, <1>5, <1>6 DEF Joined, Fresh, Measured, IInv, Flagged
<1> QED
  BY <1>7, <1>8

LEMMA ReadEndOfFragmentMeasured == ASSUME Measured, ReadEndOfFragment PROVE History' /\ StillInv'
<1>1. /\ Read /\ pc = "read" /\ pc' = "deliver" /\ first' = FALSE /\ kernel = "new" /\ next > Len(log)
      /\ buf' = frag /\ frag # None /\ next' = next /\ saved' = saved /\ saved = None
  BY DEF ReadEndOfFragment, ReturnMessage, Read, Reading, AtEnd
<1>2. frag' = None /\ Len(None) = 0
  BY NoneIsEmpty, Zenon DEF ReadEndOfFragment, ReturnMessage
<1>3. UNCHANGED <<log, oldest, before, delivered>>
  BY <1>1, ReadSteps
<1>4. SUFFICES ASSUME Still PROVE Reached' /\ Joined'
  BY <1>1, ReadMeasured
<1>5. next >= before.start /\ Frontier + Len(frag) = next /\ Fresh(frag[1])
  BY <1>1, <1>2, <1>4, WhereReadStands, Numbers DEF Measured
<1>6. Reached'
  BY <1>1, <1>2, <1>3, <1>5, Numbers DEF Measured, Reached, Frontier, Underway
<1>7. Joined'
  BY <1>1, <1>3, <1>5 DEF Joined, Fresh, Measured, IInv, Flagged
<1> QED
  BY <1>6, <1>7

\* The first read finds the start of the log; no other read of such a call is overrun.
LEMMA ReadOverrunAgainMeasured == ASSUME Measured, ReadOverrunAgain PROVE History' /\ StillInv'
<1>1. /\ Read /\ pc = "read" /\ pc' = "read" /\ kernel = "new" /\ next < oldest /\ next' = oldest
      /\ UNCHANGED <<first, buf, frag, saved>>
  BY DEF ReadOverrunAgain, Read, Reading, Overrun
<1>2. frag = None /\ saved = None /\ delivered = None /\ Len(None) = 0
  BY NoneIsEmpty DEF ReadOverrunAgain, Measured, IInv, Empty
<1>3. UNCHANGED <<log, oldest, before, delivered>>
  BY <1>1, ReadSteps
<1>4. SUFFICES ASSUME Still PROVE Reached' /\ Joined'
  BY <1>1, ReadMeasured
<1>5. oldest = before.start
  BY <1>1, <1>4, WhereReadStands, Numbers DEF Measured
<1>6. Reached'
  BY <1>1, <1>2, <1>3, <1>5, Numbers DEF Measured, Reached, Frontier, Underway
<1>7. Joined'
  BY <1>1, <1>2, <1>3, <1>5, Numbers DEF Measured, Joined
<1> QED
  BY <1>6, <1>7

\* Reading ends at the end of the log, with everything delivered.
LEMMA ReadFailsMeasured == ASSUME Measured, ReadNothing \/ ReadOverrun PROVE History' /\ StillInv'
<1>1. /\ Read /\ pc = "read" /\ pc' \in {"klog", "finish"} /\ (pc' = "finish" => ~first)
      /\ saved' = saved /\ saved = None
  BY DEF ReadNothing, ReadOverrun, ReturnError, FallBack, Read, Reading
<1>2. UNCHANGED <<kernel, log, oldest, cleared, count, shown, delivered, before, wanted>> /\ Hits(Frontier)' = Hits(Frontier)
  BY <1>1, ReadSteps
<1>3. History'
  BY <1>1, <1>2 DEF Measured, History, Under
<1>4. SUFFICES ASSUME pc' = "finish", Still PROVE Reached' /\ Joined' /\ Counted'
  BY <1>1, <1>2, <1>3 DEF StillInv, Under, Still
<1>5. Under /\ ~first /\ kernel = "new" /\ Len(None) = 0
  BY <1>1, <1>4, NoneIsEmpty DEF Under, Measured, History
<1>6. next >= before.start /\ oldest <= before.start /\ Frontier + Len(frag) + Len(saved) = next
  BY <1>1, <1>4, <1>5, WhereReadStands, Numbers DEF Measured
<1>7. next > Len(log) /\ frag = None
  BY <1>5, <1>6, Numbers DEF Measured, ReadNothing, ReadOverrun, AtEnd, Overrun
<1>8. Reached'
  BY <1>1, <1>2, <1>4, <1>5, <1>6, <1>7, Numbers DEF Measured, Reached, Frontier
<1>9. Joined'
  BY <1>4 DEF Joined
<1>10. Counted'
  BY <1>2, <1>4, <1>5 DEF Measured, StillInv, Counted
<1> QED
  BY <1>8, <1>9, <1>10
-----------------------------------------------------------------------------
(* A message is delivered.                                                 *)

\* Of the records of the message exactly the first one begins a message.
LEMMA OneMessage ==
  ASSUME Measured, pc = "deliver", Still
  PROVE  /\ Frontier \in Nat /\ buf[1] = Frontier /\ Len(buf) \in Nat /\ Len(buf) >= 1
         /\ Frontier >= before.start /\ Frontier + Len(buf) + Len(saved) = next
         /\ Frontier \in Messages(before.start)
         /\ \A k \in Messages(before.start) : k >= Frontier /\ k < Frontier + Len(buf) => k = Frontier
<1>1. Under /\ Reached /\ Joined /\ ~first
  BY DEF Measured, StillInv, Under, History
<1>2. frag = None /\ Len(frag) = 0 /\ buf # None /\ Run(buf, next - 1 - Len(saved)) /\ buf \in Seq(Nat)
  BY NoneIsEmpty DEF Measured, IInv, Empty, Runs, Places
<1>3. Len(buf) \in Nat /\ Len(buf) >= 1
  BY <1>2, NoneIsEmpty
<1>4. Frontier \in Nat /\ Frontier >= before.start
  BY Numbers DEF Measured, Frontier
<1>5. Frontier + Len(buf) + Len(saved) = next
  BY <1>1, <1>2, <1>3, <1>4, Numbers DEF Measured, Reached, Underway
<1>6. \A j \in 1..Len(buf) : buf[j] = Frontier + j - 1
  BY <1>2, <1>3, <1>4, <1>5, Numbers, SMTT(30) DEF Measured, Run
<1>7. buf[1] = Frontier /\ Frontier <= Len(log)
  BY <1>3, <1>4, <1>5, <1>6, Numbers, SMTT(30) DEF Measured
<1>8. Frontier \in Messages(before.start)
  BY <1>1, <1>4, <1>7, Numbers DEF Measured, Messages, Joined, Fresh
<1>9. ASSUME NEW k \in Messages(before.start), k >= Frontier, k < Frontier + Len(buf), k # Frontier PROVE FALSE
  <2>1. k \in Nat /\ k # before.start /\ (log[k].flag = "-" \/ log[k - 1].flag = "-")
    BY <1>4, <1>9, Numbers, SMTT(30) DEF Measured, Messages
  <2>2. k - Frontier + 1 \in 1..Len(buf) /\ k - Frontier \in 1..Len(buf) /\ Len(buf) # 1
    <3>1. k \in Nat /\ Frontier \in Nat /\ Len(buf) \in Nat /\ k > Frontier /\ k < Frontier + Len(buf)
      BY <1>3, <1>4, <1>9, <2>1
    <3>2. \A a, b, n \in Nat : a > b /\ a < b + n => a - b + 1 \in 1..n /\ a - b \in 1..n /\ n # 1
      OBVIOUS
    <3> QED
      BY <3>1, <3>2
  <2>3. \A j \in 1..Len(buf) : log[buf[j]].flag = "c"
    BY <1>1, <2>2 DEF Joined
  <2>4. buf[k - Frontier + 1] = k /\ buf[k - Frontier] = k - 1
    BY <1>4, <1>6, <2>1, <2>2
  <2> QED
    BY <2>1, <2>2, <2>3, <2>4
<1> QED
  BY <1>3, <1>4, <1>5, <1>7, <1>8, <1>9

LEMMA DeliverMeasured == ASSUME Measured, Deliver PROVE History' /\ StillInv'
<1> DEFINE k == Head(buf)
<1>1. /\ pc = "deliver" /\ pc' = "read" /\ delivered' = delivered \o buf
      /\ count' = (IF Accepted(k) THEN count + 1 ELSE count)
      /\ shown' = (IF Accepted(k) /\ wanted.verbose THEN Append(shown, k) ELSE shown)
      /\ UNCHANGED <<kernel, log, oldest, cleared, next, first, buf, frag, saved, before, wanted>>
  BY DEF Deliver, kernelVars, readerVars
<1>2. buf # None /\ buf \in Seq(Nat) /\ frag = None
  BY <1>1, NoneIsEmpty DEF Measured, IInv, Empty, Runs, Places
<1>3. k \in Nat /\ k = buf[1]
  BY <1>2, NoneIsEmpty DEF None
<1>4. shown \in Seq(Nat) /\ count \in Nat
  BY <1>1 DEF Measured, History, Under
<1> HIDE DEF k
<1>5. History'
  <2>1. shown' \in Seq(Nat) /\ count' \in Nat
    BY <1>1, <1>3, <1>4
  <2> QED
    BY <1>1, <2>1 DEF Measured, History
<1>6. SUFFICES ASSUME Still PROVE Reached' /\ Joined' /\ Counted'
  BY <1>1, <1>5 DEF StillInv, Still
<1>7. /\ Frontier \in Nat /\ buf[1] = Frontier /\ Len(buf) \in Nat /\ Len(buf) >= 1
      /\ Frontier >= before.start /\ Frontier + Len(buf) + Len(saved) = next
      /\ Frontier \in Messages(before.start)
      /\ \A m \in Messages(before.start) : m >= Frontier /\ m < Frontier + Len(buf) => m = Frontier
  BY <1>1, <1>6, OneMessage
<1>8. Frontier' = Frontier + Len(buf)
  <2>1. Len(delivered') = Len(delivered) + Len(buf)
    BY <1>1, <1>2, ConcatProperties DEF Measured, IInv, Places
  <2> QED
    BY <1>1, <2>1, Numbers DEF Measured, Frontier
<1>9. Reached'
  <2>1. Len(frag) = 0
    BY <1>2, NoneIsEmpty
  <2>2. Frontier' + Underway' + Len(frag') + Len(saved') = next'
    BY <1>1, <1>7, <1>8, <2>1, Numbers DEF Measured, Underway
  <2>3. ~(next' < before'.start)
    BY <1>1, <1>7, Numbers, SMTT(30) DEF Measured
  <2> QED
    BY <1>1, <2>2, <2>3 DEF Reached
<1>10. Joined'
  <2>1. Joined
    BY <1>1, <1>6 DEF Measured, StillInv, Under
  <2>2. CASE saved = None
    <3>1. Len(saved) = 0
      BY <2>2, NoneIsEmpty
    <3>2. Len(buf) = 1 /\ log[buf[1]].flag = "-" => next - 1 = buf[1]
      BY <1>7, <3>1, Numbers DEF Measured
    <3> QED
      BY <1>1, <1>2, <2>1, <2>2, <3>2 DEF Joined
  <2>3. CASE saved # None
    BY <1>1, <1>2, <2>3 DEF Joined
  <2> QED
    BY <2>2, <2>3
<1>11. \A e : Hits(e)' = Hits(e)
  BY <1>1, SameHits
<1>12. Hits(Frontier') = Hits(Frontier) \cup (IF Accepted(k) THEN {k} ELSE {}) /\ k \notin Hits(Frontier)
  <2>1. \A m \in Messages(before.start) : m \in Int
    BY Numbers DEF Measured, Messages
  <2>2. \A m \in Messages(before.start) : m < Frontier + Len(buf) <=> m < Frontier \/ m = Frontier
    BY <1>7, <2>1
  <2>3. k = Frontier /\ k \in Messages(before.start) /\ ~(k < k) /\ Frontier' = Frontier + Len(buf)
    BY <1>3, <1>7, <1>8
  <2>4. \A m : m \in Hits(Frontier') <=> m \in Hits(Frontier) \/ (m = k /\ Accepted(m))
    BY <2>2, <2>3 DEF Hits
  <2>5. k \notin Hits(Frontier)
    BY <2>3 DEF Hits
  <2> QED
    BY <2>4, <2>5
<1>13. IsFiniteSet(Hits(Frontier))
  <2>1. Hits(Frontier) \in SUBSET (before.start..Len(log))
    BY DEF Hits, Messages
  <2>2. IsFiniteSet(before.start..Len(log))
    <3>1. before.start \in Int /\ Len(log) \in Int
      BY Numbers DEF Measured
    <3> QED
      BY <3>1, FS_Interval
  <2> QED
    BY <2>1, <2>2, FS_Subset
<1>14. Counted
  BY <1>1, <1>6 DEF Measured, StillInv, Under
<1>15. count' = before.count + Cardinality(Hits(Frontier'))
  <2>1. Cardinality(Hits(Frontier)) \in Nat
    BY <1>13, FS_CardinalityType
  <2>2. Accepted(k) => Cardinality(Hits(Frontier) \cup {k}) = Cardinality(Hits(Frontier)) + 1
    BY <1>12, <1>13, FS_AddElement
  <2>3. ~Accepted(k) => Hits(Frontier') = Hits(Frontier)
    BY <1>12
  <2>4. Accepted(k) => Hits(Frontier') = Hits(Frontier) \cup {k}
    BY <1>12
  <2>5. count = before.count + Cardinality(Hits(Frontier)) /\ before.count \in Nat
    BY <1>14, Numbers DEF Measured, Counted
  <2>6. CASE Accepted(k)
    <3>1. count' = count + 1 /\ Cardinality(Hits(Frontier')) = Cardinality(Hits(Frontier)) + 1
      BY <1>1, <2>2, <2>4, <2>6
    <3> QED
      BY <2>1, <2>5, <3>1
  <2>7. CASE ~Accepted(k)
    BY <1>1, <2>3, <2>5, <2>7
  <2> QED
    BY <2>6, <2>7
<1>16. ASSUME wanted.verbose PROVE {shown'[j] : j \in 1..Len(shown')} = Hits(Frontier')
  <2>1. {shown[j] : j \in 1..Len(shown)} = Hits(Frontier)
    BY <1>14, <1>16 DEF Counted
  <2>2. CASE Accepted(k)
    <3>1. shown' = Append(shown, k)
      BY <1>1, <1>16, <2>2
    <3>2. /\ Len(shown') = Len(shown) + 1 /\ shown'[Len(shown) + 1] = k /\ Len(shown) \in Nat
          /\ \A j \in 1..Len(shown) : shown'[j] = shown[j]
      BY <1>3, <1>4, <3>1
    <3>3. 1..Len(shown') = 1..Len(shown) \cup {Len(shown) + 1}
      BY <3>2
    <3>4. {shown'[j] : j \in 1..Len(shown')} = {shown[j] : j \in 1..Len(shown)} \cup {k}
      BY <3>2, <3>3
    <3> QED
      BY <1>12, <2>1, <2>2, <3>4
  <2>3. CASE ~Accepted(k)
    BY <1>1, <1>12, <2>1, <2>3
  <2> QED
    BY <2>2, <2>3
<1>17. Counted'
  BY <1>1, <1>11, <1>15, <1>16 DEF Counted
<1> QED
  BY <1>9, <1>10, <1>17
-----------------------------------------------------------------------------
LEMMA NextMeasured == Measured /\ [Next]_vars => Measured'
<1> SUFFICES ASSUME Measured, [Next]_vars PROVE History' /\ StillInv'
  BY NextIInv DEF Measured
<1>1. CASE UNCHANGED vars
  <2>1. /\ UNCHANGED <<kernel, log, oldest, cleared, pc, wanted, next, first, buf, frag, saved>>
        /\ UNCHANGED <<count, shown, delivered, before>>
    BY <1>1 DEF vars, kernelVars, readerVars, historyVars
  <2>2. Hits(Frontier)' = Hits(Frontier)
    BY <2>1, SameHits DEF Frontier
  <2>3. History' /\ Joined' = Joined /\ Still' = Still /\ Under' = Under
    BY <2>1 DEF Measured, History, Under, Still, Joined, Fresh
  <2>4. Reached' = Reached /\ Counted' = Counted
    BY <2>1, <2>2 DEF Reached, Counted, Frontier, Underway
  <2> QED
    BY <2>3, <2>4 DEF Measured, StillInv
<1>2. CASE Next
  <2>1. CASE Read
    BY <2>1, TakeSavedMeasured, ReadFragmentMeasured, EndMeasured, ReadPlainMeasured, ReadBehindFragmentMeasured,
       ReadEndOfFragmentMeasured, ReadFailsMeasured, ReadOverrunAgainMeasured DEF Read
  <2> QED
    BY <1>2, <2>1, CallMeasured, EndMeasured, OpenMeasured, DeliverMeasured, LogMeasured, ClearMeasured DEF Next, Reader
<1> QED
  BY <1>1, <1>2

(***************************************************************************)
(* A call over a log that stands still counts each message of the log that *)
(* is as severe and as young as asked for, once, and prints just these     *)
(* (read_kmsg, print_record).                                              *)
(***************************************************************************)
THEOREM StillLogsAreCounted == Spec => []StillLogCounted
<1>1. Init => Measured
  BY InitIInv, InitMeasured DEF Measured
<1>2. Measured => StillLogCounted
  <2> SUFFICES ASSUME Measured, pc = "finish", Still
               PROVE  LET hits == {k \in Messages(before.start) : Accepted(k)} IN
                        /\ count = before.count + Cardinality(hits)
                        /\ wanted.verbose => {shown[j] : j \in 1..Len(shown)} = hits
    BY DEF StillLogCounted
  <2>1. Counted /\ Frontier = Len(log) + 1
    BY DEF Measured, StillInv, Under, Reached
  <2>2. \A k \in Messages(before.start) : k < Len(log) + 1
    BY Numbers DEF Measured, Messages
  <2>3. Hits(Frontier) = {k \in Messages(before.start) : Accepted(k)}
    BY <2>1, <2>2 DEF Hits
  <2> QED
    BY <2>1, <2>3 DEF Counted
<1>3. Spec => []Measured
  BY <1>1, NextMeasured, PTL DEF Spec
<1> QED
  BY <1>2, <1>3, PTL
=============================================================================
