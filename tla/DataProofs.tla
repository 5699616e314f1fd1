----------------------------- MODULE DataProofs -----------------------------
(***************************************************************************)
(* Proof that no stored file ever shows what was not committed, for any    *)
(* numbers of stores, calls, paths, threads and crashes, and whatever      *)
(* writes of the stores fail.                                              *)
(***************************************************************************)
EXTENDS StoreFetch, AgreementProofs

(***************************************************************************)
(* The invariant follows the data from the buffer of a call to the file.   *)
(* The temporary file of a call holds what the call itself appended, and   *)
(* buffers of committed calls, copied from the stored file; with ids that  *)
(* differ no other call writes to it.  A stored file was the temporary     *)
(* file of a committed call.  What a running Prepare appends leaves no     *)
(* hole: its offset is within the file.                                    *)
(***************************************************************************)
Clean(s, x) == x # None /\ (x = s \/ TidOf[x] \in log)

FilesClean(b) ==
  /\ \A t \in Txid : disk[b].temp[t] # None => TidOf[disk[b].temp[t]] = t
  /\ \A p \in Path : disk[b].file[p] # None => TidOf[disk[b].file[p]] \in log
  /\ \A s \in Store : \A i \in DOMAIN disk[b].data[s] : Clean(s, disk[b].data[s][i])

NotOpen == [inode |-> None, offset |-> 0]
Copying == {"copy", "append"}

OffsetsHold(b) ==
  \A s \in Store :
    /\ mem[b].pc[s] \notin Copying => mem[b].fd[s] = NotOpen
    /\ mem[b].pc[s] \in Copying => mem[b].fd[s].inode \in {None, s}
    /\ mem[b].pc[s] = "copy" => mem[b].fd[s].offset = 0
    /\ mem[b].pc[s] = "append" /\ mem[b].fd[s].inode # None =>
         mem[b].fd[s].offset <= Len(disk[b].data[s])

DataHolds(b) == FilesClean(b) /\ OffsetsHold(b)

DataInv == AgreeInv /\ \A b \in Backend : DataHolds(b)

(* What was committed remains so. *)
LEMMA FilesCleanKept ==
  ASSUME log \subseteq log', NEW b \in Backend, FilesClean(b), disk'[b] = disk[b]
  PROVE  FilesClean(b)'
BY DEF FilesClean, Clean

(* A handler that goes on elsewhere leaves its file as it is. *)
LEMMA OffsetsKept ==
  ASSUME NEW b \in Backend, OffsetsHold(b), mem'[b].pc = mem[b].pc, mem'[b].fd = mem[b].fd,
         disk'[b].data = disk[b].data
  PROVE  OffsetsHold(b)'
BY DEF OffsetsHold

-----------------------------------------------------------------------------
(* A write within the file puts only what it writes beside what was there. *)
LEMMA WrittenFrom ==
  ASSUME NEW old \in Buffers, NEW offset \in Nat, NEW new \in Buffers, offset <= Len(old)
  PROVE  /\ Written(old, offset, new) \in Buffers
         /\ offset + Len(new) <= Len(Written(old, offset, new))
         /\ Len(old) <= Len(Written(old, offset, new))
         /\ \A i \in DOMAIN Written(old, offset, new) :
              \/ \E j \in DOMAIN new : Written(old, offset, new)[i] = new[j]
              \/ \E j \in DOMAIN old : Written(old, offset, new)[i] = old[j]
<1> DEFINE w == Written(old, offset, new)
           end == offset + Len(new)
           n == IF end > Len(old) THEN end ELSE Len(old)
<1>1. w \in Buffers
  BY WrittenType
<1>2. Len(old) \in Nat /\ Len(new) \in Nat /\ DOMAIN old = 1..Len(old) /\ DOMAIN new = 1..Len(new)
  BY DEF Buffers
<1>3. /\ DOMAIN w = 1..n
      /\ \A i \in 1..n : w[i] = IF i \in offset + 1 .. end THEN new[i - offset]
                                ELSE IF i <= Len(old) THEN old[i] ELSE None
  BY DEF Written
<1>4. Len(w) = n
  <2>1. Len(w) \in Nat /\ DOMAIN w = 1..Len(w)
    BY <1>1 DEF Buffers
  <2>2. n \in Nat
    BY <1>2
  <2> HIDE DEF w, n
  <2> QED
    BY <1>3, <2>1, <2>2
<1>5. \A i \in 1..n : \/ \E j \in DOMAIN new : w[i] = new[j]
                      \/ \E j \in DOMAIN old : w[i] = old[j]
  <2> SUFFICES ASSUME NEW i \in 1..n
               PROVE  \/ \E j \in DOMAIN new : w[i] = new[j]
                      \/ \E j \in DOMAIN old : w[i] = old[j]
    OBVIOUS
  <2>1. CASE i \in offset + 1 .. end
    <3>1. w[i] = new[i - offset] /\ i - offset \in DOMAIN new
      BY <1>2, <1>3, <2>1
    <3> QED
      BY <3>1
  <2>2. CASE i \notin offset + 1 .. end
    <3>1. i <= Len(old) /\ i \in DOMAIN old
      BY <1>2, <2>2
    <3>2. w[i] = old[i]
      BY <1>3, <2>2, <3>1
    <3> QED
      BY <3>1, <3>2
  <2> QED
    BY <2>1, <2>2
<1> QED
  BY SMTT(30), <1>1, <1>2, <1>3, <1>4, <1>5

(* So a write of clean buffers leaves the file clean, and as long at least. *)
LEMMA WriteClean ==
  ASSUME mem \in Processes, disk \in Files, NEW b \in Backend, FilesClean(b), UNCHANGED log,
         NEW s \in Store, mem[b].fd[s].inode \in {None, s},
         mem[b].fd[s].inode # None => mem[b].fd[s].offset <= Len(disk[b].data[s]),
         NEW new \in Buffers, \A i \in DOMAIN new : Clean(s, new[i]), Write(b, s, new)
  PROVE  /\ FilesClean(b)'
         /\ \A r \in Store \ {s} : disk'[b].data[r] = disk[b].data[r]
         /\ mem[b].fd[s].inode # None =>
              mem[b].fd[s].offset + Len(new) <= Len(disk'[b].data[s])
         /\ Len(disk[b].data[s]) <= Len(disk'[b].data[s])
         /\ disk'[b].temp = disk[b].temp /\ disk'[b].file = disk[b].file
<1> DEFINE fd == mem[b].fd[s]
           old == disk[b].data[s]
           w == Written(old, fd.offset, new)
<1>1. fd.offset \in Nat /\ old \in Buffers
  BY DEF Processes, Memory, Files, Disk, Buffers
<1>2. CASE fd.inode = None
  <2>1. UNCHANGED disk /\ Len(old) \in Nat
    BY <1>1, <1>2 DEF Write, Buffers
  <2> QED
    BY <1>2, <2>1 DEF FilesClean, Clean
<1>3. CASE fd.inode = s /\ s # None
  <2>1. disk' = [disk EXCEPT ![b].data[s] = w]
    BY <1>3 DEF Write
  <2>2. /\ disk'[b].temp = disk[b].temp /\ disk'[b].file = disk[b].file
        /\ \A r \in Store : disk'[b].data[r] = IF r = s THEN w ELSE disk[b].data[r]
    <3> HIDE DEF w
    <3> QED
      BY <2>1 DEF Files, Disk
  <2>3. /\ fd.offset + Len(new) <= Len(w)
        /\ Len(old) <= Len(w)
        /\ \A i \in DOMAIN w : \/ \E j \in DOMAIN new : w[i] = new[j]
                               \/ \E j \in DOMAIN old : w[i] = old[j]
    <3>1. fd.offset <= Len(old)
      BY <1>3
    <3> HIDE DEF fd, old
    <3> QED
      BY <1>1, <3>1, WrittenFrom
  <2>4. \A i \in DOMAIN w : Clean(s, w[i])
    <3> HIDE DEF w
    <3> QED
      BY <2>3 DEF FilesClean
  <2> HIDE DEF w
  <2> QED
    BY <1>3, <2>2, <2>3, <2>4 DEF FilesClean, Clean
<1> QED
  BY <1>2, <1>3, RpcAssumption

-----------------------------------------------------------------------------
(* The steps of Prepare. *)

(* Prepare creates the temporary file of its call. *)
LEMMA OpenFiles ==
  ASSUME DistinctTids, disk \in Files, NEW b \in Backend, FilesClean(b),
         NEW s \in Store, PrepareOpen(b, s)
  PROVE  /\ Becomes(b, [mem[b] EXCEPT !.pc[s] = "copy", !.fd[s] = [inode |-> s, offset |-> 0]])
         /\ disk'[b].file = disk[b].file
         /\ \A u \in Txid : disk'[b].temp[u] = IF u = TidOf[s] THEN s ELSE disk[b].temp[u]
         /\ \A r \in Store : disk'[b].data[r] = IF r = s THEN <<>> ELSE disk[b].data[r]
<1> DEFINE t == TidOf[s]
           old == disk[b].temp[t]
           i == IF old = None THEN s ELSE old
<1>1. t \in Txid /\ old \in Store \cup {None}
  BY RpcAssumption DEF Files, Disk
<1>2. i = s
  BY <1>1 DEF FilesClean, DistinctTids
<1>3. /\ disk' = [disk EXCEPT ![b].temp[t] = s, ![b].data[s] = <<>>]
      /\ Becomes(b, [mem[b] EXCEPT !.pc[s] = "copy", !.fd[s] = [inode |-> s, offset |-> 0]])
  <2> HIDE DEF t
  <2> QED
    BY <1>2 DEF PrepareOpen, t
<1> HIDE DEF t
<1>4. /\ disk'[b].file = disk[b].file
      /\ \A u \in Txid : disk'[b].temp[u] = IF u = t THEN s ELSE disk[b].temp[u]
      /\ \A r \in Store : disk'[b].data[r] = IF r = s THEN <<>> ELSE disk[b].data[r]
  BY <1>3 DEF Files, Disk
<1> QED
  BY <1>3, <1>4 DEF t

(* PrepareOpen: the file it empties or makes is the one named after its call. *)
LEMMA OpenClean ==
  ASSUME DistinctTids, mem \in Processes, disk \in Files, NEW b \in Backend, DataHolds(b),
         UNCHANGED log, NEW s \in Store, PrepareOpen(b, s)
  PROVE  DataHolds(b)'
<1>1. /\ Becomes(b, [mem[b] EXCEPT !.pc[s] = "copy", !.fd[s] = [inode |-> s, offset |-> 0]])
      /\ disk'[b].file = disk[b].file
      /\ \A u \in Txid : disk'[b].temp[u] = IF u = TidOf[s] THEN s ELSE disk[b].temp[u]
      /\ \A r \in Store : disk'[b].data[r] = IF r = s THEN <<>> ELSE disk[b].data[r]
  BY OpenFiles DEF DataHolds
<1>2. \A r \in Store :
        /\ mem'[b].pc[r] = IF r = s THEN "copy" ELSE mem[b].pc[r]
        /\ mem'[b].fd[r] = IF r = s THEN [inode |-> s, offset |-> 0] ELSE mem[b].fd[r]
  BY <1>1 DEF Becomes, Processes, Memory
<1>3. FilesClean(b)'
  BY <1>1 DEF DataHolds, FilesClean, Clean
<1>4. OffsetsHold(b)'
  BY <1>1, <1>2 DEF DataHolds, OffsetsHold, Copying
<1> QED
  BY <1>3, <1>4 DEF DataHolds

(* It copies the stored file, of committed buffers ... *)
LEMMA CopiedClean ==
  ASSUME disk \in Files, NEW b \in Backend, FilesClean(b), NEW s \in Store,
         NEW copied \in Attempts(Content(b, PathOf[s]))
  PROVE  copied \in Buffers /\ \A i \in DOMAIN copied : Clean(s, copied[i])
<1>1. PathOf[s] \in Path
  BY BackendAssumption
<1>2. CASE copied = <<>>
  BY <1>2 DEF Buffers
<1>3. CASE copied = Content(b, PathOf[s]) /\ disk[b].file[PathOf[s]] # None
  <2> DEFINE f == disk[b].file[PathOf[s]]
  <2>1. f \in Store /\ TidOf[f] \in log
    BY <1>1, <1>3 DEF FilesClean, Files, Disk
  <2>2. copied = disk[b].data[f]
    BY <1>3 DEF Content
  <2>3. copied \in Buffers
    <3> HIDE DEF f
    <3> QED
      BY <2>1, <2>2 DEF Files, Disk, Buffers
  <2> HIDE DEF f
  <2> QED
    BY <2>1, <2>2, <2>3 DEF FilesClean, Clean
<1> QED
  BY <1>2, <1>3 DEF Attempts, Content

(* ... and appends the buffer of its call. *)
LEMMA AppendedClean ==
  ASSUME NEW s \in Store, NEW new \in Attempts(<<s>>)
  PROVE  new \in Buffers /\ \A i \in DOMAIN new : Clean(s, new[i])
<1>1. CASE new = <<>>
  BY <1>1 DEF Buffers
<1>2. CASE new = <<s>>
  BY <1>2, RpcAssumption DEF Buffers, Clean
<1> QED
  BY <1>1, <1>2 DEF Attempts

(* PrepareCopy: what it copies are buffers of committed calls. *)
LEMMA CopyClean ==
  ASSUME mem \in Processes, disk \in Files, NEW b \in Backend, DataHolds(b),
         UNCHANGED log, NEW s \in Store, PrepareCopy(b, s)
  PROVE  DataHolds(b)'
<1>1. mem[b].pc[s] = "copy"
  BY DEF PrepareCopy, Preparing
<1>3. PICK copied \in Attempts(Content(b, PathOf[s])) :
        /\ Write(b, s, copied)
        /\ Becomes(b, [mem[b] EXCEPT
             !.pc[s] = "append",
             !.lock[mem[b].file_lock[s]] = RdLocked(@, StoreThread[s]),
             !.fd[s].offset = Len(copied)])
  BY DEF PrepareCopy
<1>4. copied \in Buffers /\ \A i \in DOMAIN copied : Clean(s, copied[i])
  BY CopiedClean DEF DataHolds
<1>5. mem[b].fd[s].inode \in {None, s} /\ mem[b].fd[s].offset = 0
  BY <1>1 DEF DataHolds, OffsetsHold, Copying
<1>6. /\ FilesClean(b)'
      /\ \A r \in Store \ {s} : disk'[b].data[r] = disk[b].data[r]
      /\ mem[b].fd[s].inode # None => 0 + Len(copied) <= Len(disk'[b].data[s])
  <2>1. 0 <= Len(disk[b].data[s])
    BY DEF Files, Disk
  <2> QED
    BY <1>3, <1>4, <1>5, <2>1, WriteClean DEF DataHolds
<1>7. /\ \A r \in Store \ {s} : /\ mem'[b].pc[r] = mem[b].pc[r]
                                /\ mem'[b].fd[r] = mem[b].fd[r]
      /\ mem'[b].pc[s] = "append"
      /\ mem'[b].fd[s] = [mem[b].fd[s] EXCEPT !.offset = Len(copied)]
  BY <1>3 DEF Becomes, Processes, Memory
<1>8. /\ mem'[b].fd[s].inode = mem[b].fd[s].inode
      /\ mem'[b].fd[s].offset = Len(copied)
  BY <1>7 DEF Processes, Memory
<1>9. Len(copied) \in Nat
  BY <1>4 DEF Buffers
<1>10. OffsetsHold(b)'
  <2>1. \A r \in Store \ {s} : /\ mem'[b].pc[r] = mem[b].pc[r]
                               /\ mem'[b].fd[r] = mem[b].fd[r]
                               /\ disk'[b].data[r] = disk[b].data[r]
    BY <1>6, <1>7
  <2>2. mem'[b].fd[s].inode # None => mem'[b].fd[s].offset <= Len(disk'[b].data[s])
    BY <1>6, <1>8, <1>9
  <2>3. mem'[b].pc[s] = "append" /\ mem'[b].fd[s].inode \in {None, s}
    BY <1>5, <1>7, <1>8
  <2>4. OffsetsHold(b)
    BY DEF DataHolds
  <2> QED
    BY <2>1, <2>2, <2>3, <2>4 DEF OffsetsHold, Copying
<1> QED
  BY <1>6, <1>10 DEF DataHolds

(* Then it closes the file. *)
LEMMA AppendClean ==
  ASSUME mem \in Processes, disk \in Files, NEW b \in Backend, DataHolds(b),
         UNCHANGED log, NEW s \in Store, PrepareAppend(b, s)
  PROVE  DataHolds(b)'
<1>1. mem[b].pc[s] = "append"
  BY DEF PrepareAppend, Preparing
<1>2. PICK new \in Attempts(<<s>>) : Write(b, s, new)
  BY DEF PrepareAppend
<1>3. new \in Buffers /\ \A i \in DOMAIN new : Clean(s, new[i])
  BY AppendedClean
<1>4. /\ FilesClean(b)'
      /\ \A r \in Store \ {s} : disk'[b].data[r] = disk[b].data[r]
  BY <1>1, <1>2, <1>3, WriteClean DEF DataHolds, OffsetsHold, Copying
<1>5. /\ \A r \in Store \ {s} : /\ mem'[b].pc[r] = mem[b].pc[r]
                                /\ mem'[b].fd[r] = mem[b].fd[r]
      /\ mem'[b].pc[s] = "wrlock"
      /\ mem'[b].fd[s] = NotOpen
  BY DEF PrepareAppend, Becomes, Processes, Memory, NotOpen
<1>6. OffsetsHold(b)'
  BY <1>4, <1>5 DEF DataHolds, OffsetsHold, Copying
<1> QED
  BY <1>4, <1>6 DEF DataHolds

(* Its other steps touch no file. *)
LEMMA PrepareClean ==
  ASSUME DistinctTids, mem \in Processes, disk \in Files, NEW b \in Backend, DataHolds(b),
         UNCHANGED log, NEW s \in Store, PrepareStep(b, s)
  PROVE  DataHolds(b)'
<1>1. ASSUME NEW x, x \notin Copying, mem[b].pc[s] \notin Copying,
             mem'[b].pc = [mem[b].pc EXCEPT ![s] = x], mem'[b].fd = mem[b].fd,
             disk'[b].temp = disk[b].temp, disk'[b].file = disk[b].file,
             disk'[b].data = disk[b].data
      PROVE  DataHolds(b)'
  <2>1. \A r \in Store : mem'[b].pc[r] = IF r = s THEN x ELSE mem[b].pc[r]
    BY <1>1 DEF Processes, Memory
  <2> QED
    BY SMTT(30), <1>1, <2>1 DEF DataHolds, FilesClean, Clean, OffsetsHold, Copying
<1>2. /\ mem[b] \in Memory
      /\ \A m : Becomes(b, m) => mem'[b] = m
  BY DEF Becomes, Processes
<1>3. CASE PrepareLookup(b, s)
  <2>1. mem[b].pc[s] = "none" /\ UNCHANGED disk /\ mem'[b].fd = mem[b].fd
    BY <1>2, <1>3 DEF PrepareLookup, Preparing, Memory
  <2>2. PICK x \in {"lookup", "insert"} : mem'[b].pc = [mem[b].pc EXCEPT ![s] = x]
    BY <1>2, <1>3 DEF PrepareLookup, Memory
  <2> QED
    BY <1>1, <2>1, <2>2 DEF Copying
<1>4. CASE PrepareNewLock(b, s)
  <2>1. mem[b].pc[s] = "lookup" /\ UNCHANGED disk /\ mem'[b].fd = mem[b].fd
    BY <1>2, <1>4 DEF PrepareNewLock, Preparing, Memory
  <2>2. mem'[b].pc = [mem[b].pc EXCEPT ![s] = "insert"]
    BY <1>2, <1>4 DEF PrepareNewLock, Memory
  <2> QED
    BY <1>1, <2>1, <2>2 DEF Copying
<1>5. CASE PrepareInsert(b, s)
  <2>0. mem'[b] = [mem[b] EXCEPT
                    !.pc[s] = IF OpOf[s] = "store" THEN "open" ELSE "wrlock",
                    !.state_t[s] = "PREPARE",
                    !.tx_db[TidOf[s]] = IF @ = None THEN s ELSE @]
    BY <1>2, <1>5 DEF PrepareInsert
  <2>1. mem[b].pc[s] = "insert" /\ UNCHANGED disk /\ mem'[b].fd = mem[b].fd
    BY <1>2, <1>5, <2>0 DEF PrepareInsert, Preparing, Memory
  <2>2. PICK x \in {"open", "wrlock"} : mem'[b].pc = [mem[b].pc EXCEPT ![s] = x]
    BY <1>2, <1>5 DEF PrepareInsert, Memory
  <2> QED
    BY <1>1, <2>1, <2>2 DEF Copying
<1>6. CASE PrepareNullLock(b, s)
  <2>1. mem'[b] = NotRunning
    BY <1>2, <1>6 DEF PrepareNullLock, ProcessEnd
  <2> QED
    BY <1>6, <2>1
    DEF PrepareNullLock, NotRunning, DataHolds, FilesClean, Clean, OffsetsHold, Copying, NotOpen
<1>7. CASE PrepareOpenFails(b, s)
  <2>1. mem[b].pc[s] = "open" /\ UNCHANGED disk /\ mem'[b].fd = mem[b].fd
    BY <1>2, <1>7 DEF PrepareOpenFails, Preparing, Memory
  <2>2. mem'[b].pc = [mem[b].pc EXCEPT ![s] = "copy"]
    BY <1>2, <1>7 DEF PrepareOpenFails, Memory
  <2>3. \A r \in Store : mem'[b].pc[r] = IF r = s THEN "copy" ELSE mem[b].pc[r]
    BY <2>2 DEF Processes, Memory
  <2>4. FilesClean(b)'
    BY <2>1 DEF DataHolds, FilesClean, Clean
  <2>5. OffsetsHold(b)'
    BY <2>1, <2>3 DEF DataHolds, OffsetsHold, Copying, NotOpen
  <2> QED
    BY <2>4, <2>5 DEF DataHolds
<1>8. CASE PrepareWrLock(b, s)
  <2>1. mem[b].pc[s] = "wrlock" /\ UNCHANGED disk /\ mem'[b].fd = mem[b].fd
    BY <1>2, <1>8 DEF PrepareWrLock, Preparing, Memory
  <2>2. mem'[b].pc = [mem[b].pc EXCEPT ![s] = "log"]
    BY <1>2, <1>8 DEF PrepareWrLock, Memory
  <2> QED
    BY <1>1, <2>1, <2>2 DEF Copying
<1>9. CASE PrepareLog(b, s) \/ PrepareLogFails(b, s)
  <2>1. /\ mem[b].pc[s] = "log" /\ mem'[b].fd = mem[b].fd
        /\ mem'[b].pc = [mem[b].pc EXCEPT ![s] = "none"]
    BY <1>2, <1>9 DEF PrepareLog, PrepareLogFails, PrepareEnd, Preparing, Memory
  <2>2. /\ disk'[b].temp = disk[b].temp /\ disk'[b].file = disk[b].file
        /\ disk'[b].data = disk[b].data
    BY <1>9 DEF PrepareLog, PrepareLogFails, Logged, Files, Disk
  <2> QED
    BY <1>1, <2>1, <2>2 DEF Copying
<1> QED
  BY <1>3, <1>4, <1>5, <1>6, <1>7, <1>8, <1>9, OpenClean, CopyClean, AppendClean DEF PrepareStep

-----------------------------------------------------------------------------
(* The other steps of a store. *)

(* They leave the Prepare handlers where they are, or end the process. *)
LEMMA PcKept ==
  ASSUME mem \in Processes, NEW b \in Backend,
         \/ StoreStart(b) \/ StoreRecover(b) \/ Listen(b) \/ AskReturns(b)
         \/ Exit(b) \/ StoreCrash(b)
         \/ \E t \in Txid : AskAgain(b, t) \/ OutcomeStep(b, t)
  PROVE  \/ mem'[b] = NotRunning
         \/ mem'[b].pc = mem[b].pc /\ mem'[b].fd = mem[b].fd
<1>1. mem[b] \in Memory
  BY DEF Processes
<1>2. \A m : Becomes(b, m) => mem'[b] = m
  BY DEF Becomes, Processes
<1>3. CASE StoreStart(b) \/ Listen(b) \/ AskReturns(b) \/ \E t \in Txid : AskAgain(b, t)
  BY ZenonT(60), <1>1, <1>2, <1>3 DEF StoreStart, Listen, AskReturns, AskAgain, Memory
<1>4. CASE StoreRecover(b)
  <2>1. mem'[b].pc = mem[b].pc
    BY ZenonT(60), <1>1, <1>2, <1>4 DEF StoreRecover, Memory
  <2>2. mem'[b].fd = mem[b].fd
    BY ZenonT(60), <1>1, <1>2, <1>4 DEF StoreRecover, Memory
  <2> QED
    BY <2>1, <2>2
<1>5. CASE Exit(b) \/ StoreCrash(b)
  BY <1>2, <1>5 DEF Exit, StoreCrash, ProcessEnd
<1>6. ASSUME NEW t \in Txid, AbortBegin(b, t) \/ CommitBegin(b, t)
      PROVE  mem'[b].pc = mem[b].pc /\ mem'[b].fd = mem[b].fd
  <2>1. mem'[b].pc = mem[b].pc
    BY <1>1, <1>2, <1>6 DEF AbortBegin, CommitBegin, Memory
  <2>2. mem'[b].fd = mem[b].fd
    BY <1>1, <1>2, <1>6 DEF AbortBegin, CommitBegin, Memory
  <2> QED
    BY <2>1, <2>2
<1>8. ASSUME NEW t \in Txid, CommitFile(b, t) \/ CommitState(b, t)
      PROVE  mem'[b].pc = mem[b].pc /\ mem'[b].fd = mem[b].fd
  BY <1>1, <1>2, <1>8 DEF CommitFile, CommitState, Memory
<1>7. ASSUME NEW k \in Kind, NEW t \in Txid, NEW x, UnlockFile(b, k, t, x)
      PROVE  \/ mem'[b] = NotRunning
             \/ mem'[b].pc = mem[b].pc /\ mem'[b].fd = mem[b].fd
  <2>1. CASE ProcessEnd(b)
    BY <1>2, <2>1 DEF ProcessEnd
  <2>2. CASE ~ProcessEnd(b)
    <3>1. PICK locks, open, over :
            mem'[b] = [mem[b] EXCEPT !.lock = locks, !.log_lock = x,
                                     !.handlers = open, !.exiting = over]
      BY <1>2, <1>7, <2>2 DEF UnlockFile
    <3> QED
      BY <1>1, <3>1 DEF Memory
  <2> QED
    BY <2>1, <2>2
<1> QED
  BY <1>3, <1>4, <1>5, <1>6, <1>7, <1>8 DEF OutcomeStep, LogAndUnlock, LogFailsAndUnlock

(* They open no file of a Prepare, and may end the process. *)
LEMMA OffsetsGone ==
  ASSUME NEW b \in Backend, OffsetsHold(b), disk'[b].data = disk[b].data,
         \/ mem'[b] = NotRunning
         \/ mem'[b].pc = mem[b].pc /\ mem'[b].fd = mem[b].fd
  PROVE  OffsetsHold(b)'
<1>1. CASE mem'[b] = NotRunning
  BY <1>1 DEF NotRunning, OffsetsHold, Copying, NotOpen
<1> QED
  BY <1>1, OffsetsKept

(* A Commit puts the file of a committed call in its place; an Abort only *)
(* removes its file.                                                       *)
LEMMA ApplyClean ==
  ASSUME mem \in Processes, disk \in Files, NEW b \in Backend, DataHolds(b), CommitsRight(b),
         UNCHANGED log, NEW t \in Txid, AbortBegin(b, t) \/ CommitFile(b, t)
  PROVE  DataHolds(b)'
<1> DEFINE d == disk[b]
           e == mem[b].tx_db[t]
<1>1. d \in Disk /\ e \in Store \cup {None}
  BY DEF Files, Processes, Memory
<1>2. \/ mem'[b] = NotRunning
      \/ mem'[b].pc = mem[b].pc /\ mem'[b].fd = mem[b].fd
  BY PcKept DEF OutcomeStep
<1>3. CASE AbortBegin(b, t)
  <2>1. UNCHANGED disk \/ disk' = [disk EXCEPT ![b].temp[t] = None]
    BY <1>3 DEF AbortBegin
  <2>2. /\ disk'[b].data = d.data /\ disk'[b].file = d.file
        /\ \A u \in Txid : disk'[b].temp[u] \in {d.temp[u], None}
    BY <1>1, <2>1 DEF Files, Disk
  <2>3. FilesClean(b)'
    BY <2>2 DEF DataHolds, FilesClean, Clean
  <2> QED
    BY <1>2, <2>2, <2>3, OffsetsGone DEF DataHolds
<1>4. CASE CommitFile(b, t)
  <2>1. t \in log
    BY <1>4 DEF CommitFile, CommitsRight, Stage
  <2>2. disk'[b] = Applied(d, t, e)
    BY <1>4 DEF CommitFile, Files
  <2>3. /\ disk'[b].data = d.data
        /\ \A u \in Txid : disk'[b].temp[u] \in {d.temp[u], None}
        /\ \A p \in Path : \/ disk'[b].file[p] \in {d.file[p], None}
                           \/ disk'[b].file[p] = d.temp[t] /\ d.temp[t] # None
    <3> HIDE DEF d, e
    <3> QED
      BY <1>1, <2>2 DEF Applied, Disk
  <2>4. FilesClean(b)'
    BY <2>1, <2>3 DEF DataHolds, FilesClean, Clean
  <2> QED
    BY <1>2, <2>3, <2>4, OffsetsGone DEF DataHolds
<1> QED
  BY <1>3, <1>4

(* The records say nothing of the data. *)
LEMMA RestClean ==
  ASSUME mem \in Processes, disk \in Files, NEW b \in Backend, DataHolds(b), UNCHANGED log,
         \/ StoreStart(b) \/ StoreRecover(b) \/ Listen(b) \/ AskReturns(b)
         \/ Exit(b) \/ StoreCrash(b)
         \/ \E t \in Txid : \/ AskAgain(b, t) \/ CommitBegin(b, t) \/ CommitState(b, t)
                            \/ \E k \in Kind : LogAndUnlock(b, k, t) \/ LogFailsAndUnlock(b, k, t)
  PROVE  DataHolds(b)'
<1>1. disk'[b].data = disk[b].data /\ disk'[b].file = disk[b].file /\ disk'[b].temp = disk[b].temp
  BY ZenonT(60) DEF StoreStart, StoreRecover, Listen, AskReturns, Exit, StoreCrash, AskAgain,
     CommitBegin, CommitState, LogAndUnlock, LogFailsAndUnlock, Logged, Files, Disk
<1>2. \/ mem'[b] = NotRunning
      \/ mem'[b].pc = mem[b].pc /\ mem'[b].fd = mem[b].fd
  BY PcKept DEF OutcomeStep
<1>3. FilesClean(b)'
  BY <1>1 DEF DataHolds, FilesClean, Clean
<1> QED
  BY <1>1, <1>2, <1>3, OffsetsGone DEF DataHolds

-----------------------------------------------------------------------------
(* In the beginning there is no file. *)
LEMMA DataInvInit == Init => DataInv
<1> SUFFICES ASSUME Init
             PROVE  DataInv
  OBVIOUS
<1>1. \A b \in Backend : DataHolds(b)
  BY DEF Init, BackendInit, NotRunning, DataHolds, FilesClean, OffsetsHold, Copying, NotOpen
<1> QED
  BY <1>1, AgreeInvInit DEF DataInv

(* Every step of the system keeps the files clean, those of the coordinator *)
(* because what is logged stays logged.                                     *)
LEMMA DataInvNext ==
  ASSUME DistinctTids, WriteMayFail = FALSE, DataInv, [Next]_vars
  PROVE  DataInv'
<1>1. AgreeInv /\ AgreeInv'
  BY AgreeInvNext DEF DataInv
<1>2. /\ RpcTypeOK /\ mem \in Processes /\ disk \in Files
      /\ \A c \in Backend : DataHolds(c) /\ StoreHolds(c) /\ CommitsRight(c)
  BY <1>1 DEF DataInv, AgreeInv, SystemInv, TypeOK, BackendTypeOK, Processes, Files, StoreKnows
<1>3. ASSUME NEW c \in Backend, mem'[c] = mem[c], disk'[c] = disk[c],
             CoordNext \/ UNCHANGED coordVars
      PROVE  DataHolds(c)'
  <2>1. log \subseteq log'
    BY <1>1, <1>3, LogGrows DEF AgreeInv
  <2> QED
    BY <1>2, <1>3, <2>1, FilesCleanKept, OffsetsKept DEF DataHolds
<1>4. CASE UNCHANGED backendVars /\ (CoordNext \/ UNCHANGED coordVars)
  BY <1>1, <1>3, <1>4 DEF DataInv, backendVars
<1>5. CASE BackendNext /\ UNCHANGED coordVars
  <2>1. PICK b \in Backend : BackendStep(b)
    BY <1>5 DEF BackendNext
  <2>2. UNCHANGED log
    BY <1>5 DEF coordVars
  <2>3. DataHolds(b)'
    BY <1>2, <2>1, <2>2, PrepareClean, ApplyClean, RestClean DEF BackendStep, OutcomeStep
  <2>4. \A c \in Backend \ {b} : mem'[c] = mem[c] /\ disk'[c] = disk[c]
    BY <1>2, <2>1, OthersKept DEF StoreHolds
  <2>5. \A c \in Backend : DataHolds(c)'
    BY <1>3, <1>5, <2>3, <2>4
  <2> QED
    BY <1>1, <2>5 DEF DataInv
<1> QED
  BY <1>4, <1>5 DEF Next, vars

(* A stored file holds what its committed call put there. *)
LEMMA DataInvImplies == DataInv => NoDirtyData
<1> SUFFICES ASSUME DataInv, NEW b \in Backend, NEW p \in Path, NEW i \in DOMAIN Content(b, p)
             PROVE  Content(b, p)[i] # None /\ TidOf[Content(b, p)[i]] \in log
  BY DEF NoDirtyData
<1> DEFINE f == disk[b].file[p]
<1>1. FilesClean(b) /\ disk[b] \in Disk
  BY DEF DataInv, DataHolds, AgreeInv, SystemInv, BackendTypeOK
<1>2. f # None /\ Content(b, p) = disk[b].data[f]
  BY DEF Content
<1>3. f \in Store /\ TidOf[f] \in log
  BY <1>1, <1>2 DEF FilesClean, Disk
<1>4. Clean(f, disk[b].data[f][i])
  BY <1>1, <1>2, <1>3 DEF FilesClean
<1> QED
  BY <1>2, <1>3, <1>4 DEF Clean

(* Whoever reads a stored file sees buffers of committed calls only, and no *)
(* hole, for any stores, calls, paths, threads and crashes, although locks  *)
(* are shared or given up early, Commit and Abort calls come late or twice, *)
(* and writes of the stores fail; ids must differ, or two calls share a     *)
(* temporary file, and the log of the coordinator must be written.          *)
THEOREM NoDirtyDataCorrect ==
  ASSUME DistinctTids, WriteMayFail = FALSE
  PROVE  Spec => []NoDirtyData
<1>1. Init => DataInv
  BY DataInvInit
<1>2. DataInv /\ [Next]_vars => DataInv'
  BY DataInvNext
<1>3. DataInv => NoDirtyData
  BY DataInvImplies
<1> QED
  BY <1>1, <1>2, <1>3, PTL DEF Spec

-----------------------------------------------------------------------------
(***************************************************************************)
(* What a reader is given was committed, for any numbers of stores, calls, *)
(* paths, threads, crashes and reads, although a Fetch takes no lock and   *)
(* does its work in three steps.                                           *)
(***************************************************************************)
(***************************************************************************)
(* The reason is that a file grows once it has a name that a reader may    *)
(* find: its Prepare is past the open that empties it, and is not executed *)
(* again.  So the size that fstat gave is there when the file is read, and *)
(* the buffers that were committed are still committed.                    *)
(***************************************************************************)
NotOpened == {"lookup", "insert", "open"}

Opened(b, s) == prep[s][b] \in Taken /\ mem[b].pc[s] \notin NotOpened

NamesOpened(b) ==
  /\ \A t \in Txid : disk[b].temp[t] # None => Opened(b, disk[b].temp[t])
  /\ \A p \in Path : disk[b].file[p] # None => Opened(b, disk[b].file[p])

Handlers == [at : {"idle", "open", "stat"}, inode : Store \cup {None}, size : Nat,
             opened : Buffers]

FetchTypeOK ==
  /\ fetch \in [Backend -> Handlers]
  /\ DOMAIN got = Backend

ReadingHolds(b) ==
  LET f == fetch[b].inode
  IN fetch[b].at # "idle" =>
       /\ f \in Store /\ TidOf[f] \in log
       /\ Opened(b, f)
       /\ fetch[b].at = "stat" => fetch[b].size <= Len(disk[b].data[f])

FetchInv ==
  /\ DataInv
  /\ FetchTypeOK
  /\ \A b \in Backend : NamesOpened(b) /\ ReadingHolds(b)
  /\ FetchedCommitted

-----------------------------------------------------------------------------
(* A step of Prepare moves its own handler, or ends the process. *)
LEMMA PreparePc ==
  ASSUME mem \in Processes, NEW b \in Backend, NEW s \in Store, PrepareStep(b, s)
  PROVE  \/ mem'[b] = NotRunning
         \/ \E x : /\ mem'[b].pc = [mem[b].pc EXCEPT ![s] = x]
                   /\ x \in NotOpened => prep[s][b] = "sent" \/ mem[b].pc[s] \in NotOpened
<1>1. mem[b] \in Memory
  BY DEF Processes
<1>2. \A m : Becomes(b, m) => mem'[b] = m
  BY DEF Becomes, Processes
<1>3. CASE PrepareLookup(b, s)
  <2>1. PICK x \in {"lookup", "insert"} : mem'[b].pc = [mem[b].pc EXCEPT ![s] = x]
    BY ZenonT(60), <1>1, <1>2, <1>3 DEF PrepareLookup, Memory
  <2> QED
    BY <1>3, <2>1 DEF PrepareLookup, Arrives
<1>4. CASE PrepareNewLock(b, s)
  <2>1. mem'[b].pc = [mem[b].pc EXCEPT ![s] = "insert"]
    BY ZenonT(60), <1>1, <1>2, <1>4 DEF PrepareNewLock, Memory
  <2> QED
    BY <1>4, <2>1 DEF PrepareNewLock, Preparing, NotOpened
<1>5. CASE PrepareInsert(b, s)
  <2>1. PICK x \in {"open", "wrlock"} : mem'[b].pc = [mem[b].pc EXCEPT ![s] = x]
    BY ZenonT(60), <1>1, <1>2, <1>5 DEF PrepareInsert, Memory
  <2> QED
    BY <1>5, <2>1 DEF PrepareInsert, Preparing, NotOpened
<1>6. CASE PrepareNullLock(b, s)
  BY <1>2, <1>6 DEF PrepareNullLock, ProcessEnd
<1>7. CASE PrepareOpen(b, s) \/ PrepareOpenFails(b, s)
  <2>1. mem'[b].pc = [mem[b].pc EXCEPT ![s] = "copy"]
    BY ZenonT(60), <1>1, <1>2, <1>7 DEF PrepareOpen, PrepareOpenFails, Memory
  <2> QED
    BY ZenonT(60), <2>1 DEF NotOpened
<1>8. CASE PrepareCopy(b, s)
  <2>1. PICK copied, lock :
          mem'[b] = [mem[b] EXCEPT !.pc[s] = "append", !.lock[mem[b].file_lock[s]] = lock,
                                   !.fd[s].offset = Len(copied)]
    BY <1>2, <1>8 DEF PrepareCopy
  <2>2. mem'[b].pc = [mem[b].pc EXCEPT ![s] = "append"]
    BY ZenonT(60), <1>1, <2>1 DEF Memory
  <2> QED
    BY <2>2 DEF NotOpened
<1>9. CASE PrepareAppend(b, s) \/ PrepareWrLock(b, s)
  <2>1. PICK x \in {"wrlock", "log"} : mem'[b].pc = [mem[b].pc EXCEPT ![s] = x]
    BY ZenonT(60), <1>1, <1>2, <1>9 DEF PrepareAppend, PrepareWrLock, Memory
  <2> QED
    BY ZenonT(60), <2>1 DEF NotOpened
<1>10. CASE PrepareLog(b, s) \/ PrepareLogFails(b, s)
  <2>1. mem'[b].pc = [mem[b].pc EXCEPT ![s] = "none"]
    BY ZenonT(60), <1>1, <1>2, <1>10 DEF PrepareLog, PrepareLogFails, PrepareEnd, Memory
  <2> QED
    BY ZenonT(60), <2>1 DEF NotOpened
<1> QED
  BY <1>3, <1>4, <1>5, <1>6, <1>7, <1>8, <1>9, <1>10 DEF PrepareStep

(* So what is opened stays so: its Prepare call is not executed again. *)
LEMMA OpenedKept ==
  ASSUME RpcTypeOK, mem \in Processes, disk \in Files, NEW b \in Backend, HandlersHold(b),
         BackendStep(b), NEW s \in Store, Opened(b, s)
  PROVE  Opened(b, s)'
<1>1. prep'[s][b] \in Taken
  BY OthersKept DEF Opened
<1>2. \/ mem'[b] = NotRunning
      \/ mem'[b].pc = mem[b].pc
      \/ \E r \in Store : \E x :
           /\ mem'[b].pc = [mem[b].pc EXCEPT ![r] = x]
           /\ x \in NotOpened => prep[r][b] = "sent" \/ mem[b].pc[r] \in NotOpened
  <2>1. CASE \E r \in Store : PrepareStep(b, r)
    BY <2>1, PreparePc
  <2>2. CASE ~\E r \in Store : PrepareStep(b, r)
    BY <2>2, PcKept DEF BackendStep
  <2> QED
    BY <2>1, <2>2
<1>3. mem'[b].pc[s] \notin NotOpened
  <2>1. CASE mem'[b] = NotRunning
    BY <2>1 DEF NotRunning, NotOpened
  <2>2. CASE mem'[b].pc = mem[b].pc
    BY <2>2 DEF Opened
  <2>3. ASSUME NEW r \in Store, NEW x, mem'[b].pc = [mem[b].pc EXCEPT ![r] = x],
               x \in NotOpened => prep[r][b] = "sent" \/ mem[b].pc[r] \in NotOpened
        PROVE  mem'[b].pc[s] \notin NotOpened
    <3>1. mem'[b].pc[s] = IF s = r THEN x ELSE mem[b].pc[s]
      BY <2>3 DEF Processes, Memory
    <3> QED
      BY <2>3, <3>1 DEF Opened, Taken
  <2> QED
    BY <1>2, <2>1, <2>2, <2>3
<1> QED
  BY <1>1, <1>3 DEF Opened

-----------------------------------------------------------------------------
(* What a step of a store does to its files: only the open of a Prepare    *)
(* gives a new name to its own file, and makes it shorter; and only the    *)
(* Prepare that made a file writes to it.                                  *)
Writing == {"open", "copy", "append"}

FilesFollow(b) ==
  /\ \A t \in Txid : \/ disk'[b].temp[t] \in {disk[b].temp[t], None}
                     \/ \E s \in Store : PrepareOpen(b, s) /\ disk'[b].temp[t] = s
  /\ \A p \in Path : \/ disk'[b].file[p] \in {disk[b].file[p], None}
                     \/ \E t \in Txid : disk'[b].file[p] = disk[b].temp[t]
  /\ \A s \in Store : Len(disk[b].data[s]) <= Len(disk'[b].data[s]) \/ PrepareOpen(b, s)
  /\ \A s \in Store : disk'[b].data[s] = disk[b].data[s] \/ mem[b].pc[s] \in Writing

(* A step that leaves a store's files as they are. *)
LEMMA SameFiles ==
  ASSUME disk \in Files, NEW b \in Backend, disk'[b].temp = disk[b].temp,
         disk'[b].file = disk[b].file, disk'[b].data = disk[b].data
  PROVE  FilesFollow(b)
<1>1. \A s \in Store : Len(disk[b].data[s]) \in Nat
  BY DEF Files, Disk
<1> QED
  BY <1>1 DEF FilesFollow

(* Every step of a Prepare changes only the files it may. *)
LEMMA PrepareFiles ==
  ASSUME DistinctTids, mem \in Processes, disk \in Files, NEW b \in Backend, DataHolds(b),
         UNCHANGED log, NEW s \in Store, PrepareStep(b, s)
  PROVE  FilesFollow(b)
<1>1. \A r \in Store : Len(disk[b].data[r]) \in Nat
  BY DEF Files, Disk
<1>2. CASE PrepareOpen(b, s)
  <2>1. /\ disk'[b].file = disk[b].file
        /\ \A u \in Txid : disk'[b].temp[u] = IF u = TidOf[s] THEN s ELSE disk[b].temp[u]
        /\ \A r \in Store : disk'[b].data[r] = IF r = s THEN <<>> ELSE disk[b].data[r]
    BY <1>2, OpenFiles DEF DataHolds
  <2>2. mem[b].pc[s] \in Writing
    BY <1>2 DEF PrepareOpen, Preparing, Writing
  <2> QED
    BY <1>1, <1>2, <2>1, <2>2 DEF FilesFollow
<1>3. ASSUME NEW new \in Buffers, Write(b, s, new), mem[b].pc[s] \in Copying,
             \A i \in DOMAIN new : Clean(s, new[i])
      PROVE  FilesFollow(b)
  <2>1. /\ mem[b].fd[s].inode \in {None, s}
        /\ mem[b].fd[s].inode # None => mem[b].fd[s].offset <= Len(disk[b].data[s])
    BY <1>1, <1>3 DEF DataHolds, OffsetsHold, Copying
  <2>2. /\ \A r \in Store \ {s} : disk'[b].data[r] = disk[b].data[r]
        /\ Len(disk[b].data[s]) <= Len(disk'[b].data[s])
        /\ disk'[b].temp = disk[b].temp /\ disk'[b].file = disk[b].file
    BY <1>3, <2>1, WriteClean DEF DataHolds
  <2>3. \A r \in Store : Len(disk[b].data[r]) <= Len(disk'[b].data[r])
    BY <1>1, <2>2
  <2> QED
    BY <1>3, <2>2, <2>3 DEF FilesFollow, Copying, Writing
<1>4. CASE PrepareCopy(b, s)
  <2>1. PICK copied \in Attempts(Content(b, PathOf[s])) : Write(b, s, copied)
    BY <1>4 DEF PrepareCopy
  <2>2. mem[b].pc[s] \in Copying
    BY <1>4 DEF PrepareCopy, Preparing, Copying
  <2> QED
    BY <1>3, <2>1, <2>2, CopiedClean DEF DataHolds
<1>5. CASE PrepareAppend(b, s)
  <2>1. PICK new \in Attempts(<<s>>) : Write(b, s, new)
    BY <1>5 DEF PrepareAppend
  <2>2. mem[b].pc[s] \in Copying
    BY <1>5 DEF PrepareAppend, Preparing, Copying
  <2> QED
    BY <1>3, <2>1, <2>2, AppendedClean
<1>6. CASE PrepareLog(b, s)
  <2>1. /\ disk'[b].temp = disk[b].temp /\ disk'[b].file = disk[b].file
        /\ disk'[b].data = disk[b].data
    BY <1>6 DEF PrepareLog, Logged, Files, Disk
  <2> QED
    BY <2>1, SameFiles
<1>7. CASE UNCHANGED disk
  BY <1>7, SameFiles
<1> QED
  BY <1>2, <1>4, <1>5, <1>6, <1>7
  DEF PrepareStep, PrepareLookup, PrepareNewLock, PrepareInsert, PrepareNullLock,
      PrepareOpenFails, PrepareWrLock, PrepareLogFails

(* So does every step of a store. *)
LEMMA StoreFiles ==
  ASSUME DistinctTids, mem \in Processes, disk \in Files, NEW b \in Backend, DataHolds(b),
         UNCHANGED log, BackendStep(b)
  PROVE  FilesFollow(b)
<1> DEFINE d == disk[b]
<1>1. d \in Disk /\ mem[b] \in Memory
  BY DEF Files, Processes
<1>2. CASE \E s \in Store : PrepareStep(b, s)
  BY <1>2, PrepareFiles
<1>3. ASSUME NEW t \in Txid, AbortBegin(b, t)
      PROVE  FilesFollow(b)
  <2>1. UNCHANGED disk \/ disk' = [disk EXCEPT ![b].temp[t] = None]
    BY <1>3 DEF AbortBegin
  <2>2. /\ disk'[b].data = d.data /\ disk'[b].file = d.file
        /\ \A u \in Txid : disk'[b].temp[u] \in {d.temp[u], None}
    BY <1>1, <2>1 DEF Files, Disk
  <2>3. \A s \in Store : Len(d.data[s]) \in Nat
    BY <1>1 DEF Disk
  <2> QED
    BY <2>2, <2>3 DEF FilesFollow
<1>4. ASSUME NEW t \in Txid, CommitFile(b, t)
      PROVE  FilesFollow(b)
  <2> DEFINE e == mem[b].tx_db[t]
  <2>1. disk'[b] = Applied(d, t, e)
    BY <1>4 DEF CommitFile, Files
  <2>2. /\ disk'[b].data = d.data
        /\ \A u \in Txid : disk'[b].temp[u] \in {d.temp[u], None}
        /\ \A p \in Path : disk'[b].file[p] \in {d.file[p], None, d.temp[t]}
    <3> HIDE DEF d, e
    <3> QED
      BY <1>1, <2>1 DEF Applied, Disk
  <2>3. \A s \in Store : Len(d.data[s]) \in Nat
    BY <1>1 DEF Disk
  <2> QED
    BY <2>2, <2>3 DEF FilesFollow
<1>5. CASE \/ StoreStart(b) \/ StoreRecover(b) \/ Listen(b) \/ AskReturns(b)
           \/ Exit(b) \/ StoreCrash(b)
           \/ \E t \in Txid : \/ AskAgain(b, t) \/ CommitBegin(b, t) \/ CommitState(b, t)
                              \/ \E k \in Kind : LogAndUnlock(b, k, t) \/ LogFailsAndUnlock(b, k, t)
  <2>1. /\ disk'[b].temp = disk[b].temp /\ disk'[b].file = disk[b].file
        /\ disk'[b].data = disk[b].data
    BY ZenonT(60), <1>1, <1>5 DEF StoreStart, StoreRecover, Listen, AskReturns, Exit,
       StoreCrash, AskAgain, CommitBegin, CommitState, LogAndUnlock, LogFailsAndUnlock, Logged, Files, Disk
  <2> QED
    BY <2>1, SameFiles
<1> QED
  BY <1>2, <1>3, <1>4, <1>5 DEF BackendStep, OutcomeStep

(* So a file that has a name is past the open of its Prepare. *)
LEMMA NamesKept ==
  ASSUME disk' \in Files, NEW b \in Backend, HandlersHold(b)',
         NamesOpened(b), FilesFollow(b),
         \A s \in Store : Opened(b, s) => Opened(b, s)',
         \A s \in Store : PrepareOpen(b, s) => mem'[b].pc[s] = "copy"
  PROVE  NamesOpened(b)'
<1>1. ASSUME NEW s \in Store, PrepareOpen(b, s)
      PROVE  Opened(b, s)'
  <2>1. mem'[b].pc[s] = "copy"
    BY <1>1
  <2>2. prep'[s][b] = "taken"
    BY <2>1 DEF HandlersHold
  <2> QED
    BY <2>1, <2>2 DEF Opened, NotOpened, Taken
<1>2. ASSUME NEW s \in Store,
             \/ \E t \in Txid : disk'[b].temp[t] = s
             \/ \E p \in Path : disk'[b].file[p] = s
      PROVE  Opened(b, s)'
  <2>1. s # None
    BY RpcAssumption
  <2>2. CASE Opened(b, s)
    BY <2>2
  <2>3. CASE ~Opened(b, s)
    <3>1. PrepareOpen(b, s)
      BY <1>2, <2>1, <2>3 DEF FilesFollow, NamesOpened
    <3> QED
      BY <1>1, <3>1
  <2> QED
    BY <2>2, <2>3
<1>3. /\ \A t \in Txid : disk'[b].temp[t] \in Store \cup {None}
      /\ \A p \in Path : disk'[b].file[p] \in Store \cup {None}
  BY DEF Files, Disk
<1> QED
  BY <1>2, <1>3 DEF NamesOpened

-----------------------------------------------------------------------------
(* A reader at a store relies on what a step of the system keeps. *)
LEMMA ReadingKept ==
  ASSUME NEW b \in Backend, fetch'[b] \in {fetch[b], NoFetch}, ReadingHolds(b),
         log \subseteq log', disk \in Files, disk' \in Files, FetchTypeOK,
         \A s \in Store : Opened(b, s) =>
           Opened(b, s)' /\ Len(disk[b].data[s]) <= Len(disk'[b].data[s])
  PROVE  ReadingHolds(b)'
<1>1. CASE fetch'[b] = NoFetch
  BY <1>1 DEF NoFetch, ReadingHolds
<1>2. CASE fetch'[b] = fetch[b] /\ fetch[b].at # "idle"
  <2>1. PICK f \in Store : f = fetch[b].inode /\ TidOf[f] \in log' /\ Opened(b, f)
    BY <1>2 DEF ReadingHolds
  <2>2. Opened(b, f)' /\ Len(disk[b].data[f]) <= Len(disk'[b].data[f])
    BY <2>1
  <2>3. fetch[b].size \in Nat /\ Len(disk[b].data[f]) \in Nat /\ Len(disk'[b].data[f]) \in Nat
    BY <2>1 DEF FetchTypeOK, Handlers, Files, Disk
  <2>4. fetch[b].at = "stat" => fetch[b].size <= Len(disk'[b].data[f])
    <3>1. fetch[b].at = "stat" => fetch[b].size <= Len(disk[b].data[f])
      BY <1>2, <2>1 DEF ReadingHolds
    <3>2. \A k, m, n \in Nat : k <= m /\ m <= n => k <= n
      OBVIOUS
    <3> QED
      BY Zenon, <2>2, <2>3, <3>1, <3>2
  <2> QED
    BY <1>2, <2>1, <2>2, <2>4 DEF ReadingHolds
<1> QED
  BY <1>1, <1>2 DEF ReadingHolds

(* A step of the coordinator or of the network opens and closes nothing. *)
LEMMA OpenedElsewhere ==
  ASSUME TypeOK, Started, NEW b \in Backend, mem'[b] = mem[b],
         CoordNext \/ UNCHANGED prep
  PROVE  \A s \in Store : Opened(b, s) => Opened(b, s)'
BY CoordPrep DEF Opened

(* Every step of the system keeps what readers rely on. *)
LEMMA ReadersKept ==
  ASSUME DistinctTids, WriteMayFail = FALSE, DataInv, FetchTypeOK, [Next]_vars,
         NEW b \in Backend, NamesOpened(b), ReadingHolds(b), fetch'[b] \in {fetch[b], NoFetch}
  PROVE  NamesOpened(b)' /\ ReadingHolds(b)'
<1>1. DataInv'
  BY DataInvNext
<1>2. /\ TypeOK /\ Started /\ RpcTypeOK /\ mem \in Processes /\ disk \in Files /\ OutcomeInv
      /\ disk' \in Files /\ HandlersHold(b)'
      /\ \A c \in Backend : DataHolds(c) /\ HandlersHold(c)
  BY <1>1 DEF DataInv, AgreeInv, SystemInv, TypeOK, BackendTypeOK, Processes, Files, StoreHolds
<1>3. CASE mem'[b] = mem[b] /\ disk'[b] = disk[b] /\ log \subseteq log'
           /\ \A s \in Store : Opened(b, s) => Opened(b, s)'
  <2>1. NamesOpened(b)'
    <3>1. /\ \A t \in Txid : disk[b].temp[t] \in Store \cup {None}
          /\ \A p \in Path : disk[b].file[p] \in Store \cup {None}
      BY <1>2 DEF Files, Disk
    <3> QED
      BY <1>3, <3>1 DEF NamesOpened
  <2>2. \A s \in Store : Len(disk[b].data[s]) \in Nat
    BY <1>2 DEF Files, Disk
  <2>3. \A s \in Store : Len(disk[b].data[s]) <= Len(disk'[b].data[s])
    BY <1>3, <2>2
  <2> QED
    BY <1>2, <1>3, <2>1, <2>3, ReadingKept
<1>4. CASE UNCHANGED backendVars /\ (CoordNext \/ UNCHANGED <<coordVars, prep>>)
  <2>1. log \subseteq log'
    BY <1>2, <1>4, LogGrows
  <2>2. \A s \in Store : Opened(b, s) => Opened(b, s)'
    BY <1>2, <1>4, OpenedElsewhere DEF backendVars
  <2> QED
    BY <1>3, <1>4, <2>1, <2>2 DEF backendVars
<1>5. CASE BackendNext /\ UNCHANGED coordVars
  <2>1. PICK c \in Backend : BackendStep(c)
    BY <1>5 DEF BackendNext
  <2>2. UNCHANGED log
    BY <1>5 DEF coordVars
  <2>3. CASE c = b
    <3>1. \A s \in Store : Opened(b, s) => Opened(b, s)'
      BY <1>2, <2>1, <2>3, OpenedKept
    <3>2. FilesFollow(b)
      BY <1>2, <2>1, <2>2, <2>3, StoreFiles
    <3>3. \A s \in Store : PrepareOpen(b, s) => mem'[b].pc[s] = "copy"
      <4> SUFFICES ASSUME NEW s \in Store, PrepareOpen(b, s)
                   PROVE  mem'[b].pc[s] = "copy"
        OBVIOUS
      <4>1. Becomes(b, [mem[b] EXCEPT !.pc[s] = "copy", !.fd[s] = [inode |-> s, offset |-> 0]])
        BY <1>2, OpenFiles DEF DataHolds
      <4> QED
        BY <1>2, <4>1 DEF Becomes, Processes, Memory
    <3>4. NamesOpened(b)'
      BY <1>2, <3>1, <3>2, <3>3, NamesKept
    <3>5. \A s \in Store : Opened(b, s) => Len(disk[b].data[s]) <= Len(disk'[b].data[s])
      BY <3>2 DEF FilesFollow, Opened, NotOpened, PrepareOpen, Preparing
    <3> QED
      BY <1>2, <2>2, <3>1, <3>4, <3>5, ReadingKept
  <2>4. CASE c # b
    <3>1. /\ mem'[b] = mem[b] /\ disk'[b] = disk[b]
          /\ \A s \in Store : prep'[s][b] = prep[s][b]
      BY <1>2, <2>1, <2>4, OthersKept
    <3>2. \A s \in Store : Opened(b, s) => Opened(b, s)'
      BY <3>1 DEF Opened
    <3> QED
      BY <1>3, <2>2, <3>1, <3>2
  <2> QED
    BY <2>3, <2>4
<1>6. CASE \/ RpcNext /\ UNCHANGED <<coordVars, backendVars>>
           \/ UNCHANGED vars
  <2>1. UNCHANGED backendVars /\ UNCHANGED <<coordVars, prep>>
    BY <1>6 DEF RpcNext, LoseReg, LoseAsk, LoseCall, vars, rpcVars
  <2> QED
    BY <1>4, <2>1
<1> QED
  BY <1>4, <1>5, <1>6 DEF Next

(* A committed call stays committed, so what a client was given is right still. *)
LEMMA GotKept ==
  ASSUME FetchedCommitted, UNCHANGED got, log \subseteq log'
  PROVE  FetchedCommitted'
BY DEF FetchedCommitted

-----------------------------------------------------------------------------
(* The steps of Fetch. *)
LEMMA FetchInvFetch ==
  ASSUME DistinctTids, WriteMayFail = FALSE, FetchInv, FetchNext, UNCHANGED vars
  PROVE  FetchInv'
<1>1. DataInv' /\ UNCHANGED <<mem, disk, log, prep>>
  BY DataInvNext DEF FetchInv, vars, coordVars, backendVars, rpcVars
<1>2. PICK b \in Backend : \/ \E p \in Path : FetchMissing(b, p) \/ FetchOpen(b, p)
                          \/ FetchStat(b) \/ FetchRead(b)
  BY DEF FetchNext
<1>3. /\ DataHolds(b) /\ disk \in Files /\ NamesOpened(b) /\ ReadingHolds(b) /\ FetchTypeOK
  BY DEF FetchInv, DataInv, AgreeInv, SystemInv, BackendTypeOK, Files
<1>4. \A c \in Backend : NamesOpened(c)'
  BY <1>1 DEF FetchInv, NamesOpened, Opened
<1>5. ASSUME NEW f \in Handlers,
             fetch' = [fetch EXCEPT ![b] = f], ReadingHolds(b)'
      PROVE  /\ \A c \in Backend : ReadingHolds(c)'
             /\ DOMAIN got' = Backend => FetchTypeOK'
  <2>1. \A c \in Backend \ {b} : fetch'[c] = fetch[c]
    BY <1>5
  <2>2. \A c \in Backend \ {b} : ReadingHolds(c)'
    BY <1>1, <2>1 DEF FetchInv, ReadingHolds, Opened
  <2> QED
    BY <1>3, <1>5, <2>2 DEF FetchTypeOK
<1>6. ASSUME NEW buf, ClientReturns(b, buf),
             \A i \in DOMAIN buf : buf[i] \in Store /\ TidOf[buf[i]] \in log
      PROVE  FetchInv'
  <2>1. fetch' = [fetch EXCEPT ![b] = NoFetch] /\ got' = [got EXCEPT ![b] = buf]
    BY <1>6 DEF ClientReturns
  <2>2. DOMAIN got' = Backend /\ \A c \in Backend : got'[c] = IF c = b THEN buf ELSE got[c]
    BY <1>3, <2>1 DEF FetchTypeOK
  <2>3. fetch'[b] = NoFetch
    BY <1>3, <2>1 DEF FetchTypeOK
  <2>4. ReadingHolds(b)'
    BY <2>3 DEF ReadingHolds, NoFetch
  <2>5. NoFetch \in Handlers
    BY DEF NoFetch, Handlers, Buffers
  <2>6. FetchTypeOK' /\ \A c \in Backend : ReadingHolds(c)'
    BY <1>5, <2>1, <2>2, <2>4, <2>5
  <2>7. FetchedCommitted'
    BY <1>1, <1>6, <2>2 DEF FetchInv, FetchedCommitted
  <2> QED
    BY <1>1, <1>4, <2>6, <2>7 DEF FetchInv
<1>7. ASSUME NEW p \in Path, FetchMissing(b, p)
      PROVE  FetchInv'
  BY <1>6, <1>7 DEF FetchMissing
<1>8. ASSUME NEW f \in Handlers,
             fetch' = [fetch EXCEPT ![b] = f], ReadingHolds(b)', UNCHANGED got
      PROVE  FetchInv'
  BY <1>1, <1>3, <1>4, <1>5, <1>8, GotKept DEF FetchInv, FetchTypeOK
<1>9. ASSUME NEW p \in Path, FetchOpen(b, p)
      PROVE  FetchInv'
  <2> DEFINE f == [at |-> "open", inode |-> disk[b].file[p], size |-> 0,
                   opened |-> Content(b, p)]
  <2>1. disk[b].file[p] \in Store /\ Content(b, p) \in Buffers
    BY <1>3, <1>9 DEF FetchOpen, Content, Files, Disk, Buffers
  <2>2. fetch' = [fetch EXCEPT ![b] = f] /\ UNCHANGED got
    BY <1>9 DEF FetchOpen
  <2>3. f \in Handlers
    BY <2>1 DEF Handlers
  <2>4. TidOf[disk[b].file[p]] \in log /\ Opened(b, disk[b].file[p])
    BY <1>3, <1>9 DEF FetchOpen, DataHolds, FilesClean, NamesOpened
  <2>5. fetch'[b] = f
    BY <1>3, <2>2 DEF FetchTypeOK
  <2>6. ReadingHolds(b)'
    BY <1>1, <2>1, <2>4, <2>5 DEF ReadingHolds, Opened
  <2> QED
    BY <1>8, <2>2, <2>3, <2>6
<1>10. CASE FetchStat(b)
  <2>1. PICK g \in Store : g = fetch[b].inode /\ TidOf[g] \in log /\ Opened(b, g)
    BY <1>3, <1>10 DEF FetchStat, ReadingHolds
  <2> DEFINE f == [fetch[b] EXCEPT !.at = "stat", !.size = Len(disk[b].data[g])]
  <2>2. Len(disk[b].data[g]) \in Nat
    BY <1>3, <2>1 DEF Files, Disk
  <2>3. fetch' = [fetch EXCEPT ![b] = f] /\ UNCHANGED got
    BY <1>3, <1>10, <2>1 DEF FetchStat, FetchTypeOK, Handlers
  <2>4. /\ f \in Handlers
        /\ f.inode = g /\ f.size = Len(disk[b].data[g])
    BY <1>3, <2>1, <2>2 DEF FetchTypeOK, Handlers
  <2>5. fetch'[b] = f
    BY <1>3, <2>3 DEF FetchTypeOK
  <2>6. ReadingHolds(b)'
    BY <1>1, <2>1, <2>2, <2>4, <2>5 DEF ReadingHolds, Opened
  <2> QED
    BY <1>8, <2>3, <2>4, <2>6
<1>11. CASE FetchRead(b)
  <2> DEFINE data == disk[b].data[fetch[b].inode]
             buf == [i \in 1..fetch[b].size |-> IF i <= Len(data) THEN data[i] ELSE Garbage]
  <2>1. ClientReturns(b, buf)
    BY <1>11 DEF FetchRead
  <2>2. PICK g \in Store : g = fetch[b].inode /\ TidOf[g] \in log
    BY <1>3, <1>11 DEF FetchRead, ReadingHolds
  <2>3. fetch[b].size <= Len(data) /\ fetch[b].size \in Nat
    BY <1>3, <1>11 DEF FetchRead, ReadingHolds, FetchTypeOK, Handlers
  <2>4. data \in Buffers /\ \A i \in DOMAIN data : Clean(g, data[i])
    BY <1>3, <2>2 DEF DataHolds, FilesClean, Files, Disk, Buffers
  <2>5. ASSUME NEW i \in DOMAIN buf
        PROVE  buf[i] \in Store /\ TidOf[buf[i]] \in log
    <3> HIDE DEF data
    <3>1. Len(data) \in Nat /\ DOMAIN data = 1..Len(data)
      BY <2>4 DEF Buffers
    <3>2. i \in DOMAIN data /\ buf[i] = data[i]
      BY <2>3, <2>5, <3>1
    <3>3. data[i] \in Store \cup {None} /\ Clean(g, data[i])
      BY <2>4, <3>1, <3>2 DEF Buffers
    <3> QED
      BY <2>2, <3>2, <3>3 DEF Clean
  <2> HIDE DEF buf
  <2> QED
    BY <1>6, <2>1, <2>5
<1> QED
  BY <1>2, <1>7, <1>9, <1>10, <1>11

(* The steps of the system. *)
LEMMA FetchInvSystem ==
  ASSUME DistinctTids, WriteMayFail = FALSE, FetchInv, [Next]_vars,
         FetchCut \/ UNCHANGED fetchVars
  PROVE  FetchInv'
<1>1. DataInv'
  BY DataInvNext DEF FetchInv
<1>2. UNCHANGED got /\ \A b \in Backend : fetch'[b] \in {fetch[b], NoFetch}
  BY DEF FetchCut, fetchVars
<1>3. FetchTypeOK'
  <2>1. NoFetch \in Handlers
    BY DEF NoFetch, Handlers, Buffers
  <2> QED
    BY <1>2, <2>1 DEF FetchInv, FetchTypeOK, FetchCut, fetchVars
<1>4. \A b \in Backend : NamesOpened(b)' /\ ReadingHolds(b)'
  BY <1>2, ReadersKept DEF FetchInv
<1>5. log \subseteq log'
  <2>1. CoordNext \/ UNCHANGED coordVars
    BY DEF Next, vars
  <2> QED
    BY <2>1, LogGrows DEF FetchInv, DataInv, AgreeInv
<1> QED
  BY <1>1, <1>2, <1>3, <1>4, <1>5, GotKept DEF FetchInv

(* It holds at the start: nobody reads. *)
LEMMA FetchInvInit == FetchSpecInit => FetchInv
<1> SUFFICES ASSUME FetchSpecInit
             PROVE  FetchInv
  OBVIOUS
<1>1. DataInv
  BY DataInvInit DEF FetchSpecInit
<1>2. FetchTypeOK /\ FetchedCommitted
  BY DEF FetchSpecInit, FetchInit, NoFetch, Handlers, Buffers, FetchTypeOK, FetchedCommitted
<1>3. \A b \in Backend : NamesOpened(b) /\ ReadingHolds(b)
  BY DEF FetchSpecInit, FetchInit, NoFetch, Init, BackendInit, NamesOpened, ReadingHolds
<1> QED
  BY <1>1, <1>2, <1>3 DEF FetchInv

(* What a client fetched was committed, and holds no garbage, for any       *)
(* stores, calls, paths, threads, crashes and reads, although nothing       *)
(* keeps a Prepare or a Commit of the path from running between the open,   *)
(* the fstat and the read of Fetch, and whatever writes of the stores fail; *)
(* ids must differ, and the log of the coordinator must be written.         *)
THEOREM FetchedCommittedCorrect ==
  ASSUME DistinctTids, WriteMayFail = FALSE
  PROVE  FetchSpec => []FetchedCommitted
<1>1. FetchSpecInit => FetchInv
  BY FetchInvInit
<1>2. FetchInv /\ [(Next /\ FetchCut) \/ (FetchNext /\ UNCHANGED vars)]_<<vars, fetchVars>>
        => FetchInv'
  BY FetchInvFetch, FetchInvSystem
<1>3. FetchInv => FetchedCommitted
  BY DEF FetchInv
<1> QED
  BY <1>1, <1>2, <1>3, PTL DEF FetchSpec

-----------------------------------------------------------------------------
(***************************************************************************)
(* A Fetch reads the file as it was at its open: nobody writes to it any   *)
(* more.  A call that is committed with the votes of all the stores it     *)
(* asked has no Prepare left, and only its Prepare writes to its file.     *)
(***************************************************************************)
AsOpened(b) ==
  fetch[b].at # "idle" =>
    /\ disk[b].data[fetch[b].inode] = fetch[b].opened
    /\ fetch[b].at = "stat" => fetch[b].size = Len(fetch[b].opened)

AtomicInv ==
  /\ FetchInv
  /\ VoteInv
  /\ NoVoteMissed => \A b \in Backend : AsOpened(b)

(* A vote that was not counted when the call was logged is never counted. *)
LEMMA MissedForEver ==
  ASSUME DistinctTids, OutcomeInv, VoteInv, [CoordNext \/ EnvNext]_allVars,
         NEW s \in Store, NEW b \in Backend, TidOf[s] \in log, prep[s][b] # "counted"
  PROVE  prep'[s][b] # "counted" /\ (prep[s][b] # "none" => prep'[s][b] # "none")
<1> DEFINE Missed == prep'[s][b] # "counted" /\ (prep[s][b] # "none" => prep'[s][b] # "none")
<1>1. pc[s] \in {"logged", "done"}
  BY DEF OutcomeInv, LogOwned, DistinctTids
<1>2. prep \in [Store -> [Backend -> PrepStage]]
  BY DEF VoteInv, TypeOK, RpcTypeOK
<1>3. waiting[s] = {}
  BY <1>1 DEF VoteInv, Counting
<1>4. CASE UNCHANGED prep
  BY <1>4
<1>5. ASSUME NEW r \in Store, StoreBegin(r)
      PROVE  prep'[s][b] = prep[s][b]
  <2>1. r # s
    BY <1>1, <1>5 DEF StoreBegin
  <2> QED
    BY <1>2, <1>5, <2>1 DEF StoreBegin, SendPrepare
<1>6. ASSUME NEW r \in Store, NEW c \in Backend, GetVoteReturn(r, c)
      PROVE  prep'[s][b] = prep[s][b]
  <2>1. r # s
    BY <1>3, <1>6 DEF GetVoteReturn
  <2> QED
    BY <1>2, <1>6, <2>1 DEF GetVoteReturn, SetPrep
<1>7. ASSUME NEW r \in Store, NEW c \in Backend, EnvPrepare(r, c)
      PROVE  Missed
  BY <1>2, <1>7 DEF EnvPrepare, SetPrep
<1>8. CASE CoordNext
  <2>1. ASSUME NEW r \in Store, StoreStep(r)
        PROVE  UNCHANGED prep \/ StoreBegin(r) \/ \E c \in Backend : GetVoteReturn(r, c)
    BY <2>1 DEF StoreStep, GetVoteFails, StoreAbort, StoreLog, StoreLogFails,
       StoreAnnounce, JoinPastEnd, ProcessEnds, rpcVars
  <2>2. ~(\E r \in Store : StoreStep(r)) => UNCHANGED prep
    BY <1>8 DEF CoordNext, RegisterInsert, RegisterCount, CommitVote, CoordCrash, ProcessEnds,
       Recover, rpcVars
  <2> QED
    BY <1>4, <1>5, <1>6, <2>1, <2>2
<1>9. CASE EnvNext
  BY <1>4, <1>7, <1>9 DEF EnvNext, EnvAsk, EnvRegister, EnvTake, RpcNext, LoseReg, LoseAsk, LoseCall
<1>10. CASE UNCHANGED allVars
  BY <1>4, <1>10 DEF allVars, rpcVars
<1> QED
  BY <1>8, <1>9, <1>10

(* A vote that is missed stays missed. *)
LEMMA NoneMissedBefore ==
  ASSUME DistinctTids, DataInv, VoteInv, [Next]_vars, NoVoteMissed'
  PROVE  NoVoteMissed
<1>1. SUFFICES ASSUME NEW s \in Store, NEW b \in Backend, TidOf[s] \in log,
                      prep[s][b] \notin {"none", "counted"}
               PROVE  FALSE
  BY DEF NoVoteMissed
<1>2. SystemInv /\ OutcomeInv
  BY DEF DataInv, AgreeInv
<1>3. prep'[s][b] \notin {"none", "counted"}
  BY <1>1, <1>2, MissedForEver, SystemStepConforms
<1>4. TidOf[s] \in log'
  <2>1. CoordNext \/ UNCHANGED coordVars
    BY DEF Next, vars
  <2> QED
    BY <1>1, <1>2, <2>1, LogGrows
<1> QED
  BY <1>3, <1>4 DEF NoVoteMissed

(* So the file of a committed call is not written to. *)
LEMMA CommittedAlone ==
  ASSUME NoVoteMissed, NEW b \in Backend, HandlersHold(b),
         NEW s \in Store, TidOf[s] \in log, prep[s][b] \in Taken
  PROVE  mem[b].pc[s] = "none"
<1>1. prep[s][b] # "taken"
  BY DEF NoVoteMissed
<1> QED
  BY <1>1 DEF HandlersHold

(* Nobody writes to the file of a committed call. *)
LEMMA DataKept ==
  ASSUME DistinctTids, DataInv, [Next]_vars, NoVoteMissed,
         NEW b \in Backend, NEW s \in Store, TidOf[s] \in log, prep[s][b] \in Taken
  PROVE  disk'[b].data[s] = disk[b].data[s]
<1>1. /\ RpcTypeOK /\ mem \in Processes /\ disk \in Files
      /\ \A c \in Backend : DataHolds(c) /\ HandlersHold(c)
  BY DEF DataInv, AgreeInv, SystemInv, TypeOK, BackendTypeOK, Processes, Files, StoreHolds
<1>2. CASE UNCHANGED disk
  BY <1>2
<1>3. CASE BackendNext /\ UNCHANGED coordVars
  <2>1. PICK c \in Backend : BackendStep(c)
    BY <1>3 DEF BackendNext
  <2>2. CASE c = b
    <3>1. FilesFollow(b)
      BY <1>1, <1>3, <2>1, <2>2, StoreFiles DEF coordVars
    <3>2. mem[b].pc[s] = "none"
      BY <1>1, CommittedAlone
    <3> QED
      BY <3>1, <3>2 DEF FilesFollow, Writing
  <2>3. CASE c # b
    BY <1>1, <2>1, <2>3, OthersKept
  <2> QED
    BY <2>2, <2>3
<1> QED
  BY <1>2, <1>3 DEF Next, vars, backendVars

(* A step of the system keeps it. *)
LEMMA AtomicSystem ==
  ASSUME DistinctTids, WriteMayFail = FALSE, AtomicInv, [Next]_vars,
         FetchCut \/ UNCHANGED fetchVars
  PROVE  AtomicInv'
<1>1. FetchInv' /\ DataInv /\ VoteInv
  BY FetchInvSystem DEF AtomicInv, FetchInv
<1>2. VoteInv'
  BY <1>1, VoteInvNext, SystemStepConforms DEF DataInv, AgreeInv
<1>3. ASSUME NoVoteMissed', NEW b \in Backend
      PROVE  AsOpened(b)'
  <2>1. NoVoteMissed
    BY <1>1, <1>3, NoneMissedBefore
  <2>2. fetch'[b] \in {fetch[b], NoFetch}
    BY DEF FetchCut, fetchVars
  <2>3. CASE fetch'[b] = NoFetch
    BY <2>3 DEF AsOpened, NoFetch
  <2>4. CASE fetch[b].at = "idle" /\ fetch'[b] = fetch[b]
    BY <2>4 DEF AsOpened
  <2>5. CASE fetch[b].at # "idle" /\ fetch'[b] = fetch[b]
    <3>1. PICK f \in Store : f = fetch[b].inode /\ TidOf[f] \in log /\ prep[f][b] \in Taken
      BY <2>5 DEF AtomicInv, FetchInv, ReadingHolds, Opened
    <3>2. disk'[b].data[f] = disk[b].data[f]
      BY <1>1, <2>1, <3>1, DataKept
    <3>3. AsOpened(b)
      BY <2>1 DEF AtomicInv
    <3> QED
      BY <2>5, <3>1, <3>2, <3>3 DEF AsOpened
  <2> QED
    BY <2>2, <2>3, <2>4, <2>5
<1> QED
  BY <1>1, <1>2, <1>3 DEF AtomicInv

(* A step of a reader keeps it. *)
LEMMA AtomicFetch ==
  ASSUME DistinctTids, WriteMayFail = FALSE, AtomicInv, FetchNext, UNCHANGED vars
  PROVE  AtomicInv'
<1>1. FetchInv' /\ UNCHANGED <<mem, disk, log, prep>>
  BY FetchInvFetch DEF AtomicInv, vars, coordVars, backendVars, rpcVars
<1>2. VoteInv'
  <2>1. UNCHANGED allVars
    BY DEF vars, allVars
  <2> QED
    BY <2>1, VoteInvNext DEF AtomicInv
<1>3. NoVoteMissed' = NoVoteMissed
  BY <1>1 DEF NoVoteMissed
<1>4. PICK b \in Backend : \/ \E p \in Path : FetchMissing(b, p) \/ FetchOpen(b, p)
                          \/ FetchStat(b) \/ FetchRead(b)
  BY DEF FetchNext
<1>5. fetch \in [Backend -> Handlers]
  BY DEF AtomicInv, FetchInv, FetchTypeOK
<1>6. \A c \in Backend \ {b} : fetch'[c] = fetch[c]
  BY <1>4, <1>5 DEF FetchMissing, FetchOpen, FetchStat, FetchRead, ClientReturns
<1>7. ASSUME AsOpened(b)
      PROVE  AsOpened(b)'
  <2>1. CASE fetch'[b] = NoFetch
    BY <2>1 DEF AsOpened, NoFetch
  <2>2. ASSUME NEW p \in Path, FetchOpen(b, p)
        PROVE  AsOpened(b)'
    <3>1. fetch'[b] = [at |-> "open", inode |-> disk[b].file[p], size |-> 0,
                       opened |-> Content(b, p)]
      BY <1>5, <2>2 DEF FetchOpen
    <3>2. Content(b, p) = disk[b].data[disk[b].file[p]]
      BY <2>2 DEF FetchOpen, Content
    <3> QED
      BY <1>1, <3>1, <3>2 DEF AsOpened
  <2>3. CASE FetchStat(b)
    <3>1. /\ fetch'[b] = [fetch[b] EXCEPT !.at = "stat",
                                          !.size = Len(disk[b].data[fetch[b].inode])]
          /\ fetch[b] \in Handlers /\ fetch[b].at = "open"
      BY <1>5, <2>3 DEF FetchStat
    <3>2. /\ fetch'[b].inode = fetch[b].inode /\ fetch'[b].opened = fetch[b].opened
          /\ fetch'[b].size = Len(disk[b].data[fetch[b].inode])
      BY <3>1 DEF Handlers
    <3> QED
      BY <1>1, <1>7, <3>1, <3>2 DEF AsOpened
  <2>4. FetchRead(b) \/ (\E p \in Path : FetchMissing(b, p)) => fetch'[b] = NoFetch
    BY <1>5 DEF FetchRead, FetchMissing, ClientReturns
  <2> QED
    BY <1>4, <2>1, <2>2, <2>3, <2>4
<1>8. ASSUME NEW c \in Backend \ {b}, AsOpened(c)
      PROVE  AsOpened(c)'
  BY <1>1, <1>6, <1>8 DEF AsOpened
<1> QED
  BY <1>1, <1>2, <1>3, <1>7, <1>8 DEF AtomicInv

(* What the read gives. *)
LEMMA ReadIsOpened ==
  ASSUME AtomicInv, NEW b \in Backend, NoVoteMissed, FetchRead(b)
  PROVE  got'[b] = fetch[b].opened
<1> DEFINE f == fetch[b].inode
           data == disk[b].data[f]
           buf == [i \in 1..fetch[b].size |-> IF i <= Len(data) THEN data[i] ELSE Garbage]
<1>1. f \in Store /\ data = fetch[b].opened /\ fetch[b].size = Len(data)
  BY DEF AtomicInv, FetchInv, ReadingHolds, AsOpened, FetchRead
<1>2. data \in Seq(Store \cup {None})
  BY <1>1 DEF AtomicInv, FetchInv, DataInv, AgreeInv, SystemInv, BackendTypeOK, Disk
<1>3. got'[b] = buf
  BY DEF FetchRead, ClientReturns, AtomicInv, FetchInv, FetchTypeOK
<1> HIDE DEF data
<1>4. buf = data
  <2>1. Len(data) \in Nat /\ data = [i \in 1..Len(data) |-> data[i]]
    BY <1>2
  <2> QED
    BY <1>1, <2>1
<1> QED
  BY <1>1, <1>3, <1>4

(* A Fetch reads the file as it was at its open, for any numbers of        *)
(* stores, calls, paths, threads and crashes, while no call was committed  *)
(* beside a Prepare that still ran: a stored file is replaced, never       *)
(* written in place.                                                       *)
THEOREM FetchAtomicCorrect ==
  ASSUME DistinctTids, WriteMayFail = FALSE
  PROVE  FetchSpec => FetchAtomic
<1> DEFINE Step == (Next /\ FetchCut) \/ (FetchNext /\ UNCHANGED vars)
           Whole == \A b \in Backend :
                      NoVoteMissed /\ FetchRead(b) => got'[b] = fetch[b].opened
<1>1. FetchSpecInit => AtomicInv
  <2>1. FetchSpecInit => FetchInv /\ VoteInv
    BY FetchInvInit, VoteInvInit DEF FetchSpecInit, Init, ClosedInit
  <2>2. FetchSpecInit => \A b \in Backend : AsOpened(b)
    BY DEF FetchSpecInit, FetchInit, NoFetch, AsOpened
  <2> QED
    BY <2>1, <2>2 DEF AtomicInv
<1>2. AtomicInv /\ [Step]_<<vars, fetchVars>> => AtomicInv'
  BY AtomicSystem, AtomicFetch
<1>3. AtomicInv /\ [Step]_<<vars, fetchVars>> => [Whole]_<<vars, fetchVars>>
  BY ReadIsOpened
<1> QED
  BY <1>1, <1>2, <1>3, PTL DEF FetchSpec, FetchAtomic
=============================================================================
