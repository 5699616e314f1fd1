----------------------------- MODULE StoreFetch -----------------------------
(***************************************************************************)
(* Readers: Fetch at a store, from the client's call to its return, beside *)
(* the whole system.  Fetch takes no lock: it opens the file, asks for its *)
(* size and reads that much, while calls for the same path are prepared    *)
(* and committed.  One client reads at each store, again and again.        *)
(***************************************************************************)
EXTENDS TwoPCStore

CONSTANT Garbage  \* what malloc left in the part of the buffer that read() did not fill

ASSUME FetchAssumption == Garbage \notin Store \cup {None}

VARIABLES
  fetch,  \* fetch[b]: the Fetch handler that runs at b
  got     \* got[b]: the buffer that the client's last call to b returned

fetchVars == <<fetch, got>>

\* at: "idle", "open" after open(), "stat" after fstat(), with the inode, the size it gave,
\* and, as a ghost, what the file held when it was opened.
NoFetch == [at |-> "idle", inode |-> None, size |-> 0, opened |-> <<>>]

FetchInit ==
  /\ fetch = [b \in Backend |-> NoFetch]
  /\ got = [b \in Backend |-> <<>>]

\* BackendClient::Fetch returns 0 with reply.buf whatever reply.error is.
ClientReturns(b, buf) ==
  /\ got' = [got EXCEPT ![b] = buf]
  /\ fetch' = [fetch EXCEPT ![b] = NoFetch]

\* A missing file is answered with error -1 and no buffer.
FetchMissing(b, p) ==
  /\ mem[b].status = "up"
  /\ fetch[b].at = "idle"
  /\ disk[b].file[p] = None
  /\ ClientReturns(b, <<>>)

\* The open file outlives a rename or unlink of its path.
FetchOpen(b, p) ==
  /\ mem[b].status = "up"
  /\ fetch[b].at = "idle"
  /\ disk[b].file[p] # None
  /\ fetch' = [fetch EXCEPT ![b] = [at |-> "open", inode |-> disk[b].file[p], size |-> 0,
                                   opened |-> Content(b, p)]]
  /\ UNCHANGED got

FetchStat(b) ==
  /\ fetch[b].at = "open"
  /\ fetch' = [fetch EXCEPT ![b].at = "stat", ![b].size = Len(disk[b].data[fetch[b].inode])]
  /\ UNCHANGED got

\* The answer has the size that fstat gave.
FetchRead(b) ==
  /\ fetch[b].at = "stat"
  /\ LET data == disk[b].data[fetch[b].inode]
     IN ClientReturns(b, [i \in 1..fetch[b].size |-> IF i <= Len(data) THEN data[i] ELSE Garbage])

FetchNext ==
  \E b \in Backend :
    \/ \E p \in Path : FetchMissing(b, p) \/ FetchOpen(b, p)
    \/ FetchStat(b)
    \/ FetchRead(b)

\* A call that the process of the store does not survive fails; the client returns -1.
FetchCut ==
  /\ fetch' = [b \in Backend |-> IF mem'[b].status = "off" THEN NoFetch ELSE fetch[b]]
  /\ UNCHANGED got

FetchSpecInit == Init /\ FetchInit

FetchSpec ==
  /\ FetchSpecInit
  /\ [][(Next /\ FetchCut) \/ (FetchNext /\ UNCHANGED vars)]_<<vars, fetchVars>>

-----------------------------------------------------------------------------
(***************************************************************************)
(* What a client fetched was committed when it got it, and is no garbage,  *)
(* although nothing keeps a Prepare or Commit for the path from running    *)
(* between the open, the fstat and the read.                               *)
(***************************************************************************)
FetchedCommitted ==
  \A b \in Backend : \A i \in DOMAIN got[b] : got[b][i] \in Store /\ TidOf[got[b][i]] \in log

(***************************************************************************)
(* A Fetch reads the file as it was at its open, whatever is committed     *)
(* before it reads: a stored file is replaced, never written in place.  It *)
(* takes that no Commit overtakes its Prepare, which would go on writing   *)
(* to the file after the rename.                                           *)
(***************************************************************************)
FetchAtomic ==
  [][\A b \in Backend :
       NoVoteMissed /\ FetchRead(b) => got'[b] = fetch[b].opened]_<<vars, fetchVars>>
=============================================================================
