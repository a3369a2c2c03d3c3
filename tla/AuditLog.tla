------------------------------ MODULE AuditLog -------------------------------
(***************************************************************************)
(* The append-only audit log (ortim/audit/logger.py, verify.py).  Every    *)
(* ortim process has a logger that reads the hash of the last record once, *)
(* at its first event, and keeps the hash of its own last record from then *)
(* on.  The hash of a record does not cover its prev_hash, so the number   *)
(* of an event stands for its hash; GENESIS_HASH is 0.                     *)
(*                                                                         *)
(* A process that is killed while it writes can leave a line torn and      *)
(* without its newline; the next append then lands on the same line, which *)
(* stays invalid.  What git does to the file is in AuditRepo.              *)
(***************************************************************************)
EXTENDS Integers, Sequences

CONSTANTS Writers,
          NoProcess,   \* no hash: no process, or none that has logged
          MaxEvents,   \* bound on the events logged
          Overlap,     \* whether two processes may log at the same time
          Tears        \* what a killed write can leave: see Tear

ASSUME OverlapAssumption == Overlap \in BOOLEAN
ASSUME TearsAssumption   == Tears \subseteq {"part", "no newline"}

VARIABLES lines,    \* the file
          open,     \* whether its last line lacks the newline
          cache,    \* _last_hash of each process
          count,    \* events so far
          logged    \* those whose call of log has returned

audit == <<lines, open, cache, count, logged>>

Genesis == 0
Torn == [id |-> -1, prev |-> -1]
IsRecord(line) == line # Torn

\* What a reader that skips invalid lines sees
RecordsOf(file) ==
    LET upTo[n \in 0..Len(file)] ==
            IF n = 0 THEN << >>
            ELSE IF IsRecord(file[n]) THEN Append(upTo[n - 1], file[n]) ELSE upTo[n - 1]
    IN  upTo[Len(file)]
Records == RecordsOf(lines)
Id(k) == Records[k].id

AuditInit ==
    /\ lines = << >>
    /\ open = FALSE
    /\ cache = [w \in Writers |-> NoProcess]
    /\ count = 0
    /\ logged = {}

Alone(w) == cache[w] = NoProcess /\ (Overlap \/ \A v \in Writers : cache[v] = NoProcess)

\* _load_last_hash, at the first event of a process: the most recent valid record wins
LoadLastHash(w) ==
    /\ Alone(w)
    /\ cache' = [cache EXCEPT ![w] = IF Records = << >> THEN Genesis ELSE Id(Len(Records))]
    /\ UNCHANGED <<lines, open, count, logged>>

Put(line) ==
    lines' = IF open THEN [lines EXCEPT ![Len(lines)] = Torn] ELSE Append(lines, line)

NextRecord(w) == [id |-> count + 1, prev |-> cache[w]]

CanLog(w) == cache[w] # NoProcess /\ count < MaxEvents

LogKeepingHash(w) ==
    /\ CanLog(w)
    /\ Put(NextRecord(w))
    /\ open' = FALSE
    /\ count' = count + 1
    /\ logged' = logged \union {count'}
    /\ UNCHANGED cache

Log(w) ==
    /\ CanLog(w)
    /\ Put(NextRecord(w))
    /\ open' = FALSE
    /\ cache' = [cache EXCEPT ![w] = count + 1]
    /\ count' = count + 1
    /\ logged' = logged \union {count'}

\* Killed in the write: a part of the record is in the file, or all but its newline
Tear(w, what) ==
    /\ CanLog(w)
    /\ Put(IF what = "part" THEN Torn ELSE NextRecord(w))
    /\ open' = TRUE
    /\ cache' = [cache EXCEPT ![w] = NoProcess]
    /\ count' = count + 1
    /\ UNCHANGED logged

\* The command ends, or is killed between two events
End(w) ==
    /\ cache[w] # NoProcess
    /\ cache' = [cache EXCEPT ![w] = NoProcess]
    /\ UNCHANGED <<lines, open, count, logged>>

\* The steps that write, or are about to
LogStep(w) ==
    \/ LoadLastHash(w) \/ Log(w)
    \/ \E what \in Tears : Tear(w, what)

\* Every line is a record that names the one before it.
ChainOf(file) ==
    \A k \in 1..Len(file) :
        /\ IsRecord(file[k])
        /\ file[k].prev = (IF k = 1 THEN Genesis ELSE file[k - 1].id)

VerifyChainLeniently ==
    \A k \in 1..Len(Records) :
        Records[k].prev = (IF k = 1 THEN Genesis ELSE Id(k - 1))

VerifyChain == ChainOf(lines)
==============================================================================
