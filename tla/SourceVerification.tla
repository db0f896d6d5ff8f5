------------------------- MODULE SourceVerification -------------------------
(***************************************************************************)
(* verify_source_file for one path of the inbox: the checks of the source  *)
(* archive, and the table source_verification that caches their outcome by *)
(* the file's size and modification time.                                  *)
(*                                                                         *)
(* discover and ingest both run it, and nothing keeps them apart; the file *)
(* and its .CHECKSUM sidecar may be replaced between any two steps, since  *)
(* each check opens the path anew.  A file is read within one step, or the *)
(* step raises: what is raised ends the command, except in the CRC check,  *)
(* which makes it an outcome like any other.                               *)
(***************************************************************************)
EXTENDS Naturals

CONSTANTS
  Processes,     \* the commands that may verify the file at the same time
  Contents,      \* what the file may be
  Damaged,       \* contents that fail the structural check
  WrongMarket,   \* contents with the columns of the other market
  Malformed,     \* contents with the columns of neither
  BadCrc,        \* contents that fail the CRC check
  Zip,           \* whether the path is a .zip; a .csv has no CRC to check
  Published,     \* bound: the contents whose hash a sidecar may hold
  MaxReplaced,   \* bound: how often the file is replaced
  NULL

ASSUME ContentsAssumption ==
  /\ Damaged \cup WrongMarket \cup Malformed \cup BadCrc \subseteq Contents
  /\ Published \subseteq Contents
  /\ Zip \in BOOLEAN
  /\ ~Zip => BadCrc = {}
  /\ NULL \notin Contents \cup {"match", "mismatch"}

ASSUME BoundAssumption == MaxReplaced \in Nat

VARIABLES
  content,   \* the file at the path; its SHA-256 stands for it
  stamp,     \* its size and modification time, new with every replacement
  sidecar,   \* the hash published in the .CHECKSUM file, NULL without one
  cache,     \* the row of source_verification for each stamp
  at,        \* where each process is in verify_source_file
  seen,      \* the stamp it was given by stat
  record,    \* the record it is building, and at "done" the one it returns
  raised     \* history: the stamps for which a CRC check raised an exception

vars == <<content, stamp, sidecar, cache, at, seen, record, raised>>

Sound == Contents \ (Damaged \cup WrongMarket \cup Malformed \cup BadCrc)

\* "corrupted" stands for "empty" and "unsupported_layout" as well.
Statuses == {"ok", "corrupted", "wrong_market"}

Record == [status : Statuses,
           sha    : Contents \cup {NULL},
           side   : {"match", "mismatch", NULL}]

ASSUME NullAssumption == NULL \notin Record

Stamps == 0 .. MaxReplaced

Fresh == [status |-> "ok", sha |-> NULL, side |-> NULL]

Steps == {"idle", "lookup", "structure", "market", "crc", "hash", "sidecar",
          "upsert", "done"}

TypeOK ==
  /\ content \in Contents
  /\ stamp \in Stamps
  /\ sidecar \in Published \cup {NULL}
  /\ cache \in [Stamps -> Record \cup {NULL}]
  /\ at \in [Processes -> Steps]
  /\ seen \in [Processes -> Stamps]
  /\ record \in [Processes -> Record]
  /\ raised \subseteq Stamps

Init ==
  /\ content \in Contents
  /\ stamp = 0
  /\ sidecar = NULL
  /\ cache = [s \in Stamps |-> NULL]
  /\ at = [p \in Processes |-> "idle"]
  /\ seen = [p \in Processes |-> 0]
  /\ record = [p \in Processes |-> Fresh]
  /\ raised = {}

----------------------------------------------------------------------------
Goto(p, step) == at' = [at EXCEPT ![p] = step]

\* path.stat(), once, before everything else.
Stat(p) ==
  /\ at[p] = "idle"
  /\ seen' = [seen EXCEPT ![p] = stamp]
  /\ Goto(p, "lookup")
  /\ UNCHANGED <<content, stamp, sidecar, cache, record, raised>>

\* A cached outcome is returned as it is.
Lookup(p) ==
  /\ at[p] = "lookup"
  /\ IF cache[seen[p]] # NULL
     THEN /\ record' = [record EXCEPT ![p] = cache[seen[p]]]
          /\ Goto(p, "done")
     ELSE Goto(p, "structure") /\ UNCHANGED record
  /\ UNCHANGED <<content, stamp, sidecar, cache, seen, raised>>

\* A check with one of these outcomes: without an "ok", the checks after it
\* are left out.
Check(p, step, outcomes, next) ==
  /\ at[p] = step
  /\ \E status \in outcomes :
       /\ record' = [record EXCEPT ![p].status = status]
       /\ Goto(p, IF status = "ok" THEN next ELSE "upsert")
  /\ UNCHANGED <<content, stamp, sidecar, cache, seen>>

StructuralCheck(p) ==
  /\ Check(p, "structure", {IF content \in Damaged THEN "corrupted" ELSE "ok"}, "market")
  /\ UNCHANGED raised

\* A damaged file that came after the structural check need not be noticed
\* here; where it raises, the command ends (Leave).
MarketIdentityCheck(p) ==
  /\ Check(p, "market",
           IF content \in WrongMarket THEN {"wrong_market"}
           ELSE IF content \in Malformed THEN {"corrupted"}
           ELSE IF content \in Damaged THEN {"corrupted", "ok"} ELSE {"ok"},
           "crc")
  /\ UNCHANGED raised

\* testzip finds a bad entry, or whatever goes wrong on opening and reading (a
\* lock, an I/O error, a file that is being replaced) is made "corrupted".
DeepCrcCheck(p) ==
  \/ /\ Check(p, "crc", {IF content \in BadCrc THEN "corrupted" ELSE "ok"}, "hash")
     /\ UNCHANGED raised
  \/ /\ Zip
     /\ Check(p, "crc", {"corrupted"}, "hash")
     /\ raised' = raised \cup {seen[p]}

ComputeSha256(p) ==
  /\ at[p] = "hash"
  /\ record' = [record EXCEPT ![p].sha = content]
  /\ Goto(p, "sidecar")
  /\ UNCHANGED <<content, stamp, sidecar, cache, seen, raised>>

\* MISTAKE: a file that does not match its sidecar is recorded without its hash.
CompareSidecarNoHash(p) ==
  /\ at[p] = "sidecar"
  /\ LET side == IF sidecar = NULL THEN NULL
                 ELSE IF sidecar = record[p].sha THEN "match" ELSE "mismatch"
     IN record' = [record EXCEPT
                     ![p].side = side,
                     ![p].sha = IF side = "mismatch" THEN NULL ELSE @,
                     ![p].status = IF side = "mismatch" THEN "corrupted" ELSE "ok"]
  /\ Goto(p, "upsert")
  /\ UNCHANGED <<content, stamp, sidecar, cache, seen, raised>>

\* verify_against_sidecar: nothing without a sidecar; a mismatch makes the
\* file corrupted.
CompareSidecar(p) ==
  /\ at[p] = "sidecar"
  /\ LET side == IF sidecar = NULL THEN NULL
                 ELSE IF sidecar = record[p].sha THEN "match" ELSE "mismatch"
     IN record' = [record EXCEPT
                     ![p].side = side,
                     ![p].status = IF side = "mismatch" THEN "corrupted" ELSE "ok"]
  /\ Goto(p, "upsert")
  /\ UNCHANGED <<content, stamp, sidecar, cache, seen, raised>>

\* MISTAKE: the file is asked for its stamp again when the outcome is there.
UpsertNow(p) ==
  /\ at[p] = "upsert"
  /\ cache' = [cache EXCEPT ![stamp] = record[p]]
  /\ Goto(p, "done")
  /\ UNCHANGED <<content, stamp, sidecar, seen, record, raised>>

\* The outcome is cached under the stamp that stat returned at the start.
Upsert(p) ==
  /\ at[p] = "upsert"
  /\ cache' = [cache EXCEPT ![seen[p]] = record[p]]
  /\ Goto(p, "done")
  /\ UNCHANGED <<content, stamp, sidecar, seen, record, raised>>

\* The caller has the record, or an exception or a crash ended the command
\* anywhere: its local variables are gone, the cache stays as it is.
Leave(p) ==
  /\ at[p] # "idle"
  /\ Goto(p, "idle")
  /\ seen' = [seen EXCEPT ![p] = 0]
  /\ record' = [record EXCEPT ![p] = Fresh]
  /\ UNCHANGED <<content, stamp, sidecar, cache, raised>>

----------------------------------------------------------------------------
\* Another file takes the path, later than the one before.
Replace(c) ==
  /\ stamp < MaxReplaced
  /\ stamp' = stamp + 1
  /\ content' = c
  /\ UNCHANGED <<sidecar, cache, at, seen, record, raised>>

\* A sidecar is placed, replaced or removed.
Publish(h) ==
  /\ sidecar # h
  /\ sidecar' = h
  /\ UNCHANGED <<content, stamp, cache, at, seen, record, raised>>

Verify(p) ==
  \/ Stat(p) \/ Lookup(p)
  \/ StructuralCheck(p) \/ MarketIdentityCheck(p) \/ DeepCrcCheck(p)
  \/ ComputeSha256(p) \/ CompareSidecar(p) \/ Upsert(p) \/ Leave(p)

Next == \/ \E p \in Processes : Verify(p)
        \/ \E c \in Contents : Replace(c)
        \/ \E h \in Published \cup {NULL} : Publish(h)

Spec == Init /\ [][Next]_vars

----------------------------------------------------------------------------
(* Safety *)

\* r is what the checks say of the present file; what it is rejected for, with
\* no hash, may be an exception in the CRC check.
Faithful(r) ==
  /\ r.sha # NULL => r.sha = content /\ content \in Sound
  /\ r.sha = NULL => content \notin Sound \/ stamp \in raised
  /\ r.status = "ok" <=> r.sha # NULL /\ r.side # "mismatch"

\* Whatever was cached for the present file describes it, and so does what a
\* process that found this file returns: no replacement in the middle of a
\* verification, by however many processes, leaves the outcome of one file
\* under the stamp of another that is still to be looked up.  "ok" is only said
\* of a sound file; a sound file is only rejected for its sidecar, or because a
\* CRC check of this very file raised (discovery.py:104), which then stays.
CacheIsFaithful ==
  /\ cache[stamp] # NULL => Faithful(cache[stamp])
  /\ \A p \in Processes :
       at[p] = "done" /\ seen[p] = stamp => Faithful(record[p])

\* The row of the present file is never lost, and no two hashes are recorded for
\* it, whichever process writes last.  A hash is recorded or withdrawn later
\* only where a CRC check of this file raised in one of two processes.
HashIsStable ==
  [][cache[stamp] # NULL =>
       /\ cache'[stamp] # NULL
       /\ LET hashes == {cache[stamp].sha, cache'[stamp].sha}
          IN hashes = {cache[stamp].sha} \/ (NULL \in hashes /\ stamp \in raised)]_vars

----------------------------------------------------------------------------
(* The inductive invariant: what a process that found the present file knows *)

Passed(p) ==
  LET r == record[p] IN
  /\ at[p] \in {"lookup", "structure"} => r = Fresh
  /\ at[p] = "market" => r = Fresh /\ content \notin Damaged
  /\ at[p] = "crc" => r = Fresh /\ content \notin Damaged \cup WrongMarket \cup Malformed
  /\ at[p] = "hash" => r = Fresh /\ content \in Sound
  /\ at[p] = "sidecar" => r = [Fresh EXCEPT !.sha = content] /\ content \in Sound
  /\ at[p] \in {"upsert", "done"} => Faithful(r)

IInv == /\ TypeOK
        /\ \A p \in Processes : seen[p] <= stamp /\ (at[p] = "idle" => record[p] = Fresh)
        /\ \A s \in Stamps : s > stamp => cache[s] = NULL
        /\ cache[stamp] # NULL => Faithful(cache[stamp])
        /\ \A p \in Processes : seen[p] = stamp => Passed(p)

----------------------------------------------------------------------------
(* What the documents say, and the code does not do *)

\* hashing.py and the README: a sidecar that is present next to the source is
\* verified.
PresentSidecarIsVerified ==
  [][\A p \in Processes :
       at[p] = "lookup" /\ at'[p] = "done" /\ record'[p].status = "ok" /\ sidecar # NULL
         => record'[p].side = "match"]_vars
=============================================================================
