------------------------------- MODULE AuditLog -------------------------------
(***************************************************************************)
(* The audit log and what persists of it (class AuditLog, src/src/audit.ts):*)
(* the entries in memory, the .jsonl file and the local sinks.  Several     *)
(* AuditLogs are constructed over one path, one after the other or, in      *)
(* different processes, at once.  Inside a process all is synchronous, but  *)
(* append is not atomic: it commits in memory, then writes the file, then   *)
(* calls each sink; a write may fail, the process may stop, and a sink may  *)
(* call append again before it returns.                                     *)
(***************************************************************************)
EXTENDS LedgerIntegrity, FiniteSets

CONSTANTS
    Sinks,          \* the number of sinks
    MaxEntries,     \* bound: entries of one log
    MaxLogs,        \* bound: AuditLogs constructed
    MaxAlive        \* bound: of them, at the same time

ASSUME AuditLogAssumption ==
    Sinks \in Nat /\ MaxEntries \in Nat /\ MaxLogs \in Nat \ {0} /\ MaxAlive \in Nat

Logs == 1 .. MaxLogs

VARIABLES
    status,     \* log -> "new", "checked" (the constructor found the path free), "open", "gone"
    replaces,   \* log -> it was constructed with overwrite: true
    entries,    \* log -> the entries committed
    stack,      \* log -> the appends in progress, innermost last
    failed,     \* log -> the seqs whose append threw CommittedAuditError
    file,       \* the lines of the file: entries, and lines that do not parse
    cut,        \* the last line has no newline yet
    received    \* log -> sink -> the seqs it was given, in order

auditVars == <<status, replaces, entries, stack, failed, file, cut, received>>

Garbled == [seq |-> -1, body |-> [chain |-> 0], prev |-> Genesis, hash |-> Genesis]

\* An append in progress: its entry, and where it has got to: 0 before the
\* file write, k inside the call of sink k.
Frame(seq) == [seq |-> seq, at |-> 0]
Busy(i) == stack[i] # <<>>
Top(i) == Last(stack[i])
EntryOf(i, seq) == entries[i][seq + 1]

-----------------------------------------------------------------------------
(* The constructor *)

Alive == {i \in Logs : status[i] \in {"checked", "open"}}

AuditInit ==
    /\ status = [i \in Logs |-> "new"]
    /\ replaces = [i \in Logs |-> FALSE]
    /\ entries = [i \in Logs |-> <<>>]
    /\ stack = [i \in Logs |-> <<>>]
    /\ failed = [i \in Logs |-> {}]
    /\ file = <<>>
    /\ cut = FALSE
    /\ received = [i \in Logs |-> [k \in 1 .. Sinks |-> <<>>]]

\* Mutant: only an overwrite is looked at, never the file.
FindWhatever(i, overwrite) ==
    /\ status[i] = "new" /\ \A j \in Logs : j < i => status[j] # "new"
    /\ Cardinality(Alive) < MaxAlive
    /\ status' = [status EXCEPT ![i] = "checked"]
    /\ replaces' = [replaces EXCEPT ![i] = overwrite]
    /\ UNCHANGED <<entries, stack, failed, file, cut, received>>

\* existsSync and statSync: a file with something in it is refused.
FindFree(i, overwrite) ==
    /\ status[i] = "new" /\ \A j \in Logs : j < i => status[j] # "new"
    /\ Cardinality(Alive) < MaxAlive
    /\ file = <<>> \/ overwrite
    /\ status' = [status EXCEPT ![i] = "checked"]
    /\ replaces' = [replaces EXCEPT ![i] = overwrite]
    /\ UNCHANGED <<entries, stack, failed, file, cut, received>>

\* writeFileSync(path, ""): a fresh log.
Truncate(i) ==
    /\ status[i] = "checked"
    /\ status' = [status EXCEPT ![i] = "open"]
    /\ file' = <<>>
    /\ cut' = FALSE
    /\ UNCHANGED <<replaces, entries, stack, failed, received>>

-----------------------------------------------------------------------------
(* append *)

\* Mutant: append does not wait for its file write.
CommitAhead(i) ==
    /\ status[i] = "open"
    /\ Len(entries[i]) < MaxEntries
    /\ entries' = [entries EXCEPT ![i] = AppendEntry(@, [chain |-> i])]
    /\ stack' = [stack EXCEPT ![i] = Append(@, Frame(Len(entries[i])))]
    /\ UNCHANGED <<status, replaces, failed, file, cut, received>>

\* The entry is chained and committed.  The caller is the application, or the
\* sink that is being called.
Commit(i) ==
    /\ status[i] = "open"
    /\ Busy(i) => Top(i).at > 0
    /\ Len(entries[i]) < MaxEntries
    /\ entries' = [entries EXCEPT ![i] = AppendEntry(@, [chain |-> i])]
    /\ stack' = [stack EXCEPT ![i] = Append(@, Frame(Len(entries[i])))]
    /\ UNCHANGED <<status, replaces, failed, file, cut, received>>

\* The next destination is called, or append returns.
GoOn(i, at) ==
    IF at < Sinks
    THEN /\ stack' = [stack EXCEPT ![i][Len(stack[i])].at = at + 1]
         /\ received' = [received EXCEPT ![i][at + 1] = Append(@, Top(i).seq)]
    ELSE /\ stack' = [stack EXCEPT ![i] = Front(@)]
         /\ UNCHANGED received

\* A line is written after what is there: one that was cut short swallows it.
Written(line) == IF cut THEN [file EXCEPT ![Len(file)] = Garbled] ELSE Append(file, line)

WriteFile(i) ==
    /\ status[i] = "open" /\ Busy(i) /\ Top(i).at = 0
    /\ file' = Written(EntryOf(i, Top(i).seq))
    /\ cut' = FALSE
    /\ GoOn(i, 0)
    /\ UNCHANGED <<status, replaces, entries, failed>>

\* Nothing, a part of the line, or all of it but its newline has got there.
WriteCutShort(i) ==
    \/ UNCHANGED <<file, cut>>
    \/ /\ \E line \in {Garbled, EntryOf(i, Top(i).seq)} : file' = Written(line)
       /\ cut' = TRUE

\* Mutant: the error names the seq that comes next.
ThrowNextSeq(i) ==
    /\ failed' = [failed EXCEPT ![i] = @ \cup {Len(entries[i])}]
    /\ stack' = [stack EXCEPT ![i] = Front(@)]

\* append throws CommittedAuditError: to the application, or to the sink that
\* called it.
Throw(i) ==
    /\ failed' = [failed EXCEPT ![i] = @ \cup {Top(i).seq}]
    /\ stack' = [stack EXCEPT ![i] = Front(@)]

\* Mutant: the error is swallowed.
FileFailsQuietly(i) ==
    /\ status[i] = "open" /\ Busy(i) /\ Top(i).at = 0
    /\ WriteCutShort(i)
    /\ GoOn(i, 0)
    /\ UNCHANGED <<status, replaces, entries, failed>>

\* Mutant: the sinks are called before the file is written.
FileFailsAfterSinks(i) ==
    /\ status[i] = "open" /\ Busy(i) /\ Top(i).at = 0
    /\ WriteCutShort(i)
    /\ Throw(i)
    /\ received' = [received EXCEPT ![i] = [k \in 1 .. Sinks |-> Append(@[k], Top(i).seq)]]
    /\ UNCHANGED <<status, replaces, entries>>

FileFails(i) ==
    /\ status[i] = "open" /\ Busy(i) /\ Top(i).at = 0
    /\ WriteCutShort(i)
    /\ Throw(i)
    /\ UNCHANGED <<status, replaces, entries, received>>

SinkReturns(i) ==
    /\ status[i] = "open" /\ Busy(i) /\ Top(i).at > 0
    /\ GoOn(i, Top(i).at)
    /\ UNCHANGED <<status, replaces, entries, failed, file, cut>>

SinkThrows(i) ==
    /\ status[i] = "open" /\ Busy(i) /\ Top(i).at > 0
    /\ Throw(i)
    /\ UNCHANGED <<status, replaces, entries, file, cut, received>>

\* The process ends, or drops the log, at any point; what is in memory is
\* kept here to compare the file with.
Stop(i) ==
    /\ i \in Alive
    /\ status' = [status EXCEPT ![i] = "gone"]
    /\ stack' = [stack EXCEPT ![i] = <<>>]
    /\ IF Busy(i) /\ Top(i).at = 0 THEN WriteCutShort(i) ELSE UNCHANGED <<file, cut>>
    /\ UNCHANGED <<replaces, entries, failed, received>>

AuditNext ==
    \E i \in Logs :
        \/ \E overwrite \in BOOLEAN : FindFree(i, overwrite)
        \/ Truncate(i)
        \/ Commit(i)
        \/ WriteFile(i) \/ FileFails(i)
        \/ SinkReturns(i) \/ SinkThrows(i)
        \/ Stop(i)

AuditSpec == AuditInit /\ [][AuditNext]_auditVars
-----------------------------------------------------------------------------
(* Properties *)

OnFile(i) == {file[k].seq : k \in {l \in DOMAIN file : file[l].body = [chain |-> i]}}
InProgress(i) == {stack[i][k].seq : k \in {l \in DOMAIN stack[i] : stack[i][l].at = 0}}
Committed(i) == {entries[i][k].seq : k \in DOMAIN entries[i]}
Missing(i) == Committed(i) \ (OnFile(i) \cup InProgress(i) \cup failed[i])

\* Every frame is of a committed entry, an outer append is inside a sink while
\* an inner one runs, and a cut line is the last of a file that has one.
AuditTypeOK ==
    /\ \A i \in Logs : status[i] \in {"new", "checked", "open", "gone"}
    /\ \A i \in Logs : Busy(i) => status[i] = "open"
    /\ \A i \in Logs : \A k \in DOMAIN stack[i] :
          /\ stack[i][k].seq \in Committed(i)
          /\ stack[i][k].at \in 0 .. Sinks
          /\ k < Len(stack[i]) =>
                stack[i][k].at > 0 /\ stack[i][k].seq < stack[i][k + 1].seq
    /\ \A i \in Logs : failed[i] \subseteq Committed(i)
    /\ cut => file # <<>>

\* Whatever fails and wherever a process stops: a file that reads back and
\* verifies is a prefix of what one log committed.  Entries may be missing at
\* its end, never in the middle, and never replaced by others of that number.
VerifyingFileIsCommittedPrefix ==
    (\A k \in DOMAIN file : file[k] # Garbled) /\ ChainVerifies(file) =>
        \E i \in Logs : IsPrefix(file, entries[i])

\* While the log is open, an entry that is not on file was reported: its own
\* append threw, or the one before it did, whose line was cut and swallowed it.
LossFollowsFailure ==
    \A i \in Logs : status[i] = "open" =>
        \A seq \in Missing(i) : seq - 1 \in failed[i]

\* The lines of a file are in commit order, though appends nest: the file is
\* written before any sink can append again.
FileInCommitOrder ==
    \A k, l \in DOMAIN file :
        k < l /\ file[k].body = file[l].body /\ file[k] # Garbled => file[k].seq < file[l].seq

\* A sink is never ahead of the file or of the sink before it: an entry that
\* it was given is on the file, and was given to each sink before.  The one
\* exception on file is a line that was written after one cut short, and
\* swallowed by it: then the append of the entry before threw, and that is
\* not on file either.
SinksFollowFile ==
    \A i \in Logs : status[i] = "open" =>
        \A k \in 1 .. Sinks : \A seq \in ToSet(received[i][k]) :
            /\ seq \in OnFile(i) \/ seq - 1 \in failed[i] \ OnFile(i)
            /\ k > 1 => seq \in ToSet(received[i][k - 1])

\* A file with something in it is emptied only by a log constructed to.
NeverSilentlyTruncated ==
    [][file # <<>> /\ file' = <<>> =>
          \E i \in Logs : replaces[i] /\ status[i] = "checked" /\ status'[i] = "open"]_auditVars

\* audit.ts says that each event is appended as one JSON line: what was
\* committed, and whose append did not throw, is a line of the file.
EachEventIsOneLine == \A i \in Logs : status[i] = "open" => Missing(i) = {}
=============================================================================
