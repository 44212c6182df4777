---------------------------- MODULE AuditLogProofs ----------------------------
(***************************************************************************)
(* The audit log, for any number of logs, sinks and entries, and whatever  *)
(* fails: what a file that verifies holds, the order of its lines and of   *)
(* what the sinks receive; and, while one log at a time is over a path,    *)
(* that no loss goes unreported, no file is emptied unasked and no sink is *)
(* ahead of the file.                                                      *)
(***************************************************************************)
EXTENDS AuditLog, FiniteSetTheorems, TLAPS

-----------------------------------------------------------------------------
(* Shapes *)

FrameType == [seq : Nat, at : 0 .. Sinks]

Shapes ==
    /\ status \in [Logs -> {"new", "checked", "open", "gone"}]
    /\ replaces \in [Logs -> BOOLEAN]
    /\ stack \in [Logs -> Seq(FrameType)]
    /\ failed \in [Logs -> SUBSET Nat]
    /\ received \in [Logs -> [1 .. Sinks -> Seq(Nat)]]
    /\ \E U : entries \in [Logs -> Seq(U)] /\ file \in Seq(U)
    /\ cut \in BOOLEAN
    /\ cut => file # <<>>
    /\ \A i \in Logs : \A k \in DOMAIN stack[i] : stack[i][k].seq < Len(entries[i])

\* An append is at its file write.
Writing(i) == Busy(i) /\ Top(i).at = 0

\* One value of a function replaced.
LEMMA ExceptFacts ==
    ASSUME NEW S, NEW R, NEW f \in [S -> R], NEW i \in S, NEW v \in R
    PROVE  /\ [f EXCEPT ![i] = v] \in [S -> R]
           /\ [f EXCEPT ![i] = v][i] = v
           /\ \A j \in S \ {i} : [f EXCEPT ![i] = v][j] = f[j]
  OBVIOUS

\* A sequence without its last element, and with another in its place.
LEMMA FrontFacts ==
    ASSUME NEW T, NEW s \in Seq(T), s # <<>>
    PROVE  /\ Len(s) \in Nat \ {0} /\ Last(s) = s[Len(s)] /\ Last(s) \in T
           /\ Front(s) \in Seq(T) /\ Len(Front(s)) = Len(s) - 1
           /\ \A k \in 1 .. Len(s) - 1 : Front(s)[k] = s[k]
<1>1. Len(s) \in Nat \ {0}
  OBVIOUS
<1>2. Last(s) = s[Len(s)] /\ Last(s) \in T
  BY <1>1 DEF Last
<1>3. PICK n : n = Len(s)
  OBVIOUS
<1>4. /\ SubSeq(s, 1, n - 1) \in Seq(T) /\ Len(SubSeq(s, 1, n - 1)) = n - 1
      /\ \A k \in 1 .. n - 1 : SubSeq(s, 1, n - 1)[k] = s[k]
  BY <1>1, <1>3
<1> QED
  BY <1>1, <1>2, <1>3, <1>4 DEF Front

\* The last element, if there is one.
LEMMA LastFacts ==
    ASSUME NEW T, NEW s \in Seq(T)
    PROVE  /\ Len(s) \in Nat /\ (s = <<>> <=> Len(s) = 0)
           /\ s # <<>> => Last(s) = s[Len(s)]
<1>1. Len(s) \in Nat /\ (s = <<>> <=> Len(s) = 0)
  OBVIOUS
<1>2. ASSUME s # <<>> PROVE Last(s) = s[Len(s)]
  BY <1>2, FrontFacts
<1> QED
  BY <1>1, <1>2

\* One more element.
LEMMA AppendFacts ==
    ASSUME NEW T, NEW s \in Seq(T), NEW x
    PROVE  /\ \A U : T \subseteq U /\ x \in U => Append(s, x) \in Seq(U)
           /\ Len(Append(s, x)) = Len(s) + 1 /\ Len(s) \in Nat
           /\ Append(s, x)[Len(s) + 1] = x
           /\ \A k \in 1 .. Len(s) : Append(s, x)[k] = s[k]
<1>1. ASSUME NEW U, T \subseteq U, x \in U PROVE Append(s, x) \in Seq(U)
  <2>1. s \in Seq(U)
    BY <1>1
  <2> QED
    BY <1>1, <2>1
<1> QED
  BY <1>1

-----------------------------------------------------------------------------
(* The steps, by what they do to one log and to the file *)

\* The other logs are left alone.
Rest(i) ==
    \A j \in Logs \ {i} :
        /\ status'[j] = status[j] /\ replaces'[j] = replaces[j]
        /\ entries'[j] = entries[j] /\ stack'[j] = stack[j]
        /\ failed'[j] = failed[j] /\ received'[j] = received[j]

\* What is put on the file: after what is there, or into the line that was cut.
Adds(line) ==
    /\ Len(file') = Len(file) + 1 /\ file'[Len(file) + 1] = line
    /\ \A k \in 1 .. Len(file) : file'[k] = file[k]
Swallows ==
    /\ Len(file') = Len(file) /\ Len(file) > 0 /\ file'[Len(file)] = Garbled
    /\ \A k \in 1 .. Len(file) - 1 : file'[k] = file[k]
Puts(line) == IF cut THEN Swallows ELSE Adds(line)
CutsShort(i) ==
    \/ UNCHANGED <<file, cut>>
    \/ cut' = TRUE /\ (Puts(Garbled) \/ Puts(EntryOf(i, Top(i).seq)))

Found(i) ==
    /\ status[i] = "new" /\ status'[i] = "checked"
    /\ file = <<>> \/ replaces'[i]
    /\ Cardinality(Alive) < MaxAlive
    /\ entries'[i] = entries[i] /\ stack'[i] = stack[i] /\ failed'[i] = failed[i]
    /\ received'[i] = received[i] /\ UNCHANGED <<file, cut>>
Opened(i) ==
    /\ status[i] = "checked" /\ status'[i] = "open" /\ replaces'[i] = replaces[i]
    /\ entries'[i] = entries[i] /\ stack'[i] = stack[i] /\ failed'[i] = failed[i]
    /\ received'[i] = received[i] /\ file' = <<>> /\ cut' = FALSE
Commits(i) ==
    /\ status[i] = "open" /\ status'[i] = "open" /\ replaces'[i] = replaces[i]
    /\ Busy(i) => Top(i).at > 0
    /\ Len(entries'[i]) = Len(entries[i]) + 1
    /\ \A k \in 1 .. Len(entries[i]) : entries'[i][k] = entries[i][k]
    /\ entries'[i][Len(entries[i]) + 1] = Sealed(Len(entries[i]), [chain |-> i], HeadHash(entries[i]))
    /\ Len(stack'[i]) = Len(stack[i]) + 1 /\ stack'[i][Len(stack[i]) + 1] = Frame(Len(entries[i]))
    /\ \A k \in 1 .. Len(stack[i]) : stack'[i][k] = stack[i][k]
    /\ failed'[i] = failed[i] /\ received'[i] = received[i] /\ UNCHANGED <<file, cut>>

\* The innermost append goes on to a sink, or is over.
MovesTo(i, at) ==
    /\ Len(stack'[i]) = Len(stack[i]) /\ stack'[i][Len(stack[i])] = [seq |-> Top(i).seq, at |-> at]
    /\ \A k \in 1 .. Len(stack[i]) - 1 : stack'[i][k] = stack[i][k]
Pops(i) ==
    /\ Len(stack'[i]) = Len(stack[i]) - 1
    /\ \A k \in 1 .. Len(stack[i]) - 1 : stack'[i][k] = stack[i][k]
GoesOn(i, at) ==
    \/ /\ at < Sinks /\ MovesTo(i, at + 1)
       /\ \A k \in 1 .. Sinks :
             received'[i][k] = IF k = at + 1 THEN Append(received[i][k], Top(i).seq) ELSE received[i][k]
    \/ at = Sinks /\ Pops(i) /\ received'[i] = received[i]
IsOpen(i) ==
    /\ status[i] = "open" /\ status'[i] = "open" /\ replaces'[i] = replaces[i]
    /\ entries'[i] = entries[i] /\ Busy(i)

Writes(i) ==
    /\ IsOpen(i) /\ Writing(i) /\ Puts(EntryOf(i, Top(i).seq)) /\ cut' = FALSE
    /\ GoesOn(i, 0) /\ failed'[i] = failed[i]
Throws(i) ==
    /\ IsOpen(i) /\ Pops(i) /\ failed'[i] = failed[i] \cup {Top(i).seq} /\ received'[i] = received[i]
    /\ IF Writing(i) THEN CutsShort(i) ELSE UNCHANGED <<file, cut>>
Returns(i) ==
    /\ IsOpen(i) /\ ~Writing(i) /\ GoesOn(i, Top(i).at) /\ failed'[i] = failed[i] /\ UNCHANGED <<file, cut>>
Stops(i) ==
    /\ status[i] \in {"checked", "open"} /\ status'[i] = "gone" /\ stack'[i] = <<>> /\ replaces'[i] = replaces[i]
    /\ entries'[i] = entries[i] /\ failed'[i] = failed[i] /\ received'[i] = received[i]
    /\ IF Writing(i) THEN CutsShort(i) ELSE UNCHANGED <<file, cut>>

Moves(i) ==
    \/ Found(i) \/ Opened(i) \/ Commits(i)
    \/ Writes(i) \/ Throws(i) \/ Returns(i) \/ Stops(i)

AuditMove == UNCHANGED auditVars \/ \E i \in Logs : Rest(i) /\ Moves(i)

\* What is known of the innermost append.
LEMMA TopFacts ==
    ASSUME Shapes, NEW i \in Logs, Busy(i)
    PROVE  /\ stack[i] \in Seq(FrameType) /\ Len(stack[i]) \in Nat \ {0}
           /\ Top(i) = stack[i][Len(stack[i])]
           /\ Top(i).seq \in Nat /\ Top(i).at \in 0 .. Sinks
           /\ Top(i).seq < Len(entries[i])
<1>1. stack[i] \in Seq(FrameType) /\ stack[i] # <<>>
  BY DEF Shapes, Busy
<1>2. Len(stack[i]) \in Nat \ {0} /\ Top(i) = stack[i][Len(stack[i])] /\ Top(i) \in FrameType
  BY <1>1, FrontFacts DEF Top
<1>3. Len(stack[i]) \in DOMAIN stack[i]
  BY <1>1, <1>2
<1> QED
  BY <1>1, <1>2, <1>3 DEF FrameType, Shapes

\* A line that is written.
LEMMA WrittenPuts ==
    ASSUME NEW U, file \in Seq(U), cut => file # <<>>, NEW line, file' = Written(line)
    PROVE  /\ Puts(line)
           /\ file' \in Seq(U \cup {line, Garbled}) /\ file' # <<>>
<1>1. CASE cut
  <2>1. PICK n : n = Len(file)
    OBVIOUS
  <2>2. n \in Nat \ {0} /\ file' = [file EXCEPT ![n] = Garbled]
    BY <1>1, <2>1 DEF Written
  <2>3. PICK V : V = U \cup {line, Garbled}
    OBVIOUS
  <2>4. file \in Seq(V) /\ Garbled \in V
    BY <2>3
  <2>5. /\ file' \in Seq(V) /\ Len(file') = n /\ file'[n] = Garbled
        /\ \A k \in 1 .. n - 1 : file'[k] = file[k]
    BY <2>1, <2>2, <2>4
  <2> QED
    BY <1>1, <2>1, <2>2, <2>3, <2>5 DEF Puts, Swallows
<1>2. CASE ~cut
  <2>1. file' = Append(file, line)
    BY <1>2 DEF Written
  <2>2. Adds(line) /\ file' \in Seq(U \cup {line, Garbled}) /\ Len(file') # 0
    BY <2>1, AppendFacts DEF Adds
  <2> QED
    BY <1>2, <2>2 DEF Puts
<1> QED
  BY <1>1, <1>2

\* A write that fails, or that the process does not survive.
LEMMA ShortCuts ==
    ASSUME Shapes, NEW i \in Logs, Busy(i), WriteCutShort(i)
    PROVE  /\ CutsShort(i) /\ cut' \in BOOLEAN /\ (cut' => file' # <<>>)
           /\ \E U : entries \in [Logs -> Seq(U)] /\ file' \in Seq(U)
<1>1. PICK U : entries \in [Logs -> Seq(U)] /\ file \in Seq(U) /\ cut \in BOOLEAN /\ (cut => file # <<>>)
  BY DEF Shapes
<1>2. CASE UNCHANGED <<file, cut>>
  BY <1>1, <1>2 DEF CutsShort
<1>3. ASSUME NEW line \in {Garbled, EntryOf(i, Top(i).seq)}, file' = Written(line), cut' = TRUE
      PROVE  /\ CutsShort(i) /\ cut' \in BOOLEAN /\ (cut' => file' # <<>>)
             /\ \E V : entries \in [Logs -> Seq(V)] /\ file' \in Seq(V)
  <2>1. Puts(line) /\ file' # <<>> /\ file' \in Seq(U \cup {line, Garbled})
    BY <1>1, <1>3, WrittenPuts
  <2>2. PICK V : V = U \cup {line, Garbled}
    OBVIOUS
  <2>3. entries \in [Logs -> Seq(V)]
    <3>1. \A j \in Logs : entries[j] \in Seq(V)
      BY <1>1, <2>2
    <3> QED
      BY <1>1, <3>1
  <2> QED
    BY <1>3, <2>1, <2>2, <2>3 DEF CutsShort
<1> QED
  BY <1>2, <1>3 DEF WriteCutShort

\* The constructor finds the path free, or may replace what is there.
LEMMA FindSteps ==
    ASSUME Shapes, NEW i \in Logs, NEW overwrite \in BOOLEAN, FindFree(i, overwrite)
    PROVE  Shapes' /\ Rest(i) /\ Found(i)
<1>1. status' = [status EXCEPT ![i] = "checked"] /\ replaces' = [replaces EXCEPT ![i] = overwrite]
  BY DEF FindFree
<1>2. UNCHANGED <<entries, stack, failed, file, cut, received>>
  BY DEF FindFree
<1>3. status' \in [Logs -> {"new", "checked", "open", "gone"}] /\ status'[i] = "checked"
      /\ \A j \in Logs \ {i} : status'[j] = status[j]
  BY <1>1 DEF Shapes
<1>4. replaces' \in [Logs -> BOOLEAN] /\ (replaces'[i] <=> overwrite)
      /\ \A j \in Logs \ {i} : replaces'[j] = replaces[j]
  BY <1>1 DEF Shapes
<1>5. Shapes'
  BY <1>2, <1>3, <1>4 DEF Shapes
<1> QED
  BY <1>2, <1>3, <1>4, <1>5 DEF Rest, Found, FindFree

\* The file is emptied, and the log is open.
LEMMA TruncateSteps ==
    ASSUME Shapes, NEW i \in Logs, Truncate(i)
    PROVE  Shapes' /\ Rest(i) /\ Opened(i)
<1>1. status' = [status EXCEPT ![i] = "open"] /\ file' = <<>> /\ cut' = FALSE
      /\ UNCHANGED <<replaces, entries, failed, stack, received>>
  BY DEF Truncate
<1>2. status' \in [Logs -> {"new", "checked", "open", "gone"}] /\ status'[i] = "open"
      /\ \A j \in Logs \ {i} : status'[j] = status[j]
  BY <1>1 DEF Shapes
<1>3. \E U : entries' \in [Logs -> Seq(U)] /\ file' \in Seq(U)
  BY <1>1 DEF Shapes
<1>4. Shapes'
  BY <1>1, <1>2, <1>3 DEF Shapes
<1> QED
  BY <1>1, <1>2, <1>4 DEF Rest, Opened, Truncate

\* An entry is committed.
LEMMA CommitSteps ==
    ASSUME Shapes, NEW i \in Logs, Commit(i)
    PROVE  Shapes' /\ Rest(i) /\ Commits(i)
<1>1. PICK U : entries \in [Logs -> Seq(U)] /\ file \in Seq(U)
  BY DEF Shapes
<1>2. PICK n : n = Len(entries[i])
  OBVIOUS
<1>3. n \in Nat
  BY <1>1, <1>2
<1>4. PICK e : e = Sealed(n, [chain |-> i], HeadHash(entries[i]))
  OBVIOUS
<1>5. PICK V : V = U \cup {e}
  OBVIOUS
<1>6. entries' = [entries EXCEPT ![i] = Append(entries[i], e)]
  BY <1>2, <1>4 DEF Commit, AppendEntry
<1>7. entries \in [Logs -> Seq(V)] /\ file \in Seq(V) /\ Append(entries[i], e) \in Seq(V)
  <2>1. \A j \in Logs : entries[j] \in Seq(V)
    BY <1>1, <1>5
  <2>2. entries \in [Logs -> Seq(V)]
    BY <1>1, <2>1
  <2> QED
    BY <1>1, <1>5, <2>1, <2>2
<1>8. entries' \in [Logs -> Seq(V)] /\ entries'[i] = Append(entries[i], e)
      /\ \A j \in Logs \ {i} : entries'[j] = entries[j]
  BY <1>6, <1>7, ExceptFacts
<1>9. /\ Len(entries'[i]) = n + 1 /\ entries'[i][n + 1] = e
      /\ \A k \in 1 .. n : entries'[i][k] = entries[i][k]
  BY <1>1, <1>2, <1>8, AppendFacts
<1>10. Frame(n) \in FrameType /\ Frame(n).seq = n
  BY <1>3, AuditLogAssumption DEF Frame, FrameType
<1>11. stack \in [Logs -> Seq(FrameType)]
  BY DEF Shapes
<1>12. stack' = [stack EXCEPT ![i] = Append(stack[i], Frame(n))]
  BY <1>2 DEF Commit
<1>13. Append(stack[i], Frame(n)) \in Seq(FrameType)
  BY <1>10, <1>11
<1>14. stack' \in [Logs -> Seq(FrameType)] /\ stack'[i] = Append(stack[i], Frame(n))
       /\ \A j \in Logs \ {i} : stack'[j] = stack[j]
  BY <1>11, <1>12, <1>13, ExceptFacts
<1>15. /\ Len(stack'[i]) = Len(stack[i]) + 1 /\ stack'[i][Len(stack[i]) + 1] = Frame(n)
       /\ \A k \in 1 .. Len(stack[i]) : stack'[i][k] = stack[i][k]
  BY <1>11, <1>14, AppendFacts
<1>16. UNCHANGED <<status, replaces, failed, file, cut, received>>
  BY DEF Commit
<1>17. \A j \in Logs : \A k \in DOMAIN stack'[j] : stack'[j][k].seq < Len(entries'[j])
  <2>1. TAKE j \in Logs
  <2>2. TAKE k \in DOMAIN stack'[j]
  <2>3. CASE j # i
    BY <1>8, <1>14, <2>3 DEF Shapes
  <2>4. CASE j = i
    <3>1. Len(stack[i]) \in Nat /\ k \in 1 .. Len(stack[i]) + 1
      BY <1>11, <1>13, <1>14, <1>15, <2>4
    <3>2. CASE k = Len(stack[i]) + 1
      BY <1>3, <1>9, <1>10, <1>15, <2>4, <3>2
    <3>3. CASE k \in 1 .. Len(stack[i])
      <4>1. k \in DOMAIN stack[i] /\ stack[i][k] \in FrameType
        BY <1>11, <3>3
      <4>2. stack[i][k].seq < n
        BY <1>2, <4>1 DEF Shapes
      <4> QED
        BY <1>3, <1>9, <1>15, <2>4, <3>3, <4>1, <4>2 DEF FrameType
    <3> QED
      BY <3>1, <3>2, <3>3
  <2> QED
    BY <2>3, <2>4
<1>18. Shapes'
  <2>1. \E W : entries' \in [Logs -> Seq(W)] /\ file' \in Seq(W)
    BY <1>7, <1>8, <1>16
  <2> QED
    BY <1>14, <1>16, <1>17, <2>1 DEF Shapes
<1>19. Rest(i)
  BY <1>8, <1>14, <1>16 DEF Rest
<1>20. Commits(i)
  BY <1>2, <1>4, <1>9, <1>15, <1>16 DEF Commits, Commit
<1> QED
  BY <1>18, <1>19, <1>20

\* A frame whose append got further.
LEMMA FrameAt ==
    ASSUME NEW f \in FrameType, NEW at, at \in 0 .. Sinks
    PROVE  /\ [f EXCEPT !.at = at] = [seq |-> f.seq, at |-> at]
           /\ [seq |-> f.seq, at |-> at] \in FrameType
<1>1. f = [seq |-> f.seq, at |-> f.at] /\ f.seq \in Nat
  BY DEF FrameType
<1>2. [f EXCEPT !.at = at] = [seq |-> f.seq, at |-> at]
  BY <1>1
<1>3. [seq |-> f.seq, at |-> at] \in FrameType
  BY <1>1 DEF FrameType
<1> QED
  BY <1>2, <1>3

\* Of a sequence of frames that lost its last one.
LEMMA FewerFrames ==
    ASSUME NEW s \in Seq(FrameType), s # <<>>, NEW t \in Seq(FrameType), NEW b,
           Len(t) = Len(s) - 1, \A k \in 1 .. Len(s) - 1 : t[k] = s[k],
           \A k \in DOMAIN s : s[k].seq < b
    PROVE  \A k \in DOMAIN t : t[k].seq < b
<1>1. TAKE k \in DOMAIN t
<1>2. Len(s) \in Nat \ {0} /\ k \in 1 .. Len(s) - 1 /\ DOMAIN s = 1 .. Len(s)
  OBVIOUS
<1>3. k \in DOMAIN s /\ t[k] = s[k]
  BY <1>2
<1> QED
  BY <1>3

\* The innermost append goes on.
LEMMA GoOnSteps ==
    ASSUME Shapes, NEW i \in Logs, Busy(i), NEW at, at = Top(i).at, GoOn(i, at)
    PROVE  /\ GoesOn(i, at)
           /\ stack' \in [Logs -> Seq(FrameType)] /\ received' \in [Logs -> [1 .. Sinks -> Seq(Nat)]]
           /\ \A j \in Logs \ {i} : stack'[j] = stack[j] /\ received'[j] = received[j]
           /\ \A k \in DOMAIN stack'[i] : stack'[i][k].seq < Len(entries[i])
<1>1. PICK s : s = stack[i]
  OBVIOUS
<1>2. PICK n : n = Len(s)
  OBVIOUS
<1>3. PICK q : q = Top(i).seq
  OBVIOUS
<1>4. /\ stack \in [Logs -> Seq(FrameType)] /\ received \in [Logs -> [1 .. Sinks -> Seq(Nat)]]
      /\ s \in Seq(FrameType) /\ n \in Nat \ {0} /\ s # <<>>
      /\ s[n] \in FrameType /\ s[n].seq = q /\ s[n].at = at /\ q \in Nat /\ at \in 0 .. Sinks
      /\ q < Len(entries[i])
  <2>1. stack \in [Logs -> Seq(FrameType)] /\ received \in [Logs -> [1 .. Sinks -> Seq(Nat)]]
    BY DEF Shapes
  <2>2. s # <<>>
    BY <1>1 DEF Busy
  <2> QED
    BY <1>1, <1>2, <1>3, <2>1, <2>2, TopFacts
<1>5. \A k \in DOMAIN s : s[k].seq < Len(entries[i])
  BY <1>1 DEF Shapes
<1>6. CASE at < Sinks
  <2>1. PICK g : g = [seq |-> q, at |-> at + 1]
    OBVIOUS
  <2>2. at + 1 \in 0 .. Sinks
    BY <1>4, <1>6, AuditLogAssumption
  <2>3. PICK t : t = [s EXCEPT ![n] = g]
    OBVIOUS
  <2>4. [s EXCEPT ![n].at = at + 1] = t
    <3>1. [s[n] EXCEPT !.at = at + 1] = g
      BY <1>4, <2>1, <2>2, FrameAt
    <3> QED
      BY <2>3, <3>1
  <2>16. g \in FrameType
    BY <1>4, <2>1, <2>2, FrameAt
  <2>5. t \in Seq(FrameType) /\ Len(t) = n /\ t[n] = g /\ \A k \in 1 .. n - 1 : t[k] = s[k]
    BY <1>2, <1>4, <2>16, <2>3
  <2>6. stack' = [stack EXCEPT ![i] = t]
    <3>1. stack' = [stack EXCEPT ![i][Len(stack[i])].at = at + 1]
      BY <1>6 DEF GoOn
    <3>2. stack' = [stack EXCEPT ![i] = [s EXCEPT ![n].at = at + 1]]
      BY <1>1, <1>2, <3>1
    <3> QED
      BY <2>4, <3>2
  <2>7. stack' \in [Logs -> Seq(FrameType)] /\ stack'[i] = t
        /\ \A j \in Logs \ {i} : stack'[j] = stack[j]
    BY <1>4, <2>5, <2>6, ExceptFacts
  <2>8. PICK r : r = [received[i] EXCEPT ![at + 1] = Append(received[i][at + 1], q)]
    OBVIOUS
  <2>9. /\ at + 1 \in 1 .. Sinks /\ received[i] \in [1 .. Sinks -> Seq(Nat)]
        /\ Append(received[i][at + 1], q) \in Seq(Nat)
    <3>1. at + 1 \in 1 .. Sinks
      BY <1>4, <1>6, AuditLogAssumption
    <3>2. received[i] \in [1 .. Sinks -> Seq(Nat)]
      BY <1>4
    <3>3. received[i][at + 1] \in Seq(Nat)
      BY <3>1, <3>2
    <3> QED
      BY <1>4, <3>1, <3>2, <3>3
  <2>10. /\ r \in [1 .. Sinks -> Seq(Nat)] /\ r[at + 1] = Append(received[i][at + 1], q)
         /\ \A k \in (1 .. Sinks) \ {at + 1} : r[k] = received[i][k]
    BY <2>8, <2>9, ExceptFacts
  <2>11. received' = [received EXCEPT ![i] = r]
    <3>1. received' = [received EXCEPT ![i][at + 1] = Append(@, q)]
      BY <1>3, <1>6 DEF GoOn
    <3> QED
      BY <2>8, <3>1
  <2>12. received' \in [Logs -> [1 .. Sinks -> Seq(Nat)]] /\ received'[i] = r
         /\ \A j \in Logs \ {i} : received'[j] = received[j]
    BY <1>4, <2>10, <2>11, ExceptFacts
  <2>13. MovesTo(i, at + 1)
    BY <1>1, <1>2, <1>3, <2>1, <2>5, <2>7 DEF MovesTo
  <2>14. \A k \in 1 .. Sinks :
            received'[i][k] = IF k = at + 1 THEN Append(received[i][k], Top(i).seq) ELSE received[i][k]
    BY <1>3, <2>10, <2>12
  <2>15. \A k \in DOMAIN t : t[k].seq < Len(entries[i])
    <3>1. TAKE k \in DOMAIN t
    <3>2. k \in 1 .. n /\ DOMAIN s = 1 .. n
      BY <1>2, <1>4, <2>5
    <3>3. CASE k = n
      BY <1>4, <2>1, <2>5, <3>3
    <3>4. CASE k \in 1 .. n - 1
      BY <1>5, <2>5, <3>2, <3>4
    <3> QED
      BY <1>4, <3>2, <3>3, <3>4
  <2> QED
    BY <1>6, <2>7, <2>12, <2>13, <2>14, <2>15 DEF GoesOn
<1>7. CASE ~(at < Sinks)
  <2>1. at = Sinks
    BY <1>4, <1>7, AuditLogAssumption
  <2>2. stack' = [stack EXCEPT ![i] = Front(s)] /\ received' = received
    BY <1>1, <1>7 DEF GoOn
  <2>3. Front(s) \in Seq(FrameType) /\ Len(Front(s)) = n - 1 /\ \A k \in 1 .. n - 1 : Front(s)[k] = s[k]
    BY <1>2, <1>4, FrontFacts
  <2>4. stack' \in [Logs -> Seq(FrameType)] /\ stack'[i] = Front(s)
        /\ \A j \in Logs \ {i} : stack'[j] = stack[j]
    BY <1>4, <2>2, <2>3, ExceptFacts
  <2>5. Pops(i)
    BY <1>1, <1>2, <2>3, <2>4 DEF Pops
  <2>6. \A k \in DOMAIN stack'[i] : stack'[i][k].seq < Len(entries[i])
    <3>1. \A k \in DOMAIN Front(s) : Front(s)[k].seq < Len(entries[i])
      BY <1>2, <1>4, <1>5, <2>3, FewerFrames
    <3> QED
      BY <2>4, <3>1
  <2> QED
    BY <1>4, <2>1, <2>2, <2>4, <2>5, <2>6 DEF GoesOn
<1> QED
  BY <1>6, <1>7

\* The innermost append throws.
LEMMA ThrowSteps ==
    ASSUME Shapes, NEW i \in Logs, Busy(i), Throw(i)
    PROVE  /\ Pops(i) /\ failed'[i] = failed[i] \cup {Top(i).seq}
           /\ stack' \in [Logs -> Seq(FrameType)] /\ failed' \in [Logs -> SUBSET Nat]
           /\ \A j \in Logs \ {i} : stack'[j] = stack[j] /\ failed'[j] = failed[j]
           /\ \A k \in DOMAIN stack'[i] : stack'[i][k].seq < Len(entries[i])
<1>1. PICK s : s = stack[i]
  OBVIOUS
<1>2. /\ stack \in [Logs -> Seq(FrameType)] /\ failed \in [Logs -> SUBSET Nat]
      /\ s \in Seq(FrameType) /\ s # <<>> /\ Top(i).seq \in Nat
      /\ \A k \in DOMAIN s : s[k].seq < Len(entries[i])
  BY <1>1, TopFacts DEF Shapes, Busy
<1>3. /\ Front(s) \in Seq(FrameType) /\ Len(Front(s)) = Len(s) - 1 /\ Len(s) \in Nat \ {0}
      /\ \A k \in 1 .. Len(s) - 1 : Front(s)[k] = s[k]
  BY <1>2, FrontFacts
<1>4. stack' = [stack EXCEPT ![i] = Front(s)]
      /\ failed' = [failed EXCEPT ![i] = failed[i] \cup {Top(i).seq}]
  BY <1>1 DEF Throw
<1>5. stack' \in [Logs -> Seq(FrameType)] /\ stack'[i] = Front(s)
      /\ \A j \in Logs \ {i} : stack'[j] = stack[j]
  BY <1>2, <1>3, <1>4, ExceptFacts
<1>6. PICK F : F = failed[i] \cup {Top(i).seq}
  OBVIOUS
<1>7. F \in SUBSET Nat
  BY <1>2, <1>6
<1>8. failed' \in [Logs -> SUBSET Nat] /\ failed'[i] = F
      /\ \A j \in Logs \ {i} : failed'[j] = failed[j]
  BY <1>2, <1>4, <1>6, <1>7, ExceptFacts
<1>9. \A k \in DOMAIN stack'[i] : stack'[i][k].seq < Len(entries[i])
  <2>1. \A k \in DOMAIN Front(s) : Front(s)[k].seq < Len(entries[i])
    BY <1>2, <1>3, FewerFrames
  <2> QED
    BY <1>5, <2>1
<1> QED
  BY <1>1, <1>3, <1>5, <1>6, <1>8, <1>9 DEF Pops

\* The four actions of an append in progress, and the end of a log.
LEMMA WriteSteps ==
    ASSUME Shapes, NEW i \in Logs, WriteFile(i)
    PROVE  Shapes' /\ Rest(i) /\ Writes(i)
<1>1. /\ status[i] = "open" /\ Busy(i) /\ Top(i).at = 0 /\ GoOn(i, 0) /\ cut' = FALSE
      /\ file' = Written(EntryOf(i, Top(i).seq)) /\ UNCHANGED <<status, replaces, entries, failed>>
  BY DEF WriteFile
<1>2. PICK U : entries \in [Logs -> Seq(U)] /\ file \in Seq(U) /\ (cut => file # <<>>)
  BY DEF Shapes
<1>3. PICK line : line = EntryOf(i, Top(i).seq)
  OBVIOUS
<1>4. PICK V : V = U \cup {line, Garbled}
  OBVIOUS
<1>5. Puts(line) /\ file' \in Seq(V)
  BY <1>1, <1>2, <1>3, <1>4, WrittenPuts
<1>6. entries' \in [Logs -> Seq(V)]
  <2>1. \A j \in Logs : entries[j] \in Seq(V)
    BY <1>2, <1>4
  <2> QED
    BY <1>1, <1>2, <2>1
<1>7. /\ GoesOn(i, 0)
      /\ stack' \in [Logs -> Seq(FrameType)] /\ received' \in [Logs -> [1 .. Sinks -> Seq(Nat)]]
      /\ \A j \in Logs \ {i} : stack'[j] = stack[j] /\ received'[j] = received[j]
      /\ \A k \in DOMAIN stack'[i] : stack'[i][k].seq < Len(entries[i])
  BY <1>1, GoOnSteps
<1>8. \A j \in Logs : \A k \in DOMAIN stack'[j] : stack'[j][k].seq < Len(entries'[j])
  BY <1>1, <1>7 DEF Shapes
<1>9. Shapes'
  BY <1>1, <1>5, <1>6, <1>7, <1>8 DEF Shapes
<1> QED
  BY <1>1, <1>3, <1>5, <1>7, <1>9 DEF Rest, Writes, IsOpen, Writing

\* The write of the file fails.
LEMMA FailSteps ==
    ASSUME Shapes, NEW i \in Logs, FileFails(i)
    PROVE  Shapes' /\ Rest(i) /\ Throws(i)
<1>1. /\ status[i] = "open" /\ Busy(i) /\ Top(i).at = 0 /\ WriteCutShort(i) /\ Throw(i)
      /\ UNCHANGED <<status, replaces, entries, received>>
  BY DEF FileFails
<1>2. CutsShort(i) /\ cut' \in BOOLEAN /\ (cut' => file' # <<>>)
  BY <1>1, ShortCuts
<1>3. \E U : entries' \in [Logs -> Seq(U)] /\ file' \in Seq(U)
  BY <1>1, ShortCuts
<1>4. /\ Pops(i) /\ failed'[i] = failed[i] \cup {Top(i).seq}
      /\ stack' \in [Logs -> Seq(FrameType)] /\ failed' \in [Logs -> SUBSET Nat]
      /\ \A j \in Logs \ {i} : stack'[j] = stack[j] /\ failed'[j] = failed[j]
      /\ \A k \in DOMAIN stack'[i] : stack'[i][k].seq < Len(entries[i])
  BY <1>1, ThrowSteps
<1>5. \A j \in Logs : \A k \in DOMAIN stack'[j] : stack'[j][k].seq < Len(entries'[j])
  BY <1>1, <1>4 DEF Shapes
<1>6. Shapes'
  BY <1>1, <1>2, <1>3, <1>4, <1>5 DEF Shapes
<1> QED
  BY <1>1, <1>2, <1>4, <1>6 DEF Rest, Throws, IsOpen, Writing

\* A sink returns, and the append goes on to the next.
LEMMA ReturnSteps ==
    ASSUME Shapes, NEW i \in Logs, SinkReturns(i)
    PROVE  Shapes' /\ Rest(i) /\ Returns(i)
<1>1. /\ status[i] = "open" /\ Busy(i) /\ Top(i).at > 0 /\ GoOn(i, Top(i).at)
      /\ UNCHANGED <<status, replaces, entries, failed, file, cut>>
  BY DEF SinkReturns
<1>2. ~Writing(i)
  BY <1>1, TopFacts, AuditLogAssumption DEF Writing
<1>3. /\ GoesOn(i, Top(i).at)
      /\ stack' \in [Logs -> Seq(FrameType)] /\ received' \in [Logs -> [1 .. Sinks -> Seq(Nat)]]
      /\ \A j \in Logs \ {i} : stack'[j] = stack[j] /\ received'[j] = received[j]
      /\ \A k \in DOMAIN stack'[i] : stack'[i][k].seq < Len(entries[i])
  BY <1>1, GoOnSteps
<1>4. \A j \in Logs : \A k \in DOMAIN stack'[j] : stack'[j][k].seq < Len(entries'[j])
  BY <1>1, <1>3 DEF Shapes
<1>5. Shapes'
  BY <1>1, <1>3, <1>4 DEF Shapes
<1> QED
  BY <1>1, <1>2, <1>3, <1>5 DEF Rest, Returns, IsOpen

\* A sink throws, and append with it.
LEMMA SinkThrowSteps ==
    ASSUME Shapes, NEW i \in Logs, SinkThrows(i)
    PROVE  Shapes' /\ Rest(i) /\ Throws(i)
<1>1. /\ status[i] = "open" /\ Busy(i) /\ Top(i).at > 0 /\ Throw(i)
      /\ UNCHANGED <<status, replaces, entries, file, cut, received>>
  BY DEF SinkThrows
<1>2. ~Writing(i)
  BY <1>1, TopFacts, AuditLogAssumption DEF Writing
<1>3. /\ Pops(i) /\ failed'[i] = failed[i] \cup {Top(i).seq}
      /\ stack' \in [Logs -> Seq(FrameType)] /\ failed' \in [Logs -> SUBSET Nat]
      /\ \A j \in Logs \ {i} : stack'[j] = stack[j] /\ failed'[j] = failed[j]
      /\ \A k \in DOMAIN stack'[i] : stack'[i][k].seq < Len(entries[i])
  BY <1>1, ThrowSteps
<1>4. \A j \in Logs : \A k \in DOMAIN stack'[j] : stack'[j][k].seq < Len(entries'[j])
  BY <1>1, <1>3 DEF Shapes
<1>5. Shapes'
  BY <1>1, <1>3, <1>4 DEF Shapes
<1> QED
  BY <1>1, <1>2, <1>3, <1>5 DEF Rest, Throws, IsOpen

\* The process ends, maybe in the middle of a write.
LEMMA StopSteps ==
    ASSUME Shapes, NEW i \in Logs, Stop(i)
    PROVE  Shapes' /\ Rest(i) /\ Stops(i)
<1>1. /\ status[i] \in {"checked", "open"} /\ status' = [status EXCEPT ![i] = "gone"]
      /\ stack' = [stack EXCEPT ![i] = <<>>] /\ UNCHANGED <<replaces, entries, failed, received>>
      /\ IF Writing(i) THEN WriteCutShort(i) ELSE UNCHANGED <<file, cut>>
  BY DEF Stop, Alive, Writing
<1>2. status' \in [Logs -> {"new", "checked", "open", "gone"}] /\ status'[i] = "gone"
      /\ \A j \in Logs \ {i} : status'[j] = status[j]
  BY <1>1 DEF Shapes
<1>3. stack' \in [Logs -> Seq(FrameType)] /\ stack'[i] = <<>>
      /\ \A j \in Logs \ {i} : stack'[j] = stack[j]
  BY <1>1, ExceptFacts DEF Shapes
<1>4. /\ IF Writing(i) THEN CutsShort(i) ELSE UNCHANGED <<file, cut>>
      /\ cut' \in BOOLEAN /\ (cut' => file' # <<>>)
      /\ \E U : entries' \in [Logs -> Seq(U)] /\ file' \in Seq(U)
  <2>1. CASE Writing(i)
    <3>1. CutsShort(i) /\ cut' \in BOOLEAN /\ (cut' => file' # <<>>)
      BY <1>1, <2>1, ShortCuts DEF Writing
    <3>2. \E U : entries' \in [Logs -> Seq(U)] /\ file' \in Seq(U)
      BY <1>1, <2>1, ShortCuts DEF Writing
    <3> QED
      BY <2>1, <3>1, <3>2
  <2>2. CASE ~Writing(i)
    BY <1>1, <2>2 DEF Shapes
  <2> QED
    BY <2>1, <2>2
<1>5. \A j \in Logs : \A k \in DOMAIN stack'[j] : stack'[j][k].seq < Len(entries'[j])
  BY <1>1, <1>3 DEF Shapes
<1>6. Shapes'
  BY <1>1, <1>2, <1>3, <1>4, <1>5 DEF Shapes
<1> QED
  BY <1>1, <1>2, <1>3, <1>4, <1>6 DEF Rest, Stops

\* Every step keeps the shapes and is of one of the kinds.
LEMMA StepKinds ==
    ASSUME Shapes, [AuditNext]_auditVars
    PROVE  Shapes' /\ AuditMove
<1>1. CASE UNCHANGED auditVars
  BY <1>1 DEF auditVars, Shapes, AuditMove
<1>2. ASSUME NEW i \in Logs,
             \/ \E overwrite \in BOOLEAN : FindFree(i, overwrite)
             \/ Truncate(i) \/ Commit(i) \/ WriteFile(i) \/ FileFails(i)
             \/ SinkReturns(i) \/ SinkThrows(i) \/ Stop(i)
      PROVE  Shapes' /\ Rest(i) /\ Moves(i)
  BY <1>2, FindSteps, TruncateSteps, CommitSteps, WriteSteps, FailSteps, ReturnSteps,
     SinkThrowSteps, StopSteps DEF Moves
<1> QED
  BY <1>1, <1>2 DEF AuditNext, AuditMove

\* At first nothing is constructed, and the file is empty.
LEMMA InitShapes ==
    ASSUME AuditInit PROVE Shapes
<1>1. <<>> \in Seq(FrameType) /\ <<>> \in Seq(Nat) /\ <<>> \in Seq({})
  OBVIOUS
<1>2. entries \in [Logs -> Seq({})] /\ file \in Seq({})
  BY <1>1 DEF AuditInit
<1>3. \A i \in Logs : stack[i] = <<>>
  BY DEF AuditInit
<1>4. \A i \in Logs : \A k \in DOMAIN stack[i] : stack[i][k].seq < Len(entries[i])
  BY <1>3
<1>5. received \in [Logs -> [1 .. Sinks -> Seq(Nat)]]
  BY <1>1 DEF AuditInit
<1>6. stack \in [Logs -> Seq(FrameType)]
  BY <1>1 DEF AuditInit
<1> QED
  BY <1>2, <1>4, <1>5, <1>6 DEF AuditInit, Shapes

-----------------------------------------------------------------------------
(* One log: its entries are sealed in order, and its appends are nested *)

Entered(i) ==
    \A k \in 1 .. Len(entries[i]) :
        entries[i][k] =
            Sealed(k - 1, [chain |-> i], IF k = 1 THEN Genesis ELSE entries[i][k - 1].hash)

\* An append inside another began later, and the outer one is inside a sink.
Ordered(s) == \A k, l \in 1 .. Len(s) : k < l => s[k].at > 0 /\ s[k].seq < s[l].seq

Nested(i) ==
    /\ status[i] # "open" => stack[i] = <<>>
    /\ Ordered(stack[i])
    /\ Writing(i) => Top(i).seq = Len(entries[i]) - 1
    /\ \A seq \in failed[i] : seq < Len(entries[i])

\* The fields of a sealed entry.
LEMMA EntryFacts ==
    ASSUME NEW i \in Logs, Entered(i), NEW k \in 1 .. Len(entries[i])
    PROVE  /\ entries[i][k].seq = k - 1
           /\ entries[i][k].body = [chain |-> i]
           /\ entries[i][k].prev = IF k = 1 THEN Genesis ELSE entries[i][k - 1].hash
           /\ entries[i][k].hash = HashEntry(entries[i][k].prev, entries[i][k])
<1>1. PICK p : p = IF k = 1 THEN Genesis ELSE entries[i][k - 1].hash
  OBVIOUS
<1>2. entries[i][k] = Sealed(k - 1, [chain |-> i], p)
  BY <1>1 DEF Entered
<1> QED
  BY <1>1, <1>2 DEF Sealed, HashEntry

LEMMA EntryNumbers ==
    ASSUME NEW i \in Logs, Entered(i)
    PROVE  \A k \in 1 .. Len(entries[i]) : entries[i][k].seq = k - 1
<1> SUFFICES ASSUME NEW k \in 1 .. Len(entries[i]) PROVE entries[i][k].seq = k - 1
  OBVIOUS
<1>1. PICK p : p = IF k = 1 THEN Genesis ELSE entries[i][k - 1].hash
  OBVIOUS
<1>2. entries[i][k] = Sealed(k - 1, [chain |-> i], p)
  BY <1>1 DEF Entered
<1> QED
  BY <1>2 DEF Sealed

\* The lengths of the entries are numbers.
LEMMA Lengths ==
    ASSUME Shapes, NEW i \in Logs
    PROVE  Len(entries[i]) \in Nat /\ (entries[i] # <<>> => Last(entries[i]) = entries[i][Len(entries[i])])
<1>1. PICK U : entries \in [Logs -> Seq(U)]
  BY DEF Shapes
<1>2. entries[i] \in Seq(U)
  BY <1>1
<1> QED
  BY <1>2, LastFacts

\* Entries stay what they were when they were sealed, and a new one links to the last.
LEMMA EnteredStep ==
    ASSUME Shapes, NEW i \in Logs, Rest(i), Moves(i), NEW j \in Logs, Entered(j)
    PROVE  Entered(j)'
<1>1. CASE entries'[j] = entries[j]
  BY <1>1 DEF Entered
<1>2. CASE i = j /\ Commits(i)
  <2>1. PICK n : n = Len(entries[i])
    OBVIOUS
  <2>2. n \in Nat /\ (entries[i] # <<>> => Last(entries[i]) = entries[i][n]) /\ (entries[i] # <<>> <=> n # 0)
    <3>1. PICK U : entries[i] \in Seq(U)
      BY DEF Shapes
    <3> QED
      BY <2>1, <3>1, Lengths
  <2>3. /\ Len(entries'[i]) = n + 1 /\ \A k \in 1 .. n : entries'[i][k] = entries[i][k]
        /\ entries'[i][n + 1] = Sealed(n, [chain |-> i], HeadHash(entries[i]))
    BY <1>2, <2>1 DEF Commits
  <2>4. ASSUME NEW k \in 1 .. n + 1
        PROVE  entries'[i][k] =
                  Sealed(k - 1, [chain |-> i], IF k = 1 THEN Genesis ELSE entries'[i][k - 1].hash)
    <3>1. CASE k \in 1 .. n
      <4>1. entries[i][k] =
                  Sealed(k - 1, [chain |-> i], IF k = 1 THEN Genesis ELSE entries[i][k - 1].hash)
        BY <1>2, <2>1, <3>1 DEF Entered
      <4>2. k # 1 => k - 1 \in 1 .. n
        BY <2>2, <3>1
      <4> QED
        BY <2>3, <3>1, <4>1, <4>2
    <3>2. CASE k = n + 1
      <4>1. HeadHash(entries[i]) = IF k = 1 THEN Genesis ELSE entries'[i][k - 1].hash
        BY <2>2, <2>3, <3>2 DEF HeadHash
      <4>2. k - 1 = n
        BY <2>2, <3>2
      <4> QED
        BY <2>3, <3>2, <4>1, <4>2
    <3> QED
      BY <2>2, <3>1, <3>2
  <2> QED
    BY <1>2, <2>3, <2>4 DEF Entered
<1> QED
  BY <1>1, <1>2 DEF Rest, Moves, Found, Opened, Commits, Writes, Throws, Returns, Stops, IsOpen

\* Of the innermost append, when it goes on or is over: the rest of the appends
\* are as before, and none is at its file write.
LEMMA InnerMoves ==
    ASSUME Shapes, Shapes', NEW i \in Logs, Busy(i), Ordered(stack[i]),
           Pops(i) \/ \E at \in 1 .. Sinks : MovesTo(i, at)
    PROVE  Ordered(stack'[i]) /\ ~Writing(i)'
<1>1. PICK s : s = stack[i]
  OBVIOUS
<1>2. PICK t : t = stack'[i]
  OBVIOUS
<1>3. PICK n : n = Len(s)
  OBVIOUS
<1>4. s \in Seq(FrameType) /\ n \in Nat \ {0} /\ t \in Seq(FrameType)
  BY <1>1, <1>2, <1>3, TopFacts DEF Shapes
<1>5. Len(t) \in Nat /\ (t # <<>> => Last(t) = t[Len(t)] /\ Len(t) # 0)
  BY <1>4, LastFacts
<1>6. Writing(i)' => t # <<>> /\ Last(t).at = 0
  BY <1>2 DEF Writing, Busy, Top
<1>7. \A k, l \in 1 .. n : k < l => s[k].at > 0 /\ s[k].seq < s[l].seq
  BY <1>1, <1>3 DEF Ordered
<1>8. CASE Pops(i)
  <2>1. Len(t) = n - 1 /\ \A k \in 1 .. n - 1 : t[k] = s[k]
    BY <1>1, <1>2, <1>3, <1>8 DEF Pops
  <2>2. \A k, l \in 1 .. n - 1 : k < l => t[k].at > 0 /\ t[k].seq < t[l].seq
    BY <1>4, <1>7, <2>1
  <2>3. n - 1 # 0 => t[n - 1].at > 0
    BY <1>4, <1>7, <2>1
  <2>4. Ordered(t)
    BY <2>1, <2>2 DEF Ordered
  <2>5. ~Writing(i)'
    BY <1>4, <1>5, <1>6, <2>1, <2>3
  <2> QED
    BY <1>2, <2>4, <2>5
<1>9. ASSUME NEW at \in 1 .. Sinks, MovesTo(i, at)
      PROVE  Ordered(stack'[i]) /\ ~Writing(i)'
  <2>1. Top(i) = s[n]
    BY <1>1, <1>3, TopFacts
  <2>2. /\ Len(t) = n /\ t[n] = [seq |-> s[n].seq, at |-> at]
        /\ \A k \in 1 .. n - 1 : t[k] = s[k]
    BY <1>1, <1>2, <1>3, <1>9, <2>1 DEF MovesTo
  <2>3. t[n].seq = s[n].seq /\ t[n].at = at /\ at > 0
    BY <2>2, AuditLogAssumption
  <2>4. \A k, l \in 1 .. n : k < l => t[k].at > 0 /\ t[k].seq < t[l].seq
    BY <1>4, <1>7, <2>2, <2>3
  <2>5. Ordered(t)
    BY <2>2, <2>4 DEF Ordered
  <2>6. ~Writing(i)'
    BY <1>4, <1>5, <1>6, <2>2, <2>3
  <2> QED
    BY <1>2, <2>5, <2>6
<1> QED
  BY <1>8, <1>9

\* What an append in progress does to its log.
LEMMA Advances ==
    ASSUME Shapes, NEW i \in Logs, Writes(i) \/ Throws(i) \/ Returns(i)
    PROVE  /\ status'[i] = "open" /\ entries'[i] = entries[i] /\ Busy(i)
           /\ Pops(i) \/ \E at \in 1 .. Sinks : MovesTo(i, at)
<1>1. status'[i] = "open" /\ entries'[i] = entries[i] /\ Busy(i)
  BY DEF Writes, Throws, Returns, IsOpen
<1>2. Top(i).at \in 0 .. Sinks
  BY <1>1, TopFacts
<1>3. ASSUME NEW at \in 0 .. Sinks, GoesOn(i, at)
      PROVE  Pops(i) \/ \E to \in 1 .. Sinks : MovesTo(i, to)
  <2>1. at < Sinks => at + 1 \in 1 .. Sinks
    BY <1>3, AuditLogAssumption
  <2> QED
    BY <1>3, <2>1 DEF GoesOn
<1>4. 0 \in 0 .. Sinks
  BY AuditLogAssumption
<1> QED
  BY <1>1, <1>2, <1>3, <1>4 DEF Writes, Throws, Returns

\* An append inside another is over before the outer one goes on.
LEMMA NestedStep ==
    ASSUME Shapes, Shapes', NEW i \in Logs, Rest(i), Moves(i), NEW j \in Logs, Nested(j)
    PROVE  Nested(j)'
<1>1. CASE j # i
  <2>1. UNCHANGED <<status[j], entries[j], stack[j], failed[j]>>
    BY <1>1 DEF Rest
  <2> QED
    BY <2>1 DEF Nested, Writing, Busy, Top
<1>2. SUFFICES ASSUME j = i PROVE Nested(i)'
  BY <1>1
<1>3. /\ status[i] # "open" => stack[i] = <<>>
      /\ Ordered(stack[i])
      /\ Writing(i) => Top(i).seq = Len(entries[i]) - 1
      /\ \A seq \in failed[i] : seq < Len(entries[i])
  BY <1>2 DEF Nested
<1>4. ASSUME stack'[i] = <<>> PROVE Ordered(stack'[i]) /\ ~Writing(i)'
  BY <1>4 DEF Ordered, Writing, Busy
<1>5. CASE Found(i) \/ Opened(i) \/ Stops(i)
  <2>1. stack'[i] = <<>> /\ failed'[i] = failed[i] /\ entries'[i] = entries[i]
    BY <1>3, <1>5 DEF Found, Opened, Stops
  <2> QED
    BY <1>3, <1>4, <2>1 DEF Nested
<1>6. CASE Commits(i)
  <2>1. PICK s : s = stack[i]
    OBVIOUS
  <2>2. PICK t : t = stack'[i]
    OBVIOUS
  <2>3. PICK n : n = Len(s)
    OBVIOUS
  <2>4. PICK m : m = Len(entries[i])
    OBVIOUS
  <2>5. m \in Nat /\ s \in Seq(FrameType) /\ n \in Nat /\ t \in Seq(FrameType)
    BY <2>1, <2>2, <2>3, <2>4, Lengths DEF Shapes
  <2>6. \A k \in 1 .. n : s[k].seq < m
    <3>1. DOMAIN s = 1 .. n
      BY <2>3, <2>5
    <3> QED
      BY <2>1, <2>4, <3>1 DEF Shapes
  <2>7. /\ Len(t) = n + 1 /\ t[n + 1] = Frame(m) /\ \A k \in 1 .. n : t[k] = s[k]
        /\ status'[i] = "open" /\ Len(entries'[i]) = m + 1 /\ failed'[i] = failed[i]
        /\ n # 0 => s[n].at > 0
    <3>1. n # 0 => Busy(i)
      BY <2>1, <2>3 DEF Busy
    <3>2. Busy(i) => Top(i) = s[n]
      BY <2>1, <2>3, TopFacts
    <3> QED
      BY <1>6, <2>1, <2>2, <2>3, <2>4, <3>1, <3>2 DEF Commits
  <2>8. t[n + 1].seq = m
    BY <2>7 DEF Frame
  <2>9. \A k, l \in 1 .. n : k < l => s[k].at > 0 /\ s[k].seq < s[l].seq
    BY <1>3, <2>1, <2>3 DEF Ordered
  <2>10. \A k, l \in 1 .. n + 1 : k < l => t[k].at > 0 /\ t[k].seq < t[l].seq
    <3>1. TAKE k, l \in 1 .. n + 1
    <3>2. HAVE k < l
    <3>3. k \in 1 .. n
      BY <2>5, <3>2
    <3>4. CASE l \in 1 .. n
      BY <2>7, <2>9, <3>2, <3>3, <3>4
    <3>5. CASE l = n + 1
      <4>1. s[k].at > 0
        <5>1. k # n => k < n /\ n \in 1 .. n
          BY <2>5, <3>3
        <5> QED
          BY <2>5, <2>7, <2>9, <3>3, <5>1
      <4> QED
        BY <2>6, <2>7, <2>8, <3>3, <3>5, <4>1
    <3> QED
      BY <2>5, <3>4, <3>5
  <2>11. Ordered(stack'[i])
    BY <2>2, <2>7, <2>10 DEF Ordered
  <2>12. Writing(i)' => Top(i)'.seq = Len(entries'[i]) - 1
    <3>1. t # <<>> => Last(t) = t[n + 1]
      BY <2>5, <2>7, FrontFacts
    <3> QED
      BY <2>2, <2>5, <2>7, <2>8, <3>1 DEF Writing, Busy, Top
  <2>13. \A seq \in failed'[i] : seq < Len(entries'[i])
    <3>1. failed[i] \subseteq Nat
      BY DEF Shapes
    <3> QED
      BY <1>3, <2>4, <2>5, <2>7, <3>1
  <2> QED
    BY <2>7, <2>11, <2>12, <2>13 DEF Nested
<1>7. CASE Writes(i) \/ Throws(i) \/ Returns(i)
  <2>1. status'[i] = "open" /\ entries'[i] = entries[i] /\ Busy(i)
    BY <1>7, Advances
  <2>2. Top(i).at \in 0 .. Sinks /\ Top(i).seq < Len(entries[i])
    BY <2>1, TopFacts
  <2>3. Pops(i) \/ \E at \in 1 .. Sinks : MovesTo(i, at)
    BY <1>7, Advances
  <2>4. Ordered(stack'[i]) /\ ~Writing(i)'
    BY <1>3, <2>1, <2>3, InnerMoves
  <2>5. \A seq \in failed'[i] : seq < Len(entries[i])
    BY <1>3, <1>7, <2>2 DEF Writes, Throws, Returns
  <2> QED
    BY <2>1, <2>4, <2>5 DEF Nested
<1> QED
  BY <1>5, <1>6, <1>7 DEF Moves

-----------------------------------------------------------------------------
(* The sinks: each is given an entry after its write was tried, and after  *)
(* the sinks before it                                                     *)

Handed(i) ==
    /\ \A k \in 1 .. Sinks : ToSet(received[i][k]) \subseteq 0 .. Len(entries[i]) - 1
    /\ \A k, l \in 1 .. Sinks : k < l => ToSet(received[i][l]) \subseteq ToSet(received[i][k])
    /\ \A m \in 1 .. Len(stack[i]) : \A k \in 1 .. stack[i][m].at :
          stack[i][m].seq \in ToSet(received[i][k])
    /\ Writing(i) => \A k \in 1 .. Sinks : Top(i).seq \notin ToSet(received[i][k])

\* What a sequence holds once it has one more element.
LEMMA ToSetAppend ==
    ASSUME NEW T, NEW s \in Seq(T), NEW x
    PROVE  ToSet(Append(s, x)) = ToSet(s) \cup {x}
<1>1. PICK t : t = Append(s, x)
  OBVIOUS
<1>2. /\ Len(s) \in Nat /\ DOMAIN s = 1 .. Len(s) /\ DOMAIN t = 1 .. Len(s) + 1
      /\ t[Len(s) + 1] = x /\ \A k \in 1 .. Len(s) : t[k] = s[k]
  <2>1. t \in Seq(T \cup {x}) /\ Len(t) = Len(s) + 1
    BY <1>1, AppendFacts
  <2>2. DOMAIN t = 1 .. Len(s) + 1
    BY <2>1
  <2> QED
    BY <1>1, <2>2, AppendFacts
<1>3. \A y : y \in ToSet(t) <=> y \in ToSet(s) \/ y = x
  BY <1>2 DEF ToSet
<1> QED
  BY <1>1, <1>3

\* The sinks are given each entry one after the other, from the first.
LEMMA HandedStep ==
    ASSUME Shapes, Shapes', NEW i \in Logs, Rest(i), Moves(i), NEW j \in Logs, Nested(j), Handed(j)
    PROVE  Handed(j)'
<1>1. CASE j # i
  <2>1. UNCHANGED <<entries[j], stack[j], received[j]>>
    BY <1>1 DEF Rest
  <2> QED
    BY <2>1 DEF Handed, Writing, Busy, Top
<1>2. SUFFICES ASSUME j = i PROVE Handed(i)'
  BY <1>1
<1>3. PICK b : b = Len(entries[i])
  OBVIOUS
<1>4. PICK r : r = received[i]
  OBVIOUS
<1>5. PICK s : s = stack[i]
  OBVIOUS
<1>6. PICK n : n = Len(s)
  OBVIOUS
<1>7. /\ b \in Nat /\ r \in [1 .. Sinks -> Seq(Nat)] /\ s \in Seq(FrameType) /\ n \in Nat
      /\ \A k \in 1 .. n : s[k] \in FrameType
  BY <1>3, <1>4, <1>5, <1>6, Lengths DEF Shapes
<1>8. /\ \A k \in 1 .. Sinks : ToSet(r[k]) \subseteq 0 .. b - 1
      /\ \A k, l \in 1 .. Sinks : k < l => ToSet(r[l]) \subseteq ToSet(r[k])
      /\ \A m \in 1 .. n : \A k \in 1 .. s[m].at : s[m].seq \in ToSet(r[k])
  BY <1>2, <1>3, <1>4, <1>5, <1>6 DEF Handed
<1>9. CASE Found(i) \/ Opened(i) \/ Stops(i)
  <2>1. stack'[i] = <<>> /\ received'[i] = r /\ Len(entries'[i]) = b
    BY <1>2, <1>3, <1>4, <1>9 DEF Found, Opened, Stops, Nested
  <2>2. ~Writing(i)' /\ \A m \in 1 .. Len(stack'[i]) : FALSE
    BY <2>1 DEF Writing, Busy
  <2> QED
    BY <1>8, <2>1, <2>2 DEF Handed
<1>10. CASE Commits(i)
  <2>1. PICK t : t = stack'[i]
    OBVIOUS
  <2>2. /\ Len(t) = n + 1 /\ t[n + 1] = Frame(b) /\ \A k \in 1 .. n : t[k] = s[k]
        /\ Len(entries'[i]) = b + 1 /\ received'[i] = r /\ t \in Seq(FrameType)
    BY <1>3, <1>4, <1>5, <1>6, <1>10, <2>1 DEF Commits, Shapes
  <2>3. t[n + 1].at = 0 /\ t[n + 1].seq = b
    BY <2>2 DEF Frame
  <2>4. \A k \in 1 .. Sinks : ToSet(r[k]) \subseteq 0 .. (b + 1) - 1 /\ b \notin ToSet(r[k])
    BY <1>7, <1>8
  <2>5. \A m \in 1 .. n + 1 : \A k \in 1 .. t[m].at : t[m].seq \in ToSet(r[k])
    <3>1. TAKE m \in 1 .. n + 1
    <3>2. CASE m \in 1 .. n
      BY <1>8, <2>2, <3>2
    <3>3. CASE m = n + 1
      <4>1. \A k \in Int : ~(k \in 1 .. 0)
        OBVIOUS
      <4> QED
        BY <2>3, <3>3, <4>1
    <3> QED
      BY <1>7, <3>2, <3>3
  <2>6. Writing(i)' => Top(i)'.seq = b
    <3>1. t # <<>> => Last(t) = t[n + 1]
      BY <2>2, FrontFacts
    <3> QED
      BY <2>1, <2>3, <3>1 DEF Writing, Busy, Top
  <2>7. \A k \in 1 .. Sinks : ToSet(received'[i][k]) \subseteq 0 .. Len(entries'[i]) - 1
    BY <2>2, <2>4
  <2>8. \A m \in 1 .. Len(stack'[i]) : \A k \in 1 .. stack'[i][m].at :
            stack'[i][m].seq \in ToSet(received'[i][k])
    BY <2>1, <2>2, <2>5
  <2>9. \A k, l \in 1 .. Sinks : k < l => ToSet(received'[i][l]) \subseteq ToSet(received'[i][k])
    BY <1>8, <2>2
  <2>10. Writing(i)' => \A k \in 1 .. Sinks : Top(i)'.seq \notin ToSet(received'[i][k])
    BY <2>2, <2>4, <2>6
  <2> QED
    BY <2>7, <2>8, <2>9, <2>10 DEF Handed
<1>11. CASE Writes(i) \/ Throws(i) \/ Returns(i)
  <2>1. Len(entries'[i]) = b /\ Busy(i) /\ ~Writing(i)'
    BY <1>2, <1>3, <1>11, Advances, InnerMoves DEF Nested
  <2>2. Top(i) = s[n] /\ n \in Nat \ {0} /\ s[n].at \in 0 .. Sinks /\ s[n].seq \in 0 .. b - 1
    BY <1>3, <1>5, <1>6, <1>7, <2>1, TopFacts
  <2>3. PICK t : t = stack'[i]
    OBVIOUS
  <2>4. PICK p : p = received'[i]
    OBVIOUS
  <2>5. GoesOn(i, s[n].at) \/ (Pops(i) /\ received'[i] = received[i])
    BY <1>11, <2>2 DEF Writes, Throws, Returns, Writing
  <2>6. CASE Pops(i) /\ p = r
    <3>1. Len(t) = n - 1 /\ \A k \in 1 .. n - 1 : t[k] = s[k]
      BY <1>5, <1>6, <2>3, <2>6 DEF Pops
    <3>2. \A m \in 1 .. n - 1 : \A k \in 1 .. t[m].at : t[m].seq \in ToSet(p[k])
      BY <1>8, <2>2, <2>6, <3>1
    <3> QED
      BY <1>8, <2>1, <2>3, <2>4, <2>6, <3>1, <3>2 DEF Handed
  <2>7. ASSUME NEW at \in 0 .. Sinks, at = s[n].at, at < Sinks, MovesTo(i, at + 1),
               \A k \in 1 .. Sinks : p[k] = IF k = at + 1 THEN Append(r[k], s[n].seq) ELSE r[k]
        PROVE  Handed(i)'
    <3>1. /\ Len(t) = n /\ t[n] = [seq |-> s[n].seq, at |-> at + 1]
          /\ \A k \in 1 .. n - 1 : t[k] = s[k]
      BY <1>5, <1>6, <2>2, <2>3, <2>7 DEF MovesTo
    <3>2. t[n].seq = s[n].seq /\ t[n].at = at + 1
      BY <3>1
    <3>3. at + 1 \in 1 .. Sinks
      BY <2>7, AuditLogAssumption
    <3>4. \A k \in 1 .. Sinks :
              ToSet(p[k]) = IF k = at + 1 THEN ToSet(r[k]) \cup {s[n].seq} ELSE ToSet(r[k])
      BY <1>7, <2>7, ToSetAppend
    <3>5. \A k \in 1 .. at : s[n].seq \in ToSet(r[k])
      BY <1>8, <2>2, <2>7
    <3>6. \A k \in 1 .. Sinks : ToSet(p[k]) \subseteq 0 .. b - 1
      BY <1>8, <2>2, <3>4
    <3>7. \A k, l \in 1 .. Sinks : k < l => ToSet(p[l]) \subseteq ToSet(p[k])
      <4>1. TAKE k, l \in 1 .. Sinks
      <4>2. HAVE k < l
      <4>3. ToSet(r[l]) \subseteq ToSet(r[k]) /\ ToSet(r[k]) \subseteq ToSet(p[k])
        BY <1>8, <3>4, <4>2
      <4>4. CASE l = at + 1
        <5>1. k \in 1 .. at
          BY <2>7, <4>2, <4>4
        <5> QED
          BY <3>4, <3>5, <4>3, <4>4, <5>1
      <4> QED
        BY <3>4, <4>3, <4>4
    <3>8. \A m \in 1 .. n : \A k \in 1 .. t[m].at : t[m].seq \in ToSet(p[k])
      <4>1. TAKE m \in 1 .. n
      <4>2. TAKE k \in 1 .. t[m].at
      <4>3. CASE m = n
        <5>1. k \in 1 .. at + 1 /\ k \in 1 .. Sinks
          BY <2>7, <3>2, <3>3, <4>3, AuditLogAssumption
        <5>2. s[n].seq \in ToSet(p[k])
          <6>1. CASE k = at + 1
            BY <3>4, <5>1, <6>1
          <6>2. CASE k \in 1 .. at
            BY <3>4, <3>5, <5>1, <6>2
          <6> QED
            BY <2>7, <5>1, <6>1, <6>2
        <5> QED
          BY <3>2, <4>3, <5>2
      <4>4. CASE m \in 1 .. n - 1
        <5>1. t[m] = s[m] /\ s[m].at \in 0 .. Sinks
          BY <1>7, <3>1, <4>4 DEF FrameType
        <5>2. k \in 1 .. Sinks /\ s[m].seq \in ToSet(r[k])
          BY <1>8, <4>4, <5>1, AuditLogAssumption
        <5>3. ToSet(r[k]) \subseteq ToSet(p[k])
          BY <3>4, <5>2
        <5> QED
          BY <5>1, <5>2, <5>3
      <4> QED
        BY <2>2, <4>3, <4>4
    <3> QED
      BY <2>1, <2>3, <2>4, <3>1, <3>6, <3>7, <3>8 DEF Handed
  <2> QED
    BY <1>4, <2>2, <2>3, <2>4, <2>5, <2>6, <2>7 DEF GoesOn
<1> QED
  BY <1>9, <1>10, <1>11 DEF Moves

-----------------------------------------------------------------------------
(* The file: its lines are entries of the logs, in their order *)

\* The entry of a log that has got to the file, or may have.
Settled(j, m) == m \in 1 .. Len(entries[j]) /\ (Writing(j) => m < Len(entries[j]))

LinesAreEntries ==
    \A k \in 1 .. Len(file) :
        file[k] = Garbled \/ \E j \in Logs : \E m \in 1 .. Len(entries[j]) :
                                 Settled(j, m) /\ file[k] = entries[j][m]

LinesInOrder ==
    \A k, l \in 1 .. Len(file) :
        k < l /\ file[k].body = file[l].body /\ file[k] # Garbled => file[k].seq < file[l].seq

\* What is on the file stays an entry.
LEMMA SettledStays ==
    ASSUME Shapes, Shapes', NEW i \in Logs, Rest(i), Moves(i), \A j \in Logs : Nested(j),
           NEW j \in Logs, NEW m \in 1 .. Len(entries[j]), Settled(j, m)
    PROVE  /\ m \in 1 .. Len(entries'[j]) /\ Settled(j, m)'
           /\ entries'[j][m] = entries[j][m]
<1>1. CASE j # i
  <2>1. UNCHANGED <<entries[j], stack[j]>>
    BY <1>1 DEF Rest
  <2> QED
    BY <2>1 DEF Settled, Writing, Busy, Top
<1>2. CASE j = i /\ (Found(i) \/ Opened(i) \/ Stops(i))
  <2>1. stack'[i] = <<>> /\ entries'[i] = entries[i]
    BY <1>2 DEF Found, Opened, Stops, Nested
  <2> QED
    BY <1>2, <2>1 DEF Settled, Writing, Busy
<1>3. CASE j = i /\ Commits(i)
  <2>1. Len(entries[i]) \in Nat
    BY Lengths
  <2> QED
    BY <1>3, <2>1 DEF Settled, Commits
<1>4. CASE j = i /\ (Writes(i) \/ Throws(i) \/ Returns(i))
  <2>1. entries'[i] = entries[i] /\ ~Writing(i)'
    BY <1>4, Advances, InnerMoves DEF Nested
  <2> QED
    BY <1>4, <2>1 DEF Settled
<1> QED
  BY <1>1, <1>2, <1>3, <1>4 DEF Moves

\* The entry an append writes is the last, and is settled when it is written.
LEMMA WritesLast ==
    ASSUME Shapes, Shapes', NEW i \in Logs, Writing(i), Nested(i), Entered(i),
           Writes(i) \/ Throws(i) \/ Stops(i)
    PROVE  /\ Len(entries[i]) \in Nat \ {0} /\ EntryOf(i, Top(i).seq) = entries[i][Len(entries[i])]
           /\ Settled(i, Len(entries[i]))' /\ entries'[i] = entries[i]
<1>1. Busy(i) /\ Top(i).seq = Len(entries[i]) - 1 /\ Top(i).seq \in Nat
  BY TopFacts DEF Writing, Nested
<1>2. Len(entries[i]) \in Nat \ {0} /\ Top(i).seq + 1 = Len(entries[i])
  BY <1>1, Lengths
<1>3. entries'[i] = entries[i]
  BY DEF Writes, Throws, Stops, IsOpen
<1>4. ~Writing(i)'
  <2>1. CASE Stops(i)
    BY <2>1 DEF Stops, Writing, Busy
  <2>2. CASE Writes(i) \/ Throws(i)
    BY <1>1, <2>2, Advances, InnerMoves DEF Nested
  <2> QED
    BY <2>1, <2>2
<1> QED
  BY <1>2, <1>3, <1>4 DEF EntryOf, Settled

\* A line put on the file keeps both.
LEMMA PutLine ==
    ASSUME Shapes, Shapes', NEW i \in Logs, Rest(i), Moves(i), \A j \in Logs : Nested(j),
           \A j \in Logs : Entered(j), LinesAreEntries, LinesInOrder, NEW line, Puts(line),
           \/ line = Garbled
           \/ /\ Writing(i) /\ Len(entries[i]) \in Nat \ {0} /\ line = entries[i][Len(entries[i])]
              /\ Settled(i, Len(entries[i]))' /\ entries'[i] = entries[i]
    PROVE  LinesAreEntries' /\ LinesInOrder'
<1>1. PICK n : n = Len(file)
  OBVIOUS
<1>2. n \in Nat
  <2>1. PICK U : file \in Seq(U)
    BY DEF Shapes
  <2> QED
    BY <1>1, <2>1
<1>3. ASSUME NEW k \in 1 .. n
      PROVE  file[k] = Garbled \/ \E j \in Logs : \E m \in 1 .. Len(entries'[j]) :
                                      Settled(j, m)' /\ file[k] = entries'[j][m]
  <2>1. CASE file[k] # Garbled
    <3>1. PICK j \in Logs : \E m \in 1 .. Len(entries[j]) : Settled(j, m) /\ file[k] = entries[j][m]
      BY <1>1, <2>1 DEF LinesAreEntries
    <3>2. PICK m \in 1 .. Len(entries[j]) : Settled(j, m) /\ file[k] = entries[j][m]
      BY <3>1
    <3>3. m \in 1 .. Len(entries'[j]) /\ Settled(j, m)' /\ entries'[j][m] = entries[j][m]
      BY <3>2, SettledStays
    <3> QED
      BY <3>2, <3>3
  <2> QED
    BY <2>1
<1>4. ASSUME NEW k \in 1 .. n, NEW b, b = line \/ b = Garbled,
             file[k] # Garbled, file[k].body = b.body
      PROVE  file[k].seq < b.seq
  <2>1. PICK j \in Logs : \E m \in 1 .. Len(entries[j]) : Settled(j, m) /\ file[k] = entries[j][m]
    BY <1>1, <1>4 DEF LinesAreEntries
  <2>2. PICK m \in 1 .. Len(entries[j]) : Settled(j, m) /\ file[k] = entries[j][m]
    BY <2>1
  <2>3. file[k].body = [chain |-> j] /\ file[k].seq = m - 1 /\ m \in Nat
    BY <2>2, EntryFacts, Lengths
  <2>4. file[k].body.chain = j /\ j # 0
    BY <2>3, AuditLogAssumption DEF Logs
  <2>5. CASE b = Garbled
    <3>1. b.body.chain = 0
      BY <2>5 DEF Garbled
    <3> QED
      BY <1>4, <2>4, <3>1
  <2>6. CASE b # Garbled
    <3>1. /\ Writing(i) /\ Len(entries[i]) \in Nat \ {0} /\ b = entries[i][Len(entries[i])]
      BY <1>4, <2>6
    <3>2. b.body = [chain |-> i] /\ b.seq = Len(entries[i]) - 1
      BY <3>1, EntryFacts
    <3>3. b.body.chain = i
      BY <3>2
    <3>4. j = i
      BY <1>4, <2>4, <3>3
    <3>5. m < Len(entries[i])
      BY <2>2, <3>1, <3>4 DEF Settled
    <3> QED
      BY <2>3, <3>1, <3>2, <3>4, <3>5
  <2> QED
    BY <2>5, <2>6
<1>5. \A k, l \in 1 .. n :
          k < l /\ file[k].body = file[l].body /\ file[k] # Garbled => file[k].seq < file[l].seq
  BY <1>1 DEF LinesInOrder
<1>6. PICK g : g = file'
  OBVIOUS
<1>7. CASE cut
  <2>1. Len(g) = n /\ n > 0 /\ g[n] = Garbled /\ \A k \in 1 .. n - 1 : g[k] = file[k]
    BY <1>1, <1>6, <1>7 DEF Puts, Swallows
  <2>2. \A k \in 1 .. n : g[k] = Garbled \/ \E j \in Logs : \E m \in 1 .. Len(entries'[j]) :
                                                Settled(j, m)' /\ g[k] = entries'[j][m]
    BY <1>2, <1>3, <2>1
  <2>3. \A k, l \in 1 .. n : k < l /\ g[k].body = g[l].body /\ g[k] # Garbled => g[k].seq < g[l].seq
    <3>1. TAKE k, l \in 1 .. n
    <3>2. HAVE k < l /\ g[k].body = g[l].body /\ g[k] # Garbled
    <3>3. k \in 1 .. n - 1 /\ g[k] = file[k]
      BY <1>2, <2>1, <3>2
    <3>4. CASE l = n
      BY <1>4, <2>1, <3>2, <3>3, <3>4
    <3>5. CASE l \in 1 .. n - 1
      BY <1>5, <2>1, <3>2, <3>3, <3>5
    <3> QED
      BY <1>2, <3>4, <3>5
  <2> QED
    BY <1>6, <2>1, <2>2, <2>3 DEF LinesAreEntries, LinesInOrder
<1>8. CASE ~cut
  <2>1. Len(g) = n + 1 /\ g[n + 1] = line /\ \A k \in 1 .. n : g[k] = file[k]
    BY <1>1, <1>6, <1>8 DEF Puts, Adds
  <2>2. line = Garbled \/ \E j \in Logs : \E m \in 1 .. Len(entries'[j]) :
                              Settled(j, m)' /\ line = entries'[j][m]
    OBVIOUS
  <2>3. \A k \in 1 .. n + 1 : g[k] = Garbled \/ \E j \in Logs : \E m \in 1 .. Len(entries'[j]) :
                                                    Settled(j, m)' /\ g[k] = entries'[j][m]
    BY <1>2, <1>3, <2>1, <2>2
  <2>4. \A k, l \in 1 .. n + 1 :
            k < l /\ g[k].body = g[l].body /\ g[k] # Garbled => g[k].seq < g[l].seq
    <3>1. TAKE k, l \in 1 .. n + 1
    <3>2. HAVE k < l /\ g[k].body = g[l].body /\ g[k] # Garbled
    <3>3. k \in 1 .. n /\ g[k] = file[k]
      BY <1>2, <2>1, <3>2
    <3>4. CASE l = n + 1
      BY <1>4, <2>1, <3>2, <3>3, <3>4
    <3>5. CASE l \in 1 .. n
      BY <1>5, <2>1, <3>2, <3>3, <3>5
    <3> QED
      BY <1>2, <3>4, <3>5
  <2> QED
    BY <1>6, <2>1, <2>3, <2>4 DEF LinesAreEntries, LinesInOrder
<1> QED
  BY <1>7, <1>8

\* A step adds one line at most, or starts the file again.
LEMMA FileStep ==
    ASSUME Shapes, Shapes', NEW i \in Logs, Rest(i), Moves(i), \A j \in Logs : Nested(j),
           \A j \in Logs : Entered(j), LinesAreEntries, LinesInOrder
    PROVE  LinesAreEntries' /\ LinesInOrder'
<1>1. CASE file' = file
  <2>1. LinesInOrder'
    BY <1>1 DEF LinesInOrder
  <2>2. ASSUME NEW k \in 1 .. Len(file), file[k] # Garbled
        PROVE  \E j \in Logs : \E m \in 1 .. Len(entries'[j]) : Settled(j, m)' /\ file[k] = entries'[j][m]
    <3>1. PICK j \in Logs : \E m \in 1 .. Len(entries[j]) : Settled(j, m) /\ file[k] = entries[j][m]
      BY <2>2 DEF LinesAreEntries
    <3>2. PICK m \in 1 .. Len(entries[j]) : Settled(j, m) /\ file[k] = entries[j][m]
      BY <3>1
    <3>3. m \in 1 .. Len(entries'[j]) /\ Settled(j, m)' /\ entries'[j][m] = entries[j][m]
      BY <3>2, SettledStays
    <3> QED
      BY <3>2, <3>3
  <2> QED
    BY <1>1, <2>1, <2>2 DEF LinesAreEntries
<1>2. CASE file' = <<>>
  BY <1>2 DEF LinesAreEntries, LinesInOrder
<1>3. CASE Puts(Garbled)
  BY <1>3, PutLine
<1>4. CASE Writing(i) /\ Puts(EntryOf(i, Top(i).seq)) /\ (Writes(i) \/ Throws(i) \/ Stops(i))
  BY <1>4, PutLine, WritesLast
<1> QED
  BY <1>1, <1>2, <1>3, <1>4
  DEF Moves, Found, Opened, Commits, Writes, Throws, Returns, Stops, CutsShort

-----------------------------------------------------------------------------
(* The invariant *)

AuditInv ==
    /\ Shapes
    /\ \A i \in Logs : Entered(i) /\ Nested(i) /\ Handed(i)
    /\ LinesAreEntries /\ LinesInOrder

\* The invariant holds at first.
LEMMA InvInit == ASSUME AuditInit PROVE AuditInv
<1>1. Shapes /\ \A i \in Logs : entries[i] = <<>> /\ stack[i] = <<>> /\ failed[i] = {}
                            /\ \A k \in 1 .. Sinks : received[i][k] = <<>>
  BY InitShapes DEF AuditInit
<1>2. \A k \in Int : ~(k \in 1 .. 0)
  OBVIOUS
<1>3. ToSet(<<>>) = {} /\ Len(<<>>) = 0
  BY <1>2 DEF ToSet
<1>4. ASSUME NEW i \in Logs PROVE Entered(i) /\ Nested(i) /\ Handed(i)
  <2>1. Entered(i)
    BY <1>1, <1>2, <1>3 DEF Entered
  <2>2. ~Writing(i) /\ Ordered(stack[i])
    BY <1>1, <1>2, <1>3 DEF Writing, Busy, Ordered
  <2>3. Nested(i)
    BY <1>1, <2>2 DEF Nested
  <2>4. \A k \in 1 .. Sinks : ToSet(received[i][k]) = {}
    BY <1>1, <1>3
  <2>5. \A m \in 1 .. Len(stack[i]) : FALSE
    BY <1>1, <1>2, <1>3
  <2>6. Handed(i)
    BY <2>2, <2>4, <2>5 DEF Handed
  <2> QED
    BY <2>1, <2>3, <2>6
<1>5. file = <<>> /\ LinesAreEntries /\ LinesInOrder
  BY <1>2, <1>3 DEF AuditInit, LinesAreEntries, LinesInOrder
<1> QED
  BY <1>1, <1>4, <1>5 DEF AuditInv

\* Every step keeps it, and is of one of the kinds above.
LEMMA InvStep == ASSUME AuditInv, [AuditNext]_auditVars PROVE AuditInv' /\ AuditMove
<1>1. Shapes /\ Shapes' /\ AuditMove
  BY StepKinds DEF AuditInv
<1>2. ASSUME UNCHANGED auditVars PROVE AuditInv'
  <2>1. UNCHANGED <<status, entries, stack, failed, file, received>>
    BY <1>2 DEF auditVars
  <2>2. \A j \in Logs : Entered(j)' /\ Nested(j)' /\ Handed(j)'
    BY <2>1 DEF AuditInv, Entered, Nested, Handed, Ordered, Writing, Busy, Top
  <2>3. LinesAreEntries' /\ LinesInOrder'
    BY <2>1 DEF AuditInv, LinesAreEntries, LinesInOrder, Settled, Writing, Busy, Top
  <2> QED
    BY <1>1, <2>2, <2>3 DEF AuditInv
<1>3. ASSUME NEW i \in Logs, Rest(i), Moves(i) PROVE AuditInv'
  <2>1. \A j \in Logs : Entered(j)' /\ Nested(j)' /\ Handed(j)'
    BY <1>1, <1>3, EnteredStep, NestedStep, HandedStep DEF AuditInv
  <2>2. LinesAreEntries' /\ LinesInOrder'
    BY <1>1, <1>3, FileStep DEF AuditInv
  <2> QED
    BY <1>1, <2>1, <2>2 DEF AuditInv
<1> QED
  BY <1>1, <1>2, <1>3 DEF AuditMove

\* So it holds always.
LEMMA AuditInvariant == AuditSpec => []AuditInv
  BY InvInit, InvStep, PTL DEF AuditSpec

\* The entries of a log, by their numbers, and the one that is being written.
LEMMA SeqsOf ==
    ASSUME AuditInv, NEW i \in Logs
    PROVE  /\ Committed(i) = 0 .. Len(entries[i]) - 1
           /\ InProgress(i) = IF Writing(i) THEN {Top(i).seq} ELSE {}
<1>1. PICK n : n = Len(entries[i])
  OBVIOUS
<1>2. n \in Nat /\ DOMAIN entries[i] = 1 .. n
  <2>1. PICK U : entries[i] \in Seq(U)
    BY DEF AuditInv, Shapes
  <2> QED
    BY <1>1, <2>1
<1>3. \A k \in 1 .. n : entries[i][k].seq = k - 1
  <2>1. Entered(i)
    BY DEF AuditInv
  <2> QED
    BY <1>1, <2>1, EntryNumbers
<1>4. Committed(i) = 0 .. n - 1
  <2>1. ASSUME NEW x \in 0 .. n - 1 PROVE x \in Committed(i)
    <3>1. x + 1 \in 1 .. n /\ entries[i][x + 1].seq = x
      BY <1>2, <1>3
    <3> QED
      BY <1>2, <3>1 DEF Committed
  <2>2. ASSUME NEW x \in Committed(i) PROVE x \in 0 .. n - 1
    <3>1. PICK k \in 1 .. n : x = entries[i][k].seq
      BY <1>2, <2>2 DEF Committed
    <3> QED
      BY <1>2, <1>3, <3>1
  <2> QED
    BY <2>1, <2>2
<1>5. PICK s : s = stack[i]
  OBVIOUS
<1>6. PICK c : c = Len(s)
  OBVIOUS
<1>7. s \in Seq(FrameType)
  BY <1>5 DEF AuditInv, Shapes
<1>8. c \in Nat /\ DOMAIN s = 1 .. c /\ \A k \in 1 .. c : s[k].at \in 0 .. Sinks
  <2>1. c \in Nat /\ DOMAIN s = 1 .. c
    BY <1>6, <1>7
  <2>2. ASSUME NEW k \in 1 .. c PROVE s[k].at \in 0 .. Sinks
    <3>1. s[k] \in FrameType
      BY <1>7, <2>1
    <3> QED
      BY <3>1 DEF FrameType
  <2> QED
    BY <2>1, <2>2
<1>9. \A k, l \in 1 .. c : k < l => s[k].at > 0
  BY <1>5, <1>6 DEF AuditInv, Nested, Ordered
<1>10. Writing(i) <=> c # 0 /\ s[c].at = 0
  BY <1>5, <1>6, <1>7, LastFacts DEF Writing, Busy, Top
<1>11. ASSUME NEW k \in 1 .. c, s[k].at = 0
       PROVE  k = c /\ Writing(i)
  <2>1. ~(k < c)
    <3>1. ASSUME k < c PROVE FALSE
      <4>1. s[k].at > 0
        BY <1>8, <1>9, <3>1
      <4> QED
        BY <1>11, <4>1
    <3> QED
      BY <3>1
  <2> QED
    BY <1>8, <1>10, <1>11, <2>1
<1>12. InProgress(i) = {s[k].seq : k \in {l \in 1 .. c : s[l].at = 0}}
  BY <1>5, <1>8 DEF InProgress
<1>13. CASE Writing(i)
  <2>1. c \in 1 .. c /\ s[c].at = 0
    BY <1>8, <1>10, <1>13
  <2>2. {l \in 1 .. c : s[l].at = 0} = {c}
    BY <1>11, <2>1
  <2>3. Top(i) = s[c]
    BY <1>5, <1>6 DEF Top, Last
  <2> QED
    BY <1>1, <1>4, <1>12, <1>13, <2>2, <2>3
<1>14. CASE ~Writing(i)
  <2>1. {l \in 1 .. c : s[l].at = 0} = {}
    BY <1>11, <1>14
  <2> QED
    BY <1>1, <1>4, <1>12, <1>14, <2>1
<1> QED
  BY <1>13, <1>14

\* Every append in progress is of a committed entry, an outer one is inside a
\* sink while an inner one runs, and a cut line is the last of a file that has
\* one.
THEOREM AuditTypes == AuditSpec => []AuditTypeOK
<1>1. ASSUME AuditInv PROVE AuditTypeOK
  <2>1. \A i \in Logs : status[i] \in {"new", "checked", "open", "gone"}
    BY <1>1 DEF AuditInv, Shapes
  <2>2. \A i \in Logs : Busy(i) => status[i] = "open"
    BY <1>1 DEF AuditInv, Nested, Busy
  <2>3. ASSUME NEW i \in Logs, NEW k \in DOMAIN stack[i]
        PROVE  /\ stack[i][k].seq \in Committed(i)
               /\ stack[i][k].at \in 0 .. Sinks
               /\ k < Len(stack[i]) =>
                     stack[i][k].at > 0 /\ stack[i][k].seq < stack[i][k + 1].seq
    <3>1. stack[i] \in Seq(FrameType) /\ Len(entries[i]) \in Nat
      BY <1>1, Lengths DEF AuditInv, Shapes
    <3>2. k \in 1 .. Len(stack[i]) /\ stack[i][k] \in FrameType /\ Len(stack[i]) \in Nat
      BY <2>3, <3>1
    <3>3. stack[i][k].seq < Len(entries[i])
      BY <1>1, <2>3 DEF AuditInv, Shapes
    <3>4. k < Len(stack[i]) => stack[i][k].at > 0 /\ stack[i][k].seq < stack[i][k + 1].seq
      BY <1>1, <3>2 DEF AuditInv, Nested, Ordered
    <3> QED
      BY <1>1, <3>1, <3>2, <3>3, <3>4, SeqsOf DEF FrameType
  <2>4. ASSUME NEW i \in Logs PROVE failed[i] \subseteq Committed(i)
    <3>1. failed[i] \subseteq Nat /\ \A q \in failed[i] : q < Len(entries[i])
      BY <1>1 DEF AuditInv, Shapes, Nested
    <3>2. Len(entries[i]) \in Nat
      BY <1>1, Lengths DEF AuditInv
    <3> QED
      BY <1>1, <3>1, <3>2, SeqsOf
  <2>5. cut => file # <<>>
    BY <1>1 DEF AuditInv, Shapes
  <2> QED
    BY <2>1, <2>2, <2>3, <2>4, <2>5 DEF AuditTypeOK
<1> QED
  BY <1>1, AuditInvariant, PTL

\* The lines of the file are in commit order, though appends nest: append
\* writes the file before any sink can call it again.
THEOREM FileFollowsCommits == AuditSpec => []FileInCommitOrder
<1>1. ASSUME AuditInv PROVE FileInCommitOrder
  <2>1. PICK U : file \in Seq(U)
    BY <1>1 DEF AuditInv, Shapes
  <2>2. DOMAIN file = 1 .. Len(file)
    BY <2>1
  <2> QED
    BY <1>1, <2>2 DEF AuditInv, LinesInOrder, FileInCommitOrder
<1> QED
  BY <1>1, AuditInvariant, PTL

-----------------------------------------------------------------------------
(* A file that verifies *)

\* A set of naturals has a least element.
LEMMA LeastSeq ==
    ASSUME NEW S \in SUBSET Nat, S # {}
    PROVE  \E n \in S : \A m \in S : n <= m
<1>1. PICK top \in S : TRUE
  OBVIOUS
<1> DEFINE U == 0 .. top
           Below(n) == 0 .. n
           F == {Below(n) : n \in {k \in S : k <= top}}
<1>2. IsFiniteSet(U)
  BY <1>1, FS_Interval
<1>3. F \subseteq SUBSET U /\ F # {}
  BY <1>1
<1> HIDE DEF U
<1>4. IsWellFoundedOn(StrictSubsetOrdering(U), FiniteSubsetsOf(U))
  BY FS_StrictSubsetOrderingWellFounded
<1>5. \A X \in F : X \in FiniteSubsetsOf(U)
  BY <1>2, <1>3, FS_FiniteSubsetsOfFinite
<1>6. PICK X \in F : \A Y \in F : <<Y, X>> \notin StrictSubsetOrdering(U)
  <2> HIDE DEF F
  <2> QED
    BY <1>3, <1>4, <1>5, WFMin
<1>7. PICK n \in S : n <= top /\ X = Below(n)
  BY <1>6
<1>8. ASSUME NEW m \in S, m < n
      PROVE  FALSE
  <2>1. Below(m) \in F /\ Below(m) \subseteq X /\ Below(m) # X
    <3>1. n \in X /\ n \notin Below(m)
      BY <1>7, <1>8
    <3> QED
      BY <1>1, <1>7, <1>8, <3>1
  <2>2. Below(m) \subseteq U /\ X \subseteq U
    BY <2>1, <1>3
  <2>3. <<Below(m), X>> \in StrictSubsetOrdering(U)
    BY <2>1, <2>2 DEF StrictSubsetOrdering
  <2> QED
    BY <1>6, <2>1, <2>3
<1> QED
  BY <1>7, <1>8

\* A sequence whose elements are those of another is a prefix of it.
LEMMA PrefixFacts ==
    ASSUME NEW T, NEW s \in Seq(T), NEW t \in Seq(T), Len(s) <= Len(t),
           \A k \in 1 .. Len(s) : s[k] = t[k]
    PROVE  IsPrefix(s, t)
<1>1. PICK n : n = Len(s)
  OBVIOUS
<1>2. PICK m : m = Len(t)
  OBVIOUS
<1>3. n \in Nat /\ m \in Nat /\ n <= m
  BY <1>1, <1>2
<1>4. /\ SubSeq(s, 1, n) \in Seq(T) /\ Len(SubSeq(s, 1, n)) = n
      /\ \A k \in 1 .. n : SubSeq(s, 1, n)[k] = s[k]
  BY <1>1, <1>3
<1>5. /\ SubSeq(t, 1, n) \in Seq(T) /\ Len(SubSeq(t, 1, n)) = n
      /\ \A k \in 1 .. n : SubSeq(t, 1, n)[k] = t[k]
  BY <1>2, <1>3
<1>6. SubSeq(s, 1, n) = SubSeq(t, 1, n)
  BY <1>1, <1>4, <1>5
<1> QED
  BY <1>1, <1>2, <1>3, <1>6 DEF IsPrefix

\* Of a line that is an entry, and carries its own number.
LEMMA LineIs ==
    ASSUME AuditInv, ChainVerifies(file), NEW k \in 1 .. Len(file), file[k] # Garbled
    PROVE  \E j \in Logs : k \in 1 .. Len(entries[j]) /\ file[k] = entries[j][k]
<1>1. PICK U : file \in Seq(U)
  BY DEF AuditInv, Shapes
<1>2. k \in DOMAIN file /\ k \in Nat
  BY <1>1
<1>3. file[k].seq = k - 1
  BY <1>2 DEF ChainVerifies, Reproduces
<1>4. PICK j \in Logs : \E m \in 1 .. Len(entries[j]) : Settled(j, m) /\ file[k] = entries[j][m]
  BY DEF AuditInv, LinesAreEntries
<1>5. PICK m \in 1 .. Len(entries[j]) : file[k] = entries[j][m]
  BY <1>4
<1>6. file[k].seq = m - 1
  <2>1. Entered(j)
    BY DEF AuditInv
  <2>2. \A l \in 1 .. Len(entries[j]) : entries[j][l].seq = l - 1
    BY <2>1, EntryNumbers
  <2>3. entries[j][m].seq = m - 1
    BY <2>2
  <2> QED
    BY <1>5, <2>3
<1>7. m = k
  BY <1>2, <1>3, <1>5, <1>6, Lengths DEF AuditInv
<1> QED
  BY <1>5, <1>7

\* Two lines that follow each other are of one log: the hash that links them is
\* of the log too.
LEMMA LinkedLines ==
    ASSUME AuditInv, ChainVerifies(file), NEW k \in 1 .. Len(file), k # 1, NEW j \in Logs,
           k \in 1 .. Len(entries[j]), file[k] = entries[j][k],
           NEW i \in Logs, k - 1 \in 1 .. Len(entries[i]), file[k - 1] = entries[i][k - 1]
    PROVE  i = j
<1>1. PICK U : file \in Seq(U)
  BY DEF AuditInv, Shapes
<1>2. k \in DOMAIN file /\ k \in Nat \ {0, 1} /\ Len(file) \in Nat /\ k <= Len(file)
  BY <1>1
<1>3. PICK n : n = k - 1
  OBVIOUS
<1>4. PICK s : s = SubSeq(file, 1, n)
  OBVIOUS
<1>5. n \in Nat \ {0} /\ n <= Len(file)
  BY <1>2, <1>3
<1>6. s \in Seq(U) /\ Len(s) = n /\ \A l \in 1 .. n : s[l] = file[l]
  BY <1>1, <1>2, <1>4, <1>5
<1>7. HeadHash(s) = file[n].hash
  <2>1. s # <<>>
    BY <1>5, <1>6
  <2>2. Last(s) = file[n]
    BY <1>5, <1>6 DEF Last
  <2> QED
    BY <2>1, <2>2 DEF HeadHash
<1>8. file[k].prev = file[n].hash
  BY <1>2, <1>3, <1>4, <1>7 DEF ChainVerifies, Reproduces
<1>9. file[k].prev = entries[j][n].hash /\ n \in 1 .. Len(entries[j])
  <2>1. Entered(j) /\ Len(entries[j]) \in Nat
    BY Lengths DEF AuditInv
  <2>2. entries[j][k].prev = IF k = 1 THEN Genesis ELSE entries[j][k - 1].hash
    BY <2>1, EntryFacts
  <2>3. entries[j][k].prev = entries[j][n].hash
    BY <1>2, <1>3, <2>2
  <2>4. file[k].prev = entries[j][n].hash
    BY <2>3
  <2> QED
    BY <1>2, <1>3, <2>1, <2>4
<1>10. entries[i][n].hash = HashEntry(entries[i][n].prev, entries[i][n])
       /\ entries[j][n].hash = HashEntry(entries[j][n].prev, entries[j][n])
       /\ entries[i][n].body = [chain |-> i] /\ entries[j][n].body = [chain |-> j]
  BY <1>3, <1>9, EntryFacts DEF AuditInv
<1>11. HashEntry(entries[i][n].prev, entries[i][n]) = HashEntry(entries[j][n].prev, entries[j][n])
  BY <1>3, <1>8, <1>9, <1>10
<1>12. entries[i][n].body = entries[j][n].body
  BY <1>11 DEF HashEntry
<1>13. [chain |-> i].chain = [chain |-> j].chain
  BY <1>10, <1>12
<1> QED
  BY <1>13

\* Whatever fails and wherever a process stops, and however many logs are over
\* the path: a file that reads back and verifies is a prefix of what one log
\* committed.
THEOREM FileIsCommittedPrefix == AuditSpec => []VerifyingFileIsCommittedPrefix
<1>1. ASSUME AuditInv, \A k \in DOMAIN file : file[k] # Garbled, ChainVerifies(file)
      PROVE  \E i \in Logs : IsPrefix(file, entries[i])
  <2>1. PICK U : entries \in [Logs -> Seq(U)] /\ file \in Seq(U)
    BY <1>1 DEF AuditInv, Shapes
  <2>2. PICK n : n = Len(file)
    OBVIOUS
  <2>3. n \in Nat /\ DOMAIN file = 1 .. n
    BY <2>1, <2>2
  <2> DEFINE Is(i, k) == k \in 1 .. Len(entries[i]) /\ file[k] = entries[i][k]
  <2>4. \A k \in 1 .. n : \E j \in Logs : Is(j, k)
    BY <1>1, <2>2, <2>3, LineIs
  <2>5. \A k \in 1 .. n : \A i, j \in Logs : k # 1 /\ Is(j, k) /\ Is(i, k - 1) => i = j
    BY <1>1, <2>2, LinkedLines
  <2> HIDE DEF Is
  <2>6. \E i \in Logs : \A k \in 1 .. n : Is(i, k)
    <3>1. CASE n = 0
      <4>1. 1 \in Logs /\ \A k \in 1 .. n : FALSE
        BY <3>1, AuditLogAssumption DEF Logs
      <4> QED
        BY <4>1
    <3>2. CASE n # 0
      <4>1. PICK i \in Logs : Is(i, 1)
        BY <2>3, <2>4, <3>2
      <4>2. PICK S : S = {k \in 1 .. n : ~Is(i, k)}
        OBVIOUS
      <4>3. ASSUME S # {} PROVE FALSE
        <5>1. S \in SUBSET Nat
          BY <2>3, <4>2
        <5>2. PICK k \in S : \A m \in S : k <= m
          BY <4>3, <5>1, LeastSeq
        <5>3. k \in 1 .. n /\ ~Is(i, k) /\ k # 1
          BY <4>1, <4>2, <5>2
        <5>4. k - 1 \in 1 .. n /\ ~(k <= k - 1)
          BY <2>3, <5>3
        <5>5. Is(i, k - 1)
          BY <4>2, <5>2, <5>4
        <5>6. PICK j \in Logs : Is(j, k)
          BY <2>4, <5>3
        <5>7. i = j
          BY <2>5, <5>3, <5>5, <5>6
        <5> QED
          BY <5>3, <5>6, <5>7
      <4> QED
        BY <4>2, <4>3
    <3> QED
      BY <3>1, <3>2
  <2>7. PICK i \in Logs : \A k \in 1 .. n : Is(i, k)
    BY <2>6
  <2>8. entries[i] \in Seq(U) /\ Len(entries[i]) \in Nat
    BY <2>1
  <2>9. \A k \in 1 .. n : file[k] = entries[i][k]
    BY <2>7 DEF Is
  <2>10. n <= Len(entries[i])
    <3>1. n # 0 => n \in 1 .. n
      BY <2>3
    <3>2. n # 0 => n \in 1 .. Len(entries[i])
      BY <2>7, <3>1 DEF Is
    <3> QED
      BY <2>3, <2>8, <3>2
  <2> QED
    BY <2>1, <2>2, <2>8, <2>9, <2>10, PrefixFacts
<1>2. ASSUME AuditInv PROVE VerifyingFileIsCommittedPrefix
  BY <1>1, <1>2 DEF VerifyingFileIsCommittedPrefix
<1> QED
  BY <1>2, AuditInvariant, PTL

-----------------------------------------------------------------------------
(* One log at a time over the path: nothing is lost or emptied unreported *)

\* At most one log is alive.
Sole == \A i, j \in Alive : i = j

\* A log that has just found the path free, or may replace the file, has
\* committed nothing yet.
Fresh(i) ==
    /\ status[i] \in {"new", "checked"} => entries[i] = <<>>
    /\ status[i] = "checked" => file = <<>> \/ replaces[i]

\* What is settled is on the file, or it was reported, or the one before was.
Kept(i) ==
    status[i] = "open" =>
        \A m \in 1 .. Len(entries[i]) :
            Settled(i, m) =>
                \/ \E k \in 1 .. Len(file) : file[k] = entries[i][m]
                \/ m - 1 \in failed[i] \/ m - 2 \in failed[i]

\* A line that was cut was reported, and it is the last that was tried.
CutReported(i) ==
    status[i] = "open" /\ cut =>
        /\ (IF Writing(i) THEN Len(entries[i]) - 2 ELSE Len(entries[i]) - 1) \in failed[i]
        /\ \A m \in 1 .. Len(entries[i]) : file[Len(file)] = entries[i][m] => m - 1 \in failed[i]

SoleInv == Sole /\ \A i \in Logs : Fresh(i) /\ Kept(i) /\ CutReported(i)

\* A log is constructed only when none is alive.
LEMMA NoneAlive ==
    ASSUME Cardinality(Alive) < 1 PROVE Alive = {}
<1>1. IsFiniteSet(Logs)
  BY FS_Interval, AuditLogAssumption DEF Logs
<1>2. Alive \subseteq Logs
  BY DEF Alive
<1>3. IsFiniteSet(Alive)
  BY <1>1, <1>2, FS_Subset
<1>4. Cardinality(Alive) \in Nat
  BY <1>3, FS_CardinalityType
<1>5. Cardinality(Alive) = 0
  BY <1>4
<1> QED
  BY <1>3, <1>5, FS_EmptySet

\* The log that takes a step is the one that is alive, or none was.
LEMMA OneMoves ==
    ASSUME MaxAlive = 1, Sole, NEW i \in Logs, Rest(i), Moves(i)
    PROVE  /\ Sole'
           /\ \A j \in Logs \ {i} : status[j] \notin {"checked", "open"} /\ status'[j] = status[j]
<1>1. CASE Found(i)
  <2>1. Alive = {}
    BY <1>1, NoneAlive DEF Found
  <2>2. \A j \in Logs : status[j] \notin {"checked", "open"}
    BY <2>1 DEF Alive
  <2> QED
    BY <2>2 DEF Rest, Sole, Alive
<1>2. CASE ~Found(i)
  <2>1. status[i] \in {"checked", "open"}
    BY <1>2 DEF Moves, Opened, Commits, Writes, Throws, Returns, Stops, IsOpen
  <2>2. \A j \in Logs \ {i} : status[j] \notin {"checked", "open"}
    BY <2>1 DEF Sole, Alive
  <2> QED
    BY <2>2 DEF Rest, Sole, Alive
<1> QED
  BY <1>1, <1>2

\* What the constructor found of the file is still so when it empties it.
LEMMA FreshStep ==
    ASSUME MaxAlive = 1, Sole, NEW i \in Logs, Rest(i), Moves(i), \A j \in Logs : Fresh(j),
           NEW j \in Logs
    PROVE  Fresh(j)'
<1>1. CASE j # i
  BY <1>1, OneMoves DEF Fresh, Rest
<1>2. CASE j = i
  BY <1>2 DEF Fresh, Moves, Found, Opened, Commits, Writes, Throws, Returns, Stops, IsOpen
<1> QED
  BY <1>1, <1>2

\* The entries of one log have different numbers.
LEMMA EntriesDiffer ==
    ASSUME Shapes, NEW i \in Logs, Entered(i), NEW k \in 1 .. Len(entries[i]),
           NEW m \in 1 .. Len(entries[i]), entries[i][k] = entries[i][m]
    PROVE  k = m
<1>1. \A l \in 1 .. Len(entries[i]) : entries[i][l].seq = l - 1
  BY EntryNumbers
<1>2. k - 1 = m - 1 /\ Len(entries[i]) \in Nat
  BY <1>1, Lengths
<1> QED
  BY <1>2

\* A log that commits.
LEMMA KeptByCommit ==
    ASSUME AuditInv, AuditInv', NEW i \in Logs, Commits(i), Kept(i), CutReported(i)
    PROVE  Kept(i)' /\ CutReported(i)'
<1>1. PICK n : n = Len(entries[i])
  OBVIOUS
<1>2. /\ n \in Nat /\ Len(entries'[i]) = n + 1 /\ \A m \in 1 .. n : entries'[i][m] = entries[i][m]
      /\ file' = file /\ cut' = cut /\ failed'[i] = failed[i] /\ status[i] = "open"
      /\ ~Writing(i)
  <2>1. Shapes
    BY DEF AuditInv
  <2>2. n \in Nat
    BY <1>1, <2>1, Lengths
  <2>3. ~Writing(i)
    BY <2>1, TopFacts, AuditLogAssumption DEF Commits, Writing
  <2> QED
    BY <1>1, <2>2, <2>3 DEF Commits
<1>3. Writing(i)'
  <2>1. PICK t : t = stack'[i]
    OBVIOUS
  <2>2. t \in Seq(FrameType)
    BY <2>1 DEF AuditInv, Shapes
  <2>3. PICK c : c = Len(stack[i])
    OBVIOUS
  <2>4. stack[i] \in Seq(FrameType)
    BY DEF AuditInv, Shapes
  <2>5. c \in Nat
    BY <2>3, <2>4
  <2>6. Len(t) = c + 1 /\ t[c + 1] = Frame(n)
    BY <1>1, <2>1, <2>3 DEF Commits
  <2>7. t[c + 1].at = 0
    BY <2>6 DEF Frame
  <2>8. t # <<>> /\ Last(t) = t[c + 1]
    BY <2>2, <2>5, <2>6, LastFacts
  <2> QED
    BY <2>1, <2>7, <2>8 DEF Writing, Busy, Top
<1>4. ASSUME NEW m \in 1 .. n + 1, Settled(i, m)'
      PROVE  \/ \E k \in 1 .. Len(file) : file[k] = entries'[i][m]
             \/ m - 1 \in failed[i] \/ m - 2 \in failed[i]
  <2>1. m < n + 1
    BY <1>2, <1>3, <1>4 DEF Settled
  <2>2. m \in 1 .. n
    BY <1>2, <2>1
  <2>3. Settled(i, m) /\ entries'[i][m] = entries[i][m]
    BY <1>1, <1>2, <2>2 DEF Settled
  <2> QED
    BY <1>1, <1>2, <2>2, <2>3 DEF Kept
<1>5. Kept(i)'
  BY <1>2, <1>4 DEF Kept
<1>6. ASSUME cut
      PROVE  /\ n - 1 \in failed[i]
             /\ \A m \in 1 .. n : file[Len(file)] = entries[i][m] => m - 1 \in failed[i]
  BY <1>1, <1>2, <1>6 DEF CutReported
<1>7. ASSUME cut, NEW m \in 1 .. n + 1, file[Len(file)] = entries'[i][m]
      PROVE  m - 1 \in failed[i]
  <2>1. CASE m \in 1 .. n
    BY <1>2, <1>6, <1>7, <2>1
  <2>2. CASE m = n + 1
    <3>1. entries'[i][m].seq = n /\ entries'[i][m].body = [chain |-> i]
      BY <1>1, <1>2, <2>2 DEF Commits, Sealed
    <3>2. Len(file) \in 1 .. Len(file)
      <4>1. PICK U : file \in Seq(U) /\ file # <<>>
        BY <1>7 DEF AuditInv, Shapes
      <4> QED
        BY <4>1
    <3>3. file[Len(file)].body.chain = i /\ i # 0
      BY <1>7, <3>1, AuditLogAssumption DEF Logs
    <3>4. file[Len(file)] # Garbled
      BY <3>3 DEF Garbled
    <3>5. PICK j \in Logs : \E k \in 1 .. Len(entries[j]) : file[Len(file)] = entries[j][k]
      BY <3>2, <3>4 DEF AuditInv, LinesAreEntries
    <3>6. PICK k \in 1 .. Len(entries[j]) : file[Len(file)] = entries[j][k]
      BY <3>5
    <3>7. Entered(j)
      BY DEF AuditInv
    <3>8. entries[j][k].body = [chain |-> j] /\ entries[j][k].seq = k - 1
      BY <3>7, EntryFacts
    <3>9. [chain |-> i].chain = [chain |-> j].chain
      BY <1>7, <3>1, <3>6, <3>8
    <3>10. i = j /\ n = k - 1
      BY <1>7, <3>1, <3>6, <3>8, <3>9
    <3> QED
      BY <1>1, <1>2, <3>6, <3>10
  <2> QED
    BY <1>2, <2>1, <2>2
<1>8. CutReported(i)'
  <2>1. (n + 1) - 2 = n - 1
    BY <1>2
  <2> QED
    BY <1>2, <1>3, <1>6, <1>7, <2>1 DEF CutReported
<1> QED
  BY <1>5, <1>8

\* An append whose write is done, or that threw: what it was for is on the file
\* or reported, and a line it took with it had been.
LEMMA KeptByWrite ==
    ASSUME AuditInv, AuditInv', NEW i \in Logs, Writes(i) \/ Throws(i) \/ Returns(i),
           Kept(i), CutReported(i)
    PROVE  Kept(i)' /\ CutReported(i)'
<1>1. PICK n : n = Len(entries[i])
  OBVIOUS
<1>2. PICK f : f = Len(file)
  OBVIOUS
<1>3. PICK F : F = failed'[i]
  OBVIOUS
<1>4. Shapes /\ Shapes' /\ Nested(i) /\ Entered(i) /\ Ordered(stack[i])
  BY DEF AuditInv, Nested
<1>5. /\ status[i] = "open" /\ entries'[i] = entries[i] /\ ~Writing(i)' /\ Busy(i)
      /\ failed[i] \subseteq F /\ n \in Nat
  BY <1>1, <1>3, <1>4, Advances, InnerMoves, Lengths DEF Writes, Throws, Returns, IsOpen
<1>6. f \in Nat /\ (cut => f # 0)
  <2>1. PICK U : file \in Seq(U) /\ (cut => file # <<>>)
    BY <1>4 DEF Shapes
  <2> QED
    BY <1>2, <2>1
<1>7. Writing(i) => Top(i).seq = n - 1 /\ n \in Nat \ {0} /\ EntryOf(i, Top(i).seq) = entries[i][n]
  <2>1. Writing(i) => Top(i).seq = n - 1 /\ Top(i).seq \in Nat
    BY <1>1, <1>4, <1>5, TopFacts DEF Nested
  <2> QED
    BY <1>5, <2>1 DEF EntryOf
<1>8. ASSUME NEW m \in 1 .. n, Settled(i, m)
      PROVE  \/ \E k \in 1 .. f : file[k] = entries[i][m]
             \/ m - 1 \in F \/ m - 2 \in F
  BY <1>1, <1>2, <1>5, <1>8 DEF Kept
<1>9. ASSUME cut
      PROVE  /\ (IF Writing(i) THEN n - 2 ELSE n - 1) \in F
             /\ \A m \in 1 .. n : file[f] = entries[i][m] => m - 1 \in F
  <2>1. /\ (IF Writing(i) THEN n - 2 ELSE n - 1) \in failed[i]
        /\ \A m \in 1 .. n : file[f] = entries[i][m] => m - 1 \in failed[i]
    BY <1>1, <1>2, <1>5, <1>9 DEF CutReported
  <2> QED
    BY <1>5, <2>1
<1>10. ASSUME NEW line, Puts(line), NEW m \in 1 .. n, NEW k \in 1 .. f, file[k] = entries[i][m]
       PROVE  m - 1 \in F \/ \E l \in 1 .. Len(file') : file'[l] = entries[i][m]
  <2>1. CASE cut /\ k = f
    BY <1>9, <1>10, <2>1
  <2>2. CASE cut /\ k # f
    <3>1. k \in 1 .. f - 1 /\ k \in 1 .. Len(file') /\ file'[k] = file[k]
      BY <1>2, <1>6, <1>10, <2>2 DEF Puts, Swallows
    <3> QED
      BY <1>10, <3>1
  <2>3. CASE ~cut
    <3>1. k \in 1 .. Len(file') /\ file'[k] = file[k]
      BY <1>2, <1>6, <1>10, <2>3 DEF Puts, Adds
    <3> QED
      BY <1>10, <3>1
  <2> QED
    BY <2>1, <2>2, <2>3
<1>11. ASSUME file' = file \/ \E line : Puts(line), NEW m \in 1 .. n, Settled(i, m)
       PROVE  \/ \E k \in 1 .. Len(file') : file'[k] = entries[i][m]
              \/ m - 1 \in F \/ m - 2 \in F
  BY <1>2, <1>8, <1>10, <1>11
<1>12. SUFFICES
          /\ \A m \in 1 .. n :
                 \/ \E k \in 1 .. Len(file') : file'[k] = entries[i][m]
                 \/ m - 1 \in F \/ m - 2 \in F
          /\ cut' => /\ n - 1 \in F
                     /\ \A m \in 1 .. n : file'[Len(file')] = entries[i][m] => m - 1 \in F
  BY <1>1, <1>3, <1>5 DEF Kept, CutReported
<1>13. CASE ~Writing(i)
  <2>1. file' = file /\ cut' = cut
    BY <1>13 DEF Writes, Throws, Returns
  <2>2. \A m \in 1 .. n : Settled(i, m)
    BY <1>1, <1>13 DEF Settled
  <2> QED
    BY <1>2, <1>9, <1>11, <1>13, <2>1, <2>2
<1>14. CASE Writing(i)
  <2>1. \A m \in 1 .. n - 1 : Settled(i, m) /\ m \in 1 .. n
    BY <1>1, <1>5, <1>14 DEF Settled
  <2>2. CASE Writes(i)
    <3>1. Puts(entries[i][n]) /\ cut' = FALSE
      BY <1>7, <1>14, <2>2 DEF Writes
    <3>2. \/ \E k \in 1 .. Len(file') : file'[k] = entries[i][n]
          \/ n - 2 \in F
      <4>1. CASE cut
        BY <1>9, <1>14, <4>1
      <4>2. CASE ~cut
        <5>1. Len(file') = f + 1 /\ file'[f + 1] = entries[i][n]
          BY <1>2, <3>1, <4>2 DEF Puts, Adds
        <5> QED
          BY <1>6, <5>1
      <4> QED
        BY <4>1, <4>2
    <3>3. \A m \in 1 .. n - 1 : \/ \E k \in 1 .. Len(file') : file'[k] = entries[i][m]
                                \/ m - 1 \in F \/ m - 2 \in F
      BY <1>11, <2>1, <3>1
    <3>4. \A m \in 1 .. n : m = n \/ m \in 1 .. n - 1
      BY <1>5
    <3> QED
      BY <3>1, <3>2, <3>3, <3>4
  <2>3. CASE Throws(i)
    <3>1. CutsShort(i) /\ n - 1 \in F
      BY <1>3, <1>7, <1>14, <2>3 DEF Throws
    <3>2. file' = file \/ \E line : Puts(line)
      BY <3>1 DEF CutsShort
    <3>3. \A m \in 1 .. n - 1 : \/ \E k \in 1 .. Len(file') : file'[k] = entries[i][m]
                                \/ m - 1 \in F \/ m - 2 \in F
      BY <1>11, <2>1, <3>2
    <3>4. \A m \in 1 .. n : m = n \/ m \in 1 .. n - 1
      BY <1>5
    <3>5. ASSUME cut', NEW m \in 1 .. n, file'[Len(file')] = entries[i][m]
          PROVE  m - 1 \in F
      <4>1. CASE UNCHANGED <<file, cut>>
        BY <1>2, <1>9, <3>5, <4>1
      <4>2. CASE file'[Len(file')] = Garbled
        <5>1. entries[i][m].body = [chain |-> i]
          BY <1>1, <1>4, EntryFacts
        <5>2. entries[i][m].body.chain = i /\ i # 0
          BY <5>1, AuditLogAssumption DEF Logs
        <5>3. Garbled.body.chain = 0
          BY DEF Garbled
        <5> QED
          BY <3>5, <4>2, <5>2, <5>3
      <4>3. CASE file'[Len(file')] = entries[i][n]
        <5>1. entries[i][m] = entries[i][n] /\ n \in 1 .. n
          BY <1>7, <1>14, <3>5, <4>3
        <5>2. m = n
          BY <1>1, <1>4, <5>1, EntriesDiffer
        <5> QED
          BY <3>1, <5>2
      <4> QED
        BY <1>7, <1>14, <3>1, <4>1, <4>2, <4>3 DEF CutsShort, Puts, Swallows, Adds
    <3> QED
      BY <3>1, <3>3, <3>4, <3>5
  <2>4. CASE Returns(i)
    BY <1>14, <2>4 DEF Returns
  <2> QED
    BY <2>2, <2>3, <2>4
<1> QED
  BY <1>13, <1>14

\* No log is alive at first.
LEMMA SoleInvInit == ASSUME AuditInit PROVE SoleInv
  BY DEF AuditInit, SoleInv, Sole, Alive, Fresh, Kept, CutReported

\* Every step keeps what holds of the one log that is alive.
LEMMA SoleInvStep ==
    ASSUME MaxAlive = 1, AuditInv, AuditInv', AuditMove, SoleInv
    PROVE  SoleInv'
<1>1. ASSUME UNCHANGED auditVars PROVE SoleInv'
  <2>1. UNCHANGED <<status, replaces, entries, stack, failed, file, cut>>
    BY <1>1 DEF auditVars
  <2>2. Sole' /\ \A j \in Logs : Fresh(j)' /\ Kept(j)' /\ CutReported(j)'
    BY <2>1 DEF SoleInv, Sole, Alive, Fresh, Kept, CutReported, Settled, Writing, Busy, Top
  <2> QED
    BY <2>2 DEF SoleInv
<1>2. ASSUME NEW i \in Logs, Rest(i), Moves(i) PROVE SoleInv'
  <2>1. Sole' /\ \A j \in Logs \ {i} : status'[j] # "open"
    BY <1>2, OneMoves DEF SoleInv
  <2>2. \A j \in Logs : Fresh(j)'
    BY <1>2, FreshStep DEF SoleInv
  <2>3. \A j \in Logs \ {i} : Kept(j)' /\ CutReported(j)'
    BY <2>1 DEF Kept, CutReported
  <2>4. Kept(i)' /\ CutReported(i)'
    <3>1. CASE Found(i) \/ Stops(i)
      BY <3>1 DEF Found, Stops, Kept, CutReported
    <3>2. CASE Opened(i)
      <4>1. entries'[i] = <<>> /\ cut' = FALSE
        BY <3>2 DEF SoleInv, Fresh, Opened
      <4>2. \A m \in 1 .. Len(entries'[i]) : FALSE
        BY <4>1
      <4> QED
        BY <4>1, <4>2 DEF Kept, CutReported
    <3>3. CASE Commits(i)
      BY <3>3, KeptByCommit DEF SoleInv
    <3>4. CASE Writes(i) \/ Throws(i) \/ Returns(i)
      BY <3>4, KeptByWrite DEF SoleInv
    <3> QED
      BY <1>2, <3>1, <3>2, <3>3, <3>4 DEF Moves
  <2> QED
    BY <2>1, <2>2, <2>3, <2>4 DEF SoleInv
<1> QED
  BY <1>1, <1>2 DEF AuditMove

\* So both invariants hold always.
LEMMA SoleInvariant == ASSUME MaxAlive = 1 PROVE AuditSpec => [](AuditInv /\ SoleInv)
<1>1. AuditInit => AuditInv /\ SoleInv
  BY InvInit, SoleInvInit
<1>2. AuditInv /\ SoleInv /\ [AuditNext]_auditVars => (AuditInv /\ SoleInv)'
  BY InvStep, SoleInvStep
<1> QED
  BY <1>1, <1>2, PTL DEF AuditSpec

\* While a log is open and no other is over its path, an entry that is not on
\* the file was reported: its own append threw, or the one before it did, whose
\* line was cut and swallowed it.
THEOREM LossesAreReported ==
    ASSUME MaxAlive = 1 PROVE AuditSpec => []LossFollowsFailure
<1>1. ASSUME AuditInv, SoleInv, NEW i \in Logs, status[i] = "open", NEW q \in Missing(i)
      PROVE  q - 1 \in failed[i]
  <2>1. PICK n : n = Len(entries[i])
    OBVIOUS
  <2>2. n \in Nat /\ Entered(i)
    BY <1>1, <2>1, Lengths DEF AuditInv
  <2>3. q \in 0 .. n - 1 /\ q \notin OnFile(i) /\ q \notin failed[i] /\ (Writing(i) => q # Top(i).seq)
    BY <1>1, <2>1, SeqsOf DEF Missing
  <2>4. Writing(i) => Top(i).seq = n - 1
    BY <1>1, <2>1 DEF AuditInv, Nested
  <2>5. q + 1 \in 1 .. n /\ Settled(i, q + 1)
    BY <2>1, <2>2, <2>3, <2>4 DEF Settled
  <2>6. ASSUME NEW k \in 1 .. Len(file), file[k] = entries[i][q + 1] PROVE FALSE
    <3>1. entries[i][q + 1].seq = (q + 1) - 1 /\ entries[i][q + 1].body = [chain |-> i]
      BY <2>1, <2>2, <2>5, EntryFacts
    <3>2. file[k].seq = q /\ file[k].body = [chain |-> i]
      BY <2>3, <2>6, <3>1
    <3>3. k \in DOMAIN file
      <4>1. PICK U : file \in Seq(U)
        BY <1>1 DEF AuditInv, Shapes
      <4> QED
        BY <4>1
    <3> QED
      BY <2>3, <3>2, <3>3 DEF OnFile
  <2>7. (q + 1) - 1 \in failed[i] \/ (q + 1) - 2 \in failed[i]
    BY <1>1, <2>1, <2>5, <2>6 DEF SoleInv, Kept
  <2>8. (q + 1) - 1 = q /\ (q + 1) - 2 = q - 1
    BY <2>3
  <2> QED
    BY <2>3, <2>7, <2>8
<1>2. ASSUME AuditInv, SoleInv PROVE LossFollowsFailure
  BY <1>1, <1>2 DEF LossFollowsFailure
<1> QED
  BY <1>2, SoleInvariant, PTL

\* While one log at a time is over the path, a file with something in it is
\* emptied only by a log that was constructed to overwrite it.
THEOREM TruncationIsAskedFor ==
    ASSUME MaxAlive = 1 PROVE AuditSpec => NeverSilentlyTruncated
<1>1. ASSUME AuditInv, SoleInv, [AuditNext]_auditVars, file # <<>>, file' = <<>>
      PROVE  \E i \in Logs : replaces[i] /\ status[i] = "checked" /\ status'[i] = "open"
  <2>1. AuditMove
    BY <1>1, InvStep
  <2>2. PICK i \in Logs : Rest(i) /\ Moves(i)
    BY <1>1, <2>1 DEF AuditMove, auditVars
  <2>3. Opened(i)
    <3>1. PICK U : file \in Seq(U)
      BY <1>1 DEF AuditInv, Shapes
    <3>2. Len(file) \in Nat \ {0} /\ Len(file') = 0
      BY <1>1, <3>1
    <3>3. ~CutsShort(i) /\ ~(\E line : Puts(line)) /\ file' # file
      BY <1>1, <3>2 DEF CutsShort, Puts, Adds, Swallows
    <3> QED
      BY <2>2, <3>3 DEF Moves, Found, Commits, Writes, Throws, Returns, Stops
  <2>4. status[i] = "checked" /\ status'[i] = "open" /\ replaces[i]
    BY <1>1, <2>3 DEF Opened, SoleInv, Fresh
  <2> QED
    BY <2>4
<1>2. AuditInv /\ SoleInv /\ [AuditNext]_auditVars =>
          [file # <<>> /\ file' = <<>> =>
              \E i \in Logs : replaces[i] /\ status[i] = "checked" /\ status'[i] = "open"]_auditVars
  BY <1>1
<1> QED
  BY <1>2, SoleInvariant, PTL DEF AuditSpec, NeverSilentlyTruncated

-----------------------------------------------------------------------------
(* One log at a time over the path: no sink is ahead of the file *)

Given(i) == IF Sinks = 0 THEN {} ELSE ToSet(received[i][1])
OnLines(i, m) == \E k \in 1 .. Len(file) : file[k] = entries[i][m]

\* What a sink was given is on the file; or it is not, and then the entry
\* before was reported and is not on the file either.
Backed(i) ==
    status[i] = "open" =>
        \A m \in 1 .. Len(entries[i]) : m - 1 \in Given(i) =>
            OnLines(i, m) \/ (m - 2 \in failed[i] /\ ~OnLines(i, m - 1))

\* A line that was cut is of no entry that a sink was given, and the entry
\* that was tried last is on no line before it.
CutApart(i) ==
    status[i] = "open" /\ cut =>
        /\ \A m \in 1 .. Len(entries[i]) : file[Len(file)] = entries[i][m] => m - 1 \notin Given(i)
        /\ \A k \in 1 .. Len(file) - 1 :
              file[k] # entries[i][IF Writing(i) THEN Len(entries[i]) - 1 ELSE Len(entries[i])]

GivenInv == \A i \in Logs : Backed(i) /\ CutApart(i)

\* A line of an entry is of one that is settled.
LEMMA LinesAreSettled ==
    ASSUME AuditInv, NEW i \in Logs, NEW m \in 1 .. Len(entries[i]), NEW k \in 1 .. Len(file),
           file[k] = entries[i][m]
    PROVE  Settled(i, m)
<1>1. entries[i][m].body = [chain |-> i] /\ entries[i][m].seq = m - 1
  BY EntryFacts DEF AuditInv
<1>2. file[k].body.chain = i /\ i # 0
  BY <1>1, AuditLogAssumption DEF Logs
<1>3. file[k] # Garbled
  BY <1>2 DEF Garbled
<1>4. PICK j \in Logs : \E l \in 1 .. Len(entries[j]) : Settled(j, l) /\ file[k] = entries[j][l]
  BY <1>3 DEF AuditInv, LinesAreEntries
<1>5. PICK l \in 1 .. Len(entries[j]) : Settled(j, l) /\ file[k] = entries[j][l]
  BY <1>4
<1>6. entries[j][l].body = [chain |-> j] /\ entries[j][l].seq = l - 1
  BY EntryFacts DEF AuditInv
<1>7. [chain |-> i].chain = [chain |-> j].chain
  BY <1>1, <1>5, <1>6
<1>8. i = j
  BY <1>7
<1>9. l - 1 = m - 1 /\ Len(entries[i]) \in Nat
  BY <1>1, <1>5, <1>6, Lengths DEF AuditInv
<1>10. l = m
  BY <1>8, <1>9
<1> QED
  BY <1>5, <1>8, <1>10

\* A sink is first given an entry by the append that has just written it.
LEMMA GivenStep ==
    ASSUME Shapes, NEW i \in Logs, Writes(i) \/ Throws(i) \/ Returns(i)
    PROVE  Given(i)' \subseteq IF Writes(i) THEN Given(i) \cup {Top(i).seq} ELSE Given(i)
<1>1. CASE Sinks = 0
  BY <1>1 DEF Given
<1>2. CASE Sinks # 0
  <2>1. 1 \in 1 .. Sinks /\ Sinks \in Nat
    BY <1>2, AuditLogAssumption
  <2>2. Busy(i)
    BY DEF Writes, Throws, Returns, IsOpen
  <2>3. Top(i).at \in 0 .. Sinks /\ (~Writing(i) => Top(i).at # 0)
    BY <2>2, TopFacts DEF Writing
  <2>4. CASE Throws(i)
    BY <2>4 DEF Throws, Given
  <2>5. CASE Returns(i)
    <3>1. PICK at \in 1 .. Sinks : GoesOn(i, at)
      <4>1. Top(i).at \in 1 .. Sinks /\ GoesOn(i, Top(i).at)
        BY <2>1, <2>3, <2>5 DEF Returns
      <4> QED
        BY <4>1
    <3>2. 1 # at + 1
      OBVIOUS
    <3>3. received'[i][1] = received[i][1]
      BY <2>1, <3>1, <3>2 DEF GoesOn
    <3> QED
      BY <3>3 DEF Given
  <2>6. CASE Writes(i)
    <3>1. PICK at : at = 0 /\ GoesOn(i, at)
      BY <2>6 DEF Writes
    <3>2. received'[i][1] = Append(received[i][1], Top(i).seq)
      <4>1. at # Sinks /\ 1 = at + 1
        BY <1>2, <3>1
      <4>2. \A k \in 1 .. Sinks :
                received'[i][k] =
                    IF k = at + 1 THEN Append(received[i][k], Top(i).seq) ELSE received[i][k]
        BY <3>1, <4>1 DEF GoesOn
      <4> QED
        BY <2>1, <4>1, <4>2
    <3>3. received[i][1] \in Seq(Nat)
      BY <2>1 DEF Shapes
    <3>4. ToSet(received'[i][1]) = ToSet(received[i][1]) \cup {Top(i).seq}
      BY <3>2, <3>3, ToSetAppend
    <3> QED
      BY <2>6, <3>4 DEF Given
  <2> QED
    BY <2>4, <2>5, <2>6
<1> QED
  BY <1>1, <1>2

\* Of a log that commits, the sinks were not given the new entry yet.
LEMMA BackedByCommit ==
    ASSUME AuditInv, AuditInv', NEW i \in Logs, Commits(i), CutReported(i), Backed(i), CutApart(i)
    PROVE  Backed(i)' /\ CutApart(i)'
<1>1. PICK n : n = Len(entries[i])
  OBVIOUS
<1>2. /\ n \in Nat /\ Len(entries'[i]) = n + 1 /\ \A m \in 1 .. n : entries'[i][m] = entries[i][m]
      /\ file' = file /\ cut' = cut /\ failed'[i] = failed[i] /\ failed[i] \subseteq Nat
      /\ status[i] = "open" /\ Given(i)' = Given(i)
  <2>1. Shapes
    BY DEF AuditInv
  <2>2. n \in Nat
    BY <1>1, <2>1, Lengths
  <2>3. failed[i] \subseteq Nat
    BY <2>1 DEF Shapes
  <2> QED
    BY <1>1, <2>2, <2>3 DEF Commits, Given
<1>3. Given(i) \subseteq 0 .. n - 1
  <2>1. CASE Sinks = 0
    BY <2>1 DEF Given
  <2>2. CASE Sinks # 0
    <3>1. 1 \in 1 .. Sinks /\ Handed(i)
      BY <2>2, AuditLogAssumption DEF AuditInv
    <3> QED
      BY <1>1, <2>2, <3>1 DEF Handed, Given
  <2> QED
    BY <2>1, <2>2
<1>4. ~Writing(i) /\ Writing(i)'
  <2>1. ~Writing(i)
    BY TopFacts, AuditLogAssumption DEF AuditInv, Commits, Writing
  <2>2. PICK t : t = stack'[i]
    OBVIOUS
  <2>3. t \in Seq(FrameType)
    BY <2>2 DEF AuditInv, Shapes
  <2>4. PICK c : c = Len(stack[i])
    OBVIOUS
  <2>5. stack[i] \in Seq(FrameType)
    BY DEF AuditInv, Shapes
  <2>6. c \in Nat
    BY <2>4, <2>5
  <2>7. Len(t) = c + 1 /\ t[c + 1] = Frame(n)
    BY <1>1, <2>2, <2>4 DEF Commits
  <2>8. t[c + 1].at = 0
    BY <2>7 DEF Frame
  <2>9. t # <<>> /\ Last(t) = t[c + 1]
    BY <2>3, <2>6, <2>7, LastFacts
  <2> QED
    BY <2>1, <2>2, <2>8, <2>9 DEF Writing, Busy, Top
<1>5. \A m \in 1 .. n : OnLines(i, m)' <=> OnLines(i, m)
  BY <1>2 DEF OnLines
<1>6. ASSUME NEW m \in 1 .. n + 1, m - 1 \in Given(i)
      PROVE  OnLines(i, m)' \/ (m - 2 \in failed[i] /\ ~OnLines(i, m - 1)')
  <2>1. m \in 1 .. n
    BY <1>2, <1>3, <1>6
  <2>2. OnLines(i, m) \/ (m - 2 \in failed[i] /\ ~OnLines(i, m - 1))
    BY <1>1, <1>2, <1>6, <2>1 DEF Backed
  <2>3. m - 2 \in failed[i] => m - 1 \in 1 .. n
    BY <1>2, <2>1
  <2> QED
    BY <1>5, <2>1, <2>2, <2>3
<1>7. Backed(i)'
  BY <1>2, <1>6 DEF Backed
<1>8. ASSUME cut
      PROVE  /\ \A m \in 1 .. n : file[Len(file)] = entries[i][m] => m - 1 \notin Given(i)
             /\ \A k \in 1 .. Len(file) - 1 : file[k] # entries[i][n]
  BY <1>1, <1>2, <1>4, <1>8 DEF CutApart
<1>9. ASSUME cut, NEW m \in 1 .. n + 1, file[Len(file)] = entries'[i][m]
      PROVE  m - 1 \notin Given(i)
  <2>1. CASE m = n + 1
    BY <1>2, <1>3, <2>1
  <2>2. CASE m \in 1 .. n
    BY <1>2, <1>8, <1>9, <2>2
  <2> QED
    BY <1>2, <2>1, <2>2
<1>10. ASSUME cut, NEW k \in 1 .. Len(file) - 1
       PROVE  file[k] # entries'[i][n]
  <2>1. n - 1 \in failed[i]
    BY <1>1, <1>2, <1>4, <1>10 DEF CutReported
  <2>2. entries'[i][n] = entries[i][n]
    BY <1>2, <2>1
  <2> QED
    BY <1>8, <1>10, <2>2
<1>11. CutApart(i)'
  <2>1. (n + 1) - 1 = n
    BY <1>2
  <2> QED
    BY <1>2, <1>4, <1>9, <1>10, <2>1 DEF CutApart
<1> QED
  BY <1>7, <1>11

\* An append whose write is done, or that threw: what the sinks were given stays
\* on the file, and only a line that was cut takes the next one with it.
LEMMA BackedByWrite ==
    ASSUME AuditInv, AuditInv', NEW i \in Logs, Writes(i) \/ Throws(i) \/ Returns(i),
           CutReported(i), Backed(i), CutApart(i)
    PROVE  Backed(i)' /\ CutApart(i)'
<1>1. PICK n : n = Len(entries[i])
  OBVIOUS
<1>2. PICK f : f = Len(file)
  OBVIOUS
<1>3. PICK G : G = Given(i)
  OBVIOUS
<1>4. Shapes /\ Shapes' /\ Nested(i) /\ Entered(i) /\ Handed(i) /\ Ordered(stack[i])
  BY DEF AuditInv, Nested
<1>5. /\ status[i] = "open" /\ entries'[i] = entries[i] /\ ~Writing(i)' /\ Busy(i)
      /\ failed[i] \subseteq failed'[i] /\ failed[i] \subseteq Nat /\ n \in Nat
  <2>1. ~Writing(i)' /\ n \in Nat
    BY <1>1, <1>4, Advances, InnerMoves, Lengths
  <2>2. failed[i] \subseteq Nat
    BY <1>4 DEF Shapes
  <2> QED
    BY <2>1, <2>2 DEF Writes, Throws, Returns, IsOpen
<1>6. f \in Nat /\ (cut => f # 0)
  <2>1. PICK U : file \in Seq(U) /\ (cut => file # <<>>)
    BY <1>4 DEF Shapes
  <2> QED
    BY <1>2, <2>1
<1>7. Writing(i) => Top(i).seq = n - 1 /\ n \in Nat \ {0} /\ EntryOf(i, Top(i).seq) = entries[i][n]
  <2>1. Writing(i) => Top(i).seq = n - 1 /\ Top(i).seq \in Nat
    BY <1>1, <1>4, <1>5, TopFacts DEF Nested
  <2> QED
    BY <1>5, <2>1 DEF EntryOf
<1>8. Given(i)' \subseteq IF Writes(i) THEN G \cup {n - 1} ELSE G
  <2>1. Writes(i) => Top(i).seq = n - 1
    BY <1>7 DEF Writes
  <2> QED
    BY <1>3, <1>4, <2>1, GivenStep
<1>9. ASSUME NEW m \in 1 .. n, m - 1 \in G
      PROVE  OnLines(i, m) \/ (m - 2 \in failed[i] /\ ~OnLines(i, m - 1))
  BY <1>1, <1>3, <1>5, <1>9 DEF Backed
<1>10. ASSUME cut
       PROVE  /\ \A m \in 1 .. n : file[f] = entries[i][m] => m - 1 \notin G
              /\ \A k \in 1 .. f - 1 :
                    file[k] # entries[i][IF Writing(i) THEN n - 1 ELSE n]
              /\ (IF Writing(i) THEN n - 2 ELSE n - 1) \in failed[i]
  BY <1>1, <1>2, <1>3, <1>5, <1>10 DEF CutApart, CutReported
<1>11. CASE ~Writing(i)
  <2>1. file' = file /\ cut' = cut /\ Given(i)' \subseteq G
    BY <1>8, <1>11 DEF Writes, Throws, Returns
  <2>2. \A m \in 1 .. n : OnLines(i, m)' <=> OnLines(i, m)
    BY <1>5, <2>1 DEF OnLines
  <2>3. ASSUME NEW m \in 1 .. n, m - 1 \in Given(i)'
        PROVE  OnLines(i, m)' \/ (m - 2 \in failed'[i] /\ ~OnLines(i, m - 1)')
    <3>1. OnLines(i, m) \/ (m - 2 \in failed[i] /\ ~OnLines(i, m - 1))
      BY <1>9, <2>1, <2>3
    <3>2. m - 2 \in failed[i] => m - 1 \in 1 .. n
      BY <1>5
    <3> QED
      BY <1>5, <2>2, <3>1, <3>2
  <2>4. Backed(i)'
    BY <1>1, <1>5, <2>3 DEF Backed
  <2>5. CutApart(i)'
    BY <1>1, <1>2, <1>5, <1>10, <1>11, <2>1 DEF CutApart
  <2> QED
    BY <2>4, <2>5
<1>12. CASE Writing(i)
  <2>1. n \in 1 .. n
    BY <1>7, <1>12
  <2>2. \A k \in 1 .. f : file[k] # entries[i][n]
    <3>1. ~Settled(i, n)
      BY <1>1, <1>5, <1>12 DEF Settled
    <3> QED
      BY <1>1, <1>2, <2>1, <3>1, LinesAreSettled
  <2>3. n - 1 \notin G
    <3>1. CASE Sinks = 0
      BY <1>3, <3>1 DEF Given
    <3>2. CASE Sinks # 0
      <4>1. 1 \in 1 .. Sinks
        BY <3>2, AuditLogAssumption
      <4> QED
        BY <1>3, <1>4, <1>7, <1>12, <3>2, <4>1 DEF Handed, Given
    <3> QED
      BY <3>1, <3>2
  <2>4. ASSUME NEW m \in 1 .. n
        PROVE  entries[i][m] # Garbled /\ (m # n => entries[i][m] # entries[i][n])
    <3>1. entries[i][m].body.chain = i /\ i # 0
      <4>1. entries[i][m].body = [chain |-> i]
        BY <1>1, <1>4, EntryFacts
      <4> QED
        BY <4>1, AuditLogAssumption DEF Logs
    <3>2. Garbled.body.chain = 0
      BY DEF Garbled
    <3>3. entries[i][m] = entries[i][n] => m = n
      BY <1>1, <1>4, <2>1, EntriesDiffer
    <3> QED
      BY <3>1, <3>2, <3>3
  <2>5. \/ UNCHANGED <<file, cut>> /\ Throws(i)
        \/ Puts(Garbled) \/ Puts(entries[i][n])
    BY <1>7, <1>12 DEF Writes, Throws, Returns, CutsShort
  \* A line that a sink was given stays.
  <2>6. ASSUME NEW m \in 1 .. n, m - 1 \in G, OnLines(i, m)
        PROVE  OnLines(i, m)'
    <3>1. PICK k \in 1 .. f : file[k] = entries[i][m]
      BY <1>2, <2>6 DEF OnLines
    <3>2. cut => k # f
      BY <1>10, <2>6, <3>1
    <3>3. k \in 1 .. Len(file') /\ file'[k] = file[k]
      BY <1>2, <1>6, <2>5, <3>1, <3>2 DEF Puts, Adds, Swallows
    <3> QED
      BY <1>5, <3>1, <3>3 DEF OnLines
  \* No line comes that was not there, but the one that is written.
  <2>7. ASSUME NEW m \in 1 .. n, m # n, OnLines(i, m)'
        PROVE  OnLines(i, m)
    <3>1. PICK k \in 1 .. Len(file') : file'[k] = entries[i][m]
      BY <1>5, <2>7 DEF OnLines
    <3>2. k \in 1 .. f /\ file'[k] = file[k]
      BY <1>2, <1>6, <2>4, <2>5, <2>7, <3>1 DEF Puts, Adds, Swallows
    <3> QED
      BY <1>2, <3>1, <3>2 DEF OnLines
  <2>8. ASSUME NEW m \in 1 .. n, m - 1 \in G
        PROVE  OnLines(i, m)' \/ (m - 2 \in failed'[i] /\ ~OnLines(i, m - 1)')
    <3>1. OnLines(i, m) \/ (m - 2 \in failed[i] /\ ~OnLines(i, m - 1))
      BY <1>9, <2>8
    <3>2. m - 2 \in failed[i] => m - 1 \in 1 .. n /\ m - 1 # n
      BY <1>5
    <3> QED
      BY <1>5, <2>6, <2>7, <2>8, <3>1, <3>2
  <2>9. CASE Writes(i)
    <3>1. Puts(entries[i][n]) /\ cut' = FALSE
      BY <1>7, <1>12, <2>9 DEF Writes
    <3>2. OnLines(i, n)' \/ (n - 2 \in failed'[i] /\ ~OnLines(i, n - 1)')
      <4>1. CASE ~cut
        <5>1. Len(file') = f + 1 /\ file'[f + 1] = entries[i][n] /\ f + 1 \in 1 .. f + 1
          BY <1>2, <1>6, <3>1, <4>1 DEF Puts, Adds
        <5> QED
          BY <1>5, <5>1 DEF OnLines
      <4>2. CASE cut
        <5>1. n - 2 \in failed[i] /\ \A k \in 1 .. f - 1 : file[k] # entries[i][n - 1]
          BY <1>10, <1>12, <4>2
        <5>2. n - 1 \in 1 .. n
          BY <1>5, <5>1
        <5>3. Len(file') = f /\ file'[f] = Garbled /\ \A k \in 1 .. f - 1 : file'[k] = file[k]
          BY <1>2, <3>1, <4>2 DEF Puts, Swallows
        <5>4. \A k \in 1 .. f : file'[k] # entries[i][n - 1]
          BY <1>6, <2>4, <5>1, <5>2, <5>3
        <5> QED
          BY <1>5, <5>1, <5>3, <5>4 DEF OnLines
      <4> QED
        BY <4>1, <4>2
    <3>3. ASSUME NEW m \in 1 .. n, m - 1 \in Given(i)'
          PROVE  OnLines(i, m)' \/ (m - 2 \in failed'[i] /\ ~OnLines(i, m - 1)')
      <4>1. m - 1 \in G \/ m = n
        BY <1>5, <1>8, <2>9, <3>3
      <4> QED
        BY <2>8, <3>2, <4>1
    <3> QED
      BY <1>1, <1>5, <3>1, <3>3 DEF Backed, CutApart
  <2>10. CASE Throws(i)
    <3>1. Given(i)' \subseteq G
      BY <1>3, <2>10 DEF Throws, Given
    <3>2. Backed(i)'
      <4>1. \A m \in 1 .. n : m - 1 \in Given(i)' =>
                OnLines(i, m)' \/ (m - 2 \in failed'[i] /\ ~OnLines(i, m - 1)')
        BY <2>8, <3>1
      <4> QED
        BY <1>1, <1>5, <4>1 DEF Backed
    <3>3. ASSUME cut', NEW m \in 1 .. n, file'[Len(file')] = entries[i][m]
          PROVE  m - 1 \notin Given(i)'
      <4>1. CASE UNCHANGED <<file, cut>>
        BY <1>2, <1>10, <3>1, <3>3, <4>1
      <4>2. CASE Puts(Garbled) \/ Puts(entries[i][n])
        <5>1. file'[Len(file')] = Garbled \/ file'[Len(file')] = entries[i][n]
          BY <4>2 DEF Puts, Adds, Swallows
        <5>2. m = n
          BY <2>4, <3>3, <5>1
        <5> QED
          BY <2>3, <3>1, <5>2
      <4> QED
        BY <2>5, <4>1, <4>2
    <3>4. ASSUME NEW k \in 1 .. Len(file') - 1
          PROVE  file'[k] # entries[i][n]
      <4>1. k \in 1 .. f /\ file'[k] = file[k]
        BY <1>2, <1>6, <2>5, <3>4 DEF Puts, Adds, Swallows
      <4> QED
        BY <2>2, <4>1
    <3>5. CutApart(i)'
      BY <1>1, <1>5, <3>3, <3>4 DEF CutApart
    <3> QED
      BY <3>2, <3>5
  <2> QED
    BY <1>12, <2>9, <2>10 DEF Returns
<1> QED
  BY <1>11, <1>12

\* Every step keeps what holds of the sinks and the file.
LEMMA GivenInvStep ==
    ASSUME MaxAlive = 1, AuditInv, AuditInv', AuditMove, SoleInv, GivenInv
    PROVE  GivenInv'
<1>1. ASSUME UNCHANGED auditVars PROVE GivenInv'
  <2>1. UNCHANGED <<status, entries, stack, failed, file, cut, received>>
    BY <1>1 DEF auditVars
  <2>2. \A j \in Logs : Backed(j)' /\ CutApart(j)'
    BY <2>1 DEF GivenInv, Backed, CutApart, Given, OnLines, Writing, Busy, Top
  <2> QED
    BY <2>2 DEF GivenInv
<1>2. ASSUME NEW i \in Logs, Rest(i), Moves(i) PROVE GivenInv'
  <2>1. \A j \in Logs \ {i} : status'[j] # "open"
    BY <1>2, OneMoves DEF SoleInv
  <2>2. \A j \in Logs \ {i} : Backed(j)' /\ CutApart(j)'
    BY <2>1 DEF Backed, CutApart
  <2>3. Backed(i)' /\ CutApart(i)'
    <3>1. CASE Found(i) \/ Stops(i)
      BY <3>1 DEF Found, Stops, Backed, CutApart
    <3>2. CASE Opened(i)
      <4>1. entries'[i] = <<>> /\ cut' = FALSE
        BY <3>2 DEF SoleInv, Fresh, Opened
      <4>2. \A m \in 1 .. Len(entries'[i]) : FALSE
        BY <4>1
      <4> QED
        BY <4>1, <4>2 DEF Backed, CutApart
    <3>3. CASE Commits(i)
      BY <3>3, BackedByCommit DEF SoleInv, GivenInv
    <3>4. CASE Writes(i) \/ Throws(i) \/ Returns(i)
      BY <3>4, BackedByWrite DEF SoleInv, GivenInv
    <3> QED
      BY <1>2, <3>1, <3>2, <3>3, <3>4 DEF Moves
  <2> QED
    BY <2>2, <2>3 DEF GivenInv
<1> QED
  BY <1>1, <1>2 DEF AuditMove

\* While one log at a time is over the path, no sink is ahead of the file or of
\* the sink before it, however deep the appends nest and whichever throw: what it
\* was given is a line of the file, unless a line cut short by the append before,
\* which threw, swallowed it.
THEOREM SinksNeverLead ==
    ASSUME MaxAlive = 1 PROVE AuditSpec => []SinksFollowFile
<1>1. ASSUME AuditInv, GivenInv, NEW i \in Logs, status[i] = "open", NEW k \in 1 .. Sinks,
             NEW q \in ToSet(received[i][k])
      PROVE  /\ q \in OnFile(i) \/ q - 1 \in failed[i] \ OnFile(i)
             /\ k > 1 => q \in ToSet(received[i][k - 1])
  <2>1. PICK n : n = Len(entries[i])
    OBVIOUS
  <2>2. n \in Nat /\ Entered(i) /\ Handed(i) /\ failed[i] \subseteq Nat
    BY <1>1, <2>1, Lengths DEF AuditInv, Shapes
  <2>3. 1 \in 1 .. Sinks /\ Sinks # 0 /\ (k > 1 => k - 1 \in 1 .. Sinks /\ k - 1 < k)
    BY AuditLogAssumption
  <2>4. q \in Given(i)
    <3>1. 1 < k \/ k = 1
      BY AuditLogAssumption
    <3>2. q \in ToSet(received[i][1])
      BY <1>1, <2>2, <2>3, <3>1 DEF Handed
    <3> QED
      BY <2>3, <3>2 DEF Given
  <2>5. k > 1 => q \in ToSet(received[i][k - 1])
    BY <1>1, <2>2, <2>3 DEF Handed
  <2>6. q \in 0 .. n - 1
    BY <1>1, <2>1, <2>2 DEF Handed
  <2>7. PICK U : file \in Seq(U)
    BY <1>1 DEF AuditInv, Shapes
  <2>8. DOMAIN file = 1 .. Len(file)
    BY <2>7
  <2>9. ASSUME NEW m \in 1 .. n
        PROVE  OnLines(i, m) <=> m - 1 \in OnFile(i)
    <3>1. entries[i][m].seq = m - 1 /\ entries[i][m].body = [chain |-> i]
      BY <2>1, <2>2, EntryFacts
    <3>2. ASSUME OnLines(i, m) PROVE m - 1 \in OnFile(i)
      <4>1. PICK l \in 1 .. Len(file) : file[l] = entries[i][m]
        BY <3>2 DEF OnLines
      <4> QED
        BY <2>8, <3>1, <4>1 DEF OnFile
    <3>3. ASSUME m - 1 \in OnFile(i) PROVE OnLines(i, m)
      <4>1. PICK l \in 1 .. Len(file) : file[l].body = [chain |-> i] /\ file[l].seq = m - 1
        BY <2>8, <3>3 DEF OnFile
      <4>2. file[l].body.chain = i /\ i # 0
        BY <4>1, AuditLogAssumption DEF Logs
      <4>3. file[l] # Garbled
        BY <4>2 DEF Garbled
      <4>4. PICK j \in Logs : \E p \in 1 .. Len(entries[j]) : file[l] = entries[j][p]
        BY <1>1, <4>3 DEF AuditInv, LinesAreEntries
      <4>5. PICK p \in 1 .. Len(entries[j]) : file[l] = entries[j][p]
        BY <4>4
      <4>6. entries[j][p].body = [chain |-> j] /\ entries[j][p].seq = p - 1 /\ p \in Nat
        BY <1>1, <4>5, EntryFacts, Lengths DEF AuditInv
      <4>7. [chain |-> i].chain = [chain |-> j].chain
        BY <4>1, <4>5, <4>6
      <4>8. i = j
        BY <4>7
      <4>9. p = m
        BY <2>2, <4>1, <4>5, <4>6
      <4> QED
        BY <4>5, <4>8, <4>9 DEF OnLines
    <3> QED
      BY <3>2, <3>3
  <2>10. PICK m : m = q + 1
    OBVIOUS
  <2>11. m \in 1 .. n /\ m - 1 = q /\ m - 2 = q - 1
    BY <2>2, <2>6, <2>10
  <2>12. OnLines(i, m) \/ (m - 2 \in failed[i] /\ ~OnLines(i, m - 1))
    BY <1>1, <2>1, <2>4, <2>11 DEF GivenInv, Backed
  <2>13. q \in OnFile(i) \/ q - 1 \in failed[i] \ OnFile(i)
    <3>1. CASE OnLines(i, m)
      BY <2>9, <2>11, <3>1
    <3>2. CASE m - 2 \in failed[i] /\ ~OnLines(i, m - 1)
      <4>1. q \in 1 .. n /\ m - 1 = q
        BY <2>2, <2>6, <2>11, <3>2
      <4> QED
        BY <2>9, <2>11, <3>2, <4>1
    <3> QED
      BY <2>12, <3>1, <3>2
  <2> QED
    BY <2>5, <2>13
<1>2. ASSUME AuditInv, GivenInv PROVE SinksFollowFile
  BY <1>1, <1>2 DEF SinksFollowFile
<1>3. AuditInit => GivenInv
  BY DEF AuditInit, GivenInv, Backed, CutApart
<1>4. AuditInv /\ AuditInv' /\ SoleInv /\ GivenInv /\ [AuditNext]_auditVars => GivenInv'
  BY InvStep, GivenInvStep
<1> QED
  BY <1>2, <1>3, <1>4, SoleInvariant, PTL DEF AuditSpec
=============================================================================
