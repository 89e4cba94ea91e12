------------------------------ MODULE History ------------------------------
(***************************************************************************)
(* The local record of what tabs print (state/history.rs): every tab gets  *)
(* a session_uuid of its own and one writer, which appends lines to the    *)
(* JSONL file of that uuid.  A file over its limit is rewritten without    *)
(* its oldest quarter, a directory over its limit loses its oldest files,  *)
(* and start-up removes what is too old.  A dead tab shows what can still  *)
(* be read; no later tab writes to the file of an earlier one.             *)
(*                                                                         *)
(* A chunk of output is its number, a line the chunks it holds: more than  *)
(* one when a line was appended to one without its newline.  Sizes are     *)
(* counted in chunks.  Rotation renames a new file over the one the writer *)
(* holds open: the writer goes on writing, into a file without a name.     *)
(***************************************************************************)
EXTENDS Integers, Sequences, SequencesExt

CONSTANTS
    Session,     \* the session_uuids of the tabs that are ever opened
    MaxFile,     \* MAX_FILE_BYTES
    MaxTotal,    \* history_max_size_mb
    MaxOutput,   \* bound: chunks a session prints
    MaxFault     \* bound: writes the disk refuses, crashes, failing opens

ASSUME HistoryAssumption ==
    /\ MaxFile \in Nat \ {0} /\ MaxTotal \in Nat \ {0}
    /\ MaxOutput \in Nat /\ MaxFault \in Nat

VARIABLES
    file,      \* what the name of each session's file leads to
    byAge,     \* the sessions with a file, least recently written first
    writer,    \* HistoryWriter of the session's tab
    size,      \* its bytes_written
    printed,   \* how much the session has printed into its tab
    faults,    \* how many appends were cut short
    whole      \* nothing has removed, rotated, or kept from opening the file

vars == <<file, byAge, writer, size, printed, faults, whole>>

Part    == 0     \* the beginning of a line: no JSON
Cut     == -1    \* one that ends within a character: the file is no text
Chunk   == 1..MaxOutput
NoFile  == [exists |-> FALSE, lines |-> <<>>, ended |-> TRUE]
NewFile == [NoFile EXCEPT !.exists = TRUE]

\* No tab yet; a tab whose file did not open; one that writes to the file of that
\* name, or to one that has lost its name; a tab that is gone.
WriterState == {"none", "failed", "named", "nameless", "closed"}

\* The writers when the program has ended.
AllClosed == [s \in Session |-> IF writer[s] = "none" THEN "none" ELSE "closed"]

Init ==
    /\ file    = [s \in Session |-> NoFile]
    /\ byAge   = <<>>
    /\ writer  = [s \in Session |-> "none"]
    /\ size    = [s \in Session |-> 0]
    /\ printed = [s \in Session |-> 0]
    /\ faults  = [s \in Session |-> 0]
    /\ whole   = [s \in Session |-> TRUE]

Fault == FoldFunction(+, 0, faults) < MaxFault

-----------------------------------------------------------------------------
(* Files *)

IsText(f) == \A i \in DOMAIN f.lines : Cut \notin ToSet(f.lines[i])

Size(f) == FoldSeq(LAMBDA line, sum : sum + Len(line), 0, f.lines)

\* The line goes to the end of the file: behind an unfinished one, if there is.
Append1(f, chunk, newline) ==
    LET last  == Len(f.lines)
        glued == [f.lines EXCEPT ![last] = Append(@, chunk)]
    IN  [f EXCEPT !.lines = IF f.ended THEN Append(@, <<chunk>>) ELSE glued,
                  !.ended = newline]

IsEntry(line) == Len(line) = 1 /\ line[1] # Part

\* Mutant: reading ends at the first line that is no entry.
EntriesUntilInvalid(lines) ==
    LET entries[i \in 0 .. Len(lines)] ==
            IF i = 0 THEN <<>>
            ELSE IF /\ \A j \in 1 .. i : IsEntry(lines[j])
                 THEN Append(entries[i - 1], lines[i][1])
                 ELSE entries[i - 1] IN
    entries[Len(lines)]

\* Lines that are no entry are skipped.
Entries(lines) ==
    LET entries[i \in 0 .. Len(lines)] ==
            IF i = 0 THEN <<>>
            ELSE IF IsEntry(lines[i]) THEN Append(entries[i - 1], lines[i][1])
                 ELSE entries[i - 1] IN
    entries[Len(lines)]

\* read_history and reconstruct_output: nothing comes of a file that is no text.
ReadHistory(s) == IF IsText(file[s]) THEN Entries(file[s].lines) ELSE <<>>

\* Mutant: what is kept goes through the handle, which appends.
RotatedBehind(f) ==
    LET kept == SubSeq(f.lines, Len(f.lines) \div 4 + 1, Len(f.lines))
    IN  [f EXCEPT !.lines = @ \o kept, !.ended = FALSE]

\* The newest three quarters of the lines, joined without a last newline.
Rotated(f) ==
    LET kept == SubSeq(f.lines, Len(f.lines) \div 4 + 1, Len(f.lines))
    IN  [f EXCEPT !.lines = kept, !.ended = kept = <<>>]

\* enforce_total_limit: how many of the oldest files go, when they have these sizes.
Excess(files, ages) ==
    LET Freed(n) == FoldSeq(LAMBDA s, sum : sum + Size(files[s]), 0, SubSeq(ages, 1, n))
        total    == Freed(Len(ages))
    IN  CHOOSE n \in 0..Len(ages) :
            /\ Freed(n) >= total - MaxTotal
            /\ \A m \in 0..(n - 1) : Freed(m) < total - MaxTotal

Touched(s) == Append(SelectSeq(byAge, LAMBDA t : t # s), s)

\* The directory without the files of these sessions.
Directory(files, ages, writers, removed) ==
    /\ file'   = [s \in Session |-> IF s \in removed THEN NoFile ELSE files[s]]
    /\ byAge'  = SelectSeq(ages, LAMBDA s : s \notin removed)
    /\ writer' = [s \in Session |-> IF s \in removed /\ writers[s] = "named"
                                    THEN "nameless" ELSE writers[s]]

-----------------------------------------------------------------------------
(* Writing *)

\* A tab is opened, under a fresh uuid: HistoryWriter::new finds no file.
OpenTab(s) ==
    /\ writer[s] = "none"
    /\ file'   = [file EXCEPT ![s].exists = TRUE]
    /\ byAge'  = Append(byAge, s)
    /\ writer' = [writer EXCEPT ![s] = "named"]
    /\ size'   = [size EXCEPT ![s] = 0]
    /\ UNCHANGED <<printed, faults, whole>>

OpenTabFails(s) ==
    /\ writer[s] = "none" /\ Fault
    /\ writer' = [writer EXCEPT ![s] = "failed"]
    /\ size'   = [size EXCEPT ![s] = 0]
    /\ faults' = [faults EXCEPT ![s] = @ + 1]
    /\ whole'  = [whole EXCEPT ![s] = FALSE]
    /\ UNCHANGED <<file, byAge, printed>>

CloseTab(s) ==
    /\ writer[s] \notin {"none", "closed"}
    /\ writer' = [writer EXCEPT ![s] = "closed"]
    /\ size'   = [size EXCEPT ![s] = 0]
    /\ UNCHANGED <<file, byAge, printed, faults, whole>>

\* The end of write_entry, once the line is in the file or was refused: over the
\* limit the file of the session's name is rotated and the directory cut down.
\* A file that cannot be read stays, and so does one whose successor is refused.
Rotate(s, files, ages, bytes) ==
    LET rotated == [files EXCEPT ![s] = Rotated(@)]
        newest  == Append(SelectSeq(ages, LAMBDA t : t # s), s)
    IN
    \/ /\ bytes <= MaxFile \/ ~files[s].exists \/ ~IsText(files[s])
       /\ Directory(files, ages, writer, {})
       /\ size' = [size EXCEPT ![s] = bytes]
       /\ UNCHANGED whole
    \/ /\ bytes > MaxFile /\ files[s].exists /\ IsText(files[s])
       /\ \E removed \in SUBSET ToSet(SubSeq(newest, 1, Excess(rotated, newest))) :
             /\ Directory(rotated, newest, [writer EXCEPT ![s] = "nameless"], removed)
             /\ whole' = [t \in Session |-> whole[t] /\ t # s /\ t \notin removed]
       /\ size' = [size EXCEPT ![s] = Size(rotated[s])]
    \/ /\ bytes > MaxFile /\ files[s].exists /\ IsText(files[s]) /\ Fault
       /\ \E removed \in SUBSET ToSet(SubSeq(ages, 1, Excess(files, ages))) :
             /\ Directory(files, ages, writer, removed)
             /\ whole' = [t \in Session |-> whole[t] /\ t \notin removed]
       /\ size' = [size EXCEPT ![s] = bytes]

Prints(s) ==
    /\ writer[s] \notin {"none", "closed"} /\ printed[s] < MaxOutput
    /\ printed' = [printed EXCEPT ![s] = @ + 1]

\* SshData: append_output.
AppendOutput(s) ==
    /\ Prints(s)
    /\ CASE writer[s] = "failed"   -> UNCHANGED <<file, byAge, writer, size, whole>>
         [] writer[s] = "nameless" -> Rotate(s, file, byAge, size[s] + 1)
         [] writer[s] = "named"    ->
                Rotate(s, [file EXCEPT ![s] = Append1(@, printed[s] + 1, TRUE)],
                       Touched(s), size[s] + 1)
    /\ UNCHANGED faults

\* The disk is full: the beginning of the line is written, which counts for
\* nothing, or all of it but the newline.
AppendRefused(s) ==
    /\ Prints(s) /\ writer[s] = "named" /\ Fault
    /\ \E part \in {Part, Cut, printed[s] + 1} :
          Rotate(s, [file EXCEPT ![s] = Append1(@, part, FALSE)], Touched(s), size[s])
    /\ faults' = [faults EXCEPT ![s] = @ + 1]

\* A start of the program after it ended, before a tab is open:
\* cleanup_old_history.
Restart ==
    /\ \E n \in 0..Len(byAge) :
          LET removed == ToSet(SubSeq(byAge, 1, n)) IN
          /\ Directory(file, byAge, AllClosed, removed)
          /\ whole' = [s \in Session |-> whole[s] /\ s \notin removed]
    /\ size' = [s \in Session |-> 0]
    /\ UNCHANGED <<printed, faults>>

\* The program dies between the text of a line and its newline.
Crash(s) ==
    /\ Prints(s) /\ writer[s] = "named" /\ Fault
    /\ file'   = [file EXCEPT ![s] = Append1(@, printed[s] + 1, FALSE)]
    /\ byAge'  = Touched(s)
    /\ writer' = AllClosed
    /\ size'   = [t \in Session |-> 0]
    /\ faults' = [faults EXCEPT ![s] = @ + 1]
    /\ UNCHANGED whole

Next ==
    \/ \E s \in Session : \/ OpenTab(s) \/ OpenTabFails(s) \/ CloseTab(s)
                          \/ AppendOutput(s) \/ AppendRefused(s) \/ Crash(s)
    \/ Restart

Spec == Init /\ [][Next]_vars

-----------------------------------------------------------------------------
(* Properties *)

\* What a dead tab shows was printed in that order and never twice, whatever was
\* cut, glued together, rotated and removed in the file.
ReadsInOrder ==
    \A s \in Session :
        LET shown == ReadHistory(s) IN
        \A i \in DOMAIN shown : /\ shown[i] <= printed[s]
                                /\ i > 1 => shown[i - 1] < shown[i]

\* While the file of a tab was neither rotated nor removed, and every append that
\* was cut short ended between two characters, each of these costs itself and the
\* line glued behind it, and nothing else that was printed is missing.  The whole
\* file is what a cut within a character costs: see OnlyInvalidLinesLost.
FaultsCostLittle ==
    \A s \in Session :
        whole[s] /\ IsText(file[s]) =>
            printed[s] - Len(ReadHistory(s)) <= 2 * faults[s]

\* history.rs:60 "FR-HISTORY-09: read JSONL file, discarding invalid/truncated lines": a cut append
\* costs these lines, wherever in a line it ends.
OnlyInvalidLinesLost ==
    \A s \in Session :
        whole[s] => printed[s] - Len(ReadHistory(s)) <= 2 * faults[s]

\* history.rs:8 "Each session's terminal output is stored as one .jsonl file per
\* session UUID": what an open tab prints can be read back.
OutputIsStored ==
    [][\A s \in Session :
        AppendOutput(s) /\ writer[s] # "failed" /\ file[s].ended /\ IsText(file[s])
            => printed'[s] \in ToSet(ReadHistory(s)')]_vars
=============================================================================
