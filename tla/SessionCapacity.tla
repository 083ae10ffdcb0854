--------------------------- MODULE SessionCapacity ---------------------------
(***************************************************************************)
(* The loop that sizes the next session.  A runner that ends its session   *)
(* appends one line to sessions.jsonl (dashboard/views/                    *)
(* _session_history_writer.py); the dashboard reads the file back into     *)
(* statistics (_session_history_reader.py), builds the session's signals   *)
(* (_phase1_bridge.py) and asks the ladder for the next capacity.          *)
(*                                                                         *)
(* Two sessions may end at once, in two processes: the file is created,    *)
(* restricted to its owner, checked and appended to in separate steps.  A  *)
(* write may also stop in the middle of a line (a full disk); the next     *)
(* line is then glued to the rest.                                         *)
(***************************************************************************)
EXTENDS CapacityLadder, SequencesExt, FiniteSets

CONSTANTS
    Sessions,        \* the trading sessions
    EndsAt,          \* [Sessions -> Nat]: the timestamp each writes
    Realized,        \* [Sessions -> Int]: its realized profit, in percent
    Capitals,        \* the configured starting capitals
    Cutoffs,         \* the earliest timestamps a reader may ask for
    MaxTorn,         \* bound: interrupted writes
    None

VARIABLES
    file,      \* sessions.jsonl: [exists, private, lines, tail]; tail: the last
               \* line lacks its newline
    writer,    \* [Sessions -> where append_session_record stands, or how it ended]
    torn       \* writes that stopped in the middle of a line
vars == <<file, writer, torn>>

-----------------------------------------------------------------------------
(* Reading the file back. *)

\* A line is the session it describes, or None when it cannot be parsed.
\* Records older than the cutoff are left out; the rest is sorted by time.
RecordsAsWritten(lines, cutoff) ==
    SelectSeq(lines, LAMBDA s : s # None /\ EndsAt[s] >= cutoff)

Kept(lines, cutoff) ==
    {i \in DOMAIN lines : lines[i] # None /\ EndsAt[lines[i]] >= cutoff}

\* The kept lines that a stable sort by time puts no later than line i.
UpTo(lines, kept, i) ==
    {j \in kept : \/ EndsAt[lines[j]] < EndsAt[lines[i]]
                  \/ EndsAt[lines[j]] = EndsAt[lines[i]] /\ j <= i}

Records(lines, cutoff) ==
    LET kept == Kept(lines, cutoff)
    IN  [n \in 1 .. Cardinality(kept) |->
            lines[CHOOSE i \in kept : Cardinality(UpTo(lines, kept, i)) = n]]

\* _count_consecutive_losses: losing sessions at the end, newest first.
ConsecutiveLosses(records) ==
    Len(records) - SelectLastInSeq(records, LAMBDA s : Realized[s] >= 0)

\* The number of losses try_load_history reports; 0 also stands for "no
\* history": the file is missing, empty, unreadable or not private.
LossStreak(f, cutoff) ==
    IF f.exists /\ f.private THEN ConsecutiveLosses(Records(f.lines, cutoff)) ELSE 0

-----------------------------------------------------------------------------
Init ==
    /\ file = [exists |-> FALSE, private |-> FALSE, lines |-> <<>>, tail |-> FALSE]
    /\ writer = [s \in Sessions |-> "running"]
    /\ torn = 0

Goes(s, from, to) == writer[s] = from /\ writer' = [writer EXCEPT ![s] = to]

\* create_if_missing: does the file exist?
Look(s) ==
    /\ Goes(s, "running", IF file.exists THEN "check" ELSE "create")
    /\ UNCHANGED <<file, torn>>

\* touch(exist_ok=False): the second of two creators fails.
Create(s) ==
    /\ Goes(s, "create", IF file.exists THEN "failed" ELSE "restrict")
    /\ file' = [file EXCEPT !.exists = TRUE]
    /\ UNCHANGED torn

MakePrivate(s) ==
    /\ Goes(s, "restrict", "check")
    /\ file' = [file EXCEPT !.private = TRUE]
    /\ UNCHANGED torn

\* Layer 17: a file others can read is not written to.
CheckMode(s) ==
    /\ Goes(s, "check", IF file.private THEN "write" ELSE "failed")
    /\ UNCHANGED <<file, torn>>

\* O_APPEND: the line goes to the end of the file, whoever wrote before.
Appended(line, tail) ==
    file' = [file EXCEPT !.lines = IF file.tail THEN Append(Front(@), None)
                                               ELSE Append(@, line),
                         !.tail = tail]

Write(s) ==
    /\ Goes(s, "write", "written")
    /\ Appended(s, FALSE)
    /\ UNCHANGED torn

\* The disk fills up before or within the line.
WriteFails(s) ==
    /\ Goes(s, "write", "failed")
    /\ \/ torn < MaxTorn /\ torn' = torn + 1 /\ Appended(None, TRUE)
       \/ UNCHANGED <<torn, file>>

\* A copy or a backup tool changes the mode of the file.
Loosen ==
    /\ file.private
    /\ file' = [file EXCEPT !.private = FALSE]
    /\ UNCHANGED <<writer, torn>>

Next ==
    \/ \E s \in Sessions : \/ Look(s) \/ Create(s) \/ MakePrivate(s) \/ CheckMode(s)
                           \/ Write(s) \/ WriteFails(s)
    \/ Loosen

Spec == Init /\ [][Next]_vars

-----------------------------------------------------------------------------
TypeOK ==
    /\ file.lines \in Seq(Sessions \union {None})
    /\ file.exists \in BOOLEAN /\ file.private \in BOOLEAN /\ file.tail \in BOOLEAN
    /\ writer \in [Sessions -> {"running", "create", "restrict", "check", "write",
                                "written", "failed"}]
    /\ torn \in 0 .. MaxTorn

(* A session whose writer reported success can be read back, whatever the   *)
(* writers of other sessions did at the same time: only a line glued to an  *)
(* interrupted one is lost, at most one for each interruption.              *)
RecordsSurvive ==
    Cardinality({s \in Sessions : writer[s] = "written" /\ s \notin ToSet(file.lines)}) <= torn

\* get_capacity_recommendation_status: the step shown for a session and a
\* capital, from the history as it can be read at this moment.
Advice(f, signal, capital, cutoff) ==
    Recommend(signal, StepOf(capital), LossStreak(f, cutoff))

\* The readable sessions that lost and were followed only by losing ones.
LatestLosses(cutoff) ==
    LET recent == {s \in ToSet(file.lines) \ {None} : EndsAt[s] >= cutoff}
    IN  {s \in recent : \A t \in recent : EndsAt[t] >= EndsAt[s] => Realized[t] < 0}

(* A run of losses on disk keeps the capacity from growing, and a losing    *)
(* day then lowers it, whatever order the sessions were written in.         *)
LossesHoldTheLadder ==
    \A signal \in Signals, capital \in Capitals, cutoff \in Cutoffs :
      file.private /\ Cardinality(LatestLosses(cutoff)) >= LossThreshold =>
        LET from == StepOf(capital)
            to == Advice(file, signal, capital, cutoff)
        IN  /\ to <= from
            /\ from > 1 /\ signal.profit < 0 => to < from
=============================================================================
