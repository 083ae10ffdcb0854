--------------------------- MODULE SignalPipeline ---------------------------
(***************************************************************************)
(* src/src/execution/gateway.py: execute takes one signal through stages,  *)
(* from the first stop check to the order, and records the outcome in the  *)
(* audit log of execution_record.py, whose in-memory cache of the latest   *)
(* outcomes makes a signal that comes again a duplicate.  One thread runs  *)
(* it: SignalRunner._process_symbol, or a caller that replays a signal as  *)
(* smoke_test_task21.py does.                                              *)
(*                                                                         *)
(* Stop inputs come from other processes and from the signal handler, so   *)
(* they change between any two stages.  What the account, the quote, the   *)
(* sizer, the risk gates, the approver and the broker answer is open.      *)
(*                                                                         *)
(* Faults selects what may go wrong in an instance:                        *)
(*   "disk"   an append to the audit log fails (OSError): at the open, at  *)
(*            the write, which may leave a part of the line, or at the     *)
(*            close, with the line in the file                             *)
(*   "query"  fetch_open_orders or a risk gate raises                      *)
(*   "crash"  the process dies and is started again                        *)
(***************************************************************************)
EXTENDS Integers, WellFoundedInduction, TLAPS

CONSTANTS Signals,     \* signal ids (compute_signal_id)
          Weak,        \* those whose side is FLAT or whose confidence is low
          Window,      \* idempotency_window
          EventWired,  \* the gateway's ShutdownChecker knows the shutdown event
          Faults,
          MaxClock,    \* bounds of the model on the clock and on the failures
          MaxFailures, \* of the disk
          None         \* Python's None

ASSUME SignalAssumption == Weak \subseteq Signals
ASSUME WindowAssumption == Window \in Nat /\ MaxClock \in Nat /\ MaxFailures \in Nat
ASSUME WiringAssumption == EventWired \in BOOLEAN

VARIABLES clock,
          killFile,  \* runtime/KILL_SWITCH_ON exists
          event,     \* the shutdown event, set by the handler of SIGINT
          racing,    \* history: past the last check when the gateway was stopped
          stage,     \* where execute is
          signal,    \* the signal it works on
          cache,     \* _cache: Signals -> the latest record, or None
          log,       \* the records whose text is in the file
          torn,      \* the file does not end with a newline
          unended,   \* the record that ends it then, if it is a whole one
          spoilt,    \* records whose line is joined to another: unreadable
          decodable, \* no character was cut in two: the file is still UTF-8
          failures,  \* the appends that have failed
          stray,     \* history: in the file since the last start, their append failed
          sent,      \* history: the orders given to submit_order
          lost       \* history: signals with an order that no record tells of

inputs == <<killFile, event, racing>>
file == <<log, torn, unended, spoilt, decodable, failures, stray>>
memory == <<cache, file, lost>>
vars == <<clock, inputs, stage, signal, memory, sent>>

Outcomes == {"submitted", "rejected", "skipped", "error"}
Records == [signal : Signals, at : Nat, outcome : Outcomes]

ASSUME NoneAssumption == None \notin Signals \union Records

\* The stages of execute before the order, each with the one that follows it.
Following ==
    [check1 |-> "validate", validate |-> "dedup", dedup |-> "check2",
     check2 |-> "account", account |-> "sizing", sizing |-> "check3",
     check3 |-> "risk", risk |-> "check4", check4 |-> "approval",
     approval |-> "check5", check5 |-> "submit"]
Checks == {"check1", "check2", "check3", "check4", "check5"}
Stages == DOMAIN Following \union {"idle", "generate", "submit", "answer", "down"}

FileTypes ==
    /\ log \subseteq Records /\ unended \subseteq log
    /\ spoilt \subseteq log /\ stray \subseteq log
    /\ torn \in BOOLEAN /\ decodable \in BOOLEAN /\ failures \in Nat

TypeOK ==
    /\ FileTypes
    /\ clock \in Nat
    /\ killFile \in BOOLEAN /\ event \in BOOLEAN /\ racing \in BOOLEAN
    /\ stage \in Stages
    /\ signal \in Signals \union {None}
    /\ cache \in [Signals -> Records \union {None}]
    /\ sent \subseteq [signal : Signals, at : Nat]
    /\ lost \subseteq Signals

Init ==
    /\ clock = 0
    /\ killFile = FALSE /\ event = FALSE /\ racing = FALSE
    /\ stage = "idle" /\ signal = None
    /\ cache = [s \in Signals |-> None]
    /\ log = {} /\ unended = {} /\ spoilt = {} /\ stray = {}
    /\ torn = FALSE /\ decodable = TRUE /\ failures = 0
    /\ sent = {} /\ lost = {}
-----------------------------------------------------------------------------
(* The audit log *)

Fresh(record) == clock - record.at <= Window

\* Mutant: a failed order counts as not executed.
IsDuplicateIfSubmitted(s) ==
    /\ cache[s] # None
    /\ cache[s].outcome = "submitted"
    /\ Fresh(cache[s])

IsDuplicate(s) ==
    /\ cache[s] # None
    /\ cache[s].outcome # "skipped"
    /\ Fresh(cache[s])

\* _load_recent: of the lines that parse and are inside the window, the latest
\* of each signal.
LoadRecent(s) ==
    LET recent == {r \in log \ spoilt : r.signal = s /\ Fresh(r)} IN
    IF recent = {} THEN None
    ELSE CHOOSE r \in recent : \A q \in recent : q.at <= r.at

\* A line comes to the file, all of it.  It continues the line that was left
\* without its newline, if there is one, and none of the two parses any more.
WholeLine(record) ==
    /\ log' = log \union {record}
    /\ spoilt' = IF torn THEN spoilt \union unended \union {record} ELSE spoilt
    /\ torn' = FALSE /\ unended' = {}
    /\ UNCHANGED decodable

\* A line comes to the file without its newline: a part of it, which may end
\* inside a character, or all its text.
PartialLine(record) ==
    /\ torn' = TRUE
    /\ \/ /\ spoilt' = spoilt \union unended
          /\ unended' = {}
          /\ decodable' \in {decodable, FALSE}
          /\ UNCHANGED log
       \/ /\ log' = log \union {record}
          /\ spoilt' = IF torn THEN spoilt \union unended \union {record} ELSE spoilt
          /\ unended' = IF torn THEN {} ELSE {record}
          /\ UNCHANGED decodable

\* The append raises, whatever has come to the file.
AppendFails(record) ==
    /\ "disk" \in Faults
    /\ failures < MaxFailures /\ failures' = failures + 1
    /\ \/ WholeLine(record) \/ PartialLine(record)
       \/ UNCHANGED <<log, torn, unended, spoilt, decodable>>
    /\ stray' = stray \union ({record} \intersect log')

\* Mutant: the cache is updated before the append is known to have worked.
WriteCacheFirst(record) ==
    /\ cache' = [cache EXCEPT ![record.signal] = record]
    /\ UNCHANGED lost
    /\ \/ WholeLine(record) /\ UNCHANGED <<failures, stray>>
       \/ AppendFails(record)

\* write: the append comes first; when it fails the cache stays as it was.
Write(record) ==
    \/ /\ WholeLine(record)
       /\ cache' = [cache EXCEPT ![record.signal] = record]
       /\ UNCHANGED <<lost, failures, stray>>
    \/ /\ AppendFails(record)
       /\ lost' = IF stage = "answer" THEN lost \union {record.signal} ELSE lost
       /\ UNCHANGED cache

\* _finalize: execute ends with a record.  No two records have one time.
Finalize(outcome) ==
    /\ clock < MaxClock
    /\ clock' = clock + 1
    /\ Write([signal |-> signal, at |-> clock', outcome |-> outcome])
    /\ stage' = "idle" /\ signal' = None
    /\ UNCHANGED <<inputs, sent>>
-----------------------------------------------------------------------------
(* The runner *)

\* ShutdownChecker.check, of the runner and of the gateway.
RunnerStopped == killFile \/ event
Stopped == killFile \/ (EventWired /\ event)

\* The runner looks at the stop inputs, then has the strategy work on a symbol.
TakeSymbol(s) ==
    /\ stage = "idle"
    /\ ~RunnerStopped
    /\ stage' = "generate" /\ signal' = s
    /\ UNCHANGED <<clock, inputs, memory, sent>>

\* Only a signal that is not FLAT is given to execute.
Generate ==
    /\ stage = "generate"
    /\ stage' = "check1"
    /\ UNCHANGED <<clock, inputs, signal, memory, sent>>

NoSignal ==
    /\ stage = "generate"
    /\ stage' = "idle" /\ signal' = None
    /\ UNCHANGED <<clock, inputs, memory, sent>>
-----------------------------------------------------------------------------
(* The stages of execute *)

Pass ==
    /\ stage' = Following[stage]
    /\ UNCHANGED <<clock, inputs, signal, memory, sent>>

\* Mutant: the check before the order is gone.
StopCheckNotLast ==
    /\ stage \in Checks
    /\ \/ Stopped /\ stage # "check5" /\ Finalize("rejected")
       \/ (~Stopped \/ stage = "check5") /\ Pass

StopCheck ==
    /\ stage \in Checks
    /\ \/ Stopped /\ Finalize("rejected")
       \/ ~Stopped /\ Pass

Validate ==
    /\ stage = "validate"
    /\ \/ signal \in Weak /\ Finalize("skipped")
       \/ signal \notin Weak /\ Finalize("rejected")  \* not tradable
       \/ signal \notin Weak /\ Pass

Dedup ==
    /\ stage = "dedup"
    /\ \/ IsDuplicate(signal) /\ Finalize("skipped")
       \/ ~IsDuplicate(signal) /\ Pass

FetchAccount ==
    /\ stage = "account"
    /\ Finalize("error") \/ Pass

Size ==
    /\ stage = "sizing"
    /\ \/ Finalize("error")      \* the quote
       \/ Finalize("rejected")
       \/ Pass

AssessRisk ==
    /\ stage = "risk"
    /\ Finalize("rejected") \/ Pass

\* Nothing catches an exception of fetch_open_orders or of a gate; the runner
\* does, and goes on.
RiskRaises ==
    /\ "query" \in Faults
    /\ stage = "risk"
    /\ stage' = "idle" /\ signal' = None
    /\ UNCHANGED <<clock, inputs, memory, sent>>

AskApproval ==
    /\ stage = "approval"
    /\ Finalize("error") \/ Finalize("rejected") \/ Pass

Submit ==
    /\ stage = "submit"
    /\ stage' = "answer"
    /\ sent' = sent \union {[signal |-> signal, at |-> clock]}
    /\ UNCHANGED <<clock, inputs, signal, memory>>

\* submit_order returns or raises; an order may have been placed all the same.
Answer ==
    /\ stage = "answer"
    /\ \E o \in {"submitted", "rejected", "error"} : Finalize(o)
-----------------------------------------------------------------------------
(* The surroundings *)

\* The operator creates the file, Ctrl-C sets the event.
Stop ==
    /\ \/ ~killFile /\ killFile' = TRUE /\ UNCHANGED event
       \/ ~event /\ event' = TRUE /\ UNCHANGED killFile
    /\ racing' = IF Stopped THEN racing ELSE stage = "submit"
    /\ UNCHANGED <<clock, stage, signal, memory, sent>>

RemoveKillFile ==
    /\ killFile
    /\ killFile' = FALSE
    /\ racing' = (racing /\ EventWired /\ event)
    /\ UNCHANGED <<clock, event, stage, signal, memory, sent>>

\* The process dies and is started again.  A file that is no UTF-8 makes
\* _load_recent raise UnicodeDecodeError, which nothing catches.
Restart ==
    /\ "crash" \in Faults
    /\ signal' = None
    /\ event' = FALSE /\ racing' = FALSE
    /\ lost' = IF stage = "answer" THEN lost \union {signal} ELSE lost
    /\ \/ /\ decodable
          /\ stage' = "idle"
          /\ cache' = [s \in Signals |-> LoadRecent(s)]
          /\ stray' = {}
       \/ ~decodable /\ stage' = "down" /\ UNCHANGED <<cache, stray>>
    /\ UNCHANGED <<clock, killFile, log, torn, unended, spoilt, decodable,
                   failures, sent>>

Tick ==
    /\ clock < MaxClock
    /\ clock' = clock + 1
    /\ UNCHANGED <<inputs, stage, signal, memory, sent>>

Execute ==
    \/ Generate
    \/ NoSignal
    \/ StopCheck
    \/ Validate
    \/ Dedup
    \/ FetchAccount
    \/ Size
    \/ AssessRisk
    \/ RiskRaises
    \/ AskApproval
    \/ Submit
    \/ Answer

Next ==
    \/ \E s \in Signals : TakeSymbol(s)
    \/ Execute
    \/ Stop
    \/ RemoveKillFile
    \/ Restart
    \/ Tick

Spec == Init /\ [][Next]_vars
-----------------------------------------------------------------------------
(* What must hold *)

Known(entry) == entry # None /\ Fresh(entry)

\* A restart changes what is known of a signal inside the window only if one
\* of its own records there was joined to a torn line, or was left in the file
\* by an append that failed.
MemoryIsOnDisk ==
    \A s \in Signals :
        LET loaded == LoadRecent(s) IN
        (\A r \in spoilt \union stray : r.signal = s => ~Fresh(r)) =>
            IF loaded = None THEN ~Known(cache[s]) ELSE cache[s] = loaded

\* A signal is ordered again inside the window only if a SKIPPED record came
\* after its first order, if no record of that order could be written, or if a
\* record that came after it was joined to a torn line.
ReorderedOnlyAfterSkip ==
    \A first, second \in sent :
        /\ first.signal = second.signal
        /\ first.at < second.at /\ second.at - first.at <= Window
        => \/ first.signal \in lost
           \/ \E r \in log : /\ r.signal = first.signal
                             /\ r.outcome = "skipped" \/ r \in spoilt
                             /\ first.at < r.at /\ r.at <= second.at

\* Whatever stops the gateway stops every run that is not past its last check.
StopHolds == Stopped /\ stage = "submit" => racing

\* execution_record.py:13: a signal is not executed again within the window.
OncePerWindow ==
    \A first, second \in sent :
        first.signal = second.signal /\ first.at < second.at =>
            second.at - first.at > Window
-----------------------------------------------------------------------------
(* The inductive invariant.  It holds for any signals, window and wiring. *)

\* Nothing happens in the future, and one record has one time.
InThePast ==
    /\ \A o \in sent : o.at <= clock
    /\ \A r \in log : r.at <= clock
    /\ \A r, q \in log : r.at = q.at => r = q

\* The cache holds the latest record of each signal that can be read and was
\* told of, at least while it counts.
CacheIsLatest ==
    \A s \in Signals :
        /\ cache[s] # None => cache[s] \in log \ stray /\ cache[s].signal = s
        /\ \A r \in log \ (spoilt \union stray) : r.signal = s /\ Fresh(r) =>
              cache[s] # None /\ r.at <= cache[s].at

Busy == stage \notin {"idle", "down"} => signal \in Signals

\* Every order but the one in flight has a later record, or is lost.
OrdersRecorded ==
    \A o \in sent :
        \/ o.signal \in lost
        \/ stage = "answer" /\ o.signal = signal
        \/ \E r \in log \ stray : r.signal = o.signal /\ o.at < r.at

\* The order may be followed by another one at t.
Excused(o, t) ==
    \/ o.signal \in lost
    \/ \E r \in log : /\ r.signal = o.signal
                      /\ r.outcome = "skipped" \/ r \in spoilt
                      /\ o.at < r.at /\ r.at <= t

AfterDedup == {"check2", "account", "sizing", "check3", "risk", "check4",
               "approval", "check5", "submit"}

\* Whoever has passed the duplicate check may order.
DedupPassed ==
    stage \in AfterDedup =>
        \A o \in sent :
            o.signal = signal /\ clock - o.at <= Window => Excused(o, clock)

Orders ==
    \A first, second \in sent :
        /\ first.signal = second.signal
        /\ first.at < second.at /\ second.at - first.at <= Window
        => Excused(first, second.at)

History == InThePast /\ CacheIsLatest /\ OrdersRecorded /\ DedupPassed /\ Orders

PipelineInv == TypeOK /\ Busy /\ History
-----------------------------------------------------------------------------
(* Types *)

USE DEF file, FileTypes

\* A record that execute writes keeps the types and ends the run.
LEMMA FinalizeTypes ==
    ASSUME TypeOK, NEW o \in Outcomes, signal \in Signals, Finalize(o)
    PROVE  TypeOK' /\ Busy'
<1> DEFINE rec == [signal |-> signal, at |-> clock + 1, outcome |-> o]
<1>1. rec \in Records /\ rec.signal = signal
  BY DEF TypeOK, Records
<1>2. clock' = clock + 1 /\ Write(rec) /\ stage' = "idle" /\ signal' = None
      /\ UNCHANGED <<inputs, sent>>
  BY DEF Finalize
<1>3. cache' \in [Signals -> Records \union {None}] /\ lost' \subseteq Signals
  BY <1>1, <1>2 DEF Write, TypeOK, Records
<1>4. FileTypes'
  <2> HIDE DEF rec
  <2>2. CASE WholeLine(rec) /\ UNCHANGED <<failures, stray>>
    BY <1>1, <2>2 DEF WholeLine, FileTypes, TypeOK
  <2>3. CASE AppendFails(rec)
    <3>1. failures' \in Nat /\ stray' = stray \union ({rec} \intersect log')
      BY <2>3 DEF AppendFails, TypeOK
    <3>2. CASE WholeLine(rec)
      BY <1>1, <3>1, <3>2 DEF WholeLine, TypeOK
    <3>3. CASE PartialLine(rec)
      BY <1>1, <3>1, <3>3 DEF PartialLine, TypeOK
    <3>4. CASE UNCHANGED <<log, torn, unended, spoilt, decodable>>
      BY <3>1, <3>4 DEF TypeOK
    <3> QED BY <2>3, <3>2, <3>3, <3>4 DEF AppendFails
  <2> QED BY <1>2, <2>2, <2>3 DEF Write
<1> HIDE DEF rec
<1> QED BY <1>2, <1>3, <1>4 DEF TypeOK, Busy, inputs, Stages, Records

LEMMA PassTypes ==
    ASSUME TypeOK, Busy, stage \in DOMAIN Following, Pass
    PROVE  TypeOK' /\ Busy'
<1>1. stage' \in Stages /\ stage \notin {"idle", "down"}
  BY DEF Pass, Following, Stages
<1> QED BY <1>1 DEF TypeOK, Busy, Pass, inputs, memory, Records

\* Of records that lie in the past one is the latest.
LEMMA LatestExists ==
    ASSUME clock \in Nat, NEW S \in SUBSET Records, S # {},
           \A r \in S : r.at <= clock
    PROVE  \E r \in S : \A q \in S : q.at <= r.at
<1> DEFINE Ages == {clock - r.at : r \in S}
<1>1. \A r \in S : r.at \in Nat /\ clock - r.at \in Nat
  BY DEF Records
<1>2. Ages # {} /\ Ages \subseteq Nat
  BY <1>1
<1>3. IsWellFoundedOn(OpToRel(<, Nat), Nat)
  BY NatLessThanWellFounded
<1>4. PICK a \in Ages : \A b \in Ages : ~(b < a)
  <2> HIDE DEF Ages
  <2>1. PICK a \in Ages : \A b \in Ages : ~(<<b, a>> \in OpToRel(<, Nat))
    BY <1>2, <1>3, WFMin
  <2> QED BY <1>2, <2>1 DEF OpToRel
<1>5. PICK r \in S : a = clock - r.at
  BY <1>4
<1>6. ASSUME NEW q \in S PROVE q.at <= r.at
  <2>1. ~(clock - q.at < clock - r.at)
    BY <1>4, <1>5
  <2>2. q.at \in Nat /\ r.at \in Nat
    BY <1>1
  <2> QED BY <2>1, <2>2
<1> QED BY <1>6

\* _load_recent returns the latest record that can be read, or nothing.
LEMMA LoadedTypes ==
    ASSUME TypeOK, InThePast, NEW s \in Signals
    PROVE  \/ /\ LoadRecent(s) = None
              /\ \A r \in log \ spoilt : r.signal = s => ~Fresh(r)
           \/ /\ LoadRecent(s) \in log \ spoilt /\ LoadRecent(s).signal = s
              /\ Fresh(LoadRecent(s)) /\ LoadRecent(s) # None
              /\ \A r \in log \ spoilt : r.signal = s /\ Fresh(r) =>
                    r.at <= LoadRecent(s).at
<1> DEFINE recent == {r \in log \ spoilt : r.signal = s /\ Fresh(r)}
<1>1. CASE recent = {}
  <2>1. LoadRecent(s) = None
    BY <1>1 DEF LoadRecent
  <2> QED BY <1>1, <2>1
<1>2. CASE recent # {}
  <2>1. \A r \in recent : r.at \in Nat /\ r.at <= clock /\ r # None
    BY NoneAssumption DEF TypeOK, FileTypes, Records, InThePast
  <2>2. PICK r \in recent : \A q \in recent : q.at <= r.at
    <3>1. recent \in SUBSET Records
      BY DEF TypeOK, FileTypes
    <3> HIDE DEF recent
    <3> QED BY <1>2, <2>1, <3>1, LatestExists DEF TypeOK
  <2>3. LoadRecent(s) \in recent /\ \A q \in recent : q.at <= LoadRecent(s).at
    <3>1. LoadRecent(s) = CHOOSE p \in recent : \A q \in recent : q.at <= p.at
      BY <1>2 DEF LoadRecent
    <3> QED BY <2>2, <3>1
  <2> QED BY <2>1, <2>3
<1> QED BY <1>1, <1>2
-----------------------------------------------------------------------------
(* History *)

\* A step that touches neither the log nor the orders keeps what is known.
LEMMA QuietKeeps ==
    ASSUME PipelineInv, UNCHANGED <<clock, memory, sent>>,
           stage = "answer" => stage' = "answer" /\ signal' = signal,
           stage' \in AfterDedup => stage \in AfterDedup /\ signal' = signal
    PROVE  History'
<1> USE DEF PipelineInv, History
<1>1. UNCHANGED <<clock, cache, log, spoilt, stray, lost, sent>>
  BY DEF memory
<1>2. InThePast' /\ CacheIsLatest' /\ Orders'
  BY <1>1 DEF InThePast, CacheIsLatest, Orders, Excused, Fresh
<1>3. OrdersRecorded'
  BY <1>1 DEF OrdersRecorded
<1>4. DedupPassed'
  BY <1>1 DEF DedupPassed, Excused
<1> QED BY <1>2, <1>3, <1>4

LEMMA TickKeeps ==
    ASSUME PipelineInv, Tick
    PROVE  History'
<1> USE DEF PipelineInv, History
<1>1. clock' = clock + 1 /\ clock \in Nat /\ Window \in Nat
      /\ UNCHANGED <<stage, signal, cache, log, spoilt, stray, lost, sent>>
  BY WindowAssumption DEF Tick, memory, TypeOK
<1>2. (\A r \in log : r.at \in Nat) /\ (\A o \in sent : o.at \in Nat)
  BY DEF TypeOK, Records
<1>3. InThePast'
  BY <1>1, <1>2 DEF InThePast
<1>4. CacheIsLatest'
  BY <1>1, <1>2 DEF CacheIsLatest, Fresh
<1>5. OrdersRecorded'
  BY <1>1 DEF OrdersRecorded
<1>6. DedupPassed'
  BY <1>1, <1>2 DEF DedupPassed, Excused
<1>7. Orders'
  BY <1>1 DEF Orders, Excused
<1> QED BY <1>3, <1>4, <1>5, <1>6, <1>7

\* What an append does to the file, whether it is told to have failed or not.
Appends(record) ==
    /\ log \subseteq log' /\ log' \subseteq log \union {record}
    /\ spoilt \subseteq spoilt'

\* The record of a run tells of its order, unless the disk fails.
LEMMA FinalizeKeeps ==
    ASSUME PipelineInv, NEW o \in Outcomes, signal \in Signals, Finalize(o)
    PROVE  History'
<1> USE DEF PipelineInv, History
<1> DEFINE rec == [signal |-> signal, at |-> clock + 1, outcome |-> o]
<1>1. clock' = clock + 1 /\ Write(rec) /\ stage' = "idle" /\ sent' = sent
  BY DEF Finalize
<1>2. clock \in Nat /\ Window \in Nat /\ rec \in Records /\ rec.signal = signal
      /\ rec.at = clock + 1
  BY WindowAssumption DEF TypeOK, Records
<1> HIDE DEF rec
<1>3. (\A r \in log : r.at \in Nat) /\ (\A p \in sent : p.at \in Nat)
  BY DEF TypeOK, Records
<1>4. rec \notin log
  BY <1>2, <1>3 DEF InThePast
<1>5. Appends(rec)
  BY <1>1 DEF Write, AppendFails, WholeLine, PartialLine, Appends
<1>6. InThePast'
  <2>1. \A r \in log : r.at <= clock
    BY DEF InThePast
  <2> QED BY <1>1, <1>2, <1>3, <1>5, <2>1 DEF InThePast, Appends
<1>7. Orders'
  <2>1. \A p \in sent, t \in Nat : Excused(p, t) => Excused(p, t)'
    BY <1>1, <1>5 DEF Excused, Appends, Write
  <2> QED BY <1>1, <1>3, <2>1 DEF Orders
<1>8. DedupPassed'
  BY <1>1 DEF DedupPassed, AfterDedup
<1>9. \A r \in log : Fresh(r)' => Fresh(r)
  BY <1>1, <1>2, <1>3 DEF Fresh
<1>10. CASE /\ WholeLine(rec) /\ cache' = [cache EXCEPT ![signal] = rec]
            /\ lost' = lost /\ stray' = stray
  <2>1. CacheIsLatest'
    <3> SUFFICES ASSUME NEW s \in Signals
                 PROVE  /\ cache'[s] # None => cache'[s] \in log' \ stray' /\ cache'[s].signal = s
                        /\ \A r \in log' \ (spoilt' \union stray') : r.signal = s /\ Fresh(r)' =>
                              cache'[s] # None /\ r.at <= cache'[s].at
      BY <1>1 DEF CacheIsLatest, Fresh
    <3>1. rec \in log' /\ rec \notin stray'
      BY <1>4, <1>10 DEF WholeLine, TypeOK
    <3>2. CASE s = signal
      <4>1. cache'[s] = rec /\ rec # None
        BY <1>2, <1>10, <3>2, NoneAssumption DEF TypeOK
      <4>2. \A r \in log' : r.at <= clock + 1
        BY <1>1, <1>6 DEF InThePast
      <4> QED BY <1>2, <3>1, <3>2, <4>1, <4>2
    <3>3. CASE s # signal
      <4>1. cache'[s] = cache[s]
        BY <1>10, <3>3 DEF TypeOK
      <4>2. \A r \in log' \ (spoilt' \union stray') :
               r.signal = s => r \in log \ (spoilt \union stray)
        BY <1>2, <1>5, <1>10, <3>3 DEF Appends
      <4> QED BY <1>5, <1>9, <1>10, <4>1, <4>2 DEF CacheIsLatest, Appends
    <3> QED BY <3>2, <3>3
  <2>2. OrdersRecorded'
    <3>1. rec \in log' \ stray'
      BY <1>4, <1>10 DEF WholeLine, TypeOK
    <3>2. \A p \in sent : p.at < clock + 1
      BY <1>2, <1>3 DEF InThePast
    <3> QED BY <1>1, <1>2, <1>5, <1>10, <3>1, <3>2 DEF OrdersRecorded, Appends
  <2> QED BY <1>6, <1>7, <1>8, <2>1, <2>2
<1>11. CASE /\ AppendFails(rec) /\ cache' = cache
            /\ lost' = IF stage = "answer" THEN lost \union {signal} ELSE lost
  <2>1. stray \subseteq stray' /\ log' \ stray' = log \ stray
    BY <1>4, <1>5, <1>11 DEF AppendFails, Appends, TypeOK
  <2>2. CacheIsLatest'
    BY <1>5, <1>9, <1>11, <2>1 DEF CacheIsLatest, Appends
  <2>3. OrdersRecorded'
    BY <1>1, <1>11, <2>1 DEF OrdersRecorded
  <2> QED BY <1>6, <1>7, <1>8, <2>2, <2>3
<1> QED BY <1>1, <1>2, <1>10, <1>11 DEF Write

\* What is no duplicate has no order inside the window, or a SKIPPED record
\* since: the latest record says so, and it is younger than the order.
LEMMA DedupKeeps ==
    ASSUME PipelineInv, signal \in Signals, stage = "dedup",
           ~IsDuplicate(signal), Pass
    PROVE  History'
<1> USE DEF PipelineInv, History
<1>1. UNCHANGED <<clock, cache, log, spoilt, stray, lost, sent, signal>> /\ stage' = "check2"
  BY DEF Pass, memory, Following
<1>2. clock \in Nat /\ Window \in Nat
  BY WindowAssumption DEF TypeOK
<1>3. DedupPassed'
  <2> SUFFICES ASSUME NEW o \in sent, o.signal = signal, clock - o.at <= Window,
                      o.signal \notin lost
               PROVE  \E r \in log : /\ r.signal = o.signal
                                     /\ r.outcome = "skipped" \/ r \in spoilt
                                     /\ o.at < r.at /\ r.at <= clock
    BY <1>1 DEF DedupPassed, Excused
  <2>1. PICK r \in log \ stray : r.signal = signal /\ o.at < r.at
    BY DEF OrdersRecorded
  <2>2. o.at \in Nat /\ r.at \in Nat /\ r.at <= clock
    BY DEF TypeOK, Records, InThePast
  <2>3. CASE r \in spoilt
    BY <2>1, <2>2, <2>3
  <2>4. CASE r \notin spoilt
    <3>1. Fresh(r)
      BY <1>2, <2>1, <2>2 DEF Fresh
    <3>2. cache[signal] # None /\ r.at <= cache[signal].at /\ cache[signal] \in log
          /\ cache[signal].signal = signal
      BY <2>1, <2>4, <3>1 DEF CacheIsLatest
    <3>3. cache[signal].at \in Nat /\ cache[signal].at <= clock
      BY <3>2 DEF TypeOK, Records, InThePast
    <3>4. Fresh(cache[signal])
      BY <1>2, <2>2, <3>1, <3>2, <3>3 DEF Fresh
    <3>5. cache[signal].outcome = "skipped"
      BY <3>2, <3>4 DEF IsDuplicate
    <3>6. o.at < cache[signal].at
      BY <2>1, <2>2, <3>2, <3>3
    <3> QED BY <3>2, <3>3, <3>5, <3>6
  <2> QED BY <2>3, <2>4
<1>4. InThePast' /\ CacheIsLatest' /\ Orders'
  BY <1>1 DEF InThePast, CacheIsLatest, Orders, Excused, Fresh
<1>5. OrdersRecorded'
  BY <1>1 DEF OrdersRecorded
<1> QED BY <1>3, <1>4, <1>5

LEMMA SubmitKeeps ==
    ASSUME PipelineInv, Submit
    PROVE  History'
<1> USE DEF PipelineInv, History
<1> DEFINE new == [signal |-> signal, at |-> clock]
<1>1. UNCHANGED <<clock, cache, log, spoilt, stray, lost, signal>> /\ stage = "submit"
      /\ stage' = "answer" /\ sent' = sent \union {new} /\ clock \in Nat
  BY DEF Submit, memory, TypeOK
<1>2. InThePast' /\ CacheIsLatest'
  BY <1>1 DEF InThePast, CacheIsLatest, Fresh
<1>3. OrdersRecorded'
  BY <1>1 DEF OrdersRecorded
<1>4. DedupPassed'
  BY <1>1 DEF DedupPassed, AfterDedup
<1>5. Orders'
  <2> SUFFICES ASSUME NEW first \in sent', NEW second \in sent',
                      first.signal = second.signal, first.at < second.at,
                      second.at - first.at <= Window
               PROVE  Excused(first, second.at)
    BY <1>1 DEF Orders, Excused
  <2>1. (\A o \in sent : o.at \in Nat /\ o.at <= clock) /\ new.at = clock
    BY DEF TypeOK, InThePast
  <2>2. first \in sent
    BY <1>1, <2>1
  <2>3. CASE second \in sent
    BY <2>2, <2>3 DEF Orders
  <2>4. CASE second = new
    BY <1>1, <2>2, <2>4 DEF DedupPassed, AfterDedup
  <2> QED BY <1>1, <2>3, <2>4
<1> QED BY <1>2, <1>3, <1>4, <1>5

\* A restart reads back what can be read; the orders stay excused.
LEMMA RestartKeeps ==
    ASSUME PipelineInv, Restart
    PROVE  PipelineInv'
<1> USE DEF PipelineInv, History
<1>1. /\ UNCHANGED <<clock, log, torn, unended, spoilt, decodable, failures, sent>>
      /\ stage' \in {"idle", "down"} /\ signal' = None
      /\ lost' = (IF stage = "answer" THEN lost \union {signal} ELSE lost)
      /\ \/ cache' = [s \in Signals |-> LoadRecent(s)] /\ stray' = {}
         \/ UNCHANGED <<cache, stray>>
  BY DEF Restart
<1>2. \A s \in Signals : LoadRecent(s) \in Records \union {None}
  BY LoadedTypes DEF TypeOK
<1>3. TypeOK' /\ Busy'
  <2>1. cache' \in [Signals -> Records \union {None}]
    BY <1>1, <1>2 DEF TypeOK
  <2>2. lost' \subseteq Signals
    BY <1>1 DEF TypeOK, Busy
  <2>3. event' = FALSE /\ racing' = FALSE /\ killFile' = killFile
    BY DEF Restart
  <2>4. FileTypes'
    BY <1>1 DEF TypeOK
  <2> QED BY <1>1, <2>1, <2>2, <2>3, <2>4 DEF TypeOK, Busy, Stages
<1>4. CacheIsLatest'
  <2>1. CASE UNCHANGED <<cache, stray>>
    BY <1>1, <2>1 DEF CacheIsLatest, Fresh
  <2>2. CASE cache' = [s \in Signals |-> LoadRecent(s)] /\ stray' = {}
    <3> SUFFICES ASSUME NEW s \in Signals
                 PROVE  /\ cache'[s] # None => cache'[s] \in log /\ cache'[s].signal = s
                        /\ \A r \in log \ spoilt : r.signal = s /\ Fresh(r) =>
                              cache'[s] # None /\ r.at <= cache'[s].at
      BY <1>1, <2>2 DEF CacheIsLatest, Fresh
    <3>1. cache'[s] = LoadRecent(s)
      BY <2>2
    <3> QED BY <3>1, LoadedTypes
  <2> QED BY <1>1, <2>1, <2>2
<1>5. InThePast' /\ Orders'
  BY <1>1 DEF InThePast, Orders, Excused
<1>6. OrdersRecorded'
  BY <1>1 DEF OrdersRecorded
<1>7. DedupPassed'
  BY <1>1 DEF DedupPassed, AfterDedup
<1> QED BY <1>3, <1>4, <1>5, <1>6, <1>7
-----------------------------------------------------------------------------
(* Every step *)

LEMMA InvInit == Init => PipelineInv
<1> SUFFICES ASSUME Init PROVE PipelineInv
  OBVIOUS
<1>1. TypeOK /\ Busy
  BY DEF Init, TypeOK, Busy, Stages
<1>2. History
  BY DEF Init, History, InThePast, CacheIsLatest, OrdersRecorded, DedupPassed,
         Orders, AfterDedup
<1> QED BY <1>1, <1>2 DEF PipelineInv

LEMMA PassKeeps ==
    ASSUME PipelineInv, stage \in DOMAIN Following, stage # "dedup", Pass
    PROVE  PipelineInv'
<1>1. TypeOK' /\ Busy'
  BY PassTypes DEF PipelineInv
<1>2. /\ UNCHANGED <<clock, memory, sent>>
      /\ stage # "answer"
      /\ stage' \in AfterDedup => stage \in AfterDedup /\ signal' = signal
  BY DEF Pass, Following, AfterDedup
<1>3. History'
  BY <1>2, QuietKeeps
<1> QED BY <1>1, <1>3 DEF PipelineInv

LEMMA RecordKeeps ==
    ASSUME PipelineInv, NEW o \in Outcomes, stage \notin {"idle", "down"}, Finalize(o)
    PROVE  PipelineInv'
<1>1. signal \in Signals
  BY DEF PipelineInv, Busy
<1>2. TypeOK' /\ Busy'
  BY <1>1, FinalizeTypes DEF PipelineInv
<1>3. History'
  BY <1>1, FinalizeKeeps
<1> QED BY <1>2, <1>3 DEF PipelineInv

LEMMA InvStep == PipelineInv /\ [Next]_vars => PipelineInv'
<1> SUFFICES ASSUME PipelineInv, [Next]_vars PROVE PipelineInv'
  OBVIOUS
<1>0. TypeOK /\ Busy
  BY DEF PipelineInv
<1>1. ASSUME NEW s \in Signals, TakeSymbol(s) PROVE PipelineInv'
  <2>1. stage = "idle" /\ stage' = "generate" /\ signal' = s
        /\ UNCHANGED <<clock, inputs, memory, sent>>
    BY <1>1 DEF TakeSymbol
  <2>2. TypeOK' /\ Busy'
    BY <1>0, <2>1 DEF TypeOK, Busy, inputs, memory, Stages, Records
  <2>3. History'
    BY <2>1, QuietKeeps DEF AfterDedup
  <2> QED BY <2>2, <2>3 DEF PipelineInv
<1>2. ASSUME Generate \/ NoSignal \/ RiskRaises PROVE PipelineInv'
  <2>1. /\ stage \in {"generate", "risk"}
        /\ \/ stage' = "check1" /\ signal' = signal
           \/ stage' = "idle" /\ signal' = None
        /\ UNCHANGED <<clock, inputs, memory, sent>>
    BY <1>2 DEF Generate, NoSignal, RiskRaises
  <2>2. TypeOK' /\ Busy'
    BY <1>0, <2>1 DEF TypeOK, Busy, inputs, memory, Stages, Following, Records
  <2>3. History'
    BY <2>1, QuietKeeps DEF AfterDedup
  <2> QED BY <2>2, <2>3 DEF PipelineInv
<1>3. CASE StopCheck
  <2>1. stage \in DOMAIN Following /\ stage # "dedup" /\ stage \notin {"idle", "down"}
    BY <1>3 DEF StopCheck, Checks, Following
  <2>2. Finalize("rejected") \/ Pass
    BY <1>3 DEF StopCheck
  <2> QED BY <2>1, <2>2, PassKeeps, RecordKeeps DEF Outcomes
<1>4. CASE Validate \/ FetchAccount \/ Size \/ AssessRisk \/ AskApproval
  <2>1. stage \in DOMAIN Following /\ stage # "dedup" /\ stage \notin {"idle", "down"}
    BY <1>4 DEF Validate, FetchAccount, Size, AssessRisk, AskApproval, Following
  <2>2. Finalize("skipped") \/ Finalize("rejected") \/ Finalize("error") \/ Pass
    BY <1>4 DEF Validate, FetchAccount, Size, AssessRisk, AskApproval
  <2> QED BY <2>1, <2>2, PassKeeps, RecordKeeps DEF Outcomes
<1>5. CASE Dedup
  <2>1. stage = "dedup" /\ stage \in DOMAIN Following /\ signal \in Signals
    BY <1>0, <1>5 DEF Dedup, Following, Busy
  <2>2. CASE Finalize("skipped")
    BY <2>1, <2>2, RecordKeeps DEF Outcomes
  <2>3. CASE ~IsDuplicate(signal) /\ Pass
    BY <1>0, <2>1, <2>3, PassTypes, DedupKeeps DEF PipelineInv
  <2> QED BY <1>5, <2>2, <2>3 DEF Dedup
<1>6. CASE Submit
  <2>1. TypeOK' /\ Busy'
    BY <1>0, <1>6 DEF Submit, TypeOK, Busy, inputs, memory, Stages, Records
  <2> QED BY <1>6, <2>1, SubmitKeeps DEF PipelineInv
<1>7. CASE Answer
  BY <1>7, RecordKeeps DEF Answer, Outcomes
<1>8. CASE Stop \/ RemoveKillFile
  <2>1. UNCHANGED <<clock, stage, signal, memory, sent>>
    BY <1>8 DEF Stop, RemoveKillFile
  <2>2. killFile' \in BOOLEAN /\ event' \in BOOLEAN /\ racing' \in BOOLEAN
    <3>1. CASE Stop
      BY <1>0, <3>1 DEF Stop, TypeOK
    <3>2. CASE RemoveKillFile
      BY <1>0, <3>2 DEF RemoveKillFile, TypeOK
    <3> QED BY <1>8, <3>1, <3>2
  <2>3. TypeOK' /\ Busy'
    BY <1>0, <2>1, <2>2 DEF TypeOK, Busy, memory, Records
  <2>4. History'
    BY <2>1, QuietKeeps
  <2> QED BY <2>3, <2>4 DEF PipelineInv
<1>9. CASE Restart
  BY <1>9, RestartKeeps
<1>10. CASE Tick
  <2>1. TypeOK' /\ Busy'
    BY <1>0, <1>10 DEF Tick, TypeOK, Busy, inputs, memory, Records
  <2> QED BY <1>10, <2>1, TickKeeps DEF PipelineInv
<1>11. CASE UNCHANGED vars
  <2>1. UNCHANGED <<clock, inputs, stage, signal, memory, sent>>
    BY <1>11 DEF vars
  <2>2. TypeOK' /\ Busy'
    BY <1>0, <2>1 DEF TypeOK, Busy, inputs, memory, Records
  <2>3. History'
    BY <2>1, QuietKeeps
  <2> QED BY <2>2, <2>3 DEF PipelineInv
<1> QED BY <1>1, <1>2, <1>3, <1>4, <1>5, <1>6, <1>7, <1>8, <1>9, <1>10, <1>11
        DEF Next, Execute

\* The invariant holds throughout every behaviour of the pipeline.
THEOREM PipelineInvariant == Spec => []PipelineInv
BY InvInit, InvStep, PTL DEF Spec
-----------------------------------------------------------------------------
(* What it means *)

\* The pipeline's state keeps its types under any stops, failures and restarts.
THEOREM PipelineTypeCorrect == Spec => []TypeOK
BY PipelineInvariant, PTL DEF PipelineInv

\* A restart between any two steps changes no verdict of is_duplicate, unless
\* a record of the signal inside the window was joined to a torn line or was
\* left in the file by an append that failed.
THEOREM MemoryIsOnDiskAlways == Spec => []MemoryIsOnDisk
<1>1. PipelineInv => MemoryIsOnDisk
  <2> SUFFICES ASSUME PipelineInv, NEW s \in Signals,
                      \A r \in spoilt \union stray : r.signal = s => ~Fresh(r)
               PROVE  IF LoadRecent(s) = None THEN ~Known(cache[s])
                      ELSE cache[s] = LoadRecent(s)
    BY DEF MemoryIsOnDisk
  <2> USE DEF PipelineInv, History
  <2>1. Known(cache[s]) => cache[s] \in log \ spoilt /\ cache[s].signal = s
    BY DEF CacheIsLatest, Known
  <2>2. CASE LoadRecent(s) = None
    BY <2>1, <2>2, LoadedTypes DEF Known
  <2>3. CASE LoadRecent(s) # None
    <3>1. /\ LoadRecent(s) \in log \ (spoilt \union stray) /\ LoadRecent(s).signal = s
          /\ Fresh(LoadRecent(s))
      BY <2>3, LoadedTypes
    <3>2. cache[s] # None /\ LoadRecent(s).at <= cache[s].at /\ cache[s] \in log
          /\ cache[s].signal = s
      BY <3>1 DEF CacheIsLatest
    <3>3. /\ LoadRecent(s).at \in Nat /\ cache[s].at \in Nat
          /\ clock \in Nat /\ Window \in Nat
      BY <3>1, <3>2, WindowAssumption DEF TypeOK, Records
    <3>4. Fresh(cache[s])
      BY <3>1, <3>2, <3>3 DEF Fresh
    <3>5. cache[s].at <= LoadRecent(s).at
      BY <2>1, <2>3, <3>2, <3>4, LoadedTypes DEF Known
    <3>6. LoadRecent(s).at = cache[s].at
      BY <3>2, <3>3, <3>5
    <3> QED BY <2>3, <3>1, <3>2, <3>6 DEF InThePast
  <2> QED BY <2>2, <2>3
<1> QED BY <1>1, PipelineInvariant, PTL

\* A second order for a signal inside the window needs a SKIPPED record in
\* between, a first order whose record was never written, or a later record
\* that was joined to a torn line.
THEOREM ReorderedOnlyAfterSkipAlways == Spec => []ReorderedOnlyAfterSkip
<1>1. PipelineInv => ReorderedOnlyAfterSkip
  BY DEF PipelineInv, History, Orders, Excused, ReorderedOnlyAfterSkip
<1> QED BY <1>1, PipelineInvariant, PTL

\* Once the gateway is stopped, only a run that had passed its last check orders.
THEOREM StopHoldsAlways == Spec => []StopHolds
<1>1. Init => StopHolds
  BY DEF Init, StopHolds
<1>2. PipelineInv /\ StopHolds /\ [Next]_vars => StopHolds'
  <2> SUFFICES ASSUME PipelineInv, StopHolds, [Next]_vars, Stopped', stage' = "submit"
               PROVE  racing'
    BY DEF StopHolds
  <2>1. killFile \in BOOLEAN /\ event \in BOOLEAN /\ racing \in BOOLEAN
    BY DEF PipelineInv, TypeOK
  <2>2. CASE Stop
    BY <2>1, <2>2 DEF Stop, StopHolds, Stopped
  <2>3. CASE RemoveKillFile
    BY <2>1, <2>3 DEF RemoveKillFile, StopHolds, Stopped
  <2>4. CASE StopCheck
    BY <2>4 DEF StopCheck, Finalize, Pass, inputs, Stopped
  <2>5. CASE \E s \in Signals : TakeSymbol(s)
    BY <2>5 DEF TakeSymbol
  <2>6. CASE Generate \/ NoSignal \/ RiskRaises \/ Submit \/ Answer \/ Restart
    BY <2>6 DEF Generate, NoSignal, RiskRaises, Submit, Answer, Restart, Finalize
  <2>7. CASE Validate \/ Dedup \/ FetchAccount \/ Size \/ AssessRisk \/ AskApproval
    BY <2>7 DEF Validate, Dedup, FetchAccount, Size, AssessRisk, AskApproval,
                Finalize, Pass, Following
  <2>8. CASE Tick \/ UNCHANGED vars
    BY <2>8 DEF Tick, vars, inputs, StopHolds, Stopped
  <2> QED BY <2>2, <2>3, <2>4, <2>5, <2>6, <2>7, <2>8 DEF Next, Execute
<1> QED BY <1>1, <1>2, PipelineInvariant, PTL DEF Spec
=============================================================================
