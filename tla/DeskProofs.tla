----------------------------- MODULE DeskProofs -----------------------------
(***************************************************************************)
(* Proofs about what the desk keeps beside the path of an order, for any   *)
(* threads, writers, days, tools, masters, ranges and quotes: the prompts  *)
(* that agents share (PromptCache), the run of an agent and its trail      *)
(* (AgentRun), the stored market data (MarketData), the hours of the       *)
(* exchange (MarketHours), the size and price of an order (OrderSizing)    *)
(* and the split of the capital (StrategyRegistry), and what MCDesk        *)
(* promises of them.                                                       *)
(***************************************************************************)
EXTENDS MCDesk, DecimalsProofs, SequenceTheorems

-----------------------------------------------------------------------------
(* The registry of prompts that threads share *)

NoneIsNoNumber == None \notin Int /\ MaxMade \in Nat \ {0} /\ MaxEdition \in Nat

Reading == {"lookup", "load", "store"}

RegistryTypes ==
    /\ edition \in Nat /\ made \in Nat /\ resets \in Nat
    /\ registry \in {None} \union 1 .. made
    /\ cached \in [1 .. MaxMade -> Nat \union {None}] /\ forgotten \in [1 .. MaxMade -> Nat]
    /\ flying \in [1 .. MaxMade -> SUBSET Readers]
    /\ caller \in [Readers -> Reading \union {"idle", "wait", "inside", "return", "none", "answer"}]
    /\ using \in [Readers -> {None} \union 1 .. made]
    /\ loaded \in [Readers -> Nat \union {None}]

\* One registry for each reset and one more while there is one.
OneForEachReset ==
    /\ registry = None => made = resets /\ made < MaxMade
    /\ registry # None => made = resets + 1 /\ made <= MaxMade

\* What a caller knows where it stands.
ThreadKnows(t) ==
    /\ caller[t] \in Reading => using[t] # None
    /\ caller[t] = "none" \/ (caller[t] = "return" /\ registry = None) => resets > 0
    /\ caller[t] = "store" => loaded[t] # None /\ loaded[t] <= edition

\* A template older than the last clear is, or will be, stored by a caller that
\* had read it before.
OldOnesWereFlying ==
    /\ \A r \in 1 .. MaxMade :
         /\ forgotten[r] <= edition
         /\ cached[r] # None /\ cached[r] < forgotten[r] => flying[r] # {}
    /\ \A t \in Readers :
         caller[t] = "store" /\ loaded[t] < forgotten[using[t]] => flying[using[t]] # {}

RegistryInv ==
    /\ RegistryTypes /\ OneForEachReset /\ OldOnesWereFlying
    /\ \A t \in Readers : ThreadKnows(t)

\* Each step of a caller, an operator or a test keeps it.
LEMMA RegistryInvStep ==
    ASSUME NoneIsNoNumber, RegistryInv, [Shared!Next]_(Shared!vars)
    PROVE  RegistryInv'
<1> USE DEF NoneIsNoNumber, RegistryInv, Reading
<1>1. ASSUME NEW t \in Readers, Shared!Enter(t)
      PROVE  RegistryInv'
  <2>1. RegistryTypes'
    BY <1>1 DEF Shared!Enter, Shared!Go, RegistryTypes, OneForEachReset, ThreadKnows
  <2>2. OneForEachReset'
    BY <1>1 DEF Shared!Enter, Shared!Go, RegistryTypes, OneForEachReset
  <2>3. OldOnesWereFlying'
    BY <1>1
       DEF Shared!Enter, Shared!Go, RegistryTypes, OneForEachReset, ThreadKnows,
           OldOnesWereFlying
  <2>4. ASSUME NEW u \in Readers
        PROVE  ThreadKnows(u)'
    BY <1>1
       DEF Shared!Enter, Shared!Go, RegistryTypes, OneForEachReset, ThreadKnows,
           OldOnesWereFlying
  <2> QED
    BY <2>1, <2>2, <2>3, <2>4
<1>2. ASSUME NEW t \in Readers, Shared!Acquire(t)
      PROVE  RegistryInv'
  <2>1. RegistryTypes'
    BY <1>2 DEF Shared!Acquire, Shared!Go, RegistryTypes, OneForEachReset, ThreadKnows
  <2>2. OneForEachReset'
    BY <1>2 DEF Shared!Acquire, Shared!Go, RegistryTypes, OneForEachReset
  <2>3. OldOnesWereFlying'
    BY <1>2
       DEF Shared!Acquire, Shared!Go, RegistryTypes, OneForEachReset, ThreadKnows,
           OldOnesWereFlying
  <2>4. ASSUME NEW u \in Readers
        PROVE  ThreadKnows(u)'
    BY <1>2
       DEF Shared!Acquire, Shared!Go, RegistryTypes, OneForEachReset, ThreadKnows,
           OldOnesWereFlying
  <2> QED
    BY <2>1, <2>2, <2>3, <2>4
<1>3. ASSUME NEW t \in Readers, Shared!MakeOnce(t)
      PROVE  RegistryInv'
  <2>1. RegistryTypes'
    BY <1>3 DEF Shared!MakeOnce, Shared!Go, RegistryTypes, OneForEachReset, ThreadKnows
  <2>2. OneForEachReset'
    BY <1>3 DEF Shared!MakeOnce, Shared!Go, RegistryTypes, OneForEachReset
  <2>3. OldOnesWereFlying'
    BY <1>3
       DEF Shared!MakeOnce, Shared!Go, RegistryTypes, OneForEachReset, ThreadKnows,
           OldOnesWereFlying
  <2>4. ASSUME NEW u \in Readers
        PROVE  ThreadKnows(u)'
    BY <1>3
       DEF Shared!MakeOnce, Shared!Go, RegistryTypes, OneForEachReset, ThreadKnows,
           OldOnesWereFlying
  <2> QED
    BY <2>1, <2>2, <2>3, <2>4
<1>4. ASSUME NEW t \in Readers, Shared!Return(t)
      PROVE  RegistryInv'
  <2>1. RegistryTypes'
    BY <1>4 DEF Shared!Return, Shared!Go, RegistryTypes, OneForEachReset, ThreadKnows
  <2>2. OneForEachReset'
    BY <1>4 DEF Shared!Return, Shared!Go, RegistryTypes, OneForEachReset
  <2>3. OldOnesWereFlying'
    BY <1>4
       DEF Shared!Return, Shared!Go, RegistryTypes, OneForEachReset, ThreadKnows,
           OldOnesWereFlying
  <2>4. ASSUME NEW u \in Readers
        PROVE  ThreadKnows(u)'
    BY <1>4
       DEF Shared!Return, Shared!Go, RegistryTypes, OneForEachReset, ThreadKnows,
           OldOnesWereFlying
  <2> QED
    BY <2>1, <2>2, <2>3, <2>4
<1>5. ASSUME NEW t \in Readers, Shared!Lookup(t)
      PROVE  RegistryInv'
  <2>1. RegistryTypes'
    <3>1. using[t] \in 1 .. made /\ using[t] \in 1 .. MaxMade
      BY <1>5 DEF Shared!Lookup, RegistryTypes, OneForEachReset, ThreadKnows
    <3>2. cached[using[t]] \in Nat \union {None}
      BY <3>1 DEF RegistryTypes
    <3> QED
      BY <1>5, <3>1, <3>2 DEF Shared!Lookup, Shared!Go, RegistryTypes
  <2>2. OneForEachReset'
    BY <1>5 DEF Shared!Lookup, Shared!Go, RegistryTypes, OneForEachReset
  <2>3. OldOnesWereFlying'
    BY <1>5
       DEF Shared!Lookup, Shared!Go, RegistryTypes, OneForEachReset, ThreadKnows,
           OldOnesWereFlying
  <2>4. ASSUME NEW u \in Readers
        PROVE  ThreadKnows(u)'
    BY <1>5
       DEF Shared!Lookup, Shared!Go, RegistryTypes, OneForEachReset, ThreadKnows,
           OldOnesWereFlying
  <2> QED
    BY <2>1, <2>2, <2>3, <2>4
<1>6. ASSUME NEW t \in Readers, Shared!LoadFile(t)
      PROVE  RegistryInv'
  <2>1. RegistryTypes'
    BY <1>6 DEF Shared!LoadFile, Shared!Go, RegistryTypes, OneForEachReset, ThreadKnows
  <2>2. OneForEachReset'
    BY <1>6 DEF Shared!LoadFile, Shared!Go, RegistryTypes, OneForEachReset
  <2>3. OldOnesWereFlying'
    BY <1>6
       DEF Shared!LoadFile, Shared!Go, RegistryTypes, OneForEachReset, ThreadKnows,
           OldOnesWereFlying
  <2>4. ASSUME NEW u \in Readers
        PROVE  ThreadKnows(u)'
    BY <1>6
       DEF Shared!LoadFile, Shared!Go, RegistryTypes, OneForEachReset, ThreadKnows,
           OldOnesWereFlying
  <2> QED
    BY <2>1, <2>2, <2>3, <2>4
<1>7. ASSUME NEW t \in Readers, Shared!Store(t)
      PROVE  RegistryInv'
  <2>1. RegistryTypes'
    BY <1>7 DEF Shared!Store, Shared!Go, RegistryTypes, OneForEachReset, ThreadKnows
  <2>2. OneForEachReset'
    BY <1>7 DEF Shared!Store, Shared!Go, RegistryTypes, OneForEachReset
  <2>3. OldOnesWereFlying'
    BY <1>7
       DEF Shared!Store, Shared!Go, RegistryTypes, OneForEachReset, ThreadKnows,
           OldOnesWereFlying
  <2>4. ASSUME NEW u \in Readers
        PROVE  ThreadKnows(u)'
    BY <1>7
       DEF Shared!Store, Shared!Go, RegistryTypes, OneForEachReset, ThreadKnows,
           OldOnesWereFlying
  <2> QED
    BY <2>1, <2>2, <2>3, <2>4
<1>8. ASSUME NEW t \in Readers, Shared!Answer(t)
      PROVE  RegistryInv'
  <2>1. RegistryTypes'
    BY <1>8 DEF Shared!Answer, Shared!Go, RegistryTypes, OneForEachReset, ThreadKnows
  <2>2. OneForEachReset'
    BY <1>8 DEF Shared!Answer, Shared!Go, RegistryTypes, OneForEachReset
  <2>3. OldOnesWereFlying'
    BY <1>8
       DEF Shared!Answer, Shared!Go, RegistryTypes, OneForEachReset, ThreadKnows,
           OldOnesWereFlying
  <2>4. ASSUME NEW u \in Readers
        PROVE  ThreadKnows(u)'
    BY <1>8
       DEF Shared!Answer, Shared!Go, RegistryTypes, OneForEachReset, ThreadKnows,
           OldOnesWereFlying
  <2> QED
    BY <2>1, <2>2, <2>3, <2>4
<1>9. ASSUME NEW r \in 1 .. MaxMade, Shared!ClearCache(r)
      PROVE  RegistryInv'
  <2>1. RegistryTypes'
    BY <1>9 DEF Shared!ClearCache, RegistryTypes, OneForEachReset, ThreadKnows
  <2>2. OneForEachReset'
    BY <1>9 DEF Shared!ClearCache, RegistryTypes, OneForEachReset
  <2>3. OldOnesWereFlying'
    BY <1>9
       DEF Shared!ClearCache, RegistryTypes, OneForEachReset, ThreadKnows,
           OldOnesWereFlying
  <2>4. ASSUME NEW u \in Readers
        PROVE  ThreadKnows(u)'
    BY <1>9
       DEF Shared!ClearCache, RegistryTypes, OneForEachReset, ThreadKnows,
           OldOnesWereFlying
  <2> QED
    BY <2>1, <2>2, <2>3, <2>4
<1>10. CASE Shared!Reset
  <2>1. RegistryTypes'
    BY <1>10 DEF Shared!Reset, RegistryTypes, OneForEachReset, ThreadKnows
  <2>2. OneForEachReset'
    BY <1>10 DEF Shared!Reset, RegistryTypes, OneForEachReset
  <2>3. OldOnesWereFlying'
    BY <1>10 DEF Shared!Reset, RegistryTypes, OneForEachReset, ThreadKnows, OldOnesWereFlying
  <2>4. ASSUME NEW u \in Readers
        PROVE  ThreadKnows(u)'
    BY <1>10 DEF Shared!Reset, RegistryTypes, OneForEachReset, ThreadKnows, OldOnesWereFlying
  <2> QED
    BY <2>1, <2>2, <2>3, <2>4
<1>11. CASE Shared!Edit
  <2>1. RegistryTypes'
    BY <1>11 DEF Shared!Edit, RegistryTypes, OneForEachReset, ThreadKnows
  <2>2. OneForEachReset'
    BY <1>11 DEF Shared!Edit, RegistryTypes, OneForEachReset
  <2>3. OldOnesWereFlying'
    BY <1>11 DEF Shared!Edit, RegistryTypes, OneForEachReset, ThreadKnows, OldOnesWereFlying
  <2>4. ASSUME NEW u \in Readers
        PROVE  ThreadKnows(u)'
    BY <1>11 DEF Shared!Edit, RegistryTypes, OneForEachReset, ThreadKnows, OldOnesWereFlying
  <2> QED
    BY <2>1, <2>2, <2>3, <2>4
<1>12. CASE UNCHANGED Shared!vars
  <2>1. RegistryTypes'
    BY <1>12 DEF Shared!vars, RegistryTypes, OneForEachReset, ThreadKnows
  <2>2. OneForEachReset'
    BY <1>12 DEF Shared!vars, RegistryTypes, OneForEachReset
  <2>3. OldOnesWereFlying'
    BY <1>12 DEF Shared!vars, RegistryTypes, OneForEachReset, ThreadKnows, OldOnesWereFlying
  <2>4. ASSUME NEW u \in Readers
        PROVE  ThreadKnows(u)'
    BY <1>12 DEF Shared!vars, RegistryTypes, OneForEachReset, ThreadKnows, OldOnesWereFlying
  <2> QED
    BY <2>1, <2>2, <2>3, <2>4
<1> QED
  BY <1>1, <1>2, <1>3, <1>4, <1>5, <1>6, <1>7, <1>8, <1>9, <1>10, <1>11, <1>12
     DEF Shared!Next

\* It holds from the start.
LEMMA RegistryInvHolds == ASSUME NoneIsNoNumber PROVE Shared!Spec => []RegistryInv
<1>1. Shared!Init => RegistryInv
  BY DEF Shared!Init, RegistryInv, RegistryTypes, OneForEachReset, OldOnesWereFlying,
         ThreadKnows, NoneIsNoNumber, Reading
<1>2. RegistryInv /\ [Shared!Next]_(Shared!vars) => RegistryInv'
  BY RegistryInvStep
<1> QED
  BY <1>1, <1>2, PTL DEF Shared!Spec

\* However many threads ask first, they share one registry until a reset, and
\* none of them is given nothing (get_default_registry).
THEOREM RegistryIsSharedAlways ==
    ASSUME NoneIsNoNumber PROVE Shared!Spec => []Shared!RegistryIsShared
<1>1. ASSUME NoneIsNoNumber, RegistryInv PROVE Shared!RegistryIsShared
  BY <1>1 DEF RegistryInv, RegistryTypes, OneForEachReset, ThreadKnows, NoneIsNoNumber,
              Shared!RegistryIsShared
<1> QED
  BY <1>1, RegistryInvHolds, PTL

\* A template that the cache gives is of the file as it was at the last clear
\* or later, unless a caller had read it before and stored it after.
THEOREM ClearedIsReadAgainAlways ==
    ASSUME NoneIsNoNumber PROVE Shared!Spec => []Shared!ClearedIsReadAgain
<1>1. ASSUME NoneIsNoNumber, RegistryInv PROVE Shared!ClearedIsReadAgain
  BY <1>1 DEF RegistryInv, RegistryTypes, OneForEachReset, OldOnesWereFlying, NoneIsNoNumber,
              Shared!ClearedIsReadAgain
<1> QED
  BY <1>1, RegistryInvHolds, PTL

\* The file is edited so often at most, and the lock is free or a caller's.
LockAndEdition == edition <= MaxEdition /\ promptLock \in {None} \union Readers

\* What the module calls its types, from the start and in each step.
LEMMA PromptTypesHold ==
    ASSUME NoneIsNoNumber PROVE Shared!Spec => []Shared!TypeOK
<1>1. Shared!Init => LockAndEdition
  BY DEF Shared!Init, LockAndEdition, NoneIsNoNumber
<1>2. ASSUME LockAndEdition, RegistryInv, [Shared!Next]_(Shared!vars)
      PROVE  LockAndEdition'
  <2>1. edition \in Nat /\ MaxEdition \in Nat
    BY <1>2 DEF RegistryInv, RegistryTypes, NoneIsNoNumber
  <2>2. ASSUME NEW t \in Readers, Shared!Acquire(t) \/ Shared!MakeOnce(t)
        PROVE  LockAndEdition'
    BY <1>2, <2>2 DEF LockAndEdition, Shared!Acquire, Shared!MakeOnce
  <2>3. CASE Shared!Edit
    BY <1>2, <2>1, <2>3 DEF LockAndEdition, Shared!Edit
  <2>4. ASSUME \/ \E t \in Readers : \/ Shared!Enter(t) \/ Shared!Return(t) \/ Shared!Lookup(t)
                                     \/ Shared!LoadFile(t) \/ Shared!Store(t) \/ Shared!Answer(t)
               \/ \E r \in 1 .. MaxMade : Shared!ClearCache(r)
               \/ Shared!Reset \/ UNCHANGED Shared!vars
        PROVE  LockAndEdition'
    <3>1. UNCHANGED <<edition, promptLock>>
      BY <2>4 DEF Shared!Enter, Shared!Return, Shared!Lookup, Shared!LoadFile, Shared!Store,
                  Shared!Answer, Shared!ClearCache, Shared!Reset, Shared!vars
    <3> QED
      BY <1>2, <3>1 DEF LockAndEdition
  <2> QED
    BY <1>2, <2>2, <2>3, <2>4 DEF Shared!Next
<1>3. ASSUME LockAndEdition, RegistryInv PROVE Shared!TypeOK
  BY <1>3 DEF LockAndEdition, RegistryInv, RegistryTypes, OneForEachReset, ThreadKnows,
              NoneIsNoNumber, Reading, Shared!TypeOK
<1>4. LockAndEdition /\ RegistryInv /\ [Shared!Next]_(Shared!vars) => LockAndEdition'
  BY <1>2
<1>5. LockAndEdition /\ RegistryInv => Shared!TypeOK
  BY <1>3
<1> QED
  BY <1>1, <1>4, <1>5, RegistryInvHolds, PTL DEF Shared!Spec

-----------------------------------------------------------------------------
(* The audit trail beside a run *)

Lines(q) == {q[k] : k \in 1 .. Len(q)}

TrailConfigured == Days \in Nat \ {0} /\ DayLength \in Nat \ {0}

Kinds == {"exception", "mcp_tool_call", "mcp_tool_result", "agent_prompt", "agent_response",
          "agent_decision", "system_event"}

IsEvent(e) == e.kind \in Kinds /\ e.at \in 0 .. Analyst!MaxClock

InFile(e, d) == e \in Lines(files[d])

\* The acknowledged events that are in no file, and the files that end within
\* a line, of the days that decode.
Missing == {e \in told : ~InFile(e, Analyst!DayOf(e.at)) /\ Analyst!DayOf(e.at) \notin cut}
EndsTorn(q) == q # <<>> /\ q[Len(q)] = Analyst!Torn
Broken == {d \in 1 .. Days : EndsTorn(files[d]) /\ d \notin cut}

TrailTypes ==
    /\ hour \in 0 .. Analyst!MaxClock /\ torn \in Nat
    /\ writing = [w \in Writers |-> writing[w]]
    /\ \A w \in Writers : writing[w] # None => IsEvent(writing[w])
    /\ IsFiniteSet(told) /\ \A e \in told : IsEvent(e)
    /\ \E S : files \in [1 .. Days -> Seq(S)]
    /\ cut \in SUBSET (1 .. Days)

\* Every part of a line has hidden one event, still waits to, or has spoilt its
\* day.
TornCounted == Cardinality(Missing) + Cardinality(Broken) + Cardinality(cut) <= torn

TrailInv == TrailTypes /\ TornCounted

\* The day of an hour is a day of the trail.
LEMMA DaysOfHours ==
    ASSUME TrailConfigured, NEW t \in 0 .. Analyst!MaxClock
    PROVE  Analyst!DayOf(t) \in 1 .. Days
<1>1. t \in Nat /\ t < Days * DayLength
  BY DEF TrailConfigured, Analyst!MaxClock
<1>2. t \div DayLength \in Nat /\ (t \div DayLength) * DayLength <= t
  BY <1>1 DEF TrailConfigured
<1>3. t \div DayLength < Days
  <2>1. ASSUME NEW q \in Nat, q >= Days, q * DayLength <= t PROVE FALSE
    <3>1. q * DayLength >= Days * DayLength
      BY <2>1 DEF TrailConfigured
    <3> QED
      BY <1>1, <2>1, <3>1 DEF TrailConfigured
  <2> QED
    BY <1>2, <2>1 DEF TrailConfigured
<1> QED
  BY <1>2, <1>3 DEF Analyst!DayOf, TrailConfigured

\* The first hour is in the first day and the last one in the last.
LEMMA FirstAndLastDay ==
    ASSUME TrailConfigured
    PROVE  Analyst!DayOf(0) = 1 /\ Analyst!DayOf(Analyst!MaxClock) = Days
<1>1. 0 \div DayLength = 0
  BY DEF TrailConfigured
<1>2. Analyst!MaxClock = (Days - 1) * DayLength + (DayLength - 1)
  BY DEF Analyst!MaxClock, TrailConfigured
<1>3. Analyst!MaxClock \div DayLength = Days - 1
  BY <1>2 DEF TrailConfigured
<1> QED
  BY <1>1, <1>3 DEF Analyst!DayOf, TrailConfigured

\* No event is a part of a line.
LEMMA EventsAreWhole == \A e : IsEvent(e) => e # Analyst!Torn /\ e # Analyst!Garbage
BY DEF IsEvent, Kinds, Analyst!Torn, Analyst!Garbage

\* The part that ends a file is told from the line that swallowed a part.
LEMMA TornIsNotGarbage == Analyst!Torn # Analyst!Garbage
BY DEF Analyst!Torn, Analyst!Garbage

\* A line that is put after a part of one is lost with it; nothing else is.
LEMMA PutLines ==
    ASSUME NEW S, NEW q \in Seq(S), NEW line
    PROVE  /\ Analyst!Put(q, line) \in Seq(S \union {line, Analyst!Garbage})
           /\ Lines(q) \ {Analyst!Torn} \subseteq Lines(Analyst!Put(q, line))
           /\ ~EndsTorn(q) => line \in Lines(Analyst!Put(q, line))
           /\ line # Analyst!Torn => ~EndsTorn(Analyst!Put(q, line))
<1> DEFINE new == Analyst!Put(q, line)
           T == S \union {line, Analyst!Garbage}
<1>0. Len(q) \in Nat /\ q \in Seq(T)
  BY SeqMonotonic
<1> USE DEF EndsTorn
<1>1. CASE EndsTorn(q) /\ line = Analyst!Torn
  <2>1. new = q
    BY <1>1 DEF Analyst!Put
  <2> QED
    BY <1>0, <1>1, <2>1
<1>2. CASE EndsTorn(q) /\ line # Analyst!Torn
  <2>1. new = [q EXCEPT ![Len(q)] = Analyst!Garbage]
    BY <1>2 DEF Analyst!Put
  <2>2. /\ new \in Seq(T) /\ Len(new) = Len(q) /\ Len(q) >= 1
        /\ \A j \in 1 .. Len(q) : new[j] = IF j = Len(q) THEN Analyst!Garbage ELSE q[j]
    BY <1>0, <1>2, <2>1, ExceptSeq
  <2> HIDE DEF new, T
  <2>3. new[Len(new)] # Analyst!Torn
    BY <1>0, <2>2, TornIsNotGarbage
  <2>4. ASSUME NEW x \in Lines(q), x # Analyst!Torn
        PROVE  x \in Lines(new)
    <3>1. PICK i \in 1 .. Len(q) : x = q[i]
      BY DEF Lines
    <3>2. i # Len(q) /\ new[i] = x /\ i \in 1 .. Len(new)
      BY <1>2, <2>2, <2>4, <3>1
    <3> QED
      BY <3>2 DEF Lines
  <2> QED
    BY <1>2, <2>2, <2>3, <2>4 DEF new, T
<1>3. CASE ~EndsTorn(q)
  <2>1. new = Append(q, line)
    BY <1>3 DEF Analyst!Put
  <2>2. /\ new \in Seq(T) /\ Len(new) = Len(q) + 1 /\ new[Len(q) + 1] = line
        /\ \A j \in 1 .. Len(q) : new[j] = q[j]
    BY <1>0, <2>1
  <2> HIDE DEF new, T
  <2>3. new # <<>> /\ new[Len(new)] = line /\ Len(new) \in 1 .. Len(new)
    BY <1>0, <2>2
  <2>4. ASSUME NEW x \in Lines(q)
        PROVE  x \in Lines(new)
    <3>1. PICK i \in 1 .. Len(q) : x = q[i]
      BY DEF Lines
    <3>2. new[i] = x /\ i \in 1 .. Len(new)
      BY <1>0, <2>2, <3>1
    <3> QED
      BY <3>2 DEF Lines
  <2>5. line \in Lines(new)
    BY <2>3 DEF Lines
  <2> QED
    BY <1>3, <2>2, <2>3, <2>4, <2>5 DEF new, T
<1> QED
  BY <1>1, <1>2, <1>3

\* One event more that is missing, and one broken file more or less, count one.
LEMMA OneMore ==
    ASSUME NEW G, IsFiniteSet(G), NEW x, NEW H \in SUBSET (G \union {x})
    PROVE  /\ IsFiniteSet(H) /\ Cardinality(G) \in Nat /\ Cardinality(H) \in Nat
           /\ Cardinality(H) <= Cardinality(G) + 1
           /\ H \subseteq G => Cardinality(H) <= Cardinality(G)
           /\ H \subseteq G /\ x \in G /\ x \notin H => Cardinality(H) + 1 <= Cardinality(G)
<1>1. /\ IsFiniteSet(G \union {x}) /\ Cardinality(G) \in Nat
      /\ Cardinality(G \union {x}) = IF x \in G THEN Cardinality(G) ELSE Cardinality(G) + 1
  BY FS_AddElement, FS_CardinalityType
<1>2. IsFiniteSet(H) /\ Cardinality(H) <= Cardinality(G \union {x})
  BY <1>1, FS_Subset
<1>3. Cardinality(H) \in Nat
  BY <1>2, FS_CardinalityType
<1>4. H \subseteq G => Cardinality(H) <= Cardinality(G)
  BY FS_Subset
<1>5. ASSUME H \subseteq G, x \in G, x \notin H
      PROVE  Cardinality(H) + 1 <= Cardinality(G)
  <2>1. IsFiniteSet(G \ {x}) /\ Cardinality(G \ {x}) = Cardinality(G) - 1
    BY <1>5, FS_RemoveElement
  <2>2. H \subseteq G \ {x}
    BY <1>5
  <2>3. Cardinality(H) <= Cardinality(G \ {x})
    BY <2>1, <2>2, FS_Subset
  <2> QED
    BY <1>1, <1>3, <2>1, <2>3
<1> QED
  BY <1>1, <1>2, <1>3, <1>4, <1>5

\* What the two sets do when a line is put into the file of a day.
LEMMA PutKeepsCount ==
    ASSUME TrailConfigured, TrailInv, NEW entry, IsEvent(entry),
           NEW d \in 1 .. Days, d = Analyst!DayOf(entry.at),
           NEW line, line = entry \/ line = Analyst!Torn,
           files' = [files EXCEPT ![d] = Analyst!Put(@, line)],
           cut' = cut \/ cut' = cut \union {d}
    PROVE  /\ \E S : files' \in [1 .. Days -> Seq(S)]
           /\ \A e \in told : InFile(e, Analyst!DayOf(e.at)) => InFile(e, Analyst!DayOf(e.at))'
           /\ line = entry => /\ Broken' \subseteq Broken /\ d \notin Broken'
                              /\ InFile(entry, d)' \/ d \in Broken \/ d \in cut
           /\ Broken' \subseteq Broken \union {d}
           /\ d \in cut' => Broken' \subseteq Broken
<1>1. PICK S : files \in [1 .. Days -> Seq(S)]
  BY DEF TrailInv, TrailTypes
<1> DEFINE q == files[d]
           new == Analyst!Put(q, line)
           T == S \union {line, Analyst!Garbage}
<1>2. files' = [files EXCEPT ![d] = new]
  OBVIOUS
<1>3. q \in Seq(S)
  BY <1>1
<1> HIDE DEF q
<1>4. /\ new \in Seq(T) /\ Lines(q) \ {Analyst!Torn} \subseteq Lines(new)
      /\ ~EndsTorn(q) => line \in Lines(new)
      /\ line # Analyst!Torn => ~EndsTorn(new)
  BY <1>3, PutLines
<1> HIDE DEF new, T
<1>5. files' \in [1 .. Days -> Seq(T)]
  <2>1. \A c \in 1 .. Days : files[c] \in Seq(T)
    BY <1>1, SeqMonotonic DEF T
  <2> QED
    BY <1>1, <1>2, <1>4, <2>1
<1>6. /\ files'[d] = new /\ files[d] = q
      /\ \A c \in 1 .. Days : c # d => files'[c] = files[c]
  BY <1>1, <1>2 DEF q
<1>7. ASSUME NEW e \in told, InFile(e, Analyst!DayOf(e.at))
      PROVE  InFile(e, Analyst!DayOf(e.at))'
  <2>1. Analyst!DayOf(e.at) \in 1 .. Days /\ e # Analyst!Torn
    BY DaysOfHours, EventsAreWhole DEF TrailInv, TrailTypes, IsEvent
  <2>2. CASE Analyst!DayOf(e.at) = d
    BY <1>4, <1>6, <1>7, <2>1, <2>2 DEF InFile
  <2>3. CASE Analyst!DayOf(e.at) # d
    BY <1>6, <1>7, <2>1, <2>3 DEF InFile
  <2> QED
    BY <2>2, <2>3
<1>8. Broken' \subseteq Broken \union {d}
  BY <1>6 DEF Broken
<1>9. ASSUME line = entry
      PROVE  /\ d \notin Broken' /\ Broken' \subseteq Broken
             /\ InFile(entry, d)' \/ d \in Broken \/ d \in cut
  <2>1. line # Analyst!Torn
    BY <1>9, EventsAreWhole
  <2>2. d \notin Broken'
    BY <1>4, <1>6, <2>1 DEF Broken
  <2>3. Broken' \subseteq Broken
    BY <1>8, <2>2
  <2>4. CASE ~EndsTorn(q)
    <3>1. InFile(entry, d)'
      BY <1>4, <1>6, <1>9, <2>4 DEF InFile
    <3> QED
      BY <2>2, <2>3, <3>1
  <2>5. CASE EndsTorn(q)
    BY <1>6, <2>2, <2>3, <2>5 DEF Broken
  <2> QED
    BY <2>4, <2>5
<1>10. d \in cut' => Broken' \subseteq Broken
  BY <1>8 DEF Broken
<1> QED
  BY <1>5, <1>7, <1>8, <1>9, <1>10

\* The steps of a run as the trail sees them.
LEMMA StepOnTrail ==
    ASSUME [Analyst!Next]_(Analyst!vars)
    PROVE  \/ UNCHANGED <<hour, files, writing, told, torn, cut>>
           \/ \E w, span, note : \E kind \in Kinds : Analyst!Stamp(w, span, kind, note)
           \/ \E w \in Writers : Analyst!Appended(w) \/ Analyst!AppendFails(w)
           \/ Analyst!Hour
<1>1. CASE \/ Analyst!Render \/ Analyst!Collect \/ UNCHANGED Analyst!vars
  BY <1>1 DEF Analyst!Render, Analyst!Collect, Analyst!vars, Analyst!trail
<1>2. CASE \/ Analyst!RenderFails \/ Analyst!CallTool \/ Analyst!ToolAnswers \/ Analyst!ToolRaises
           \/ Analyst!ErrorAnswered \/ Analyst!Prompt \/ Analyst!Invoke \/ Analyst!Decide \/ Analyst!Other
  <2>1. \E w, span, note : \E kind \in Kinds : Analyst!Stamp(w, span, kind, note)
    BY <1>2 DEF Analyst!RenderFails, Analyst!CallTool, Analyst!ToolAnswers, Analyst!ToolRaises,
                Analyst!ErrorAnswered, Analyst!Prompt, Analyst!Invoke, Analyst!Decide, Analyst!Other,
                Analyst!Tell, Kinds
  <2> QED
    BY <2>1
<1>3. CASE \E w \in Writers : Analyst!Writes(w)
  BY <1>3 DEF Analyst!Writes
<1> QED
  BY <1>1, <1>2, <1>3 DEF Analyst!Next

\* Each step of the writers, the clock and the run keeps it.
LEMMA TrailInvStep ==
    ASSUME TrailConfigured, TrailInv, [Analyst!Next]_(Analyst!vars)
    PROVE  TrailInv'
<1> USE DEF TrailInv
<1>0. /\ Broken \in SUBSET (1 .. Days) /\ IsFiniteSet(Broken) /\ IsFiniteSet(Missing)
      /\ Cardinality(Broken) \in Nat /\ Cardinality(Missing) \in Nat
      /\ IsFiniteSet(cut) /\ Cardinality(cut) \in Nat
  <2>1. Broken \in SUBSET (1 .. Days) /\ Missing \in SUBSET told
    BY DEF Broken, Missing
  <2>2. IsFiniteSet(Broken) /\ IsFiniteSet(Missing) /\ IsFiniteSet(cut)
    <3>1. IsFiniteSet(1 .. Days) /\ IsFiniteSet(told)
      <4>1. IsFiniteSet(1 .. Days)
        BY FS_Interval DEF TrailConfigured
      <4> QED
        BY <4>1 DEF TrailTypes
    <3> QED
      BY <2>1, <3>1, FS_Subset DEF TrailTypes
  <2> QED
    BY <2>1, <2>2, FS_CardinalityType
<1>1. ASSUME NEW w, NEW span, NEW note, NEW kind \in Kinds, Analyst!Stamp(w, span, kind, note)
      PROVE  TrailInv'
  <2>1. /\ writing' = [writing EXCEPT ![w] = [span |-> span, kind |-> kind, note |-> note,
                                              at |-> hour]]
        /\ UNCHANGED <<hour, files, told, torn, cut>>
    BY <1>1 DEF Analyst!Stamp
  <2>2. Missing' = Missing /\ Broken' = Broken
    BY <2>1 DEF Missing, Broken, InFile
  <2>3. TrailTypes'
    BY <2>1 DEF TrailTypes, IsEvent
  <2> QED
    BY <2>1, <2>2, <2>3 DEF TornCounted
<1>2. ASSUME NEW w \in Writers, Analyst!Appended(w)
      PROVE  TrailInv'
  <2> DEFINE e == writing[w]
             d == Analyst!DayOf(e.at)
  <2>1. /\ writing[w] # None /\ files' = [files EXCEPT ![d] = Analyst!Put(@, e)]
        /\ writing' = [writing EXCEPT ![w] = None] /\ told' = told \union {e}
        /\ UNCHANGED <<hour, torn, cut>>
    BY <1>2 DEF Analyst!Appended, Analyst!FileFor
  <2>2. IsEvent(e) /\ d \in 1 .. Days
    BY <2>1, DaysOfHours DEF TrailTypes, IsEvent
  <2>3. PICK entry, day : entry = e /\ day = d
    OBVIOUS
  <2>4. /\ \E S : files' \in [1 .. Days -> Seq(S)]
        /\ \A x \in told : InFile(x, Analyst!DayOf(x.at)) => InFile(x, Analyst!DayOf(x.at))'
        /\ Broken' \subseteq Broken /\ day \notin Broken'
        /\ InFile(entry, day)' \/ day \in Broken \/ day \in cut
    <3>1. /\ IsEvent(entry) /\ day \in 1 .. Days /\ day = Analyst!DayOf(entry.at)
          /\ files' = [files EXCEPT ![day] = Analyst!Put(@, entry)] /\ cut' = cut
      BY <2>1, <2>2, <2>3
    <3> QED
      BY <3>1, PutKeepsCount
  <2>5. Missing' \subseteq Missing \union {entry} /\ (day \notin Broken => Missing' \subseteq Missing)
    BY <2>1, <2>3, <2>4 DEF Missing
  <2>6. /\ Cardinality(Missing') \in Nat /\ Cardinality(Missing') <= Cardinality(Missing) + 1
        /\ day \notin Broken => Cardinality(Missing') <= Cardinality(Missing)
    BY <1>0, <2>5, OneMore
  <2>7. /\ Cardinality(Broken') \in Nat /\ Cardinality(Broken') <= Cardinality(Broken)
        /\ day \in Broken => Cardinality(Broken') + 1 <= Cardinality(Broken)
    BY <1>0, <2>4, OneMore
  <2>8. TornCounted'
    BY <1>0, <2>1, <2>6, <2>7 DEF TornCounted, TrailTypes
  <2>9. TrailTypes'
    <3>1. IsFiniteSet(told')
      BY <2>1, FS_AddElement DEF TrailTypes
    <3> QED
      BY <2>1, <2>2, <2>4, <3>1 DEF TrailTypes, IsEvent
  <2> QED
    BY <2>8, <2>9
<1>3. ASSUME NEW w \in Writers, Analyst!AppendFails(w)
      PROVE  TrailInv'
  <2> DEFINE d == Analyst!DayOf(writing[w].at)
  <2>1. /\ writing[w] # None /\ writing' = [writing EXCEPT ![w] = None]
        /\ UNCHANGED <<hour, told>>
        /\ \/ UNCHANGED <<files, torn, cut>>
           \/ /\ files' = [files EXCEPT ![d] = Analyst!Put(@, Analyst!Torn)] /\ torn' = torn + 1
              /\ cut' \in {cut, cut \union {d}}
    BY <1>3 DEF Analyst!AppendFails, Analyst!FileFor
  <2>2. CASE UNCHANGED <<files, torn, cut>>
    <3>1. Missing' = Missing /\ Broken' = Broken
      BY <2>1, <2>2 DEF Missing, Broken, InFile
    <3>2. TrailTypes'
      BY <2>1, <2>2 DEF TrailTypes, IsEvent
    <3> QED
      BY <2>2, <3>1, <3>2 DEF TornCounted
  <2>3. CASE /\ files' = [files EXCEPT ![d] = Analyst!Put(@, Analyst!Torn)] /\ torn' = torn + 1
             /\ cut' \in {cut, cut \union {d}}
    <3>1. IsEvent(writing[w]) /\ d \in 1 .. Days
      BY <2>1, DaysOfHours DEF TrailTypes, IsEvent
    <3>2. PICK entry, day : entry = writing[w] /\ day = d
      OBVIOUS
    <3>3. /\ \E S : files' \in [1 .. Days -> Seq(S)]
          /\ \A x \in told : InFile(x, Analyst!DayOf(x.at)) => InFile(x, Analyst!DayOf(x.at))'
          /\ Broken' \subseteq Broken \union {day}
          /\ day \in cut' => Broken' \subseteq Broken
      <4>1. /\ IsEvent(entry) /\ day \in 1 .. Days /\ day = Analyst!DayOf(entry.at)
            /\ files' = [files EXCEPT ![day] = Analyst!Put(@, Analyst!Torn)]
            /\ cut' = cut \/ cut' = cut \union {day}
        BY <2>3, <3>1, <3>2
      <4> QED
        BY <4>1, PutKeepsCount
    <3>4. Missing' \subseteq Missing /\ cut \subseteq cut'
      BY <2>1, <2>3, <3>3 DEF Missing
    <3>5. Cardinality(Missing') \in Nat /\ Cardinality(Missing') <= Cardinality(Missing)
      BY <1>0, <3>4, OneMore
    <3>6. /\ Cardinality(Broken') \in Nat /\ Cardinality(Broken') <= Cardinality(Broken) + 1
          /\ day \in cut' => Cardinality(Broken') <= Cardinality(Broken)
      BY <1>0, <3>3, OneMore
    <3>7. /\ Cardinality(cut') \in Nat /\ Cardinality(cut') <= Cardinality(cut) + 1
          /\ day \notin cut' => cut' = cut
      <4>1. cut' \in SUBSET (cut \union {day})
        BY <2>3, <3>2
      <4>2. Cardinality(cut') \in Nat /\ Cardinality(cut') <= Cardinality(cut) + 1
        BY <1>0, <4>1, OneMore
      <4> QED
        BY <2>3, <3>2, <4>2
    <3>9. TornCounted'
      <4>1. /\ torn \in Nat /\ torn' = torn + 1
            /\ Cardinality(Missing) + Cardinality(Broken) + Cardinality(cut) <= torn
        BY <2>3 DEF TornCounted, TrailTypes
      <4>2. Cardinality(Broken') + Cardinality(cut') <= Cardinality(Broken) + Cardinality(cut) + 1
        <5>1. CASE day \in cut'
          BY <1>0, <3>6, <3>7, <5>1
        <5>2. CASE day \notin cut'
          <6>1. Cardinality(cut') = Cardinality(cut)
            BY <3>7, <5>2
          <6> QED
            BY <1>0, <3>6, <6>1
        <5> QED
          BY <5>1, <5>2
      <4>3. Cardinality(Missing') + Cardinality(Broken') + Cardinality(cut') <= torn'
        BY <1>0, <3>5, <3>6, <3>7, <4>1, <4>2
      <4> QED
        BY <4>3 DEF TornCounted
    <3>8. TrailTypes'
      BY <2>1, <2>3, <3>1, <3>3 DEF TrailTypes, IsEvent
    <3> QED
      BY <3>8, <3>9
  <2> QED
    BY <2>1, <2>2, <2>3
<1>4. CASE Analyst!Hour \/ UNCHANGED <<hour, files, writing, told, torn, cut>>
  <2>1. UNCHANGED <<files, writing, told, torn, cut>> /\ hour' \in 0 .. Analyst!MaxClock
    BY <1>4 DEF Analyst!Hour, TrailTypes, Analyst!MaxClock, TrailConfigured
  <2>2. Missing' = Missing /\ Broken' = Broken
    BY <2>1 DEF Missing, Broken, InFile
  <2> QED
    BY <2>1, <2>2 DEF TrailTypes, TornCounted, IsEvent
<1> QED
  BY <1>1, <1>2, <1>3, <1>4, StepOnTrail

\* It holds from the start.
LEMMA TrailInvHolds == ASSUME TrailConfigured PROVE Analyst!Spec => []TrailInv
<1>1. Analyst!Init => TrailInv
  <2> SUFFICES ASSUME Analyst!Init PROVE TrailInv
    OBVIOUS
  <2>1. /\ hour = 0 /\ files = [d \in 1 .. Days |-> <<>>] /\ told = {} /\ torn = 0
        /\ cut = {} /\ writing = [w \in Writers |-> None]
    BY DEF Analyst!Init, Analyst!TrailInit
  <2>2. Missing = {} /\ Broken = {}
    BY <2>1 DEF Missing, Broken, EndsTorn
  <2>3. /\ Cardinality(Missing) = 0 /\ Cardinality(Broken) = 0 /\ Cardinality(cut) = 0
        /\ IsFiniteSet(told)
    BY <2>1, <2>2, FS_EmptySet
  <2>4. \E S : files \in [1 .. Days -> Seq(S)]
    <3>1. files \in [1 .. Days -> Seq({})]
      BY <2>1
    <3> QED
      BY <3>1
  <2>5. 0 \in 0 .. Analyst!MaxClock
    BY DEF Analyst!MaxClock, TrailConfigured
  <2> QED
    BY <2>1, <2>3, <2>4, <2>5 DEF TrailInv, TrailTypes, TornCounted
<1>2. TrailInv /\ [Analyst!Next]_(Analyst!vars) => TrailInv'
  BY TrailInvStep
<1> QED
  BY <1>1, <1>2, PTL DEF Analyst!Spec

\* What write acknowledged is found by its time and by its trace, across
\* midnight and beside another writer: each torn line hides at most one
\* acknowledged event or, cut within a character, fails every search of its day
\* (observability/audit_writer.py, audit_indexer.py).
THEOREM AcknowledgedIsFoundAlways ==
    ASSUME TrailConfigured
    PROVE  Analyst!Spec => []Analyst!AcknowledgedIsFound
<1>1. TrailInv => Analyst!AcknowledgedIsFound
  <2> SUFFICES ASSUME TrailInv PROVE Analyst!AcknowledgedIsFound
    OBVIOUS
  <2>1. ASSUME NEW e \in told
        PROVE  /\ e \in Analyst!Search(e.at, e.at) <=> InFile(e, Analyst!DayOf(e.at))
               /\ Analyst!Raises(e.at, e.at) <=> Analyst!DayOf(e.at) \in cut
               /\ e \in Analyst!Search(e.at, e.at) => e \in Analyst!FindByTrace(e.span.trace)
    <3> DEFINE d == Analyst!DayOf(e.at)
    <3>1. IsEvent(e) /\ e.at \in Nat /\ e.at \in 0 .. Analyst!MaxClock /\ d \in 1 .. Days
      BY DaysOfHours DEF TrailInv, TrailTypes, IsEvent
    <3>2. Analyst!Listed(e.at, e.at) = {d}
      BY <3>1 DEF Analyst!Listed
    <3>3. e \in Analyst!Events(d) <=> InFile(e, d)
      BY <3>1, EventsAreWhole DEF Analyst!Events, InFile, Lines, TrailInv, TrailTypes
    <3>4. e \in Analyst!Search(e.at, e.at) <=> e \in Analyst!Events(d)
      BY <3>1, <3>2 DEF Analyst!Search
    <3>5. e \in Analyst!Events(d) => e \in Analyst!FindByTrace(e.span.trace)
      <4>1. d \in Analyst!Listed(0, Analyst!MaxClock)
        BY <3>1, FirstAndLastDay DEF Analyst!Listed, TrailConfigured
      <4> QED
        BY <3>1, <4>1 DEF Analyst!Search, Analyst!FindByTrace
    <3>6. Analyst!Raises(e.at, e.at) <=> d \in cut
      BY <3>2 DEF Analyst!Raises
    <3> QED
      BY <3>3, <3>4, <3>5, <3>6
  <2>2. {e \in told : ~Analyst!Raises(e.at, e.at) /\ e \notin Analyst!Search(e.at, e.at)} = Missing
    BY <2>1 DEF Missing
  <2>3. Cardinality(Missing) \in Nat /\ Cardinality(Broken) \in Nat /\ Cardinality(cut) \in Nat
    <3>1. Missing \in SUBSET told /\ Broken \in SUBSET (1 .. Days) /\ cut \in SUBSET (1 .. Days)
      BY DEF Missing, Broken, TrailInv, TrailTypes
    <3>2. IsFiniteSet(1 .. Days)
      BY FS_Interval DEF TrailConfigured
    <3> QED
      BY <3>1, <3>2, FS_Subset, FS_CardinalityType DEF TrailInv, TrailTypes
  <2>4. Cardinality(Missing) + Cardinality(cut) <= torn
    BY <2>3 DEF TrailInv, TrailTypes, TornCounted
  <2>5. \A S : Analyst!Cardinality(S) = Cardinality(S)
    BY DEF Analyst!Cardinality, Cardinality
  <2>6. ASSUME ~Analyst!Raises(0, Analyst!MaxClock), NEW e \in told \ Missing
        PROVE  e \in Analyst!FindByTrace(e.span.trace)
    <3>1. IsEvent(e) /\ Analyst!DayOf(e.at) \in 1 .. Days
      BY DaysOfHours DEF TrailInv, TrailTypes, IsEvent
    <3>2. Analyst!DayOf(e.at) \in Analyst!Listed(0, Analyst!MaxClock)
      BY <3>1, FirstAndLastDay DEF Analyst!Listed, TrailConfigured
    <3>3. Analyst!DayOf(e.at) \notin cut
      BY <2>6, <3>2 DEF Analyst!Raises
    <3> QED
      BY <2>1, <3>3 DEF Missing
  <2> QED
    BY <2>2, <2>4, <2>5, <2>6 DEF Analyst!AcknowledgedIsFound
<1> QED
  BY <1>1, TrailInvHolds, PTL

-----------------------------------------------------------------------------
(* The run that the trail tells *)

IsSequence(q) == \E S : q \in Seq(S)

\* The agent is one of the writers, its tools are a sequence, and None is not
\* what it stands for the absence of.
RunConfigured ==
    /\ TrailConfigured /\ MaxLost \in Nat /\ MaxOthers \in Nat
    /\ "agent" \in Writers /\ "other" \in Writers
    /\ IsSequence(Tools)
    /\ None \notin {0, "usable", "unusable"}
    /\ \A s, k, n, t : None # [span |-> s, kind |-> k, note |-> n, at |-> t]

InTool == {"handler", "raised", "collect"}
AfterTools == {"prompt", "invoke", "decide"}
OnTheWay == {"render", "tools"} \union InTool \union AfterTools
Judgements == {"usable", "unusable"}

\* What the agent has stamped, appended or not.
Pending == IF writing["agent"] = None THEN {} ELSE {writing["agent"]}
OfRun(e) == e.span.trace = "run"
StampedByRun == {e \in told : OfRun(e)} \union Pending

\* The spans the run has made and the calls it has begun, where it stands.
Failed == step.at = "done" /\ answer = None
SpansAt(at, tool, given) ==
    CASE at \in {"render", "tools"} -> tool - 1
      [] at \in InTool \union {"prompt"} -> tool
      [] at = "invoke" -> tool + 1
      [] at = "decide" -> tool + 2
      [] at = "done" -> IF given = None THEN 0 ELSE tool + 3
CallsMade == IF step.at \in InTool THEN step.tool ELSE step.tool - 1

RunTypes ==
    /\ step = [at |-> step.at, tool |-> step.tool]
    /\ step.at \in OnTheWay \union {"done"} /\ step.tool \in Nat \ {0}
    /\ spans = SpansAt(step.at, step.tool, answer)
    /\ IsSequence(called) /\ IsSequence(results)
    /\ lost \in 0 .. MaxLost /\ torn \in 0 .. lost /\ others \in 0 .. MaxOthers

\* Where it stands tells how many tools it has called and kept.
RunIsThere ==
    /\ step.at \in InTool => step.tool <= Len(Tools)
    /\ step.at \in {"tools"} => step.tool <= Len(Tools) + 1
    /\ step.at \in AfterTools => step.tool = Len(Tools) + 1
    /\ step.at = "done" /\ answer # None => step.tool = Len(Tools) + 1
    /\ step.at = "render" \/ Failed => step.tool = 1
    /\ Len(called) = IF step.at = "collect" THEN step.tool ELSE step.tool - 1
    /\ Len(results) <= step.tool - 1
    /\ answer = None <=> step.at \notin {"decide", "done"} \/ Failed
    /\ answer \in Judgements \union {None}

\* The outcome of a run that is over fits its answer.
OutcomeFits ==
    step.at = "done" =>
      /\ outcome = [success |-> outcome.success, fallback |-> outcome.fallback,
                    tools |-> outcome.tools]
      /\ outcome.success \in BOOLEAN /\ outcome.fallback \in BOOLEAN
      /\ answer = None => ~outcome.success
      /\ answer = "usable" => outcome.success /\ ~outcome.fallback
      /\ answer = "unusable" => outcome.fallback = outcome.success
      /\ outcome.tools \in 0 .. Len(called)

\* An event of the run is the exception of a prompt, the last thing it does, or
\* stands on a span it has made and says what the run does.
IsRootException(e) == e.kind = "exception" /\ e.span = Analyst!Root
FitsRun(e) ==
    \/ IsRootException(e) /\ Failed
    \/ /\ ~Failed
       /\ \E n \in 1 .. spans : e.span = Analyst!Child(n)
       /\ e.kind = "agent_response" =>
            answer # None /\ e.note = [validated |-> answer = "usable"]
       /\ e.kind = "agent_decision" =>
            step.at = "done" /\ e.note = [fallback |-> outcome.fallback, tools |-> outcome.tools]
EventsFit == \A e \in StampedByRun : OfRun(e) /\ FitsRun(e)

\* The other process writes in a trace of its own.
Apart(e) == e.kind = "system_event" /\ e.span = Analyst!Span("session", 0, None)
OthersApart ==
    /\ \A e \in told : ~OfRun(e) => Apart(e)
    /\ \A w \in Writers \ {"agent"} : writing[w] # None => Apart(writing[w])

\* Nothing is missing while every write succeeds.
ToolCalls == {e \in StampedByRun : e.kind = "mcp_tool_call"}
Tells(e, c) == /\ e.span = c.span /\ e.kind = "mcp_tool_result"
               /\ e.note = [tool |-> c.tool, ok |-> c.ok]
NothingMissing ==
    lost = 0 =>
      /\ Cardinality(ToolCalls) = CallsMade
      /\ \A k \in 1 .. Len(called) : \E e \in StampedByRun : Tells(e, called[k])
      /\ Failed => \E e \in StampedByRun : IsRootException(e)
      /\ step.at = "done" /\ answer # None => \E e \in StampedByRun : e.kind = "agent_decision"

\* A file has nothing but what was acknowledged and what is broken.
FilesFit == files \in [1 .. Days -> Seq(told \union {Analyst!Torn, Analyst!Garbage})]

RunInv ==
    /\ RunTypes /\ RunIsThere /\ OutcomeFits /\ EventsFit /\ OthersApart /\ NothingMissing
    /\ FilesFit

\* Each place has its number of spans.
LEMMA SpansThere ==
    \A tool, given :
      /\ \A at \in {"render", "tools"} : SpansAt(at, tool, given) = tool - 1
      /\ \A at \in InTool \union {"prompt"} : SpansAt(at, tool, given) = tool
      /\ SpansAt("invoke", tool, given) = tool + 1
      /\ SpansAt("decide", tool, given) = tool + 2
      /\ SpansAt("done", tool, given) = IF given = None THEN 0 ELSE tool + 3
BY DEF SpansAt, InTool

\* A sequence has a length, and one more with an element more.
LEMMA SequenceGrows ==
    ASSUME NEW q, IsSequence(q)
    PROVE  /\ Len(q) \in Nat
           /\ \A x : /\ IsSequence(Append(q, x)) /\ Len(Append(q, x)) = Len(q) + 1
                     /\ Append(q, x)[Len(q) + 1] = x
                     /\ \A k \in 1 .. Len(q) : Append(q, x)[k] = q[k]
<1>1. PICK S : q \in Seq(S)
  BY DEF IsSequence
<1>2. ASSUME NEW x
      PROVE  /\ IsSequence(Append(q, x)) /\ Len(Append(q, x)) = Len(q) + 1
             /\ Append(q, x)[Len(q) + 1] = x
             /\ \A k \in 1 .. Len(q) : Append(q, x)[k] = q[k]
  <2>1. q \in Seq(S \union {x})
    BY <1>1, SeqMonotonic
  <2> QED
    BY <2>1 DEF IsSequence
<1> QED
  BY <1>1, <1>2

\* What the agent stamps is the one event that it adds.
LEMMA StampAdds ==
    ASSUME RunConfigured, TrailInv, RunInv, Analyst!Free,
           NEW span, NEW kind, NEW note, NEW new,
           Analyst!Stamp("agent", span, kind, note),
           new = [span |-> span, kind |-> kind, note |-> note, at |-> hour]
    PROVE  /\ StampedByRun' = StampedByRun \union {new}
           /\ StampedByRun = {e \in told : OfRun(e)}
           /\ UNCHANGED <<files, told, lost, torn>>
           /\ OthersApart' /\ FilesFit'
<1>1. /\ writing["agent"] = None
      /\ writing' = [writing EXCEPT !["agent"] = new]
      /\ UNCHANGED <<hour, files, told, lost, torn>>
  BY DEF Analyst!Stamp
<1>2. "agent" \in Writers /\ new # None
  BY DEF RunConfigured
<1>3. writing'["agent"] = new /\ \A w \in Writers \ {"agent"} : writing'[w] = writing[w]
  BY <1>1, <1>2 DEF TrailInv, TrailTypes
<1>4. Pending = {} /\ Pending' = {new}
  BY <1>1, <1>2, <1>3 DEF Pending
<1>5. StampedByRun = {e \in told : OfRun(e)} /\ StampedByRun' = StampedByRun \union {new}
  BY <1>1, <1>4 DEF StampedByRun, OfRun
<1>6. OthersApart'
  BY <1>1, <1>3 DEF RunInv, OthersApart, OfRun, Apart
<1>7. FilesFit'
  BY <1>1 DEF RunInv, FilesFit
<1> QED
  BY <1>1, <1>5, <1>6, <1>7

\* An event on a span of the run: it fits, and the others go on fitting.
LEMMA TellsOnSpan ==
    ASSUME RunConfigured, TrailInv, RunInv, Analyst!Free, step.at # "done",
           NEW n, NEW kind, NEW note, NEW next,
           Analyst!Tell(Analyst!Child(n), kind, note, next),
           next = "done" => answer # None,
           answer' = answer \/ answer = None,
           n \in 1 .. spans', spans <= spans', spans' \in Int, spans \in Int,
           kind = "agent_response" => answer' # None /\ note = [validated |-> answer' = "usable"],
           kind = "agent_decision" =>
             next = "done" /\ note = [fallback |-> outcome'.fallback, tools |-> outcome'.tools]
    PROVE  /\ EventsFit' /\ OthersApart' /\ FilesFit'
           /\ UNCHANGED <<told, lost, torn>> /\ ~Failed'
           /\ StampedByRun \subseteq StampedByRun'
           /\ IF kind = "mcp_tool_call"
              THEN n = spans + 1 => /\ IsFiniteSet(ToolCalls)
                                    /\ Cardinality(ToolCalls') = Cardinality(ToolCalls) + 1
              ELSE ToolCalls' = ToolCalls
           /\ \E e \in StampedByRun' : /\ e.kind = kind /\ e.note = note
                                       /\ e.span = Analyst!Child(n)
<1>1. PICK new : new = [span |-> Analyst!Child(n), kind |-> kind, note |-> note, at |-> hour]
  OBVIOUS
<1>2. /\ new.span = Analyst!Child(n) /\ new.kind = kind /\ new.note = note
      /\ new.span.trace = "run"
  BY <1>1 DEF Analyst!Child, Analyst!Span
<1>3. /\ StampedByRun' = StampedByRun \union {new}
      /\ StampedByRun = {e \in told : OfRun(e)}
      /\ UNCHANGED <<files, told, lost, torn>>
      /\ OthersApart' /\ FilesFit'
  <2>1. Analyst!Stamp("agent", Analyst!Child(n), kind, note)
    BY DEF Analyst!Tell
  <2> QED
    BY <1>1, <2>1, StampAdds
<1>4. step'.at = next /\ ~Failed /\ ~Failed'
  <2>1. step' = [step EXCEPT !.at = next] /\ step = [at |-> step.at, tool |-> step.tool]
    BY DEF Analyst!Tell, Analyst!Go, RunInv, RunTypes
  <2>2. step'.at = next
    BY <2>1
  <2>3. next = "done" => answer' # None
    OBVIOUS
  <2> QED
    BY <2>2, <2>3 DEF Failed
<1>5. ASSUME NEW e \in StampedByRun
      PROVE  OfRun(e)' /\ FitsRun(e)'
  <2>1. OfRun(e) /\ FitsRun(e)
    BY DEF RunInv, EventsFit
  <2>2. PICK m \in 1 .. spans : e.span = Analyst!Child(m)
    BY <1>4, <2>1 DEF FitsRun
  <2>3. m \in 1 .. spans'
    BY <2>2
  <2>4. /\ e.kind # "agent_decision"
        /\ e.kind = "agent_response" => answer # None /\ e.note = [validated |-> answer = "usable"]
    BY <1>4, <2>1 DEF FitsRun
  <2>5. e.kind = "agent_response" => answer' = answer
    BY <2>4
  <2>6. FitsRun(e)'
    BY <1>4, <2>2, <2>3, <2>4, <2>5 DEF FitsRun
  <2> QED
    BY <2>1, <2>6 DEF OfRun
<1>6. OfRun(new)' /\ FitsRun(new)'
  BY <1>2, <1>4 DEF FitsRun, OfRun
<1>7. EventsFit'
  BY <1>3, <1>5, <1>6 DEF EventsFit
<1>8. ASSUME kind = "mcp_tool_call", n = spans + 1
      PROVE  IsFiniteSet(ToolCalls) /\ Cardinality(ToolCalls') = Cardinality(ToolCalls) + 1
  <2>1. ToolCalls \subseteq told /\ IsFiniteSet(told)
    BY <1>3 DEF ToolCalls, TrailInv, TrailTypes
  <2>2. IsFiniteSet(ToolCalls)
    BY <2>1, FS_Subset
  <2>3. ToolCalls' = ToolCalls \union {new}
    BY <1>2, <1>3, <1>8 DEF ToolCalls
  <2>4. new \notin StampedByRun
    <3> SUFFICES ASSUME new \in StampedByRun PROVE FALSE
      OBVIOUS
    <3>1. PICK m \in 1 .. spans : Analyst!Child(n) = Analyst!Child(m)
      BY <1>2, <1>4 DEF RunInv, EventsFit, FitsRun
    <3>2. n = m
      BY <3>1 DEF Analyst!Child, Analyst!Span
    <3> QED
      BY <1>8, <3>1, <3>2
  <2>5. new \notin ToolCalls
    BY <2>4 DEF ToolCalls
  <2> QED
    BY <2>2, <2>3, <2>5, FS_AddElement
<1>9. ASSUME kind # "mcp_tool_call" PROVE ToolCalls' = ToolCalls
  BY <1>2, <1>3, <1>9 DEF ToolCalls
<1>10. StampedByRun \subseteq StampedByRun' /\ new \in StampedByRun'
  BY <1>3
<1> QED
  BY <1>2, <1>3, <1>4, <1>7, <1>8, <1>9, <1>10

\* Neither a write nor another process changes what the run has stamped, unless
\* the write fails.
LEMMA BesideTheRun ==
    ASSUME RunConfigured, TrailInv, RunInv,
           \/ \E w \in Writers : Analyst!Writes(w)
           \/ Analyst!Other
           \/ Analyst!Hour /\ UNCHANGED Analyst!agent
           \/ UNCHANGED Analyst!vars
    PROVE  RunInv'
<1>1. UNCHANGED <<step, results, called, answer, outcome, spans>>
  BY DEF Analyst!Writes, Analyst!Other, Analyst!Hour, Analyst!agent, Analyst!vars
<1>2. ASSUME NEW d \in 1 .. Days, NEW line,
             files' = [files EXCEPT ![d] = Analyst!Put(files[d], line)],
             told \subseteq told', line \in told' \union {Analyst!Torn}
      PROVE  FilesFit'
  <2> DEFINE S == told \union {Analyst!Torn, Analyst!Garbage}
             T == told' \union {Analyst!Torn, Analyst!Garbage}
  <2>2. files \in [1 .. Days -> Seq(S)] /\ files[d] \in Seq(S)
    BY DEF RunInv, FilesFit
  <2>3. S \union {line, Analyst!Garbage} \subseteq T /\ S \subseteq T
    BY <1>2
  <2> HIDE DEF S, T
  <2>4. Analyst!Put(files[d], line) \in Seq(T)
    <3>1. Analyst!Put(files[d], line) \in Seq(S \union {line, Analyst!Garbage})
      BY <2>2, PutLines
    <3> QED
      BY <2>3, <3>1, SeqMonotonic
  <2>5. \A c \in 1 .. Days : files[c] \in Seq(T)
    <3> SUFFICES ASSUME NEW c \in 1 .. Days PROVE files[c] \in Seq(T)
      OBVIOUS
    <3>1. files[c] \in Seq(S)
      BY <2>2
    <3> QED
      BY <2>3, <3>1, SeqMonotonic
  <2>6. files' \in [1 .. Days -> Seq(T)]
    BY <1>2, <2>2, <2>4, <2>5
  <2> QED
    BY <2>6 DEF FilesFit, T
<1>3. ASSUME NEW w \in Writers, Analyst!Writes(w)
      PROVE  /\ StampedByRun' \subseteq StampedByRun
             /\ lost' = lost => StampedByRun' = StampedByRun
             /\ OthersApart' /\ FilesFit'
             /\ lost' \in 0 .. MaxLost /\ lost <= lost' /\ torn' \in 0 .. lost'
             /\ others' = others
  <2>1. PICK e, d : e = writing[w] /\ d = Analyst!DayOf(e.at)
    OBVIOUS
  <2>2. /\ e # None /\ writing' = [writing EXCEPT ![w] = None] /\ others' = others
        /\ d \in 1 .. Days
    <3>1. e # None /\ writing' = [writing EXCEPT ![w] = None] /\ others' = others
      BY <1>3, <2>1
         DEF Analyst!Writes, Analyst!Appended, Analyst!AppendFails, Analyst!agent
    <3>2. d \in 1 .. Days
      BY <2>1, <3>1, DaysOfHours DEF RunConfigured, TrailInv, TrailTypes, IsEvent
    <3> QED
      BY <3>1, <3>2
  <2>3. writing'[w] = None /\ \A v \in Writers \ {w} : writing'[v] = writing[v]
    BY <2>2 DEF TrailInv, TrailTypes
  <2>4. "agent" \in Writers
    BY DEF RunConfigured
  <2>5. /\ w = "agent" => Pending = {e} /\ Pending' = {} /\ OfRun(e)
        /\ w # "agent" => Pending' = Pending /\ ~OfRun(e) /\ Apart(e)
    <3>1. CASE w = "agent"
      <4>1. Pending = {e} /\ Pending' = {}
        BY <2>1, <2>2, <2>3, <3>1 DEF Pending
      <4> QED
        BY <3>1, <4>1 DEF RunInv, EventsFit, StampedByRun
    <3>2. CASE w # "agent"
      <4>1. Pending' = Pending
        BY <2>3, <2>4, <3>2 DEF Pending
      <4>2. Apart(e)
        BY <2>1, <2>2, <3>2 DEF RunInv, OthersApart
      <4> QED
        BY <3>2, <4>1, <4>2 DEF Apart, OfRun, Analyst!Span
    <3> QED
      BY <3>1, <3>2
  <2>6. CASE Analyst!Appended(w)
    <3>1. /\ files' = [files EXCEPT ![d] = Analyst!Put(files[d], e)]
          /\ told' = told \union {e} /\ UNCHANGED <<lost, torn>>
      BY <2>1, <2>6 DEF Analyst!Appended, Analyst!FileFor
    <3>2. StampedByRun' = StampedByRun
      BY <2>5, <3>1 DEF StampedByRun, OfRun
    <3>3. OthersApart'
      BY <2>2, <2>3, <2>5, <3>1 DEF RunInv, OthersApart, OfRun, Apart
    <3>4. FilesFit'
      BY <1>2, <2>2, <3>1
    <3> QED
      BY <2>2, <3>1, <3>2, <3>3, <3>4 DEF RunInv, RunTypes
  <2>7. CASE Analyst!AppendFails(w)
    <3>1. /\ told' = told /\ lost < MaxLost /\ lost' = lost + 1
          /\ \/ UNCHANGED <<files, torn>>
             \/ files' = [files EXCEPT ![d] = Analyst!Put(files[d], Analyst!Torn)]
                /\ torn' = torn + 1
      BY <2>1, <2>7 DEF Analyst!AppendFails, Analyst!FileFor
    <3>2. StampedByRun' \subseteq StampedByRun
      BY <2>5, <3>1 DEF StampedByRun, OfRun
    <3>3. OthersApart'
      BY <2>2, <2>3, <3>1 DEF RunInv, OthersApart, OfRun, Apart
    <3>4. FilesFit'
      <4>1. CASE UNCHANGED <<files, torn>>
        BY <3>1, <4>1 DEF RunInv, FilesFit
      <4>2. CASE files' = [files EXCEPT ![d] = Analyst!Put(files[d], Analyst!Torn)]
        BY <1>2, <2>2, <3>1, <4>2
      <4> QED
        BY <3>1, <4>1, <4>2
    <3>5. lost' \in 0 .. MaxLost /\ lost < lost' /\ torn' \in 0 .. lost'
      BY <3>1 DEF RunInv, RunTypes, RunConfigured
    <3>6. lost' # lost /\ lost <= lost'
      BY <3>1, <3>5 DEF RunInv, RunTypes
    <3> QED
      BY <2>2, <3>2, <3>3, <3>4, <3>5, <3>6
  <2> QED
    BY <1>3, <2>6, <2>7 DEF Analyst!Writes
<1>4. ASSUME \/ Analyst!Other
             \/ Analyst!Hour /\ UNCHANGED Analyst!agent
             \/ UNCHANGED Analyst!vars
      PROVE  /\ StampedByRun' = StampedByRun /\ OthersApart' /\ FilesFit'
             /\ lost' = lost /\ torn' = torn /\ others' \in 0 .. MaxOthers
  <2>1. UNCHANGED <<files, told, lost, torn>> /\ others' \in 0 .. MaxOthers
    BY <1>4 DEF Analyst!Other, Analyst!Stamp, Analyst!Hour, Analyst!agent, Analyst!vars,
                Analyst!trail, RunInv, RunTypes, RunConfigured
  <2>2. /\ \A w \in Writers \ {"other"} : writing'[w] = writing[w]
        /\ writing'["other"] = writing["other"] \/ Apart(writing'["other"])
    <3>1. CASE UNCHANGED writing
      BY <3>1
    <3>2. CASE Analyst!Other
      <4>1. PICK new : /\ new = [span |-> Analyst!Span("session", 0, None),
                                 kind |-> "system_event", note |-> [number |-> others],
                                 at |-> hour]
                       /\ writing' = [writing EXCEPT !["other"] = new]
        BY <3>2 DEF Analyst!Other, Analyst!Stamp
      <4>2. Apart(new)
        BY <4>1 DEF Apart
      <4> QED
        BY <4>1, <4>2 DEF TrailInv, TrailTypes, RunConfigured
    <3> QED
      BY <1>4, <3>1, <3>2 DEF Analyst!Hour, Analyst!vars, Analyst!trail
  <2>3. Pending' = Pending
    BY <2>2 DEF Pending, RunConfigured
  <2>4. StampedByRun' = StampedByRun
    BY <2>1, <2>3 DEF StampedByRun, OfRun
  <2>5. OthersApart'
    BY <2>1, <2>2 DEF RunInv, OthersApart, OfRun, Apart
  <2> QED
    BY <2>1, <2>4, <2>5 DEF RunInv, FilesFit
<1>5. /\ StampedByRun' \subseteq StampedByRun
      /\ lost' = lost => StampedByRun' = StampedByRun
      /\ OthersApart' /\ FilesFit'
      /\ lost' \in 0 .. MaxLost /\ lost <= lost' /\ torn' \in 0 .. lost'
      /\ others' \in 0 .. MaxOthers
  <2>1. /\ lost \in 0 .. MaxLost /\ torn \in 0 .. lost /\ others \in 0 .. MaxOthers
        /\ MaxLost \in Nat
    BY DEF RunInv, RunTypes, RunConfigured
  <2>2. CASE \E w \in Writers : Analyst!Writes(w)
    BY <1>3, <2>1, <2>2
  <2>3. CASE ~ \E w \in Writers : Analyst!Writes(w)
    BY <1>4, <2>1, <2>3
  <2> QED
    BY <2>2, <2>3
<1>6. RunTypes' /\ RunIsThere' /\ OutcomeFits'
  BY <1>1, <1>5 DEF RunInv, RunTypes, RunIsThere, OutcomeFits, Failed
<1>7. EventsFit'
  BY <1>1, <1>5 DEF RunInv, EventsFit, OfRun, FitsRun, IsRootException, Failed
<1>8. NothingMissing'
  <2> SUFFICES ASSUME lost' = 0 PROVE NothingMissing'
    BY DEF NothingMissing
  <2>1. lost = 0 /\ StampedByRun' = StampedByRun
    BY <1>5 DEF RunInv, RunTypes, RunConfigured
  <2>2. ToolCalls' = ToolCalls /\ CallsMade' = CallsMade /\ (Failed' <=> Failed)
    BY <1>1, <2>1 DEF ToolCalls, CallsMade, Failed
  <2> QED
    BY <1>1, <2>1, <2>2 DEF RunInv, NothingMissing, Tells, IsRootException
<1> QED
  BY <1>5, <1>6, <1>7, <1>8 DEF RunInv

\* Each step of the run keeps it: the prompts and the tools.
LEMMA RunInvCalls ==
    ASSUME RunConfigured, TrailInv, RunInv,
           \/ Analyst!Render \/ Analyst!RenderFails \/ Analyst!CallTool
           \/ Analyst!ToolAnswers \/ Analyst!ToolRaises \/ Analyst!ErrorAnswered
           \/ Analyst!Collect
    PROVE  RunInv'
<1> USE DEF Analyst!At, Analyst!Go
<1>0. /\ Len(Tools) \in Nat /\ Len(called) \in Nat /\ Len(results) \in Nat
      /\ step = [at |-> step.at, tool |-> step.tool] /\ step.tool \in Nat \ {0}
      /\ lost \in 0 .. MaxLost /\ torn \in 0 .. lost /\ others \in 0 .. MaxOthers
  BY SequenceGrows DEF RunConfigured, RunInv, RunTypes
<1>1. CASE Analyst!Render \/ Analyst!Collect
  <2>1. /\ step' = [at |-> "tools", tool |-> IF step.at = "render" THEN step.tool
                                             ELSE step.tool + 1]
        /\ step.at \in {"render", "collect"}
        /\ UNCHANGED <<files, told, writing, lost, torn, called, answer, outcome, spans, others>>
        /\ \/ results' = results
           \/ step.at = "collect" /\ \E c : results' = Append(results, c)
    BY <1>0, <1>1 DEF Analyst!Render, Analyst!Collect, Analyst!trail
  <2>2. step'.at = "tools" /\ step'.tool \in Nat \ {0} /\ ~Failed /\ ~Failed'
    BY <1>0, <2>1 DEF Failed
  <2>3. /\ StampedByRun' = StampedByRun /\ ToolCalls' = ToolCalls
        /\ CallsMade' = CallsMade
    BY <1>0, <2>1, <2>2 DEF StampedByRun, Pending, OfRun, ToolCalls, CallsMade, InTool
  <2>4. /\ IsSequence(results')
        /\ \/ Len(results') = Len(results)
           \/ Len(results') = Len(results) + 1 /\ step.at = "collect"
    <3>1. IsSequence(results)
      BY DEF RunInv, RunTypes
    <3>2. \A c : /\ IsSequence(Append(results, c))
                 /\ Len(Append(results, c)) = Len(results) + 1
      BY <3>1, SequenceGrows
    <3> QED
      BY <2>1, <3>1, <3>2
  <2>5. RunTypes' /\ RunIsThere'
    <3>1. /\ spans = step'.tool - 1 /\ Len(called) = step'.tool - 1
          /\ Len(results') <= step'.tool - 1 /\ step'.tool <= Len(Tools) + 1
          /\ answer = None
      <4>1. answer = None /\ Len(results) <= step.tool - 1
        BY <2>1, <2>2 DEF RunInv, RunIsThere
      <4>2. CASE step.at = "render"
        <5>1. step.tool = 1 /\ spans = step.tool - 1 /\ Len(called) = step.tool - 1
          BY <4>2, SpansThere DEF RunInv, RunTypes, RunIsThere
        <5>2. step'.tool = step.tool /\ Len(results') = Len(results)
          BY <2>1, <2>4, <4>2
        <5> QED
          BY <1>0, <4>1, <5>1, <5>2
      <4>3. CASE step.at = "collect"
        <5>1. step.tool <= Len(Tools) /\ spans = step.tool /\ Len(called) = step.tool
          BY <4>3, SpansThere DEF RunInv, RunTypes, RunIsThere, InTool
        <5>2. step'.tool = step.tool + 1
          BY <2>1, <4>3
        <5> QED
          BY <1>0, <2>4, <4>1, <5>1, <5>2
      <4> QED
        BY <2>1, <4>2, <4>3
    <3>2. RunTypes'
      <4>1. spans' = SpansAt(step'.at, step'.tool, answer')
        BY <2>1, <2>2, <3>1, SpansThere
      <4> QED
        BY <1>0, <2>1, <2>2, <2>4, <4>1 DEF RunInv, RunTypes, OnTheWay
    <3>3. RunIsThere'
      BY <1>0, <2>1, <2>2, <3>1 DEF RunIsThere, InTool, AfterTools
    <3> QED
      BY <3>2, <3>3
  <2>6. OutcomeFits' /\ OthersApart' /\ FilesFit'
    BY <2>1, <2>2 DEF RunInv, OutcomeFits, OthersApart, FilesFit, OfRun, Apart
  <2>7. EventsFit'
    BY <2>1, <2>2, <2>3 DEF RunInv, EventsFit, OfRun, FitsRun
  <2>8. NothingMissing'
    BY <2>1, <2>2, <2>3 DEF RunInv, NothingMissing, Tells
  <2> QED
    BY <2>5, <2>6, <2>7, <2>8 DEF RunInv
<1>2. CASE Analyst!RenderFails
  <2>1. /\ step' = [step EXCEPT !.at = "done"] /\ step.at = "render" /\ Analyst!Free
        /\ Analyst!Stamp("agent", Analyst!Root, "exception", [tool |-> None])
        /\ outcome' = [success |-> FALSE, fallback |-> FALSE, tools |-> 0]
        /\ UNCHANGED <<results, called, answer, spans, others>>
    BY <1>2 DEF Analyst!RenderFails, Analyst!Tell
  <2>2. step.tool = 1 /\ spans = 0 /\ answer = None /\ ~Failed
    BY <2>1, SpansThere DEF RunInv, RunTypes, RunIsThere, Failed
  <2>3. step'.at = "done" /\ step'.tool = 1 /\ Failed'
    BY <1>0, <2>1, <2>2 DEF Failed
  <2>4. StampedByRun = {}
    BY <2>2 DEF RunInv, EventsFit, FitsRun
  <2>5. PICK new : new = [span |-> Analyst!Root, kind |-> "exception", note |-> [tool |-> None],
                          at |-> hour]
    OBVIOUS
  <2>6. /\ StampedByRun' = {new} /\ UNCHANGED <<files, told, lost, torn>>
        /\ OthersApart' /\ FilesFit'
    BY <2>1, <2>4, <2>5, StampAdds
  <2>7. IsRootException(new) /\ OfRun(new) /\ new.kind # "mcp_tool_call"
    BY <2>5 DEF IsRootException, OfRun, Analyst!Root, Analyst!Span
  <2>8. EventsFit'
    BY <2>3, <2>6, <2>7 DEF EventsFit, FitsRun, IsRootException, OfRun
  <2>9. RunTypes' /\ RunIsThere' /\ OutcomeFits'
    <3>1. Len(called) = 0 /\ Len(results) = 0
      BY <1>0, <2>1, <2>2 DEF RunInv, RunIsThere
    <3>2. RunTypes'
      <4>1. spans' = SpansAt(step'.at, step'.tool, answer')
        BY <2>1, <2>2, <2>3, SpansThere
      <4> QED
        BY <1>0, <2>1, <2>2, <2>3, <2>6, <4>1 DEF RunInv, RunTypes
    <3>3. RunIsThere'
      BY <1>0, <2>1, <2>2, <2>3, <3>1
         DEF RunIsThere, InTool, AfterTools, OnTheWay, Failed
    <3>4. OutcomeFits'
      BY <2>1, <2>2, <2>3, <3>1 DEF OutcomeFits, RunConfigured
    <3> QED
      BY <3>2, <3>3, <3>4
  <2>10. NothingMissing'
    <3>1. ToolCalls' = {} /\ Cardinality(ToolCalls') = 0 /\ Len(called') = 0
      <4>1. ToolCalls' = {}
        BY <2>6, <2>7 DEF ToolCalls
      <4>2. Len(called') = 0
        BY <2>1, <2>2 DEF RunInv, RunIsThere
      <4> QED
        BY <4>1, <4>2, FS_EmptySet
    <3>2. CallsMade' = 0 /\ IsRootException(new)'
      BY <2>3, <2>7 DEF CallsMade, InTool, IsRootException
    <3> QED
      BY <2>1, <2>2, <2>3, <2>6, <3>1, <3>2 DEF NothingMissing
  <2> QED
    BY <2>6, <2>8, <2>9, <2>10 DEF RunInv
<1>3. CASE Analyst!CallTool
  <2>1. /\ step.at = "tools" /\ Analyst!Free /\ step.tool <= Len(Tools)
        /\ step' = [step EXCEPT !.at = "handler"] /\ spans' = spans + 1
        /\ UNCHANGED <<results, called, answer, outcome, others>>
    BY <1>3 DEF Analyst!CallTool, Analyst!Tell
  <2>2. PICK n, note : /\ n = spans + 1
                       /\ Analyst!Tell(Analyst!Child(n), "mcp_tool_call", note, "handler")
    BY <1>3 DEF Analyst!CallTool
  <2>3. spans = step.tool - 1 /\ n \in 1 .. spans' /\ spans \in Int /\ spans' \in Int
    BY <1>0, <2>1, <2>2, SpansThere DEF RunInv, RunTypes, InTool
  <2>4. /\ EventsFit' /\ OthersApart' /\ FilesFit' /\ UNCHANGED <<told, lost, torn>> /\ ~Failed'
        /\ StampedByRun \subseteq StampedByRun'
        /\ IsFiniteSet(ToolCalls) /\ Cardinality(ToolCalls') = Cardinality(ToolCalls) + 1
    BY <2>1, <2>2, <2>3, TellsOnSpan
  <2>5. step'.at = "handler" /\ step'.tool = step.tool
    BY <1>0, <2>1
  <2>6. RunTypes' /\ RunIsThere' /\ OutcomeFits'
    <3>1. spans' = SpansAt(step'.at, step'.tool, answer')
      BY <1>0, <2>1, <2>3, <2>5, SpansThere DEF InTool
    <3> QED
      BY <1>0, <2>1, <2>3, <2>4, <2>5, <3>1
         DEF RunInv, RunTypes, RunIsThere, OutcomeFits, InTool, AfterTools, OnTheWay, Failed
  <2>7. NothingMissing'
    BY <1>0, <2>1, <2>4, <2>5 DEF RunInv, NothingMissing, CallsMade, InTool, Tells, Failed
  <2> QED
    BY <2>4, <2>6, <2>7 DEF RunInv
<1>4. CASE Analyst!ToolRaises
  <2>1. /\ step.at = "handler" /\ Analyst!Free /\ step' = [step EXCEPT !.at = "raised"]
        /\ UNCHANGED <<results, called, answer, outcome, spans, others>>
    BY <1>4 DEF Analyst!ToolRaises, Analyst!Tell
  <2>2. PICK n, note : /\ n = spans
                       /\ Analyst!Tell(Analyst!Child(n), "exception", note, "raised")
    BY <1>4 DEF Analyst!ToolRaises
  <2>3. spans = step.tool /\ n \in 1 .. spans' /\ spans \in Int /\ spans <= spans'
    BY <1>0, <2>1, <2>2, SpansThere DEF RunInv, RunTypes, InTool
  <2>4. /\ EventsFit' /\ OthersApart' /\ FilesFit' /\ UNCHANGED <<told, lost, torn>> /\ ~Failed'
        /\ StampedByRun \subseteq StampedByRun' /\ ToolCalls' = ToolCalls
    BY <2>1, <2>2, <2>3, TellsOnSpan
  <2>5. step'.at = "raised" /\ step'.tool = step.tool
    BY <1>0, <2>1
  <2>6. RunTypes' /\ RunIsThere' /\ OutcomeFits'
    <3>1. spans' = SpansAt(step'.at, step'.tool, answer')
      BY <1>0, <2>1, <2>3, <2>5, SpansThere DEF InTool
    <3> QED
      BY <1>0, <2>1, <2>3, <2>4, <2>5, <3>1
         DEF RunInv, RunTypes, RunIsThere, OutcomeFits, InTool, AfterTools, OnTheWay, Failed
  <2>7. NothingMissing'
    BY <1>0, <2>1, <2>4, <2>5 DEF RunInv, NothingMissing, CallsMade, InTool, Tells, Failed
  <2> QED
    BY <2>4, <2>6, <2>7 DEF RunInv
<1>5. CASE Analyst!ToolAnswers \/ Analyst!ErrorAnswered
  <2>1. PICK n, name, ok :
             /\ step.at \in {"handler", "raised"} /\ Analyst!Free /\ n = spans
             /\ Analyst!Tell(Analyst!Child(n), "mcp_tool_result", [tool |-> name, ok |-> ok],
                             "collect")
             /\ called' = Append(called, [tool |-> name, ok |-> ok, span |-> Analyst!Child(n)])
             /\ UNCHANGED <<results, answer, outcome, spans, others>>
    BY <1>5 DEF Analyst!ToolAnswers, Analyst!ErrorAnswered
  <2>2. PICK note, c : /\ note = [tool |-> name, ok |-> ok]
                       /\ c = [tool |-> name, ok |-> ok, span |-> Analyst!Child(n)]
    OBVIOUS
  <2>3. spans = step.tool /\ n \in 1 .. spans' /\ spans \in Int /\ spans <= spans'
    BY <1>0, <2>1, SpansThere DEF RunInv, RunTypes, InTool
  <2>4. /\ EventsFit' /\ OthersApart' /\ FilesFit' /\ UNCHANGED <<told, lost, torn>> /\ ~Failed'
        /\ StampedByRun \subseteq StampedByRun' /\ ToolCalls' = ToolCalls
        /\ \E e \in StampedByRun' : /\ e.kind = "mcp_tool_result" /\ e.note = note
                                    /\ e.span = Analyst!Child(n)
    <3>1. Analyst!Tell(Analyst!Child(n), "mcp_tool_result", note, "collect")
      BY <2>1, <2>2
    <3> QED
      BY <2>1, <2>3, <3>1, TellsOnSpan
  <2>5. step'.at = "collect" /\ step'.tool = step.tool
        /\ step' = [at |-> "collect", tool |-> step.tool]
    BY <1>0, <2>1 DEF Analyst!Tell
  <2>6. /\ IsSequence(called')
        /\ Len(called') = Len(called) + 1 /\ called'[Len(called) + 1] = c
        /\ \A k \in 1 .. Len(called) : called'[k] = called[k]
    BY <2>1, <2>2, SequenceGrows DEF RunInv, RunTypes
  <2>7. RunTypes' /\ RunIsThere' /\ OutcomeFits'
    <3>1. spans' = SpansAt(step'.at, step'.tool, answer')
      BY <1>0, <2>1, <2>3, <2>5, SpansThere DEF InTool
    <3>2. Len(called) = step.tool - 1
      BY <2>1 DEF RunInv, RunIsThere
    <3> QED
      BY <1>0, <2>1, <2>3, <2>4, <2>5, <2>6, <3>1, <3>2
         DEF RunInv, RunTypes, RunIsThere, OutcomeFits, InTool, AfterTools, OnTheWay, Failed
  <2>8. NothingMissing'
    <3> SUFFICES ASSUME lost' = 0 PROVE NothingMissing'
      BY DEF NothingMissing
    <3>1. ASSUME NEW k \in 1 .. Len(called')
          PROVE  \E e \in StampedByRun' : Tells(e, called'[k])
      <4>1. CASE k = Len(called) + 1
        <5>1. called'[k] = c
          BY <2>6, <4>1
        <5> QED
          BY <2>2, <2>4, <5>1 DEF Tells
      <4>2. CASE k # Len(called) + 1
        <5>1. k \in 1 .. Len(called) /\ called'[k] = called[k]
          BY <1>0, <2>6, <4>2
        <5> QED
          BY <2>4, <5>1 DEF RunInv, NothingMissing, Tells
      <4> QED
        BY <4>1, <4>2
    <3>2. Cardinality(ToolCalls') = CallsMade'
      BY <2>1, <2>4, <2>5 DEF RunInv, NothingMissing, CallsMade, InTool
    <3>3. (\A k \in 1 .. Len(called) : \E e \in StampedByRun : Tells(e, called[k]))'
      BY <3>1 DEF Tells
    <3> QED
      BY <2>4, <2>5, <3>2, <3>3 DEF NothingMissing
  <2> QED
    BY <2>4, <2>7, <2>8 DEF RunInv
<1> QED
  BY <1>1, <1>2, <1>3, <1>4, <1>5

\* Each step of the run keeps it: the model's answer and the decision.
LEMMA RunInvAnswers ==
    ASSUME RunConfigured, TrailInv, RunInv,
           Analyst!Prompt \/ Analyst!Invoke \/ Analyst!Decide
    PROVE  RunInv'
<1> USE DEF Analyst!At, Analyst!Go
<1>0. /\ Len(Tools) \in Nat /\ Len(called) \in Nat /\ Len(results) \in Nat
      /\ step = [at |-> step.at, tool |-> step.tool] /\ step.tool \in Nat \ {0}
      /\ lost \in 0 .. MaxLost /\ torn \in 0 .. lost /\ others \in 0 .. MaxOthers
  BY SequenceGrows DEF RunConfigured, RunInv, RunTypes
<1>1. CASE Analyst!Prompt
  <2>1. PICK n, note, next :
             /\ Analyst!Free /\ n = spans + 1 /\ spans' = spans + 1
             /\ Analyst!Tell(Analyst!Child(n), "agent_prompt", note, next)
             /\ \/ step.at = "tools" /\ step.tool > Len(Tools) /\ next = "prompt"
                \/ step.at = "prompt" /\ next = "invoke"
             /\ UNCHANGED <<results, called, answer, outcome, others>>
    BY <1>1 DEF Analyst!Prompt
  <2>2. /\ spans = IF step.at = "tools" THEN step.tool - 1 ELSE step.tool
        /\ n \in 1 .. spans' /\ spans \in Int /\ spans' \in Int /\ spans <= spans'
    <3>1. spans = IF step.at = "tools" THEN step.tool - 1 ELSE step.tool
      BY <2>1, SpansThere DEF RunInv, RunTypes, InTool
    <3>2. spans \in Nat
      BY <1>0, <3>1
    <3>3. n = spans + 1 /\ spans' = spans + 1
      BY <2>1
    <3> QED
      BY <3>1, <3>2, <3>3
  <2>3. step'.at = next /\ step'.tool = step.tool /\ step' = [at |-> next, tool |-> step.tool]
    BY <1>0, <2>1 DEF Analyst!Tell
  <2>4. /\ EventsFit' /\ OthersApart' /\ FilesFit' /\ UNCHANGED <<told, lost, torn>> /\ ~Failed'
        /\ StampedByRun \subseteq StampedByRun' /\ ToolCalls' = ToolCalls
    BY <2>1, <2>2, TellsOnSpan
  <2>5. /\ step.tool = Len(Tools) + 1 /\ answer = None /\ Len(called) = step.tool - 1
        /\ Len(results) <= step.tool - 1 /\ ~Failed
    BY <1>0, <2>1 DEF RunInv, RunIsThere, AfterTools, Failed
  <2>6. RunTypes'
    <3>1. spans' = SpansAt(step'.at, step'.tool, answer')
      BY <1>0, <2>1, <2>2, <2>3, SpansThere DEF InTool
    <3> QED
      BY <1>0, <2>1, <2>3, <2>4, <3>1 DEF RunInv, RunTypes, OnTheWay, AfterTools
  <2>7. RunIsThere' /\ OutcomeFits'
    BY <1>0, <2>1, <2>3, <2>4, <2>5 DEF RunIsThere, OutcomeFits, InTool, AfterTools
  <2>8. NothingMissing'
    BY <1>0, <2>1, <2>3, <2>4, <2>5 DEF RunInv, NothingMissing, CallsMade, InTool, Tells
  <2> QED
    BY <2>4, <2>6, <2>7, <2>8 DEF RunInv
<1>2. CASE Analyst!Invoke
  <2>1. PICK n, note :
             /\ Analyst!Free /\ n = spans + 1 /\ spans' = spans + 1 /\ step.at = "invoke"
             /\ Analyst!Tell(Analyst!Child(n), "agent_response", note, "decide")
             /\ note = [validated |-> answer' = "usable"] /\ answer' \in Judgements
             /\ UNCHANGED <<results, called, outcome, others>>
    BY <1>2 DEF Analyst!Invoke, Judgements
  <2>2. /\ spans = step.tool + 1
        /\ n \in 1 .. spans' /\ spans \in Int /\ spans' \in Int /\ spans <= spans'
    <3>1. spans = step.tool + 1
      BY <2>1, SpansThere DEF RunInv, RunTypes
    <3> QED
      BY <1>0, <2>1, <3>1
  <2>3. step'.at = "decide" /\ step'.tool = step.tool
        /\ step' = [at |-> "decide", tool |-> step.tool]
    BY <1>0, <2>1 DEF Analyst!Tell
  <2>4. /\ step.tool = Len(Tools) + 1 /\ answer = None /\ Len(called) = step.tool - 1
        /\ Len(results) <= step.tool - 1 /\ ~Failed /\ answer' # None
    BY <1>0, <2>1 DEF RunInv, RunIsThere, AfterTools, Failed, Judgements, RunConfigured
  <2>5. /\ EventsFit' /\ OthersApart' /\ FilesFit' /\ UNCHANGED <<told, lost, torn>> /\ ~Failed'
        /\ StampedByRun \subseteq StampedByRun' /\ ToolCalls' = ToolCalls
    BY <2>1, <2>2, <2>4, TellsOnSpan
  <2>6. RunTypes'
    <3>1. spans' = SpansAt(step'.at, step'.tool, answer')
      BY <1>0, <2>1, <2>2, <2>3, SpansThere
    <3> QED
      BY <1>0, <2>1, <2>3, <2>5, <3>1 DEF RunInv, RunTypes, OnTheWay, AfterTools
  <2>7. RunIsThere' /\ OutcomeFits'
    BY <1>0, <2>1, <2>3, <2>4, <2>5 DEF RunIsThere, OutcomeFits, InTool, AfterTools
  <2>8. NothingMissing'
    BY <1>0, <2>1, <2>3, <2>4, <2>5 DEF RunInv, NothingMissing, CallsMade, InTool, Tells
  <2> QED
    BY <2>5, <2>6, <2>7, <2>8 DEF RunInv
<1>3. CASE Analyst!Decide
  <2>0. PICK built \in BOOLEAN :
             /\ Analyst!Free /\ spans' = spans + 1 /\ step.at = "decide"
             /\ Analyst!Tell(Analyst!Child(spans + 1), "agent_decision",
                             [fallback |-> built /\ ~(answer = "usable"), tools |-> Len(results)],
                             "done")
             /\ outcome' = [success |-> built, fallback |-> built /\ ~(answer = "usable"),
                            tools |-> Len(results)]
             /\ answer = "usable" => built
             /\ UNCHANGED <<results, called, answer, others>>
    BY <1>3 DEF Analyst!Decide, Analyst!IsSuccess
  <2>1. PICK n, note :
             /\ Analyst!Free /\ n = spans + 1 /\ spans' = spans + 1 /\ step.at = "decide"
             /\ Analyst!Tell(Analyst!Child(n), "agent_decision", note, "done")
             /\ note = [fallback |-> built /\ ~(answer = "usable"), tools |-> Len(results)]
             /\ outcome' = [success |-> built, fallback |-> built /\ ~(answer = "usable"),
                            tools |-> Len(results)]
             /\ answer = "usable" => built
             /\ UNCHANGED <<results, called, answer, others>>
    BY <2>0
  <2>2. /\ spans = step.tool + 2
        /\ n \in 1 .. spans' /\ spans \in Int /\ spans' \in Int /\ spans <= spans'
    <3>1. n = spans + 1 /\ spans' = spans + 1 /\ step.at = "decide"
      BY <2>1
    <3>2. spans = step.tool + 2
      BY <3>1, SpansThere DEF RunInv, RunTypes
    <3> QED
      BY <1>0, <3>1, <3>2
  <2>3. step'.at = "done" /\ step'.tool = step.tool
        /\ step' = [at |-> "done", tool |-> step.tool]
    BY <1>0, <2>1 DEF Analyst!Tell
  <2>4. /\ step.tool = Len(Tools) + 1 /\ answer \in Judgements /\ answer # None
        /\ Len(called) = step.tool - 1 /\ Len(results) <= step.tool - 1 /\ ~Failed
    BY <1>0, <2>1 DEF RunInv, RunIsThere, AfterTools, Failed, Judgements, RunConfigured
  <2>5. /\ EventsFit' /\ OthersApart' /\ FilesFit' /\ UNCHANGED <<told, lost, torn>> /\ ~Failed'
        /\ StampedByRun \subseteq StampedByRun' /\ ToolCalls' = ToolCalls
        /\ \E e \in StampedByRun' : e.kind = "agent_decision"
    <3>1. note = [fallback |-> outcome'.fallback, tools |-> outcome'.tools]
      BY <2>1
    <3> QED
      BY <2>1, <2>2, <2>4, <3>1, TellsOnSpan
  <2>6. RunTypes'
    <3>1. spans' = SpansAt(step'.at, step'.tool, answer')
      BY <1>0, <2>1, <2>2, <2>3, <2>4, SpansThere
    <3> QED
      BY <1>0, <2>1, <2>3, <2>5, <3>1 DEF RunInv, RunTypes, OnTheWay, AfterTools
  <2>7. RunIsThere'
    BY <1>0, <2>1, <2>3, <2>4, <2>5 DEF RunIsThere, InTool, AfterTools
  <2>8. OutcomeFits'
    <3>1. /\ outcome'.success = built /\ outcome'.fallback = (built /\ ~(answer = "usable"))
          /\ outcome'.tools = Len(results)
          /\ outcome' = [success |-> outcome'.success, fallback |-> outcome'.fallback,
                         tools |-> outcome'.tools]
      BY <2>1
    <3>2. /\ outcome'.success \in BOOLEAN /\ outcome'.fallback \in BOOLEAN
          /\ answer = "usable" => outcome'.success /\ ~outcome'.fallback
          /\ answer = "unusable" => outcome'.fallback = outcome'.success
      <4>1. CASE answer = "usable"
        BY <2>1, <3>1, <4>1
      <4>2. CASE answer # "usable"
        <5>1. outcome'.fallback = built
          BY <3>1, <4>2
        <5> QED
          BY <3>1, <4>2, <5>1
      <4> QED
        BY <4>1, <4>2
    <3>3. outcome'.tools \in 0 .. Len(called') /\ answer' # None /\ answer' = answer
      BY <1>0, <2>1, <2>4, <3>1
    <3> QED
      BY <3>1, <3>2, <3>3 DEF OutcomeFits
  <2>9. NothingMissing'
    BY <1>0, <2>1, <2>3, <2>4, <2>5 DEF RunInv, NothingMissing, CallsMade, InTool, Tells
  <2> QED
    BY <2>5, <2>6, <2>7, <2>8, <2>9 DEF RunInv
<1> QED
  BY <1>1, <1>2, <1>3

\* So it holds of every run beside every writer.
LEMMA RunInvHolds ==
    ASSUME RunConfigured PROVE Analyst!Spec => [](TrailInv /\ RunInv)
<1>1. Analyst!Init => RunInv
  <2> SUFFICES ASSUME Analyst!Init PROVE RunInv
    OBVIOUS
  <2>1. /\ hour = 0 /\ files = [d \in 1 .. Days |-> <<>>] /\ told = {} /\ lost = 0 /\ torn = 0
        /\ writing = [w \in Writers |-> None] /\ step = [at |-> "render", tool |-> 1]
        /\ results = <<>> /\ called = <<>> /\ answer = None /\ outcome = None
        /\ spans = 0 /\ others = 0
    BY DEF Analyst!Init, Analyst!TrailInit
  <2>2. /\ StampedByRun = {} /\ ToolCalls = {} /\ Cardinality(ToolCalls) = 0
        /\ CallsMade = 0 /\ ~Failed /\ step.at = "render" /\ step.tool = 1
    <3>1. StampedByRun = {}
      BY <2>1 DEF StampedByRun, Pending, RunConfigured
    <3>2. ToolCalls = {}
      BY <3>1 DEF ToolCalls
    <3> QED
      BY <2>1, <3>1, <3>2, FS_EmptySet DEF CallsMade, InTool, Failed
  <2>3. IsSequence(called) /\ IsSequence(results) /\ Len(called) = 0 /\ Len(results) = 0
    <3>1. <<>> \in Seq({})
      OBVIOUS
    <3> QED
      BY <2>1, <3>1 DEF IsSequence
  <2>4. RunTypes
    <3>1. spans = SpansAt(step.at, step.tool, answer)
      BY <2>1, <2>2, SpansThere
    <3> QED
      BY <2>1, <2>2, <2>3, <3>1 DEF RunTypes, OnTheWay, RunConfigured
  <2>5. RunIsThere /\ OutcomeFits
    BY <2>1, <2>2, <2>3 DEF RunIsThere, OutcomeFits, InTool, AfterTools
  <2>6. EventsFit /\ OthersApart /\ NothingMissing
    BY <2>1, <2>2, <2>3 DEF EventsFit, OthersApart, NothingMissing
  <2>7. FilesFit
    <3>1. \A S : <<>> \in Seq(S)
      OBVIOUS
    <3> QED
      BY <2>1, <3>1 DEF FilesFit
  <2> QED
    BY <2>4, <2>5, <2>6, <2>7 DEF RunInv
<1>2. TrailInv /\ RunInv /\ [Analyst!Next]_(Analyst!vars) => RunInv'
  BY RunInvCalls, RunInvAnswers, BesideTheRun DEF Analyst!Next
<1>3. Analyst!Spec => []TrailInv
  BY TrailInvHolds DEF RunConfigured
<1> QED
  BY <1>1, <1>2, <1>3, PTL DEF Analyst!Spec

\* All that a search of the whole trail finds was acknowledged, and without a
\* torn line it finds all that was.
LEMMA WholeSearch ==
    ASSUME RunConfigured, TrailInv, RunInv
    PROVE  /\ Analyst!Search(0, Analyst!MaxClock) \subseteq told /\ IsFiniteSet(told)
           /\ \A upto \in 0 .. Analyst!MaxClock :
                Analyst!Search(0, upto) \subseteq Analyst!Search(0, Analyst!MaxClock)
           /\ torn = 0 => Analyst!Search(0, Analyst!MaxClock) = told
<1>1. ASSUME NEW d \in 1 .. Days
      PROVE  Analyst!Events(d) \subseteq told
  <2>1. files[d] \in Seq(told \union {Analyst!Torn, Analyst!Garbage})
    BY DEF RunInv, FilesFit
  <2> QED
    BY <2>1 DEF Analyst!Events
<1>2. ASSUME NEW upto
      PROVE  Analyst!Search(0, upto) \subseteq told
  BY <1>1 DEF Analyst!Search, Analyst!Listed
<1>3. \A e \in told : IsEvent(e) /\ e.at \in 0 .. Analyst!MaxClock /\ IsFiniteSet(told)
  BY DEF TrailInv, TrailTypes, IsEvent
<1>4. ASSUME NEW upto \in 0 .. Analyst!MaxClock, NEW e \in Analyst!Search(0, upto)
      PROVE  e \in Analyst!Search(0, Analyst!MaxClock)
  <2>1. e \in told /\ e.at \in 0 .. Analyst!MaxClock
    BY <1>2, <1>3
  <2>2. PICK d \in Analyst!Listed(0, upto) : e \in Analyst!Events(d)
    BY DEF Analyst!Search
  <2>3. d \in Analyst!Listed(0, Analyst!MaxClock)
    BY <2>2, FirstAndLastDay DEF Analyst!Listed, RunConfigured, TrailConfigured
  <2> QED
    BY <2>1, <2>2, <2>3 DEF Analyst!Search
<1>5. ASSUME torn = 0, NEW e \in told
      PROVE  e \in Analyst!Search(0, Analyst!MaxClock)
  <2>1. Missing = {} /\ cut = {}
    <3>1. Missing \in SUBSET told /\ Broken \in SUBSET (1 .. Days) /\ cut \in SUBSET (1 .. Days)
      BY DEF Missing, Broken, TrailInv, TrailTypes
    <3>2. IsFiniteSet(1 .. Days)
      BY FS_Interval DEF RunConfigured, TrailConfigured
    <3>3. /\ IsFiniteSet(Missing) /\ Cardinality(Missing) \in Nat
          /\ IsFiniteSet(cut) /\ Cardinality(cut) \in Nat /\ Cardinality(Broken) \in Nat
      BY <3>1, <3>2, FS_Subset, FS_CardinalityType DEF TrailInv, TrailTypes
    <3>4. Cardinality(Missing) = 0 /\ Cardinality(cut) = 0
      BY <1>5, <3>3 DEF TrailInv, TornCounted
    <3> QED
      BY <3>3, <3>4, FS_EmptySet
  <2> DEFINE d == Analyst!DayOf(e.at)
  <2>2. d \in 1 .. Days /\ InFile(e, d)
    <3>1. d \in 1 .. Days
      BY <1>3, DaysOfHours DEF RunConfigured
    <3>2. InFile(e, d)
      BY <2>1 DEF Missing
    <3> QED
      BY <3>1, <3>2
  <2>3. e \in Analyst!Events(d)
    BY <1>3, <2>2, EventsAreWhole DEF Analyst!Events, InFile, Lines, TrailInv, TrailTypes
  <2>4. d \in Analyst!Listed(0, Analyst!MaxClock)
    BY <2>2, FirstAndLastDay DEF Analyst!Listed, RunConfigured, TrailConfigured
  <2> QED
    BY <1>3, <2>3, <2>4 DEF Analyst!Search
<1>6. IsFiniteSet(told)
  BY DEF TrailInv, TrailTypes
<1> QED
  BY <1>2, <1>4, <1>5, <1>6

\* The module's types.
LEMMA RunTypesFit ==
    ASSUME RunConfigured, TrailInv, RunInv PROVE Analyst!TypeOK
<1>1. /\ Len(Tools) \in Nat /\ step.tool \in Nat \ {0}
      /\ step.at \in OnTheWay \union {"done"} /\ Len(results) <= Len(called)
  <2>1. Len(Tools) \in Nat /\ Len(results) \in Nat /\ step.tool \in Nat \ {0}
    BY SequenceGrows DEF RunConfigured, RunInv, RunTypes
  <2> QED
    BY <2>1 DEF RunInv, RunTypes, RunIsThere
<1>2. step.tool <= Len(Tools) + 1 /\ spans <= Len(Tools) + 4
  <2>1. spans = SpansAt(step.at, step.tool, answer)
    BY DEF RunInv, RunTypes
  <2>2. CASE step.at = "render" \/ Failed
    BY <1>1, <2>1, <2>2, SpansThere DEF RunInv, RunIsThere, Failed
  <2>3. CASE step.at = "tools"
    BY <1>1, <2>1, <2>3, SpansThere DEF RunInv, RunIsThere
  <2>4. CASE step.at \in InTool
    <3>1. spans = step.tool
      BY <2>1, <2>4, SpansThere
    <3>2. step.tool <= Len(Tools)
      BY <2>4 DEF RunInv, RunIsThere
    <3> QED
      BY <1>1, <3>1, <3>2
  <2>5. CASE step.at \in AfterTools
    <3>1. spans \in {step.tool, step.tool + 1, step.tool + 2}
      BY <2>1, <2>5, SpansThere DEF AfterTools
    <3>2. step.tool = Len(Tools) + 1
      BY <2>5 DEF RunInv, RunIsThere
    <3> QED
      BY <1>1, <3>1, <3>2
  <2>6. CASE step.at = "done" /\ ~Failed
    BY <1>1, <2>1, <2>6, SpansThere DEF RunInv, RunIsThere, Failed
  <2> QED
    BY <1>1, <2>2, <2>3, <2>4, <2>5, <2>6 DEF OnTheWay
<1>3. /\ hour \in 0 .. Analyst!MaxClock /\ torn <= lost /\ lost <= MaxLost
      /\ others <= MaxOthers
  BY DEF TrailInv, TrailTypes, RunInv, RunTypes
<1> QED
  BY <1>1, <1>2, <1>3 DEF Analyst!TypeOK

\* When every write succeeded the trail tells the run.
LEMMA TrailTells ==
    ASSUME RunConfigured, TrailInv, RunInv PROVE Analyst!TrailTellsTheRun
<1> SUFFICES ASSUME Analyst!Done, lost = 0 PROVE Analyst!TrailTellsTheRun
  BY DEF Analyst!TrailTellsTheRun
<1> DEFINE found == Analyst!FindByTrace("run")
           calls == {e \in found : e.kind = "mcp_tool_call"}
<1>1. step.at = "done" /\ writing["agent"] = None /\ torn = 0
  BY DEF Analyst!Done, Analyst!At, Analyst!Free, RunInv, RunTypes, RunConfigured
<1>2. found = StampedByRun
  <2>1. StampedByRun = {e \in told : e.span.trace = "run"}
    BY <1>1 DEF StampedByRun, Pending, OfRun
  <2>2. Analyst!Search(0, Analyst!MaxClock) = told
    BY <1>1, WholeSearch
  <2> QED
    BY <2>1, <2>2 DEF Analyst!FindByTrace
<1> HIDE DEF found
<1>3. \A e \in found : FitsRun(e)
  BY <1>2 DEF RunInv, EventsFit
<1>4. /\ Failed => \E e \in found : IsRootException(e)
      /\ ~Failed => \E e \in found : e.kind = "agent_decision"
      /\ \A k \in 1 .. Len(called) : \E e \in found : Tells(e, called[k])
      /\ Cardinality(ToolCalls) = CallsMade
  BY <1>1, <1>2 DEF RunInv, NothingMissing, Failed
<1>5. (\A e \in found : e.kind # "agent_decision") <=>
        (\E e \in found : e.span = Analyst!Root /\ e.kind = "exception")
  <2>1. CASE Failed
    BY <1>3, <1>4, <2>1 DEF FitsRun, IsRootException
  <2>2. CASE ~Failed
    <3>1. ASSUME NEW e \in found PROVE e.span # Analyst!Root
      <4>1. PICK n \in 1 .. spans : e.span = Analyst!Child(n)
        BY <1>3, <2>2 DEF FitsRun
      <4> QED
        BY <4>1 DEF Analyst!Root, Analyst!Child, Analyst!Span
    <3> QED
      BY <1>4, <2>2, <3>1
  <2> QED
    BY <2>1, <2>2
<1>6. ASSUME NEW e \in found
      PROVE  /\ e.kind = "agent_decision" =>
                  e.note.fallback = outcome.fallback /\ e.note.tools = outcome.tools
             /\ e.kind = "agent_response" =>
                  (e.note.validated <=> (outcome.success /\ ~outcome.fallback))
  <2>1. e.kind = "agent_decision" =>
          e.note.fallback = outcome.fallback /\ e.note.tools = outcome.tools
    BY <1>3 DEF FitsRun, IsRootException
  <2>2. ASSUME e.kind = "agent_response"
        PROVE  e.note.validated <=> (outcome.success /\ ~outcome.fallback)
    <3>1. answer # None /\ e.note = [validated |-> answer = "usable"]
      BY <1>3, <2>2 DEF FitsRun, IsRootException
    <3>2. e.note.validated = (answer = "usable")
      BY <3>1
    <3>3. answer \in Judgements
      BY <3>1 DEF RunInv, RunIsThere
    <3>4. (answer = "usable") <=> (outcome.success /\ ~outcome.fallback)
      BY <1>1, <3>3 DEF RunInv, OutcomeFits, Judgements
    <3> QED
      BY <3>2, <3>4
  <2> QED
    BY <2>1, <2>2
<1>7. \A c \in {called[i] : i \in DOMAIN called} :
        \E e \in found : /\ e.span = c.span /\ e.kind = "mcp_tool_result"
                         /\ e.note = [tool |-> c.tool, ok |-> c.ok]
  <2>1. DOMAIN called = 1 .. Len(called)
    BY DEF RunInv, RunTypes, IsSequence
  <2> QED
    BY <1>4, <2>1 DEF Tells
<1>8. Analyst!Cardinality(calls) = Len(called) /\ outcome.tools <= Len(called)
  <2>1. calls = ToolCalls
    BY <1>2 DEF ToolCalls
  <2>2. Analyst!Cardinality(ToolCalls) = Cardinality(ToolCalls)
    BY DEF Analyst!Cardinality, Cardinality
  <2>3. CallsMade = Len(called)
    BY <1>1 DEF CallsMade, InTool, RunInv, RunIsThere
  <2> QED
    <3>1. outcome.tools \in 0 .. Len(called) /\ Len(called) \in Nat
      BY <1>1, SequenceGrows DEF RunInv, RunTypes, OutcomeFits
    <3>2. Analyst!Cardinality(calls) = Len(called)
      BY <1>4, <2>1, <2>2, <2>3
    <3> QED
      BY <3>1, <3>2
<1>9. {e \in found : e.kind = "agent_decision"} = {} <=>
        (\A e \in found : e.kind # "agent_decision")
  OBVIOUS
<1> QED
  BY <1>5, <1>6, <1>7, <1>8, <1>9 DEF Analyst!TrailTellsTheRun, found

\* How a tree grows: one turn for each span, in the order CHOOSE takes them.
Taken(s) == CHOOSE x \in s : TRUE
Grows(it, parentOf, root) ==
    it = [s \in SUBSET DOMAIN parentOf |->
            IF s = {} THEN {root}
            ELSE it[s \ {Taken(s)}] \union Analyst!Children(parentOf, it[s \ {Taken(s)}])]

\* What Build folds is such a growth.
LEMMA BuildGrows ==
    \A parentOf, root :
      Analyst!Build(parentOf, root) = (CHOOSE it : Grows(it, parentOf, root))[DOMAIN parentOf]
BY DEF Analyst!Build, Analyst!FoldSet, Analyst!MapThenFoldSet, Grows, Taken

\* Where every event is a child's there is no tree.
LEMMA NoRootNoTree ==
    ASSUME NEW t, \A e \in Analyst!FindByTrace(t) : e.span.parent # None
    PROVE  Analyst!TraceTree(t) = {}
<1>1. PICK found : found = Analyst!FindByTrace(t)
  OBVIOUS
<1>2. ASSUME NEW e \in found PROVE Analyst!ParentOf(found)[e.span.id] # None
  <2>1. Analyst!ParentOf(found)[e.span.id] =
          (CHOOSE f \in found : f.span.id = e.span.id).span.parent
    BY DEF Analyst!ParentOf
  <2>2. PICK f \in found : f = CHOOSE g \in found : g.span.id = e.span.id
    OBVIOUS
  <2>3. f.span.parent # None
    BY <1>1
  <2> QED
    BY <2>1, <2>2, <2>3
<1>3. Analyst!Roots(found) = {}
  BY <1>2 DEF Analyst!Roots, Analyst!Earliest
<1> QED
  BY <1>1, <1>3 DEF Analyst!TraceTree

\* A finite set of events has an earliest one.
LEMMA SomeIsEarliest ==
    ASSUME NEW E, IsFiniteSet(E), E # {}, \A e \in E : e.at \in Nat
    PROVE  \E e \in E : \A f \in E : e.at <= f.at
<1>1. PICK n \in {e.at : e \in E} : \A m \in {e.at : e \in E} : n <= m
  <2>1. {e.at : e \in E} \in SUBSET Nat /\ {e.at : e \in E} # {}
    OBVIOUS
  <2> QED
    BY <2>1, LeastNatural
<1> QED
  BY <1>1

\* Where all are on the root span, the tree is that span.
LEMMA RootAloneIsTree ==
    ASSUME RunConfigured, NEW t, Analyst!FindByTrace(t) # {}, IsFiniteSet(Analyst!FindByTrace(t)),
           \A e \in Analyst!FindByTrace(t) :
             e.span.id = 0 /\ e.span.parent = None /\ e.at \in Nat
    PROVE  Analyst!TraceTree(t) = {0}
<1>1. PICK found : found = Analyst!FindByTrace(t)
  OBVIOUS
<1>2. {e.span.id : e \in found} = {0} /\ found # {}
  BY <1>1
<1>3. PICK parentOf : parentOf = Analyst!ParentOf(found) /\ parentOf = [s \in {0} |-> None]
  <2>1. (CHOOSE e \in found : e.span.id = 0).span.parent = None
    <3>1. \E e \in found : e.span.id = 0
      BY <1>1, <1>2
    <3>2. PICK f \in found : f = CHOOSE e \in found : e.span.id = 0
      BY <3>1
    <3> QED
      BY <1>1, <3>2
  <2> QED
    BY <1>1, <1>2, <2>1 DEF Analyst!ParentOf
<1>4. {e \in found : parentOf[e.span.id] = None} = found
  BY <1>1, <1>3
<1>5. PICK roots : roots = Analyst!Roots(found)
  OBVIOUS
<1>6. roots # {} /\ \A e \in roots : e.span.id = 0
  <2>1. PICK e \in found : \A f \in found : e.at <= f.at
    BY <1>1, <1>2, SomeIsEarliest
  <2> QED
    BY <1>1, <1>3, <1>4, <1>5, <2>1 DEF Analyst!Roots, Analyst!Earliest
<1>7. (CHOOSE e \in roots : TRUE).span.id = 0
  BY <1>6
<1>8. Analyst!Build(parentOf, 0) = {0}
  <2> DEFINE it == [s \in SUBSET {0} |-> {0}]
  <2>1. DOMAIN parentOf = {0} /\ parentOf[0] = None /\ None # 0
    BY <1>3 DEF RunConfigured
  <2>2. \A s \in SUBSET {0} : s # {} => Taken(s) = 0 /\ s \ {Taken(s)} = {} /\ s = {0}
    BY DEF Taken
  <2>3. Analyst!Children(parentOf, {0}) = {}
    BY <2>1 DEF Analyst!Children
  <2>4. Grows(it, parentOf, 0)
    BY <2>1, <2>2, <2>3 DEF Grows
  <2>5. ASSUME NEW other, Grows(other, parentOf, 0)
        PROVE  other[{0}] = {0}
    <3>1. other = [s \in SUBSET {0} |->
                     IF s = {} THEN {0}
                     ELSE other[s \ {Taken(s)}]
                            \union Analyst!Children(parentOf, other[s \ {Taken(s)}])]
      BY <2>1, <2>5 DEF Grows
    <3>2. other[{}] = {0}
      BY <3>1
    <3>3. {0} \in SUBSET {0} /\ {0} # {} /\ {0} \ {Taken({0})} = {}
      BY <2>2
    <3>4. other[{0}] = other[{0} \ {Taken({0})}]
                         \union Analyst!Children(parentOf, other[{0} \ {Taken({0})}])
      BY <3>1, <3>3
    <3> QED
      BY <2>3, <3>2, <3>3, <3>4
  <2> HIDE DEF it
  <2>6. Grows(CHOOSE other : Grows(other, parentOf, 0), parentOf, 0)
    BY <2>4
  <2> QED
    BY <2>1, <2>5, <2>6, BuildGrows
<1>9. Analyst!TraceTree(t) = Analyst!Build(parentOf, 0)
  BY <1>1, <1>3, <1>5, <1>6, <1>7 DEF Analyst!TraceTree
<1> QED
  BY <1>8, <1>9

\* More events make a summary of more events and no fewer spans.
LEMMA SummaryGrows ==
    ASSUME NEW n \in Nat, NEW F, IsFiniteSet(F), NEW E \in SUBSET F, \A e \in F : e.span.id \in 0 .. n
    PROVE  /\ Analyst!SummaryOf(E).events <= Analyst!SummaryOf(F).events
           /\ Analyst!SummaryOf(E).spans <= Analyst!SummaryOf(F).spans
<1>1. \A G : Analyst!Cardinality(G) = Cardinality(G)
  BY DEF Analyst!Cardinality, Cardinality
<1>2. Cardinality(E) <= Cardinality(F)
  BY FS_Subset
<1>3. Cardinality({e.span.id : e \in E}) <= Cardinality({e.span.id : e \in F})
  <2>1. IsFiniteSet(0 .. n)
    <3>1. 0 \in Int /\ n \in Int
      OBVIOUS
    <3> QED
      BY <3>1, FS_Interval
  <2>2. {e.span.id : e \in F} \in SUBSET (0 .. n)
    OBVIOUS
  <2>3. IsFiniteSet({e.span.id : e \in F})
    BY <2>1, <2>2, FS_Subset
  <2>4. {e.span.id : e \in E} \in SUBSET {e.span.id : e \in F}
    OBVIOUS
  <2> QED
    BY <2>3, <2>4, FS_Subset
<1> QED
  BY <1>1, <1>2, <1>3 DEF Analyst!SummaryOf

\* When the run is over, its trace has no tree or is its failed prompt alone,
\* and that of the other process is its root.
LEMMA TreesAtTheEnd ==
    ASSUME RunConfigured, TrailInv, RunInv, Analyst!Done
    PROVE  /\ \A e \in told : e.span.trace \in {"run", "session"}
           /\ \A e \in told : e.span.id \in 0 .. (Len(Tools) + 4)
           /\ Analyst!TraceTree("run") \in {{}, {0}} /\ (~Failed => Analyst!TraceTree("run") = {})
           /\ Analyst!TraceTree("run") = {0} => Analyst!FindByTrace("run") # {}
                                                /\ \A e \in Analyst!FindByTrace("run") : e.span.id = 0
           /\ Analyst!FindByTrace("session") # {} => Analyst!TraceTree("session") = {0}
           /\ \A e \in Analyst!FindByTrace("session") : e.span.id = 0
<1>1. /\ \A t : Analyst!FindByTrace(t) \subseteq told
      /\ \A t : \A e \in Analyst!FindByTrace(t) : e.span.trace = t
      /\ IsFiniteSet(told) /\ \A e \in told : e.at \in Nat
  <2>1. Analyst!Search(0, Analyst!MaxClock) \subseteq told /\ IsFiniteSet(told)
    BY WholeSearch
  <2>2. \A e \in told : e.at \in Nat
    BY DEF TrailInv, TrailTypes, IsEvent
  <2> QED
    BY <2>1, <2>2 DEF Analyst!FindByTrace
<1>2. \A t : IsFiniteSet(Analyst!FindByTrace(t))
  BY <1>1, FS_Subset
<1>3. \A e \in told : IF OfRun(e) THEN FitsRun(e) ELSE Apart(e)
  BY DEF RunInv, EventsFit, OthersApart, StampedByRun
<1>4. step.at = "done"
  BY DEF Analyst!Done, Analyst!At
<1>5. spans \in Int /\ spans <= Len(Tools) + 4 /\ Len(Tools) \in Nat
  <2>1. spans <= Len(Tools) + 4
    BY RunTypesFit DEF Analyst!TypeOK
  <2>2. Len(Tools) \in Nat
    BY SequenceGrows DEF RunConfigured
  <2>3. spans \in Int
    BY <1>4, SpansThere DEF RunInv, RunTypes
  <2> QED
    BY <2>1, <2>2, <2>3
<1>6. ASSUME NEW e \in told, ~OfRun(e)
      PROVE  e.span.trace = "session" /\ e.span.id = 0 /\ e.span.parent = None
  BY <1>3, <1>6 DEF Apart, Analyst!Span
<1>7. ASSUME NEW e \in told, OfRun(e)
      PROVE  /\ e.span.trace = "run" /\ e.span.id \in 0 .. (Len(Tools) + 4)
             /\ ~Failed => e.span.parent # None
             /\ Failed => e.span.id = 0 /\ e.span.parent = None
  <2>1. FitsRun(e)
    BY <1>3, <1>7
  <2>2. CASE Failed
    BY <1>5, <1>7, <2>1, <2>2
       DEF FitsRun, IsRootException, OfRun, Analyst!Root, Analyst!Span
  <2>3. CASE ~Failed
    <3>1. PICK n \in 1 .. spans : e.span = Analyst!Child(n)
      BY <2>1, <2>3 DEF FitsRun, IsRootException
    <3>2. e.span.id = n /\ e.span.parent = 0 /\ n \in 0 .. (Len(Tools) + 4)
      BY <1>5, <3>1 DEF Analyst!Child, Analyst!Span
    <3> QED
      BY <1>7, <2>3, <3>2 DEF OfRun, RunConfigured
  <2> QED
    BY <2>2, <2>3
<1>8. /\ \A e \in told : e.span.trace \in {"run", "session"}
      /\ \A e \in told : e.span.id \in 0 .. (Len(Tools) + 4)
  BY <1>5, <1>6, <1>7
<1>9. \A e \in Analyst!FindByTrace("session") : e.span.id = 0 /\ e.span.parent = None
  <2>1. \A e \in Analyst!FindByTrace("session") : e \in told /\ ~OfRun(e)
    BY <1>1 DEF OfRun
  <2> QED
    BY <1>6, <2>1
<1>10. Analyst!FindByTrace("session") # {} => Analyst!TraceTree("session") = {0}
  <2>1. \A e \in Analyst!FindByTrace("session") :
          e.span.id = 0 /\ e.span.parent = None /\ e.at \in Nat
    BY <1>1, <1>9
  <2> QED
    BY <1>2, <2>1, RootAloneIsTree
<1>11. \A e \in Analyst!FindByTrace("run") : e \in told /\ OfRun(e)
  BY <1>1 DEF OfRun
<1>12. ~Failed => Analyst!TraceTree("run") = {}
  BY <1>7, <1>11, NoRootNoTree
<1>13. ASSUME Failed
       PROVE  /\ Analyst!TraceTree("run") = IF Analyst!FindByTrace("run") = {} THEN {} ELSE {0}
              /\ \A e \in Analyst!FindByTrace("run") : e.span.id = 0
  <2>1. \A e \in Analyst!FindByTrace("run") :
          e.span.id = 0 /\ e.span.parent = None /\ e.at \in Nat
    BY <1>1, <1>7, <1>11, <1>13
  <2>2. CASE Analyst!FindByTrace("run") = {}
    <3>1. \A e \in Analyst!FindByTrace("run") : e.span.parent # None
      BY <2>2
    <3> QED
      BY <2>1, <2>2, <3>1, NoRootNoTree
  <2>3. CASE Analyst!FindByTrace("run") # {}
    BY <1>2, <2>1, <2>3, RootAloneIsTree
  <2> QED
    BY <2>2, <2>3
<1> QED
  BY <1>8, <1>9, <1>10, <1>12, <1>13

\* When the run is over, the views of the trail agree.
LEMMA ViewsAreOne ==
    ASSUME RunConfigured, TrailInv, RunInv PROVE Analyst!ViewsAgree
<1> SUFFICES ASSUME Analyst!Done PROVE Analyst!ViewsAgree
  BY DEF Analyst!ViewsAgree
<1> DEFINE whole == Analyst!ListTraces(0, Analyst!MaxClock, FALSE)
           all == Analyst!Search(0, Analyst!MaxClock)
<1>1. \A v \in whole : \E t \in {e.span.trace : e \in all} :
        v = <<t, Analyst!SummaryOf(Analyst!FindByTrace(t))>>
  BY DEF Analyst!ListTraces, Analyst!FindByTrace
<1>2. \A t \in {e.span.trace : e \in all} :
        <<t, Analyst!SummaryOf(Analyst!FindByTrace(t))>> \in whole
  BY DEF Analyst!ListTraces, Analyst!FindByTrace
<1>3. Analyst!ListTraces(0, Analyst!MaxClock, TRUE) \subseteq whole
  BY DEF Analyst!ListTraces
<1>4. /\ all \subseteq told /\ IsFiniteSet(told)
      /\ Analyst!Search(0, hour) \subseteq all
  <2>1. hour \in 0 .. Analyst!MaxClock
    BY DEF TrailInv, TrailTypes
  <2> QED
    BY <2>1, WholeSearch
<1>5. ASSUME NEW seen \in Analyst!ListTraces(0, hour, FALSE)
      PROVE  \E v \in whole : /\ v[1] = seen[1]
                              /\ seen[2].events <= v[2].events /\ seen[2].spans <= v[2].spans
  <2> DEFINE here == Analyst!Search(0, hour)
  <2>1. PICK t \in {e.span.trace : e \in here} :
             seen = <<t, Analyst!SummaryOf({e \in here : e.span.trace = t})>>
    BY DEF Analyst!ListTraces
  <2>2. t \in {e.span.trace : e \in all}
    BY <1>4, <2>1
  <2>3. PICK E, F : E = {e \in here : e.span.trace = t} /\ F = Analyst!FindByTrace(t)
    OBVIOUS
  <2> HIDE DEF here, whole
  <2>4. E \subseteq F /\ F \subseteq told
    BY <1>4, <2>3 DEF Analyst!FindByTrace, here
  <2>5. Len(Tools) \in Nat /\ Len(Tools) + 4 \in Nat
    <3>1. Len(Tools) \in Nat
      BY SequenceGrows DEF RunConfigured
    <3> QED
      BY <3>1
  <2>6. IsFiniteSet(F) /\ \A e \in F : e.span.id \in 0 .. (Len(Tools) + 4)
    BY <1>4, <2>4, FS_Subset, TreesAtTheEnd
  <2>7. /\ Analyst!SummaryOf(E).events <= Analyst!SummaryOf(F).events
        /\ Analyst!SummaryOf(E).spans <= Analyst!SummaryOf(F).spans
    BY <2>4, <2>5, <2>6, SummaryGrows
  <2>8. <<t, Analyst!SummaryOf(F)>> \in whole /\ seen = <<t, Analyst!SummaryOf(E)>>
    BY <1>2, <2>1, <2>2, <2>3 DEF whole
  <2> QED
    BY <2>7, <2>8
<1>6. ASSUME NEW v \in whole
      PROVE  /\ v[2] = Analyst!SummaryOf(Analyst!FindByTrace(v[1]))
             /\ v[1] \in {"run", "session"} /\ Analyst!FindByTrace(v[1]) # {}
  <2>1. PICK t \in {e.span.trace : e \in all} :
             v = <<t, Analyst!SummaryOf(Analyst!FindByTrace(t))>>
    BY <1>1
  <2>2. v[1] = t /\ v[2] = Analyst!SummaryOf(Analyst!FindByTrace(t))
    BY <2>1
  <2>3. t \in {"run", "session"}
    BY <1>4, <2>1, TreesAtTheEnd
  <2>4. Analyst!FindByTrace(t) # {}
    BY <2>1 DEF Analyst!FindByTrace
  <2> QED
    BY <2>2, <2>3, <2>4
<1>7. ASSUME NEW e \in all
      PROVE  \E v \in whole : v[1] = e.span.trace
  <2>1. <<e.span.trace, Analyst!SummaryOf(Analyst!FindByTrace(e.span.trace))>> \in whole
    BY <1>2, <1>7
  <2> HIDE DEF whole
  <2> QED
    BY <2>1
<1>8. ASSUME NEW v \in whole
      PROVE  /\ Analyst!TraceTree(v[1]) \subseteq {e.span.id : e \in Analyst!FindByTrace(v[1])}
             /\ v[1] = "session" => Analyst!TraceTree("session") = {0}
             /\ v[1] = "run" => Analyst!TraceTree("run") \subseteq {0}
  <2>1. v[1] \in {"run", "session"} /\ Analyst!FindByTrace(v[1]) # {}
    BY <1>6
  <2>2. CASE v[1] = "session"
    <3>1. Analyst!TraceTree("session") = {0} /\ Analyst!FindByTrace("session") # {}
          /\ \A e \in Analyst!FindByTrace("session") : e.span.id = 0
      BY <2>1, <2>2, TreesAtTheEnd
    <3> QED
      BY <2>2, <3>1
  <2>3. CASE v[1] = "run"
    <3>1. /\ Analyst!TraceTree("run") \in {{}, {0}} /\ Analyst!FindByTrace("run") # {}
          /\ Analyst!TraceTree("run") = {0} => \A e \in Analyst!FindByTrace("run") : e.span.id = 0
      BY <2>1, <2>3, TreesAtTheEnd
    <3> QED
      BY <2>3, <3>1
  <2> QED
    BY <2>1, <2>2, <2>3
<1>9. outcome.success => Analyst!TraceTree("run") = {}
  <2>1. outcome.success => ~Failed
    BY DEF RunInv, OutcomeFits, Failed
  <2> QED
    BY <2>1, TreesAtTheEnd
<1>10. \A v \in whole : v[2] = Analyst!SummaryOf(Analyst!FindByTrace(v[1]))
  BY <1>6
<1> HIDE DEF whole, all
<1> QED
  BY <1>3, <1>5, <1>7, <1>8, <1>9, <1>10 DEF Analyst!ViewsAgree, whole, all

\* The trail of a run is complete: what write acknowledged is found, a run that
\* is over is told from it, and its views agree (observability/audit_writer.py,
\* audit_indexer.py, agent/_agent_runner.py).
THEOREM TrailTellsTheRunAlways ==
    ASSUME RunConfigured
    PROVE  Analyst!Spec => [](/\ Analyst!TypeOK /\ Analyst!AcknowledgedIsFound
                              /\ Analyst!TrailTellsTheRun /\ Analyst!ViewsAgree)
<1>1. TrailInv /\ RunInv => Analyst!TypeOK /\ Analyst!TrailTellsTheRun /\ Analyst!ViewsAgree
  BY RunTypesFit, TrailTells, ViewsAreOne
<1>2. Analyst!Spec => []Analyst!AcknowledgedIsFound
  BY AcknowledgedIsFoundAlways DEF RunConfigured
<1> QED
  BY <1>1, <1>2, RunInvHolds, PTL

-----------------------------------------------------------------------------
(* The desk: each of its parts steps alone *)

\* A step of the desk is a step of one part or leaves it as it is.
LEMMA PartsStepAlone ==
    ASSUME [DeskNext]_<<vars, desk>>
    PROVE  /\ [Analyst!Next]_(Analyst!vars) /\ [Data!Next]_(Data!vars)
           /\ [Shared!Next]_(Shared!vars) /\ [Calls!Next]_call
           /\ UNCHANGED beside
<1>1. CASE Agent
  BY <1>1 DEF Agent, data, prompts, Data!vars, Shared!vars
<1>2. CASE Market
  BY <1>2 DEF Market, run, prompts, Analyst!vars, Analyst!trail, Analyst!agent, Shared!vars
<1>3. CASE Prompt
  BY <1>3 DEF Prompt, run, data, Analyst!vars, Analyst!trail, Analyst!agent, Data!vars
<1>4. CASE Compute
  BY <1>4 DEF Compute, run, data, prompts, Analyst!vars, Analyst!trail, Analyst!agent,
              Data!vars, Shared!vars
<1>5. CASE OrderPath \/ UNCHANGED <<vars, desk>>
  BY <1>5 DEF OrderPath, desk, run, data, prompts, Analyst!vars, Analyst!trail, Analyst!agent,
              Data!vars, Shared!vars
<1> QED
  BY <1>1, <1>2, <1>3, <1>4, <1>5 DEF DeskNext

\* So the desk runs each of them.
LEMMA DeskRunsItsParts ==
    DeskSpec => Analyst!Spec /\ Data!Spec /\ Shared!Spec
<1>1. DeskInit => Analyst!Init /\ Data!Init /\ Shared!Init
  BY DEF DeskInit
<1>2. [DeskNext]_<<vars, desk>> => /\ [Analyst!Next]_(Analyst!vars) /\ [Data!Next]_(Data!vars)
                                   /\ [Shared!Next]_(Shared!vars)
  BY PartsStepAlone
<1> QED
  BY <1>1, <1>2, PTL DEF DeskSpec, Analyst!Spec, Data!Spec, Shared!Spec

\* What write acknowledged is found, the trail of a run tells it and its views
\* agree; the threads share one registry of prompts, which after clear_cache
\* gives the file as it was then or later, unless a thread had read it before.
THEOREM TrailIsCompleteAlways ==
    ASSUME RunConfigured, NoneIsNoNumber
    PROVE  DeskSpec => []TrailIsComplete
<1>1. /\ Analyst!TypeOK /\ Analyst!AcknowledgedIsFound /\ Analyst!TrailTellsTheRun
      /\ Analyst!ViewsAgree /\ Shared!TypeOK /\ Shared!ClearedIsReadAgain
      /\ Shared!RegistryIsShared
      => TrailIsComplete
  BY DEF TrailIsComplete
<1> QED
  BY <1>1, DeskRunsItsParts, TrailTellsTheRunAlways, PromptTypesHold, ClearedIsReadAgainAlways,
     RegistryIsSharedAlways, PTL

-----------------------------------------------------------------------------
(* The cache of the symbol master and the quotes *)

\* Whoever has inserted is alone and found no code of its own in the table.
InsertedAlone ==
    \A p \in Savers : saver[p] = "inserted" =>
        Data!InsertsAll(p) /\ \A q \in Savers : saver[q] = "inserted" => q = p

MasterInv ==
    /\ saver = [p \in Savers |-> saver[p]]
    /\ InsertedAlone /\ Data!MasterIsWhole

\* Nothing is a whole master too, and rows that share no code with a master stay
\* whole with it.
LEMMA WholeGrows ==
    /\ Data!Whole({})
    /\ \A rows : \A p \in Savers :
          /\ Data!Whole(rows)
          /\ \A row \in rows, mine \in MasterOf[p] : row.code # mine.code
          => Data!Whole(rows \union MasterOf[p])
<1>1. Data!Whole({})
  <2>1. PICK P \in SUBSET Savers : P = {}
    OBVIOUS
  <2>2. {} = UNION {MasterOf[p] : p \in P} /\ \A p, q \in P : p # q => Data!Apart(p, q)
    BY <2>1
  <2> QED
    BY <2>2 DEF Data!Whole
<1>2. ASSUME NEW rows, NEW p \in Savers, Data!Whole(rows),
             \A row \in rows, mine \in MasterOf[p] : row.code # mine.code
      PROVE  Data!Whole(rows \union MasterOf[p])
  <2>1. PICK P \in SUBSET Savers :
            /\ rows = UNION {MasterOf[q] : q \in P}
            /\ \A q, r \in P : q # r => Data!Apart(q, r)
    BY <1>2 DEF Data!Whole
  <2>2. \A q \in P : MasterOf[q] \subseteq rows
    BY <2>1
  <2>3. \A q \in P : Data!Apart(q, p) /\ Data!Apart(p, q)
    BY <1>2, <2>2 DEF Data!Apart
  <2>4. rows \union MasterOf[p] = UNION {MasterOf[q] : q \in P \union {p}}
    BY <2>1
  <2>5. \A q, r \in P \union {p} : q # r => Data!Apart(q, r)
    BY <2>1, <2>3
  <2>6. P \union {p} \in SUBSET Savers
    OBVIOUS
  <2> QED
    BY <2>4, <2>5, <2>6 DEF Data!Whole
<1> QED
  BY <1>1, <1>2

\* Each step of a saver and each load keeps it.
LEMMA MasterInvStep ==
    ASSUME MasterInv, [Data!Next]_(Data!vars)
    PROVE  MasterInv'
<1> USE DEF Data!Goes
<1>1. ASSUME NEW p \in Savers, Data!Drop(p) \/ Data!Create(p)
      PROVE  MasterInv'
  <2>1. /\ Data!Inserting = {} /\ table' \in {None, {}} /\ master' = master
        /\ \E to \in {"dropped", "made"} : saver' = [saver EXCEPT ![p] = to]
    BY <1>1 DEF Data!Drop, Data!Create
  <2>2. Data!MasterIsWhole'
    BY <2>1, WholeGrows DEF MasterInv, Data!MasterIsWhole
  <2>3. saver' = [q \in Savers |-> saver'[q]] /\ InsertedAlone'
    BY <2>1 DEF MasterInv, InsertedAlone, Data!Inserting
  <2> QED BY <2>2, <2>3 DEF MasterInv
<1>2. ASSUME NEW p \in Savers, Data!Insert(p)
      PROVE  MasterInv'
  <2>1. /\ Data!Inserting = {} /\ Data!InsertsAll(p)
        /\ saver' = [saver EXCEPT ![p] = "inserted"] /\ UNCHANGED <<table, master>>
    BY <1>2 DEF Data!Insert
  <2>2. Data!InsertsAll(p)'
    BY <2>1 DEF Data!InsertsAll, Data!Conflict
  <2> QED BY <2>1, <2>2 DEF MasterInv, InsertedAlone, Data!MasterIsWhole, Data!Inserting
<1>3. ASSUME NEW p \in Savers, Data!Commit(p)
      PROVE  MasterInv'
  <2>1. /\ saver[p] = "inserted" /\ saver' = [saver EXCEPT ![p] = "saved"]
        /\ table' = table \union MasterOf[p] /\ UNCHANGED master
    BY <1>3 DEF Data!Commit
  <2>2. table # None /\ \A row \in table, mine \in MasterOf[p] : row.code # mine.code
    BY <2>1 DEF MasterInv, InsertedAlone, Data!InsertsAll, Data!Conflict
  <2>3. Data!Whole(table)
    BY <2>2 DEF MasterInv, Data!MasterIsWhole
  <2>4. Data!Whole(table')
    BY <2>1, <2>2, <2>3, WholeGrows
  <2>5. \A q \in Savers : saver'[q] # "inserted"
    BY <2>1 DEF MasterInv, InsertedAlone
  <2> QED BY <2>1, <2>4, <2>5 DEF MasterInv, InsertedAlone, Data!MasterIsWhole
<1>4. CASE Data!FromSqlite
  BY <1>4 DEF Data!FromSqlite, MasterInv, InsertedAlone, Data!InsertsAll, Data!Conflict,
              Data!MasterIsWhole
<1>5. CASE \/ \E r \in Ranges : Data!Ingest(r)
           \/ \E c \in Captures : Data!Upsert(c) \/ Data!PurgeOlderThan(c)
           \/ Data!Tick \/ UNCHANGED Data!vars
  <2>1. UNCHANGED <<table, saver, master>>
    BY <1>5
       DEF Data!Ingest, Data!Upsert, Data!PurgeOlderThan, Data!Tick, Data!vars, Data!cache
  <2> QED
    BY <2>1 DEF MasterInv, InsertedAlone, Data!InsertsAll, Data!Conflict, Data!MasterIsWhole
<1>6. ASSUME NEW p \in Savers, Data!SaveFails(p)
      PROVE  MasterInv'
  <2>1. saver' = [saver EXCEPT ![p] = "failed"] /\ UNCHANGED <<table, master>>
    BY <1>6 DEF Data!SaveFails
  <2> QED
    BY <2>1 DEF MasterInv, InsertedAlone, Data!InsertsAll, Data!Conflict, Data!MasterIsWhole
<1> QED
  BY <1>1, <1>2, <1>3, <1>4, <1>5, <1>6 DEF Data!Next

\* However savers of any masters, their failures and loads interleave, a load
\* gives whole masters or nothing, and never mixes two that share a code
\* (data/symbol_master.py).
THEOREM MasterIsWholeAlways == Data!Spec => []Data!MasterIsWhole
<1>1. Data!Init => MasterInv
  BY DEF Data!Init, MasterInv, InsertedAlone, Data!MasterIsWhole
<1>2. MasterInv /\ [Data!Next]_(Data!vars) => MasterInv'
  BY MasterInvStep
<1>3. MasterInv => Data!MasterIsWhole
  BY DEF MasterInv
<1> QED
  BY <1>1, <1>2, <1>3, PTL DEF Data!Spec

\* Captures and ages are numbers, and None is no snapshot.
QuotesConfigured ==
    /\ Captures \subseteq Int /\ MaxAge \in Nat
    /\ \A c, t \in Int : None # [captured |-> c, received |-> t]

\* One snapshot for a capture, with its depth, none received in the future;
\* one of them is the latest.
QuotesTypes ==
    /\ moment \in Nat
    /\ quotes \subseteq [captured : Int, received : Nat]
    /\ \A q \in quotes : q.received <= moment
    /\ \A q, o \in quotes : q.captured = o.captured => q = o
    /\ depth = {q.captured : q \in quotes}
    /\ quotes # {} => \E q \in quotes : \A o \in quotes : o.captured <= q.captured

\* Without a late one, captures arrive in their order.
InOrderUnlessLate ==
    late = {} => \A q, o \in quotes : q.captured < o.captured => q.received <= o.received

QuotesInv == QuotesTypes /\ InOrderUnlessLate

\* An upsert, a purge and the clock keep it.
LEMMA QuotesInvStep ==
    ASSUME QuotesConfigured, QuotesInv, [Data!Next]_(Data!vars)
    PROVE  QuotesInv'
<1>1. ASSUME NEW c \in Captures, Data!Upsert(c)
      PROVE  QuotesInv'
  <2> DEFINE it == [captured |-> c, received |-> moment]
             kept == {q \in quotes : q.captured # c}
  <2>1. /\ quotes' = kept \union {it} /\ depth' = depth \union {c} /\ moment' = moment
        /\ late' = IF \E q \in quotes : q.captured > c THEN late \union {c} ELSE late
        /\ c \in Int /\ it \in [captured : Int, received : Nat] /\ moment \in Nat
    BY <1>1 DEF Data!Upsert, QuotesConfigured, QuotesInv, QuotesTypes
  <2>2. PICK last \in quotes' : \A o \in quotes' : o.captured <= last.captured
    <3>1. CASE \E q \in quotes : q.captured > c
      <4>1. PICK m \in quotes : \A o \in quotes : o.captured <= m.captured
        BY <3>1 DEF QuotesInv, QuotesTypes
      <4>2. m \in kept /\ c <= m.captured
        BY <2>1, <3>1, <4>1 DEF QuotesInv, QuotesTypes
      <4> QED BY <2>1, <4>1, <4>2
    <3>2. CASE ~\E q \in quotes : q.captured > c
      <4>1. \A q \in quotes : q.captured <= c
        BY <2>1, <3>2 DEF QuotesInv, QuotesTypes
      <4>2. it \in quotes' /\ it.captured = c /\ c <= c
        BY <2>1
      <4>3. \A o \in quotes' : o.captured <= it.captured
        BY <2>1, <4>1, <4>2
      <4> QED BY <4>2, <4>3
    <3> QED BY <3>1, <3>2
  <2>3. QuotesTypes'
    <3>1. \A q, o \in quotes' : q.captured = o.captured => q = o
      BY <2>1 DEF QuotesInv, QuotesTypes
    <3>2. depth' = {q.captured : q \in quotes'}
      <4>1. depth = {q.captured : q \in quotes} /\ it.captured = c
        BY DEF QuotesInv, QuotesTypes
      <4>2. \A x : x \in depth <=> \E q \in quotes : x = q.captured
        BY <4>1
      <4>3. \A x : x \in depth' <=> \E q \in quotes' : x = q.captured
        BY <2>1, <4>1, <4>2
      <4> QED BY <2>1, <4>3
    <3>3. quotes' \subseteq [captured : Int, received : Nat] /\ moment' \in Nat
      BY <2>1 DEF QuotesInv, QuotesTypes
    <3>4. \A q \in quotes' : q.received <= moment'
      BY <2>1 DEF QuotesInv, QuotesTypes
    <3> QED BY <2>2, <3>1, <3>2, <3>3, <3>4 DEF QuotesTypes
  <2>4. InOrderUnlessLate'
    <3> SUFFICES ASSUME late' = {}, NEW q \in quotes', NEW o \in quotes',
                        q.captured < o.captured
                 PROVE  q.received <= o.received
      BY DEF InOrderUnlessLate
    <3>1. late = {} /\ ~\E r \in quotes : r.captured > c
      BY <2>1
    <3>2. \A r \in kept : r.captured < c /\ r.received <= moment
      BY <2>1, <3>1 DEF QuotesInv, QuotesTypes
    <3>3. CASE o = it
      BY <2>1, <3>2, <3>3 DEF QuotesInv, QuotesTypes
    <3>4. CASE o \in kept
      <4>1. q \in kept
        BY <2>1, <3>2, <3>4 DEF QuotesInv, QuotesTypes
      <4> QED BY <3>1, <3>4, <4>1 DEF QuotesInv, InOrderUnlessLate
    <3> QED BY <2>1, <3>3, <3>4
  <2> QED BY <2>3, <2>4 DEF QuotesInv
<1>2. ASSUME NEW c \in Captures, Data!PurgeOlderThan(c)
      PROVE  QuotesInv'
  <2>1. /\ quotes' = {q \in quotes : q.captured >= c} /\ UNCHANGED <<late, moment>>
        /\ depth' = depth \intersect {q.captured : q \in quotes'}
        /\ c \in Int
    BY <1>2 DEF Data!PurgeOlderThan, QuotesConfigured
  <2>2. quotes' # {} => \E q \in quotes' : \A o \in quotes' : o.captured <= q.captured
    <3> SUFFICES ASSUME NEW r \in quotes'
                 PROVE  \E q \in quotes' : \A o \in quotes' : o.captured <= q.captured
      OBVIOUS
    <3>1. r \in quotes /\ r.captured >= c
      BY <2>1
    <3>2. PICK m \in quotes : \A o \in quotes : o.captured <= m.captured
      BY <3>1 DEF QuotesInv, QuotesTypes
    <3>3. m.captured \in Int /\ r.captured \in Int /\ r.captured <= m.captured
      BY <3>1, <3>2 DEF QuotesInv, QuotesTypes
    <3>4. m \in quotes'
      BY <2>1, <3>1, <3>3
    <3> QED BY <2>1, <3>2, <3>4
  <2>3. depth' = {q.captured : q \in quotes'}
    BY <2>1 DEF QuotesInv, QuotesTypes
  <2> QED BY <2>1, <2>2, <2>3 DEF QuotesInv, QuotesTypes, InOrderUnlessLate
<1>3. CASE Data!Tick
  BY <1>3 DEF Data!Tick, QuotesInv, QuotesTypes, InOrderUnlessLate
<1>4. CASE \/ \E p \in Savers : \/ Data!Drop(p) \/ Data!Create(p) \/ Data!Insert(p)
                                \/ Data!Commit(p) \/ Data!SaveFails(p)
           \/ Data!FromSqlite \/ \E r \in Ranges : Data!Ingest(r)
           \/ UNCHANGED Data!vars
  <2>1. UNCHANGED <<quotes, depth, late, moment>>
    BY <1>4 DEF Data!Drop, Data!Create, Data!Insert, Data!Commit, Data!SaveFails,
                Data!FromSqlite, Data!Ingest, Data!vars, Data!market
  <2> QED BY <2>1 DEF QuotesInv, QuotesTypes, InOrderUnlessLate
<1> QED
  BY <1>1, <1>2, <1>3, <1>4 DEF Data!Next

\* A quote that is answered as fresh was received in time and no later capture
\* is stored; a quote received in time is not found only after captures arrived
\* out of order; depth rows have their snapshot (data/quote_store.py).
THEOREM FreshQuotesAreFoundAlways ==
    ASSUME QuotesConfigured
    PROVE  Data!Spec => []Data!FreshQuotesAreFound
<1>1. Data!Init => QuotesInv
  BY DEF Data!Init, QuotesInv, QuotesTypes, InOrderUnlessLate
<1>2. QuotesInv /\ [Data!Next]_(Data!vars) => QuotesInv'
  BY QuotesInvStep
<1>3. QuotesInv => Data!FreshQuotesAreFound
  <2> SUFFICES ASSUME QuotesInv PROVE Data!FreshQuotesAreFound
    OBVIOUS
  <2>1. CASE quotes = {}
    BY <2>1 DEF QuotesInv, QuotesTypes, Data!FreshQuotesAreFound, Data!LatestFresh
  <2>2. CASE quotes # {}
    <3> DEFINE last == Data!Latest
    <3>1. last \in quotes /\ \A o \in quotes : o.captured <= last.captured
      BY <2>2 DEF QuotesInv, QuotesTypes, Data!Latest
    <3>2. last.captured \in Int /\ last.received \in Nat /\ last.received <= moment
          /\ moment \in Nat /\ MaxAge \in Nat /\ last # None
      BY <3>1 DEF QuotesInv, QuotesTypes, QuotesConfigured
    <3>3. Data!LatestFresh = IF Data!IsStale(last) THEN None ELSE last
      BY <2>2 DEF Data!LatestFresh
    <3>4. ASSUME Data!LatestFresh # None
          PROVE  /\ moment - Data!LatestFresh.received \in 0 .. MaxAge
                 /\ \A q \in quotes : q.captured <= Data!LatestFresh.captured
      BY <3>1, <3>2, <3>3, <3>4 DEF Data!IsStale
    <3>5. ASSUME Data!LatestFresh = None, NEW q \in quotes, ~Data!IsStale(q), late = {}
          PROVE  FALSE
      <4>1. moment - last.received > MaxAge
        BY <3>2, <3>3, <3>5 DEF Data!IsStale
      <4>2. q.received \in Nat /\ moment - q.received <= MaxAge /\ q.captured \in Int
        BY <3>2, <3>5 DEF Data!IsStale, QuotesInv, QuotesTypes
      <4>3. q.received <= last.received
        BY <3>1, <3>2, <3>5, <4>2 DEF QuotesInv, QuotesTypes, InOrderUnlessLate
      <4> QED BY <3>2, <4>1, <4>2, <4>3
    <3> QED
      BY <3>4, <3>5 DEF Data!FreshQuotesAreFound, QuotesInv, QuotesTypes
  <2> QED BY <2>1, <2>2
<1> QED
  BY <1>1, <1>2, <1>3, PTL DEF Data!Spec

-----------------------------------------------------------------------------
(* The types of the stored data *)

DataInv ==
    /\ saver \in [Savers -> {"idle", "dropped", "made", "inserted", "saved", "failed"}]
    /\ late \subseteq Captures /\ depth \subseteq Captures
    /\ IsFiniteSet(quotes)

\* Savers go from one place to another, and what is kept of captures is of
\* captures.
LEMMA DataInvStep ==
    ASSUME DataInv, [Data!Next]_(Data!vars)
    PROVE  DataInv'
<1>1. ASSUME NEW p \in Savers, \/ Data!Drop(p) \/ Data!Create(p) \/ Data!Insert(p)
                               \/ Data!Commit(p) \/ Data!SaveFails(p)
      PROVE  DataInv'
  BY <1>1 DEF DataInv, Data!Drop, Data!Create, Data!Insert, Data!Commit, Data!SaveFails,
              Data!Goes, Data!market
<1>2. ASSUME NEW c \in Captures, Data!Upsert(c)
      PROVE  DataInv'
  <2>1. /\ quotes' = {q \in quotes : q.captured # c} \union {[captured |-> c, received |-> moment]}
        /\ depth' = depth \union {c} /\ late' \subseteq late \union {c} /\ saver' = saver
    BY <1>2 DEF Data!Upsert, Data!cache
  <2>2. IsFiniteSet({q \in quotes : q.captured # c})
    BY FS_Subset DEF DataInv
  <2>3. IsFiniteSet(quotes')
    BY <2>1, <2>2, FS_AddElement
  <2> QED BY <2>1, <2>3 DEF DataInv
<1>3. ASSUME NEW c \in Captures, Data!PurgeOlderThan(c)
      PROVE  DataInv'
  <2>1. /\ quotes' \subseteq quotes /\ depth' \subseteq depth /\ UNCHANGED <<late, saver>>
    BY <1>3 DEF Data!PurgeOlderThan, Data!cache
  <2>2. IsFiniteSet(quotes')
    BY <2>1, FS_Subset DEF DataInv
  <2> QED BY <2>1, <2>2 DEF DataInv
<1>4. CASE Data!FromSqlite \/ (\E r \in Ranges : Data!Ingest(r)) \/ Data!Tick \/ UNCHANGED Data!vars
  <2>1. UNCHANGED <<saver, late, depth, quotes>>
    BY <1>4 DEF Data!FromSqlite, Data!Ingest, Data!Tick, Data!vars, Data!cache, Data!market
  <2> QED BY <2>1 DEF DataInv
<1> QED
  BY <1>1, <1>2, <1>3, <1>4 DEF Data!Next

\* A capture has one snapshot: there are as many as captures.
LEMMA OneSnapshotEach ==
    ASSUME DataInv, QuotesInv
    PROVE  Cardinality(quotes) = Cardinality({q.captured : q \in quotes})
<1> DEFINE captured == {q.captured : q \in quotes}
           f == [q \in quotes |-> q.captured]
<1>1. f \in [quotes -> captured] /\ \A q \in quotes : f[q] = q.captured
  OBVIOUS
<1>2. \A q, o \in quotes : f[q] = f[o] => q = o
  BY <1>1 DEF QuotesInv, QuotesTypes
<1>3. \A c \in captured : \E q \in quotes : f[q] = c
  BY <1>1
<1> HIDE DEF f, captured
<1>4. f \in Bijection(quotes, captured)
  BY <1>1, <1>2, <1>3 DEF Bijection, Injection, Surjection, IsInjective
<1>5. ExistsBijection(quotes, captured)
  BY <1>4 DEF ExistsBijection
<1>6. Cardinality(captured) = Cardinality(quotes)
  BY <1>5, FS_Bijection DEF DataInv
<1> QED
  BY <1>6 DEF captured

\* The types of the data directory's state.
LEMMA DataTypesFit == DataInv /\ QuotesInv => Data!TypeOK
<1>1. \A S : Data!Cardinality(S) = Cardinality(S)
  BY DEF Data!Cardinality, Cardinality
<1> QED
  BY <1>1, OneSnapshotEach DEF DataInv, Data!TypeOK

-----------------------------------------------------------------------------
(* The stored bars *)

\* Ranges are of whole times, a close lies within its bar, and a volume is not
\* negative.
BarsConfigured ==
    /\ Ranges \subseteq Int \X Int /\ Volume \in Nat
    /\ \A t \in Data!Times : Pressure[t] \in 0 .. 100

IsBar(b) == b.up \in 0 .. Volume /\ b.down = Volume - b.up

BarsInv ==
    /\ bars = [t \in Data!Times |-> bars[t]]
    /\ \A t \in Data!Times : bars[t] # None => IsBar(bars[t])

\* The volume of a classified bar is split without rest.
LEMMA SplitIsWhole ==
    ASSUME BarsConfigured, NEW close, NEW previous, NEW pressure \in 0 .. 100
    PROVE  IsBar(Data!ClassifyBar(close, previous, pressure))
<1> DEFINE u == Data!UpRatio(Data!Direction(close, previous), pressure)
<1>1. u \in 0 .. 100
  BY DEF Data!UpRatio
<1> HIDE DEF u
<1>2. Volume * u \in Nat /\ Volume * u <= Volume * 100
  <2>1. Volume \in Nat /\ 100 - u \in Nat /\ u \in Nat
    BY <1>1 DEF BarsConfigured
  <2>2. Volume * (100 - u) \in Nat /\ Volume * u \in Nat
    BY <2>1
  <2>3. Volume * (100 - u) = Volume * 100 - Volume * u
    BY <2>1
  <2> QED BY <2>1, <2>2, <2>3
<1> DEFINE up == (Volume * u) \div 100
<1>3. up \in 0 .. Volume
  <2>1. Volume \in Nat
    BY DEF BarsConfigured
  <2> QED BY <1>2, <2>1
<1>4. /\ Data!ClassifyBar(close, previous, pressure).up = up
      /\ Data!ClassifyBar(close, previous, pressure).down = Volume - up
  BY DEF Data!ClassifyBar, u
<1> QED
  BY <1>3, <1>4 DEF IsBar

\* What is ingested over the stored bars are such bars.
LEMMA BarsInvStep ==
    ASSUME BarsConfigured, BarsInv, [Data!Next]_(Data!vars)
    PROVE  BarsInv'
<1>1. ASSUME NEW r \in Ranges, Data!Ingest(r)
      PROVE  BarsInv'
  <2>1. bars' = [t \in Data!Times |-> IF t \in DOMAIN Data!FetchBars(r)
                                      THEN Data!FetchBars(r)[t] ELSE bars[t]]
    BY <1>1 DEF Data!Ingest, Data!UpsertBars
  <2>2. ASSUME NEW t \in Data!Times, t \in DOMAIN Data!FetchBars(r)
        PROVE  IsBar(Data!FetchBars(r)[t])
    <3>1. \E close, previous :
            Data!FetchBars(r)[t] = Data!ClassifyBar(close, previous, Pressure[t])
      BY <2>2 DEF Data!FetchBars
    <3> QED BY <3>1, SplitIsWhole DEF BarsConfigured
  <2>3. ASSUME NEW t \in Data!Times, bars'[t] # None PROVE IsBar(bars'[t])
    BY <2>1, <2>2, <2>3 DEF BarsInv
  <2> QED BY <2>1, <2>3 DEF BarsInv, IsBar
<1>2. CASE \/ \E p \in Savers : \/ Data!Drop(p) \/ Data!Create(p) \/ Data!Insert(p)
                                \/ Data!Commit(p) \/ Data!SaveFails(p)
           \/ Data!FromSqlite \/ Data!Tick \/ UNCHANGED Data!vars
           \/ \E c \in Captures : Data!Upsert(c) \/ Data!PurgeOlderThan(c)
  <2>1. bars' = bars
    BY <1>2 DEF Data!Drop, Data!Create, Data!Insert, Data!Commit, Data!SaveFails,
                Data!FromSqlite, Data!Tick, Data!Upsert, Data!PurgeOlderThan, Data!vars
  <2> QED BY <2>1 DEF BarsInv, IsBar
<1> QED
  BY <1>1, <1>2 DEF Data!Next

\* The delta and the up volume of a set of bars, as FoldSet computes them.
Deltas(it, S) ==
    it = [s \in SUBSET S |-> IF s = {} THEN 0
                             ELSE it[s \ {First(s)}] + bars[First(s)].up - bars[First(s)].down]
Ups(it, S) ==
    it = [s \in SUBSET S |-> IF s = {} THEN 0 ELSE it[s \ {First(s)}] + bars[First(s)].up]
DeltaOf(S) == (CHOOSE it : Deltas(it, S))[S]
UpOf(S) == (CHOOSE it : Ups(it, S))[S]

\* Both exist for bars whose volume is split.
LEMMA UpsAndDeltasExist ==
    ASSUME NEW S, IsFiniteSet(S), \A t \in S : bars[t].up \in Int /\ bars[t].down \in Int
    PROVE  /\ \E it : Deltas(it, S)
           /\ \E it : Ups(it, S)
<1>1. ASSUME NEW s \in SUBSET S, s # {}
      PROVE  First(s) \in s /\ s \ {First(s)} \in SUBSET S
  BY <1>1 DEF First
<1>2. \E it : Ups(it, S)
  <2> DEFINE w == [t \in S |-> bars[t].up]
  <2>1. PICK it : Sums(it, S, w)
    BY SumsExist
  <2>2. ASSUME NEW s \in SUBSET S, s # {} PROVE w[First(s)] = bars[First(s)].up
    BY <1>1, <2>2
  <2> HIDE DEF w
  <2> QED BY <2>1, <2>2 DEF Sums, Ups
<1>3. \E it : Deltas(it, S)
  <2> DEFINE w == [t \in S |-> bars[t].up - bars[t].down]
  <2>1. PICK it : Sums(it, S, w)
    BY SumsExist
  <2>2. \A t \in S : w[t] = bars[t].up - bars[t].down /\ w[t] \in Int
    OBVIOUS
  <2> HIDE DEF w
  <2>3. \A s \in SUBSET S : it[s] \in Int
    <3> DEFINE Bad == {s \in SUBSET S : it[s] \notin Int}
    <3>1. SUFFICES ASSUME Bad # {} PROVE FALSE
      OBVIOUS
    <3>2. PICK s \in Bad : \A x \in s : s \ {x} \notin Bad
      <4>1. Bad \subseteq SUBSET S
        OBVIOUS
      <4> HIDE DEF Bad
      <4> QED BY <3>1, <4>1, SmallestPart
    <3>3. s # {}
      BY <2>1 DEF Sums
    <3>4. First(s) \in s /\ it[s] = it[s \ {First(s)}] + w[First(s)]
      BY <1>1, <2>1, <3>3 DEF Sums
    <3>5. it[s \ {First(s)}] \in Int /\ w[First(s)] \in Int
      BY <2>2, <3>2, <3>4
    <3> QED BY <3>4, <3>5
  <2>4. ASSUME NEW s \in SUBSET S, s # {}
        PROVE  it[s \ {First(s)}] + w[First(s)]
                 = it[s \ {First(s)}] + bars[First(s)].up - bars[First(s)].down
    <3>1. /\ it[s \ {First(s)}] \in Int /\ w[First(s)] = bars[First(s)].up - bars[First(s)].down
          /\ bars[First(s)].up \in Int /\ bars[First(s)].down \in Int
      BY <1>1, <2>2, <2>3, <2>4
    <3> QED BY <3>1
  <2> QED BY <2>1, <2>4 DEF Sums, Deltas
<1> QED BY <1>2, <1>3

\* The delta is twice the up volume less the whole.
LEMMA DeltaFollowsUps ==
    ASSUME BarsConfigured, NEW S, IsFiniteSet(S), \A t \in S : IsBar(bars[t])
    PROVE  DeltaOf(S) = 2 * UpOf(S) - Cardinality(S) * Volume
<1>1. \A t \in S : /\ bars[t].up \in Int /\ bars[t].down \in Int
                   /\ bars[t].down = Volume - bars[t].up
  BY DEF IsBar, BarsConfigured
<1>2. PICK d : Deltas(d, S) /\ DeltaOf(S) = d[S]
  BY <1>1, UpsAndDeltasExist DEF DeltaOf
<1>3. PICK u : Ups(u, S) /\ UpOf(S) = u[S]
  BY <1>1, UpsAndDeltasExist DEF UpOf
<1> DEFINE Fine(s) == u[s] \in Int /\ d[s] = 2 * u[s] - Cardinality(s) * Volume
           Bad == {s \in SUBSET S : ~Fine(s)}
<1>4. SUFFICES ASSUME Bad # {} PROVE FALSE
  BY <1>2, <1>3
<1>5. PICK s \in Bad : \A x \in s : s \ {x} \notin Bad
  <2>1. Bad \subseteq SUBSET S
    OBVIOUS
  <2> HIDE DEF Bad
  <2> QED BY <1>4, <2>1, SmallestPart
<1>6. s \in SUBSET S /\ Volume \in Nat /\ IsFiniteSet(s)
  BY FS_Subset DEF BarsConfigured
<1>7. CASE s = {}
  <2>1. d[s] = 0 /\ u[s] = 0 /\ Cardinality(s) = 0
    BY <1>2, <1>3, <1>6, <1>7, FS_EmptySet DEF Deltas, Ups
  <2> QED BY <1>5, <1>6, <2>1
<1>8. CASE s # {}
  <2> DEFINE x == First(s)
             rest == s \ {x}
             n == Cardinality(rest)
  <2>1. x \in s /\ x \in S
    BY <1>6, <1>8 DEF First
  <2>2. n \in Nat /\ Cardinality(s) = n + 1
    <3>1. IsFiniteSet(rest) /\ n = Cardinality(s) - 1 /\ Cardinality(s) \in Nat
      <4> HIDE DEF x, Fine
      <4> QED BY <1>6, <2>1, FS_RemoveElement, FS_CardinalityType
    <3>2. n \in Nat
      <4> HIDE DEF x, Fine
      <4> QED BY <3>1, FS_CardinalityType
    <3> HIDE DEF n
    <3> QED BY <3>1, <3>2
  <2>3. /\ d[s] = d[rest] + bars[x].up - bars[x].down
        /\ u[s] = u[rest] + bars[x].up
    BY <1>2, <1>3, <1>6, <1>8 DEF Deltas, Ups
  <2>4. Fine(rest)
    BY <1>5, <1>6, <2>1
  <2>5. /\ bars[x].up \in Int /\ bars[x].down = Volume - bars[x].up
    BY <1>1, <2>1
  <2>6. ~Fine(s)
    BY <1>5
  <2>7. (n + 1) * Volume = n * Volume + Volume /\ n * Volume \in Nat
    BY <1>6, <2>2
  <2> DEFINE whole == n * Volume
  <2>8. /\ whole \in Nat /\ Cardinality(s) * Volume = whole + Volume
        /\ d[rest] = 2 * u[rest] - whole /\ u[rest] \in Int
    BY <2>2, <2>4, <2>7
  <2> HIDE DEF x, rest, whole, n
  <2>9. u[s] \in Int /\ d[s] = 2 * u[s] - (whole + Volume)
    BY <1>6, <2>3, <2>5, <2>8
  <2> QED BY <2>6, <2>8, <2>9
<1> QED BY <1>7, <1>8

\* The delta of a range is that of its stored bars.
LEMMA DeltaIsFold ==
    \A from, t : Data!CumulativeVolumeDelta(from, t) = DeltaOf(Data!Fetched(from, t))
BY DEF Data!CumulativeVolumeDelta, Data!FoldSet, Data!MapThenFoldSet, DeltaOf, Deltas, First

\* Some whole numbers within bounds have a least and a greatest.
LEMMA ExtremesExist ==
    ASSUME NEW a \in Int, NEW b \in Int, NEW S, S \subseteq a .. b, S # {}
    PROVE  /\ \E x \in S : \A y \in S : x <= y
           /\ \E x \in S : \A y \in S : x >= y
<1>1. \E x \in S : \A y \in S : x <= y
  <2> DEFINE T == {n \in Nat : n + a \in S}
  <2>1. \A y \in S : y - a \in T /\ y \in Int /\ (y - a) + a = y
    OBVIOUS
  <2>2. T \subseteq Nat /\ T # {}
    BY <2>1
  <2>3. PICK n \in T : \A m \in T : n <= m
    <3> HIDE DEF T
    <3> QED BY <2>2, LeastNatural
  <2>4. \A y \in S : n <= y - a /\ y \in Int /\ n \in Nat
    BY <2>1, <2>3
  <2>5. \A y \in S : n + a <= y
    BY <2>4
  <2>6. n + a \in S
    BY <2>3
  <2> QED BY <2>5, <2>6
<1>2. \E x \in S : \A y \in S : x >= y
  <2> DEFINE T == {n \in Nat : b - n \in S}
  <2>1. \A y \in S : b - y \in T /\ y \in Int /\ b - (b - y) = y
    OBVIOUS
  <2>2. T \subseteq Nat /\ T # {}
    BY <2>1
  <2>3. PICK n \in T : \A m \in T : n <= m
    <3> HIDE DEF T
    <3> QED BY <2>2, LeastNatural
  <2>4. \A y \in S : n <= b - y /\ y \in Int /\ n \in Nat
    BY <2>1, <2>3
  <2>5. \A y \in S : b - n >= y
    BY <2>4
  <2>6. b - n \in S
    BY <2>3
  <2> QED BY <2>5, <2>6
<1> QED BY <1>1, <1>2

\* A time between stored bars is either stored or in one gap.
LEMMA GapsShowWhatIsMissing ==
    ASSUME NEW a \in Int, NEW b \in Int, Data!Fetched(a, b) # {},
           NEW t \in Data!Min(Data!Fetched(a, b)) .. Data!Max(Data!Fetched(a, b))
    PROVE  t \notin Data!Fetched(a, b)
           <=> Cardinality({g \in Data!DetectGaps(a, b) : g[1] < t /\ t < g[2]}) = 1
<1> DEFINE found == Data!Fetched(a, b)
           low == Data!Min(found)
           high == Data!Max(found)
           around == {g \in Data!DetectGaps(a, b) : g[1] < t /\ t < g[2]}
<1>1. found \subseteq a .. b /\ \A u \in found : u \in Int
  BY DEF Data!Fetched
<1>2. \A g : g \in around <=> /\ g \in found \X found /\ 2 * (g[2] - g[1]) > 3
                              /\ ~ \E u \in found : g[1] < u /\ u < g[2]
                              /\ g[1] < t /\ t < g[2]
  BY DEF Data!DetectGaps
<1>3. /\ low \in found /\ \A y \in found : low <= y
      /\ high \in found /\ \A y \in found : high >= y
      /\ t \in Int /\ low <= t /\ t <= high
  <2> HIDE DEF found
  <2>1. /\ \E x \in found : \A y \in found : x <= y
        /\ \E x \in found : \A y \in found : x >= y
    BY <1>1, ExtremesExist DEF found
  <2>2. /\ low \in found /\ \A y \in found : low <= y
        /\ high \in found /\ \A y \in found : high >= y
    BY <2>1 DEF Data!Min, Data!Max
  <2>3. t \in low .. high
    BY DEF found
  <2> QED BY <1>1, <2>2, <2>3
<1> HIDE DEF found, around, low, high
<1>4. CASE t \in found
  <2>1. around = {}
    BY <1>2, <1>4
  <2> QED BY <1>4, <2>1, FS_EmptySet DEF found, around
<1>5. CASE t \notin found
  <2> DEFINE before == {u \in found : u < t}
             after == {u \in found : u > t}
  <2>1. PICK p \in before : \A u \in before : p >= u
    <3>1. before \subseteq a .. b /\ low \in before
      <4>1. low # t /\ low \in Int
        BY <1>1, <1>3, <1>5
      <4>2. low \in before
        <5>1. low < t
          BY <1>3, <4>1
        <5> QED BY <1>3, <5>1
      <4>3. before \subseteq found
        OBVIOUS
      <4> HIDE DEF before
      <4> QED BY <1>1, <4>2, <4>3
    <3>2. before # {}
      BY <3>1
    <3> HIDE DEF before
    <3> QED BY <3>1, <3>2, ExtremesExist
  <2>2. PICK q \in after : \A u \in after : q <= u
    <3>1. after \subseteq a .. b /\ high \in after
      <4>1. high # t /\ high \in Int
        BY <1>1, <1>3, <1>5
      <4>2. high \in after
        <5>1. high > t
          BY <1>3, <4>1
        <5> QED BY <1>3, <5>1
      <4>3. after \subseteq found
        OBVIOUS
      <4> HIDE DEF after
      <4> QED BY <1>1, <4>2, <4>3
    <3>2. after # {}
      BY <3>1
    <3> HIDE DEF after
    <3> QED BY <3>1, <3>2, ExtremesExist
  <2>3. /\ p \in found /\ q \in found /\ p \in Int /\ q \in Int /\ p < t /\ t < q
        /\ \A u \in found : u \in Int /\ (u < t => u <= p) /\ (t < u => q <= u) /\ u # t
    BY <1>1, <1>5, <2>1, <2>2
  <2> HIDE DEF before, after
  <2>4. <<p, q>> \in around
    <3>1. 2 * (q - p) > 3 /\ ~ \E u \in found : p < u /\ u < q
      BY <1>3, <2>3
    <3> QED BY <1>2, <2>3, <3>1
  <2>5. ASSUME NEW g \in around PROVE g = <<p, q>>
    <3>1. /\ g[1] \in found /\ g[2] \in found /\ g = <<g[1], g[2]>> /\ g[1] < t /\ t < g[2]
          /\ ~ \E u \in found : g[1] < u /\ u < g[2]
      BY <1>2
    <3>2. g[1] <= p /\ q <= g[2] /\ ~(g[1] < p) /\ ~(q < g[2])
      BY <1>3, <2>3, <3>1
    <3>3. g[1] = p /\ g[2] = q
      BY <2>3, <3>1, <3>2
    <3> QED BY <3>1, <3>3
  <2>6. around = {<<p, q>>}
    BY <2>4, <2>5
  <2> QED BY <1>5, <2>6, FS_Singleton DEF found, around
<1> QED BY <1>4, <1>5

\* Whatever ranges were ingested over each other, the volume of a bar is split
\* without rest, the delta of a range adds up from it, and every missing bar
\* between stored ones is in one gap (data/market_data.py, ohlcv_store.py,
\* volume_classifier.py).
THEOREM BarsAddUpAlways ==
    ASSUME BarsConfigured
    PROVE  Data!Spec => []Data!BarsAddUp
<1>1. Data!Init => BarsInv
  BY DEF Data!Init, BarsInv
<1>2. BarsInv /\ [Data!Next]_(Data!vars) => BarsInv'
  BY BarsInvStep
<1>3. BarsInv => Data!BarsAddUp
  <2> SUFFICES ASSUME BarsInv, NEW r \in Ranges
               PROVE  LET found == Data!Fetched(r[1], r[2]) IN
                      /\ \A t \in found : /\ bars[t].up >= 0 /\ bars[t].down >= 0
                                          /\ bars[t].up + bars[t].down = Volume
                      /\ \A t \in found :
                           Data!CumulativeVolumeDelta(r[1], t)
                             = 2 * UpOf(Data!Fetched(r[1], t))
                               - Cardinality(Data!Fetched(r[1], t)) * Volume
                      /\ found # {} => \A t \in Data!Min(found) .. Data!Max(found) :
                           t \notin found
                           <=> Cardinality({g \in Data!DetectGaps(r[1], r[2]) :
                                              g[1] < t /\ t < g[2]}) = 1
    <3>1. \A S : Data!Cardinality(S) = Cardinality(S)
      BY DEF Data!Cardinality, Cardinality
    <3> QED
      BY <3>1 DEF Data!BarsAddUp, Data!FoldSet, Data!MapThenFoldSet, UpOf, Ups, First
  <2>1. r[1] \in Int /\ r[2] \in Int /\ Volume \in Nat
    BY DEF BarsConfigured
  <2>2. \A last \in Int : \A t \in Data!Fetched(r[1], last) : IsBar(bars[t]) /\ t \in Int
    BY <2>1 DEF Data!Fetched, BarsInv
  <2>3. ASSUME NEW t \in Data!Fetched(r[1], r[2])
        PROVE  /\ bars[t].up >= 0 /\ bars[t].down >= 0
               /\ bars[t].up + bars[t].down = Volume
    BY <2>1, <2>2 DEF IsBar
  <2>4. ASSUME NEW t \in Data!Fetched(r[1], r[2])
        PROVE  Data!CumulativeVolumeDelta(r[1], t)
                 = 2 * UpOf(Data!Fetched(r[1], t)) - Cardinality(Data!Fetched(r[1], t)) * Volume
    <3> DEFINE S == Data!Fetched(r[1], t)
    <3>1. t \in Int
      BY <2>1, <2>2
    <3>2. IsFiniteSet(r[1] .. t)
      BY <2>1, <3>1, FS_Interval
    <3>3. S \in SUBSET (r[1] .. t)
      BY DEF Data!Fetched
    <3>4. \A s \in S : IsBar(bars[s])
      BY <2>2, <3>1
    <3> HIDE DEF S
    <3>5. IsFiniteSet(S)
      BY <3>2, <3>3, FS_Subset
    <3>6. DeltaOf(S) = 2 * UpOf(S) - Cardinality(S) * Volume
      BY <3>4, <3>5, DeltaFollowsUps
    <3> QED BY <3>6, DeltaIsFold DEF S
  <2> QED
    BY <2>1, <2>3, <2>4, GapsShowWhatIsMissing
<1> QED
  BY <1>1, <1>2, <1>3, PTL DEF Data!Spec

-----------------------------------------------------------------------------
(* The hours of the exchange *)

\* A calendar as its files and constructor give it.
IsCalendar(c) ==
    /\ c.first \in Nat /\ c.newYear \in Int /\ c.preOpen \in Nat /\ c.nearClose \in Nat
    /\ c.failClosed \in BOOLEAN /\ c.auction \in BOOLEAN

\* An instant is a day and a half hour of Seoul.
LEMMA ClockOf ==
    ASSUME NEW t \in Nat
    PROVE  /\ Calls!Hours!DayOf(t) \in Nat /\ Calls!Hours!TimeOf(t) \in 0 .. 47
           /\ t = 48 * Calls!Hours!DayOf(t) + Calls!Hours!TimeOf(t) - 18
BY DEF Calls!Hours!DayOf, Calls!Hours!TimeOf, Calls!Hours!HalfHours, Calls!Hours!Seoul

\* They are the only ones.
LEMMA ClockIsThat ==
    ASSUME NEW d \in Nat, NEW k \in 0 .. 47
    PROVE  Calls!Hours!At(d, k) \in Int /\ Calls!Hours!DayOf(Calls!Hours!At(d, k)) = d
           /\ Calls!Hours!TimeOf(Calls!Hours!At(d, k)) = k /\ Calls!Hours!At(d, k) = 48 * d + k - 18
BY DEF Calls!Hours!DayOf, Calls!Hours!TimeOf, Calls!Hours!At, Calls!Hours!HalfHours, Calls!Hours!Seoul

\* KrxCalendar is open on its days from nine to half past three.
LEMMA OpenHours ==
    ASSUME NEW c, NEW t \in Int
    PROVE  Calls!Hours!IsOpen(c, t) <=> /\ ~Calls!Hours!IsHoliday(c, Calls!Hours!DayOf(t))
                                  /\ 18 <= Calls!Hours!TimeOf(t) /\ Calls!Hours!TimeOf(t) < 31
<1>1. /\ Calls!Hours!DayOf(t) \in Int /\ Calls!Hours!TimeOf(t) \in 0 .. 47
      /\ t = 48 * Calls!Hours!DayOf(t) + Calls!Hours!TimeOf(t) - 18
  BY DEF Calls!Hours!DayOf, Calls!Hours!TimeOf, Calls!Hours!HalfHours, Calls!Hours!Seoul
<1> QED
  BY <1>1 DEF Calls!Hours!IsOpen, Calls!Hours!At, Calls!Hours!HalfHours, Calls!Hours!Seoul,
              Calls!Hours!RegularOpen, Calls!Hours!RegularClose

\* KRXCalendar is open on its days from nine, or the auction, to half past three.
LEMMA TradingHours ==
    ASSUME NEW c, c.auction \in BOOLEAN, NEW t \in Int
    PROVE  Calls!Hours!MarketIsOpen(c, t)
           <=> /\ Calls!Hours!IsTradingDay(c, Calls!Hours!DayOf(t))
               /\ (IF c.auction THEN 17 ELSE 18) <= Calls!Hours!TimeOf(t) /\ Calls!Hours!TimeOf(t) < 31
<1>1. Calls!Hours!TimeOf(t) \in 0 .. 47
  BY DEF Calls!Hours!TimeOf, Calls!Hours!HalfHours, Calls!Hours!Seoul
<1> QED
  BY <1>1 DEF Calls!Hours!MarketIsOpen, Calls!Hours!GetStatus, Calls!Hours!IsTradingDay, Calls!Hours!PreAuction,
              Calls!Hours!RegularOpen, Calls!Hours!RegularClose

\* The first of some days is one of them and none before it is.
LEMMA FirstDay ==
    ASSUME NEW n \in Nat, NEW d \in Nat, NEW found \in SUBSET (d + 1 .. d + n), found # {}
    PROVE  /\ Calls!Hours!Min(found) \in found /\ Calls!Hours!Min(found) \in Nat
           /\ d + 1 <= Calls!Hours!Min(found) /\ Calls!Hours!Min(found) <= d + n
           /\ \A e \in found : Calls!Hours!Min(found) <= e
<1>1. \E x \in found : \A y \in found : x <= y
  <2>1. d + 1 \in Int /\ d + n \in Int
    OBVIOUS
  <2> QED BY <2>1, ExtremesExist
<1>2. Calls!Hours!Min(found) \in found /\ \A e \in found : Calls!Hours!Min(found) <= e
  BY <1>1 DEF Calls!Hours!Min
<1>3. \A e \in found : e \in Nat /\ d + 1 <= e /\ e <= d + n
  OBVIOUS
<1> QED BY <1>2, <1>3

\* The next day KrxCalendar opens.
OpenDays(c, n, d) == {e \in d + 1 .. d + n : ~Calls!Hours!IsHoliday(c, e)}
TradingDays(c, n, d) == {e \in d + 1 .. d + n : Calls!Hours!IsTradingDay(c, e)}

\* next_open is today's opening, or that of the first open day in 30.
LEMMA NextOpenIs ==
    ASSUME NEW c, NEW t \in Nat
    PROVE  LET d == Calls!Hours!DayOf(t)
               days == OpenDays(c, 30, d)
           IN  Calls!Hours!NextOpen(c, t) =
                 IF ~Calls!Hours!IsHoliday(c, d) /\ Calls!Hours!TimeOf(t) < 18 THEN Calls!Hours!At(d, 18)
                 ELSE IF days = {} THEN Calls!Hours!Nowhere ELSE Calls!Hours!At(Calls!Hours!Min(days), 18)
<1> DEFINE d == Calls!Hours!DayOf(t)
           days == OpenDays(c, 30, d)
<1>1. t < Calls!Hours!At(d, 18) <=> Calls!Hours!TimeOf(t) < 18
  <2>1. /\ d \in Nat /\ Calls!Hours!TimeOf(t) \in 0 .. 47
        /\ t = 48 * d + Calls!Hours!TimeOf(t) - 18
    BY ClockOf
  <2>2. Calls!Hours!At(d, 18) = 48 * d
    BY <2>1 DEF Calls!Hours!At, Calls!Hours!HalfHours, Calls!Hours!Seoul
  <2> QED BY <2>1, <2>2
<1>2. days # {} => Calls!Hours!Min(days) # Calls!Hours!Nowhere
  <2>1. d \in Nat /\ 30 \in Nat /\ days \in SUBSET (d + 1 .. d + 30)
    BY ClockOf DEF OpenDays
  <2> HIDE DEF d, days
  <2>2. ASSUME days # {} PROVE Calls!Hours!Min(days) \in Nat
    BY <2>1, <2>2, FirstDay
  <2> QED BY <2>2 DEF Calls!Hours!Nowhere
<1>3. Calls!Hours!FirstWithin(30, d, LAMBDA e : ~Calls!Hours!IsHoliday(c, e))
        = IF days = {} THEN Calls!Hours!Nowhere ELSE Calls!Hours!Min(days)
  BY DEF Calls!Hours!FirstWithin, OpenDays
<1> HIDE DEF d, days
<1> QED
  BY <1>1, <1>2, <1>3 DEF Calls!Hours!NextOpen, Calls!Hours!RegularOpen, d, days

\* _compute_next_open and _compute_next_close look 14 days ahead.
LEMMA NextAtIs ==
    ASSUME NEW c, NEW t \in Nat, NEW k \in 0 .. 47
    PROVE  LET d == Calls!Hours!DayOf(t)
               days == TradingDays(c, 14, d)
           IN  Calls!Hours!NextAt(c, t, k) =
                 IF Calls!Hours!IsTradingDay(c, d) /\ Calls!Hours!TimeOf(t) < k THEN Calls!Hours!At(d, k)
                 ELSE IF days = {} THEN Calls!Hours!Nowhere ELSE Calls!Hours!At(Calls!Hours!Min(days), k)
<1> DEFINE d == Calls!Hours!DayOf(t)
           days == TradingDays(c, 14, d)
<1>2. days # {} => Calls!Hours!Min(days) # Calls!Hours!Nowhere
  <2>1. d \in Nat /\ 14 \in Nat /\ days \in SUBSET (d + 1 .. d + 14)
    BY ClockOf DEF TradingDays
  <2> HIDE DEF d, days
  <2>2. ASSUME days # {} PROVE Calls!Hours!Min(days) \in Nat
    BY <2>1, <2>2, FirstDay
  <2> QED BY <2>2 DEF Calls!Hours!Nowhere
<1>3. Calls!Hours!FirstWithin(14, d, LAMBDA e : Calls!Hours!IsTradingDay(c, e))
        = IF days = {} THEN Calls!Hours!Nowhere ELSE Calls!Hours!Min(days)
  BY DEF Calls!Hours!FirstWithin, TradingDays
<1> HIDE DEF d, days
<1> QED
  BY <1>2, <1>3 DEF Calls!Hours!NextAt, d, days

\* Where the files cover the same, so do the calendars.
LEMMA CalendarsDoAgree ==
    ASSUME NEW c, IsCalendar(c), NEW t \in Nat
    PROVE  Calls!Hours!CalendarsAgree(c, t)
<1> SUFFICES ASSUME ~c.auction, c.yamlYears = {1, 2}, Calls!Hours!CsvYears(c) = {1, 2},
                    c.solar \subseteq c.holidays
             PROVE  /\ Calls!Hours!MarketIsOpen(c, t) <=> Calls!Hours!IsOpen(c, t)
                    /\ Calls!Hours!IsOpen(c, t) <=> Calls!Hours!GetPhase(c, t) \in {"REGULAR", "NEAR_CLOSE"}
                    /\ Calls!Hours!ComputeNextOpen(c, t) \in {Calls!Hours!NextOpen(c, t), Calls!Hours!Nowhere}
  BY DEF Calls!Hours!CalendarsAgree
<1>1. \A e : Calls!Hours!IsTradingDay(c, e) <=> ~Calls!Hours!IsHoliday(c, e)
  BY DEF Calls!Hours!IsTradingDay, Calls!Hours!IsHoliday, Calls!Hours!IsListed, Calls!Hours!IsUnknown, Calls!Hours!YearOf
<1> DEFINE d == Calls!Hours!DayOf(t)
           k == Calls!Hours!TimeOf(t)
<1>2. d \in Nat /\ k \in 0 .. 47 /\ t = 48 * d + k - 18
  BY ClockOf
<1>3. Calls!Hours!MarketIsOpen(c, t) <=> Calls!Hours!IsOpen(c, t)
  BY <1>1, OpenHours, TradingHours DEF IsCalendar
<1>4. Calls!Hours!IsOpen(c, t) <=> Calls!Hours!GetPhase(c, t) \in {"REGULAR", "NEAR_CLOSE"}
  <2>1. /\ Calls!Hours!At(d, 18) = 48 * d /\ Calls!Hours!At(d, 31) = 48 * d + 13
        /\ c.preOpen \in Nat /\ c.nearClose \in Nat
    BY <1>2 DEF Calls!Hours!At, Calls!Hours!HalfHours, Calls!Hours!Seoul, IsCalendar
  <2>2. Calls!Hours!IsOpen(c, t) <=> ~Calls!Hours!IsHoliday(c, d) /\ 48 * d <= t /\ t < 48 * d + 13
    BY <2>1 DEF Calls!Hours!IsOpen, Calls!Hours!RegularOpen, Calls!Hours!RegularClose
  <2> DEFINE start == Calls!Hours!At(d, 18)
             end == Calls!Hours!At(d, 31)
  <2>3. Calls!Hours!GetPhase(c, t) =
          IF Calls!Hours!IsHoliday(c, d) THEN "CLOSED"
          ELSE CASE t < start -> IF c.preOpen > 0 /\ t >= start - c.preOpen
                                 THEN "PRE_OPEN" ELSE "CLOSED"
                 [] t >= end -> "AFTER_HOURS"
                 [] OTHER -> IF c.nearClose > 0 /\ t >= end - c.nearClose
                             THEN "NEAR_CLOSE" ELSE "REGULAR"
    BY DEF Calls!Hours!GetPhase, Calls!Hours!RegularOpen, Calls!Hours!RegularClose
  <2>4. start = 48 * d /\ end = 48 * d + 13
    BY <2>1
  <2> HIDE DEF d, start, end
  <2> QED BY <1>2, <2>1, <2>2, <2>3, <2>4
<1>5. Calls!Hours!ComputeNextOpen(c, t) \in {Calls!Hours!NextOpen(c, t), Calls!Hours!Nowhere}
  <2> DEFINE near == TradingDays(c, 14, d)
             all == OpenDays(c, 30, d)
  <2>1. /\ Calls!Hours!ComputeNextOpen(c, t) =
             IF Calls!Hours!IsTradingDay(c, d) /\ k < 18 THEN Calls!Hours!At(d, 18)
             ELSE IF near = {} THEN Calls!Hours!Nowhere ELSE Calls!Hours!At(Calls!Hours!Min(near), 18)
        /\ Calls!Hours!NextOpen(c, t) =
             IF ~Calls!Hours!IsHoliday(c, d) /\ k < 18 THEN Calls!Hours!At(d, 18)
             ELSE IF all = {} THEN Calls!Hours!Nowhere ELSE Calls!Hours!At(Calls!Hours!Min(all), 18)
    BY NextOpenIs, NextAtIs DEF Calls!Hours!ComputeNextOpen, Calls!Hours!RegularOpen
  <2>2. ASSUME near # {}
        PROVE  all # {} /\ Calls!Hours!Min(near) = Calls!Hours!Min(all)
    <3>1. /\ near \in SUBSET (d + 1 .. d + 14) /\ all \in SUBSET (d + 1 .. d + 30)
          /\ near \subseteq all /\ \A e \in all : e <= d + 14 => e \in near
      BY <1>1, <1>2 DEF TradingDays, OpenDays
    <3> HIDE DEF near, all, d
    <3>2. /\ Calls!Hours!Min(near) \in near /\ Calls!Hours!Min(near) \in Nat /\ Calls!Hours!Min(near) <= d + 14
          /\ \A e \in near : Calls!Hours!Min(near) <= e
      BY <1>2, <2>2, <3>1, FirstDay
    <3>3. all # {}
      BY <3>1, <3>2
    <3>4. /\ Calls!Hours!Min(all) \in all /\ Calls!Hours!Min(all) \in Nat
          /\ \A e \in all : Calls!Hours!Min(all) <= e
      <4>1. d \in Nat /\ 30 \in Nat /\ all \in SUBSET (d + 1 .. d + 30)
        BY <1>2, <3>1
      <4> QED BY <3>3, <4>1, FirstDay
    <3> QED BY <1>2, <3>1, <3>2, <3>3, <3>4
  <2> HIDE DEF near, all, d
  <2> QED BY <1>1, <2>1, <2>2
<1> QED BY <1>3, <1>4, <1>5

\* A year without data is closed, or fails closed.
LEMMA UnknownYearIsShut ==
    ASSUME NEW c, IsCalendar(c), NEW t \in Nat
    PROVE  Calls!Hours!UnknownYearIsClosed(c, t)
<1>1. ASSUME Calls!Hours!YearOf(c, Calls!Hours!DayOf(t)) \notin c.yamlYears
      PROVE  Calls!Hours!GetPhase(c, t) = "CLOSED"
  <2>1. Calls!Hours!IsHoliday(c, Calls!Hours!DayOf(t))
    BY <1>1 DEF Calls!Hours!IsHoliday
  <2> QED BY <2>1 DEF Calls!Hours!GetPhase
<1>2. ASSUME c.failClosed, Calls!Hours!YearOf(c, Calls!Hours!DayOf(t)) \notin Calls!Hours!CsvYears(c)
      PROVE  ~Calls!Hours!MarketIsOpen(c, t)
  BY <1>2, TradingHours DEF Calls!Hours!IsTradingDay, Calls!Hours!IsUnknown, IsCalendar
<1> QED
  BY <1>1, <1>2 DEF Calls!Hours!UnknownYearIsClosed

\* A day of Seoul begins at three in the afternoon of UTC.
Carry(t) == IF (t % 48) \div 2 + 9 >= 24 THEN 1 ELSE 0

\* The weekday and the hour that the tool and the dashboard compute.
LEMMA UtcClock ==
    ASSUME NEW t \in Nat
    PROVE  /\ ((t % 48) \div 2 + 9) % 24 = Calls!Hours!TimeOf(t) \div 2
           /\ t \div 48 \in Int
           /\ Carry(t) \in Int /\ t \div 48 + Carry(t) = Calls!Hours!DayOf(t)
           /\ Calls!Hours!TimeOf(t) >= 18 => t \div 48 = Calls!Hours!DayOf(t)
<1>1. /\ t \in Int /\ Calls!Hours!DayOf(t) = (t + 18) \div 48 /\ Calls!Hours!TimeOf(t) = (t + 18) % 48
  BY DEF Calls!Hours!DayOf, Calls!Hours!TimeOf, Calls!Hours!HalfHours, Calls!Hours!Seoul
<1> QED BY <1>1 DEF Carry

\* The tool hides no open market, and calls a closed one open on a holiday or
\* at the close only.
LEMMA ToolIsRight ==
    ASSUME NEW c, IsCalendar(c), NEW t \in Nat
    PROVE  Calls!Hours!ToolKnowsTheHours(c, t)
<1> DEFINE d == Calls!Hours!DayOf(t)
           k == Calls!Hours!TimeOf(t)
<1>1. d \in Nat /\ k \in 0 .. 47 /\ c.first \in Nat
  BY ClockOf DEF IsCalendar
<1>2. Calls!Hours!GetMarketStatus(c, t) = "open"
      <=> (c.first + d) % 7 < 5 /\ k \div 2 \in 9 .. 15
  <2> DEFINE shown == ((t % 48) \div 2 + 9) % 24
             weekday == (c.first + t \div 48 + Carry(t)) % 7
  <2>1. shown = k \div 2
    BY UtcClock
  <2>2. weekday = (c.first + d) % 7
    <3>1. Carry(t) \in Int /\ t \div 48 + Carry(t) = d /\ t \div 48 \in Int
      BY UtcClock
    <3> HIDE DEF d
    <3>2. c.first + t \div 48 + Carry(t) = c.first + d
      BY <1>1, <3>1
    <3> QED BY <3>2
  <2>3. weekday \in 0 .. 6 /\ shown \in 0 .. 23
    <3>1. (c.first + d) % 7 \in 0 .. 6 /\ k \div 2 \in 0 .. 23
      <4> HIDE DEF d, k
      <4> QED BY <1>1
    <3> HIDE DEF d, k, shown, weekday
    <3> QED BY <2>1, <2>2, <3>1
  <2>4. Calls!Hours!GetMarketStatus(c, t) =
          CASE weekday >= 5 -> "closed_weekend"
            [] weekday < 5 /\ shown < 9 -> "pre_market"
            [] weekday < 5 /\ shown \in 9 .. 15 -> "open"
            [] OTHER -> "closed_post"
    BY DEF Calls!Hours!GetMarketStatus, Calls!Hours!HalfHours, Carry
  <2> HIDE DEF weekday, shown, d, k
  <2>5. Calls!Hours!GetMarketStatus(c, t) = "open" <=> weekday < 5 /\ shown \in 9 .. 15
    BY <2>3, <2>4
  <2> QED BY <2>1, <2>2, <2>5
<1>3. Calls!Hours!IsWeekend(c, d) <=> (c.first + d) % 7 >= 5
  BY DEF Calls!Hours!IsWeekend
<1>4. (c.first + d) % 7 \in 0 .. 6
  BY <1>1
<1>5. Calls!Hours!IsOpen(c, t) <=> ~Calls!Hours!IsHoliday(c, d) /\ 18 <= k /\ k < 31
  BY OpenHours
<1>6. Calls!Hours!IsWeekend(c, d) => Calls!Hours!IsHoliday(c, d)
  BY DEF Calls!Hours!IsHoliday
<1>7. k \div 2 \in 9 .. 15 <=> 18 <= k /\ k <= 31
  BY <1>1
<1> HIDE DEF d, k
<1>8. ~Calls!Hours!IsWeekend(c, d) <=> (c.first + d) % 7 < 5
  BY <1>3, <1>4
<1>9. Calls!Hours!IsOpen(c, t) => Calls!Hours!GetMarketStatus(c, t) = "open"
  <2>1. k < 31 => k <= 31
    BY <1>1
  <2> QED BY <1>2, <1>5, <1>6, <1>7, <1>8, <2>1
<1>10. Calls!Hours!GetMarketStatus(c, t) = "open" /\ ~Calls!Hours!IsOpen(c, t)
       => Calls!Hours!IsHoliday(c, d) \/ k = 31
  <2>1. k <= 31 /\ ~(k < 31) => k = 31
    BY <1>1
  <2> QED BY <1>2, <1>5, <1>7, <2>1
<1> QED
  BY <1>9, <1>10 DEF Calls!Hours!ToolKnowsTheHours, Calls!Hours!RegularClose, d, k

\* The dashboard shows the session of every weekday of Seoul.
LEMMA DashboardIsRight ==
    ASSUME NEW c, IsCalendar(c), NEW t \in Nat
    PROVE  Calls!Hours!DashboardKnowsTheHours(c, t)
<1> DEFINE d == Calls!Hours!DayOf(t)
           k == Calls!Hours!TimeOf(t)
           shown == ((t % 48) \div 2 + 9) % 24
           weekday == (c.first + t \div 48) % 7
<1>1. d \in Nat /\ k \in 0 .. 47 /\ c.first \in Nat /\ t = 48 * d + k - 18
  BY ClockOf DEF IsCalendar
<1>2. shown = k \div 2 /\ (k >= 18 => t \div 48 = d)
  BY UtcClock
<1>3. weekday \in 0 .. 6 /\ shown \in 0 .. 23
  BY <1>1, <1>2
<1>4. Calls!Hours!LoadMarketStatus(c, t) =
        CASE weekday >= 5 -> "closed_weekend"
          [] weekday < 5 /\ (shown \in 9 .. 14 \/ (shown = 15 /\ t % 2 = 0)) -> "regular"
          [] weekday < 5 /\ shown < 9 -> "pre_market"
          [] OTHER -> "after_hours"
  BY DEF Calls!Hours!LoadMarketStatus, Calls!Hours!HalfHours
<1>5. (shown \in 9 .. 14 \/ (shown = 15 /\ t % 2 = 0)) <=> 18 <= k /\ k < 31
  <2>1. t % 2 = 0 <=> k % 2 = 0
    <3> HIDE DEF d, k
    <3> QED BY <1>1
  <2>2. (k \div 2 \in 9 .. 14 \/ (k \div 2 = 15 /\ k % 2 = 0)) <=> 18 <= k /\ k < 31
    <3> HIDE DEF k
    <3> QED BY <1>1
  <2> HIDE DEF shown, k
  <2> QED BY <1>2, <2>1, <2>2
<1>6. 18 <= k => (weekday < 5 <=> ~Calls!Hours!IsWeekend(c, d))
  <2>1. (c.first + d) % 7 \in 0 .. 6
    BY <1>1
  <2>2. Calls!Hours!IsWeekend(c, d) <=> (c.first + d) % 7 >= 5
    BY DEF Calls!Hours!IsWeekend
  <2>3. k >= 18 => weekday = (c.first + d) % 7
    BY <1>2
  <2> HIDE DEF weekday, d, k
  <2> QED BY <1>1, <2>1, <2>2, <2>3
<1> HIDE DEF shown, weekday, d, k
<1>7. Calls!Hours!LoadMarketStatus(c, t) = "regular"
      <=> weekday < 5 /\ (shown \in 9 .. 14 \/ (shown = 15 /\ t % 2 = 0))
  BY <1>3, <1>4
<1> QED
  BY <1>5, <1>6, <1>7
     DEF Calls!Hours!DashboardKnowsTheHours, Calls!Hours!RegularOpen, Calls!Hours!RegularClose, d, k

\* An opening is the first half hour of an open day.
LEMMA OpensAtNine ==
    ASSUME NEW c, NEW s \in Nat \ {0}
    PROVE  Calls!Hours!IsOpen(c, s) /\ ~Calls!Hours!IsOpen(c, s - 1)
           <=> ~Calls!Hours!IsHoliday(c, Calls!Hours!DayOf(s)) /\ s = 48 * Calls!Hours!DayOf(s)
<1> DEFINE d == Calls!Hours!DayOf(s)
           k == Calls!Hours!TimeOf(s)
<1>1. d \in Nat /\ k \in 0 .. 47 /\ s = 48 * d + k - 18
  BY ClockOf
<1>2. k > 0 => Calls!Hours!DayOf(s - 1) = d /\ Calls!Hours!TimeOf(s - 1) = k - 1
  <2>1. s - 1 \in Int /\ (k > 0 => s - 1 + 18 = 48 * d + (k - 1))
    BY <1>1
  <2> HIDE DEF d, k
  <2>2. k > 0 => (s - 1 + 18) \div 48 = d /\ (s - 1 + 18) % 48 = k - 1
    BY <1>1, <2>1
  <2> QED BY <2>2 DEF Calls!Hours!DayOf, Calls!Hours!TimeOf, Calls!Hours!HalfHours, Calls!Hours!Seoul
<1>3. Calls!Hours!IsOpen(c, s) <=> ~Calls!Hours!IsHoliday(c, d) /\ 18 <= k /\ k < 31
  BY OpenHours
<1>4. Calls!Hours!IsOpen(c, s - 1) <=> /\ ~Calls!Hours!IsHoliday(c, Calls!Hours!DayOf(s - 1))
                                 /\ 18 <= Calls!Hours!TimeOf(s - 1) /\ Calls!Hours!TimeOf(s - 1) < 31
  <2>1. s - 1 \in Int
    OBVIOUS
  <2> QED BY <2>1, OpenHours
<1> HIDE DEF d, k
<1>5. CASE k >= 18
  <2>1. Calls!Hours!IsOpen(c, s - 1) <=> ~Calls!Hours!IsHoliday(c, d) /\ 18 <= k - 1 /\ k - 1 < 31
    BY <1>1, <1>2, <1>4, <1>5
  <2>2. (18 <= k - 1 <=> k # 18) /\ (s = 48 * d <=> k = 18)
    BY <1>1, <1>5
  <2>3. k < 31 => k - 1 < 31
    BY <1>1
  <2>4. k = 18 => 18 <= k /\ k < 31
    OBVIOUS
  <2> QED BY <1>3, <1>5, <2>1, <2>2, <2>3, <2>4 DEF d
<1>6. CASE k < 18
  <2>1. s # 48 * d /\ ~(18 <= k)
    BY <1>1, <1>6
  <2> QED BY <1>3, <2>1 DEF d
<1> QED BY <1>1, <1>5, <1>6

\* next_open is an opening, and the first.
LEMMA NextOpenIsFirst ==
    ASSUME NEW c, NEW t \in Nat, Calls!Hours!NextOpen(c, t) # Calls!Hours!Nowhere
    PROVE  LET open == Calls!Hours!NextOpen(c, t)
               opens(s) == Calls!Hours!IsOpen(c, s) /\ ~Calls!Hours!IsOpen(c, s - 1)
           IN  open > t /\ opens(open) /\ \A s \in t + 1 .. open - 1 : ~opens(s)
<1> DEFINE open == Calls!Hours!NextOpen(c, t)
           opens(s) == Calls!Hours!IsOpen(c, s) /\ ~Calls!Hours!IsOpen(c, s - 1)
           d == Calls!Hours!DayOf(t)
           k == Calls!Hours!TimeOf(t)
           days == OpenDays(c, 30, d)
<1> SUFFICES open > t /\ opens(open) /\ \A s \in t + 1 .. open - 1 : ~opens(s)
  OBVIOUS
<1>1. d \in Nat /\ k \in 0 .. 47 /\ t = 48 * d + k - 18
  BY ClockOf
<1>2. \A s \in Nat \ {0} : opens(s) <=> ~Calls!Hours!IsHoliday(c, Calls!Hours!DayOf(s)) /\ s = 48 * Calls!Hours!DayOf(s)
  BY OpensAtNine
<1>3. ASSUME NEW e \in Nat, ~Calls!Hours!IsHoliday(c, e), open = 48 * e, open > t,
             \A f \in Nat : d <= f /\ f < e /\ 48 * f > t => Calls!Hours!IsHoliday(c, f)
      PROVE  open > t /\ opens(open) /\ \A s \in t + 1 .. open - 1 : ~opens(s)
  <2>1. open \in Nat \ {0}
    BY <1>1, <1>3
  <2>2. Calls!Hours!DayOf(open) = e
    <3>1. (48 * e + 18) \div 48 = e
      BY <1>3
    <3> QED BY <1>3, <3>1 DEF Calls!Hours!DayOf, Calls!Hours!HalfHours, Calls!Hours!Seoul
  <2>3. opens(open)
    BY <1>2, <1>3, <2>1, <2>2
  <2>4. ASSUME NEW s \in t + 1 .. open - 1, opens(s) PROVE FALSE
    <3> DEFINE f == Calls!Hours!DayOf(s)
    <3>1. s \in Nat \ {0} /\ s > t /\ s < open
      BY <1>1, <2>1
    <3>2. ~Calls!Hours!IsHoliday(c, f) /\ s = 48 * f
      BY <1>2, <2>4, <3>1
    <3>3. f \in Nat
      BY <3>1, ClockOf
    <3> HIDE DEF f, opens, open, d, k
    <3>4. d <= f /\ f < e /\ 48 * f > t
      BY <1>1, <1>3, <3>1, <3>2, <3>3
    <3> QED BY <1>3, <3>2, <3>3, <3>4
  <2> QED BY <1>3, <2>3, <2>4
<1>4. /\ open = IF ~Calls!Hours!IsHoliday(c, d) /\ k < 18 THEN Calls!Hours!At(d, 18)
                ELSE IF days = {} THEN Calls!Hours!Nowhere ELSE Calls!Hours!At(Calls!Hours!Min(days), 18)
      /\ open # Calls!Hours!Nowhere
  BY NextOpenIs
<1>5. \A e : Calls!Hours!At(e, 18) = e * 48 + 18 - 18
  BY DEF Calls!Hours!At, Calls!Hours!HalfHours, Calls!Hours!Seoul
<1>6. CASE ~Calls!Hours!IsHoliday(c, d) /\ k < 18
  <2>1. open = 48 * d
    <3> HIDE DEF open, d, k, days
    <3> QED BY <1>1, <1>4, <1>5, <1>6
  <2>2. open > t
    <3> HIDE DEF open, d, k
    <3> QED BY <1>1, <1>6, <2>1
  <2>3. \A f \in Nat : ~(d <= f /\ f < d)
    BY <1>1
  <2> HIDE DEF open, d, k, opens
  <2> QED BY <1>1, <1>3, <1>6, <2>1, <2>2, <2>3
<1>7. CASE ~(~Calls!Hours!IsHoliday(c, d) /\ k < 18)
  <2> DEFINE e == Calls!Hours!Min(days)
  <2>1. days # {} /\ open = Calls!Hours!At(e, 18)
    <3> HIDE DEF open, d, k, days
    <3> QED BY <1>4, <1>7
  <2>2. days \in SUBSET (d + 1 .. d + 30) /\ 30 \in Nat
        /\ \A f \in Nat : f \in days <=> d + 1 <= f /\ f <= d + 30 /\ ~Calls!Hours!IsHoliday(c, f)
    BY <1>1 DEF OpenDays
  <2> HIDE DEF days, d, k, open, opens
  <2>3. /\ e \in days /\ e \in Nat /\ d + 1 <= e /\ e <= d + 30
        /\ \A f \in days : e <= f
    BY <1>1, <2>1, <2>2, FirstDay
  <2> HIDE DEF e
  <2>4. open = 48 * e /\ open > t /\ ~Calls!Hours!IsHoliday(c, e)
    BY <1>1, <1>5, <2>1, <2>2, <2>3
  <2>5. ASSUME NEW f \in Nat, d <= f, f < e, 48 * f > t
        PROVE  Calls!Hours!IsHoliday(c, f)
    <3>1. CASE f = d
      <4>1. k < 18
        BY <1>1, <2>5, <3>1
      <4> QED BY <1>7, <3>1, <4>1
    <3>2. CASE f # d
      <4>1. d + 1 <= f /\ f <= d + 30 /\ ~(e <= f)
        BY <1>1, <2>3, <2>5, <3>2
      <4> QED BY <2>2, <2>3, <4>1
    <3> QED BY <3>1, <3>2
  <2> QED BY <1>3, <2>3, <2>4, <2>5
<1> QED BY <1>6, <1>7

\* When it is open, next_close is where that ends.
LEMMA NextCloseEnds ==
    ASSUME NEW c, IsCalendar(c), NEW t \in Nat, Calls!Hours!MarketIsOpen(c, t)
    PROVE  LET close == Calls!Hours!ComputeNextClose(c, t)
           IN  /\ close # Calls!Hours!Nowhere /\ t < close
               /\ \A s \in t .. close - 1 : Calls!Hours!MarketIsOpen(c, s)
               /\ ~Calls!Hours!MarketIsOpen(c, close)
<1> DEFINE close == Calls!Hours!ComputeNextClose(c, t)
           d == Calls!Hours!DayOf(t)
           k == Calls!Hours!TimeOf(t)
           low == IF c.auction THEN 17 ELSE 18
<1>1. d \in Nat /\ k \in 0 .. 47 /\ t = 48 * d + k - 18 /\ c.auction \in BOOLEAN
  BY ClockOf DEF IsCalendar
<1>2. Calls!Hours!IsTradingDay(c, d) /\ low <= k /\ k < 31
  BY <1>1, TradingHours
<1>3. close = 48 * d + 13
  <2>1. close = Calls!Hours!At(d, 31)
    <3>1. 31 \in 0 .. 47
      OBVIOUS
    <3> QED BY <1>2, <3>1, NextAtIs DEF Calls!Hours!ComputeNextClose, Calls!Hours!RegularClose
  <2>2. Calls!Hours!At(d, 31) = d * 48 + 31 - 18
    BY DEF Calls!Hours!At, Calls!Hours!HalfHours, Calls!Hours!Seoul
  <2> HIDE DEF close, d
  <2> QED BY <1>1, <2>1, <2>2
<1>4. ASSUME NEW s \in t .. close
      PROVE  /\ s \in Int /\ Calls!Hours!DayOf(s) = d
             /\ low <= Calls!Hours!TimeOf(s) /\ (Calls!Hours!TimeOf(s) < 31 <=> s # close)
  <2> HIDE DEF d, k, close
  <2>1. s \in Nat /\ 48 * d + k <= s + 18 /\ s + 18 <= 48 * d + 31
    BY <1>1, <1>3
  <2>2. (s + 18) \div 48 = d /\ (s + 18) % 48 = s + 18 - 48 * d
    BY <1>1, <2>1
  <2>3. Calls!Hours!DayOf(s) = d /\ Calls!Hours!TimeOf(s) = s + 18 - 48 * d
    BY <2>2 DEF Calls!Hours!DayOf, Calls!Hours!TimeOf, Calls!Hours!HalfHours, Calls!Hours!Seoul
  <2>4. low <= s + 18 - 48 * d
    BY <1>1, <1>2, <2>1
  <2>5. s + 18 - 48 * d < 31 <=> s # close
    BY <1>1, <1>3, <2>1
  <2> HIDE DEF low
  <2> QED BY <2>1, <2>3, <2>4, <2>5
<1>5. /\ t \in t .. close /\ close \in t .. close /\ t < close
      /\ \A s \in t .. close - 1 : s \in t .. close /\ s # close
  <2> HIDE DEF d, k, close
  <2>1. k < 31 /\ close \in Int
    BY <1>1, <1>2, <1>3
  <2>2. t < close
    BY <1>1, <1>3, <2>1
  <2> QED BY <2>1, <2>2
<1>6. \A s \in t .. close : Calls!Hours!MarketIsOpen(c, s) <=> s # close
  <2> SUFFICES ASSUME NEW s \in t .. close PROVE Calls!Hours!MarketIsOpen(c, s) <=> s # close
    OBVIOUS
  <2>1. /\ s \in Int /\ Calls!Hours!DayOf(s) = d
        /\ low <= Calls!Hours!TimeOf(s) /\ (Calls!Hours!TimeOf(s) < 31 <=> s # close)
    BY <1>4
  <2>2. Calls!Hours!MarketIsOpen(c, s)
        <=> /\ Calls!Hours!IsTradingDay(c, Calls!Hours!DayOf(s))
            /\ low <= Calls!Hours!TimeOf(s) /\ Calls!Hours!TimeOf(s) < 31
    BY <1>1, <2>1, TradingHours
  <2> HIDE DEF close, d, low
  <2> QED BY <1>2, <2>1, <2>2
<1>7. close # Calls!Hours!Nowhere
  <2> HIDE DEF d, close
  <2> QED BY <1>1, <1>3 DEF Calls!Hours!Nowhere
<1> QED BY <1>5, <1>6, <1>7

\* From tomorrow to the next opening is at most one trading day.
LEMMA OneDayToOpening ==
    ASSUME NEW c, NEW t \in Nat, Calls!Hours!ComputeNextOpen(c, t) # Calls!Hours!Nowhere
    PROVE  Cardinality(Calls!Hours!TradingDaysBetween(c, Calls!Hours!DayOf(t) + 1,
                                                Calls!Hours!DayOf(Calls!Hours!ComputeNextOpen(c, t)))) <= 1
<1> DEFINE open == Calls!Hours!ComputeNextOpen(c, t)
           d == Calls!Hours!DayOf(t)
           days == TradingDays(c, 14, d)
           between == Calls!Hours!TradingDaysBetween(c, d + 1, Calls!Hours!DayOf(open))
<1>1. d \in Nat /\ 18 \in 0 .. 47
  BY ClockOf
<1>2. open = IF Calls!Hours!IsTradingDay(c, d) /\ Calls!Hours!TimeOf(t) < 18 THEN Calls!Hours!At(d, 18)
             ELSE IF days = {} THEN Calls!Hours!Nowhere ELSE Calls!Hours!At(Calls!Hours!Min(days), 18)
  BY <1>1, NextAtIs DEF Calls!Hours!ComputeNextOpen, Calls!Hours!RegularOpen
<1>3. \A e : e \in between <=> e \in d + 1 .. Calls!Hours!DayOf(open) /\ Calls!Hours!IsTradingDay(c, e)
  BY DEF Calls!Hours!TradingDaysBetween
<1>4. CASE open = Calls!Hours!At(d, 18)
  <2>1. Calls!Hours!DayOf(open) = d
    BY <1>1, <1>4, ClockIsThat
  <2>2. between = {}
    <3> HIDE DEF open, d, between
    <3> QED BY <1>1, <1>3, <2>1
  <2> QED BY <2>2, FS_EmptySet
<1>5. CASE days # {} /\ open = Calls!Hours!At(Calls!Hours!Min(days), 18)
  <2> DEFINE e == Calls!Hours!Min(days)
  <2>1. /\ days \in SUBSET (d + 1 .. d + 14) /\ 14 \in Nat
        /\ \A f \in Nat : f \in days <=> d + 1 <= f /\ f <= d + 14 /\ Calls!Hours!IsTradingDay(c, f)
    BY <1>1 DEF TradingDays
  <2> HIDE DEF days, d
  <2>2. /\ e \in days /\ e \in Nat /\ d + 1 <= e /\ e <= d + 14 /\ \A f \in days : e <= f
    BY <1>1, <1>5, <2>1, FirstDay
  <2>3. Calls!Hours!DayOf(open) = e
    BY <1>1, <1>5, <2>2, ClockIsThat
  <2> HIDE DEF open, between, e
  <2>4. \A f : f \in between <=> f \in d + 1 .. e /\ Calls!Hours!IsTradingDay(c, f)
    BY <1>3, <2>3
  <2>5. ASSUME NEW f \in between PROVE f = e
    <3>1. f \in Nat /\ d + 1 <= f /\ f <= e /\ Calls!Hours!IsTradingDay(c, f)
      BY <1>1, <2>2, <2>4, <2>5
    <3>2. f \in days
      BY <1>1, <2>1, <2>2, <3>1
    <3> QED BY <2>2, <3>1, <3>2
  <2>6. between = {} \/ between = {e}
    BY <2>5
  <2>7. Cardinality(between) = 0 \/ Cardinality(between) = 1
    BY <2>6, FS_EmptySet, FS_Singleton
  <2>8. Cardinality(between) <= 1
    BY <2>7
  <2> QED BY <2>8 DEF between, open, d
<1>6. open # Calls!Hours!Nowhere
  OBVIOUS
<1> HIDE DEF open, days, d, between
<1> QED BY <1>2, <1>4, <1>5, <1>6 DEF open, d, between

\* For any calendar and instant the five facts hold.
LEMMA EveryHourIsTold ==
    ASSUME NEW c, IsCalendar(c), NEW t \in Nat
    PROVE  /\ Calls!Hours!CalendarsAgree(c, t) /\ Calls!Hours!OpeningIsNext(c, t)
           /\ Calls!Hours!UnknownYearIsClosed(c, t) /\ Calls!Hours!ToolKnowsTheHours(c, t)
           /\ Calls!Hours!DashboardKnowsTheHours(c, t)
<1>1. Calls!Hours!OpeningIsNext(c, t)
  <2>1. \A S : Calls!Hours!Cardinality(S) = Cardinality(S)
    BY DEF Calls!Hours!Cardinality, Cardinality
  <2> QED
    BY <2>1, NextOpenIsFirst, NextCloseEnds, OneDayToOpening DEF Calls!Hours!OpeningIsNext
<1> QED
  BY <1>1, CalendarsDoAgree, UnknownYearIsShut, ToolIsRight, DashboardIsRight

\* A call of the calendars is of calendars and instants.
HoursInv ==
    call.kind = "hours" => call.calendar \in Calls!Calendars /\ call.at \in Calls!Instants

\* Each call keeps it.
LEMMA HoursInvStep ==
    ASSUME HoursInv, [Calls!Next]_call
    PROVE  HoursInv'
<1>1. CASE Calls!CallCalendar
  BY <1>1 DEF Calls!CallCalendar, HoursInv
<1>2. CASE \/ Calls!CallSizer \/ Calls!CallAnalyzer \/ Calls!CallAllocator \/ Calls!CallAdvisor
           \/ Calls!CallReporter \/ Calls!CallStages \/ Calls!CallStrategy
  <2>1. ASSUME Calls!CallSizer PROVE call'.kind # "hours"
    BY <2>1 DEF Calls!CallSizer
  <2>2. ASSUME Calls!CallAnalyzer PROVE call'.kind # "hours"
    BY <2>2 DEF Calls!CallAnalyzer
  <2>3. ASSUME Calls!CallAllocator PROVE call'.kind # "hours"
    BY <2>3 DEF Calls!CallAllocator
  <2>4. ASSUME Calls!CallAdvisor PROVE call'.kind # "hours"
    BY <2>4 DEF Calls!CallAdvisor
  <2>5. ASSUME Calls!CallReporter PROVE call'.kind # "hours"
    <3>1. \/ \E f, n : call' = [kind |-> "breaches", found |-> f, rejections |-> n]
          \/ \E a : \/ call' = [kind |-> "findings", answers |-> a]
                   \/ call' = [kind |-> "risk", answers |-> a]
                   \/ call' = [kind |-> "profit", answers |-> a]
          \/ \E s, f : call' = [kind |-> "decompose", snapshot |-> s, fills |-> f]
          \/ \E e : call' = [kind |-> "attribute", entries |-> e]
      BY <2>5, Zenon DEF Calls!CallReporter
    <3> QED BY <3>1
  <2>6. ASSUME Calls!CallStages PROVE call'.kind # "hours"
    BY <2>6 DEF Calls!CallStages
  <2>7. ASSUME Calls!CallStrategy PROVE call'.kind # "hours"
    BY <2>7 DEF Calls!CallStrategy
  <2> QED BY <1>2, <2>1, <2>2, <2>3, <2>4, <2>5, <2>6, <2>7 DEF HoursInv
<1>3. CASE call' = Calls!Idle \/ UNCHANGED call
  BY <1>3 DEF HoursInv, Calls!Idle
<1> QED
  BY <1>1, <1>2, <1>3 DEF Calls!Next

\* Two calendars, a tool and the dashboard that are kept apart agree on the
\* hours wherever their files do, and tell the first opening and close
\* (data/calendar.py, market_calendar.py).
LEMMA CalendarsTellTheHoursAlways == Calls!Spec => []Calls!CalendarsTellTheHours
<1>1. Calls!Init => HoursInv
  BY DEF Calls!Init, Calls!Idle, HoursInv
<1>2. HoursInv /\ [Calls!Next]_call => HoursInv'
  BY HoursInvStep
<1>3. HoursInv => Calls!CalendarsTellTheHours
  <2> SUFFICES ASSUME HoursInv, call.kind = "hours"
               PROVE  IsCalendar(call.calendar) /\ call.at \in Nat
    BY EveryHourIsTold DEF Calls!CalendarsTellTheHours
  <2>1. \A c \in Calls!Calendars : IsCalendar(c)
    BY DEF Calls!Calendars, IsCalendar
  <2>2. \A t \in Calls!Instants : t \in Nat
    BY DEF Calls!Instants, Calls!Hours!At, Calls!Hours!HalfHours, Calls!Hours!Seoul
  <2> QED BY <2>1, <2>2 DEF HoursInv
<1> QED
  BY <1>1, <1>2, <1>3, PTL DEF Calls!Spec

-----------------------------------------------------------------------------
(* The size and the price of an order, for every input *)

\* The sizer computes with exact fractions.
LEMMA SizingFractions ==
    /\ \A n, d : Calls!Sizing!Fraction!Ratio(n, d) = Ratio(n, d)
    /\ \A n : Calls!Sizing!Fraction!Whole(n) = Whole(n)
    /\ \A x, n : Calls!Sizing!Fraction!Times(x, n) = Times(x, n) /\ Calls!Sizing!Fraction!Over(x, n) = Over(x, n)
    /\ \A x, y : Calls!Sizing!Fraction!AtMost(x, y) = AtMost(x, y)
<1>1. \A n, d : Calls!Sizing!Fraction!Ratio(n, d) = Ratio(n, d)
  BY DEF Calls!Sizing!Fraction!Ratio, Ratio
<1> QED
  BY <1>1 DEF Calls!Sizing!Fraction!Whole, Whole, Calls!Sizing!Fraction!Times, Times,
              Calls!Sizing!Fraction!Over, Over, Calls!Sizing!Fraction!AtMost, AtMost

\* The tick of each band, and of the funds, in half won.
TickOf(price) ==
    IF price < 4000 THEN 2 ELSE IF price < 10000 THEN 10 ELSE IF price < 40000 THEN 20
    ELSE IF price < 100000 THEN 100 ELSE IF price < 400000 THEN 200
    ELSE IF price < 1000000 THEN 1000 ELSE 2000

\* The table that the sizer looks up says the same.
LEMMA TicksOfBands ==
    ASSUME NEW price \in Int, NEW type
    PROVE  Calls!Sizing!Tick(price, type) = IF type \in {"etf", "etn"} THEN 10 ELSE TickOf(price)
<1> DEFINE above == {b \in Calls!Sizing!Bands : price < 2 * b[1]}
           least == CHOOSE b \in above : \A c \in above : b[1] <= c[1]
<1>1. Calls!Sizing!Bands = {<<2000, 1>>, <<5000, 5>>, <<20000, 10>>, <<50000, 50>>,
                      <<200000, 100>>, <<500000, 500>>}
  BY DEF Calls!Sizing!Bands
<1>2. ASSUME above # {} PROVE least \in above /\ \A c \in above : least[1] <= c[1]
  <2>1. \E b \in above : \A c \in above : b[1] <= c[1]
    BY <1>1, <1>2
  <2> QED BY <2>1
<1>3. above # {} => price < 1000000
  BY <1>1
<1>4. price < 1000000 => above # {}
  <2>1. price < 1000000 => <<500000, 500>> \in above
    BY <1>1
  <2> QED BY <2>1
<1>5. price < 1000000 => 2 * least[2] = TickOf(price)
  <2> SUFFICES ASSUME price < 1000000 PROVE 2 * least[2] = TickOf(price)
    OBVIOUS
  <2>1. PICK b : b = least
    OBVIOUS
  <2>2. b \in Calls!Sizing!Bands /\ price < 2 * b[1]
        /\ \A c \in Calls!Sizing!Bands : price < 2 * c[1] => b[1] <= c[1]
    BY <1>2, <1>4, <2>1
  <2> HIDE DEF least, above
  <2>3. 2 * b[2] = TickOf(price)
    BY <1>1, <2>2 DEF TickOf
  <2> QED BY <2>1, <2>3
<1> QED
  BY <1>3, <1>4, <1>5 DEF Calls!Sizing!Tick, TickOf

\* Rounding goes to the next multiple on its side.
LEMMA RoundingIsNear ==
    ASSUME NEW price \in Int, NEW unit \in Positive
    PROVE  /\ \E k \in Int : Calls!Sizing!Down(price, unit) = k * unit
           /\ Calls!Sizing!Down(price, unit) <= price /\ price < Calls!Sizing!Down(price, unit) + unit
           /\ \E k \in Int : Calls!Sizing!Up(price, unit) = k * unit
           /\ price <= Calls!Sizing!Up(price, unit) /\ Calls!Sizing!Up(price, unit) < price + unit
<1>1. /\ price = unit * (price \div unit) + (price % unit) /\ price % unit \in 0 .. unit - 1
      /\ price \div unit \in Int
  BY DEF Positive
<1>2. /\ -price = unit * ((-price) \div unit) + ((-price) % unit)
      /\ (-price) % unit \in 0 .. unit - 1 /\ (-price) \div unit \in Int
  BY DEF Positive
<1> DEFINE u == price \div unit
           v == (-price) \div unit
<1>3. u * unit = unit * u /\ -(v * unit) = -(unit * v) /\ (-v) * unit = -(unit * v)
      /\ unit * u \in Int /\ unit * v \in Int /\ u \in Int /\ -v \in Int
  BY <1>1, <1>2 DEF Positive
<1>4. Calls!Sizing!Down(price, unit) = u * unit /\ Calls!Sizing!Up(price, unit) = -(v * unit)
  BY DEF Calls!Sizing!Down, Calls!Sizing!Up
<1> HIDE DEF u, v
<1>5. price = unit * u + (price % unit) /\ -price = unit * v + ((-price) % unit)
  BY <1>1, <1>2 DEF u, v
<1>6. price % unit \in 0 .. unit - 1 /\ (-price) % unit \in 0 .. unit - 1
  BY <1>1, <1>2
<1>7. /\ Calls!Sizing!Down(price, unit) <= price /\ price < Calls!Sizing!Down(price, unit) + unit
      /\ price <= Calls!Sizing!Up(price, unit) /\ Calls!Sizing!Up(price, unit) < price + unit
  <2>1. PICK tu \in Int : tu = unit * u
    BY <1>3
  <2>2. PICK tv \in Int : tv = unit * v
    BY <1>3
  <2>3. Calls!Sizing!Down(price, unit) = tu /\ Calls!Sizing!Up(price, unit) = -tv
    BY <1>3, <1>4, <2>1, <2>2
  <2>4. PICK m \in 0 .. unit - 1 : price = tu + m
    BY <1>5, <1>6, <2>1
  <2>5. PICK n \in 0 .. unit - 1 : -price = tv + n
    BY <1>5, <1>6, <2>2
  <2> QED BY <2>3, <2>4, <2>5 DEF Positive
<1>8. Calls!Sizing!Down(price, unit) = u * unit /\ Calls!Sizing!Up(price, unit) = (-v) * unit
  BY <1>3, <1>4
<1> QED BY <1>3, <1>7, <1>8

\* The limits of one order are whole numbers.
SizingConfigured == MaxPerOrder \in Int /\ MaxPctOfEquity \in Int

\* What the sizer is given: whole numbers, and one of the three methods.
IsSizing(i) ==
    /\ i.price \in Int /\ i.equity \in Int /\ i.cash \in Int /\ i.rate \in Int /\ i.distance \in Int
    /\ i.method \in {"fixed_pct", "atr", "fixed_risk"}

\* A price on the tick of the reference is on its own tick.
LEMMA AlignedInItsBand ==
    ASSUME NEW price \in Int, price > 0, NEW aligned \in Int, aligned > 0, NEW k \in Int,
           aligned = k * TickOf(price),
           \/ aligned <= price /\ price < aligned + TickOf(price)
           \/ price <= aligned /\ aligned < price + TickOf(price)
    PROVE  aligned % TickOf(aligned) = 0
<1>1. CASE price < 4000
  BY <1>1 DEF TickOf
<1>2. CASE 4000 <= price /\ price < 10000
  BY <1>2 DEF TickOf
<1>3. CASE 10000 <= price /\ price < 40000
  BY <1>3 DEF TickOf
<1>4. CASE 40000 <= price /\ price < 100000
  BY <1>4 DEF TickOf
<1>5. CASE 100000 <= price /\ price < 400000
  BY <1>5 DEF TickOf
<1>6. CASE 400000 <= price /\ price < 1000000
  BY <1>6 DEF TickOf
<1>7. CASE 1000000 <= price
  BY <1>7 DEF TickOf
<1> QED BY <1>1, <1>2, <1>3, <1>4, <1>5, <1>6, <1>7

\* The price of every accepted order is one the exchange takes.
LEMMA PricesFit ==
    ASSUME NEW i, IsSizing(i)
    PROVE  Calls!Sizing!PriceIsOnTick(i)
<1> DEFINE s == Calls!Sizing!Size(i)
           p == Calls!Sizing!Aligned(i.price, i.side, i.type)
           unit == Calls!Sizing!Tick(i.price, i.type)
<1> SUFFICES ASSUME s.accepted PROVE Calls!Sizing!PriceIsOnTick(i)
  BY DEF Calls!Sizing!PriceIsOnTick
<1>1. s.price = p /\ p > 0 /\ i.price > 0
  BY DEF Calls!Sizing!Size, Calls!Sizing!Rejected, Calls!Sizing!InputsAreValid
<1>2. i.price \in Int
  BY DEF IsSizing
<1>3. unit = (IF i.type \in {"etf", "etn"} THEN 10 ELSE TickOf(i.price)) /\ unit \in Positive
  BY <1>2, TicksOfBands DEF TickOf, Positive
<1> HIDE DEF unit, s
<1>4. PICK k \in Int : /\ p = k * unit
                       /\ i.side = "buy" => p <= i.price /\ i.price < p + unit
                       /\ i.side # "buy" => i.price <= p /\ p < i.price + unit
  <2>1. p = IF i.side = "buy" THEN Calls!Sizing!Down(i.price, unit) ELSE Calls!Sizing!Up(i.price, unit)
    BY DEF Calls!Sizing!Aligned, unit
  <2> HIDE DEF p
  <2> QED BY <1>2, <1>3, <2>1, RoundingIsNear
<1> HIDE DEF p
<1>5. p \in Int
  BY <1>3, <1>4 DEF Positive
<1>6. Calls!Sizing!IsAligned(p, i.type)
  <2>1. Calls!Sizing!Tick(p, i.type) = IF i.type \in {"etf", "etn"} THEN 10 ELSE TickOf(p)
    BY <1>5, TicksOfBands
  <2>2. CASE i.type \in {"etf", "etn"}
    <3>1. unit = 10 /\ p = k * 10
      BY <1>3, <1>4, <2>2
    <3>2. p % 10 = 0
      BY <3>1
    <3> QED BY <2>1, <2>2, <3>2 DEF Calls!Sizing!IsAligned
  <2>3. CASE i.type \notin {"etf", "etn"}
    <3>1. p = k * TickOf(i.price)
          /\ (\/ p <= i.price /\ i.price < p + TickOf(i.price)
              \/ i.price <= p /\ p < i.price + TickOf(i.price))
      BY <1>3, <1>4, <2>3
    <3>2. p % TickOf(p) = 0
      BY <1>1, <1>2, <1>5, <3>1, AlignedInItsBand
    <3> QED BY <2>1, <2>3, <3>2 DEF Calls!Sizing!IsAligned
  <2> QED BY <2>2, <2>3
<1>7. p - i.price \in -(unit - 1) .. unit - 1
  BY <1>2, <1>3, <1>4, <1>5 DEF Positive
<1>8. IF i.side = "buy" THEN p <= i.price ELSE p >= i.price
  BY <1>2, <1>4, <1>5
<1> QED
  BY <1>1, <1>6, <1>7, <1>8 DEF Calls!Sizing!PriceIsOnTick, s, unit

\* The caps of an order are fractions, and one is least.
LEMMA CapsAreFractions ==
    ASSUME SizingConfigured, NEW i, IsSizing(i), Calls!Sizing!MethodIsUsable(i)
    PROVE  /\ Calls!Sizing!Caps(i) \subseteq Fractions
           /\ Calls!Sizing!Target(i) \in Calls!Sizing!Caps(i)
           /\ \A c \in Calls!Sizing!Caps(i) : AtMost(Calls!Sizing!Target(i), c)
<1> DEFINE caps == Calls!Sizing!Caps(i)
<1>0. PICK most \in Int : most = MaxPerOrder
  BY DEF SizingConfigured
<1>1. 100 \in Positive
  BY DEF Positive
<1>2. /\ i.equity * i.rate \in Int /\ i.equity * MaxPctOfEquity \in Int
      /\ i.price \in Int /\ i.cash \in Int
  BY DEF IsSizing, SizingConfigured
<1>3. /\ Ratio(i.equity * i.rate, 100) \in Fractions
      /\ Ratio(i.equity * MaxPctOfEquity, 100) \in Fractions
      /\ Whole(most) \in Fractions /\ Whole(i.cash) \in Fractions
  BY <1>1, <1>2, RatioIsFraction, WholeIsRatio
<1>4. Calls!Sizing!AtRisk(i) \in Fractions
  BY <1>3, SizingFractions DEF Calls!Sizing!AtRisk
<1>5. Calls!Sizing!Notional(i) \in Fractions
  <2>1. CASE i.method = "fixed_pct"
    BY <1>4, <2>1 DEF Calls!Sizing!Notional
  <2>2. CASE i.method # "fixed_pct"
    <3>1. i.distance \in Positive
      BY <2>2 DEF IsSizing, Calls!Sizing!MethodIsUsable, Positive
    <3>2. Times(Calls!Sizing!AtRisk(i), i.price) \in Fractions
      BY <1>2, <1>4, MultiplesAreFractions
    <3>3. Over(Times(Calls!Sizing!AtRisk(i), i.price), i.distance) \in Fractions
      BY <3>1, <3>2, MultiplesAreFractions
    <3> QED BY <2>2, <3>3, SizingFractions DEF Calls!Sizing!Notional
  <2> QED BY <2>1, <2>2
<1>6. caps = {Calls!Sizing!Notional(i), Whole(most), Ratio(i.equity * MaxPctOfEquity, 100)}
             \union (IF i.side = "buy" THEN {Whole(i.cash)} ELSE {})
  BY <1>0, SizingFractions DEF Calls!Sizing!Caps
<1>7. caps \subseteq Fractions /\ caps # {}
  BY <1>3, <1>5, <1>6
<1>8. IsFiniteSet(caps)
  <2> DEFINE a == {Calls!Sizing!Notional(i)}
             b == {Whole(most)}
             c == {Ratio(i.equity * MaxPctOfEquity, 100)}
             d == IF i.side = "buy" THEN {Whole(i.cash)} ELSE {}
  <2>1. caps = ((a \union b) \union c) \union d
    BY <1>6
  <2>6. IsFiniteSet(a)
    BY FS_Singleton
  <2>7. IsFiniteSet(b)
    BY FS_Singleton
  <2>8. IsFiniteSet(c)
    BY FS_Singleton
  <2>9. IsFiniteSet(d)
    <3>1. CASE i.side = "buy"
      <4>1. IsFiniteSet({Whole(i.cash)})
        BY FS_Singleton
      <4> QED BY <3>1, <4>1
    <3>2. CASE i.side # "buy"
      BY <3>2, FS_EmptySet
    <3> QED BY <3>1, <3>2
  <2>2. IsFiniteSet(a) /\ IsFiniteSet(b) /\ IsFiniteSet(c) /\ IsFiniteSet(d)
    BY <2>6, <2>7, <2>8, <2>9
  <2> HIDE DEF caps, a, b, c, d
  <2>3. IsFiniteSet(a \union b)
    BY <2>2, FS_Union
  <2>4. IsFiniteSet((a \union b) \union c)
    BY <2>2, <2>3, FS_Union
  <2>5. IsFiniteSet(((a \union b) \union c) \union d)
    BY <2>2, <2>4, FS_Union
  <2> QED BY <2>1, <2>5
<1>9. \E x \in caps : \A y \in caps : AtMost(x, y)
  BY <1>7, <1>8, LeastFraction
<1>10. \E x \in caps : \A y \in caps : Calls!Sizing!Fraction!AtMost(x, y)
  BY <1>9, SizingFractions
<1>11. /\ Calls!Sizing!Target(i) \in caps
       /\ \A c \in caps : Calls!Sizing!Fraction!AtMost(Calls!Sizing!Target(i), c)
  BY <1>10 DEF Calls!Sizing!Target
<1> QED BY <1>7, <1>11, SizingFractions

\* Every accepted order is within every cap, and one share more is not.
LEMMA SizesFit ==
    ASSUME SizingConfigured, NEW i, IsSizing(i)
    PROVE  Calls!Sizing!SizedToTheLimit(i)
<1> DEFINE s == Calls!Sizing!Size(i)
           p == Calls!Sizing!Aligned(i.price, i.side, i.type)
           t == Calls!Sizing!Target(i)
<1> SUFFICES ASSUME s.accepted PROVE Calls!Sizing!SizedToTheLimit(i)
  BY DEF Calls!Sizing!SizedToTheLimit
<1>1. /\ s.price = p /\ s.quantity = Calls!Sizing!Shares(i) /\ p > 0
      /\ Calls!Sizing!MethodIsUsable(i) /\ i.price > 0
  BY DEF Calls!Sizing!Size, Calls!Sizing!Rejected, Calls!Sizing!InputsAreValid
<1>2. p \in Int
  <2>1. i.price \in Int
    BY DEF IsSizing
  <2>2. PICK unit : unit = Calls!Sizing!Tick(i.price, i.type)
    OBVIOUS
  <2>3. unit \in Positive
    BY <2>1, <2>2, TicksOfBands DEF TickOf, Positive
  <2>4. Calls!Sizing!Down(i.price, unit) \in Int /\ Calls!Sizing!Up(i.price, unit) \in Int
    BY <2>1, <2>3, RoundingIsNear DEF Positive
  <2> QED BY <2>2, <2>4 DEF Calls!Sizing!Aligned
<1>3. /\ Calls!Sizing!Caps(i) \subseteq Fractions /\ t \in Calls!Sizing!Caps(i)
      /\ \A c \in Calls!Sizing!Caps(i) : AtMost(t, c)
  BY <1>1, CapsAreFractions
<1>4. t \in Fractions /\ t[1] \in Int /\ t[2] \in Int /\ t[2] > 0
  BY <1>3, FractionParts
<1>5. Calls!Sizing!Shares(i) = t[1] \div (t[2] * p)
  BY DEF Calls!Sizing!Shares
<1> HIDE DEF s, p, t
<1>6. PICK q \in Int : /\ q = s.quantity
                       /\ (q * p) * t[2] <= t[1] /\ t[1] < ((q + 1) * p) * t[2]
  <2>1. PICK b \in Int : b = t[2] * p /\ b > 0
    BY <1>1, <1>2, <1>4
  <2>5. PICK n \in Int : n = t[1]
    BY <1>4
  <2>6. /\ n \div b \in Int /\ n = b * (n \div b) + (n % b) /\ n % b \in 0 .. b - 1
    BY <2>1, QuotientAndRest
  <2>7. PICK q \in Int : q = n \div b
    BY <2>6
  <2>2. n = b * q + (n % b) /\ n % b \in 0 .. b - 1
    BY <2>6, <2>7
  <2>3. (q * p) * t[2] = b * q /\ ((q + 1) * p) * t[2] = b * q + b /\ b * q \in Int
    <3>1. \A x, y, z \in Int : (x * y) * z = (z * y) * x /\ ((x + 1) * y) * z = (z * y) * x + z * y
      OBVIOUS
    <3>2. PICK d \in Int : d = t[2]
      BY <1>4
    <3>3. (q * p) * d = (d * p) * q /\ ((q + 1) * p) * d = (d * p) * q + d * p
      BY <1>2, <3>1
    <3> QED BY <2>1, <3>2, <3>3
  <2>8. PICK m \in Int : m = b * q
    BY <2>3
  <2>4. (q * p) * t[2] <= n /\ n < ((q + 1) * p) * t[2]
    BY <2>1, <2>2, <2>3, <2>8
  <2> QED BY <1>1, <1>5, <2>1, <2>4, <2>5, <2>7
<1>7. \A n \in Int : /\ Whole(n) \in Fractions /\ Whole(n)[1] = n /\ Whole(n)[2] = 1
  <2> TAKE n \in Int
  <2>1. Whole(n) \in Fractions
    BY WholeIsRatio
  <2> QED BY <2>1 DEF Whole
<1>8. AtMost(Whole(q * p), t) /\ ~AtMost(Whole((q + 1) * p), t)
  BY <1>2, <1>4, <1>6, <1>7 DEF AtMost
<1>9. \A c \in Calls!Sizing!Caps(i) : AtMost(Whole(q * p), c)
  <2>1. q * p \in Int
    BY <1>2
  <2> QED BY <1>3, <1>4, <1>7, <1>8, <2>1, FractionsAreOrdered
<1>10. /\ \A c \in Calls!Sizing!Caps(i) : AtMost(Whole(s.quantity * s.price), c)
       /\ ~ \A c \in Calls!Sizing!Caps(i) : AtMost(Whole((s.quantity + 1) * s.price), c)
  BY <1>1, <1>3, <1>6, <1>8, <1>9
<1> QED
  BY <1>10, SizingFractions DEF Calls!Sizing!SizedToTheLimit, s

-----------------------------------------------------------------------------
(* The split of the capital, for every registry *)

\* The allocator computes with exact fractions.
LEMMA AllocatorFractions ==
    /\ \A n, d : Calls!Allocator!Fraction!Ratio(n, d) = Ratio(n, d)
    /\ Calls!Allocator!Fraction!Zero = Zero
    /\ \A x, n : /\ Calls!Allocator!Fraction!Times(x, n) = Times(x, n)
                 /\ Calls!Allocator!Fraction!Over(x, n) = Over(x, n)
    /\ \A x, y : /\ Calls!Allocator!Fraction!AtMost(x, y) = AtMost(x, y)
                 /\ Calls!Allocator!Fraction!Plus(x, y) = Plus(x, y)
                 /\ Calls!Allocator!Fraction!Minus(x, y) = Minus(x, y)
<1>1. \A n, d : Calls!Allocator!Fraction!Ratio(n, d) = Ratio(n, d)
  BY DEF Calls!Allocator!Fraction!Ratio, Ratio
<1> QED
  BY <1>1 DEF Calls!Allocator!Fraction!Whole, Whole, Calls!Allocator!Fraction!Zero, Zero,
              Calls!Allocator!Fraction!Times, Times, Calls!Allocator!Fraction!Over, Over,
              Calls!Allocator!Fraction!AtMost, AtMost, Calls!Allocator!Fraction!Plus, Plus,
              Calls!Allocator!Fraction!Minus, Minus

\* The allocator's sums of fractions are sums in any order.
LEMMA AllocatorSums ==
    ASSUME NEW S, IsFiniteSet(S), NEW w, w = [x \in S |-> w[x]], \A x \in S : w[x] \in Fractions
    PROVE  Calls!Allocator!Fraction!SumOver(w) = FractionSum(S, w)
<1> DEFINE plus(x, y) == Calls!Allocator!Fraction!Plus(x, y)
           Theirs(it) == it = [s \in SUBSET DOMAIN w |-> IF s = {} THEN Calls!Allocator!Fraction!Zero
                                 ELSE plus(w[First(s)], it[s \ {First(s)}])]
           Ours(it) == it = [s \in SUBSET DOMAIN w |-> IF s = {} THEN Zero
                               ELSE Plus(w[First(s)], it[s \ {First(s)}])]
<1>1. Calls!Allocator!Fraction!SumOver(w) = SumOver(w)
  <2>1. Calls!Allocator!Fraction!SumOver(w) = (CHOOSE it : Theirs(it))[DOMAIN w]
    BY DEF Calls!Allocator!Fraction!SumOver, Calls!Allocator!Fraction!FoldFunction,
           Calls!Allocator!Fraction!FoldFunctionOnSet, Calls!Allocator!Fraction!MapThenFoldSet, First
  <2>2. SumOver(w) = (CHOOSE it : Ours(it))[DOMAIN w]
    BY DEF SumOver, FoldFunction, FoldFunctionOnSet, MapThenFoldSet, First
  <2>3. /\ \A x, y : plus(x, y) = Plus(x, y)
        /\ Calls!Allocator!Fraction!Zero = Zero
    BY AllocatorFractions
  <2> HIDE DEF plus
  <2>4. \A it : Theirs(it) <=> Ours(it)
    BY <2>3
  <2> HIDE DEF Theirs, Ours
  <2>5. (CHOOSE it : Theirs(it)) = (CHOOSE it : Ours(it))
    BY <2>4
  <2> QED BY <2>1, <2>2, <2>5
<1> QED BY <1>1, SumOverIsFold DEF FractionSum

\* Strategies with weights and caps in percent.
IsRegistry(reg, S) == IsFiniteSet(S) /\ \A s \in S : reg[s].weight \in Nat /\ reg[s].cap \in Nat
Weights(reg, S) == [s \in S |-> reg[s].weight]

\* The weight of some strategies is the sum of their weights.
LEMMA WeightsAreTotals ==
    ASSUME NEW reg, NEW S, IsRegistry(reg, S), NEW E \in SUBSET S
    PROVE  Calls!Allocator!WeightOf(reg, E) = IntSum(E, Weights(reg, S))
<1> DEFINE w == Weights(reg, S)
           Rec(it) == it = [s \in SUBSET E |-> IF s = {} THEN 0
                              ELSE reg[First(s)].weight + it[s \ {First(s)}]]
           Adds(it) == it = [s \in SUBSET E |-> IF s = {} THEN 0
                              ELSE w[First(s)] + it[s \ {First(s)}]]
<1>1. Calls!Allocator!WeightOf(reg, E) = (CHOOSE it : Rec(it))[E]
  BY DEF Calls!Allocator!WeightOf, Calls!Allocator!MapThenSumSet, Calls!Allocator!MapThenFoldSet,
         MapThenSumSet, MapThenFoldSet, First
<1>2. SumFunctionOnSet(w, E) = (CHOOSE it : Adds(it))[E]
  BY DEF SumFunctionOnSet, FoldFunctionOnSet, MapThenFoldSet, First
<1>3. ASSUME NEW s \in SUBSET E, s # {} PROVE w[First(s)] = reg[First(s)].weight
  BY <1>3 DEF First, Weights
<1>4. \A it : Rec(it) <=> Adds(it)
  <2> SUFFICES ASSUME NEW it
               PROVE  [s \in SUBSET E |-> IF s = {} THEN 0
                              ELSE reg[First(s)].weight + it[s \ {First(s)}]]
                      = [s \in SUBSET E |-> IF s = {} THEN 0
                              ELSE w[First(s)] + it[s \ {First(s)}]]
    OBVIOUS
  <2> HIDE DEF w
  <2> QED BY <1>3
<1> HIDE DEF Rec, Adds
<1>5. (CHOOSE it : Rec(it)) = (CHOOSE it : Adds(it))
  BY <1>4
<1>6. IsFiniteSet(E) /\ \A x \in E : w[x] \in Int
  BY FS_Subset DEF IsRegistry, Weights
<1> HIDE DEF w
<1>7. SumFunctionOnSet(w, E) = IntSum(E, w)
  BY <1>6, SumIsTotal
<1> QED BY <1>1, <1>2, <1>5, <1>7 DEF w

\* What a strategy is due by its weight, and its cap.
LEMMA DuesAreRatios ==
    ASSUME NEW reg, NEW S, IsRegistry(reg, S), NEW total \in Nat, NEW s \in S
    PROVE  /\ Calls!Allocator!Raw(reg, total, s) = Ratio(total * reg[s].weight, 100)
           /\ Calls!Allocator!Cap(reg, total, s) = Ratio(total * reg[s].cap, 100)
           /\ Calls!Allocator!Raw(reg, total, s) \in NonNegative
           /\ Calls!Allocator!Cap(reg, total, s) \in NonNegative
<1>1. /\ total * reg[s].weight \in Nat /\ total * reg[s].cap \in Nat /\ 100 \in Positive
  BY DEF IsRegistry, Positive
<1>2. Ratio(total * reg[s].weight, 100) \in NonNegative /\ Ratio(total * reg[s].cap, 100) \in NonNegative
  BY <1>1, NonNegativeRatio
<1> QED BY <1>2, AllocatorFractions DEF Calls!Allocator!Raw, Calls!Allocator!Cap

\* What is cut off at y, and what is left over.
LEMMA LowerAndExcess ==
    ASSUME NEW x \in Fractions, NEW y \in Fractions
    PROVE  /\ Calls!Allocator!Lower(x, y) \in Fractions /\ Calls!Allocator!Excess(x, y) \in NonNegative
           /\ Plus(Calls!Allocator!Lower(x, y), Calls!Allocator!Excess(x, y)) = x
           /\ AtMost(Calls!Allocator!Lower(x, y), y)
           /\ \A z : AtMost(z, x) /\ AtMost(z, y) => AtMost(z, Calls!Allocator!Lower(x, y))
           /\ Calls!Allocator!Above(x, y) => Calls!Allocator!Lower(x, y) = y
           /\ ~Calls!Allocator!Above(x, y) => Calls!Allocator!Excess(x, y) = Zero
<1>1. Calls!Allocator!Above(x, y) <=> ~AtMost(x, y)
  BY AllocatorFractions DEF Calls!Allocator!Above
<1>2. CASE AtMost(x, y)
  <2>1. Calls!Allocator!Lower(x, y) = x /\ Calls!Allocator!Excess(x, y) = Zero
    BY <1>1, <1>2, AllocatorFractions DEF Calls!Allocator!Lower, Calls!Allocator!Excess
  <2> QED BY <1>1, <1>2, <2>1, FractionsMove, NonNegativesAdd
<1>3. CASE ~AtMost(x, y)
  <2>1. Calls!Allocator!Lower(x, y) = y /\ Calls!Allocator!Excess(x, y) = Minus(x, y)
    BY <1>1, <1>3, AllocatorFractions DEF Calls!Allocator!Lower, Calls!Allocator!Excess
  <2>2. AtMost(y, x) /\ AtMost(y, y)
    BY <1>3, FractionsAreOrdered
  <2> QED BY <1>1, <1>3, <2>1, <2>2, LargerByDifference
<1> QED BY <1>2, <1>3

\* An offer is cut at the caps, nothing of it is lost, and something overflows
\* only when a strategy has reached its cap.
IsCut(reg, total, S, alloc, E, offer, o) ==
    /\ o.alloc \in [S -> Fractions] /\ o.overflow \in NonNegative
    /\ \A s \in E : o.alloc[s] = Calls!Allocator!Lower(offer[s], Calls!Allocator!Cap(reg, total, s))
    /\ \A s \in S \ E : o.alloc[s] = alloc[s]
    /\ Plus(FractionSum(S, o.alloc), o.overflow) = FractionSum(S, [s \in S |-> IF s \in E THEN offer[s] ELSE alloc[s]])
    /\ \/ o.overflow = Zero
       \/ \E s \in E : o.alloc[s] = Calls!Allocator!Cap(reg, total, s)

\* Every offer is cut at the caps, and nothing of it is lost.
LEMMA OffersAreCut ==
    ASSUME NEW reg, NEW S, IsRegistry(reg, S), NEW total \in Nat, NEW alloc \in [S -> Fractions],
           NEW E \in SUBSET S, NEW offer, offer = [s \in E |-> offer[s]],
           \A s \in E : offer[s] \in Fractions
    PROVE  IsCut(reg, total, S, alloc, E, offer, Calls!Allocator!Offer(reg, total, alloc, E, offer))
<1> DEFINE o == Calls!Allocator!Offer(reg, total, alloc, E, offer)
           w == [s \in S |-> IF s \in E THEN offer[s] ELSE alloc[s]]
           cap(s) == Calls!Allocator!Cap(reg, total, s)
           low(s) == Calls!Allocator!Lower(offer[s], cap(s))
           left(s) == Calls!Allocator!Excess(offer[s], cap(s))
           rest == [s \in E |-> left(s)]
           spread == [s \in S |-> IF s \in E THEN left(s) ELSE Zero]
<1>1. IsFiniteSet(S) /\ IsFiniteSet(E)
  BY FS_Subset DEF IsRegistry
<1>2. ASSUME NEW s \in S PROVE cap(s) \in Fractions
  BY DuesAreRatios DEF NonNegative
<1>3. ASSUME NEW s \in E
      PROVE  /\ low(s) \in Fractions /\ left(s) \in NonNegative /\ left(s) \in Fractions
             /\ Plus(low(s), left(s)) = offer[s]
             /\ left(s) = Zero \/ low(s) = cap(s)
  <2>1. offer[s] \in Fractions /\ cap(s) \in Fractions
    BY <1>2
  <2> HIDE DEF cap
  <2> QED BY <2>1, LowerAndExcess DEF NonNegative
<1>4. o.alloc = [s \in S |-> IF s \in E THEN low(s) ELSE alloc[s]]
  <2>1. DOMAIN alloc = S
    OBVIOUS
  <2> QED BY <2>1 DEF Calls!Allocator!Offer
<1>5. o.overflow = FractionSum(E, rest)
  <2>1. o.overflow = Calls!Allocator!Fraction!SumOver(rest)
    BY DEF Calls!Allocator!Offer
  <2>2. rest = [s \in E |-> rest[s]] /\ \A s \in E : rest[s] \in Fractions
    BY <1>3
  <2> HIDE DEF rest, o
  <2> QED BY <1>1, <2>1, <2>2, AllocatorSums
<1> HIDE DEF low, left, cap, o
<1>6. o.alloc \in [S -> Fractions]
  BY <1>3, <1>4
<1>7. o.overflow \in NonNegative
  BY <1>1, <1>3, <1>5, SumIsNonNegative
<1>8. FractionSum(S, spread) = FractionSum(E, rest)
  <2>1. /\ \A s \in E : rest[s] \in Fractions /\ spread[s] = rest[s]
        /\ \A s \in S \ E : spread[s] = Zero
    BY <1>3
  <2> HIDE DEF rest, spread
  <2> QED BY <1>1, <2>1, SumWithoutZeros
<1>9. Plus(FractionSum(S, o.alloc), o.overflow) = FractionSum(S, w)
  <2>1. ASSUME NEW s \in S
        PROVE  /\ o.alloc[s] \in Fractions /\ spread[s] \in Fractions
               /\ w[s] = Plus(o.alloc[s], spread[s])
    <3>1. CASE s \in E
      BY <1>3, <1>4, <3>1
    <3>2. CASE s \notin E
      BY <1>4, <3>2, FractionsMove
    <3> QED BY <3>1, <3>2
  <2> HIDE DEF w, spread
  <2>2. FractionSum(S, w) = Plus(FractionSum(S, o.alloc), FractionSum(S, spread))
    BY <1>1, <2>1, SumsOfFractions DEF FractionSum
  <2> QED BY <1>5, <1>8, <2>2
<1>10. ASSUME \A s \in E : o.alloc[s] # cap(s) PROVE o.overflow = Zero
  <2>1. \A s \in E : left(s) = Zero
    BY <1>3, <1>4, <1>10
  <2>2. \A s \in E \ {} : rest[s] = Zero
    BY <2>1
  <2> HIDE DEF rest
  <2>3. FractionSum(E, rest) = FractionSum({}, rest)
    BY <1>1, <2>2, SumWithoutZeros
  <2>4. FractionSum({}, rest) = Zero
    BY FS_EmptySet, SumAdds
  <2> QED BY <1>5, <2>3, <2>4
<1> QED BY <1>4, <1>6, <1>7, <1>9, <1>10 DEF IsCut, o, low, cap

\* The shares of the overflow add up to it.
AreShares(reg, overflow, E, w) == \A s \in E : w[s] = Calls!Allocator!Share(reg, overflow, E, s)

\* By weight or in equal parts, what is shared out is all of the overflow.
LEMMA SharesAddUp ==
    ASSUME NEW reg, NEW S, IsRegistry(reg, S), NEW overflow \in NonNegative,
           NEW E \in SUBSET S, E # {}, NEW w, AreShares(reg, overflow, E, w)
    PROVE  /\ \A s \in E : w[s] \in NonNegative
           /\ FractionSum(E, w) = overflow
<1> DEFINE n == overflow[1]
           d == overflow[2]
           all == Calls!Allocator!WeightOf(reg, E)
           v == Weights(reg, S)
<1>1. n \in Nat /\ d \in Positive /\ overflow = Ratio(n, d) /\ overflow \in Fractions
  BY FractionParts DEF NonNegative, Positive
<1>2. all = IntSum(E, v)
  BY WeightsAreTotals
<1>3. IsFiniteSet(E) /\ \A s \in E : v[s] \in Nat /\ v[s] = reg[s].weight
  BY FS_Subset DEF IsRegistry, Weights
<1> HIDE DEF v, n, d, all
<1>7. \A s \in E : w[s] = Calls!Allocator!Share(reg, overflow, E, s)
  BY DEF AreShares
<1>4. all \in Nat
  <2>1. all \in Int
    BY <1>2, <1>3, IntSumAdds
  <2>2. IntSum(E, [s \in E |-> 0 * v[s]]) = 0 * IntSum(E, v)
    BY <1>3, TotalOfMultiples
  <2>3. IntSum(E, [s \in E |-> 0 * v[s]]) <= IntSum(E, v)
    BY <1>3, TotalsAreOrdered
  <2> QED BY <1>2, <2>1, <2>2, <2>3
<1>5. CASE all = 0
  <2> DEFINE k == Cardinality(E)
             one == [s \in E |-> 1]
             a == [s \in E |-> n * one[s]]
  <2>1. k \in Positive
    BY <1>3, FS_CardinalityType, FS_EmptySet DEF Positive
  <2> HIDE DEF k
  <2>2. d * k \in Positive /\ Over(Ratio(n, d), k) = Ratio(n, d * k)
    BY <1>1, <2>1, OverIsRatio
  <2>3. \A s \in E : w[s] = Ratio(n, d * k)
    <3>1. Calls!Allocator!Cardinality(E) = k
      BY DEF Calls!Allocator!Cardinality, Cardinality, k
    <3> QED BY <1>1, <1>5, <1>7, <2>2, <3>1, AllocatorFractions DEF Calls!Allocator!Share, all
  <2>4. \A s \in E : one[s] \in Int /\ a[s] \in Int /\ a[s] = n
    BY <1>1
  <2>5. IntSum(E, one) = k
    BY <1>3, TotalOfOnes DEF k
  <2> HIDE DEF one
  <2>6. IntSum(E, a) = n * k
    BY <1>1, <1>3, <2>4, <2>5, TotalOfMultiples
  <2> HIDE DEF a
  <2>7. FractionSum(E, w) = Ratio(IntSum(E, a), d * k)
    BY <1>3, <2>2, <2>3, <2>4, SumOverOneDenominator
  <2>8. (n * k) * d = n * (d * k) /\ n * k \in Int
    BY <1>1, <2>1 DEF Positive
  <2>9. Ratio(n * k, d * k) = Ratio(n, d)
    BY <1>1, <2>2, <2>8, RatioIsCanonical
  <2>10. Ratio(n, d * k) \in NonNegative
    BY <1>1, <2>2, NonNegativeRatio
  <2> QED BY <1>1, <2>3, <2>6, <2>7, <2>9, <2>10
<1>6. CASE all # 0
  <2> DEFINE a == [s \in E |-> n * v[s]]
  <2>1. all \in Positive
    BY <1>4, <1>6 DEF Positive
  <2>2. ASSUME NEW s \in E
        PROVE  n * v[s] \in Nat /\ d * all \in Positive /\ w[s] = Ratio(n * v[s], d * all)
    <3>1. n * v[s] \in Nat /\ v[s] \in Int /\ n \in Int
      BY <1>1, <1>3
    <3>2. Times(Ratio(n, d), v[s]) = Ratio(n * v[s], d)
      BY <1>1, <3>1, TimesIsRatio
    <3>3. d * all \in Positive /\ Over(Ratio(n * v[s], d), all) = Ratio(n * v[s], d * all)
      BY <1>1, <2>1, <3>1, OverIsRatio
    <3>4. w[s] = Over(Times(overflow, v[s]), all)
      BY <1>3, <1>6, <1>7, AllocatorFractions DEF Calls!Allocator!Share, all
    <3> QED BY <1>1, <3>1, <3>2, <3>3, <3>4
  <2>3. d * all \in Positive
    BY <2>2
  <2>4. \A s \in E : a[s] \in Int /\ w[s] = Ratio(a[s], d * all)
    BY <2>2
  <2>5. IntSum(E, a) = n * all
    BY <1>1, <1>2, <1>3, TotalOfMultiples
  <2> HIDE DEF a
  <2>6. FractionSum(E, w) = Ratio(IntSum(E, a), d * all)
    BY <1>3, <2>3, <2>4, SumOverOneDenominator
  <2>7. (n * all) * d = n * (d * all) /\ n * all \in Int
    BY <1>1, <2>1 DEF Positive
  <2>8. Ratio(n * all, d * all) = Ratio(n, d)
    BY <1>1, <2>3, <2>7, RatioIsCanonical
  <2>9. \A s \in E : w[s] \in NonNegative
    BY <2>2, NonNegativeRatio
  <2> QED BY <1>1, <2>5, <2>6, <2>8, <2>9
<1> QED BY <1>5, <1>6 DEF n, d

\* What holds of the split after every iteration: nobody is above the cap or
\* below what the weight gives within it, and nothing of the dues is lost.
Fair(reg, total, S, split) ==
    /\ split.alloc \in [S -> Fractions] /\ split.overflow \in NonNegative
    /\ \A s \in S :
         /\ AtMost(split.alloc[s], Calls!Allocator!Cap(reg, total, s))
         /\ AtMost(Calls!Allocator!Lower(Calls!Allocator!Raw(reg, total, s), Calls!Allocator!Cap(reg, total, s)),
                   split.alloc[s])
    /\ Plus(FractionSum(S, split.alloc), split.overflow) = FractionSum(S, [s \in S |-> Calls!Allocator!Raw(reg, total, s)])

\* While something overflows, fewer have room than k.
Used(reg, total, split, k) ==
    Calls!Allocator!Counts(split.overflow) =>
      Cardinality(Calls!Allocator!HasRoom(reg, total, split.alloc)) < k

\* Every strategy that reaches its cap has no room.
LEMMA RoomIsBelowTheCap ==
    ASSUME NEW reg, NEW total, NEW S, NEW alloc \in [S -> Fractions]
    PROVE  \A s \in S : s \in Calls!Allocator!HasRoom(reg, total, alloc)
                          <=> ~AtMost(Calls!Allocator!Cap(reg, total, s), alloc[s])
<1>1. DOMAIN alloc = S
  OBVIOUS
<1> QED BY <1>1, AllocatorFractions DEF Calls!Allocator!HasRoom

\* No overflow is worth another iteration when there is none.
LEMMA ZeroDoesNotCount == ~Calls!Allocator!Counts(Zero)
<1>1. AtMost(Zero, <<1, 100>>)
  BY DEF AtMost, Zero, Whole
<1> QED BY <1>1, AllocatorFractions DEF Calls!Allocator!Counts, Calls!Allocator!Above

\* The split in proportion to the weights is fair.
LEMMA ProportionalIsFair ==
    ASSUME NEW reg, NEW S, IsRegistry(reg, S), NEW total \in Nat
    PROVE  LET split == Calls!Allocator!Proportional(reg, total, S)
           IN  Fair(reg, total, S, split) /\ Used(reg, total, split, Cardinality(S))
<1> DEFINE split == Calls!Allocator!Proportional(reg, total, S)
           none == [s \in S |-> Zero]
           raw == [s \in S |-> Calls!Allocator!Raw(reg, total, s)]
           w == [s \in S |-> IF s \in S THEN raw[s] ELSE none[s]]
           cap(s) == Calls!Allocator!Cap(reg, total, s)
           room == Calls!Allocator!HasRoom(reg, total, split.alloc)
<1>1. split = Calls!Allocator!Offer(reg, total, none, S, raw)
  BY AllocatorFractions DEF Calls!Allocator!Proportional
<1>2. \A s \in S : raw[s] \in Fractions /\ cap(s) \in Fractions /\ raw[s] = Calls!Allocator!Raw(reg, total, s)
  BY DuesAreRatios DEF NonNegative
<1>3. none \in [S -> Fractions] /\ raw = [s \in S |-> raw[s]] /\ S \in SUBSET S
  BY FractionsMove
<1>4. w = raw
  OBVIOUS
<1> HIDE DEF none, raw, cap
<1>5. /\ split.alloc \in [S -> Fractions] /\ split.overflow \in NonNegative
      /\ \A s \in S : split.alloc[s] = Calls!Allocator!Lower(raw[s], Calls!Allocator!Cap(reg, total, s))
      /\ Plus(FractionSum(S, split.alloc), split.overflow) = FractionSum(S, w)
      /\ \/ split.overflow = Zero
         \/ \E s \in S : split.alloc[s] = Calls!Allocator!Cap(reg, total, s)
  <2> HIDE DEF split
  <2>1. IsCut(reg, total, S, none, S, raw, split)
    BY <1>1, <1>2, <1>3, OffersAreCut
  <2> QED BY <2>1 DEF IsCut
<1> HIDE DEF split, w
<1>6. ASSUME NEW s \in S
      PROVE  /\ AtMost(split.alloc[s], cap(s))
             /\ AtMost(Calls!Allocator!Lower(Calls!Allocator!Raw(reg, total, s), cap(s)), split.alloc[s])
  <2>1. split.alloc[s] = Calls!Allocator!Lower(raw[s], cap(s)) /\ split.alloc[s] \in Fractions
        /\ raw[s] \in Fractions /\ cap(s) \in Fractions
    BY <1>2, <1>5 DEF cap
  <2> QED BY <1>2, <2>1, LowerAndExcess, FractionsAreOrdered
<1>7. Fair(reg, total, S, split)
  BY <1>4, <1>5, <1>6 DEF Fair, raw, cap
<1>8. Used(reg, total, split, Cardinality(S))
  <2> SUFFICES ASSUME Calls!Allocator!Counts(split.overflow)
               PROVE  Cardinality(room) < Cardinality(S)
    BY DEF Used
  <2>1. PICK s \in S : split.alloc[s] = cap(s)
    BY <1>5, ZeroDoesNotCount DEF cap
  <2>2. s \notin room
    BY <1>2, <1>5, <2>1, FractionsAreOrdered, RoomIsBelowTheCap DEF cap
  <2>3. room \subseteq S
    <3>1. DOMAIN split.alloc = S
      BY <1>5
    <3> QED BY <3>1 DEF Calls!Allocator!HasRoom
  <2> HIDE DEF room
  <2>4. IsFiniteSet(S)
    BY DEF IsRegistry
  <2>5. Cardinality(room) <= Cardinality(S \ {s}) /\ Cardinality(S \ {s}) = Cardinality(S) - 1
        /\ Cardinality(S) \in Nat /\ Cardinality(room) \in Nat
    <3>1. room \in SUBSET (S \ {s}) /\ IsFiniteSet(S \ {s})
      BY <2>2, <2>3, <2>4, FS_RemoveElement
    <3> QED BY <2>1, <2>4, <3>1, FS_Subset, FS_CardinalityType, FS_RemoveElement
  <2> QED BY <2>5
<1> QED BY <1>7, <1>8 DEF split

\* So is what an iteration makes of a fair one, and while something overflows
\* one strategy fewer has room after it.
LEMMA IterationIsFair ==
    ASSUME NEW reg, NEW S, IsRegistry(reg, S), NEW total \in Nat,
           NEW split, Fair(reg, total, S, split)
    PROVE  LET after == Calls!Allocator!Redistribute(reg, total, split)
           IN  /\ Fair(reg, total, S, after)
               /\ \A k \in Nat : Used(reg, total, split, k + 1) =>
                    Used(reg, total, after, k) \/ Calls!Allocator!HasRoom(reg, total, after.alloc) = {}
<1> DEFINE after == Calls!Allocator!Redistribute(reg, total, split)
           room == Calls!Allocator!HasRoom(reg, total, split.alloc)
           left == Calls!Allocator!HasRoom(reg, total, after.alloc)
           cap(s) == Calls!Allocator!Cap(reg, total, s)
           due(s) == Calls!Allocator!Lower(Calls!Allocator!Raw(reg, total, s), cap(s))
           share == [s \in room |-> Calls!Allocator!Share(reg, split.overflow, room, s)]
           offer == [s \in room |-> Plus(split.alloc[s], share[s])]
           w == [s \in S |-> IF s \in room THEN offer[s] ELSE split.alloc[s]]
           more == [s \in S |-> IF s \in room THEN share[s] ELSE Zero]
<1>1. /\ split.alloc \in [S -> Fractions] /\ split.overflow \in NonNegative
      /\ \A s \in S : AtMost(split.alloc[s], cap(s)) /\ AtMost(due(s), split.alloc[s])
      /\ Plus(FractionSum(S, split.alloc), split.overflow) = FractionSum(S, [s \in S |-> Calls!Allocator!Raw(reg, total, s)])
  BY DEF Fair
<1>2. IsFiniteSet(S) /\ room \in SUBSET S /\ IsFiniteSet(room)
  <2>1. DOMAIN split.alloc = S
    BY <1>1
  <2>2. room \in SUBSET S
    BY <2>1 DEF Calls!Allocator!HasRoom
  <2> QED BY <2>2, FS_Subset DEF IsRegistry
<1>3. CASE ~Calls!Allocator!Counts(split.overflow) \/ room = {}
  <2>1. after = split
    BY <1>3 DEF Calls!Allocator!Redistribute
  <2> HIDE DEF after
  <2> QED BY <1>3, <2>1 DEF Used, after
<1>4. CASE Calls!Allocator!Counts(split.overflow) /\ room # {}
  <2>1. after = Calls!Allocator!Offer(reg, total, split.alloc, room, offer)
    <3>1. offer = [s \in room |-> Calls!Allocator!Fraction!Plus(split.alloc[s],
                                    Calls!Allocator!Share(reg, split.overflow, room, s))]
      BY AllocatorFractions
    <3> QED BY <1>4, <3>1 DEF Calls!Allocator!Redistribute
  <2>2. /\ \A s \in room : share[s] \in NonNegative /\ share[s] \in Fractions
        /\ FractionSum(room, share) = split.overflow
    <3>1. AreShares(reg, split.overflow, room, share)
      BY DEF AreShares
    <3> HIDE DEF share, room
    <3>2. (\A s \in room : share[s] \in NonNegative) /\ FractionSum(room, share) = split.overflow
      <4>1. PICK over \in NonNegative : over = split.overflow
        BY <1>1
      <4>2. PICK E \in SUBSET S : E = room /\ E # {}
        BY <1>2, <1>4
      <4>3. AreShares(reg, over, E, share)
        BY <3>1, <4>1, <4>2
      <4>4. (\A s \in E : share[s] \in NonNegative) /\ FractionSum(E, share) = over
        BY ONLY IsRegistry(reg, S), over \in NonNegative, E \in SUBSET S, <4>2, <4>3, SharesAddUp
      <4> QED BY <4>1, <4>2, <4>4
    <3> QED BY <3>2 DEF NonNegative
  <2>3. \A s \in room : offer[s] = Plus(split.alloc[s], share[s])
    OBVIOUS
  <2>10. offer = [s \in room |-> offer[s]]
    OBVIOUS
  <2>11. /\ \A s \in room : more[s] = share[s]
         /\ \A s \in S \ room : more[s] = Zero
    BY <1>2
  <2>12. \A s \in S : w[s] = IF s \in room THEN offer[s] ELSE split.alloc[s]
    OBVIOUS
  <2>4. \A s \in S : cap(s) \in Fractions /\ due(s) \in Fractions
    BY DuesAreRatios, LowerAndExcess DEF NonNegative
  <2>13. \A s \in S : s \in room <=> ~AtMost(cap(s), split.alloc[s])
    BY <1>1, RoomIsBelowTheCap
  <2> HIDE DEF room, share, offer, more
  <2>5. ASSUME NEW s \in room PROVE offer[s] \in Fractions
    <3>1. split.alloc[s] \in Fractions /\ share[s] \in Fractions
      BY <1>1, <1>2, <2>2
    <3> QED BY <2>3, <3>1, SumsAreFractions
  <2>6. /\ after.alloc \in [S -> Fractions] /\ after.overflow \in NonNegative
        /\ \A s \in room : after.alloc[s] = Calls!Allocator!Lower(offer[s], cap(s))
        /\ \A s \in S \ room : after.alloc[s] = split.alloc[s]
        /\ Plus(FractionSum(S, after.alloc), after.overflow) = FractionSum(S, w)
        /\ \/ after.overflow = Zero
           \/ \E s \in room : after.alloc[s] = cap(s)
    <3> HIDE DEF after
    <3>1. IsCut(reg, total, S, split.alloc, room, offer, after)
      BY <1>1, <1>2, <2>1, <2>5, <2>10, OffersAreCut
    <3> QED BY <3>1 DEF IsCut
  <2> HIDE DEF w, after, cap, due
  <2>7. ASSUME NEW s \in S
        PROVE  AtMost(after.alloc[s], cap(s)) /\ AtMost(due(s), after.alloc[s])
    <3>1. CASE s \notin room
      BY <1>1, <2>6, <3>1
    <3>2. CASE s \in room
      <4>1. AtMost(split.alloc[s], offer[s]) /\ split.alloc[s] \in Fractions
        BY <1>1, <2>2, <2>3, <3>2, LargerByDifference
      <4>2. AtMost(split.alloc[s], cap(s)) /\ cap(s) \in Fractions /\ due(s) \in Fractions
        BY <1>1, <2>4
      <4>3. AtMost(after.alloc[s], cap(s)) /\ AtMost(split.alloc[s], after.alloc[s])
        BY <2>5, <2>6, <3>2, <4>1, <4>2, LowerAndExcess
      <4> QED BY <1>1, <2>6, <4>1, <4>2, <4>3, FractionsAreOrdered
    <3> QED BY <3>1, <3>2
  <2>8. FractionSum(S, w) = Plus(FractionSum(S, split.alloc), split.overflow)
    <3>1. ASSUME NEW s \in S
          PROVE  /\ split.alloc[s] \in Fractions /\ more[s] \in Fractions
                 /\ w[s] = Plus(split.alloc[s], more[s])
      <4>1. CASE s \in room
        BY <1>1, <2>2, <2>3, <2>11, <2>12, <4>1
      <4>2. CASE s \notin room
        BY <1>1, <2>11, <2>12, <4>2, FractionsMove
      <4> QED BY <4>1, <4>2
    <3>2. FractionSum(S, w) = Plus(FractionSum(S, split.alloc), FractionSum(S, more))
      BY <1>2, <3>1, SumsOfFractions DEF FractionSum
    <3>3. FractionSum(S, more) = FractionSum(room, share)
      BY <1>2, <2>2, <2>11, SumWithoutZeros
    <3> QED BY <2>2, <3>2, <3>3
  <2>9. Fair(reg, total, S, after)
    BY <1>1, <2>6, <2>7, <2>8 DEF Fair, cap, due
  <2>14. ASSUME NEW k \in Nat, Used(reg, total, split, k + 1), Calls!Allocator!Counts(after.overflow)
         PROVE  Cardinality(left) < k
    <3>1. PICK s \in room : after.alloc[s] = cap(s)
      BY <2>6, <2>14, ZeroDoesNotCount
    <3>2. \A x \in S : x \in left <=> ~AtMost(cap(x), after.alloc[x])
      BY <2>6, RoomIsBelowTheCap DEF cap
    <3>3. left \subseteq S
      <4>1. DOMAIN after.alloc = S
        BY <2>6
      <4> QED BY <4>1 DEF Calls!Allocator!HasRoom
    <3> HIDE DEF left
    <3>4. s \notin left
      BY <1>2, <2>4, <3>1, <3>2, FractionsAreOrdered
    <3>5. \A x \in S \ room : x \notin left
      BY <2>6, <2>13, <3>2
    <3>6. left \in SUBSET (room \ {s}) /\ IsFiniteSet(room \ {s})
      BY <1>2, <3>3, <3>4, <3>5, FS_RemoveElement
    <3>7. Cardinality(left) <= Cardinality(room \ {s}) /\ Cardinality(room \ {s}) = Cardinality(room) - 1
          /\ Cardinality(room) \in Nat /\ Cardinality(left) \in Nat
      BY <1>2, <3>1, <3>6, FS_Subset, FS_CardinalityType, FS_RemoveElement
    <3>8. Cardinality(room) < k + 1
      BY <1>4, <2>14 DEF Used, room
    <3> QED BY <3>7, <3>8
  <2> QED BY <2>9, <2>14 DEF Used, after
<1> QED BY <1>3, <1>4

\* Nothing is left to be given, or nobody can take it.
Done(reg, total, split) ==
    ~Calls!Allocator!Counts(split.overflow) \/ Calls!Allocator!HasRoom(reg, total, split.alloc) = {}

\* An iteration uses up the room of one strategy more, or the split is done.
LEMMA IterationsEnd ==
    ASSUME NEW reg, NEW S, IsRegistry(reg, S), NEW total \in Nat, NEW split, NEW k \in Nat,
           Fair(reg, total, S, split), Used(reg, total, split, k + 1) \/ Done(reg, total, split)
    PROVE  LET after == Calls!Allocator!Redistribute(reg, total, split)
           IN  /\ Fair(reg, total, S, after)
               /\ Used(reg, total, after, k) \/ Done(reg, total, after)
<1> DEFINE after == Calls!Allocator!Redistribute(reg, total, split)
<1>1. Fair(reg, total, S, after)
      /\ (Used(reg, total, split, k + 1) =>
            Used(reg, total, after, k) \/ Calls!Allocator!HasRoom(reg, total, after.alloc) = {})
  BY IterationIsFair
<1>2. ASSUME Done(reg, total, split) PROVE after = split
  BY <1>2 DEF Done, Calls!Allocator!Redistribute
<1> HIDE DEF after
<1> QED BY <1>1, <1>2 DEF Done, after

AllocatorConfigured == MaxIterations \in Nat

\* The iterations, one by one, and what the first n of them give.
Iterates(reg, total, S, n, f) ==
    f = [k \in 0 .. n |-> IF k = 0 THEN Calls!Allocator!Proportional(reg, total, S)
                          ELSE Calls!Allocator!Redistribute(reg, total, f[k - 1])]

\* There are such iterations, for any number of them.
LEMMA IterationsExist ==
    ASSUME NEW reg, NEW total, NEW S, NEW n \in Nat
    PROVE  \E f : Iterates(reg, total, S, n, f)
<1> DEFINE x0 == Calls!Allocator!Proportional(reg, total, S)
           next(x) == Calls!Allocator!Redistribute(reg, total, x)
           Rec(m, f) == f = [k \in 0 .. m |-> IF k = 0 THEN x0 ELSE next(f[k - 1])]
           Bad == {m \in Nat : ~\E f : Rec(m, f)}
<1>1. SUFFICES ASSUME Bad # {} PROVE FALSE
  BY DEF Iterates
<1>2. Bad \subseteq Nat
  OBVIOUS
<1> HIDE DEF Bad
<1>3. PICK m \in Bad : \A k \in Bad : m <= k
  BY <1>1, <1>2, LeastNatural
<1> USE DEF Bad
<1> HIDE DEF next, x0
<1>4. m # 0
  <2> DEFINE initial == [k \in 0 .. 0 |-> x0]
  <2>1. Rec(0, initial)
    <3>1. \A k \in 0 .. 0 : k = 0
      OBVIOUS
    <3> QED BY <3>1
  <2> HIDE DEF Rec
  <2> QED BY <1>3, <2>1
<1>5. m - 1 \in Nat /\ m - 1 \notin Bad
  BY <1>3, <1>4
<1>6. PICK f : Rec(m - 1, f)
  BY <1>5
<1> DEFINE g == [k \in 0 .. m |-> IF k = m THEN next(f[m - 1]) ELSE f[k]]
<1>7. \A k \in 0 .. (m - 1) : f[k] = IF k = 0 THEN x0 ELSE next(f[k - 1])
  BY <1>6
<1>8. ASSUME NEW k \in 0 .. m PROVE g[k] = IF k = 0 THEN x0 ELSE next(g[k - 1])
  <2>1. CASE k = m
    <3>1. g[k] = next(f[m - 1]) /\ g[k - 1] = f[m - 1]
      BY <1>5, <2>1
    <3> QED BY <1>4, <2>1, <3>1
  <2>2. CASE k # m
    <3>1. k \in 0 .. (m - 1) /\ g[k] = f[k]
      BY <1>5, <2>2
    <3>2. k # 0 => g[k - 1] = f[k - 1]
      BY <1>5, <2>2
    <3> QED BY <1>7, <3>1, <3>2
  <2> QED BY <2>1, <2>2
<1>9. g = [k \in 0 .. m |-> g[k]]
  OBVIOUS
<1> HIDE DEF g
<1>10. Rec(m, g)
  BY <1>8, <1>9
<1> HIDE DEF Rec
<1> QED BY <1>3, <1>10

\* The iterations are enough for one strategy more than there are iterations.
LEMMA SplitIsFair ==
    ASSUME AllocatorConfigured, NEW reg, NEW S, IsRegistry(reg, S),
           Cardinality(S) <= MaxIterations + 1, NEW total \in Nat
    PROVE  /\ \A redistribute \in BOOLEAN :
                Fair(reg, total, S, Calls!Allocator!Split(reg, total, S, redistribute))
           /\ Done(reg, total, Calls!Allocator!Split(reg, total, S, TRUE))
<1> DEFINE next(x) == Calls!Allocator!Redistribute(reg, total, x)
           x0 == Calls!Allocator!Proportional(reg, total, S)
           Rec(f) == f = [n \in 0 .. MaxIterations |-> IF n = 0 THEN x0 ELSE next(f[n - 1])]
           At(x, k) == Fair(reg, total, S, x) /\ (Used(reg, total, x, k) \/ Done(reg, total, x))
<1>0. MaxIterations \in Nat
  BY DEF AllocatorConfigured
<1>1. \A redistribute \in BOOLEAN :
        Calls!Allocator!Split(reg, total, S, redistribute)
          = (CHOOSE f : Rec(f))[IF redistribute THEN MaxIterations ELSE 0]
  BY DEF Calls!Allocator!Split
<1>2. At(x0, MaxIterations + 1)
  <2>1. Fair(reg, total, S, x0) /\ Used(reg, total, x0, Cardinality(S))
    BY ProportionalIsFair
  <2> HIDE DEF x0
  <2>2. IsFiniteSet(S) /\ Cardinality(S) \in Nat
    BY FS_CardinalityType DEF IsRegistry
  <2>3. IsFiniteSet(Calls!Allocator!HasRoom(reg, total, x0.alloc))
        /\ Cardinality(Calls!Allocator!HasRoom(reg, total, x0.alloc)) \in Nat
    <3>1. DOMAIN x0.alloc = S
      BY <2>1 DEF Fair
    <3>2. Calls!Allocator!HasRoom(reg, total, x0.alloc) \in SUBSET S
      BY <3>1 DEF Calls!Allocator!HasRoom
    <3> QED BY <2>2, <3>2, FS_Subset, FS_CardinalityType
  <2> QED BY <1>0, <2>1, <2>2, <2>3 DEF Used
<1>3. ASSUME NEW x, NEW k \in Nat, At(x, k + 1) PROVE At(next(x), k)
  BY <1>3, IterationsEnd
<1>4. \E f : Rec(f)
  <2>1. \A f : Iterates(reg, total, S, MaxIterations, f) => Rec(f)
    BY DEF Iterates
  <2> HIDE DEF Rec, next, x0
  <2>2. \E f : Iterates(reg, total, S, MaxIterations, f)
    BY <1>0, IterationsExist
  <2> QED BY <2>1, <2>2
<1> HIDE DEF At
<1>5. PICK f : Rec(f) /\ f = CHOOSE g : Rec(g)
  <2> HIDE DEF Rec
  <2> QED BY <1>4
<1> HIDE DEF next, x0
<1>6. f[0] = x0 /\ \A n \in 1 .. MaxIterations : f[n] = next(f[n - 1])
  BY <1>0, <1>5
<1> HIDE DEF Rec
<1>7. \A n \in 0 .. MaxIterations : At(f[n], MaxIterations + 1 - n)
  <2> DEFINE Bad == {n \in 0 .. MaxIterations : ~At(f[n], MaxIterations + 1 - n)}
  <2>1. SUFFICES ASSUME Bad # {} PROVE FALSE
    OBVIOUS
  <2>2. Bad \subseteq Nat
    OBVIOUS
  <2> HIDE DEF Bad
  <2>3. PICK n \in Bad : \A k \in Bad : n <= k
    BY <2>1, <2>2, LeastNatural
  <2> USE DEF Bad
  <2>4. n # 0
    <3>1. MaxIterations + 1 - 0 = MaxIterations + 1
      BY <1>0
    <3> QED BY <1>2, <1>6, <2>3, <3>1
  <2>5. n - 1 \in 0 .. MaxIterations /\ n - 1 \notin Bad /\ n \in 1 .. MaxIterations
    BY <1>0, <2>3, <2>4
  <2>6. At(f[n - 1], MaxIterations + 1 - (n - 1))
    BY <2>5
  <2>7. PICK k \in Nat : k = MaxIterations + 1 - n /\ MaxIterations + 1 - (n - 1) = k + 1
    BY <1>0, <2>5
  <2>8. At(next(f[n - 1]), k)
    BY <1>3, <2>6, <2>7
  <2> QED BY <1>6, <2>3, <2>5, <2>7, <2>8
<1> DEFINE end == f[MaxIterations]
<1>8. At(x0, MaxIterations + 1) /\ At(end, 1)
  <2>1. MaxIterations \in 0 .. MaxIterations /\ MaxIterations + 1 - MaxIterations = 1
    BY <1>0
  <2> QED BY <1>2, <1>7, <2>1
<1>9. Calls!Allocator!Split(reg, total, S, TRUE) = end /\ Calls!Allocator!Split(reg, total, S, FALSE) = x0
  BY <1>1, <1>5, <1>6
<1> HIDE DEF end
<1>10. Done(reg, total, end)
  <2>1. SUFFICES ASSUME Used(reg, total, end, 1) PROVE Done(reg, total, end)
    BY <1>8 DEF At
  <2>2. DOMAIN end.alloc = S
    BY <1>8 DEF At, Fair
  <2>3. Calls!Allocator!HasRoom(reg, total, end.alloc) \in SUBSET S /\ IsFiniteSet(S)
    BY <2>2 DEF Calls!Allocator!HasRoom, IsRegistry
  <2>4. /\ IsFiniteSet(Calls!Allocator!HasRoom(reg, total, end.alloc))
        /\ Cardinality(Calls!Allocator!HasRoom(reg, total, end.alloc)) \in Nat
        /\ Cardinality(Calls!Allocator!HasRoom(reg, total, end.alloc)) = 0
             <=> Calls!Allocator!HasRoom(reg, total, end.alloc) = {}
    BY <2>3, FS_Subset, FS_CardinalityType, FS_EmptySet
  <2> QED BY <2>1, <2>4 DEF Used, Done
<1> QED BY <1>8, <1>9, <1>10 DEF At

\* Rounding downwards.
LEMMA FloorsAreNear ==
    ASSUME NEW x \in Fractions
    PROVE  LET f == x[1] \div x[2]
           IN  /\ f \in Int /\ Ratio(f, 1) \in Fractions /\ Ratio(f + 1, 1) \in Fractions
               /\ AtMost(Ratio(f, 1), x) /\ AtMost(x, Ratio(f + 1, 1))
               /\ ~AtMost(Ratio(f + 1, 1), x)
<1> DEFINE p == x[1]
           q == x[2]
           f == p \div q
<1>1. p \in Int /\ q \in Int /\ q > 0
  BY FractionParts
<1> HIDE DEF p, q
<1>2. f \in Int /\ p = q * f + (p % q) /\ p % q \in 0 .. q - 1
  BY <1>1, QuotientAndRest
<1> HIDE DEF f
<1>3. f * q <= p /\ p < (f + 1) * q
  <2>1. q * f \in Int /\ f * q = q * f /\ (f + 1) * q = q * f + q
    BY <1>1, <1>2
  <2> QED BY <1>1, <1>2, <2>1
<1>4. Whole(f) = Ratio(f, 1) /\ Whole(f) \in Fractions
      /\ Whole(f + 1) = Ratio(f + 1, 1) /\ Whole(f + 1) \in Fractions
  <2>1. f + 1 \in Int
    BY <1>2
  <2> QED BY <1>2, <2>1, WholeIsRatio
<1>5. /\ AtMost(Whole(f), x) <=> f * q <= p
      /\ AtMost(x, Whole(f + 1)) <=> p <= (f + 1) * q
      /\ AtMost(Whole(f + 1), x) <=> (f + 1) * q <= p
  <2>1. p * 1 = p
    BY <1>1
  <2> QED BY <2>1 DEF AtMost, Whole, p, q
<1>6. f * q \in Int /\ (f + 1) * q \in Int
  BY <1>1, <1>2
<1>7. p <= (f + 1) * q /\ ~((f + 1) * q <= p)
  BY <1>1, <1>3, <1>6
<1> QED BY <1>2, <1>3, <1>4, <1>5, <1>7 DEF f, p, q

\* One more for each element.
LEMMA TotalWithOnes ==
    ASSUME NEW S, IsFiniteSet(S), NEW v, NEW w,
           \A x \in S : v[x] \in Int /\ w[x] = v[x] + 1
    PROVE  IntSum(S, w) = IntSum(S, v) + Cardinality(S)
<1> DEFINE Good == {T \in SUBSET S : IntSum(T, w) = IntSum(T, v) + Cardinality(T)}
<1>1. \A T \in SUBSET S :
        IsFiniteSet(T) /\ \A x \in T : v[x] \in Int /\ w[x] \in Int /\ w[x] = v[x] + 1
  BY FS_Subset
<1>2. {} \in Good
  <2>1. IsFiniteSet({}) /\ \A x \in {} : v[x] \in Int /\ w[x] \in Int
    BY <1>1
  <2>2. IntSum({}, v) = 0
    BY <2>1, IntSumAdds
  <2>3. IntSum({}, w) = 0
    BY <2>1, IntSumAdds
  <2> QED BY <2>2, <2>3, FS_EmptySet
<1>3. ASSUME NEW T \in SUBSET S, NEW x \in T, T \ {x} \in Good PROVE T \in Good
  <2>1. /\ IntSum(T, v) = v[x] + IntSum(T \ {x}, v) /\ IntSum(T \ {x}, v) \in Int
    BY <1>1, IntSumAdds
  <2>2. /\ IntSum(T, w) = w[x] + IntSum(T \ {x}, w) /\ IntSum(T \ {x}, w) \in Int
    BY <1>1, IntSumAdds
  <2>3. IntSum(T \ {x}, w) = IntSum(T \ {x}, v) + Cardinality(T \ {x})
    BY <1>3
  <2>4. Cardinality(T \ {x}) = Cardinality(T) - 1 /\ Cardinality(T) \in Nat
    BY <1>1, FS_RemoveElement, FS_CardinalityType
  <2> QED BY <1>1, <2>1, <2>2, <2>3, <2>4
<1> HIDE DEF Good
<1>4. S \in Good
  BY <1>2, <1>3, FiniteInduction
<1> QED BY <1>4 DEF Good

\* What is allocated is such a sum.
LEMMA AllocatedIsTotal ==
    ASSUME NEW S, IsFiniteSet(S), NEW a, a = [s \in S |-> a[s]], \A s \in S : a[s] \in Int
    PROVE  Calls!Allocator!Allocated(a) = IntSum(S, a)
<1>1. DOMAIN a = S
  OBVIOUS
<1>2. Calls!Allocator!Allocated(a) = SumFunctionOnSet(a, S)
  BY <1>1 DEF Calls!Allocator!Allocated, Calls!Allocator!MapThenSumSet, Calls!Allocator!MapThenFoldSet,
              SumFunctionOnSet, FoldFunctionOnSet, MapThenFoldSet
<1> QED BY <1>2, SumIsTotal

\* A fair split, rounded downwards.
Floors(S, split) == [s \in S |-> split.alloc[s][1] \div split.alloc[s][2]]

\* A floor is within a won of the fraction, within the cap and the proportional part.
LEMMA FloorsFit ==
    ASSUME NEW reg, NEW S, IsRegistry(reg, S), NEW total \in Nat,
           NEW split, Fair(reg, total, S, split), NEW s \in S
    PROVE  LET a == Floors(S, split)
           IN  /\ a[s] \in Int
               /\ AtMost(Ratio(a[s], 1), split.alloc[s])
               /\ AtMost(split.alloc[s], Ratio(a[s] + 1, 1))
               /\ a[s] * 100 <= total * reg[s].cap
               /\ (a[s] + 1) * 100 > total * (IF reg[s].weight < reg[s].cap
                                              THEN reg[s].weight ELSE reg[s].cap)
               /\ (a[s] + 1) * 100 <= total * reg[s].cap =>
                    s \in Calls!Allocator!HasRoom(reg, total, split.alloc)
<1> DEFINE x == split.alloc[s]
           f == Floors(S, split)[s]
           w == reg[s].weight
           c == reg[s].cap
           raw == Calls!Allocator!Raw(reg, total, s)
           cap == Calls!Allocator!Cap(reg, total, s)
           due == Calls!Allocator!Lower(raw, cap)
           m == IF w < c THEN w ELSE c
<1>1. /\ x \in Fractions /\ AtMost(x, cap) /\ AtMost(due, x) /\ f = x[1] \div x[2]
      /\ DOMAIN split.alloc = S
  BY DEF Fair, Floors
<1>2. /\ raw = Ratio(total * w, 100) /\ cap = Ratio(total * c, 100)
      /\ raw \in Fractions /\ cap \in Fractions
  BY DuesAreRatios DEF NonNegative
<1>3. w \in Nat /\ c \in Nat /\ total * w \in Int /\ total * c \in Int /\ 100 \in Positive /\ 1 \in Positive
      /\ total * m \in Int /\ m \in Nat
  BY DEF IsRegistry, Positive
<1>4. (s \in Calls!Allocator!HasRoom(reg, total, split.alloc)) <=> ~AtMost(cap, x)
  <2>1. split.alloc \in [S -> Fractions]
    BY DEF Fair
  <2> QED BY <2>1, RoomIsBelowTheCap
<1> HIDE DEF raw, cap, x, f, w, c
<1>5. /\ f \in Int /\ Ratio(f, 1) \in Fractions /\ Ratio(f + 1, 1) \in Fractions
      /\ AtMost(Ratio(f, 1), x) /\ AtMost(x, Ratio(f + 1, 1)) /\ ~AtMost(Ratio(f + 1, 1), x)
  BY <1>1, FloorsAreNear
<1>6. due \in Fractions /\ (Ratio(total * m, 100) = due)
  <2>1. due \in Fractions
    BY <1>2, LowerAndExcess
  <2>2. AtMost(raw, cap) <=> (total * w) * 100 <= (total * c) * 100
    BY <1>2, <1>3, RatiosCompare
  <2>3. (total * w) * 100 <= (total * c) * 100 <=> total * w <= total * c
    BY <1>3
  <2>4. due = IF AtMost(raw, cap) THEN raw ELSE cap
    BY AllocatorFractions DEF Calls!Allocator!Lower, Calls!Allocator!Above
  <2>5. CASE w < c
    <3>1. w * total <= c * total /\ total * w = w * total /\ total * c = c * total
      <4>1. c * total = w * total + (c - w) * total /\ (c - w) * total \in Nat /\ w * total \in Nat
        BY <1>3, <2>5
      <4> QED BY <1>3, <4>1
    <3> QED BY <1>2, <2>1, <2>2, <2>3, <2>4, <2>5, <3>1
  <2>6. CASE ~(w < c)
    <3>1. c * total <= w * total /\ total * w = w * total /\ total * c = c * total
      <4>1. w * total = c * total + (w - c) * total /\ (w - c) * total \in Nat /\ c * total \in Nat
        BY <1>3, <2>6
      <4> QED BY <1>3, <4>1
    <3>2. CASE total * w = total * c
      BY <1>2, <2>1, <2>2, <2>3, <2>4, <2>6, <3>2
    <3>3. CASE total * w # total * c
      <4>1. ~(total * w <= total * c)
        BY <1>3, <3>1, <3>3
      <4> QED BY <1>2, <2>1, <2>2, <2>3, <2>4, <2>6, <4>1
    <3> QED BY <3>2, <3>3
  <2> QED BY <2>1, <2>5, <2>6
<1> HIDE DEF due, m
<1>7. f * 100 <= total * c
  <2>1. AtMost(Ratio(f, 1), cap)
    BY <1>1, <1>2, <1>5, FractionsAreOrdered
  <2>2. f * 100 <= (total * c) * 1
    BY <1>2, <1>3, <1>5, <2>1, RatiosCompare
  <2> QED BY <1>3, <2>2
<1>8. ASSUME NEW t \in Int, AtMost(Ratio(t, 100), x) PROVE (f + 1) * 100 > t
  <2>1. SUFFICES ASSUME (f + 1) * 100 <= t * 1 PROVE FALSE
    BY <1>5
  <2>2. AtMost(Ratio(f + 1, 1), Ratio(t, 100)) /\ Ratio(t, 100) \in Fractions
    <3>1. f + 1 \in Int
      BY <1>5
    <3> QED BY <1>3, <2>1, <3>1, RatiosCompare, RatioIsFraction
  <2>3. AtMost(Ratio(f + 1, 1), x)
    BY <1>1, <1>5, <1>8, <2>2, FractionsAreOrdered
  <2> QED BY <1>5, <2>3
<1>9. (f + 1) * 100 > total * m
  BY <1>1, <1>3, <1>6, <1>8
<1>10. (f + 1) * 100 <= total * c => ~AtMost(cap, x)
  <2>1. AtMost(cap, x) => (f + 1) * 100 > total * c
    BY <1>2, <1>3, <1>8
  <2> QED BY <1>3, <1>5, <2>1
<1> QED BY <1>4, <1>5, <1>7, <1>9, <1>10 DEF f, x, w, c, m

\* What they add up to.
LEMMA FloorsAddUp ==
    ASSUME NEW reg, NEW S, IsRegistry(reg, S), NEW total \in Nat, NEW split, Fair(reg, total, S, split)
    PROVE  LET a == Floors(S, split)
               weight == Calls!Allocator!WeightOf(reg, S)
           IN  /\ weight \in Nat /\ Calls!Allocator!Allocated(a) \in Int
               /\ Calls!Allocator!Allocated(a) * 100 <= total * weight
               /\ ~Calls!Allocator!Counts(split.overflow) =>
                    total * weight <= (Calls!Allocator!Allocated(a) + Cardinality(S) + 1) * 100
<1> DEFINE a == Floors(S, split)
           weight == Calls!Allocator!WeightOf(reg, S)
           T == IntSum(S, a)
           n == Cardinality(S)
           v == Weights(reg, S)
           dues == [s \in S |-> total * v[s]]
           raw == [s \in S |-> Calls!Allocator!Raw(reg, total, s)]
           more == [s \in S |-> a[s] + 1]
           A == FractionSum(S, split.alloc)
           o == split.overflow
           low == [s \in S |-> Ratio(a[s], 1)]
           high == [s \in S |-> Ratio(more[s], 1)]
<1>1. IsFiniteSet(S) /\ n \in Nat /\ 1 \in Positive /\ 100 \in Positive
  BY FS_CardinalityType DEF IsRegistry, Positive
<1>2. /\ split.alloc \in [S -> Fractions] /\ o \in NonNegative /\ o \in Fractions
      /\ Plus(A, o) = FractionSum(S, raw)
  BY DEF Fair, NonNegative
<1>3. \A s \in S : /\ a[s] \in Int /\ AtMost(Ratio(a[s], 1), split.alloc[s])
                   /\ AtMost(split.alloc[s], Ratio(a[s] + 1, 1))
  BY FloorsFit
<1>4. a = [s \in S |-> a[s]]
  BY DEF Floors
<1>5. \A s \in S : v[s] \in Nat /\ v[s] = reg[s].weight
  BY DEF IsRegistry, Weights
<1>6. weight = IntSum(S, v)
  BY WeightsAreTotals
<1> HIDE DEF v, a, weight
<1>7. weight \in Nat
  <2>1. weight \in Int
    BY <1>1, <1>5, <1>6, IntSumAdds
  <2>2. IntSum(S, [s \in S |-> 0 * v[s]]) = 0 * IntSum(S, v)
    BY <1>1, <1>5, TotalOfMultiples
  <2>3. IntSum(S, [s \in S |-> 0 * v[s]]) <= IntSum(S, v)
    BY <1>1, <1>5, TotalsAreOrdered
  <2> QED BY <1>6, <2>1, <2>2, <2>3
<1>8. Calls!Allocator!Allocated(a) = T /\ T \in Int
  BY <1>1, <1>3, <1>4, AllocatedIsTotal, IntSumAdds
<1>9. FractionSum(S, raw) = Ratio(total * weight, 100) /\ total * weight \in Int
  <2>1. \A s \in S : dues[s] \in Int /\ raw[s] = Ratio(dues[s], 100)
    BY <1>5, DuesAreRatios
  <2>2. IntSum(S, dues) = total * weight
    BY <1>1, <1>5, <1>6, TotalOfMultiples
  <2> HIDE DEF dues, raw
  <2>3. FractionSum(S, raw) = Ratio(IntSum(S, dues), 100)
    BY <1>1, <2>1, SumOverOneDenominator
  <2> QED BY <1>7, <2>2, <2>3
<1>10. FractionSum(S, low) = Ratio(T, 1) /\ AtMost(FractionSum(S, low), A)
  <2>1. \A s \in S : /\ a[s] \in Int /\ low[s] = Ratio(a[s], 1) /\ low[s] \in Fractions
                     /\ split.alloc[s] \in Fractions /\ AtMost(low[s], split.alloc[s])
    BY <1>1, <1>2, <1>3, RatioIsFraction
  <2> HIDE DEF low
  <2>2. FractionSum(S, low) = Ratio(T, 1)
    BY <1>1, <2>1, SumOverOneDenominator
  <2> QED BY <1>1, <2>1, <2>2, SumsAreOrdered
<1>11. FractionSum(S, high) = Ratio(T + n, 1) /\ AtMost(A, FractionSum(S, high))
  <2>1. \A s \in S : /\ a[s] \in Int /\ more[s] = a[s] + 1 /\ more[s] \in Int
                     /\ high[s] = Ratio(more[s], 1) /\ high[s] \in Fractions
                     /\ split.alloc[s] \in Fractions /\ AtMost(split.alloc[s], high[s])
    BY <1>1, <1>2, <1>3, RatioIsFraction
  <2> HIDE DEF high, more
  <2>2. IntSum(S, more) = T + n
    BY <1>1, <2>1, TotalWithOnes
  <2>3. FractionSum(S, high) = Ratio(IntSum(S, more), 1)
    BY <1>1, <2>1, SumOverOneDenominator
  <2> QED BY <1>1, <2>1, <2>2, <2>3, SumsAreOrdered
<1>12. A \in Fractions
  BY <1>1, <1>2, SumAdds
<1> HIDE DEF A, o, T, n, low, high, raw
<1>13. T * 100 <= total * weight
  <2>1. AtMost(A, Plus(A, o))
    BY <1>2, <1>12, LargerByDifference
  <2>2. Ratio(T, 1) \in Fractions /\ Ratio(total * weight, 100) \in Fractions
    BY <1>1, <1>8, <1>9, RatioIsFraction
  <2>3. AtMost(Ratio(T, 1), Ratio(total * weight, 100))
    BY <1>2, <1>9, <1>10, <1>12, <2>1, <2>2, FractionsAreOrdered
  <2>4. T * 100 <= (total * weight) * 1
    BY <1>1, <1>8, <1>9, <2>3, RatiosCompare
  <2> QED BY <1>9, <2>4
<1>14. ASSUME ~Calls!Allocator!Counts(o) PROVE total * weight <= (T + n + 1) * 100
  <2>1. o[1] \in Int /\ o[2] \in Int /\ o[2] > 0
    BY <1>2, FractionParts
  <2>2. AtMost(o, <<1, 100>>)
    BY <1>14, AllocatorFractions DEF Calls!Allocator!Counts, Calls!Allocator!Above
  <2>3. AtMost(o, Whole(1)) /\ Whole(1) = Ratio(1, 1) /\ Whole(1) \in Fractions
    <3>1. o[1] * 100 <= 1 * o[2]
      BY <2>2 DEF AtMost
    <3>2. o[1] * 1 <= 1 * o[2]
      BY <2>1, <3>1
    <3> QED BY <3>2, WholeIsRatio DEF AtMost, Whole
  <2>4. T + n \in Int /\ Ratio(T + n, 1) \in Fractions
    BY <1>1, <1>8, RatioIsFraction
  <2>5. Plus(Ratio(T + n, 1), Ratio(1, 1)) = Ratio((T + n) * 1 + 1 * 1, 1 * 1)
    BY <1>1, <2>4, PlusIsRatio
  <2>6. (T + n) * 1 + 1 * 1 = T + n + 1 /\ 1 * 1 = 1
    BY <2>4
  <2>7. AtMost(Plus(A, o), Plus(Ratio(T + n, 1), Ratio(1, 1)))
    BY <1>2, <1>11, <1>12, <2>3, <2>4, PlusKeepsOrder
  <2>8. AtMost(Ratio(total * weight, 100), Ratio(T + n + 1, 1))
    BY <1>2, <1>9, <2>5, <2>6, <2>7
  <2>9. (total * weight) * 1 <= (T + n + 1) * 100
    BY <1>1, <1>9, <2>4, <2>8, RatiosCompare
  <2> QED BY <1>9, <2>9
<1> QED BY <1>7, <1>8, <1>13, <1>14 DEF a, weight, o, n

\* The allocator's split of any capital, over up to one strategy more than it makes
\* iterations, whose weights are at most the whole: within every cap, and nothing
\* idle while a strategy has room.
LEMMA AllocationFits ==
    ASSUME AllocatorConfigured, NEW reg, NEW total \in Nat, NEW mode,
           IsRegistry(reg, Calls!Allocator!Candidates(reg, mode)),
           Cardinality(Calls!Allocator!Candidates(reg, mode)) <= MaxIterations + 1,
           Calls!Allocator!WeightOf(reg, Calls!Allocator!Candidates(reg, mode)) <= 100
    PROVE  /\ \A redistribute \in BOOLEAN : Calls!Allocator!WithinCaps(reg, total, mode, redistribute)
           /\ Calls!Allocator!NoIdleOverflow(reg, total, mode)
<1> DEFINE S == Calls!Allocator!Candidates(reg, mode)
           weight == Calls!Allocator!WeightOf(reg, S)
           split(r) == Calls!Allocator!Split(reg, total, S, r)
           alloc(r) == Calls!Allocator!Allocation(reg, total, mode, r)
           none == [s \in S |-> 0]
<1>1. \A r \in BOOLEAN : alloc(r) = IF weight = 0 THEN none ELSE Floors(S, split(r))
  BY DEF Calls!Allocator!Allocation, Floors
<1>2. \A r \in BOOLEAN : Fair(reg, total, S, split(r))
  BY SplitIsFair
<1>3. Done(reg, total, split(TRUE))
  BY SplitIsFair
<1>4. \A r \in BOOLEAN :
        LET a == Floors(S, split(r))
        IN  /\ weight \in Nat /\ Calls!Allocator!Allocated(a) \in Int
            /\ Calls!Allocator!Allocated(a) * 100 <= total * weight
            /\ ~Calls!Allocator!Counts(split(r).overflow) =>
                 total * weight <= (Calls!Allocator!Allocated(a) + Cardinality(S) + 1) * 100
  <2> HIDE DEF S, split
  <2> QED BY <1>2, FloorsAddUp DEF S
<1>5. IsFiniteSet(S) /\ Cardinality(S) \in Nat /\ \A s \in S : reg[s].weight \in Nat /\ reg[s].cap \in Nat
  BY FS_CardinalityType DEF IsRegistry
<1>6. weight \in Nat /\ weight <= 100 /\ total * weight <= total * 100 /\ total * weight \in Nat
  <2>1. weight \in Nat /\ weight <= 100
    BY <1>4
  <2> HIDE DEF weight
  <2>2. total * 100 = total * weight + total * (100 - weight) /\ total * (100 - weight) \in Nat
        /\ total * weight \in Nat
    BY <2>1
  <2> QED BY <2>1, <2>2
<1>7. ASSUME NEW r \in BOOLEAN PROVE DOMAIN alloc(r) = S
  BY <1>1 DEF Floors
<1> HIDE DEF S, split, alloc, weight
<1>8. CASE weight = 0
  <2>1. Calls!Allocator!Allocated(none) = 0
    <3> DEFINE one == [s \in S |-> 1]
    <3>1. IntSum(S, [s \in S |-> 0 * one[s]]) = 0 * IntSum(S, one) /\ IntSum(S, one) \in Int
      <4>1. \A s \in S : one[s] \in Int
        OBVIOUS
      <4> HIDE DEF one
      <4> QED BY <1>5, <4>1, TotalOfMultiples, IntSumAdds
    <3>2. [s \in S |-> 0 * one[s]] = none
      OBVIOUS
    <3>3. none = [s \in S |-> none[s]] /\ \A s \in S : none[s] \in Int
      OBVIOUS
    <3> HIDE DEF one, none
    <3>4. Calls!Allocator!Allocated(none) = IntSum(S, none)
      BY <1>5, <3>3, AllocatedIsTotal
    <3> QED BY <3>1, <3>2, <3>4
  <2>2. ASSUME NEW r \in BOOLEAN PROVE Calls!Allocator!WithinCaps(reg, total, mode, r)
    <3>1. alloc(r) = none /\ \A s \in S : none[s] = 0
      BY <1>1, <1>8
    <3>2. \A s \in S : total * reg[s].cap \in Nat
      BY <1>5
    <3> HIDE DEF none
    <3>3. \A s \in S : none[s] * 100 <= total * reg[s].cap
      BY <3>1, <3>2
    <3>4. Calls!Allocator!WeightOf(reg, DOMAIN alloc(r)) = 0
      BY <1>7, <1>8 DEF weight
    <3> QED BY <1>7, <2>1, <3>1, <3>3, <3>4 DEF Calls!Allocator!WithinCaps, alloc
  <2>3. Calls!Allocator!NoIdleOverflow(reg, total, mode)
    <3>1. Calls!Allocator!WeightOf(reg, DOMAIN alloc(TRUE)) = 0
      BY <1>7, <1>8 DEF weight
    <3>2. ~(Calls!Allocator!WeightOf(reg, DOMAIN alloc(TRUE)) > 0)
      <4>1. \A k : k = 0 => ~(k > 0)
        OBVIOUS
      <4> QED BY ONLY <3>1, <4>1, Zenon
    <3> QED BY <3>2, Zenon DEF Calls!Allocator!NoIdleOverflow, alloc
  <2> QED BY <2>2, <2>3
<1>9. CASE weight # 0
  <2>1. \A r \in BOOLEAN : alloc(r) = Floors(S, split(r))
    BY <1>1, <1>9
  <2>2. ASSUME NEW r \in BOOLEAN, NEW s \in S
        PROVE  LET a == Floors(S, split(r))
               IN  /\ a[s] \in Int
                   /\ AtMost(Ratio(a[s], 1), split(r).alloc[s])
                   /\ AtMost(split(r).alloc[s], Ratio(a[s] + 1, 1))
                   /\ a[s] * 100 <= total * reg[s].cap
                   /\ (a[s] + 1) * 100 > total * (IF reg[s].weight < reg[s].cap
                                                  THEN reg[s].weight ELSE reg[s].cap)
                   /\ (a[s] + 1) * 100 <= total * reg[s].cap =>
                        s \in Calls!Allocator!HasRoom(reg, total, split(r).alloc)
    BY <1>2, FloorsFit DEF S
  <2>3. ASSUME NEW r \in BOOLEAN PROVE Calls!Allocator!WithinCaps(reg, total, mode, r)
    <3>1. Calls!Allocator!Allocated(alloc(r)) <= total
      <4>1. Calls!Allocator!Allocated(alloc(r)) * 100 <= total * 100 /\ Calls!Allocator!Allocated(alloc(r)) \in Int
        BY <1>4, <1>6, <2>1
      <4> QED BY <4>1
    <3>2. \A s \in DOMAIN alloc(r) :
            /\ alloc(r)[s] * 100 <= total * reg[s].cap
            /\ (alloc(r)[s] + 1) * 100 > total * (IF reg[s].weight < reg[s].cap
                                                  THEN reg[s].weight ELSE reg[s].cap)
      BY <1>7, <2>1, <2>2
    <3> QED BY <3>1, <3>2 DEF Calls!Allocator!WithinCaps, alloc
  <2>4. Calls!Allocator!NoIdleOverflow(reg, total, mode)
    <3> DEFINE a == alloc(TRUE)
               given == Calls!Allocator!Allocated(a)
               n == Cardinality(S)
    <3>1. DOMAIN a = S
      BY <1>7
    <3>2. ASSUME NEW s \in S, (a[s] + 1) * 100 <= total * reg[s].cap
          PROVE  (total - given) * 100 <= total * (100 - weight) + 100 * (n + 1)
      <4>1. s \in Calls!Allocator!HasRoom(reg, total, split(TRUE).alloc)
        BY <2>1, <2>2, <3>2
      <4>2. ~Calls!Allocator!Counts(split(TRUE).overflow)
        BY <1>3, <4>1 DEF Done
      <4>3. total * weight <= (given + n + 1) * 100 /\ given \in Int
        BY <1>4, <2>1, <4>2
      <4>4. n \in Nat
        BY <1>5
      <4> HIDE DEF given, n, a
      <4>5. total * (100 - weight) = total * 100 - total * weight
        BY <1>6
      <4> QED BY <1>6, <4>3, <4>4, <4>5
    <3>3. Calls!Allocator!Cardinality(DOMAIN a) = n
      BY <3>1 DEF Calls!Allocator!Cardinality, Cardinality
    <3>4. Calls!Allocator!WeightOf(reg, DOMAIN a) = weight
      BY <3>1 DEF weight
    <3> HIDE DEF n
    <3> QED BY <3>1, <3>2, <3>3, <3>4 DEF Calls!Allocator!NoIdleOverflow, alloc
  <2> QED BY <2>3, <2>4
<1> QED BY <1>8, <1>9

\* The orders and the registries that are asked about are of the inputs.
CallsInv ==
    /\ call.kind = "size" => call.inputs \in Calls!Inputs
    /\ call.kind = "allocate" =>
         call.registry \in Calls!Registries /\ call.total \in {0, 7, 1000}

\* Each call keeps it.
LEMMA CallsInvStep ==
    ASSUME CallsInv, [Calls!Next]_call
    PROVE  CallsInv'
<1>1. CASE Calls!CallSizer
  BY <1>1 DEF Calls!CallSizer, CallsInv
<1>2. CASE Calls!CallAllocator
  BY <1>2 DEF Calls!CallAllocator, CallsInv
<1>3. CASE \/ Calls!CallAnalyzer \/ Calls!CallAdvisor \/ Calls!CallReporter \/ Calls!CallStages
           \/ Calls!CallStrategy \/ Calls!CallCalendar
  <2>1. ASSUME Calls!CallAnalyzer PROVE call'.kind \notin {"size", "allocate"}
    BY <2>1 DEF Calls!CallAnalyzer
  <2>2. ASSUME Calls!CallAdvisor PROVE call'.kind \notin {"size", "allocate"}
    BY <2>2 DEF Calls!CallAdvisor
  <2>3. ASSUME Calls!CallReporter PROVE call'.kind \notin {"size", "allocate"}
    <3>1. \/ \E f, n : call' = [kind |-> "breaches", found |-> f, rejections |-> n]
          \/ \E a : \/ call' = [kind |-> "findings", answers |-> a]
                   \/ call' = [kind |-> "risk", answers |-> a]
                   \/ call' = [kind |-> "profit", answers |-> a]
          \/ \E s, f : call' = [kind |-> "decompose", snapshot |-> s, fills |-> f]
          \/ \E e : call' = [kind |-> "attribute", entries |-> e]
      BY <2>3, Zenon DEF Calls!CallReporter
    <3> QED BY <3>1
  <2>4. ASSUME Calls!CallStages PROVE call'.kind \notin {"size", "allocate"}
    BY <2>4 DEF Calls!CallStages
  <2>5. ASSUME Calls!CallStrategy PROVE call'.kind \notin {"size", "allocate"}
    BY <2>5 DEF Calls!CallStrategy
  <2>6. ASSUME Calls!CallCalendar PROVE call'.kind \notin {"size", "allocate"}
    BY <2>6 DEF Calls!CallCalendar
  <2> QED BY <1>3, <2>1, <2>2, <2>3, <2>4, <2>5, <2>6 DEF CallsInv
<1>4. CASE call' = Calls!Idle \/ UNCHANGED call
  BY <1>4 DEF CallsInv, Calls!Idle
<1> QED
  BY <1>1, <1>2, <1>3, <1>4 DEF Calls!Next

\* Three names are at most three.
LEMMA ThreeAtMost ==
    ASSUME NEW S, NEW a, NEW b, NEW c, S = {a, b, c}
    PROVE  IsFiniteSet(S) /\ Cardinality(S) \in Nat /\ Cardinality(S) <= 3
<1>1. PICK A : A = {a}
  OBVIOUS
<1>2. PICK B : B = A \union {b}
  OBVIOUS
<1>3. IsFiniteSet({}) /\ Cardinality({}) = 0
  BY FS_EmptySet
<1>4. A = {} \union {a}
  BY <1>1
<1>5. IsFiniteSet(A) /\ Cardinality(A) \in Nat /\ Cardinality(A) <= 1
  BY <1>3, <1>4, FS_AddElement
<1>6. IsFiniteSet(B) /\ Cardinality(B) \in Nat /\ Cardinality(B) <= 2
  BY <1>2, <1>5, FS_AddElement
<1>7. S = B \union {c}
  BY <1>1, <1>2
<1>8. /\ IsFiniteSet(B \union {c})
      /\ Cardinality(B \union {c}) = IF c \in B THEN Cardinality(B) ELSE Cardinality(B) + 1
  BY <1>6, FS_AddElement
<1>9. PICK m \in Nat : m = Cardinality(B) /\ m <= 2
  BY <1>6
<1>10. Cardinality(B \union {c}) = m \/ Cardinality(B \union {c}) = m + 1
  BY <1>8, <1>9
<1>11. PICK n : n = Cardinality(B \union {c}) /\ n = Cardinality(S)
  BY <1>7
<1>12. n \in Nat /\ n <= 3
  BY <1>9, <1>10, <1>11
<1> QED BY <1>7, <1>8, <1>11, <1>12

\* A registry of three strategies of a third each, at most, holds no more than
\* the capital.
LEMMA ThreeThirdsFit ==
    ASSUME NEW reg \in Calls!Registries, NEW mode
    PROVE  LET S == Calls!Allocator!Candidates(reg, mode) IN
           /\ IsRegistry(reg, S) /\ Cardinality(S) <= 3 /\ Calls!Allocator!WeightOf(reg, S) <= 100
<1> DEFINE S == Calls!Allocator!Candidates(reg, mode)
           w == Weights(reg, S)
           ones == [s \in S |-> 1]
           thirds == [s \in S |-> 33 * ones[s]]
<1>1. /\ DOMAIN reg = {"s1", "s2", "s3"}
      /\ \A s \in DOMAIN reg : reg[s].weight \in Nat /\ reg[s].cap \in Nat /\ reg[s].weight <= 33
  <2> DEFINE Listed == [enabled : {TRUE}, paper : {FALSE}, weight : {0, 20, 33},
                        cap : {0, 20, 30, 50}]
             Others == [enabled : BOOLEAN, paper : {TRUE}, weight : {33}, cap : {30}]
  <2>1. reg \in [{"s1", "s2", "s3"} -> Listed \union Others]
    BY DEF Calls!Registries
  <2>2. \A e \in Listed \union Others : e.weight \in Nat /\ e.cap \in Nat /\ e.weight <= 33
    <3>1. \A e \in Listed : e.weight \in {0, 20, 33} /\ e.cap \in {0, 20, 30, 50}
      OBVIOUS
    <3>2. \A e \in Listed : e.weight \in Nat /\ e.cap \in Nat /\ e.weight <= 33
      BY <3>1
    <3>3. \A e \in Others : e.weight = 33 /\ e.cap = 30
      OBVIOUS
    <3> HIDE DEF Listed, Others
    <3> QED BY <3>2, <3>3
  <2> HIDE DEF Listed, Others
  <2> QED BY <2>1, <2>2
<1>2. S \subseteq DOMAIN reg
  BY DEF Calls!Allocator!Candidates, Calls!Allocator!LiveEligible, Calls!Allocator!Active
<1> HIDE DEF S
<1>3. IsFiniteSet(DOMAIN reg) /\ Cardinality(DOMAIN reg) \in Nat /\ Cardinality(DOMAIN reg) <= 3
  BY <1>1, ThreeAtMost
<1>4. IsFiniteSet(S) /\ Cardinality(S) \in Nat /\ Cardinality(S) <= 3
  BY <1>2, <1>3, FS_Subset, FS_CardinalityType
<1>5. IsRegistry(reg, S)
  BY <1>1, <1>2, <1>4 DEF IsRegistry
<1>6. Calls!Allocator!WeightOf(reg, S) = IntSum(S, w)
  BY <1>5, WeightsAreTotals
<1>7. /\ \A s \in S : w[s] \in Int /\ ones[s] \in Int /\ thirds[s] \in Int /\ w[s] <= thirds[s]
      /\ IntSum(S, ones) = Cardinality(S)
  BY <1>1, <1>2, <1>4, TotalOfOnes DEF Weights
<1>8. IntSum(S, thirds) = 33 * IntSum(S, ones)
  <2>1. \A s \in S : ones[s] \in Int
    OBVIOUS
  <2> HIDE DEF ones
  <2> QED BY <1>4, <2>1, TotalOfMultiples
<1> HIDE DEF w, ones, thirds
<1>9. IntSum(S, w) <= IntSum(S, thirds)
  BY <1>4, <1>7, TotalsAreOrdered
<1>10. IntSum(S, w) \in Int
  BY <1>4, <1>7, IntSumAdds
<1>11. IntSum(S, w) <= 100
  BY <1>4, <1>7, <1>8, <1>9, <1>10
<1> QED BY <1>4, <1>5, <1>6, <1>11 DEF S

\* An order is on the tick and as large as, but no larger than, its limits;
\* the capital stays within the caps and is not left over while one has room
\* (execution/sizing.py, tick_size.py, strategies/capital_allocator.py).
LEMMA CallsFit ==
    ASSUME SizingConfigured, AllocatorConfigured, MaxIterations >= 2
    PROVE  Calls!Spec => []Calls!OrdersAndCapitalFit
<1>1. Calls!Init => CallsInv
  BY DEF Calls!Init, Calls!Idle, CallsInv
<1>2. CallsInv /\ [Calls!Next]_call => CallsInv'
  BY CallsInvStep
<1>3. CallsInv => Calls!OrdersAndCapitalFit
  <2> SUFFICES ASSUME CallsInv PROVE Calls!OrdersAndCapitalFit
    OBVIOUS
  <2>1. ASSUME call.kind = "size"
        PROVE  Calls!Sizing!PriceIsOnTick(call.inputs) /\ Calls!Sizing!SizedToTheLimit(call.inputs)
    <3>1. \A i \in Calls!Inputs : IsSizing(i)
      BY DEF Calls!Inputs, IsSizing
    <3>2. IsSizing(call.inputs)
      BY <2>1, <3>1 DEF CallsInv
    <3> QED BY <3>2, PricesFit, SizesFit
  <2>2. ASSUME call.kind = "allocate"
        PROVE  /\ \A redistribute \in BOOLEAN :
                    Calls!Allocator!WithinCaps(call.registry, call.total, call.mode, redistribute)
               /\ Calls!Allocator!NoIdleOverflow(call.registry, call.total, call.mode)
    <3>1. PICK reg : reg = call.registry /\ reg \in Calls!Registries
      BY <2>2 DEF CallsInv
    <3>2. PICK total \in Nat : total = call.total
      BY <2>2 DEF CallsInv
    <3>3. PICK mode : mode = call.mode
      OBVIOUS
    <3> DEFINE S == Calls!Allocator!Candidates(reg, mode)
    <3>4. IsRegistry(reg, S) /\ Cardinality(S) <= 3 /\ Calls!Allocator!WeightOf(reg, S) <= 100
      BY <3>1, ThreeThirdsFit
    <3>5. Cardinality(S) <= MaxIterations + 1
      <4>1. Cardinality(S) \in Nat
        BY <3>4, FS_CardinalityType DEF IsRegistry
      <4> QED BY <3>4, <4>1 DEF AllocatorConfigured
    <3>6. /\ \A redistribute \in BOOLEAN : Calls!Allocator!WithinCaps(reg, total, mode, redistribute)
          /\ Calls!Allocator!NoIdleOverflow(reg, total, mode)
      BY <3>4, <3>5, AllocationFits
    <3> QED BY <3>1, <3>2, <3>3, <3>6
  <2> QED BY <2>1, <2>2 DEF Calls!OrdersAndCapitalFit
<1> QED
  BY <1>1, <1>2, <1>3, PTL DEF Calls!Spec

-----------------------------------------------------------------------------
(* What the desk says of its data *)

\* A load of the symbol master never mixes masters that share a code, bars add up
\* and show their gaps whatever was ingested over what, a quote that is fresh is
\* found, and the calendars agree on the hours (data/).
THEOREM DataIsHonestAlways ==
    ASSUME BarsConfigured, QuotesConfigured
    PROVE  DeskSpec => []DataIsHonest
<1>1. DeskSpec => Data!Spec /\ Calls!Spec
  <2>1. DeskInit => Data!Init /\ Calls!Init
    BY DEF DeskInit
  <2>2. [DeskNext]_<<vars, desk>> => [Data!Next]_(Data!vars) /\ [Calls!Next]_call
    BY PartsStepAlone
  <2> QED BY <2>1, <2>2, PTL DEF DeskSpec, Data!Spec, Calls!Spec
<1>2. Data!Spec => []Data!TypeOK
  <2>1. Data!Init => DataInv /\ QuotesInv
    BY FS_EmptySet DEF Data!Init, DataInv, QuotesInv, QuotesTypes, InOrderUnlessLate
  <2>2. DataInv /\ QuotesInv /\ [Data!Next]_(Data!vars) => DataInv' /\ QuotesInv'
    BY DataInvStep, QuotesInvStep
  <2> QED BY <2>1, <2>2, DataTypesFit, PTL DEF Data!Spec
<1>3. /\ Data!TypeOK /\ Data!MasterIsWhole /\ Data!BarsAddUp /\ Data!FreshQuotesAreFound
      /\ Calls!CalendarsTellTheHours
      => DataIsHonest
  BY DEF DataIsHonest
<1> QED
  BY <1>1, <1>2, <1>3, MasterIsWholeAlways, BarsAddUpAlways, FreshQuotesAreFoundAlways,
     CalendarsTellTheHoursAlways, PTL

\* Every order the sizer accepts, whatever it is given, is on the tick on the
\* right side of its price and as large as, but no larger than, the limits of one
\* order allow; and the split of any capital over any registry, of up to one
\* strategy more than there are iterations and weights of at most the whole, stays
\* within every cap and is not left over while a strategy has room
\* (execution/sizing.py, tick_size.py, strategies/capital_allocator.py).
THEOREM SizesAndSharesFit ==
    ASSUME SizingConfigured, AllocatorConfigured
    PROVE  /\ \A i : IsSizing(i) => Calls!Sizing!PriceIsOnTick(i) /\ Calls!Sizing!SizedToTheLimit(i)
           /\ \A reg, mode : \A total \in Nat :
                /\ IsRegistry(reg, Calls!Allocator!Candidates(reg, mode))
                /\ Cardinality(Calls!Allocator!Candidates(reg, mode)) <= MaxIterations + 1
                /\ Calls!Allocator!WeightOf(reg, Calls!Allocator!Candidates(reg, mode)) <= 100
                => /\ \A redistribute \in BOOLEAN :
                        Calls!Allocator!WithinCaps(reg, total, mode, redistribute)
                   /\ Calls!Allocator!NoIdleOverflow(reg, total, mode)
<1>1. \A i : IsSizing(i) => Calls!Sizing!PriceIsOnTick(i) /\ Calls!Sizing!SizedToTheLimit(i)
  BY PricesFit, SizesFit
<1>2. ASSUME NEW reg, NEW mode, NEW total \in Nat,
             IsRegistry(reg, Calls!Allocator!Candidates(reg, mode)),
             Cardinality(Calls!Allocator!Candidates(reg, mode)) <= MaxIterations + 1,
             Calls!Allocator!WeightOf(reg, Calls!Allocator!Candidates(reg, mode)) <= 100
      PROVE  /\ \A redistribute \in BOOLEAN :
                  Calls!Allocator!WithinCaps(reg, total, mode, redistribute)
             /\ Calls!Allocator!NoIdleOverflow(reg, total, mode)
  BY <1>2, AllocationFits
<1> QED BY <1>1, <1>2

\* Of every call that is made: an order is on the tick and as large as, but no
\* larger than, the limits of one order allow; capital stays within each strategy's
\* cap and is not left over while one has room.
THEOREM OrdersAndCapitalFitAlways ==
    ASSUME SizingConfigured, AllocatorConfigured, MaxIterations >= 2
    PROVE  DeskSpec => []OrdersAndCapitalFit
<1>1. DeskSpec => Calls!Spec
  <2>1. DeskInit => Calls!Init
    BY DEF DeskInit
  <2>2. [DeskNext]_<<vars, desk>> => [Calls!Next]_call
    BY PartsStepAlone
  <2> QED BY <2>1, <2>2, PTL DEF DeskSpec, Calls!Spec
<1>2. Calls!OrdersAndCapitalFit => OrdersAndCapitalFit
  BY DEF OrdersAndCapitalFit
<1> QED
  BY <1>1, <1>2, CallsFit, PTL
=============================================================================
